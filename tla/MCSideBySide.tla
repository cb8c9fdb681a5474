---------------------------- MODULE MCSideBySide ----------------------------
(***************************************************************************)
(* Three small instances that share no state, checked side by side: a      *)
(* campaign under fairness, the inbox view of an EMAIL channel, and the    *)
(* statistics of a day.  Only one of the three leaves its initial state,   *)
(* so their states add up and do not multiply.                             *)
(***************************************************************************)
EXTENDS Campaign, Mailbox, Analytics

AllInit == Init /\ MailboxInit /\ AnalyticsInit

AllNext ==
  \/ MailboxInit /\ AnalyticsInit /\ Next /\ UNCHANGED <<mailVars, statsVars>>
  \/ Init /\ AnalyticsInit /\ MailboxNext /\ UNCHANGED <<vars, statsVars>>
  \/ Init /\ MailboxInit /\ AnalyticsNext /\ UNCHANGED <<vars, mailVars>>

AllSpec == AllInit /\ [][AllNext]_<<vars, mailVars, statsVars>> /\ Fairness

\* The state of the inbox view and of the statistics have their types.
SideBySideTypeOK == MailboxTypeOK /\ AnalyticsTypeOK
=============================================================================
