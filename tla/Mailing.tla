------------------------------- MODULE Mailing -------------------------------
(***************************************************************************)
(* What a campaign promises: everybody enrolled gets one outcome, and it   *)
(* ends only when nobody enrolled in time is left waiting.  An outcome is  *)
(* final unless the campaign was set going more than once (rounds), then a *)
(* later round may overwrite it, but nobody waits again.  It knows nothing *)
(* of jobs, batches or workers.                                            *)
(***************************************************************************)
EXTENDS Naturals

CONSTANT Recipient

VARIABLES
  status,
  recipients,
  late,       \* those enrolled after the launch
  rounds      \* how often the campaign was set going

Init ==
  /\ status = "DRAFT"
  /\ recipients = [r \in Recipient |-> "NONE"]
  /\ late = {}
  /\ rounds = 0

Enrol(r) ==
  /\ status # "GONE"
  /\ recipients[r] = "NONE"
  /\ recipients' = [recipients EXCEPT ![r] = "PENDING"]
  /\ late' = IF status = "DRAFT" THEN late ELSE late \cup {r}
  /\ UNCHANGED <<status, rounds>>

\* Launched, and perhaps launched again.
Launch ==
  /\ status # "GONE"
  /\ status' = "SENDING"
  /\ UNCHANGED <<recipients, late, rounds>>

Round ==
  /\ status # "DRAFT"
  /\ rounds' = rounds + 1
  /\ UNCHANGED <<status, recipients, late>>

Settle(r) ==
  /\ status # "DRAFT"
  /\ recipients[r] = "PENDING" \/ (recipients[r] # "NONE" /\ rounds > 1)
  /\ \E outcome \in {"SENT", "FAILED"} :
       recipients' = [recipients EXCEPT ![r] = outcome]
  /\ UNCHANGED <<status, late, rounds>>

Close ==
  /\ status = "SENDING"
  /\ \A r \in Recipient \ late : recipients[r] # "PENDING"
  /\ status' = "COMPLETED"
  /\ UNCHANGED <<recipients, late, rounds>>

Abandon ==
  /\ status' = "GONE"
  /\ recipients' = [r \in Recipient |-> "NONE"]
  /\ UNCHANGED <<late, rounds>>

Next ==
  \/ Launch \/ Round \/ Close \/ Abandon
  \/ \E r \in Recipient : Enrol(r) \/ Settle(r)

Spec == Init /\ [][Next]_<<status, recipients, late, rounds>>
=============================================================================
