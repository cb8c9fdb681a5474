----------------------------- MODULE MCAccounts -----------------------------
(***************************************************************************)
(* Instances of Accounts.  Invitations are explored with one organisation, *)
(* racing signups with two: Bound keeps the two apart, takes the           *)
(* organisations in one order, and has one person invited.                 *)
(***************************************************************************)
EXTENDS Accounts

CONSTANT First

Bound ==
  /\ \A o \in Org \ {First} :
       orgs[o] # Nobody => /\ orgs[First] # Nobody
                           /\ \A k \in Key : invites[k] = NoInvite
  /\ \A k, l \in Key : invites[k] # NoInvite /\ invites[l] # NoInvite => k = l

BoundedSpec == AccountsInit /\ [][AccountsNext /\ Bound']_accountsVars /\ AccountsFairness
=============================================================================
