----------------------------- MODULE MCCampaign -----------------------------
(***************************************************************************)
(* Instances of Campaign, under all its faults and without initialisation. *)
(***************************************************************************)
EXTENDS Campaign, TLC

\* Recipients, jobs and workers are interchangeable (safety run only).
Interchangeable == Permutations(Recipient) \cup Permutations(Job) \cup Permutations(Worker)
=============================================================================
