----------------------------- MODULE MCChannels -----------------------------
(***************************************************************************)
(* Instances of Channels: requests and channel ids are interchangeable.    *)
(***************************************************************************)
EXTENDS Channels, Naturals, FiniteSets, TLC

\* A message and a comment of the same person.
MCEvents == {ev \in Event : ev.kind \in {"direct", "comment"}}

\* Of two subjects one has an address in it.
MCAddressIn == [s \in Subject |-> IF s = CHOOSE x \in Subject : TRUE THEN Nowhere ELSE CHOOSE p \in Person : TRUE]

\* At most two things at a time: calls being served and events on file, webhooks
\* on their way and events on file.  One event on file.
MCBound ==
  /\ Cardinality(filed) <= 1
  /\ Cardinality({q \in Request : ~At(q, "free")}) + Cardinality(filed) <= 2
  /\ Cardinality(pending) + Cardinality(filed) <= 2

MCSymmetry == Permutations(Request) \cup Permutations(Chan) \cup Permutations(Org)
=============================================================================
