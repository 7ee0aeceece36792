------------------------------- MODULE Event --------------------------------
(***************************************************************************)
(* The event envelope (event.go) as the outbox needs it: an identity, the  *)
(* order of creation, and whether the stored payload can be decoded again. *)
(***************************************************************************)
EXTENDS Naturals

CONSTANTS
  Events,     \* the events, named by their rank in created_at order
  Undecodable \* events whose stored payload FromJSON rejects

ASSUME EventAssumption ==
  /\ Events \subseteq Nat \ {0}
  /\ Undecodable \subseteq Events

\* Stands for "no event" where one is expected.
NoEvent == 0

\* FromJSON returns no error for the payload stored with e.
FromJSON(e) == e \notin Undecodable
=============================================================================
