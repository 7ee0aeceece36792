----------------------------- MODULE Multicast ------------------------------
(***************************************************************************)
(* What the realtime path promises its clients: best effort, at most once, *)
(* only to the audience of the message, and in the publisher's order.      *)
(***************************************************************************)
EXTENDS Naturals, Sequences, SequencesExt

CONSTANTS
  Clients,
  Audience(_, _), \* client c is in the audience of a post
  Posts           \* the posts that may be made

VARIABLES
  posted, \* every post so far, with its publisher
  seen    \* what each client's channel was given, as indexes into posted

vars == <<posted, seen>>

Init == posted = <<>> /\ seen = [c \in Clients |-> <<>>]

Post ==
  /\ \E p \in Posts : posted' = Append(posted, p)
  /\ UNCHANGED seen

\* c gets message m: not again, and not after a later one of its publisher.
Deliver(c, m) ==
  /\ Audience(c, posted[m])
  /\ \A k \in ToSet(seen[c]) : posted[k].by = posted[m].by => k < m
  /\ seen' = [seen EXCEPT ![c] = Append(@, m)]
  /\ UNCHANGED posted

Next == Post \/ \E c \in Clients : \E m \in DOMAIN posted : Deliver(c, m)

Spec == Init /\ [][Next]_vars
=============================================================================
