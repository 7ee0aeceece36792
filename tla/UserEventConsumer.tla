------------------------- MODULE UserEventConsumer --------------------------
(***************************************************************************)
(* A consumer of auth.user events: the handlers of IdempotentConsumer, and *)
(* what they read out of the event they act on, whatever its payload.      *)
(***************************************************************************)
EXTENDS IdempotentConsumer, EventReaders

\* A handler acts on an event.
Acts == \E h \in Handlers : pc[h] = "act"

Undecided(s, p) == s = "" \/ p.services.kind \notin {"[]string", "[]any"}

\* What JSON makes of a payload: every list arrives as []any.
ViaJSON(p) ==
  [f \in DOMAIN p |-> IF p[f].kind = "[]string" THEN [p[f] EXCEPT !.kind = "[]any"] ELSE p[f]]

Clean(p) == \A f \in DOMAIN p : p[f].kind = "[]string" => \A s \in p[f].items : TrimSpace(s) = s

\* The payloads are judged once, not in every state.
Decoded == \A d \in Data : DecodeEventFails(d, Map) = FromJSONFails(d)
Revocations ==
  \A s \in Services, p \in Payloads :
    IF Undecided(s, p) THEN ~Revoked(s, p) ELSE Revoked(s, p) = ~Relevant(s, p)
Relayed ==
  \A s \in Services, p \in Payloads : Clean(p) =>
    Relevant(s, ViaJSON(p)) = Relevant(s, p) /\ Revoked(s, ViaJSON(p)) = Revoked(s, p)
Outlets ==
  \A s \in Services, p \in Payloads :
    /\ Undecided(s, p)
    /\ PayloadOutletIDs(p) # {} /\ PayloadOutletIDs(p) \cap OutletKnown = {}
    => Relevant(s, p) = (Roles(p) \cap DefaultAdminRoles # {})

\* "The ONE correct way to read an event payload" (DecodeEvent): an event reads
\* the same whichever way it came.  DecodeEvent takes what the outbox's FromJSON
\* takes, when T is as wide as a map; and a payload handed over inside the
\* process is judged like one from NATS, unless an entry has spaces around it.
ReadersAgree == Acts => Decoded /\ Relayed

\* "An older event or an undecided one never removes anybody" (Revoked): a
\* local copy is removed only on a list, never while the same event makes the
\* member relevant, and with a list one of the two always holds.
RevokedIsDecided == Acts => Revocations

\* "When the event names outlets, they decide" (UserRelevance, rule 2): roles
\* "shared by all" products must not bring people of other outlets in.  An
\* undecided event that names only outlets of other services concerns this one
\* only for an administrator.
OutletsDecide == Acts => Outlets
=============================================================================
