---------------------------- MODULE EventReaders ----------------------------
(***************************************************************************)
(* What a consumer reads out of an event: the two decoders (event.go,      *)
(* decode.go) and the user relevance filter (relevance.go).  They keep no  *)
(* state.  Strings are members of a small set; TrimSpace, ToLower and      *)
(* uuid.Parse are given by what they do on it.                             *)
(***************************************************************************)
CONSTANTS
  Payloads,    \* payloads of auth.user events: [services, roles, outlet_ids, outlet_id]
  OutletKnown, \* the outlets the service mirrors
  Services     \* values of UserRelevance.Service

\* A JSON value is [kind, items]: a []string, a []any, a string or anything
\* else, which is read as no strings; "<7>" is an item that is no string.
Values ==
  {v \in [kind : {"[]string", "[]any", "string", "other"}, items : SUBSET STRING] :
     /\ v.kind = "[]string" => "<7>" \notin v.items
     /\ v.kind = "other" => v.items = {}}

ASSUME PayloadAssumption ==
  Payloads \subseteq
    [services : Values, roles : Values, outlet_ids : Values, outlet_id : Values]

-----------------------------------------------------------------------------
(* The decoders.  Data is [json, payload]: the envelope parses or does not, *)
(* and the shape of its payload.                                           *)

Data == [json : BOOLEAN, payload : {"absent", "null", "object", "array"}]

\* The shapes encoding/json reads into a map; null and absence leave it empty.
Map == {"null", "object"}

FromJSONFails(d) == ~d.json \/ (d.payload # "absent" /\ d.payload \notin Map)

\* DecodeEvent[T] returns an error; T is the shapes that fit.
DecodeEventFails(d, T) == ~d.json \/ (d.payload # "absent" /\ d.payload \notin T)

-----------------------------------------------------------------------------
(* The filter.                                                             *)

TrimSpace(s) == CASE s = " pos" -> "pos" [] s = " " -> "" [] OTHER -> s
ToLower(s) == IF s = "Admin" THEN "admin" ELSE s
IsUuid(s) == s \in {"o1", "o2"}

DefaultAdminRoles ==
  {"superuser", "super_admin", "admin", "owner", "tenant_admin", "administrator", "director"}
ServiceRoles == {"waiter"}

PayloadStrings(v) ==
  IF v.kind = "[]string" THEN v.items
  ELSE {TrimSpace(s) : s \in {s \in v.items : s # "<7>" /\ TrimSpace(s) # ""}}

PayloadOutletIDs(p) ==
  {s \in PayloadStrings(p.outlet_ids) \cup PayloadStrings(p.outlet_id) : IsUuid(s)}

\* Mutant: a list that did not come from JSON is not recognised.
KnownFromJSON(p) == p.services.kind = "[]any"

\* PayloadServices finds a list, if only an empty one.
Known(p) == p.services.kind \in {"[]string", "[]any"}

servicesAllow(p, service) == {"*", service} \cap PayloadStrings(p.services) # {}

Roles(p) == {ToLower(s) : s \in PayloadStrings(p.roles)}

\* Mutant: a service role outweighs the outlets.
RelevantRoleFirst(service, p) ==
  IF service # "" /\ Known(p) THEN servicesAllow(p, service)
  ELSE \/ Roles(p) \cap (DefaultAdminRoles \cup ServiceRoles) # {}
       \/ PayloadOutletIDs(p) \cap OutletKnown # {}

Relevant(service, p) ==
  IF service # "" /\ Known(p) THEN servicesAllow(p, service)
  ELSE \/ Roles(p) \cap DefaultAdminRoles # {}
       \/ PayloadOutletIDs(p) \cap OutletKnown # {}
       \/ PayloadOutletIDs(p) = {} /\ Roles(p) \cap ServiceRoles # {}

\* Mutant: no list counts as a list that leaves the service out.
RevokedUndecided(service, p) == service # "" /\ ~servicesAllow(p, service)

Revoked(service, p) == service # "" /\ Known(p) /\ ~servicesAllow(p, service)

=============================================================================
