---- MODULE MCIdempotentConsumer ----
(* IdempotentConsumer on small instances, where pods are model values and    *)
(* alike, and what such a consumer reads out of its events.                  *)
EXTENDS UserEventConsumer, TLC

Msg(event, copy, header, id, event_id) ==
  [event |-> event, copy |-> copy, header |-> header, id |-> id, event_id |-> event_id]

\* One event with a header beside a foreign id, in a native envelope with two
\* ids, and with a header nobody can read.
OneEvent ==
  {Msg("e1", 1, "e1", "row7", ""), Msg("e1", 2, "", "e1", "batch3"),
   Msg("e1", 3, "junk", "e1", "")}

Value(kind, items) == [kind |-> kind, items |-> items]
Missing == Value("other", {})
Lists(items) == {Value(kind, items) : kind \in {"[]string", "[]any"}}

\* Payloads decided and undecided, typed and from JSON, clean and not.
SomePayloads ==
  [services : {Missing, Value("string", {"pos"})}
                \cup UNION {Lists(i) : i \in {{}, {"pos"}, {"*"}, {"hr"}, {"hr", " pos"}}},
   roles : {Missing} \cup UNION {Lists(i) : i \in {{"Admin"}, {"waiter"}, {"cashier"}}},
   outlet_ids : {Missing, Value("[]any", {"o2", "<7>"})} \cup Lists({"o1"}),
   outlet_id : {Missing, Value("string", {"o2"}), Value("string", {" "})}]

PodSymmetry == Permutations(Pods)
====
