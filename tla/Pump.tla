-------------------------------- MODULE Pump --------------------------------
(***************************************************************************)
(* The realtime path as a whole: pods, hubs, and the connections that Pump *)
(* serves (pump.go).  A connection has two goroutines, the write loop and  *)
(* the reader, and a context that either of them cancels.  The socket is   *)
(* external: its calls return an error once the client is gone or their    *)
(* context is done, and a write or a ping may time out.                    *)
(***************************************************************************)
EXTENDS FanoutHub

CONSTANTS
  Pumped,    \* the clients that Pump serves; others read their channel directly
  MaxReplies \* capacity of the replies channel (4)

ASSUME PumpAssumption == Pumped \subseteq Clients /\ MaxReplies \in Nat

VARIABLES
  writer,    \* where the write loop is
  frame,     \* what it is writing
  written,   \* what it has written, replies left out
  reader,    \* where the reader goroutine is
  replies,   \* how many replies wait
  cancelled, \* the connections whose context is done
  gone       \* the connections whose client has left

pumpVars == <<writer, frame, written, reader, replies, cancelled, gone>>
vars == <<relayVars, hubVars, pumpVars>>

Hello == 0
Reply == MaxPosts + 1

Init ==
  /\ HubInit
  /\ writer = [c \in Pumped |-> "off"] /\ reader = [c \in Pumped |-> "off"]
  /\ frame = [c \in Pumped |-> Hello]
  /\ written = [c \in Pumped |-> <<>>]
  /\ replies = [c \in Pumped |-> 0]
  /\ cancelled = {} /\ gone = {}

TypeOK ==
  /\ HubTypeOK
  /\ writer \in [Pumped -> {"off", "select", "write", "ended"}]
  /\ frame \in [Pumped -> Hello .. Reply]
  /\ written \in [Pumped -> Seq(Hello .. MaxPosts)]
  /\ reader \in [Pumped -> {"off", "read", "reply", "ended"}]
  /\ replies \in [Pumped -> 0 .. MaxReplies]
  /\ cancelled \subseteq Pumped /\ gone \subseteq Pumped

\* The socket's calls fail for sure, and may succeed.
Broken(c) == c \in cancelled \cup gone

\* A connection comes in: the hub has its Sub, and Pump starts with the hello
\* frame, or without one.
Start(c) ==
  /\ Subscribe(c)
  /\ \E first \in {"write", "select"} : writer' = [writer EXCEPT ![c] = first]
  /\ reader' = [reader EXCEPT ![c] = "read"]
  /\ UNCHANGED <<frame, written, replies, cancelled, gone>>

\* The write loop returns, and its deferred cancel ends the context.
End(c) ==
  /\ writer' = [writer EXCEPT ![c] = "ended"]
  /\ cancelled' = cancelled \cup {c}
  /\ UNCHANGED <<relayVars, hubVars, frame, written, reader, replies, gone>>

Write(c) ==
  /\ writer[c] = "write" /\ ~Broken(c)
  /\ writer' = [writer EXCEPT ![c] = "select"]
  /\ written' = [written EXCEPT ![c] = IF frame[c] = Reply THEN @ ELSE Append(@, frame[c])]
  /\ UNCHANGED <<relayVars, hubVars, frame, reader, replies, cancelled, gone>>

\* Mutant: the loop goes on after a failed write.
WriteFailsAndGoesOn(c) ==
  /\ writer[c] = "write"
  /\ writer' = [writer EXCEPT ![c] = "select"]
  /\ UNCHANGED <<relayVars, hubVars, frame, written, reader, replies, cancelled, gone>>

\* The socket is broken, or PumpWriteTimeout has passed.
WriteFails(c) == writer[c] = "write" /\ End(c)

\* The cases of select, each taken when the loop is there and it is ready.
Done(c) == writer[c] = "select" /\ c \in cancelled /\ End(c)

TakeMessage(c) ==
  /\ writer[c] = "select" /\ unread[c] > 0
  /\ Consume(c)
  /\ frame' = [frame EXCEPT ![c] = seen[c][Len(seen[c]) - unread[c] + 1]]
  /\ writer' = [writer EXCEPT ![c] = "write"]
  /\ UNCHANGED <<written, reader, replies, cancelled, gone>>

\* A closed channel is drained before it reports that it is closed.
ChannelClosed(c) == writer[c] = "select" /\ c \in shut /\ unread[c] = 0 /\ End(c)

TakeReply(c) ==
  /\ writer[c] = "select" /\ replies[c] > 0
  /\ replies' = [replies EXCEPT ![c] = @ - 1]
  /\ frame' = [frame EXCEPT ![c] = Reply]
  /\ writer' = [writer EXCEPT ![c] = "write"]
  /\ UNCHANGED <<relayVars, hubVars, written, reader, cancelled, gone>>

\* A ping that succeeds changes nothing.
PingFails(c) == writer[c] = "select" /\ End(c)

\* A frame comes in that gets a reply; any other frame changes nothing.
ReadFrame(c) ==
  /\ reader[c] = "read" /\ ~Broken(c)
  /\ reader' = [reader EXCEPT ![c] = "reply"]
  /\ UNCHANGED <<relayVars, hubVars, writer, frame, written, replies, cancelled, gone>>

\* Mutant: the reader waits for room among the replies.
QueueReplyBlocking(c) ==
  /\ reader[c] = "reply" /\ replies[c] < MaxReplies
  /\ replies' = [replies EXCEPT ![c] = @ + 1]
  /\ reader' = [reader EXCEPT ![c] = "read"]
  /\ UNCHANGED <<relayVars, hubVars, writer, frame, written, cancelled, gone>>

\* A reply that finds no room is dropped.
QueueReply(c) ==
  /\ reader[c] = "reply"
  /\ replies' = [replies EXCEPT ![c] = IF @ < MaxReplies THEN @ + 1 ELSE @]
  /\ reader' = [reader EXCEPT ![c] = "read"]
  /\ UNCHANGED <<relayVars, hubVars, writer, frame, written, cancelled, gone>>

ReadFails(c) ==
  /\ reader[c] = "read" /\ Broken(c)
  /\ reader' = [reader EXCEPT ![c] = "ended"]
  /\ cancelled' = cancelled \cup {c}
  /\ UNCHANGED <<relayVars, hubVars, writer, frame, written, replies, gone>>

\* The client leaves, or the service ends the context it gave to Pump.
Leaves(c) ==
  /\ writer[c] # "off" /\ c \notin gone
  /\ gone' = gone \cup {c}
  /\ UNCHANGED <<relayVars, hubVars, writer, frame, written, reader, replies, cancelled>>

Cancel(c) ==
  /\ writer[c] # "off" /\ c \notin cancelled
  /\ cancelled' = cancelled \cup {c}
  /\ UNCHANGED <<relayVars, hubVars, writer, frame, written, reader, replies, gone>>

Writer(c) ==
  \/ Write(c) \/ WriteFails(c)
  \/ Done(c) \/ TakeMessage(c) \/ ChannelClosed(c) \/ TakeReply(c)

Reader(c) == ReadFrame(c) \/ QueueReply(c) \/ ReadFails(c)

Next ==
  \/ \E c \in Pumped : Start(c) \/ Writer(c) \/ PingFails(c) \/ Reader(c) \/ Leaves(c) \/ Cancel(c)
  \/ /\ HubNext \/ \E c \in Clients \ Pumped : Subscribe(c) \/ Consume(c)
     /\ UNCHANGED pumpVars

Spec == Init /\ [][Next]_vars

\* Goroutines run, and select picks each of its ready cases in the long run.
\* Nothing is asked of clients: they need not read, and may stay for ever.
Fairness ==
  /\ \A w \in Workers : WF_vars(Deliver(w) /\ UNCHANGED pumpVars)
  /\ \A c \in Pumped :
       /\ WF_vars(Writer(c)) /\ WF_vars(Reader(c))
       /\ SF_vars(TakeMessage(c)) /\ SF_vars(ChannelClosed(c))

FairSpec == Spec /\ Fairness

-----------------------------------------------------------------------------
(* Properties.                                                             *)

\* "Hello first, then every message from sub.C" (Pump): what a client reads is
\* a prefix of what its channel was given, in order and without a gap.
WritesInOrder ==
  \A c \in Pumped :
    LET messages == IF written[c] # <<>> /\ written[c][1] = Hello
                    THEN Tail(written[c]) ELSE written[c]
    IN  IsPrefix(messages, seen[c])

\* Whichever of the client, the hub and the context ends the connection, both
\* goroutines end: neither waits for the other.
PumpEnds ==
  \A c \in Pumped :
    (c \in gone \cup shut \cup cancelled) ~>
      (writer[c] \in {"off", "ended"} /\ reader[c] \in {"off", "ended"})
=============================================================================
