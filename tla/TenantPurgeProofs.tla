------------------------- MODULE TenantPurgeProofs --------------------------
(***************************************************************************)
(* The theorems about TenantPurge, for every table list, foreign keys,     *)
(* messages, replicas and bounds.                                          *)
(***************************************************************************)
EXTENDS TenantPurge, TLAPS, SequenceTheorems, FiniteSetTheorems

LEMMA ToSetEmpty == ToSet(<<>>) = {}
  BY DEF ToSet

LEMMA ToSetOne == ASSUME NEW x PROVE ToSet(<<x>>) = {x}
<1>1. DOMAIN <<x>> = {1} /\ <<x>>[1] = x
  OBVIOUS
<1> QED  BY <1>1 DEF ToSet

LEMMA ToSetIn == ASSUME NEW S, NEW s \in Seq(S) PROVE ToSet(s) \subseteq S
  BY DEF ToSet

LEMMA ToSetSplit ==
  ASSUME NEW S, NEW s \in Seq(S), s # <<>>
  PROVE  /\ Head(s) \in S /\ Tail(s) \in Seq(S)
         /\ ToSet(s) = {Head(s)} \cup ToSet(Tail(s))
<1>1. /\ Len(s) \in Nat \ {0} /\ DOMAIN s = 1 .. Len(s)
      /\ Head(s) = s[1] /\ Tail(s) \in Seq(S)
      /\ DOMAIN Tail(s) = 1 .. Len(s) - 1
      /\ \A i \in 1 .. Len(s) - 1 : Tail(s)[i] = s[i + 1]
  OBVIOUS
<1>2. ASSUME NEW x \in ToSet(s)
      PROVE  x \in {Head(s)} \cup ToSet(Tail(s))
  <2>1. PICK i \in 1 .. Len(s) : x = s[i]
    BY <1>1 DEF ToSet
  <2>2. CASE i = 1
    BY <1>1, <2>1, <2>2
  <2>3. CASE i # 1
    <3>1. i - 1 \in 1 .. Len(s) - 1 /\ Tail(s)[i - 1] = x
      BY <1>1, <2>1, <2>3
    <3> QED  BY <1>1, <3>1 DEF ToSet
  <2> QED  BY <2>2, <2>3
<1>3. ASSUME NEW x \in ToSet(Tail(s))
      PROVE  x \in ToSet(s)
  <2>1. PICK i \in 1 .. Len(s) - 1 : x = s[i + 1]
    BY <1>1 DEF ToSet
  <2>2. i + 1 \in 1 .. Len(s)
    BY <1>1
  <2> QED  BY <1>1, <2>1, <2>2 DEF ToSet
<1>4. Head(s) \in ToSet(s) /\ Head(s) \in S
  BY <1>1 DEF ToSet
<1> QED  BY <1>1, <1>2, <1>3, <1>4

LEMMA ToSetAppend ==
  ASSUME NEW S, NEW s \in Seq(S), NEW x \in S
  PROVE  Append(s, x) \in Seq(S) /\ ToSet(Append(s, x)) = ToSet(s) \cup {x}
<1>1. /\ Len(s) \in Nat /\ DOMAIN s = 1 .. Len(s)
      /\ Append(s, x) \in Seq(S)
      /\ DOMAIN Append(s, x) = 1 .. Len(s) + 1
      /\ Append(s, x)[Len(s) + 1] = x
      /\ \A i \in 1 .. Len(s) : Append(s, x)[i] = s[i]
  OBVIOUS
<1>2. ASSUME NEW y \in ToSet(Append(s, x))
      PROVE  y \in ToSet(s) \cup {x}
  <2>1. PICK i \in 1 .. Len(s) + 1 : y = Append(s, x)[i]
    BY <1>1 DEF ToSet
  <2>2. CASE i = Len(s) + 1
    BY <1>1, <2>1, <2>2
  <2>3. CASE i \in 1 .. Len(s)
    BY <1>1, <2>1, <2>3 DEF ToSet
  <2> QED  BY <1>1, <2>2, <2>3
<1>3. ToSet(s) \cup {x} \subseteq ToSet(Append(s, x))
  BY <1>1 DEF ToSet
<1> QED  BY <1>1, <1>2, <1>3

LEMMA OrdersIs ==
  ASSUME NEW m
  PROVE  Orders(m) <=> m.decodes /\ ConfirmedTenantPurge(m) /\ TenantID(m) = "t"
  BY DEF Orders, ConfirmedTenantPurge, TenantID, purgeReasons

-----------------------------------------------------------------------------
(* The inductive invariant: what a transaction has still to delete, what it *)
(* is about to, and what it has deleted make up the tables; so one that     *)
(* reaches its commit leaves nothing.                                       *)

Rows == {"old", "new"}
Steps == {"idle", "pass", "delete", "check", "commit", "done", "blocked", "failed"}
Jobs == [step : Steps, msg : Messages \cup {"none"}, pass : Nat,
         todo : Seq(Purged), blocked : Seq(Purged), progress : BOOLEAN, last : BOOLEAN]

Types ==
  /\ mailing \subseteq Messages /\ acked \subseteq mailing
  /\ rows \in [AllTables -> SUBSET Rows]
  /\ job \in [Replicas -> Jobs]
  /\ deleted \in [Replicas -> SUBSET (Purged \X Rows)]

Pending(r) ==
  ToSet(job[r].todo) \cup ToSet(job[r].blocked)
    \cup (IF job[r].last THEN {} ELSE {TenantTable})

Cleared(r, t) == "old" \in rows[t] => <<t, "old">> \in deleted[r]

JobInv(r) ==
  /\ job[r].step # "idle" =>
       job[r].msg \in mailing /\ job[r].msg.decodes /\ ConfirmedTenantPurge(job[r].msg)
  /\ job[r].step \in {"idle", "done"} \/ TenantID(job[r].msg) # "t" => deleted[r] = {}
  /\ job[r].step \in {"delete", "check"} => job[r].todo # <<>>
  /\ job[r].step \in {"pass", "commit"} => job[r].todo = <<>>
  /\ job[r].step = "commit" => job[r].blocked = <<>> /\ job[r].last
  /\ job[r].step \in {"pass", "delete", "check", "commit"} /\ TenantID(job[r].msg) = "t" =>
       /\ \A t \in Purged \ Pending(r) : Cleared(r, t)
       /\ job[r].step = "check" => Cleared(r, Table(r))
  /\ job[r].step = "done" /\ TenantID(job[r].msg) = "t" => Left = Kept

IInv ==
  /\ Types
  /\ AllOrNothing /\ PurgedOnOrder /\ SettledIsPurged
  /\ \A r \in Replicas : JobInv(r)

LEMMA Tabled == TenantTable \in Purged /\ Tables \subseteq Purged /\ Purged \subseteq AllTables
                /\ TableOrder \in Seq(Purged) /\ Kept # AllTables
<1>1. TableOrder \in Seq(Purged)
  BY TenantPurgeAssumption DEF Purged
<1> QED  BY <1>1, TenantPurgeAssumption DEF Purged, AllTables

LEMMA InitInv == Init => IInv
<1> SUFFICES ASSUME Init PROVE IInv
  OBVIOUS
<1>1. Types
  <2>1. Idle \in Jobs
    BY DEF Idle, Jobs, Steps
  <2>2. mailing \subseteq Messages
    BY DEF Init, Messages
  <2> QED  BY <2>1, <2>2 DEF Init, Types, Rows
<1>2. Left = AllTables
  BY DEF Init, Left
<1>3. \A r \in Replicas : JobInv(r)
  BY DEF Init, JobInv, Idle
<1> QED  BY <1>1, <1>2, <1>3 DEF Init, IInv, AllOrNothing, PurgedOnOrder, SettledIsPurged

\* A step of r that commits nothing.
LEMMA JobStep ==
  ASSUME IInv, NEW r \in Replicas, NEW j \in Jobs, NEW d \in SUBSET (Purged \X Rows),
         UNCHANGED <<mailing, rows, acked>>,
         job' = [job EXCEPT ![r] = j], deleted' = [deleted EXCEPT ![r] = d],
         JobInv(r)'
  PROVE  IInv'
<1>1. Types'
  BY DEF IInv, Types
<1>2. ASSUME NEW q \in Replicas, q # r
      PROVE  JobInv(q)'
  <2>1. job'[q] = job[q] /\ deleted'[q] = deleted[q]
    BY <1>2 DEF IInv, Types
  <2>2. JobInv(q) /\ Pending(q)' = Pending(q) /\ Table(q)' = Table(q) /\ Left' = Left
    BY <2>1 DEF IInv, Pending, Table, Left
  <2>3. \A t : Cleared(q, t)' <=> Cleared(q, t)
    BY <2>1 DEF Cleared
  <2> QED  BY <2>1, <2>2, <2>3 DEF JobInv
<1> QED  BY <1>1, <1>2 DEF IInv, AllOrNothing, PurgedOnOrder, SettledIsPurged, Left

LEMMA JobFacts ==
  ASSUME IInv, NEW r \in Replicas
  PROVE  /\ job[r] \in Jobs /\ JobInv(r)
         /\ deleted[r] \in SUBSET (Purged \X Rows)
         /\ job[r].todo \in Seq(Purged) /\ job[r].blocked \in Seq(Purged)
  BY DEF IInv, Types, Jobs

LEMMA AtFacts ==
  ASSUME NEW r \in Replicas, job[r] \in Jobs, NEW s \in Steps
  PROVE  /\ At(r, s) \in Jobs /\ At(r, s).step = s /\ At(r, s).msg = job[r].msg
         /\ At(r, s).todo = job[r].todo /\ At(r, s).blocked = job[r].blocked
         /\ At(r, s).last = job[r].last /\ At(r, s).pass = job[r].pass
  BY DEF At, Jobs

LEMMA NextPassInv == ASSUME IInv, NEW r \in Replicas, NextPass(r) PROVE IInv'
<1>1. /\ job[r] \in Jobs /\ JobInv(r) /\ deleted[r] \in SUBSET (Purged \X Rows)
      /\ job[r].step = "pass" /\ job[r].todo = <<>>
      /\ UNCHANGED <<mailing, rows, acked, deleted>>
  BY JobFacts DEF NextPass, Local, queueVars, JobInv
<1>2. deleted' = [deleted EXCEPT ![r] = deleted[r]]
  BY <1>1 DEF IInv, Types
<1>3. ASSUME NEW j \in Jobs, job' = [job EXCEPT ![r] = j], j.msg = job[r].msg,
             \/ j.step = "blocked"
             \/ /\ j.step = "delete" /\ j.todo = job[r].blocked /\ j.todo # <<>>
                /\ j.blocked = <<>> /\ j.last = job[r].last
             \/ /\ j.step = "delete" /\ j.todo = <<TenantTable>> /\ j.last
                /\ j.blocked = job[r].blocked /\ ~job[r].last
             \/ /\ j.step = "commit" /\ j.todo = <<>> /\ job[r].blocked = <<>> /\ job[r].last
                /\ j.blocked = job[r].blocked /\ j.last
      PROVE  IInv'
  <2>1. job'[r] = j
    BY <1>3 DEF IInv, Types
  <2>2. j.step # "blocked" => Pending(r)' = Pending(r)
    BY <1>1, <1>3, <2>1, ToSetEmpty, ToSetOne DEF Pending
  <2>3. j.step \in {"blocked", "delete", "commit"}
    BY <1>3
  <2>4. j.step = "delete" => j.todo # <<>>
    <3>1. <<TenantTable>> # <<>>
      OBVIOUS
    <3> QED  BY <1>3, <3>1
  <2>5. j.step = "commit" => j.todo = <<>> /\ j.blocked = <<>> /\ j.last
    BY <1>3
  <2>6. JobInv(r)'
    BY <1>1, <1>3, <2>1, <2>2, <2>3, <2>4, <2>5 DEF JobInv, Cleared, Table, Left
  <2> QED  BY <1>1, <1>2, <1>3, <2>6, JobStep
<1>4. CASE job[r].blocked = <<>> /\ job[r].last
  <2>1. /\ At(r, "commit") \in Jobs /\ At(r, "commit").step = "commit"
        /\ At(r, "commit").msg = job[r].msg /\ At(r, "commit").todo = <<>>
        /\ At(r, "commit").blocked = job[r].blocked /\ At(r, "commit").last
    BY <1>1, <1>4, AtFacts DEF Steps
  <2>2. job' = [job EXCEPT ![r] = At(r, "commit")]
    BY <1>4 DEF NextPass, Becomes
  <2> QED  BY <1>3, <1>4, <2>1, <2>2
<1>5. CASE job[r].blocked = <<>> /\ ~job[r].last
  <2> DEFINE j == [At(r, "delete") EXCEPT !.todo = <<TenantTable>>, !.last = TRUE]
  <2>1. job' = [job EXCEPT ![r] = j]
    BY <1>5 DEF NextPass, Becomes
  <2>2. <<TenantTable>> \in Seq(Purged) /\ <<TenantTable>> # <<>>
    BY Tabled
  <2>3. /\ j \in Jobs /\ j.step = "delete" /\ j.todo = <<TenantTable>> /\ j.last
        /\ j.msg = job[r].msg /\ j.blocked = job[r].blocked
    <3> DEFINE a == At(r, "delete")
    <3>1. /\ a \in Jobs /\ a.step = "delete" /\ a.msg = job[r].msg
          /\ a.blocked = job[r].blocked
      BY <1>1, AtFacts DEF Steps
    <3>2. j = [a EXCEPT !.todo = <<TenantTable>>, !.last = TRUE]
      OBVIOUS
    <3> HIDE DEF a, j
    <3> QED  BY <2>2, <3>1, <3>2 DEF Jobs
  <2> HIDE DEF j
  <2> QED  BY <1>3, <1>5, <2>1, <2>3
<1>6. CASE job[r].blocked # <<>> /\ (~job[r].progress \/ job[r].pass = MaxPasses)
  <2>1. /\ At(r, "blocked") \in Jobs /\ At(r, "blocked").step = "blocked"
        /\ At(r, "blocked").msg = job[r].msg
    BY <1>1, AtFacts DEF Steps
  <2>2. job' = [job EXCEPT ![r] = At(r, "blocked")]
    BY <1>6 DEF NextPass, Becomes
  <2> QED  BY <1>3, <2>1, <2>2
<1>7. CASE job[r].blocked # <<>> /\ ~(~job[r].progress \/ job[r].pass = MaxPasses)
  <2> DEFINE j == [At(r, "delete") EXCEPT !.todo = job[r].blocked, !.blocked = <<>>,
                                          !.progress = FALSE, !.pass = @ + 1]
  <2>1. job' = [job EXCEPT ![r] = j]
    BY <1>7 DEF NextPass, Becomes
  <2>2. /\ j \in Jobs /\ j.step = "delete" /\ j.todo = job[r].blocked
        /\ j.blocked = <<>> /\ j.msg = job[r].msg /\ j.last = job[r].last
    <3> DEFINE a == At(r, "delete")
    <3>1. a \in Jobs /\ a.step = "delete" /\ a.msg = job[r].msg /\ a.last = job[r].last
      BY <1>1, AtFacts DEF Steps
    <3>2. j = [a EXCEPT !.todo = job[r].blocked, !.blocked = <<>>,
                        !.progress = FALSE, !.pass = @ + 1]
      OBVIOUS
    <3> HIDE DEF a, j
    <3>3. j = [step |-> a.step, msg |-> a.msg, pass |-> a.pass + 1, todo |-> job[r].blocked,
               blocked |-> <<>>, progress |-> FALSE, last |-> a.last]
      BY <3>1, <3>2 DEF Jobs
    <3>4. a.pass + 1 \in Nat /\ <<>> \in Seq(Purged) /\ job[r].blocked \in Seq(Purged)
      BY <1>1, <3>1 DEF Jobs
    <3> QED  BY <3>1, <3>3, <3>4 DEF Jobs
  <2> HIDE DEF j
  <2> QED  BY <1>3, <1>7, <2>1, <2>2
<1> QED  BY <1>4, <1>5, <1>6, <1>7

LEMMA DeleteInv == ASSUME IInv, NEW r \in Replicas, Delete(r) PROVE IInv'
<1> DEFINE d == deleted[r] \cup Visible(r, Table(r))
<1>1. /\ job[r] \in Jobs /\ JobInv(r) /\ deleted[r] \in SUBSET (Purged \X Rows)
      /\ job[r].step = "delete" /\ job[r].todo # <<>>
      /\ UNCHANGED <<mailing, rows, acked>>
  BY JobFacts DEF Delete, Local, queueVars, JobInv
<1>2. Table(r) \in Purged
  BY <1>1, JobFacts, ToSetSplit DEF Table
<1>3. At(r, "check") \in Jobs /\ At(r, "check").step = "check"
      /\ \A f \in {"msg", "todo", "blocked", "last"} : At(r, "check")[f] = job[r][f]
  BY <1>1 DEF At, Jobs, Steps
<1>4. d \in SUBSET (Purged \X Rows)
  BY <1>1, <1>2, Tabled DEF Visible, IInv, Types
<1>5. job'[r] = At(r, "check") /\ deleted'[r] = d
  BY DEF Delete, Becomes, IInv, Types
<1>6. JobInv(r)'
  <2>1. Pending(r)' = Pending(r) /\ Table(r)' = Table(r) /\ job'[r].msg = job[r].msg
    BY <1>3, <1>5 DEF Pending, Table
  <2>2. TenantID(job[r].msg) # "t" => d = {}
    BY <1>1 DEF JobInv, Visible
  <2>3. TenantID(job[r].msg) = "t" => <<Table(r), "old">> \in d \/ "old" \notin rows[Table(r)]
    BY DEF Visible
  <2> QED  BY <1>1, <1>3, <1>5, <2>1, <2>2, <2>3 DEF JobInv, Cleared
<1> QED  BY <1>1, <1>3, <1>4, <1>6, JobStep DEF Delete, Becomes

\* The rest of the pass: the table at its head is no longer to do.
LEMMA RestFacts ==
  ASSUME NEW r \in Replicas, job[r] \in Jobs, job[r].todo # <<>>
  PROVE  /\ Rest(r) \in Jobs
         /\ Table(r) \in Purged
         /\ Rest(r).msg = job[r].msg /\ Rest(r).blocked = job[r].blocked
         /\ Rest(r).last = job[r].last /\ Rest(r).todo = Tail(job[r].todo)
         /\ ToSet(job[r].todo) = {Table(r)} \cup ToSet(Tail(job[r].todo))
         /\ \/ Rest(r).step = "pass" /\ Rest(r).todo = <<>>
            \/ Rest(r).step = "delete" /\ Rest(r).todo # <<>>
<1>1. job[r].todo \in Seq(Purged)
  BY DEF Jobs
<1>2. /\ Table(r) \in Purged /\ Tail(job[r].todo) \in Seq(Purged)
      /\ ToSet(job[r].todo) = {Table(r)} \cup ToSet(Tail(job[r].todo))
  BY <1>1, ToSetSplit DEF Table
<1>3. IF Len(job[r].todo) = 1 THEN Tail(job[r].todo) = <<>> ELSE Tail(job[r].todo) # <<>>
  <2> DEFINE s == job[r].todo
  <2>1. s \in Seq(Purged) /\ s # <<>>
    BY <1>1
  <2> HIDE DEF s
  <2>2. Len(Tail(s)) = Len(s) - 1 /\ Len(s) \in Nat /\ Tail(s) \in Seq(Purged)
    BY <2>1
  <2> DEFINE t == Tail(s)
  <2> HIDE DEF t
  <2>3. Len(t) = 0 <=> t = <<>>
    <3>1. t \in Seq(Purged)
      BY <2>2 DEF t
    <3> QED  BY <3>1
  <2>4. IF Len(s) = 1 THEN t = <<>> ELSE t # <<>>
    BY <2>2, <2>3 DEF t
  <2> QED  BY <2>4 DEF s, t
<1> QED  BY <1>2, <1>3 DEF Rest, At, Jobs, Steps

LEMMA ReleaseInv == ASSUME IInv, NEW r \in Replicas, Release(r) PROVE IInv'
<1> DEFINE j == [Rest(r) EXCEPT !.progress = TRUE]
<1>1. /\ job[r] \in Jobs /\ JobInv(r) /\ deleted[r] \in SUBSET (Purged \X Rows)
      /\ job[r].step = "check" /\ job[r].todo # <<>>
      /\ UNCHANGED <<mailing, rows, acked, deleted>>
  BY JobFacts DEF Release, Local, queueVars, JobInv
<1>2. j \in Jobs /\ j.step \in {"pass", "delete"} /\ j.msg = job[r].msg /\ j.blocked = job[r].blocked
      /\ j.last = job[r].last /\ j.todo = Tail(job[r].todo)
      /\ (j.step = "pass" => j.todo = <<>>) /\ (j.step = "delete" => j.todo # <<>>)
  BY <1>1, RestFacts DEF Jobs
<1>3. job' = [job EXCEPT ![r] = j]
  BY DEF Release, Becomes
<1> HIDE DEF j
<1>4. job'[r] = j /\ deleted' = [deleted EXCEPT ![r] = deleted[r]]
  BY <1>1, <1>3 DEF IInv, Types
<1>5. Pending(r) = Pending(r)' \cup {Table(r)}
  BY <1>1, <1>2, <1>4, RestFacts DEF Pending
<1>6. JobInv(r)'
  BY <1>1, <1>2, <1>4, <1>5 DEF JobInv, Cleared
<1> QED  BY <1>1, <1>2, <1>3, <1>4, <1>6, JobStep

LEMMA ViolationInv == ASSUME IInv, NEW r \in Replicas, Violation(r) PROVE IInv'
<1> DEFINE j == IF job[r].last THEN At(r, "blocked")
                ELSE [Rest(r) EXCEPT !.blocked = Append(@, Table(r))]
<1> DEFINE d == deleted[r] \ Taken(r)
<1>1. /\ job[r] \in Jobs /\ JobInv(r) /\ deleted[r] \in SUBSET (Purged \X Rows)
      /\ job[r].step = "check" /\ job[r].todo # <<>>
      /\ UNCHANGED <<mailing, rows, acked>>
  BY JobFacts DEF Violation, Local, queueVars, JobInv
<1>2. job' = [job EXCEPT ![r] = j] /\ deleted' = [deleted EXCEPT ![r] = d]
  BY DEF Violation, Becomes
<1>3. d \in SUBSET (Purged \X Rows)
  BY <1>1
<1>4. CASE job[r].last
  <2>1. j \in Jobs /\ j.step = "blocked" /\ j.msg = job[r].msg
    BY <1>1, <1>4, AtFacts DEF Steps
  <2> HIDE DEF j, d
  <2>2. job'[r] = j /\ deleted'[r] = d
    BY <1>2 DEF IInv, Types
  <2>3. TenantID(job[r].msg) # "t" => d = {}
    BY <1>1 DEF JobInv, d
  <2>4. JobInv(r)'
    BY <1>1, <2>1, <2>2, <2>3 DEF JobInv
  <2> QED  BY <1>1, <1>2, <1>3, <2>1, <2>4, JobStep
<1>5. CASE ~job[r].last
  <2>1. /\ Append(job[r].blocked, Table(r)) \in Seq(Purged)
        /\ ToSet(Append(job[r].blocked, Table(r))) = ToSet(job[r].blocked) \cup {Table(r)}
    BY <1>1, RestFacts, JobFacts, ToSetAppend
  <2>2. j = [Rest(r) EXCEPT !.blocked = Append(job[r].blocked, Table(r))]
    BY <1>1, <1>5, RestFacts
  <2> HIDE DEF j
  <2>3. /\ j \in Jobs /\ j.step \in {"pass", "delete"} /\ j.msg = job[r].msg
        /\ j.blocked = Append(job[r].blocked, Table(r))
        /\ j.last = job[r].last /\ j.todo = Tail(job[r].todo)
        /\ (j.step = "pass" => j.todo = <<>>) /\ (j.step = "delete" => j.todo # <<>>)
    <3> DEFINE a == Rest(r)
    <3>1. /\ a \in Jobs /\ a.msg = job[r].msg /\ a.last = job[r].last
          /\ a.todo = Tail(job[r].todo)
          /\ \/ a.step = "pass" /\ a.todo = <<>>
             \/ a.step = "delete" /\ a.todo # <<>>
      BY <1>1, RestFacts
    <3>2. j = [a EXCEPT !.blocked = Append(job[r].blocked, Table(r))]
      BY <2>2
    <3> HIDE DEF a
    <3>3. /\ j \in Jobs /\ j.step = a.step /\ j.msg = a.msg /\ j.last = a.last
          /\ j.todo = a.todo /\ j.blocked = Append(job[r].blocked, Table(r))
      BY <2>1, <3>1, <3>2 DEF Jobs
    <3> QED  BY <3>1, <3>3
  <2>4. job'[r] = j /\ deleted'[r] = d
    BY <1>2 DEF IInv, Types
  <2>5. Pending(r) = Pending(r)' /\ Table(r) \in Pending(r)
    BY <1>1, <2>1, <2>3, <2>4, RestFacts DEF Pending
  <2>6. \A t \in Purged \ Pending(r) : Cleared(r, t) => Cleared(r, t)'
    BY <1>1, <2>4, <2>5 DEF Taken, Cleared
  <2>7. JobInv(r)'
    BY <1>1, <2>3, <2>4, <2>5, <2>6 DEF JobInv
  <2> HIDE DEF d
  <2> QED  BY <1>1, <1>2, <1>3, <2>3, <2>7, JobStep
<1> QED  BY <1>4, <1>5

LEMMA AbortInv == ASSUME IInv, NEW r \in Replicas, Abort(r) PROVE IInv'
<1>1. /\ job[r] \in Jobs /\ JobInv(r) /\ deleted[r] \in SUBSET (Purged \X Rows)
      /\ job[r].step # "idle"
      /\ UNCHANGED <<mailing, rows, acked, deleted>>
  BY JobFacts DEF Abort, Local, queueVars
<1>2. At(r, "failed") \in Jobs /\ At(r, "failed").step = "failed" /\ At(r, "failed").msg = job[r].msg
  BY <1>1 DEF At, Jobs, Steps
<1>3. job' = [job EXCEPT ![r] = At(r, "failed")] /\ job'[r] = At(r, "failed")
  BY DEF Abort, Becomes, IInv, Types
<1>4. deleted' = [deleted EXCEPT ![r] = deleted[r]]
  BY <1>1 DEF IInv, Types
<1>5. JobInv(r)'
  BY <1>1, <1>2, <1>3 DEF JobInv
<1> QED  BY <1>1, <1>2, <1>3, <1>4, <1>5, JobStep

\* A commit removes every old row of the tenant or, for another tenant, none.
LEMMA CommitLeft ==
  ASSUME IInv, NEW r \in Replicas, job[r].step = "commit", CommitRows(r)
  PROVE  /\ rows' \in [AllTables -> SUBSET Rows] /\ \A t \in AllTables : rows'[t] \subseteq rows[t]
         /\ TenantID(job[r].msg) = "t" => Left' = Kept
         /\ TenantID(job[r].msg) # "t" => Left' = Left
         /\ Left = Kept => Left' = Kept
<1>1. /\ rows' \in [AllTables -> SUBSET Rows] /\ \A t \in AllTables : rows'[t] \subseteq rows[t]
      /\ \A t \in AllTables : "old" \in rows'[t] <=> "old" \in rows[t] /\ <<t, "old">> \notin deleted[r]
  BY DEF CommitRows, IInv, Types
<1>2. \A t \in Kept : <<t, "old">> \notin deleted[r]
  BY TenantPurgeAssumption, JobFacts
<1>3. Kept \subseteq Left
  BY DEF IInv, AllOrNothing, AllTables
<1>4. Kept \subseteq Left'
  BY <1>1, <1>2, <1>3 DEF Left
<1>5. ASSUME TenantID(job[r].msg) = "t", NEW t \in Purged
      PROVE  "old" \notin rows'[t]
  <2>1. Pending(r) = {}
    BY ToSetEmpty DEF IInv, JobInv, Pending
  <2>2. Cleared(r, t)
    BY <1>5, <2>1 DEF IInv, JobInv
  <2> QED  BY <1>1, <2>2, Tabled DEF Cleared
<1>6. TenantID(job[r].msg) = "t" => Left' = Kept
  BY <1>4, <1>5 DEF Left, AllTables
<1>7. TenantID(job[r].msg) # "t" => Left' = Left
  BY <1>1 DEF IInv, JobInv, Left
<1>8. Left' \subseteq Left
  BY <1>1 DEF Left
<1> QED  BY <1>1, <1>4, <1>6, <1>7, <1>8

LEMMA CommitInv == ASSUME IInv, NEW r \in Replicas, Commit(r) PROVE IInv'
<1>1. /\ job[r] \in Jobs /\ JobInv(r) /\ job[r].step = "commit"
      /\ UNCHANGED <<mailing, acked>>
  BY JobFacts DEF Commit, queueVars
<1>2. PICK s \in {"done", "failed"} : job' = [job EXCEPT ![r] = At(r, s)]
  BY DEF Commit, Becomes
<1>3. At(r, s) \in Jobs /\ At(r, s).step = s /\ At(r, s).msg = job[r].msg
  BY <1>1 DEF At, Jobs, Steps
<1>4. job'[r] = At(r, s) /\ deleted' = [deleted EXCEPT ![r] = {}]
  BY <1>2 DEF Commit, EndTx, IInv, Types
<1>5. /\ rows' \in [AllTables -> SUBSET Rows] /\ \A t \in AllTables : rows'[t] \subseteq rows[t]
      /\ TenantID(job[r].msg) = "t" => Left' = Kept
      /\ TenantID(job[r].msg) # "t" => Left' = Left
      /\ Left = Kept => Left' = Kept
  BY <1>1, CommitLeft DEF Commit
<1>6. Types'
  BY <1>1, <1>2, <1>3, <1>4, <1>5 DEF IInv, Types
<1>7. JobInv(r)'
  BY <1>1, <1>3, <1>4, <1>5 DEF JobInv, IInv, Types
<1>8. ASSUME NEW q \in Replicas, q # r
      PROVE  JobInv(q)'
  <2>1. job'[q] = job[q] /\ deleted'[q] = deleted[q]
    BY <1>2, <1>4, <1>8 DEF IInv, Types
  <2>2. \A t \in Purged : Cleared(q, t) => Cleared(q, t)'
    BY <1>5, <2>1, Tabled DEF Cleared
  <2>3. Pending(q)' = Pending(q) /\ Table(q)' = Table(q)
    BY <2>1 DEF Pending, Table
  <2>4. job[q].step = "check" => Table(q) \in Purged
    BY RestFacts, JobFacts DEF JobInv
  <2>5. JobInv(q)
    BY DEF IInv
  <2> QED  BY <1>1, <1>5, <2>1, <2>2, <2>3, <2>4, <2>5 DEF JobInv
<1>9. PurgedOnOrder'
  <2>1. CASE TenantID(job[r].msg) = "t"
    <3>1. Orders(job[r].msg) /\ job[r].msg \in mailing
      BY <1>1, <2>1, OrdersIs DEF JobInv
    <3> QED  BY <1>1, <3>1 DEF PurgedOnOrder
  <2>2. CASE TenantID(job[r].msg) # "t"
    BY <1>1, <1>5, <2>2 DEF IInv, PurgedOnOrder
  <2> QED  BY <2>1, <2>2
<1>10. AllOrNothing' /\ SettledIsPurged'
  BY <1>1, <1>5 DEF IInv, AllOrNothing, SettledIsPurged
<1> QED  BY <1>6, <1>7, <1>8, <1>9, <1>10 DEF IInv

LEMMA IdleIn ==
  Idle \in Jobs /\ Idle.step = "idle" /\ Idle.todo = <<>> /\ ~Idle.last
<1>1. <<>> \in Seq(Purged)
  OBVIOUS
<1> QED  BY <1>1 DEF Idle, Jobs, Steps

\* A replica that becomes idle has nothing deleted.
LEMMA IdleInv ==
  ASSUME IInv, NEW r \in Replicas, Becomes(r, Idle), EndTx(r),
         UNCHANGED <<mailing, rows, acked>>
  PROVE  IInv'
<1>1. job' = [job EXCEPT ![r] = Idle] /\ deleted' = [deleted EXCEPT ![r] = {}]
  BY DEF Becomes, EndTx
<1>2. job'[r] = Idle /\ deleted'[r] = {}
  BY <1>1 DEF IInv, Types
<1>3. JobInv(r)'
  BY <1>2, IdleIn DEF JobInv
<1> QED  BY <1>1, <1>3, IdleIn, JobStep

LEMMA ReceiveInv ==
  ASSUME IInv, NEW r \in Replicas, NEW m \in mailing, Receive(r, m)
  PROVE  IInv'
<1>1. /\ JobInv(r) /\ deleted[r] = {} /\ m \in Messages
      /\ UNCHANGED <<mailing, rows, deleted>>
  BY JobFacts DEF Receive, JobInv, IInv, Types
<1>2. CASE m.decodes /\ ConfirmedTenantPurge(m)
  <2>1. Becomes(r, Begin(m)) /\ UNCHANGED acked
    BY <1>2 DEF Receive
  <2> DEFINE j == Begin(m)
  <2>2. /\ j \in Jobs /\ j.step = "pass" /\ j.msg = m /\ j.todo = <<>>
        /\ j.blocked = TableOrder /\ ~j.last
    BY <1>1, IdleIn, Tabled DEF Begin, Jobs, Steps
  <2>3. job' = [job EXCEPT ![r] = j]
    BY <2>1 DEF Becomes
  <2> HIDE DEF j
  <2>4. job'[r] = j /\ deleted'[r] = {} /\ deleted' = [deleted EXCEPT ![r] = {}]
    BY <1>1, <2>3 DEF IInv, Types
  <2>5. Purged \ Pending(r)' = {}
    BY <2>2, <2>4 DEF Pending, Purged, Tables
  <2>6. JobInv(r)'
    BY <1>1, <1>2, <2>2, <2>4, <2>5 DEF JobInv
  <2> QED  BY <1>1, <2>1, <2>2, <2>3, <2>4, <2>6, JobStep
<1>3. CASE ~(m.decodes /\ ConfirmedTenantPurge(m))
  <2>1. acked' = acked \cup {m} /\ UNCHANGED job
    BY <1>3 DEF Receive
  <2>2. ~Orders(m)
    BY <1>3, OrdersIs
  <2>3. Types' /\ SettledIsPurged'
    BY <1>1, <2>1, <2>2 DEF IInv, Types, SettledIsPurged, Left
  <2>4. ASSUME NEW q \in Replicas PROVE JobInv(q)'
    BY <1>1, <2>1 DEF IInv, JobInv, Pending, Cleared, Table, Left
  <2> QED  BY <1>1, <2>3, <2>4 DEF IInv, AllOrNothing, PurgedOnOrder, Left
<1> QED  BY <1>2, <1>3

LEMMA AckInv == ASSUME IInv, NEW r \in Replicas, Ack(r) PROVE IInv'
<1>1. /\ JobInv(r) /\ job[r].step = "done" /\ acked' = acked \cup {job[r].msg}
      /\ job' = [job EXCEPT ![r] = Idle]
      /\ UNCHANGED <<mailing, rows, deleted>>
  BY JobFacts DEF Ack, Becomes
<1>2. job[r].msg \in mailing /\ (Orders(job[r].msg) => Left = Kept)
  BY <1>1, OrdersIs DEF JobInv
<1>3. job'[r] = Idle
  BY <1>1 DEF IInv, Types
<1>4. Types' /\ SettledIsPurged'
  BY <1>1, <1>2, IdleIn DEF IInv, Types, SettledIsPurged, Left
<1>5. ASSUME NEW q \in Replicas PROVE JobInv(q)'
  <2>1. CASE q = r
    BY <1>1, <1>3, <2>1, IdleIn DEF JobInv
  <2>2. CASE q # r
    <3>1. job'[q] = job[q]
      BY <1>1, <2>2 DEF IInv, Types
    <3> QED  BY <1>1, <3>1 DEF IInv, JobInv, Pending, Cleared, Table, Left
  <2> QED  BY <2>1, <2>2
<1> QED  BY <1>1, <1>4, <1>5 DEF IInv, AllOrNothing, PurgedOnOrder, Left

LEMMA InsertInv == ASSUME IInv, NEW t \in Tables, Insert(t) PROVE IInv'
<1>1. /\ rows' = [rows EXCEPT ![t] = @ \cup {"new"}]
      /\ UNCHANGED <<mailing, job, deleted, acked>>
  BY DEF Insert, queueVars
<1>2. /\ rows' \in [AllTables -> SUBSET Rows]
      /\ \A c \in AllTables : "old" \in rows'[c] <=> "old" \in rows[c]
  BY <1>1, Tabled DEF IInv, Types, Rows
<1>3. Left' = Left
  BY <1>2 DEF Left
<1>4. Types'
  BY <1>1, <1>2 DEF IInv, Types
<1>5. ASSUME NEW q \in Replicas PROVE JobInv(q)'
  <2>1. JobInv(q) /\ Pending(q)' = Pending(q) /\ Table(q)' = Table(q)
    BY <1>1 DEF IInv, Pending, Table
  <2>2. \A c \in Purged : Cleared(q, c) => Cleared(q, c)'
    BY <1>1, <1>2, Tabled DEF Cleared
  <2>3. job[q].step = "check" => Table(q) \in Purged
    BY <2>1, RestFacts, JobFacts DEF JobInv
  <2> QED  BY <1>1, <1>3, <2>1, <2>2, <2>3 DEF JobInv
<1> QED  BY <1>1, <1>3, <1>4, <1>5 DEF IInv, AllOrNothing, PurgedOnOrder, SettledIsPurged

LEMMA Step == IInv /\ [Next]_vars => IInv'
<1> SUFFICES ASSUME IInv, [Next]_vars PROVE IInv'
  OBVIOUS
<1>1. ASSUME NEW r \in Replicas, Purge(r) PROVE IInv'
  <2>1. CASE NextPass(r)
    BY <2>1, NextPassInv
  <2>2. CASE Delete(r)
    BY <2>2, DeleteInv
  <2>3. CASE Release(r)
    BY <2>3, ReleaseInv
  <2>4. CASE Violation(r)
    BY <2>4, ViolationInv
  <2>5. CASE Abort(r)
    BY <2>5, AbortInv
  <2>6. CASE Commit(r)
    BY <2>6, CommitInv
  <2>7. CASE Ack(r)
    BY <2>7, AckInv
  <2>8. CASE Nak(r)
    BY <2>8, IdleInv DEF Nak
  <2> QED  BY <1>1, <2>1, <2>2, <2>3, <2>4, <2>5, <2>6, <2>7, <2>8 DEF Purge
<1>2. ASSUME NEW r \in Replicas, Crash(r) PROVE IInv'
  BY <1>2, IdleInv DEF Crash, queueVars
<1>3. ASSUME NEW r \in Replicas, NEW m \in mailing, Receive(r, m) PROVE IInv'
  BY <1>3, ReceiveInv
<1>4. ASSUME NEW m \in mailing, Expire(m) PROVE IInv'
  <2>1. UNCHANGED <<mailing, rows, job, deleted, acked>>
    BY <1>4 DEF Expire
  <2> QED  BY <2>1 DEF IInv, Types, AllOrNothing, PurgedOnOrder, SettledIsPurged, Left,
                       JobInv, Pending, Cleared, Table
<1>5. ASSUME NEW t \in Tables, Insert(t) PROVE IInv'
  BY <1>5, InsertInv
<1>6. CASE UNCHANGED vars
  BY <1>6 DEF vars, queueVars, IInv, Types, AllOrNothing, PurgedOnOrder, SettledIsPurged, Left,
              JobInv, Pending, Cleared, Table
<1> QED  BY <1>1, <1>2, <1>3, <1>4, <1>5, <1>6 DEF Next

LEMMA Invariance == Spec => []IInv
  BY InitInv, Step, PTL DEF Spec

-----------------------------------------------------------------------------
(* The passes: each lets a table go or is the last, and a pass that lets    *)
(* none go has found, for every table, one left that references it.         *)

Working(r) == job[r].step \in {"pass", "delete", "check"}

PassInv(r) ==
  /\ job[r].pass <= MaxPasses
  /\ IsInjective(job[r].todo) /\ IsInjective(job[r].blocked)
  /\ ToSet(job[r].todo) \cap ToSet(job[r].blocked) = {}
  /\ ~job[r].last => TenantTable \notin ToSet(job[r].todo) \cup ToSet(job[r].blocked)
  /\ job[r].last /\ Working(r) => job[r].blocked = <<>>
  /\ job[r].last /\ job[r].step \in {"delete", "check"} => job[r].todo = <<TenantTable>>
  /\ \A x \in deleted[r] : x[1] \notin ToSet(job[r].blocked)

Counted(r) ==
  Working(r) /\ ~job[r].last =>
    Len(job[r].todo) + Len(job[r].blocked) + job[r].pass
      <= Len(TableOrder) + IF job[r].progress THEN 0 ELSE 1

Stuck(r) ==
  Working(r) /\ ~job[r].progress /\ faults = 0 =>
    \A t \in ToSet(job[r].blocked) :
      \E c \in (Pending(r) \cup Kept) \ {t} : <<c, t>> \in fk

GaveUp(r) ==
  job[r].step = "blocked" => Entangled \/ faults > 0 \/ Cardinality(Tables) > MaxPasses

QueueInv ==
  /\ inFlight \subseteq mailing
  /\ deliveries \in [mailing -> 0 .. MaxDeliver]
  /\ faults \in Nat
  /\ faults = 0 => \A t \in AllTables : rows[t] \subseteq {"old"}

GInv ==
  /\ QueueInv
  /\ \A r \in Replicas : PassInv(r) /\ Counted(r) /\ Stuck(r) /\ GaveUp(r)

LEMMA DistinctTail ==
  ASSUME NEW S, NEW s \in Seq(S), s # <<>>, IsInjective(s)
  PROVE  IsInjective(Tail(s)) /\ Head(s) \notin ToSet(Tail(s))
<1>1. /\ Len(s) \in Nat \ {0} /\ DOMAIN s = 1 .. Len(s) /\ Head(s) = s[1]
      /\ DOMAIN Tail(s) = 1 .. Len(s) - 1
      /\ \A i \in 1 .. Len(s) - 1 : Tail(s)[i] = s[i + 1]
  OBVIOUS
<1>2. \A i \in 1 .. Len(s) - 1 : i + 1 \in 1 .. Len(s) /\ i + 1 # 1
  BY <1>1
<1>3. ASSUME NEW i \in 1 .. Len(s) - 1, NEW k \in 1 .. Len(s) - 1, Tail(s)[i] = Tail(s)[k]
      PROVE  i = k
  <2>1. i + 1 = k + 1
    BY <1>1, <1>2, <1>3 DEF IsInjective
  <2> QED  BY <2>1
<1>4. IsInjective(Tail(s))
  BY <1>1, <1>3 DEF IsInjective
<1>5. Head(s) \notin ToSet(Tail(s))
  <2> SUFFICES ASSUME NEW i \in 1 .. Len(s) - 1, Tail(s)[i] = Head(s) PROVE FALSE
    BY <1>1 DEF ToSet
  <2>1. s[i + 1] = s[1] /\ 1 \in 1 .. Len(s)
    BY <1>1
  <2> QED  BY <1>1, <1>2, <2>1 DEF IsInjective
<1> QED  BY <1>4, <1>5

LEMMA DistinctAppend ==
  ASSUME NEW S, NEW s \in Seq(S), NEW x \in S, IsInjective(s), x \notin ToSet(s)
  PROVE  IsInjective(Append(s, x))
<1>1. /\ Len(s) \in Nat /\ DOMAIN s = 1 .. Len(s)
      /\ DOMAIN Append(s, x) = 1 .. Len(s) + 1
      /\ Append(s, x)[Len(s) + 1] = x
      /\ \A i \in 1 .. Len(s) : Append(s, x)[i] = s[i]
  OBVIOUS
<1>2. \A i \in 1 .. Len(s) : s[i] # x
  BY <1>1 DEF ToSet
<1>3. ASSUME NEW i \in 1 .. Len(s) + 1, NEW k \in 1 .. Len(s) + 1,
             Append(s, x)[i] = Append(s, x)[k]
      PROVE  i = k
  <2>1. CASE i \in 1 .. Len(s) /\ k \in 1 .. Len(s)
    BY <1>1, <1>3, <2>1 DEF IsInjective
  <2>2. CASE i = Len(s) + 1 /\ k \in 1 .. Len(s)
    BY <1>1, <1>2, <1>3, <2>2
  <2>3. CASE i \in 1 .. Len(s) /\ k = Len(s) + 1
    BY <1>1, <1>2, <1>3, <2>3
  <2>4. \/ i \in 1 .. Len(s)
        \/ i = Len(s) + 1
    BY <1>1
  <2>5. \/ k \in 1 .. Len(s)
        \/ k = Len(s) + 1
    BY <1>1
  <2> QED  BY <2>1, <2>2, <2>3, <2>4, <2>5
<1> QED  BY <1>1, <1>3 DEF IsInjective

LEMMA DistinctShort ==
  /\ IsInjective(<<>>) /\ Len(<<>>) = 0
  /\ \A x : IsInjective(<<x>>) /\ Len(<<x>>) = 1
<1>1. DOMAIN <<>> = {}
  BY EmptySeq, LenProperties
<1>2. \A x : DOMAIN <<x>> = {1} /\ Len(<<x>>) = 1
  OBVIOUS
<1> QED  BY <1>1, <1>2 DEF IsInjective

\* No table is listed twice, so a list is as long as its tables are many.
LEMMA TablesAre == IsFiniteSet(Tables) /\ Cardinality(Tables) = Len(TableOrder)
<1> DEFINE n == Len(TableOrder)
<1>1. n \in Nat /\ DOMAIN TableOrder = 1 .. n /\ TableOrder \in [1 .. n -> Tables]
  BY TenantPurgeAssumption
<1>2. TableOrder \in Bijection(1 .. n, Tables)
  <2>1. \A t \in Tables : \E i \in 1 .. n : TableOrder[i] = t
    BY <1>1 DEF Tables, ToSet
  <2>2. \A i, k \in 1 .. n : TableOrder[i] = TableOrder[k] => i = k
    BY <1>1, TenantPurgeAssumption DEF IsInjective
  <2> QED  BY <1>1, <2>1, <2>2 DEF Bijection, Injection, Surjection, IsInjective
<1>3. ExistsBijection(1 .. n, Tables)
  BY <1>2 DEF ExistsBijection
<1>4. IsFiniteSet(1 .. n) /\ Cardinality(1 .. n) = n
  BY <1>1, FS_Interval
<1> QED  BY <1>3, <1>4, FS_Bijection

LEMMA PassInit == Init => GInv
<1> SUFFICES ASSUME Init PROVE GInv
  OBVIOUS
<1>1. QueueInv
  BY TenantPurgeAssumption DEF Init, QueueInv
<1>2. ASSUME NEW r \in Replicas
      PROVE  PassInv(r) /\ Counted(r) /\ Stuck(r) /\ GaveUp(r)
  <2>1. job[r] = Idle /\ deleted[r] = {}
    BY DEF Init
  <2>2. /\ Idle.step = "idle" /\ Idle.pass = 0 /\ Idle.todo = <<>> /\ Idle.blocked = <<>>
        /\ ~Idle.last
    BY DEF Idle
  <2> QED  BY <2>1, <2>2, ToSetEmpty, DistinctShort, TenantPurgeAssumption
           DEF PassInv, Counted, Stuck, GaveUp, Working
<1> QED  BY <1>1, <1>2 DEF GInv

\* A step of one replica leaves the others' passes alone.
LEMMA PassStep ==
  ASSUME IInv, GInv, QueueInv', NEW r \in Replicas, NEW j, NEW d,
         job' = [job EXCEPT ![r] = j], deleted' = [deleted EXCEPT ![r] = d], fk' = fk,
         faults' \in {faults, faults + 1},
         PassInv(r)', Counted(r)', Stuck(r)', GaveUp(r)'
  PROVE  GInv'
<1>1. faults \in Nat /\ (faults' = 0 => faults = 0) /\ (faults > 0 => faults' > 0)
  BY DEF GInv, QueueInv
<1>2. ASSUME NEW q \in Replicas, q # r
      PROVE  PassInv(q)' /\ Counted(q)' /\ Stuck(q)' /\ GaveUp(q)'
  <2>1. job'[q] = job[q] /\ deleted'[q] = deleted[q]
    BY <1>2 DEF IInv, Types
  <2>2. /\ PassInv(q) /\ Counted(q) /\ Stuck(q) /\ GaveUp(q)
        /\ Pending(q)' = Pending(q) /\ Working(q)' = Working(q) /\ Entangled' = Entangled
    BY <2>1 DEF GInv, Pending, Working, Entangled
  <2>3. PassInv(q)' /\ Counted(q)'
    BY <2>1, <2>2 DEF PassInv, Counted, Working
  <2>4. Stuck(q)' /\ GaveUp(q)'
    BY <1>1, <2>1, <2>2 DEF Stuck, GaveUp
  <2> QED  BY <2>3, <2>4
<1> QED  BY <1>2 DEF GInv

LEMMA PassFacts ==
  ASSUME IInv, GInv, NEW r \in Replicas
  PROVE  /\ PassInv(r) /\ Counted(r) /\ Stuck(r) /\ GaveUp(r)
         /\ job[r].pass \in Nat /\ faults \in Nat
         /\ job[r].progress \in BOOLEAN /\ job[r].last \in BOOLEAN
         /\ Len(job[r].todo) \in Nat /\ Len(job[r].blocked) \in Nat
         /\ Len(TableOrder) \in Nat /\ MaxPasses \in Nat
<1>1. job[r] \in Jobs
  BY JobFacts
<1>2. TableOrder \in Seq(Purged)
  BY Tabled
<1>3. job[r].todo \in Seq(Purged) /\ job[r].blocked \in Seq(Purged)
  BY <1>1 DEF Jobs
<1> QED  BY <1>1, <1>2, <1>3, TenantPurgeAssumption DEF GInv, QueueInv, Jobs

LEMMA QueueSame ==
  ASSUME GInv, UNCHANGED <<mailing, rows, inFlight, deliveries>>, faults' \in {faults, faults + 1}
  PROVE  QueueInv'
<1>1. QueueInv
  BY DEF GInv
<1> QED  BY <1>1 DEF QueueInv

\* A job that has failed, is over or has still to be committed.
LEMMA Settle ==
  ASSUME IInv, GInv, QueueInv', NEW r \in Replicas, NEW s \in Steps \ {"pass", "delete", "check", "blocked"},
         NEW d \in SUBSET deleted[r],
         job' = [job EXCEPT ![r] = At(r, s)], deleted' = [deleted EXCEPT ![r] = d], fk' = fk,
         faults' \in {faults, faults + 1}
  PROVE  GInv'
<1>1. job'[r] = At(r, s) /\ deleted'[r] = d
  BY DEF IInv, Types
<1>2. /\ job'[r].step = s /\ job'[r].todo = job[r].todo /\ job'[r].blocked = job[r].blocked
      /\ job'[r].last = job[r].last /\ job'[r].pass = job[r].pass
  BY <1>1, JobFacts, AtFacts
<1>3. PassInv(r)
  BY DEF GInv
<1>4. PassInv(r)' /\ Counted(r)' /\ Stuck(r)' /\ GaveUp(r)'
  BY <1>1, <1>2, <1>3 DEF PassInv, Counted, Stuck, GaveUp, Working
<1> QED  BY <1>4, PassStep

\* A pass is over: the tenant table, the commit, the blocked tables again, or
\* the end, when nothing went or the passes are used up.
LEMMA NextPassGInv == ASSUME IInv, GInv, NEW r \in Replicas, NextPass(r) PROVE GInv'
<1>1. /\ job[r] \in Jobs /\ JobInv(r) /\ job[r].step = "pass" /\ job[r].todo = <<>>
      /\ UNCHANGED <<fk, mailing, rows, inFlight, deliveries, deleted, faults>>
  BY JobFacts DEF NextPass, Local, queueVars, JobInv
<1>2. QueueInv' /\ faults \in Nat /\ deleted' = [deleted EXCEPT ![r] = deleted[r]]
  BY <1>1, QueueSame, PassFacts DEF IInv, Types
<1>3. PassInv(r) /\ Counted(r) /\ Stuck(r) /\ job[r].pass \in Nat
  BY PassFacts
<1>4. CASE job[r].blocked = <<>> /\ job[r].last
  <2>1. job' = [job EXCEPT ![r] = At(r, "commit")]
    BY <1>4 DEF NextPass, Becomes
  <2> QED  BY <1>1, <1>2, <2>1, Settle DEF Steps
<1>5. CASE job[r].blocked = <<>> /\ ~job[r].last
  <2> DEFINE j == [At(r, "delete") EXCEPT !.todo = <<TenantTable>>, !.last = TRUE]
  <2>1. job' = [job EXCEPT ![r] = j]
    BY <1>5 DEF NextPass, Becomes
  <2>2. /\ j.step = "delete" /\ j.todo = <<TenantTable>> /\ j.last
        /\ j.blocked = <<>> /\ j.pass = job[r].pass
    BY <1>1, <1>5 DEF At, Jobs
  <2> HIDE DEF j
  <2>3. job'[r] = j /\ deleted'[r] = deleted[r]
    BY <1>1, <2>1 DEF IInv, Types
  <2>4. ToSet(<<>>) = {} /\ IsInjective(<<>>) /\ IsInjective(<<TenantTable>>)
    BY ToSetEmpty, DistinctShort
  <2>5. PassInv(r)'
    BY <1>3, <2>2, <2>3, <2>4 DEF PassInv
  <2>6. Counted(r)' /\ Stuck(r)' /\ GaveUp(r)'
    BY <2>2, <2>3, <2>4 DEF Counted, Stuck, GaveUp
  <2> QED  BY <1>1, <1>2, <2>1, <2>5, <2>6, PassStep
<1>6. CASE job[r].blocked # <<>> /\ (~job[r].progress \/ job[r].pass = MaxPasses)
  <2>1. job' = [job EXCEPT ![r] = At(r, "blocked")]
    BY <1>6 DEF NextPass, Becomes
  <2>2. /\ At(r, "blocked").step = "blocked" /\ At(r, "blocked").todo = job[r].todo
        /\ At(r, "blocked").blocked = job[r].blocked /\ At(r, "blocked").last = job[r].last
        /\ At(r, "blocked").pass = job[r].pass
    BY <1>1, AtFacts DEF Steps
  <2>3. job'[r] = At(r, "blocked") /\ deleted'[r] = deleted[r]
    BY <1>1, <2>1 DEF IInv, Types
  <2>4. PassInv(r)' /\ Counted(r)' /\ Stuck(r)'
    BY <1>3, <2>2, <2>3 DEF PassInv, Counted, Stuck, Working
  <2>5. ~job[r].last
    BY <1>1, <1>3, <1>6 DEF PassInv, Working
  <2> DEFINE S == ToSet(job[r].blocked)
  <2>6. S \in (SUBSET Tables) \ {{}} /\ Len(job[r].blocked) >= 1
    <3>1. /\ job[r].blocked \in Seq(Purged) /\ S \subseteq Purged
          /\ TenantTable \notin S
      BY <1>1, <1>3, <2>5, JobFacts, ToSetIn DEF PassInv
    <3>2. Head(job[r].blocked) \in S
      BY <1>6, <3>1, ToSetSplit
    <3>3. Len(job[r].blocked) >= 1
      BY <1>6, <3>1
    <3> QED  BY <3>1, <3>2, <3>3 DEF Purged
  <2>7. CASE ~job[r].progress
    <3>1. faults = 0 => \A t \in S : \E c \in (Pending(r) \cup Kept) \ {t} : <<c, t>> \in fk
      BY <1>1, <1>3, <2>7 DEF Stuck, Working
    <3>2. Pending(r) = S \cup {TenantTable}
      BY <1>1, <2>5, ToSetEmpty DEF Pending
    <3>3. faults = 0 => Entangled
      BY <2>6, <3>1, <3>2 DEF Entangled
    <3>4. Entangled' = Entangled
      BY <1>1 DEF Entangled
    <3>5. GaveUp(r)'
      BY <1>1, <1>2, <3>3, <3>4 DEF GaveUp
    <3> QED  BY <1>1, <1>2, <2>1, <2>4, <3>5, PassStep
  <2>8. CASE job[r].progress /\ job[r].pass = MaxPasses
    <3>1. Len(job[r].todo) + Len(job[r].blocked) + job[r].pass <= Len(TableOrder)
      BY <1>1, <1>3, <2>5, <2>8, PassFacts DEF Counted, Working
    <3>2. Len(TableOrder) > MaxPasses
      <4> DEFINE a == Len(job[r].todo)  b == Len(job[r].blocked)  n == Len(TableOrder)
      <4>1. a \in Nat /\ b \in Nat /\ n \in Nat /\ MaxPasses \in Nat
        BY PassFacts
      <4>2. a + b + MaxPasses <= n /\ b >= 1
        BY <2>6, <2>8, <3>1
      <4> HIDE DEF a, b, n
      <4>3. n > MaxPasses
        BY <4>1, <4>2
      <4> QED  BY <4>3 DEF n
    <3>3. GaveUp(r)'
      BY <3>2, TablesAre DEF GaveUp
    <3> QED  BY <1>1, <1>2, <2>1, <2>4, <3>3, PassStep
  <2> QED  BY <1>6, <2>7, <2>8
<1>7. CASE job[r].blocked # <<>> /\ ~(~job[r].progress \/ job[r].pass = MaxPasses)
  <2> DEFINE j == [At(r, "delete") EXCEPT !.todo = job[r].blocked, !.blocked = <<>>,
                                          !.progress = FALSE, !.pass = @ + 1]
  <2>1. job' = [job EXCEPT ![r] = j]
    BY <1>7 DEF NextPass, Becomes
  <2>2. /\ j.step = "delete" /\ j.todo = job[r].blocked /\ j.last = job[r].last
        /\ j.blocked = <<>> /\ j.pass = job[r].pass + 1 /\ ~j.progress
    BY <1>1 DEF At, Jobs
  <2> HIDE DEF j
  <2>3. job'[r] = j /\ deleted'[r] = deleted[r]
    BY <1>1, <2>1 DEF IInv, Types
  <2>4. ToSet(<<>>) = {} /\ IsInjective(<<>>) /\ Len(<<>>) = 0
    BY ToSetEmpty, DistinctShort
  <2>5. ~job[r].last
    BY <1>1, <1>3, <1>7 DEF PassInv, Working
  <2>6. job[r].pass + 1 <= MaxPasses
    BY <1>3, <1>7, PassFacts DEF PassInv
  <2>7. PassInv(r)'
    BY <1>1, <1>3, <2>2, <2>3, <2>4, <2>5, <2>6 DEF PassInv
  <2>8. Counted(r)'
    <3>1. Len(job[r].todo) + Len(job[r].blocked) + job[r].pass <= Len(TableOrder)
      BY <1>1, <1>3, <1>7, <2>5, PassFacts DEF Counted, Working
    <3>2. Len(j.todo) + Len(j.blocked) + j.pass <= Len(TableOrder) + 1
      BY <1>1, <2>2, <2>4, <3>1, PassFacts
    <3> QED  BY <2>2, <2>3, <3>2 DEF Counted
  <2>9. Stuck(r)' /\ GaveUp(r)'
    BY <2>2, <2>3, <2>4 DEF Stuck, GaveUp
  <2> QED  BY <1>1, <1>2, <2>1, <2>7, <2>8, <2>9, PassStep
<1> QED  BY <1>4, <1>5, <1>6, <1>7

LEMMA DeleteGInv == ASSUME IInv, GInv, NEW r \in Replicas, Delete(r) PROVE GInv'
<1> DEFINE d == deleted[r] \cup Visible(r, Table(r))
<1>1. /\ job[r] \in Jobs /\ JobInv(r) /\ job[r].step = "delete" /\ job[r].todo # <<>>
      /\ UNCHANGED <<fk, mailing, rows, inFlight, deliveries, faults>>
      /\ job' = [job EXCEPT ![r] = At(r, "check")] /\ deleted' = [deleted EXCEPT ![r] = d]
  BY JobFacts DEF Delete, Local, queueVars, JobInv, Becomes
<1>2. QueueInv' /\ faults \in Nat /\ PassInv(r) /\ Counted(r) /\ Stuck(r)
  BY <1>1, QueueSame, PassFacts
<1>3. job'[r] = At(r, "check") /\ deleted'[r] = d
  BY <1>1 DEF IInv, Types
<1>4. /\ At(r, "check").step = "check" /\ At(r, "check").todo = job[r].todo
      /\ At(r, "check").blocked = job[r].blocked /\ At(r, "check").last = job[r].last
      /\ At(r, "check").pass = job[r].pass /\ At(r, "check").progress = job[r].progress
  BY <1>1 DEF At, Jobs
<1>5. \A x \in d : x[1] \notin ToSet(job[r].blocked)
  <2>1. Table(r) \in ToSet(job[r].todo)
    BY <1>1, JobFacts, RestFacts
  <2>2. \A x \in Visible(r, Table(r)) : x[1] = Table(r)
    BY DEF Visible
  <2> QED  BY <1>2, <2>1, <2>2 DEF PassInv
<1>6. PassInv(r)'
  BY <1>1, <1>2, <1>3, <1>4, <1>5 DEF PassInv, Working
<1>7. Counted(r)' /\ GaveUp(r)'
  BY <1>1, <1>2, <1>3, <1>4 DEF Counted, GaveUp, Working
<1>8. Stuck(r)'
  <2>1. Pending(r)' = Pending(r)
    BY <1>3, <1>4 DEF Pending
  <2> QED  BY <1>1, <1>2, <1>3, <1>4, <2>1 DEF Stuck, Working
<1> HIDE DEF d
<1> QED  BY <1>1, <1>2, <1>6, <1>7, <1>8, PassStep

\* The next table of a pass; a pass that has let this one go has progressed.
LEMMA ReleaseGInv == ASSUME IInv, GInv, NEW r \in Replicas, Release(r) PROVE GInv'
<1> DEFINE j == [Rest(r) EXCEPT !.progress = TRUE]
<1>1. /\ job[r] \in Jobs /\ JobInv(r) /\ job[r].step = "check" /\ job[r].todo # <<>>
      /\ UNCHANGED <<fk, mailing, rows, inFlight, deliveries, deleted, faults>>
      /\ job' = [job EXCEPT ![r] = j]
  BY JobFacts DEF Release, Local, queueVars, JobInv, Becomes
<1>2. QueueInv' /\ faults \in Nat /\ PassInv(r) /\ Counted(r)
  BY <1>1, QueueSame, PassFacts
<1>3. deleted' = [deleted EXCEPT ![r] = deleted[r]]
  BY <1>1 DEF IInv, Types
<1>4. /\ j.step \in {"pass", "delete"} /\ j.todo = Tail(job[r].todo) /\ j.progress
      /\ j.blocked = job[r].blocked /\ j.last = job[r].last /\ j.pass = job[r].pass
      /\ j.step = "delete" => j.todo # <<>>
  <2>1. /\ Rest(r) \in Jobs /\ Rest(r).blocked = job[r].blocked
        /\ Rest(r).last = job[r].last /\ Rest(r).todo = Tail(job[r].todo)
        /\ \/ Rest(r).step = "pass" /\ Rest(r).todo = <<>>
           \/ Rest(r).step = "delete" /\ Rest(r).todo # <<>>
    BY <1>1, RestFacts
  <2>2. Rest(r).pass = job[r].pass
    BY <1>1 DEF Rest, At, Jobs
  <2> QED  BY <2>1, <2>2 DEF Jobs
<1> HIDE DEF j
<1>5. job'[r] = j /\ deleted'[r] = deleted[r]
  BY <1>1 DEF IInv, Types
<1>6. /\ Len(Tail(job[r].todo)) = Len(job[r].todo) - 1
      /\ IsInjective(Tail(job[r].todo)) /\ ToSet(Tail(job[r].todo)) \subseteq ToSet(job[r].todo)
      /\ Tail(<<TenantTable>>) = <<>>
  <2>1. job[r].todo \in Seq(Purged)
    BY JobFacts
  <2>2. Len(Tail(job[r].todo)) = Len(job[r].todo) - 1
    BY <1>1, <2>1
  <2> QED  BY <1>1, <1>2, <2>1, <2>2, DistinctTail, ToSetSplit DEF PassInv
<1>7. PassInv(r)'
  <2>1. job[r].last => job[r].todo = <<TenantTable>> /\ job[r].blocked = <<>>
    BY <1>1, <1>2 DEF PassInv, Working
  <2> QED  BY <1>1, <1>2, <1>4, <1>5, <1>6, <2>1 DEF PassInv, Working
<1>8. Counted(r)'
  <2>1. CASE job[r].last
    BY <1>4, <1>5, <2>1 DEF Counted
  <2>2. CASE ~job[r].last
    <3> DEFINE a == Len(job[r].todo)  b == Len(job[r].blocked)  n == Len(TableOrder)
               k == IF job[r].progress THEN 0 ELSE 1
    <3>1. a + b + job[r].pass <= n + k
      BY <1>1, <1>2, <2>2 DEF Counted, Working
    <3>2. a \in Nat /\ b \in Nat /\ n \in Nat /\ k \in {0, 1} /\ job[r].pass \in Nat
      BY PassFacts
    <3>3. Len(job'[r].todo) + Len(job'[r].blocked) + job'[r].pass = a - 1 + b + job[r].pass
      BY <1>4, <1>5, <1>6
    <3>4. n + (IF job'[r].progress THEN 0 ELSE 1) = n + 0
      BY <1>4, <1>5
    <3> HIDE DEF a, b, n, k
    <3>5. a - 1 + b + job[r].pass <= n + 0
      BY <3>1, <3>2
    <3> QED  BY <3>3, <3>4, <3>5 DEF Counted, n
  <2> QED  BY <2>1, <2>2
<1>9. Stuck(r)' /\ GaveUp(r)'
  BY <1>4, <1>5 DEF Stuck, GaveUp
<1> QED  BY <1>1, <1>2, <1>3, <1>7, <1>8, <1>9, PassStep

\* A row that stands against a table's deletion is of another table, which is
\* still to go, or is kept.
LEMMA Against ==
  ASSUME IInv, GInv, NEW r \in Replicas, Violation(r), faults = 0
  PROVE  \E c \in (Pending(r) \cup Kept) \ {Table(r)} : <<c, Table(r)>> \in fk
<1>1. job[r].step = "check" /\ JobInv(r) /\ Taken(r) # {}
  BY JobFacts DEF Violation
<1>2. PICK x \in Referencing(r) : x \notin OthersDeleted(r)
  BY DEF Violation
<1>3. PICK c \in AllTables : <<c, Table(r)>> \in fk /\ x \in Visible(r, c)
  BY <1>2 DEF Referencing
<1>4. TenantID(job[r].msg) = "t" /\ x \in {c} \X rows[c] /\ x \notin deleted[r]
  BY <1>3 DEF Visible
<1>5. x = <<c, "old">> /\ "old" \in rows[c]
  BY <1>4 DEF GInv, QueueInv
<1>6. ~Cleared(r, c)
  BY <1>4, <1>5 DEF Cleared
<1>7. c # Table(r) /\ c \in Pending(r) \cup Kept
  BY <1>1, <1>4, <1>6 DEF JobInv, AllTables
<1> QED  BY <1>3, <1>7

LEMMA ViolationGInv == ASSUME IInv, GInv, NEW r \in Replicas, Violation(r) PROVE GInv'
<1> DEFINE d == deleted[r] \ Taken(r)
<1>1. /\ job[r] \in Jobs /\ JobInv(r) /\ job[r].step = "check" /\ job[r].todo # <<>>
      /\ UNCHANGED <<fk, mailing, rows, inFlight, deliveries, faults>>
      /\ deleted' = [deleted EXCEPT ![r] = d]
  BY JobFacts DEF Violation, Local, queueVars, JobInv
<1>2. QueueInv' /\ faults \in Nat /\ PassInv(r) /\ Counted(r) /\ Stuck(r)
  BY <1>1, QueueSame, PassFacts
<1>3. deleted'[r] = d
  BY <1>1 DEF IInv, Types
<1>4. faults = 0 => \E c \in (Pending(r) \cup Kept) \ {Table(r)} : <<c, Table(r)>> \in fk
  BY Against
<1>5. CASE job[r].last
  <2>1. job' = [job EXCEPT ![r] = At(r, "blocked")]
    BY <1>5 DEF Violation, Becomes
  <2>2. /\ At(r, "blocked").step = "blocked" /\ At(r, "blocked").todo = job[r].todo
        /\ At(r, "blocked").blocked = job[r].blocked /\ At(r, "blocked").last = job[r].last
        /\ At(r, "blocked").pass = job[r].pass
    BY <1>1, AtFacts DEF Steps
  <2>3. job'[r] = At(r, "blocked")
    BY <2>1 DEF IInv, Types
  <2>4. PassInv(r)' /\ Counted(r)' /\ Stuck(r)'
    BY <1>2, <1>3, <2>2, <2>3 DEF PassInv, Counted, Stuck, Working
  <2>5. job[r].todo = <<TenantTable>> /\ job[r].blocked = <<>>
    BY <1>1, <1>2, <1>5 DEF PassInv, Working
  <2>6. Table(r) = TenantTable /\ Pending(r) = {TenantTable}
    BY <1>5, <2>5, ToSetEmpty, ToSetOne DEF Table, Pending
  <2>7. faults = 0 => Entangled
    BY <1>4, <2>6 DEF Entangled
  <2>8. Entangled' = Entangled
    BY <1>1 DEF Entangled
  <2>9. GaveUp(r)'
    BY <1>1, <1>2, <2>7, <2>8 DEF GaveUp
  <2> QED  BY <1>1, <1>2, <2>1, <2>4, <2>9, PassStep
<1>6. CASE ~job[r].last
  <2> DEFINE j == [Rest(r) EXCEPT !.blocked = Append(job[r].blocked, Table(r))]
  <2>1. job' = [job EXCEPT ![r] = j]
    <3>1. Rest(r).blocked = job[r].blocked
      BY <1>1, RestFacts
    <3> QED  BY <1>6, <3>1 DEF Violation, Becomes
  <2>2. /\ j.step \in {"pass", "delete"} /\ j.todo = Tail(job[r].todo) /\ ~j.last
        /\ j.blocked = Append(job[r].blocked, Table(r))
        /\ j.pass = job[r].pass /\ j.progress = job[r].progress
    <3>1. /\ Rest(r) \in Jobs /\ Rest(r).blocked = job[r].blocked
          /\ Rest(r).last = job[r].last /\ Rest(r).todo = Tail(job[r].todo)
          /\ Rest(r).step \in {"pass", "delete"}
      BY <1>1, RestFacts
    <3>2. Rest(r).pass = job[r].pass /\ Rest(r).progress = job[r].progress
      BY <1>1 DEF Rest, At, Jobs
    <3> QED  BY <1>6, <3>1, <3>2 DEF Jobs
  <2> HIDE DEF j
  <2>3. job'[r] = j
    BY <2>1 DEF IInv, Types
  <2>4. /\ job[r].todo \in Seq(Purged) /\ job[r].blocked \in Seq(Purged)
        /\ Table(r) \in Purged /\ Table(r) \in ToSet(job[r].todo)
        /\ ToSet(job[r].todo) = {Table(r)} \cup ToSet(Tail(job[r].todo))
    BY <1>1, JobFacts, RestFacts
  <2>5. /\ Len(Tail(job[r].todo)) = Len(job[r].todo) - 1
        /\ Len(Append(job[r].blocked, Table(r))) = Len(job[r].blocked) + 1
    BY <1>1, <2>4
  <2>6. /\ IsInjective(Tail(job[r].todo)) /\ Table(r) \notin ToSet(Tail(job[r].todo))
        /\ Table(r) \notin ToSet(job[r].blocked)
    BY <1>1, <1>2, <2>4, DistinctTail DEF PassInv, Table
  <2>7. /\ IsInjective(Append(job[r].blocked, Table(r)))
        /\ ToSet(Append(job[r].blocked, Table(r))) = ToSet(job[r].blocked) \cup {Table(r)}
    BY <1>2, <2>4, <2>6, DistinctAppend, ToSetAppend DEF PassInv
  <2>8. PassInv(r)'
    <3>1. \A x \in d : x[1] \notin ToSet(job[r].blocked) \cup {Table(r)}
      BY <1>2 DEF PassInv, Taken
    <3> HIDE DEF d
    <3> DEFINE T == ToSet(job[r].todo)  B == ToSet(job[r].blocked)
    <3>2. T \cap B = {} /\ TenantTable \notin T \cup B /\ job[r].pass <= MaxPasses
      BY <1>2, <1>6 DEF PassInv
    <3>3. ToSet(j.todo) \subseteq T \ {Table(r)} /\ ToSet(j.blocked) = B \cup {Table(r)}
          /\ Table(r) \in T
      BY <2>2, <2>4, <2>6, <2>7
    <3> HIDE DEF T, B
    <3>4. ToSet(j.todo) \cap ToSet(j.blocked) = {} /\ TenantTable \notin ToSet(j.todo) \cup ToSet(j.blocked)
      BY <3>2, <3>3
    <3>5. \A x \in d : x[1] \notin ToSet(j.blocked)
      BY <3>1, <3>3 DEF B
    <3>6. IsInjective(j.todo) /\ IsInjective(j.blocked) /\ j.pass <= MaxPasses
      BY <2>2, <2>6, <2>7, <3>2
    <3> QED  BY <1>3, <2>2, <2>3, <3>4, <3>5, <3>6 DEF PassInv
  <2>9. Counted(r)'
    <3> DEFINE a == Len(job[r].todo)  b == Len(job[r].blocked)  n == Len(TableOrder)
               k == IF job[r].progress THEN 0 ELSE 1
    <3>1. a + b + job[r].pass <= n + k
      BY <1>1, <1>2, <1>6 DEF Counted, Working
    <3>2. a \in Nat /\ b \in Nat /\ n \in Nat /\ k \in Nat /\ job[r].pass \in Nat
      BY PassFacts
    <3>3. Len(j.todo) = a - 1 /\ Len(j.blocked) = b + 1
      BY <2>2, <2>5
    <3>4. Len(job'[r].todo) + Len(job'[r].blocked) + job'[r].pass
            = a - 1 + (b + 1) + job[r].pass
      BY <2>2, <2>3, <3>3
    <3>5. n + (IF job'[r].progress THEN 0 ELSE 1) = n + k
      BY <2>2, <2>3
    <3> HIDE DEF a, b, n, k
    <3>6. a - 1 + (b + 1) + job[r].pass <= n + k
      BY <3>1, <3>2
    <3> QED  BY <3>4, <3>5, <3>6 DEF Counted, n
  <2>10. Pending(r)' = Pending(r)
    BY <1>6, <2>2, <2>3, <2>4, <2>7 DEF Pending
  <2>11. Stuck(r)' /\ GaveUp(r)'
    BY <1>1, <1>2, <1>4, <2>2, <2>3, <2>7, <2>10 DEF Stuck, GaveUp, Working
  <2> HIDE DEF d
  <2> QED  BY <1>1, <1>2, <2>1, <2>8, <2>9, <2>11, PassStep
<1> QED  BY <1>5, <1>6

LEMMA AbortGInv == ASSUME IInv, GInv, NEW r \in Replicas, Abort(r) PROVE GInv'
<1>1. /\ job' = [job EXCEPT ![r] = At(r, "failed")]
      /\ UNCHANGED <<fk, mailing, rows, inFlight, deliveries, deleted>>
      /\ faults' \in {faults, faults + 1}
  BY DEF Abort, Becomes, Local, queueVars, Fault
<1>2. deleted' = [deleted EXCEPT ![r] = deleted[r]]
  BY <1>1 DEF IInv, Types
<1> QED  BY <1>1, <1>2, QueueSame, Settle DEF Steps

LEMMA CommitGInv == ASSUME IInv, GInv, NEW r \in Replicas, Commit(r) PROVE GInv'
<1>1. PICK s \in {"done", "failed"} : job' = [job EXCEPT ![r] = At(r, s)]
  BY DEF Commit, Becomes
<1>2. /\ deleted' = [deleted EXCEPT ![r] = {}]
      /\ UNCHANGED <<fk, mailing, inFlight, deliveries>>
      /\ faults' \in {faults, faults + 1} /\ faults \in Nat
  BY PassFacts DEF Commit, EndTx, queueVars, Fault
<1>3. \A t \in AllTables : rows'[t] \subseteq rows[t]
  BY CommitLeft DEF Commit
<1>4. QueueInv'
  BY <1>2, <1>3 DEF GInv, QueueInv
<1> QED  BY <1>1, <1>2, <1>4, Settle DEF Steps

\* An idle replica has no pass.
LEMMA IdleGInv ==
  ASSUME IInv, GInv, QueueInv', NEW r \in Replicas, Becomes(r, Idle),
         NEW d \in SUBSET deleted[r], deleted' = [deleted EXCEPT ![r] = d],
         fk' = fk, faults' \in {faults, faults + 1}
  PROVE  GInv'
<1>1. job' = [job EXCEPT ![r] = Idle]
  BY DEF Becomes
<1>2. job'[r] = Idle /\ deleted'[r] = d
  BY <1>1 DEF IInv, Types
<1>3. /\ Idle.step = "idle" /\ Idle.pass = 0 /\ Idle.todo = <<>> /\ Idle.blocked = <<>>
      /\ ~Idle.last
  BY DEF Idle
<1>4. PassInv(r)' /\ Counted(r)' /\ Stuck(r)' /\ GaveUp(r)'
  BY <1>2, <1>3, ToSetEmpty, DistinctShort, TenantPurgeAssumption
     DEF PassInv, Counted, Stuck, GaveUp, Working
<1> QED  BY <1>1, <1>4, PassStep

LEMMA AckNakCrashGInv ==
  ASSUME IInv, GInv, NEW r \in Replicas, Ack(r) \/ Nak(r) \/ Crash(r)
  PROVE  GInv'
<1>1. /\ Becomes(r, Idle) /\ UNCHANGED <<fk, mailing, rows, deliveries>>
      /\ inFlight' \subseteq inFlight /\ faults' \in {faults, faults + 1}
  BY DEF Ack, Nak, Crash, queueVars, Fault
<1>2. \/ deleted' = [deleted EXCEPT ![r] = {}]
      \/ deleted' = [deleted EXCEPT ![r] = deleted[r]]
  BY DEF Ack, Nak, Crash, EndTx, IInv, Types
<1>3. QueueInv'
  BY <1>1 DEF GInv, QueueInv
<1> QED  BY <1>1, <1>2, <1>3, IdleGInv

LEMMA ReceiveGInv ==
  ASSUME IInv, GInv, NEW r \in Replicas, NEW m \in mailing, Receive(r, m)
  PROVE  GInv'
<1>1. /\ JobInv(r) /\ deleted[r] = {} /\ faults \in Nat
      /\ UNCHANGED <<fk, mailing, rows, deleted, faults>>
  BY JobFacts, PassFacts DEF Receive, JobInv
<1>2. QueueInv'
  <2>1. /\ deliveries' = [deliveries EXCEPT ![m] = @ + 1] /\ deliveries[m] < MaxDeliver
        /\ inFlight' \subseteq inFlight \cup {m}
    BY DEF Receive
  <2>2. deliveries \in [mailing -> 0 .. MaxDeliver] /\ MaxDeliver \in Nat
    BY TenantPurgeAssumption DEF GInv, QueueInv
  <2>3. deliveries[m] + 1 \in 0 .. MaxDeliver
    BY <2>1, <2>2
  <2>4. deliveries' \in [mailing -> 0 .. MaxDeliver]
    BY <2>1, <2>2, <2>3
  <2> QED  BY <1>1, <2>1, <2>4 DEF GInv, QueueInv
<1>3. CASE m.decodes /\ ConfirmedTenantPurge(m)
  <2> DEFINE j == Begin(m)
  <2>1. job' = [job EXCEPT ![r] = j]
    BY <1>3 DEF Receive, Becomes
  <2>2. /\ j.step = "pass" /\ j.todo = <<>> /\ j.blocked = TableOrder
        /\ j.pass = 0 /\ j.progress /\ ~j.last
    BY DEF Begin, Idle
  <2> HIDE DEF j
  <2>3. job'[r] = j /\ deleted'[r] = {} /\ deleted' = [deleted EXCEPT ![r] = {}]
    BY <1>1, <2>1 DEF IInv, Types
  <2>4. /\ IsInjective(TableOrder) /\ ToSet(TableOrder) = Tables /\ TenantTable \notin Tables
        /\ MaxPasses \in Nat
    BY TenantPurgeAssumption DEF Tables
  <2>5. PassInv(r)'
    BY <2>2, <2>3, <2>4, ToSetEmpty, DistinctShort DEF PassInv
  <2>6. Counted(r)'
    <3> DEFINE n == Len(TableOrder)
    <3>1. 0 + n + 0 <= n + 0
      BY PassFacts
    <3>2. /\ Len(job'[r].todo) = 0 /\ Len(job'[r].blocked) = n /\ job'[r].pass = 0
          /\ job'[r].progress
      BY <2>2, <2>3, DistinctShort
    <3> HIDE DEF n
    <3> QED  BY <3>1, <3>2 DEF Counted, n
  <2>7. Stuck(r)' /\ GaveUp(r)'
    BY <2>2, <2>3 DEF Stuck, GaveUp
  <2> QED  BY <1>1, <1>2, <2>1, <2>3, <2>5, <2>6, <2>7, PassStep
<1>4. CASE ~(m.decodes /\ ConfirmedTenantPurge(m))
  <2>1. UNCHANGED job
    BY <1>4 DEF Receive
  <2>2. job' = [job EXCEPT ![r] = job[r]] /\ deleted' = [deleted EXCEPT ![r] = deleted[r]]
    BY <1>1, <2>1 DEF IInv, Types
  <2>3. PassInv(r) /\ Counted(r) /\ Stuck(r) /\ GaveUp(r)
    BY DEF GInv
  <2>4. PassInv(r)' /\ Counted(r)' /\ Stuck(r)' /\ GaveUp(r)'
    BY <1>1, <2>1, <2>3 DEF PassInv, Counted, Stuck, GaveUp, Working, Pending, Entangled
  <2> QED  BY <1>1, <1>2, <2>2, <2>4, PassStep
<1> QED  BY <1>3, <1>4

\* What changes no job leaves the passes as they are.
LEMMA OutsideGInv ==
  ASSUME GInv, QueueInv', UNCHANGED <<fk, job, deleted>>, faults' \in {faults, faults + 1}
  PROVE  GInv'
<1>1. faults \in Nat /\ (faults' = 0 => faults = 0) /\ (faults > 0 => faults' > 0)
  BY DEF GInv, QueueInv
<1>2. ASSUME NEW q \in Replicas
      PROVE  PassInv(q)' /\ Counted(q)' /\ Stuck(q)' /\ GaveUp(q)'
  <2>1. /\ PassInv(q) /\ Counted(q) /\ Stuck(q) /\ GaveUp(q)
        /\ Pending(q)' = Pending(q) /\ Working(q)' = Working(q) /\ Entangled' = Entangled
    BY DEF GInv, Pending, Working, Entangled
  <2>2. PassInv(q)' /\ Counted(q)'
    BY <2>1 DEF PassInv, Counted, Working
  <2>3. Stuck(q)' /\ GaveUp(q)'
    BY <1>1, <2>1 DEF Stuck, GaveUp
  <2> QED  BY <2>2, <2>3
<1> QED  BY <1>2 DEF GInv

LEMMA PassesStep == IInv /\ GInv /\ [Next]_vars => GInv'
<1> SUFFICES ASSUME IInv, GInv, [Next]_vars PROVE GInv'
  OBVIOUS
<1>1. ASSUME NEW r \in Replicas, Purge(r) PROVE GInv'
  BY <1>1, NextPassGInv, DeleteGInv, ReleaseGInv, ViolationGInv, AbortGInv, CommitGInv,
     AckNakCrashGInv DEF Purge
<1>2. ASSUME NEW r \in Replicas, Crash(r) PROVE GInv'
  BY <1>2, AckNakCrashGInv
<1>3. ASSUME NEW r \in Replicas, NEW m \in mailing, Receive(r, m) PROVE GInv'
  BY <1>3, ReceiveGInv
<1>4. ASSUME NEW m \in mailing, Expire(m) PROVE GInv'
  <2>1. /\ UNCHANGED <<fk, mailing, rows, job, deleted, deliveries>>
        /\ inFlight' \subseteq inFlight /\ faults' \in {faults, faults + 1}
    BY <1>4 DEF Expire, Fault
  <2>2. QueueInv'
    BY <2>1 DEF GInv, QueueInv
  <2> QED  BY <2>1, <2>2, OutsideGInv
<1>5. ASSUME NEW t \in Tables, Insert(t) PROVE GInv'
  <2>1. UNCHANGED <<fk, mailing, job, deleted, inFlight, deliveries>> /\ faults' = faults + 1
    BY <1>5 DEF Insert, Fault, queueVars
  <2>2. QueueInv'
    BY <2>1 DEF GInv, QueueInv
  <2> QED  BY <2>1, <2>2, OutsideGInv
<1>6. CASE UNCHANGED vars
  <2>1. UNCHANGED <<fk, mailing, rows, job, deleted, inFlight, deliveries, faults>>
    BY <1>6 DEF vars, queueVars
  <2>2. QueueInv'
    BY <2>1 DEF GInv, QueueInv
  <2> QED  BY <2>1, <2>2, OutsideGInv
<1> QED  BY <1>1, <1>2, <1>3, <1>4, <1>5, <1>6 DEF Next

LEMMA PassesInvariance == Spec => [](IInv /\ GInv)
  BY InitInv, PassInit, Step, PassesStep, PTL DEF Spec

-----------------------------------------------------------------------------
\* Whatever fails or runs beside it, a purge removes all of a tenant's rows or
\* none, and none of a kept table's (TenantPurger.Purge: one transaction).
THEOREM PurgesAreAtomic == Spec => []AllOrNothing
<1>1. IInv => AllOrNothing
  BY DEF IInv
<1> QED  BY <1>1, Invariance, PTL

\* Rows go only on a decodable, confirmed message for their tenant
\* (ConfirmedTenantPurge, TenantPurger.handle).
THEOREM PurgesAreOrdered == Spec => []PurgedOnOrder
<1>1. IInv => PurgedOnOrder
  BY DEF IInv
<1> QED  BY <1>1, Invariance, PTL

\* Such a message is acknowledged only when the rows are gone
\* (TenantPurger.handle: Nak on every error of Purge).
THEOREM NoOrderIsDropped == Spec => []SettledIsPurged
<1>1. IInv => SettledIsPurged
  BY DEF IInv
<1> QED  BY <1>1, Invariance, PTL

\* A purge gives up on foreign keys only if no order that ends with the tenant
\* row deletes the tables, or after a fault or an insert, or with more tables
\* than passes (TenantPurger.Purge: the retry passes).
THEOREM RetryingFindsTheOrder == Spec => []GivesUpOnlyIfEntangled
<1>1. GInv => GivesUpOnlyIfEntangled
  BY DEF GInv, GaveUp, GivesUpOnlyIfEntangled
<1> QED  BY <1>1, PassesInvariance, PTL

\* Passes and deliveries stay within their limits; a transaction is open only
\* while a purge runs, and has deleted nothing of a table it found blocked
\* (execInSavepoint).
THEOREM PurgeTypeOK == Spec => []TypeOK
<1>1. IInv /\ GInv => TypeOK
  <2> SUFFICES ASSUME IInv, GInv PROVE TypeOK
    OBVIOUS
  <2>1. \A t \in AllTables : rows[t] \subseteq {"old", "new"}
    BY DEF IInv, Types, Rows
  <2>2. ASSUME NEW r \in Replicas
        PROVE  /\ job[r].pass <= MaxPasses
               /\ job[r].step # "idle" => job[r].msg \in mailing
               /\ job[r].step \in {"idle", "done"} => deleted[r] = {}
               /\ \A x \in deleted[r] : x[1] \notin ToSet(job[r].blocked)
    BY DEF IInv, GInv, JobInv, PassInv
  <2>3. acked \subseteq mailing /\ inFlight \subseteq mailing
        /\ deliveries \in [mailing -> 0 .. MaxDeliver]
    BY DEF IInv, Types, GInv, QueueInv
  <2> QED  BY <2>1, <2>2, <2>3 DEF TypeOK
<1> QED  BY <1>1, PassesInvariance, PTL
=============================================================================
