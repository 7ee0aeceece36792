------------------------- MODULE BalanceAlertProofs -------------------------
(***************************************************************************)
(* The theorems about BalanceAlert, for every wallet, balance, mark and    *)
(* movement, and any number of replicas, periods, top-ups and faults.      *)
(***************************************************************************)
EXTENDS BalanceAlert, TLAPS, FiniteSetTheorems

Jobs == {Idle} \cup {Claiming(a) : a \in Alerts} \cup {Publishing(a) : a \in Alerts}

Types ==
  /\ DOMAIN remaining \subseteq Wallets
  /\ remaining \in [DOMAIN remaining -> Int]
  /\ topUps \in [Wallets -> 0 .. MaxTopUps]
  /\ period \in 1 .. MaxPeriods
  /\ job \in [Callers -> Jobs]
  /\ published \in [Alerts -> Nat]

\* No wallet holds more than a period starts with.
Bounded == \A w \in DOMAIN remaining : remaining[w] <= Total

\* What c is about to publish.
Holds(c) == job[c].step = "publish"
Key(c) == DedupeKey(job[c].alert)

\* A published alert took its key; a caller that is about to publish holds its
\* key alone, and nothing has been published with it.
Claimed ==
  /\ \A a \in Alerts : published[a] > 0 => DedupeKey(a) \in claimed
  /\ \A c \in Callers : Holds(c) => Key(c) \in claimed
Untold == \A c \in Callers, a \in Alerts : Holds(c) /\ DedupeKey(a) = Key(c) => published[a] = 0
Alone == \A c, d \in Callers : Holds(c) /\ Holds(d) /\ c # d => Key(c) # Key(d)

IInv == Types /\ Bounded /\ OncePerKey /\ Claimed /\ Untold /\ Alone

LEMMA JobSteps ==
  /\ Idle \in Jobs /\ Idle.step = "idle"
  /\ \A a \in Alerts : /\ Claiming(a) \in Jobs /\ Publishing(a) \in Jobs
                       /\ Claiming(a).step = "claim" /\ Claiming(a).alert = a
                       /\ Publishing(a).step = "publish" /\ Publishing(a).alert = a
  /\ \A j \in Jobs : j.step \in {"claim", "publish"} => j.alert \in Alerts
<1>1. Idle \in Jobs /\ Idle.step = "idle"
  BY DEF Jobs, Idle
<1>2. ASSUME NEW a \in Alerts
      PROVE  /\ Claiming(a) \in Jobs /\ Publishing(a) \in Jobs
             /\ Claiming(a).step = "claim" /\ Claiming(a).alert = a
             /\ Publishing(a).step = "publish" /\ Publishing(a).alert = a
  <2>1. Claiming(a) \in Jobs /\ Publishing(a) \in Jobs
    BY DEF Jobs
  <2> QED  BY <2>1 DEF Claiming, Publishing
<1>3. ASSUME NEW j \in Jobs, j.step \in {"claim", "publish"} PROVE j.alert \in Alerts
  <2>1. j # Idle
    BY <1>1, <1>3
  <2>2. PICK a \in Alerts : j = Claiming(a) \/ j = Publishing(a)
    BY <2>1 DEF Jobs
  <2> QED  BY <1>2, <2>2
<1> QED  BY <1>1, <1>2, <1>3

LEMMA AlertIn ==
  ASSUME Types, NEW w \in DOMAIN remaining, NEW l \in {"low", "empty"}
  PROVE  Alert(w, l) \in Alerts
<1>1. /\ w \in Wallets /\ period \in 1 .. MaxPeriods /\ topUps[w] \in 0 .. MaxTopUps
  BY DEF Types
<1>2. Alert(w, l) \in [scope : {w.scope}, tenant : {w.tenant}, resource : {w.resource},
                       level : {"low", "empty"}, period : 1 .. MaxPeriods, epoch : 0 .. MaxTopUps]
  BY <1>1 DEF Alert
<1> QED  BY <1>1, <1>2 DEF Alerts

LEMMA Levels ==
  ASSUME NEW x, NEW y, NEW m
  PROVE  Crossed(x, y, m) \in {"none", "low", "empty"} /\ LevelOf(x, m) \in {"none", "low", "empty"}
  BY DEF Crossed, LevelOf

\* Crossed reports the level a poller would see, exactly when it gets worse.
LEMMA SameLines ==
  ASSUME NEW x \in Int, NEW y \in Int, NEW m \in Int
  PROVE  IF Severity(LevelOf(y, m)) > Severity(LevelOf(x, m))
         THEN Crossed(x, y, m) = LevelOf(y, m) ELSE Crossed(x, y, m) = "none"
  BY DEF Crossed, LevelOf, Severity

LEMMA MoreIsNoWorse ==
  ASSUME NEW x \in Int, NEW y \in Int, NEW m \in Int, x <= y
  PROVE  ~(Severity(LevelOf(y, m)) > Severity(LevelOf(x, m)))
  BY DEF LevelOf, Severity

LEMMA MarkIn == Mark \in Int
<1>1. \A n \in Int : n \div 100 \in Int
  OBVIOUS
<1>2. Total \in Int /\ (IF Percent <= 0 \/ Percent >= 100 THEN 20 ELSE Percent) \in Int
  BY BalanceAlertAssumption
<1>3. \A i, j \in Int : i * j \in Int
  OBVIOUS
<1> QED  BY <1>1, <1>2, <1>3 DEF Mark, LowMark

LEMMA InitInv == Init => IInv
<1> SUFFICES ASSUME Init PROVE IInv
  OBVIOUS
<1>1. PICK open \in Portfolios : remaining = [w \in open |-> Total]
  BY DEF Init
<1>2. Types
  BY <1>1, JobSteps, BalanceAlertAssumption DEF Init, Types, Wallets
<1>3. Bounded
  BY <1>1, BalanceAlertAssumption DEF Bounded
<1> QED  BY <1>2, <1>3, JobSteps DEF Init, IInv, OncePerKey, Claimed, Untold, Alone, Holds

\* A step that neither claims nor publishes, and starts at most one call.
LEMMA QuietStep ==
  ASSUME IInv, UNCHANGED <<claimed, published>>, Types', Bounded',
         \A c \in Callers : Holds(c)' => Holds(c) /\ job'[c] = job[c]
  PROVE  IInv'
<1>1. OncePerKey' /\ Claimed'
  BY DEF IInv, OncePerKey, Claimed, Holds, Key
<1>2. Untold' /\ Alone'
  BY DEF IInv, Untold, Alone, Holds, Key
<1> QED  BY <1>1, <1>2 DEF IInv

LEMMA MoveInv ==
  ASSUME IInv, NEW w \in DOMAIN remaining, NEW n \in Int, Move(w, n)
  PROVE  /\ Bounded' /\ DOMAIN remaining' = DOMAIN remaining
         /\ remaining' \in [DOMAIN remaining' -> Int]
  BY BalanceAlertAssumption DEF Move, IInv, Types, Bounded

LEMMA MovesIn == \A w \in Wallets : Moves[w] \subseteq Int
  BY BalanceAlertAssumption DEF Wallets

LEMMA Step == IInv /\ [Next]_vars => IInv'
<1> SUFFICES ASSUME IInv, [Next]_vars PROVE IInv'
  OBVIOUS
<1> USE DEF walletVars
<1>0. job \in [Callers -> Jobs] /\ Total \in Int
  BY BalanceAlertAssumption DEF IInv, Types
<1>1. ASSUME NEW c \in Spenders, NEW w \in Own, NEW n \in Moves[w], Spend(c, w, n) PROVE IInv'
  <2>1. n \in Int /\ w \in DOMAIN remaining /\ c \in Callers
    BY MovesIn DEF Own, IInv, Types, Callers
  <2>2. PICK l \in {"none", "low", "empty"} :
          IF l = "none" THEN UNCHANGED job ELSE job' = [job EXCEPT ![c] = Claiming(Alert(w, l))]
    BY <1>1, Levels DEF Spend
  <2>3. l # "none" => Claiming(Alert(w, l)) \in Jobs /\ Claiming(Alert(w, l)).step = "claim"
    BY <2>1, AlertIn, JobSteps DEF IInv
  <2>4. job' \in [Callers -> Jobs] /\ \A d \in Callers : Holds(d)' => Holds(d) /\ job'[d] = job[d]
    BY <1>0, <2>1, <2>2, <2>3 DEF Holds
  <2>5. Bounded' /\ Types'
    BY <1>1, <2>1, <2>4, MoveInv DEF Spend, Move, IInv, Types
  <2> QED  BY <1>1, <2>4, <2>5, QuietStep DEF Spend, Move
<1>2. ASSUME NEW c \in Pollers, NEW w \in Providers, Poll(c, w) PROVE IInv'
  <2>1. w \in DOMAIN remaining /\ c \in Callers
    BY DEF Providers, Callers
  <2>2. PICK l \in {"low", "empty"} : job' = [job EXCEPT ![c] = Claiming(Alert(w, l))]
    BY <1>2, Levels DEF Poll
  <2>3. Claiming(Alert(w, l)) \in Jobs /\ Claiming(Alert(w, l)).step = "claim"
    BY <2>1, AlertIn, JobSteps DEF IInv
  <2>4. job' \in [Callers -> Jobs] /\ \A d \in Callers : Holds(d)' => Holds(d) /\ job'[d] = job[d]
    BY <1>0, <2>1, <2>2, <2>3 DEF Holds
  <2>5. Bounded' /\ Types'
    BY <1>2, <2>4 DEF Poll, IInv, Types, Bounded
  <2> QED  BY <1>2, <2>4, <2>5, QuietStep DEF Poll
<1>3. ASSUME NEW w \in Providers, NEW n \in Moves[w], Drain(w, n) PROVE IInv'
  <2>1. n \in Int /\ w \in DOMAIN remaining
    BY MovesIn DEF Providers, IInv, Types
  <2>2. Bounded' /\ Types'
    BY <1>3, <2>1, MoveInv DEF Drain, Move, IInv, Types
  <2> QED  BY <1>3, <2>2, QuietStep DEF Drain, Move, Holds
<1>4. ASSUME NEW w \in DOMAIN remaining, TopUp(w) PROVE IInv'
  <2>1. topUps' \in [Wallets -> 0 .. MaxTopUps]
    BY <1>4, BalanceAlertAssumption DEF TopUp, IInv, Types
  <2>2. Bounded' /\ Types'
    BY <1>0, <1>4, <2>1 DEF TopUp, IInv, Types, Bounded
  <2> QED  BY <1>4, <2>2, QuietStep DEF TopUp, Holds
<1>5. ASSUME NextPeriod PROVE IInv'
  <2>1. Bounded' /\ Types'
    BY <1>0, <1>5, BalanceAlertAssumption DEF NextPeriod, IInv, Types, Bounded
  <2> QED  BY <1>5, <2>1, QuietStep DEF NextPeriod, Holds
<1>6. ASSUME NEW c \in Callers, Claim(c) PROVE IInv'
  <2> DEFINE a == job[c].alert
  <2>1. a \in Alerts /\ job[c].step = "claim" /\ UNCHANGED <<remaining, topUps, period, published>>
    BY <1>0, <1>6, JobSteps DEF Claim
  <2>2. CASE Becomes(c, Idle) /\ claimed \subseteq claimed'
    <3>1. /\ job' \in [Callers -> Jobs] /\ ~Holds(c)'
          /\ \A d \in Callers \ {c} : job'[d] = job[d]
      BY <1>0, <2>2, JobSteps DEF Becomes, Holds
    <3>2. Types' /\ Bounded'
      BY <2>1, <3>1 DEF IInv, Types, Bounded
    <3>3. \A d \in Callers : Holds(d)' => Holds(d) /\ Key(d)' = Key(d)
      BY <3>1 DEF Holds, Key
    <3>4. OncePerKey' /\ Claimed'
      BY <2>1, <2>2, <3>3 DEF IInv, OncePerKey, Claimed
    <3>5. Untold' /\ Alone'
      BY <2>1, <3>3 DEF IInv, Untold, Alone
    <3> QED  BY <3>2, <3>4, <3>5 DEF IInv
  <2>3. CASE /\ DedupeKey(a) \notin claimed
             /\ Becomes(c, Publishing(a)) /\ claimed' = claimed \cup {DedupeKey(a)}
    <3>1. /\ job' \in [Callers -> Jobs] /\ job'[c].step = "publish" /\ job'[c].alert = a
          /\ \A d \in Callers \ {c} : job'[d] = job[d]
      BY <1>0, <2>1, <2>3, JobSteps DEF Becomes
    <3>2. Types' /\ Bounded' /\ OncePerKey'
      BY <2>1, <3>1 DEF IInv, Types, Bounded, OncePerKey
    <3>3. \A b \in Alerts : DedupeKey(b) = DedupeKey(a) => published[b] = 0
      BY <2>3 DEF IInv, Claimed, Types
    <3>4. /\ Holds(c)' /\ Key(c)' = DedupeKey(a)
          /\ \A d \in Callers \ {c} : Holds(d)' = Holds(d) /\ Key(d)' = Key(d)
      BY <3>1 DEF Holds, Key
    <3>5. Claimed'
      BY <2>1, <2>3, <3>4 DEF IInv, Claimed
    <3>6. Untold'
      BY <2>1, <3>3, <3>4 DEF IInv, Untold
    <3>7. Alone'
      BY <2>3, <3>4 DEF IInv, Claimed, Alone
    <3> QED  BY <3>2, <3>5, <3>6, <3>7 DEF IInv
  <2> QED  BY <1>6, <2>2, <2>3 DEF Claim
<1>7. ASSUME NEW c \in Callers, Publish(c) PROVE IInv'
  <2> DEFINE a == job[c].alert
  <2>1. /\ a \in Alerts /\ Holds(c) /\ Key(c) = DedupeKey(a)
        /\ UNCHANGED <<remaining, topUps, period, claimed>>
    BY <1>0, <1>7, JobSteps DEF Publish, Holds, Key
  <2>2. /\ job' \in [Callers -> Jobs] /\ ~Holds(c)'
        /\ \A d \in Callers \ {c} : Holds(d)' = Holds(d) /\ Key(d)' = Key(d)
    BY <1>0, <1>7, JobSteps DEF Publish, Becomes, Holds, Key
  <2>3. published[a] = 0 /\ DedupeKey(a) \in claimed
    BY <2>1 DEF IInv, Untold, Claimed
  <2> DEFINE sent == [published EXCEPT ![a] = @ + 1]
  <2>4. published' \in {published, sent}
    BY <1>7 DEF Publish
  <2>5. /\ published' \in [Alerts -> Nat]
        /\ \A b \in Alerts : published'[b] = published[b] \/ (b = a /\ published'[b] = 1)
    BY <2>1, <2>3, <2>4 DEF IInv, Types
  <2> HIDE DEF a, sent
  <2>6. Types' /\ Bounded'
    BY <2>1, <2>2, <2>5 DEF IInv, Types, Bounded
  <2>7. \A b \in Alerts : DedupeKey(b) = DedupeKey(a) => published[b] = 0
    BY <2>1 DEF IInv, Untold
  <2>8. OncePerKey'
    BY <2>1, <2>5, <2>7 DEF IInv, Types, OncePerKey
  <2>9. Claimed'
    BY <2>1, <2>2, <2>3, <2>5 DEF IInv, Claimed
  <2>10. Untold' /\ Alone'
    BY <2>1, <2>2, <2>5 DEF IInv, Untold, Alone
  <2> QED  BY <2>6, <2>8, <2>9, <2>10 DEF IInv
<1>8. ASSUME NEW c \in Callers, Crash(c) PROVE IInv'
  <2>1. job' \in [Callers -> Jobs] /\ \A d \in Callers : Holds(d)' => Holds(d) /\ job'[d] = job[d]
    BY <1>0, <1>8, JobSteps DEF Crash, Becomes, Holds
  <2>2. Types' /\ Bounded'
    BY <1>8, <2>1 DEF Crash, IInv, Types, Bounded
  <2> QED  BY <1>8, <2>1, <2>2, QuietStep DEF Crash
<1>9. CASE UNCHANGED vars
  BY <1>9, QuietStep DEF vars, IInv, Types, Bounded, Holds
<1> QED  BY <1>1, <1>2, <1>3, <1>4, <1>5, <1>6, <1>7, <1>8, <1>9 DEF Next, Notify

LEMMA Invariance == Spec => []IInv
  BY InitInv, Step, PTL DEF Spec

-----------------------------------------------------------------------------
\* Of the alerts with one key, at most one is published, and once, however many
\* replicas notify at the same time and whatever fails (Notifier.Notify: the
\* claim is taken first).
THEOREM AlertsAreOnce == Spec => []OncePerKey
<1>1. IInv => OncePerKey
  BY DEF IInv
<1> QED  BY <1>1, Invariance, PTL

-----------------------------------------------------------------------------
(* What is lost: an alert that can be sent and has not been, and that       *)
(* nobody will send, since its key is taken or its crossing is forgotten.   *)
(* Every failure adds at most one.                                          *)

Lost(a) ==
  /\ Event(a) /\ published[a] = 0
  /\ \A c \in Callers : job[c] # Publishing(a)
  /\ \/ DedupeKey(a) \in claimed
     \/ a \in crossed /\ \A c \in Callers : job[c] # Claiming(a)
Missing == {a \in Alerts : Lost(a)}

Claims == {DedupeKey(a) : a \in {a \in Alerts : a.tenant # "junk"}}

LInv ==
  /\ DOMAIN remaining \in Portfolios
  /\ claimed \subseteq Claims /\ crossed \subseteq Alerts
  /\ faults \in 0 .. MaxFaults
  /\ IsFiniteSet(Missing) /\ Cardinality(Missing) <= faults

LEMMA OneMore ==
  ASSUME NEW S, NEW x, IsFiniteSet(S), NEW T \in SUBSET (S \cup {x})
  PROVE  IsFiniteSet(T) /\ Cardinality(T) \in Nat /\ Cardinality(T) <= Cardinality(S) + 1
<1>1. Cardinality(S) \in Nat
  BY FS_CardinalityType
<1>2. IsFiniteSet(S \cup {x})
  BY FS_AddElement
<1>3. Cardinality(S \cup {x}) = IF x \in S THEN Cardinality(S) ELSE Cardinality(S) + 1
  BY FS_AddElement
<1>4. IsFiniteSet(T) /\ Cardinality(T) <= Cardinality(S \cup {x})
  BY <1>2, FS_Subset
<1>5. Cardinality(T) \in Nat
  BY <1>4, FS_CardinalityType
<1> QED  BY <1>1, <1>3, <1>4, <1>5

\* Two alerts share no key: the owner is the tenant, or there is none.
LEMMA KeysTell ==
  ASSUME NEW a \in Alerts, NEW b \in Alerts, DedupeKey(a) = DedupeKey(b)
  PROVE  a = b
<1>1. ASSUME NEW x \in Alerts
      PROVE  /\ x = [scope |-> x.scope, tenant |-> x.tenant, resource |-> x.resource,
                     level |-> x.level, period |-> x.period, epoch |-> x.epoch]
             /\ x.scope # "tenant" => x.tenant = ""
  <2>1. PICK w \in Wallets :
          x \in [scope : {w.scope}, tenant : {w.tenant}, resource : {w.resource},
                 level : {"low", "empty"}, period : 1 .. MaxPeriods, epoch : 0 .. MaxTopUps]
    BY DEF Alerts
  <2>2. w.scope # "tenant" => w.tenant = ""
    BY PlatformAssumption
  <2> QED  BY <2>1, <2>2
<1>2. /\ a.scope = b.scope /\ Owner(a) = Owner(b) /\ a.resource = b.resource
      /\ a.level = b.level /\ a.period = b.period /\ a.epoch = b.epoch
  BY DEF DedupeKey
<1>3. a.tenant = b.tenant
  BY <1>1, <1>2 DEF Owner
<1> QED  BY <1>1, <1>2, <1>3

LEMMA ClaimsIn ==
  ASSUME NEW a \in Alerts, Event(a)
  PROVE  DedupeKey(a) \in Claims
<1>1. PICK w \in Wallets : a.scope = w.scope /\ a.tenant = w.tenant
  BY DEF Alerts
<1>2. a.tenant # "junk"
  BY <1>1, PlatformAssumption DEF Event
<1> QED  BY <1>2 DEF Claims

LEMMA LostInit == Init => LInv
<1> SUFFICES ASSUME Init PROVE LInv
  OBVIOUS
<1>1. PICK open \in Portfolios : remaining = [w \in open |-> Total]
  BY DEF Init
<1>2. Missing = {}
  BY DEF Init, Missing, Lost
<1> QED  BY <1>1, <1>2, FS_EmptySet, BalanceAlertAssumption DEF Init, LInv

LEMMA LostSame ==
  ASSUME LInv, Missing' \subseteq Missing, faults' = faults
  PROVE  IsFiniteSet(Missing)' /\ Cardinality(Missing)' <= faults'
<1>1. IsFiniteSet(Missing') /\ Cardinality(Missing') <= Cardinality(Missing)
  BY FS_Subset DEF LInv
<1>2. Cardinality(Missing') \in Nat /\ Cardinality(Missing) \in Nat
  BY <1>1, FS_CardinalityType DEF LInv
<1> QED  BY <1>1, <1>2 DEF LInv

LEMMA LostOne ==
  ASSUME LInv, NEW x, Missing' \subseteq Missing \cup {x}, Fault
  PROVE  /\ IsFiniteSet(Missing)' /\ Cardinality(Missing)' <= faults'
         /\ faults' \in 0 .. MaxFaults
<1>1. /\ IsFiniteSet(Missing') /\ Cardinality(Missing') \in Nat
      /\ Cardinality(Missing') <= Cardinality(Missing) + 1
  BY OneMore DEF LInv
<1>2. Cardinality(Missing) \in Nat /\ faults' = faults + 1 /\ faults < MaxFaults
      /\ MaxFaults \in Nat
  BY FS_CardinalityType, BalanceAlertAssumption DEF LInv, Fault
<1> QED  BY <1>1, <1>2 DEF LInv

\* A caller that starts a call loses nothing.
LEMMA LostStart ==
  ASSUME IInv, LInv, NEW c \in Callers, NEW a \in Alerts,
         job[c] = Idle, job' = [job EXCEPT ![c] = Claiming(a)],
         UNCHANGED <<claimed, published>>, crossed' \in {crossed, crossed \cup {a}}
  PROVE  Missing' \subseteq Missing
<1>1. job \in [Callers -> Jobs]
  BY DEF IInv, Types
<1>2. ASSUME NEW b \in Alerts, Lost(b)' PROVE Lost(b)
  <2>1. \A d \in Callers : job[d] # Publishing(b)
    BY <1>1, <1>2, JobSteps DEF Lost
  <2>2. (\A d \in Callers : job'[d] # Claiming(b)) => b # a
    BY <1>1
  <2>3. (\A d \in Callers : job'[d] # Claiming(b)) => \A d \in Callers : job[d] # Claiming(b)
    BY <1>1, JobSteps
  <2> QED  BY <1>2, <2>1, <2>2, <2>3 DEF Lost
<1> QED  BY <1>2 DEF Missing

\* A call that ends, before or after it is done, loses its own alert at most.
LEMMA LostEnd ==
  ASSUME IInv, NEW c \in Callers, NEW a \in Alerts,
         job[c] \in {Claiming(a), Publishing(a)}, job' = [job EXCEPT ![c] = Idle],
         \A b \in Alerts \ {a} : DedupeKey(b) \in claimed' => DedupeKey(b) \in claimed,
         \A b \in Alerts \ {a} : published'[b] = published[b],
         UNCHANGED crossed
  PROVE  Missing' \subseteq Missing \cup {a}
<1>1. job \in [Callers -> Jobs]
  BY DEF IInv, Types
<1>2. ASSUME NEW b \in Alerts \ {a}, Lost(b)' PROVE Lost(b)
  <2>1. job[c] # Claiming(b) /\ job[c] # Publishing(b)
    BY JobSteps
  <2>2. \A d \in Callers : /\ job'[d] # Claiming(b) => job[d] # Claiming(b)
                           /\ job'[d] # Publishing(b) => job[d] # Publishing(b)
    BY <1>1, <2>1
  <2> QED  BY <1>2, <2>2 DEF Lost
<1> QED  BY <1>2 DEF Missing

LEMMA LostKeeps ==
  ASSUME UNCHANGED <<job, claimed, published, crossed>>
  PROVE  Missing' = Missing
  BY DEF Missing, Lost

LEMMA LostStep == IInv /\ LInv /\ [Next]_vars => LInv'
<1> SUFFICES ASSUME IInv, LInv, [Next]_vars PROVE LInv'
  OBVIOUS
<1> USE DEF walletVars
<1>0. job \in [Callers -> Jobs] /\ remaining \in [DOMAIN remaining -> Int] /\ Types
  BY DEF IInv, Types
<1>1. ASSUME NEW c \in Spenders, NEW w \in Own, NEW n \in Moves[w], Spend(c, w, n) PROVE LInv'
  <2> DEFINE l == Crossed(remaining[w], remaining[w] - n, Mark)
             a == Alert(w, l)
  <2>1. /\ w \in DOMAIN remaining /\ c \in Callers /\ job[c] = Idle
        /\ DOMAIN remaining' = DOMAIN remaining
        /\ UNCHANGED <<claimed, published, faults>>
    BY <1>1 DEF Own, Spend, Move, Callers
  <2>2. CASE l = "none"
    <3>1. UNCHANGED <<job, crossed>>
      BY <1>1, <2>2 DEF Spend
    <3>2. Missing' \subseteq Missing
      BY <2>1, <3>1, LostKeeps
    <3> QED  BY <2>1, <3>1, <3>2, LostSame DEF LInv
  <2>3. CASE l # "none"
    <3>1. job' = [job EXCEPT ![c] = Claiming(a)] /\ crossed' = crossed \cup {a}
      BY <1>1, <2>3 DEF Spend
    <3>2. l \in {"low", "empty"}
      BY <2>3, Levels
    <3>3. a \in Alerts
      BY <1>0, <2>1, <3>2, AlertIn
    <3> HIDE DEF a, l
    <3>4. Missing' \subseteq Missing
      BY <2>1, <3>1, <3>3, LostStart
    <3> QED  BY <2>1, <3>1, <3>3, <3>4, LostSame DEF LInv
  <2> QED  BY <2>2, <2>3
<1>2. ASSUME NEW c \in Pollers, NEW w \in Providers, Poll(c, w) PROVE LInv'
  <2> DEFINE l == LevelOf(remaining[w], Mark)
             a == Alert(w, l)
  <2>1. /\ w \in DOMAIN remaining /\ c \in Callers /\ job[c] = Idle
        /\ UNCHANGED <<remaining, claimed, published, crossed, faults>>
        /\ job' = [job EXCEPT ![c] = Claiming(a)] /\ l # "none"
    BY <1>2 DEF Providers, Poll, Callers
  <2>2. l \in {"low", "empty"}
    BY <2>1, Levels
  <2>3. a \in Alerts
    BY <1>0, <2>1, <2>2, AlertIn
  <2> HIDE DEF a, l
  <2>4. Missing' \subseteq Missing
    BY <2>1, <2>3, LostStart
  <2> QED  BY <2>1, <2>4, LostSame DEF LInv
<1>3. ASSUME \/ \E w \in Providers : \E n \in Moves[w] : Drain(w, n)
             \/ \E w \in DOMAIN remaining : TopUp(w)
             \/ NextPeriod
             \/ UNCHANGED vars
      PROVE  LInv'
  <2>1. /\ DOMAIN remaining' = DOMAIN remaining
        /\ UNCHANGED <<job, claimed, published, crossed, faults>>
    BY <1>3 DEF Drain, Move, TopUp, NextPeriod, vars
  <2>2. Missing' \subseteq Missing
    BY <2>1, LostKeeps
  <2> QED  BY <2>1, <2>2, LostSame DEF LInv
<1>4. ASSUME NEW c \in Callers, Claim(c) PROVE LInv'
  <2> DEFINE a == job[c].alert
  <2>1. /\ a \in Alerts /\ job[c] = Claiming(a)
        /\ UNCHANGED <<remaining, published, crossed>>
    <3>1. job[c].step = "claim" /\ job[c] \in Jobs
      BY <1>0, <1>4 DEF Claim
    <3>2. PICK b \in Alerts : job[c] = Claiming(b)
      <4>1. PICK b \in Alerts : job[c] \in {Claiming(b), Publishing(b)}
        BY <3>1, JobSteps DEF Jobs
      <4> QED  BY <3>1, <4>1, JobSteps
    <3> QED  BY <1>4, <3>2, JobSteps DEF Claim
  <2>2. \A b \in Alerts \ {a} : DedupeKey(b) # DedupeKey(a)
    BY <2>1, KeysTell
  <2>3. \/ ~Event(a) /\ Becomes(c, Idle) /\ UNCHANGED <<claimed, faults>>
        \/ /\ Event(a) /\ DedupeKey(a) \in claimed
           /\ Becomes(c, Idle) /\ UNCHANGED <<claimed, faults>>
        \/ /\ Event(a) /\ DedupeKey(a) \notin claimed
           /\ Becomes(c, Publishing(a)) /\ claimed' = claimed \cup {DedupeKey(a)}
           /\ UNCHANGED faults
        \/ /\ Event(a) /\ Fault
           /\ Becomes(c, Idle) /\ claimed' \in {claimed, claimed \cup {DedupeKey(a)}}
    BY <1>4 DEF Claim
  <2> HIDE DEF a
  <2>4. Becomes(c, Idle) /\ claimed' \in {claimed, claimed \cup {DedupeKey(a)}}
          => Missing' \subseteq Missing \cup {a}
    BY <2>1, <2>2, LostEnd DEF Becomes
  <2>5. CASE ~Event(a) /\ Becomes(c, Idle) /\ UNCHANGED <<claimed, faults>>
    <3>1. a \notin Missing'
      BY <2>5 DEF Missing, Lost
    <3>2. Missing' \subseteq Missing
      BY <2>4, <2>5, <3>1
    <3> QED  BY <2>1, <2>5, <3>2, LostSame DEF LInv
  <2>6. CASE /\ Event(a) /\ DedupeKey(a) \in claimed
             /\ Becomes(c, Idle) /\ UNCHANGED <<claimed, faults>>
    <3>1. ASSUME a \in Missing' PROVE a \in Missing
      <4>1. \A d \in Callers : job[d] # Publishing(a)
        BY <1>0, <2>1, <2>6, <3>1, JobSteps DEF Missing, Lost, Becomes
      <4> QED  BY <2>1, <2>6, <3>1, <4>1 DEF Missing, Lost
    <3>2. Missing' \subseteq Missing
      BY <2>4, <2>6, <3>1
    <3> QED  BY <2>1, <2>6, <3>2, LostSame DEF LInv
  <2>7. CASE /\ Event(a) /\ DedupeKey(a) \notin claimed
             /\ Becomes(c, Publishing(a)) /\ claimed' = claimed \cup {DedupeKey(a)}
             /\ UNCHANGED faults
    <3>1. job'[c] = Publishing(a) /\ \A d \in Callers \ {c} : job'[d] = job[d]
      BY <1>0, <2>7 DEF Becomes
    <3>2. ASSUME NEW b \in Alerts, Lost(b)' PROVE Lost(b)
      <4>1. b # a
        BY <3>1, <3>2 DEF Lost
      <4>2. job[c] # Publishing(b) /\ job[c] # Claiming(b)
        BY <2>1, <4>1, JobSteps
      <4>3. DedupeKey(b) \in claimed' => DedupeKey(b) \in claimed
        BY <2>2, <2>7, <4>1
      <4> QED  BY <2>1, <3>1, <3>2, <4>2, <4>3 DEF Lost
    <3>3. Missing' \subseteq Missing
      BY <3>2 DEF Missing
    <3>4. DedupeKey(a) \in Claims
      BY <2>1, <2>7, ClaimsIn
    <3>5. claimed' \subseteq Claims
      BY <2>7, <3>4 DEF LInv
    <3> QED  BY <2>1, <2>7, <3>3, <3>5, LostSame DEF LInv
  <2>8. CASE /\ Event(a) /\ Fault
             /\ Becomes(c, Idle) /\ claimed' \in {claimed, claimed \cup {DedupeKey(a)}}
    <3>1. DedupeKey(a) \in Claims
      BY <2>1, <2>8, ClaimsIn
    <3>2. claimed' \subseteq Claims
      BY <2>8, <3>1 DEF LInv
    <3> QED  BY <2>1, <2>4, <2>8, <3>2, LostOne DEF LInv
  <2> QED  BY <2>3, <2>5, <2>6, <2>7, <2>8
<1>5. ASSUME NEW c \in Callers, Publish(c) PROVE LInv'
  <2> DEFINE a == job[c].alert
             sent == [published EXCEPT ![a] = @ + 1]
  <2>1. /\ a \in Alerts /\ job[c] = Publishing(a) /\ Becomes(c, Idle)
        /\ UNCHANGED <<remaining, claimed, crossed>>
    <3>1. job[c].step = "publish" /\ job[c] \in Jobs
      BY <1>0, <1>5 DEF Publish
    <3>2. PICK b \in Alerts : job[c] = Publishing(b)
      <4>1. PICK b \in Alerts : job[c] \in {Claiming(b), Publishing(b)}
        BY <3>1, JobSteps DEF Jobs
      <4> QED  BY <3>1, <4>1, JobSteps
    <3> QED  BY <1>5, <3>2, JobSteps DEF Publish
  <2>2. \/ published' = sent /\ UNCHANGED faults
        \/ published' \in {published, sent} /\ Fault
    BY <1>5 DEF Publish
  <2>3. published \in [Alerts -> Nat]
    BY <1>0 DEF Types
  <2>4. sent \in [Alerts -> Nat] /\ sent[a] # 0 /\ \A b \in Alerts \ {a} : sent[b] = published[b]
    BY <2>1, <2>3
  <2> HIDE DEF a, sent
  <2>5. Missing' \subseteq Missing \cup {a}
    BY <2>1, <2>2, <2>4, LostEnd DEF Becomes
  <2>6. CASE published' = sent /\ UNCHANGED faults
    <3>1. a \notin Missing'
      BY <2>4, <2>6 DEF Missing, Lost
    <3>2. Missing' \subseteq Missing
      BY <2>5, <3>1
    <3> QED  BY <2>1, <2>6, <3>2, LostSame DEF LInv
  <2>7. CASE Fault
    BY <2>1, <2>5, <2>7, LostOne DEF LInv
  <2> QED  BY <2>2, <2>6, <2>7
<1>6. ASSUME NEW c \in Callers, Crash(c) PROVE LInv'
  <2>1. /\ job[c] # Idle /\ Fault /\ job' = [job EXCEPT ![c] = Idle]
        /\ UNCHANGED <<remaining, claimed, published, crossed>>
    BY <1>6 DEF Crash, Becomes
  <2>2. PICK a \in Alerts : job[c] \in {Claiming(a), Publishing(a)}
    BY <1>0, <2>1 DEF Jobs
  <2>3. Missing' \subseteq Missing \cup {a}
    BY <2>1, <2>2, LostEnd
  <2> QED  BY <2>1, <2>3, LostOne DEF LInv
<1> QED  BY <1>1, <1>2, <1>3, <1>4, <1>5, <1>6 DEF Next, Notify

LEMMA LostInvariance == Spec => [](IInv /\ LInv)
  BY InitInv, LostInit, Step, LostStep, PTL DEF Spec

\* Whatever else is claimed, a crossing is on its way or published unless a call
\* failed, and one failure costs one alert (Notify; DedupeKey: "scope, owner,
\* resource, level, period and epoch").
THEOREM NoCrossingIsSwallowed == Spec => []NoneSwallowed
<1>1. IInv /\ LInv => NoneSwallowed
  <2> SUFFICES ASSUME IInv, LInv PROVE NoneSwallowed
    OBVIOUS
  <2>1. Silent \subseteq Missing
    BY DEF LInv, Silent, Missing, Lost
  <2>2. IsFiniteSet(Silent) /\ Cardinality(Silent) <= Cardinality(Missing)
    BY <2>1, FS_Subset DEF LInv
  <2>3. Cardinality(Silent) \in Nat /\ Cardinality(Missing) \in Nat
    BY <2>2, FS_CardinalityType DEF LInv
  <2> QED  BY <2>2, <2>3 DEF LInv, NoneSwallowed
<1> QED  BY <1>1, LostInvariance, PTL

\* Only alerts that can be published take a claim, and every alert in a call,
\* in the count of crossings and in the stream is one of an existing wallet
\* (Alert.Event before the claim in Notify).
THEOREM AlertsTypeOK == Spec => []TypeOK
<1>1. IInv /\ LInv => TypeOK
  <2> SUFFICES ASSUME IInv, LInv PROVE TypeOK
    OBVIOUS
  <2>1. \E open \in Portfolios : remaining \in [open -> Int]
    BY DEF IInv, Types, LInv
  <2>2. \A c \in Callers : \/ job[c] = Idle
                           \/ \E a \in Alerts : job[c] \in {Claiming(a), Publishing(a)}
    BY DEF IInv, Types, Jobs
  <2>3. claimed \subseteq {DedupeKey(a) : a \in {a \in Alerts : a.tenant # "junk"}}
    BY DEF LInv, Claims
  <2> QED  BY <2>1, <2>2, <2>3 DEF IInv, Types, LInv, TypeOK
<1> QED  BY <1>1, LostInvariance, PTL

-----------------------------------------------------------------------------
\* Two wallets share no alert.
LEMMA AlertsTell ==
  ASSUME NEW v \in Wallets, NEW w \in Wallets, NEW k, NEW l, Alert(v, k) = Alert(w, l)
  PROVE  v = w /\ k = l
  BY BalanceAlertAssumption DEF Alert

\* A movement calls for an alert exactly when it takes the balance to a worse
\* level, whatever the balance, the mark and the amount (Crossed, LevelOf).
THEOREM CrossingsAreWorse == Spec => CrossingsWorsen
<1> DEFINE A == \A w \in Own :
       /\ Worsens(w) => Alert(w, LevelOf(remaining'[w], Mark)) \in crossed'
       /\ \A level \in {"low", "empty"} :
            Alert(w, level) \in crossed' \ crossed =>
              Worsens(w) /\ level = LevelOf(remaining'[w], Mark)
<1>1. IInv /\ [Next]_vars => [A]_vars
  <2> SUFFICES ASSUME IInv, Next, NEW w \in Own
               PROVE  /\ Worsens(w) => Alert(w, LevelOf(remaining'[w], Mark)) \in crossed'
                      /\ \A level \in {"low", "empty"} :
                           Alert(w, level) \in crossed' \ crossed =>
                             Worsens(w) /\ level = LevelOf(remaining'[w], Mark)
    OBVIOUS
  <2>1. /\ remaining \in [DOMAIN remaining -> Int] /\ w \in DOMAIN remaining /\ remaining[w] \in Int
        /\ w \notin Providers /\ w \in Wallets /\ remaining[w] <= Total /\ Total \in Int
    BY BalanceAlertAssumption DEF IInv, Types, Bounded, Own, Providers
  <2>2. CASE remaining'[w] = remaining[w] /\ UNCHANGED crossed
    BY <2>1, <2>2, MarkIn, MoreIsNoWorse DEF Worsens
  <2>3. CASE remaining'[w] = Total /\ UNCHANGED crossed
    BY <2>1, <2>3, MarkIn, MoreIsNoWorse DEF Worsens
  <2>4. ASSUME NEW c \in Spenders, NEW v \in Own, NEW n \in Moves[v], Spend(c, v, n)
        PROVE  A
    <3>1. /\ v \in Wallets /\ n \in Int /\ remaining[v] \in Int
          /\ remaining' = [remaining EXCEPT ![v] = @ - n] /\ v \in DOMAIN remaining
      BY <2>4, MovesIn DEF Own, IInv, Types, Spend, Move
    <3> DEFINE level == Crossed(remaining[v], remaining[v] - n, Mark)
    <3>2. remaining'[v] = remaining[v] - n
      BY <3>1, <2>1
    <3>3. IF Worsens(v) THEN level = LevelOf(remaining'[v], Mark) ELSE level = "none"
      BY <3>1, <3>2, MarkIn, SameLines DEF Worsens
    <3>4. crossed' = IF level = "none" THEN crossed ELSE crossed \cup {Alert(v, level)}
      BY <2>4 DEF Spend
    <3>5. Worsens(v) => level # "none"
      BY <3>3, <3>2 DEF Worsens, Severity, LevelOf
    <3> HIDE DEF level
    <3>6. ASSUME NEW u \in Own
          PROVE  /\ Worsens(u) => Alert(u, LevelOf(remaining'[u], Mark)) \in crossed'
                 /\ \A l \in {"low", "empty"} :
                      Alert(u, l) \in crossed' \ crossed =>
                        Worsens(u) /\ l = LevelOf(remaining'[u], Mark)
      <4>1. u \in Wallets /\ remaining[u] \in Int /\ u \in DOMAIN remaining
        BY DEF Own, IInv, Types
      <4>2. CASE u = v
        BY <3>1, <3>3, <3>4, <3>5, <4>2, AlertsTell
      <4>3. CASE u # v
        <5>1. ~Worsens(u)
          BY <2>1, <3>1, <4>1, <4>3, MarkIn, MoreIsNoWorse DEF Worsens
        <5>2. \A l : Alert(u, l) \notin crossed' \ crossed
          BY <3>1, <3>4, <4>1, <4>3, AlertsTell
        <5> QED  BY <5>1, <5>2
      <4> QED  BY <4>2, <4>3
    <3> QED  BY <3>6
  <2>5. ASSUME NEW v \in Providers, NEW n \in Moves[v], Drain(v, n)
        PROVE  remaining'[w] = remaining[w] /\ UNCHANGED crossed
    BY <2>1, <2>5 DEF Drain, Move, IInv, Types
  <2>6. ASSUME NEW v \in DOMAIN remaining, TopUp(v)
        PROVE  remaining'[w] \in {remaining[w], Total} /\ UNCHANGED crossed
    BY <2>1, <2>6 DEF TopUp, IInv, Types
  <2>7. ASSUME NextPeriod PROVE remaining'[w] = Total /\ UNCHANGED crossed
    BY <2>1, <2>7 DEF NextPeriod
  <2>8. ASSUME \/ \E c \in Pollers, v \in Providers : Poll(c, v)
               \/ \E c \in Callers : Notify(c) \/ Crash(c)
        PROVE  remaining' = remaining /\ UNCHANGED crossed
    BY <2>8 DEF Poll, Notify, Claim, Publish, Crash, walletVars
  <2> QED  BY <2>2, <2>3, <2>4, <2>5, <2>6, <2>7, <2>8 DEF Next
<1>2. Spec => [][A]_vars
  BY <1>1, Invariance, PTL DEF Spec
<1> QED  BY <1>2 DEF CrossingsWorsen
=============================================================================
