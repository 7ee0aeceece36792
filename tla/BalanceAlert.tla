---------------------------- MODULE BalanceAlert ----------------------------
(***************************************************************************)
(* Low-balance alerts (balancealert.go): the classification of movements   *)
(* and readings, the "once" key, and Notify on every replica of a service. *)
(* External: the wallets, their top-ups and periods, the spend path that   *)
(* calls Crossed, the poller that calls LevelOf, the claim store and the   *)
(* stream.                                                                 *)
(***************************************************************************)
EXTENDS Integers, FiniteSets

CONSTANTS
  Spenders,   \* goroutines that spend, of any replica; one movement at a time
  Pollers,    \* goroutines that read the balances of polled wallets
  Portfolios, \* the sets of wallets there may be; a wallet is [scope, tenant, resource]
  Polled,     \* the wallets whose movements the service does not see
  Total,      \* what a period starts with, and a top-up restores
  Percent,    \* the ratio of LowMark
  Moves,      \* amounts spent from each wallet; a refund is negative
  MaxTopUps,  \* bound: top-ups of all wallets
  MaxPeriods, \* bound: periods
  MaxFaults   \* bound: calls that fail; none in the last period

Callers == Spenders \cup Pollers
Wallets == UNION Portfolios

ASSUME BalanceAlertAssumption ==
  /\ Polled \subseteq Wallets
  /\ \A w \in Wallets : w = [scope |-> w.scope, tenant |-> w.tenant, resource |-> w.resource]
  /\ Total \in Int /\ Percent \in Int /\ Moves \in [UNION Portfolios -> SUBSET Int]
  /\ MaxTopUps \in Nat /\ MaxPeriods \in Nat \ {0} /\ MaxFaults \in Nat

\* The tenant id is set in "tenant scope only" (Alert).
ASSUME PlatformAssumption == \A w \in Wallets : w.scope # "tenant" => w.tenant = ""

VARIABLES
  remaining, \* balance of each wallet there is
  topUps,    \* lifetime top-ups of each wallet, the epoch of its alerts
  period,
  job,       \* the Notify call of each caller: a step and the alert
  claimed,   \* keys the claim store has given away
  published, \* how often each alert was published
  crossed,   \* the alerts that movements called for
  faults

vars == <<remaining, topUps, period, job, claimed, published, crossed, faults>>
walletVars == <<remaining, topUps, period>>

Own == (DOMAIN remaining) \ Polled
Providers == (DOMAIN remaining) \cap Polled

-----------------------------------------------------------------------------
(* The arithmetic.                                                         *)

LowMark(total, percent) ==
  IF total <= 0 THEN 0
  ELSE (total * (IF percent <= 0 \/ percent >= 100 THEN 20 ELSE percent)) \div 100

\* Mutant: a spend that ends on the mark is not below it.
CrossedStrictly(before, after, mark) ==
  CASE after >= before -> "none"
    [] after < before /\ before > 0 /\ after <= 0 -> "empty"
    [] after < before /\ ~(before > 0 /\ after <= 0)
         /\ mark > 0 /\ before > mark /\ after < mark -> "low"
    [] OTHER -> "none"

\* The level a movement crosses into.
Crossed(before, after, mark) ==
  IF after >= before THEN "none"
  ELSE IF before > 0 /\ after <= 0 THEN "empty"
  ELSE IF mark > 0 /\ before > mark /\ after <= mark THEN "low" ELSE "none"

\* The level of a balance read on its own.
LevelOf(balance, mark) ==
  IF balance <= 0 THEN "empty" ELSE IF mark > 0 /\ balance <= mark THEN "low" ELSE "none"

Mark == LowMark(Total, Percent)

-----------------------------------------------------------------------------
(* An alert, and what becomes of it.                                       *)

Owner(a) == IF a.scope = "tenant" THEN a.tenant ELSE "platform"

\* Mutant: the owner is left out.
KeyWithoutOwner(a) == <<a.scope, a.resource, a.level, a.period, a.epoch>>

\* Mutant: the period is left out.
KeyWithoutPeriod(a) == <<a.scope, Owner(a), a.resource, a.level, a.epoch>>

DedupeKey(a) == <<a.scope, Owner(a), a.resource, a.level, a.period, a.epoch>>

Validate(a) ==
  /\ a.scope \in {"tenant", "platform"}
  /\ a.scope = "tenant" => a.tenant # ""
  /\ a.resource # ""
  /\ a.level \in {"low", "empty"}

\* Mutant: the tenant id is not parsed.
EventUnparsed(a) == Validate(a)

\* Event returns no error; "junk" is a tenant id that is no uuid.
Event(a) == Validate(a) /\ (a.scope = "tenant" => a.tenant # "junk")

Alert(w, level) ==
  [scope |-> w.scope, tenant |-> w.tenant, resource |-> w.resource,
   level |-> level, period |-> period, epoch |-> topUps[w]]

Alerts ==
  UNION {[scope : {w.scope}, tenant : {w.tenant}, resource : {w.resource},
          level : {"low", "empty"}, period : 1 .. MaxPeriods, epoch : 0 .. MaxTopUps] :
         w \in Wallets}

Idle == [step |-> "idle"]
Claiming(a) == [step |-> "claim", alert |-> a]
Publishing(a) == [step |-> "publish", alert |-> a]

Init ==
  /\ \E open \in Portfolios : remaining = [w \in open |-> Total]
  /\ topUps = [w \in Wallets |-> 0]
  /\ period = 1
  /\ job = [c \in Callers |-> Idle]
  /\ claimed = {} /\ crossed = {}
  /\ published = [a \in Alerts |-> 0]
  /\ faults = 0

Fault == faults < MaxFaults /\ period < MaxPeriods /\ faults' = faults + 1

Move(w, n) ==
  /\ remaining[w] > 0 \/ n < 0
  /\ remaining[w] - n <= Total
  /\ remaining' = [remaining EXCEPT ![w] = @ - n]
  /\ UNCHANGED <<topUps, period, claimed, published, faults>>

\* A movement the service makes itself: it knows the balance before and after.
Spend(c, w, n) ==
  LET level == Crossed(remaining[w], remaining[w] - n, Mark) IN
  /\ job[c] = Idle
  /\ Move(w, n)
  /\ IF level = "none" THEN UNCHANGED <<job, crossed>>
     ELSE /\ job' = [job EXCEPT ![c] = Claiming(Alert(w, level))]
          /\ crossed' = crossed \cup {Alert(w, level)}

\* A provider's balance moves.
Drain(w, n) == Move(w, n) /\ UNCHANGED <<job, crossed>>

\* A tick of the poller.
Poll(c, w) ==
  /\ job[c] = Idle
  /\ LevelOf(remaining[w], Mark) # "none"
  /\ job' = [job EXCEPT ![c] = Claiming(Alert(w, LevelOf(remaining[w], Mark)))]
  /\ UNCHANGED <<walletVars, claimed, published, crossed, faults>>

TopUp(w) ==
  /\ \A v \in Wallets : topUps[v] < MaxTopUps
  /\ remaining' = [remaining EXCEPT ![w] = Total]
  /\ topUps' = [topUps EXCEPT ![w] = @ + 1]
  /\ UNCHANGED <<period, job, claimed, published, crossed, faults>>

NextPeriod ==
  /\ period < MaxPeriods
  /\ period' = period + 1
  /\ remaining' = [w \in DOMAIN remaining |-> Total]
  /\ UNCHANGED <<topUps, job, claimed, published, crossed, faults>>

-----------------------------------------------------------------------------
(* Notify.                                                                 *)

Becomes(c, j) == job' = [job EXCEPT ![c] = j]

\* Mutant: a nil claim.
ClaimAlways(c) ==
  /\ job[c].step = "claim"
  /\ IF ~Event(job[c].alert)
     THEN Becomes(c, Idle) /\ UNCHANGED <<claimed, faults>>
     ELSE /\ Becomes(c, Publishing(job[c].alert))
          /\ claimed' = claimed \cup {DedupeKey(job[c].alert)}
          /\ UNCHANGED faults
  /\ UNCHANGED <<walletVars, published, crossed>>

\* The event is built, then its key is claimed.  The claim store answers FALSE
\* when it fails, before or after it took the claim.
Claim(c) ==
  LET a == job[c].alert IN
  /\ job[c].step = "claim"
  /\ \/ ~Event(a) /\ Becomes(c, Idle) /\ UNCHANGED <<claimed, faults>>
     \/ /\ Event(a) /\ DedupeKey(a) \in claimed
        /\ Becomes(c, Idle) /\ UNCHANGED <<claimed, faults>>
     \/ /\ Event(a) /\ DedupeKey(a) \notin claimed
        /\ Becomes(c, Publishing(a)) /\ claimed' = claimed \cup {DedupeKey(a)}
        /\ UNCHANGED faults
     \/ /\ Event(a) /\ Fault
        /\ Becomes(c, Idle) /\ claimed' \in {claimed, claimed \cup {DedupeKey(a)}}
  /\ UNCHANGED <<walletVars, published, crossed>>

\* The error goes to the caller, who logs it; the event may be stored all the
\* same.
Publish(c) ==
  LET sent == [published EXCEPT ![job[c].alert] = @ + 1] IN
  /\ job[c].step = "publish"
  /\ Becomes(c, Idle)
  /\ \/ published' = sent /\ UNCHANGED faults
     \/ published' \in {published, sent} /\ Fault
  /\ UNCHANGED <<walletVars, claimed, crossed>>

\* The pod dies.
Crash(c) ==
  /\ job[c] # Idle /\ Fault
  /\ Becomes(c, Idle)
  /\ UNCHANGED <<walletVars, claimed, published, crossed>>

Notify(c) == Claim(c) \/ Publish(c)

Next ==
  \/ \E c \in Spenders, w \in Own : \E n \in Moves[w] : Spend(c, w, n)
  \/ \E c \in Pollers, w \in Providers : Poll(c, w)
  \/ \E w \in Providers : \E n \in Moves[w] : Drain(w, n)
  \/ \E w \in DOMAIN remaining : TopUp(w)
  \/ NextPeriod
  \/ \E c \in Callers : Notify(c) \/ Crash(c)

Spec == Init /\ [][Next]_vars

\* Calls go on, periods end, and every tick reads every polled wallet.
Fairness ==
  /\ \A c \in Callers : WF_vars(Notify(c))
  /\ \A c \in Pollers, w \in Polled : SF_vars(w \in Providers /\ Poll(c, w))
  /\ WF_vars(NextPeriod)

FairSpec == Spec /\ Fairness

-----------------------------------------------------------------------------
(* Properties.                                                             *)

\* Only alerts that can be published take a claim.
TypeOK ==
  /\ (\E open \in Portfolios : remaining \in [open -> Int]) /\ topUps \in [Wallets -> 0 .. MaxTopUps]
  /\ period \in 1 .. MaxPeriods
  /\ \A c \in Callers : \/ job[c] = Idle
                         \/ \E a \in Alerts : job[c] \in {Claiming(a), Publishing(a)}
  /\ claimed \subseteq {DedupeKey(a) : a \in {a \in Alerts : a.tenant # "junk"}}
  /\ published \in [Alerts -> Nat]
  /\ crossed \subseteq Alerts
  /\ faults \in 0 .. MaxFaults

\* "The claim is taken first so two replicas never both publish" (Notify): of
\* the alerts with one key, one is published, once.
OncePerKey ==
  \A a \in Alerts : published[a] > 0 =>
    published[a] = 1 /\ \A b \in Alerts \ {a} : DedupeKey(b) = DedupeKey(a) => published[b] = 0

\* Every crossing is its own alert ("scope, owner, resource, level, period and
\* epoch"): whatever else is claimed, a crossing is on its way or published
\* unless a call failed, and one failure costs one alert.
Silent == {a \in crossed : /\ Event(a) /\ published[a] = 0
                           /\ \A c \in Callers : job[c] \notin {Claiming(a), Publishing(a)}}

NoneSwallowed == Cardinality(Silent) <= faults

\* A movement calls for an alert exactly when a poller would see a worse level
\* after it than before: Crossed and LevelOf draw the same lines.
Severity(level) == CASE level = "none" -> 0 [] level = "low" -> 1 [] level = "empty" -> 2

Worsens(w) == Severity(LevelOf(remaining'[w], Mark)) > Severity(LevelOf(remaining[w], Mark))

CrossingsWorsen ==
  [][\A w \in Own :
       /\ Worsens(w) => Alert(w, LevelOf(remaining'[w], Mark)) \in crossed'
       /\ \A level \in {"low", "empty"} :
            Alert(w, level) \in crossed' \ crossed =>
              Worsens(w) /\ level = LevelOf(remaining'[w], Mark)]_vars

\* "The next period retries" (Notify), for who polls: a balance that stays at a
\* level in a period without faults is published at that level.
PollerCatchesUp ==
  \A w \in Polled, level \in {"low", "empty"} :
    <>[](/\ w \in Providers /\ Event(Alert(w, level))
         /\ LevelOf(remaining[w], Mark) = level)
      => <>(published[Alert(w, level)] > 0 /\ period = MaxPeriods)
=============================================================================
