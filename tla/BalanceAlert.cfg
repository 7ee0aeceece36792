\* Spends, refunds, top-ups and polls around the marks.
CONSTANTS
  Spenders = {s1, s2}
  Pollers = {p1, p2}
  Portfolios <- SomePortfolios
  Polled <- SomePolled
  Total = 2
  Percent = 50
  Moves <- SomeMoves
  MaxTopUps = 1
  MaxPeriods = 2
  MaxFaults = 1
SPECIFICATION FairSpec
INVARIANTS
  TypeOK
  OncePerKey
  NoneSwallowed
PROPERTIES
  CrossingsWorsen
  PollerCatchesUp
CHECK_DEADLOCK FALSE
