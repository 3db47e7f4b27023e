CONSTANTS
  Submissions = {u1, u2}
  Doublings = 2
  MaxDelay = 3
  FirstPing = 1
  PingPeriod = 2
  Threading = {TRUE, FALSE}
  Ping = Ping
SPECIFICATION FairSpec
INVARIANTS AccountedFor IndicatorMatches
PROPERTIES EarnedSettles IndicatorClears
