SPECIFICATION FairSpec
CONSTANTS
  cron = cron
  alice = alice
  m1 = m1
  None = None
  Workers <- MCWorkers
  Cron = cron
  Msgs <- MCMsgs
  AckMayBeLost = TRUE
  MaxRestarts = 1
  MaxSends = 2
  MaxCommits = 3
INVARIANTS TypeOK OneSenderPerKey AckedIsRemembered SentRowOnWire
PROPERTIES SentIsFinal WaitersReleased ImplementsSendOnce
CHECK_DEADLOCK FALSE
