\* The gateway restarts between a send and the retry of its rolled-back record.
SPECIFICATION Spec
CONSTANTS
  cron = cron
  alice = alice
  m1 = m1
  None = None
  Workers <- MCWorkers
  Cron = cron
  Msgs <- MCMsgs
  AckMayBeLost = FALSE
  MaxRestarts = 1
  MaxSends = 2
  MaxCommits = 3
INVARIANT NeverSentTwice
CHECK_DEADLOCK FALSE
