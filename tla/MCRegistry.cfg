\* The registry alone: three names, a cap of one, and no session ever built.
SPECIFICATION Spec
CONSTANTS
  Names = {main, sales, help}
  NoName = NoName
  Procs = {p1, p2}
  Webhooks = {TRUE, FALSE}
  Cap = 1
  MaxUids = 3
  MaxObjects = 0
  MaxCrashes = 1
SYMMETRY MCSymmetry
INVARIANTS CapBound PromiseKept
CHECK_DEADLOCK FALSE
