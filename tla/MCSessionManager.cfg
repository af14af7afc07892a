\* One name, forgotten and claimed again: two UIDs, three session objects.
SPECIFICATION Spec
CONSTANTS
  Names = {main}
  NoName = NoName
  Procs = {p1, p2}
  Webhooks = {FALSE}
  Cap = 0
  MaxUids = 2
  MaxObjects = 3
  MaxCrashes = 1
SYMMETRY MCSymmetry
INVARIANTS TypeOK PublishedIsWhole ClientsAreManaged
CHECK_DEADLOCK FALSE
