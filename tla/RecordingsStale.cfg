SPECIFICATION Spec
CONSTANTS
  Paths = {"f1", "f2"}
  Profiles = {"A"}
  Lists = {list1, list2}
  Gets = {get1, get2}
  Removals = {"delete", "prune"}
  Prunes = {"prune"}
  ProfileOf <- MCProfileOf
  Target <- MCTarget
  Doomed <- MCDoomed
INVARIANTS NeverServedStale
SYMMETRY MCSymmetry
CHECK_DEADLOCK FALSE
