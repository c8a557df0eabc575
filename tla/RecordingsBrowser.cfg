SPECIFICATION FairSpec
CONSTANTS
  Files = {"old", "new"}
  Dirs = {"root", "day"}
  Root = "root"
  Above <- MCAbove
  FolderOf <- MCFolderOf
  Old = {"old"}
  MaxLoads = 4
  MaxRuns = 2
INVARIANTS TypeOK SelectionIsShown NoGhosts BusyWithItsOwn
PROPERTIES Recovers
CHECK_DEADLOCK FALSE
