SPECIFICATION FairSpec
CONSTANTS
  Tabs = {"t1", "t2"}
  Slots = {1, 2}
  Tokens = {"k1", "k2", "k3"}
  NoToken = "none"
  MaxClicks = 4
INVARIANTS TypeOK
PROPERTIES EndedByOthersOnly NoRedirectLoop
CHECK_DEADLOCK FALSE
