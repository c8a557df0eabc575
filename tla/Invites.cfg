SPECIFICATION Spec
CONSTANTS
  Tokens = {"t1", "t2", "t3"}
  Emails = {"bob", "cat"}
  EmailOf <- MCEmailOf
  Requests = {"r1", "r2", "r3", "r4"}
  TokenOf <- MCTokenOf
INVARIANTS TypeOK OneClaimPerToken OneAccountPerEmail SpentOnAccount
CHECK_DEADLOCK FALSE
