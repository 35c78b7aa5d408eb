SPECIFICATION SkillFairSpec
CONSTANTS
  Callers = {c1, c2}
  Names = {n1, n2}
  Cancellable = {n1}
  kMaxNumOperations = 2
  MaxOperations = 3
INVARIANTS NothingForgotten ToldOnce
PROPERTIES MutexGivenBack CleanedUp
CHECK_DEADLOCK FALSE
