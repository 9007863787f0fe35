CONSTANTS
  s1 = s1
  s2 = s2
  Sessions = {s1, s2, base}
  Base = base
  MaxOpen = 1
  MaxTasks = 2
  MaxManual = 1
  Conflict = conflict
  MaxRestarts = 1
  Environments <- MCEnvironments
SPECIFICATION WorkerSpec
CHECK_DEADLOCK FALSE
SYMMETRY MCSymmetry
INVARIANTS CheckoutTypeOK BranchHoldsOwnWork CompletedWorkIsPushed ParentIsUntouched ServesUnderAuthority
PROPERTY UncommittedIsKept
