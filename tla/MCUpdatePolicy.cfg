SPECIFICATION Spec
CONSTANTS
  Kinds = {"os", "fw"}
  Slots = {s1, s2}
  MaxRev = 2
  MaxRequest = 3
  MaxGeneration = 2
  MaxRestart = 1
CONSTRAINT Focus
SYMMETRY Sym
INVARIANTS UsablePolicyIsCurrent WorkersSafe
CHECK_DEADLOCK FALSE
