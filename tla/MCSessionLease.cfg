SPECIFICATION Spec
CONSTANTS
  s1 = s1
  s2 = s2
  Sessions = {s1, s2}
  NoSession = NoSession
  AgentTTL = 2
  ServerTTL = 3
  MaxTime = 7
  MaxNet = 3
SYMMETRY SessionSymmetry
INVARIANTS LeaseProtected NeverRevived
CHECK_DEADLOCK FALSE
