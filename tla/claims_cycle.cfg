SPECIFICATION Spec
CONSTANTS
  c1 = c1
  c2 = c2
  c3 = c3
  Claims <- MCClaims
  KeyOf <- MCKeyOf
  ObjectOf <- MCObjectOf
  Agents = {a, b}
  None = None
INVARIANTS
  NotItsOwnCorrection
SYMMETRY AgentSymmetry
CHECK_DEADLOCK FALSE
