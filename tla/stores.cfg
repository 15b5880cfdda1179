\* Two processes on two sessions, two writers of two artifacts, two agents on four claims.
SPECIFICATION MCSpec
CONSTANTS
  Id = {s1, s2}
  Thread = {s1, s2}
  Proc = {p, q}
  NoProc = NoProc
  Kind = {"interrupt", "message"}
  MaxRows = 3
  MaxEvents = 1
  MaxCrashes = 1
  Writers = {w, v}
  Contents = {x, y}
  MaxKills = 1
  MaxCuts = 1
  MaxFaults = 1
  a = a
  b = b
  c1 = c1
  c2 = c2
  c3 = c3
  c4 = c4
  Claims <- MCClaims
  KeyOf <- MCKeyOf
  ObjectOf <- MCObjectOf
  Agents = {a, b}
  None = None
  Nothing = Nothing
  Entities = {}
  Lexical <- MCLexical
  Vector <- MCVector
  Seen <- MCSeen
  MaxClaims = 3
  MaxDeadEnds = 1
  Hops = 2
  Room = 5
  MaxBriefs = 2
SYMMETRY Symmetry
INVARIANTS
  CorrectionsAreSound
  WarnsOfItsFacts
  BriefIsTrue
  TablesAreSound
  ContentIsKept
PROPERTIES
  ImplementsTable
CHECK_DEADLOCK FALSE
