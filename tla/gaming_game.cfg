SPECIFICATION Spec
CONSTANTS
  Users = {u1}
  Main = u1
  Callbacks = {b1, b2}
  Contexts = {k1, k2}
  Detectors = {d1}
  Callers <- MCCallers
  MaxSessions = 2
  MaxReports = 2
  MaxAttempts = 1
  Settings = {}
  Commands = {"stop"}
  SaveMayFail = FALSE
  MayLackMethods = FALSE
  None = None
SYMMETRY GamingSymmetry
INVARIANTS
  EndedGameLeavesNoSession
