SPECIFICATION Spec
CONSTANTS
  Users = {u1, u2}
  Main = u1
  Callbacks = {b1}
  Contexts = {k1, k2}
  Detectors = {d1, d2}
  Callers <- MCCallers
  MaxSessions = 1
  MaxReports = 1
  MaxAttempts = 0
  Settings = {TRUE, FALSE}
  Commands = {}
  SaveMayFail = FALSE
  MayLackMethods = FALSE
  None = None
SYMMETRY GamingSymmetry
INVARIANTS
  CancellerHasGame
  NoOrphanSupervisor
  OneDetector
  SupervisorHasDetector
  DetectorFollowsConfig
  ActiveFollowsGame
