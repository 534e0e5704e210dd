SPECIFICATION FairSpec
CONSTANTS
  Users = {u1}
  Main = u1
  Callbacks = {b1}
  Contexts = {k1}
  Detectors = {d1}
  Callers <- MCCallers
  MaxSessions = 2
  MaxReports = 1
  MaxAttempts = 2
  Settings = {FALSE}
  Commands = {"start", "stop"}
  SaveMayFail = TRUE
  MayLackMethods = TRUE
  None = None
PROPERTIES
  UndoStopsOwnSession
  LostSessionComesBack
