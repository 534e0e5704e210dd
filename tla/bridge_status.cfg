SPECIFICATION FairSpec
CONSTANTS
  Callers = {c1, c2}
  Supervisor = sup
  NoOne = noone
INVARIANTS
  LastSignalIsRecorded
PROPERTIES
  RecordedRecovers
  ImplementsFeed
