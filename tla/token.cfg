SPECIFICATION FairSpec
CONSTANTS
  MaxStarts = 4
  MaxResets = 2
INVARIANTS
  ResetForgets
  RevokedNotOnDisk
  CopiesAgree
PROPERTIES
  NewestGrantWins
  GrantIsSaved
