SPECIFICATION FairSpec
CONSTANTS
  Handlers = {h1, h2}
  Intervals = {2, 3, 5}
  StallGap = 8
  MaxGap = 9
INVARIANTS
  DropsAreLostTicks
PROPERTIES
  RatesSettle
