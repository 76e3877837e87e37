SPECIFICATION FairSpec
CONSTANTS
  c1 = c1
  c2 = c2
  c3 = c3
  quality = quality
  trend = trend
  Candidates = {c1, c2, c3}
  Defaults = Defaults
  Categories = {quality, trend}
  CategoryOf <- CategoriesOf
  Scores = {1, 2}
  None = None
  BatchSize = 2
  Interval = 2
  Recent = 1
  Enough = 1
  MaxStamp = 1
  MaxRequests = 0
  MaxFaults = 0
PROPERTIES
  NightsTest
