CONSTANTS
  Zones = {z1}
  Day = 4
  NightStart = 3
  NightEnd = 1
  FlapWindow = 2
  SummaryAge = 3
  StaleOutage = 4
  MaxCrashes = 1
SPECIFICATION FairSpec
PROPERTIES DownTextsApart LastWord
