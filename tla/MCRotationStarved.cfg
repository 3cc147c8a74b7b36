SPECIFICATION DailySpec
CONSTANTS
  NTarget = 5
  PageLimit = 1
  Day <- DefaultDay
  NCatalog = 1
PROPERTIES
  HistoryIsNeverStarved
