CONSTANTS
  NSLOTS = 6
  PAGE = 24
  HEADER = 2
  SMALLEST = 6
  CLASSES = 2
  PTES = 6
  PREMAPPED = 3
  Requests = {6, 12, 20, 33, 50}
  MaxMallocs = 7
  NULL = NULL
SPECIFICATION MemSpec
INVARIANTS MemTypeOK MapsAgree FreeListsExact SharingConfined
PROPERTIES RefinesHeap
CHECK_DEADLOCK FALSE
