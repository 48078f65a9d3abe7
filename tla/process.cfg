CONSTANTS
  init = init
  dr = dr
  drx = drx
  mm = mm
  fs = fs
  ter = ter
  kr = kr
  user = user
  user2 = user2
  Procs <- MCProcs
  InitProc <- init
  KernelProc <- kr
  BootLists <- MCBootLists
  Priority <- MCPriority
  MaxRounds = 2
SPECIFICATION ProcSpec
INVARIANTS ProcTypeOK ReadyListsMatchStatus OneRunning
PROPERTIES TopLevelProgress NextLevelProgress
