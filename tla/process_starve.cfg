CONSTANTS
  init = init
  dr = dr
  drx = drx
  mm = mm
  fs = fs
  ter = ter
  kr = kr
  user = user
  user2 = user2
  Procs <- MainProcs
  InitProc <- init
  KernelProc <- kr
  BootLists <- MainBootLists
  Priority <- MainPriority
  MaxRounds = 10
SPECIFICATION ProcSpec
PROPERTIES LowPriorityRuns
