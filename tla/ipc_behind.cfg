CONSTANTS
  init = init
  ter = ter
  fs = fs
  net = net
  dr = dr
  ANY = ANY
  INTERRUPT = INTERRUPT
  NULL = NULL
  Procs <- MCProcs
  InitProc <- init
  KernelProc = KernelProc
  BootLists <- MCBootLists
  Priority <- MCPriority
  Clients <- MCClients
  Servers <- MCServers
  DiskServers <- MCDiskServers
  NetServers <- MCNetServers
  Calls <- MCCallsBoth
  Posts <- MCNoPosts
  MaxRounds = 10
  MaxCalls = 1
  MaxIntrs = 1
SPECIFICATION Spec
INVARIANTS BlockedSenderIsQueued
