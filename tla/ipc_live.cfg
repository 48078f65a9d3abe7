CONSTANTS
  init = init
  ter = ter
  fs = fs
  net = net
  dr = dr
  ANY = ANY
  INTERRUPT = INTERRUPT
  NULL = NULL
  Procs <- MCProcs
  InitProc <- init
  KernelProc = KernelProc
  BootLists <- MCBootLists
  Priority <- MCPriority
  Clients <- MCClients
  Servers <- MCServers
  DiskServers <- MCDiskServers
  NetServers <- MCNetServers
  Calls <- MCCalls
  Posts <- MCNoPosts
  MaxRounds = 1
  MaxCalls = 2
  MaxIntrs = 1
SPECIFICATION Spec
PROPERTIES CallsReturn
