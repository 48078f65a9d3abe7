CONSTANTS
  init = init
  ter = ter
  kr = kr
  ANY = ANY
  INTERRUPT = INTERRUPT
  NULL = NULL
  Procs <- MCProcs
  InitProc <- init
  KernelProc <- kr
  BootLists <- MCBootLists
  Priority <- MCPriority
  Clients = {ter}
  Servers = {kr}
  DiskServers = {}
  NetServers = {}
  Calls <- MCCalls
  Posts <- MCPosts
  MaxRounds = 10
  MaxCalls = 2
  MaxIntrs = 0
SPECIFICATION KernelSpec
INVARIANT QueueEmptyWhenBlocked
