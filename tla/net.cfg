CONSTANTS
  NITEMS = 3
  mac_zero = mac_zero
  ip_zero = ip_zero
  Ports = {80}
  Procs = {p1, p2}
  Conns = {1, 2}
  Uses <- MCUses
  PortOf <- MCPortOf
  ISN <- MCISN
  SEQ = 64
  LEN = 3
  MaxBytes <- MCMaxBytes
  ZEROS = {1}
  MSS = 2
  Lengths = {1, 2}
  OWN_MAC = OWN_MAC
  OWN_IP = OWN_IP
  GW_MAC = GW_MAC
  GW_IP = GW_IP
  Hosts <- MCHosts
  NewIPs = {NEW_IP}
  MaxSteps = 7
  MaxArp = 3
  NIL = NIL
SPECIFICATION Spec
INVARIANTS NetTypeOK AckMatchesTaken ReadsFollowStream AcceptAnswered TakenIsAcked
  OutContiguous KnownHostsKept
CHECK_DEADLOCK FALSE
SYMMETRY MCSymmetry
