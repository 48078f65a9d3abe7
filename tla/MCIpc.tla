-------------------------------- MODULE MCIpc --------------------------------
(***************************************************************************)
(* The driver with its two users: the file system, called by the terminal, *)
(* and the network server, which the card interrupts.  In the second       *)
(* topology the terminal calls the network server as well.                 *)
(***************************************************************************)
EXTENDS Ipc

CONSTANTS init, ter, fs, net, dr

MCProcs == {init, ter, fs, net, dr}
MCPriority == (init :> 4) @@ (fs :> 1) @@ (dr :> 0) @@ (net :> 2) @@ (ter :> 2)
MCBootLists ==
  LET order == <<init, fs, dr, net, ter>>
  IN  [l \in Levels |-> SelectSeq(order, LAMBDA p : MCPriority[p] = l)]
MCClients == {ter}
MCServers == {fs, net, dr}
MCDiskServers == {dr}
MCNetServers == {net}
MCCalls == (ter :> {fs}) @@ (fs :> {dr}) @@ (net :> {dr}) @@ (dr :> {})
MCPosts == (ter :> {fs})
MCNoPosts == (ter :> {})
MCCallsBoth == [MCCalls EXCEPT ![ter] = {fs, net}]

\* The theorems about layered servers apply to both.
ASSUME MCTopology == Layered

=============================================================================
