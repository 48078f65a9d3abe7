----------------------------- MODULE MCIpcKernel -----------------------------
(***************************************************************************)
(* The kernel process and one client of it, both at level C.               *)
(***************************************************************************)
EXTENDS IpcKernel

CONSTANTS init, ter, kr

MCProcs == {init, ter, kr}
MCPriority == (init :> 4) @@ (ter :> 2) @@ (kr :> 2)
MCBootLists ==
  LET order == <<init, ter, kr>>
  IN  [l \in Levels |-> SelectSeq(order, LAMBDA p : MCPriority[p] = l)]
MCCalls == (ter :> {kr}) @@ (kr :> {})
MCPosts == (ter :> {kr})

=============================================================================
