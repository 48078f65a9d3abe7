------------------------------ MODULE MCProcess ------------------------------
(***************************************************************************)
(* The process manager with two processes at the top level, the kernel     *)
(* process alone at the next, two user processes that it creates, and      *)
(* init; and with the processes main() starts at the levels it gives them. *)
(***************************************************************************)
EXTENDS Process

CONSTANTS init, dr, drx, mm, fs, ter, kr, user, user2

MCPriority ==
  (init :> 4) @@ (dr :> 0) @@ (drx :> 0) @@ (kr :> 1)
  @@ (user :> 3) @@ (user2 :> 3)
MCBootLists ==
  LET order == <<init, dr, drx, kr>>
  IN  [l \in Levels |-> SelectSeq(order, LAMBDA p : MCPriority[p] = l)]
MCProcs == DOMAIN MCPriority

MainPriority ==
  (init :> 4) @@ (mm :> 1) @@ (fs :> 1) @@ (dr :> 0) @@ (ter :> 2)
MainBootLists ==
  LET order == <<init, mm, fs, dr, ter>>
  IN  [l \in Levels |-> SelectSeq(order, LAMBDA p : MainPriority[p] = l)]
MainProcs == DOMAIN MainPriority

=============================================================================
