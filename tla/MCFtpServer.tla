---------------------------- MODULE MCFtpServer ----------------------------
(***************************************************************************)
(* Two allocation policies for FtpServer: the lowest free descriptor, which *)
(* keeps the state space small, and any free descriptor.                   *)
(***************************************************************************)
EXTENDS FtpServer

AnyFree(candidates, used) == candidates \ used

LowestFree(candidates, used) ==
  {d \in AnyFree(candidates, used) : \A e \in AnyFree(candidates, used) : d <= e}
=============================================================================
