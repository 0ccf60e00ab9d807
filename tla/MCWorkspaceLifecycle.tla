------------------------ MODULE MCWorkspaceLifecycle ------------------------
(***************************************************************************)
(* Small instances of WorkspaceLifecycle.                                  *)
(***************************************************************************)
EXTENDS WorkspaceLifecycle, TLC

CONSTANTS alpha, zeta

MCTwoServices == <<alpha, zeta>>
MCOneService == <<alpha>>

Interchangeable == Permutations(Invocation)
=============================================================================
