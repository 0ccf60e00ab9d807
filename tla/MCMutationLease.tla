--------------------------- MODULE MCMutationLease ---------------------------
(***************************************************************************)
(* A small instance of MutationLease: two invocations resume one create,   *)
(* and one forgets the Workspace.                                          *)
(***************************************************************************)
EXTENDS MutationLease, TLC

CONSTANTS create1, create2, forget1,    \* invocations
          creating, forgetting              \* operations

MCInvocation == {create1, create2, forget1}
MCOperation == {creating, forgetting}
MCOperationOf ==
    create1 :> creating @@ create2 :> creating @@ forget1 :> forgetting
MCForgetting == {forget1}
=============================================================================
