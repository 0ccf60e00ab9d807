-------------------------- MODULE MCInvocationFence --------------------------
(***************************************************************************)
(* A small instance of InvocationFence: two invocations resume one create, *)
(* and another, if any, belongs to a different operation.                  *)
(***************************************************************************)
EXTENDS InvocationFence, TLC

CONSTANTS creating, stopping,       \* operations
          Creators                  \* the invocations of creating

MCOperation == {creating, stopping}
MCOperationOf == [i \in Invocation |-> IF i \in Creators THEN creating ELSE stopping]

(* Invocations of one operation are interchangeable.                       *)
Interchangeable == Permutations(Creators)
=============================================================================
