-------------------------- MODULE MCWorkspaceCreate -------------------------
(***************************************************************************)
(* Small instances of WorkspaceCreate.                                     *)
(***************************************************************************)
EXTENDS WorkspaceCreate, TLC

CONSTANTS app

Ask(id, path, branch, start) == [id |-> id, path |-> path, branch |-> branch, start |-> start]

MCNoServices == <<>>
MCOneService == <<app>>

(* One request, and two that would share a target path.                    *)
MCStart == {Ask(NoId, "p", "b", TRUE)}
MCEither == {Ask(NoId, "p", "b", start) : start \in BOOLEAN}

Interchangeable == Permutations(Invocation)
=============================================================================
