-------------------------- MODULE MCRepositoryCache -------------------------
(***************************************************************************)
(* A small instance of RepositoryCache: two creates of one source, and one *)
(* of another.                                                             *)
(***************************************************************************)
EXTENDS RepositoryCache, TLC

CONSTANTS o1, o2, o3, s1, s2

MCSourceOf == [o \in Operation |-> IF o = o3 THEN s2 ELSE s1]

Interchangeable == Permutations(Invocation) \cup Permutations({o1, o2})
=============================================================================
