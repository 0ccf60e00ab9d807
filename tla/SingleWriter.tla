---------------------------- MODULE SingleWriter ----------------------------
(***************************************************************************)
(* What the fenced mutation lease promises to the rest of Fangorn, without *)
(* saying how: one scope (a Workspace or a Repository cache) has at most   *)
(* one writer, each writer holds the scope for a term of its own, terms    *)
(* only grow, and only the writer changes the operation journal - except   *)
(* for the moment a new writer is installed, when the step its predecessor *)
(* left running is marked unknown.                                         *)
(*                                                                         *)
(* MutationLease implements this module: see Promise there.                *)
(***************************************************************************)
EXTENDS Naturals

CONSTANTS Invocation,    \* one command of one process
          Operation,     \* journalled operations of the scope
          OperationOf,   \* the operation an invocation carries out
          NoOne          \* nobody, or no operation

VARIABLES writer,        \* the invocation that may change the journal
          writing,       \* the operation the writer was installed for
          term,          \* how many writers there have been
          journal        \* the in-flight step of every operation

promiseVars == <<writer, writing, term, journal>>

NoStep == [status |-> "none", by |-> NoOne]

(* The journal once a step that operation o left running is written off.   *)
WrittenOff(o, status) ==
    [p \in Operation |->
        IF p = o /\ journal[p].status = "running"
        THEN [journal[p] EXCEPT !.status = status]
        ELSE journal[p]]

PromiseInit ==
    /\ writer = NoOne
    /\ writing = NoOne
    /\ term = 0
    /\ journal = [o \in Operation |-> NoStep]

(* A writer is installed on a free scope, or replaces one that is gone.    *)
Install(i) ==
    /\ writer' = i
    /\ writing' = OperationOf[i]
    /\ term' = term + 1
    /\ journal' = IF writer = NoOne THEN journal ELSE WrittenOff(writing, "unknown")

(* The writer records a step of its own operation, and nothing else.       *)
Record(i) ==
    /\ writer = i
    /\ \E status \in {"running", "completed", "failed"} :
          /\ status # "running" => journal[OperationOf[i]] = [status |-> "running", by |-> i]
          /\ journal' = [journal EXCEPT ![OperationOf[i]] = [status |-> status, by |-> i]]
    /\ UNCHANGED <<writer, writing, term>>

(* The writer leaves, writing off the step it may have left running or     *)
(* leaving it for the reader of the journal to find.                       *)
Leave(i) ==
    /\ writer = i
    /\ writer' = NoOne
    /\ \/ UNCHANGED journal
       \/ \E status \in {"failed", "unknown"} :
             journal' = WrittenOff(OperationOf[i], status)
    /\ UNCHANGED <<writing, term>>

PromiseNext == \E i \in Invocation : Install(i) \/ Record(i) \/ Leave(i)

Promise == PromiseInit /\ [][PromiseNext]_promiseVars
=============================================================================
