--------------------------- MODULE GitSupervision ---------------------------
(***************************************************************************)
(* One supervised Git command (_run_supervised_git).  Fangorn, the parent, *)
(* starts an anchor that leads the command's process group, a guardian,    *)
(* and a supervisor; the supervisor starts Git in the anchor's group,      *)
(* drains the group when Git ends, when a limit is met or when it is told  *)
(* to, and reports whether the group stopped.  Git forks at will: hooks,   *)
(* filters, helpers.  The anchor kills the whole group when no live        *)
(* descriptor of its control pipe is left, or at a deadline of its own.    *)
(*                                                                         *)
(* Whether a group stopped is read from a scan of the process table, which *)
(* is no snapshot: it lists the processes, then reads them one by one, and *)
(* a process forked after the listing by one that ends before it is read   *)
(* is missed.  Every timed wait may time out at any moment.  The Registry  *)
(* lease and the markers are InvocationFence's: here the parent ends as    *)
(* "returned", "error" or "interrupted", after which its caller gives the  *)
(* lease back, as "unproven" (GitQuiescenceError), after which the caller  *)
(* keeps it, or as "killed".                                               *)
(***************************************************************************)
EXTENDS FiniteSets

CONSTANTS
  Git,            \* the process the supervisor starts
  Descendant,     \* the processes it may fork, directly or not
  InterruptedIn   \* the stages of the parent in which a SIGINT may arrive

Member == {Git} \cup Descendant

(* Stages of the parent.  Cancelling are the calls of                       *)
(* _cancel_process_group, before and after they resort to SIGKILL; those    *)
(* of Handler belong to the exception handler.                              *)
Ends       == {"returned", "error", "unproven", "interrupted", "killed"}
Opening    == {"begin", "anchored", "guarded"}
Main       == {"reading", "waiting", "cancel", "cancelKill", "settle", "settleAnchor"}
Handler    == {"hWait", "hCancel", "hCancelKill", "hSettle",
               "hAnchor", "hAnchorKill", "hSettleAnchor"}
Cancelling == {"cancel", "hCancel", "hAnchor"}
Killing    == {"cancelKill", "hCancelKill", "hAnchorKill"}
Stages     == Opening \cup Main \cup {"confirm"} \cup Handler \cup Ends

ASSUME SupervisionAssumption ==
  /\ Git \notin Descendant
  /\ InterruptedIn \subseteq Main \cup {"confirm"} \cup Handler

VARIABLES
  parent,     \* the stage of _run_supervised_git
  outcome,    \* what it will end as, once what it does now is done
  sigint,     \* has a SIGINT been taken: later ones are ignored
  ordered,    \* the byte "c" or "f" has been written to the control pipe
  finish,     \* finish_on_parent_exit
  supervisor, \* the stage of the supervisor
  told,       \* what the completion pipe holds
  anchor,     \* "none", "armed", "fired" (ended with its group), "killed"
              \* (alone, by an outsider), "late" (Git began after it ended)
  proc,       \* the state of each member of the group; "doomed": SIGKILL sent
  listing,    \* the members a scan has listed, for each of the two scanners
  proof       \* the last scan that found nobody: "none", "sound", or "missed"
              \* when it overlooked a process that still ran

vars == <<parent, outcome, sigint, ordered, finish, supervisor, told, anchor,
          proc, listing, proof>>
groupVars == <<anchor, proc>>
ownVars == <<sigint, ordered, finish>>

Ended == parent \in Ends
Living(m) == proc[m] = "alive"
Running == {m \in Member : proc[m] \in {"alive", "doomed"}}
Reaped == parent \in {"returned", "error", "killed", "confirm"}

Init ==
  /\ parent = "begin" /\ outcome = "none" /\ sigint = FALSE /\ ordered = FALSE
  /\ finish \in BOOLEAN
  /\ supervisor = "none" /\ told = "none" /\ anchor = "none"
  /\ proc = [m \in Member |-> "unborn"]
  /\ listing = [s \in {"parent", "supervisor"} |-> {}]
  /\ proof = "none"

-----------------------------------------------------------------------------
(* What killpg(SIGKILL) does: nobody in the group, the anchor included,    *)
(* executes another instruction, and a fork under way does not complete.   *)
KillGroup ==
  /\ proc' = [m \in Member |-> IF Living(m) THEN "doomed" ELSE proc[m]]
  /\ anchor' = IF anchor = "armed" THEN "fired" ELSE anchor

Lists(s) == listing' = [listing EXCEPT ![s] = Running]

(* A scan that found none of those it listed running.  The parent's counts *)
(* the anchor, the supervisor's ignores it.                                *)
Clean(s) ==
  /\ listing[s] \cap Running = {}
  /\ s = "parent" => anchor # "armed"
  /\ proof' = IF Running = {} THEN "sound" ELSE "missed"

-----------------------------------------------------------------------------
(* The members of the group.                                               *)
Fork(m, c) ==
  /\ Living(m) /\ proc[c] = "unborn"
  /\ proc' = [proc EXCEPT ![c] = "alive"]
  /\ UNCHANGED <<parent, outcome, ownVars, supervisor, told, anchor, listing, proof>>

Exit(m) ==
  /\ m \in Running
  /\ proc' = [proc EXCEPT ![m] = "gone"]
  /\ UNCHANGED <<parent, outcome, ownVars, supervisor, told, anchor, listing, proof>>

-----------------------------------------------------------------------------
(* The anchor.  It ends its group when the parent's and the supervisor's   *)
(* copies of the pipe are closed, and when its own time is up.             *)
Orphaned ==
  /\ parent \notin {"anchored", "guarded"}
  /\ supervisor \in {"none", "gone"}

AnchorWaits == FALSE

(* Its deadline may be up at any moment.                                   *)
AnchorTimeUp == TRUE

AnchorFires ==
  /\ anchor = "armed"
  /\ Orphaned \/ AnchorTimeUp
  /\ KillGroup
  /\ UNCHANGED <<parent, outcome, ownVars, supervisor, told, listing, proof>>

(* An outsider kills the anchor and nobody else.                           *)
AnchorKilled ==
  /\ anchor = "armed"
  /\ anchor' = "killed"
  /\ UNCHANGED <<parent, outcome, ownVars, supervisor, told, proc, listing, proof>>

-----------------------------------------------------------------------------
(* The supervisor.                                                         *)
(* Git joins the anchor's group: the group exists while the anchor, dead   *)
(* or not, has not been reaped, else setpgid fails.                        *)
StartGit ==
  /\ supervisor = "starting"
  /\ anchor = "armed" \/ ~Reaped
  /\ supervisor' = "watching"
  /\ proc' = [proc EXCEPT ![Git] = "alive"]
  /\ anchor' = IF anchor = "fired" THEN "late" ELSE anchor
  /\ UNCHANGED <<parent, outcome, ownVars, told, listing, proof>>

(* It cannot start Git, an OSError ends it, or an outsider or              *)
(* _settle_process kills it: nothing is written to the completion pipe.    *)
SupervisorFails ==
  /\ supervisor \notin {"none", "gone"}
  /\ supervisor' = "gone"
  /\ UNCHANGED <<parent, outcome, ownVars, told, groupVars, listing, proof>>

Commanded == ordered \/ Ended

(* Told to stop, or left alone: a finishing command gets time to end.      *)
Obey ==
  /\ supervisor = "watching" /\ Commanded /\ finish
  /\ supervisor' = "finishing"
  /\ UNCHANGED <<parent, outcome, ownVars, told, groupVars, listing, proof>>

(* _drain: SIGTERM, which members may ignore, then scans.  The time and    *)
(* output limits may be met at any moment.                                 *)
Drain ==
  /\ \/ supervisor = "finishing"
     \/ supervisor = "watching" /\ (Commanded => ~finish)
  /\ supervisor' = "draining"
  /\ Lists("supervisor")
  /\ UNCHANGED <<parent, outcome, ownVars, told, groupVars, proof>>

DrainKill ==
  /\ supervisor = "draining"
  /\ supervisor' = "killing"
  /\ KillGroup
  /\ listing' = [listing EXCEPT !["supervisor"] = Running]
  /\ UNCHANGED <<parent, outcome, ownVars, told, proof>>

ReportStopped ==
  /\ supervisor \in {"draining", "killing"}
  /\ Clean("supervisor")
  /\ told' = "proven" /\ supervisor' = "reported"
  /\ UNCHANGED <<parent, outcome, ownVars, groupVars, listing>>

(* UNPROVEN_GROUP_TERMINATION                                              *)
ReportUnproven ==
  /\ supervisor = "killing"
  /\ told' = "unproven" /\ supervisor' = "reported"
  /\ UNCHANGED <<parent, outcome, ownVars, groupVars, listing, proof>>

-----------------------------------------------------------------------------
(* The parent: opening.  SIGINT is blocked.                                *)
SpawnAnchor ==
  /\ parent = "begin"
  /\ parent' = "anchored" /\ anchor' = "armed"
  /\ UNCHANGED <<outcome, ownVars, supervisor, told, proc, listing, proof>>

GuardianReady ==
  /\ parent = "anchored"
  /\ parent' = "guarded"
  /\ UNCHANGED <<outcome, ownVars, supervisor, told, groupVars, listing, proof>>

SpawnSupervisorFirst ==
  /\ parent = "begin"
  /\ parent' = "reading" /\ supervisor' = "starting"
  /\ UNCHANGED <<outcome, ownVars, told, groupVars, listing, proof>>

SpawnSupervisor ==
  /\ parent = "guarded"
  /\ parent' = "reading" /\ supervisor' = "starting"
  /\ UNCHANGED <<outcome, ownVars, told, groupVars, listing, proof>>

(* Entering the exception handler with an exception.  Without a supervisor *)
(* only the anchor is left to end.                                         *)
Raise(exception) ==
  /\ outcome' = exception
  /\ ordered' = TRUE
  /\ IF supervisor = "none"
     THEN parent' = "hAnchor" /\ Lists("parent")
     ELSE parent' = "hWait" /\ UNCHANGED listing

GuardianFails ==
  /\ parent = "anchored"
  /\ Raise("unproven")
  /\ UNCHANGED <<sigint, finish, supervisor, told, groupVars, proof>>

SupervisorNotSpawned ==
  /\ parent = "guarded"
  /\ Raise("error")
  /\ UNCHANGED <<sigint, finish, supervisor, told, groupVars, proof>>

-----------------------------------------------------------------------------
(* The parent: waiting for the two frames; a frame is read once.           *)
ReadPid ==
  /\ parent = "reading" /\ proc[Git] # "unborn"
  /\ parent' = "waiting"
  /\ UNCHANGED <<outcome, ownVars, supervisor, told, groupVars, listing, proof>>

NoPid ==
  /\ parent = "reading"
  /\ Raise("error")
  /\ UNCHANGED <<sigint, finish, supervisor, told, groupVars, proof>>

ReadCompletion ==
  /\ parent = "waiting" /\ told # "none"
  /\ parent' = "settle"
  /\ outcome' = IF told = "proven" THEN "returned" ELSE "confirm"
  /\ told' = "none"
  /\ UNCHANGED <<ownVars, supervisor, groupVars, listing, proof>>

NoCompletionAtEnd ==
  /\ parent = "waiting" /\ supervisor = "gone"
  /\ parent' = "cancel" /\ outcome' = "error"
  /\ Lists("parent")
  /\ UNCHANGED <<ownVars, supervisor, told, groupVars, proof>>

(* End of file, or the deadline.                                           *)
NoCompletion ==
  /\ parent = "waiting"
  /\ parent' = "cancel" /\ outcome' = "error"
  /\ Lists("parent")
  /\ UNCHANGED <<ownVars, supervisor, told, groupVars, proof>>

HandlerReads ==
  /\ parent = "hWait" /\ told # "none"
  /\ parent' = "hSettle" /\ told' = "none"
  /\ UNCHANGED <<outcome, ownVars, supervisor, groupVars, listing, proof>>

HandlerReadsNothing ==
  /\ parent = "hWait"
  /\ parent' = "hCancel"
  /\ Lists("parent")
  /\ UNCHANGED <<outcome, ownVars, supervisor, told, groupVars, proof>>

-----------------------------------------------------------------------------
(* The parent: _cancel_process_group.                                      *)
CancelKill ==
  /\ parent \in Cancelling
  /\ parent' = CASE parent = "cancel"  -> "cancelKill"
                 [] parent = "hCancel" -> "hCancelKill"
                 [] parent = "hAnchor" -> "hAnchorKill"
  /\ KillGroup
  /\ Lists("parent")
  /\ UNCHANGED <<outcome, ownVars, supervisor, told, proof>>

Cancelled ==
  /\ parent \in Cancelling \cup Killing
  /\ Clean("parent")
  /\ parent' = CASE parent \in {"cancel", "cancelKill"}   -> "settle"
                 [] parent \in {"hCancel", "hCancelKill"} -> "hSettle"
                 [] parent \in {"hAnchor", "hAnchorKill"} -> "hSettleAnchor"
  /\ UNCHANGED <<outcome, ownVars, supervisor, told, groupVars, listing>>

(* GitQuiescenceError: outside the handler it enters the handler, inside   *)
(* it replaces the exception handled and ends the call.                    *)
GivesUp ==
  /\ parent \in Killing \cup {"settle", "settleAnchor", "hSettle", "hSettleAnchor"}
  /\ IF parent \in Handler
     THEN parent' = "unproven" /\ UNCHANGED <<outcome, ordered, listing>>
     ELSE Raise("unproven")
  /\ UNCHANGED <<sigint, finish, supervisor, told, groupVars, proof>>

(* A scan that found somebody is followed by another.                      *)
Relist ==
  /\ \/ supervisor \in {"draining", "killing"} /\ Lists("supervisor")
     \/ parent \in Cancelling \cup Killing \cup {"confirm"} /\ Lists("parent")
  /\ listing' # listing
  /\ UNCHANGED <<parent, outcome, ownVars, supervisor, told, groupVars, proof>>

-----------------------------------------------------------------------------
(* The parent: _settle_process.  It waits, and kills what does not end.    *)
AfterSupervisorDone == IF parent = "settle" THEN "settleAnchor" ELSE "hSettleAnchor"

(* The handler cancels once more, whatever it has found out so far.        *)
AfterSupervisor == IF parent = "settle" THEN "settleAnchor" ELSE "hAnchor"

SettleSupervisor ==
  /\ parent \in {"settle", "hSettle"}
  /\ supervisor' = "gone"
  /\ parent' = AfterSupervisor
  /\ IF parent = "hSettle" THEN Lists("parent") ELSE UNCHANGED listing
  /\ UNCHANGED <<outcome, ownVars, told, groupVars, proof>>

(* An anchor that has not ended by itself is killed with its group.        *)
SettleAnchor ==
  /\ parent \in {"settleAnchor", "hSettleAnchor"}
  /\ IF anchor = "armed" THEN KillGroup ELSE UNCHANGED groupVars
  /\ parent' = outcome
  /\ IF outcome = "confirm" THEN Lists("parent") ELSE UNCHANGED listing
  /\ UNCHANGED <<outcome, ownVars, supervisor, told, proof>>

(* The completion said unproven: one more look at the group.               *)
Confirm ==
  /\ parent = "confirm"
  /\ \/ Clean("parent") /\ parent' = "returned"
     \/ parent' = "unproven" /\ UNCHANGED proof
  /\ UNCHANGED <<outcome, ownVars, supervisor, told, groupVars, listing>>

-----------------------------------------------------------------------------
(* The first SIGINT writes the command byte and raises KeyboardInterrupt.  *)
(* Before the group is settled the handler ends everything; in confirm,    *)
(* and in the handler itself, nothing catches it.                          *)
Interrupt ==
  /\ parent \in InterruptedIn /\ ~sigint
  /\ sigint' = TRUE
  /\ IF parent \in Main
     THEN Raise("interrupted")
     ELSE /\ parent' = "interrupted" /\ ordered' = TRUE
          /\ UNCHANGED <<outcome, listing>>
  /\ UNCHANGED <<finish, supervisor, told, groupVars, proof>>

(* SIGKILL, or a crash of the machine's session: descriptors are closed.   *)
ParentKilled ==
  /\ ~Ended
  /\ parent' = "killed"
  /\ UNCHANGED <<outcome, ownVars, supervisor, told, groupVars, listing, proof>>

-----------------------------------------------------------------------------
ParentStep ==
  \/ SpawnAnchor \/ GuardianReady \/ GuardianFails
  \/ SpawnSupervisor \/ SupervisorNotSpawned
  \/ ReadPid \/ NoPid \/ ReadCompletion \/ NoCompletion
  \/ HandlerReads \/ HandlerReadsNothing
  \/ CancelKill \/ Cancelled \/ GivesUp
  \/ SettleSupervisor \/ SettleAnchor \/ Confirm

SupervisorStep ==
  \/ StartGit \/ SupervisorFails \/ Obey \/ Drain \/ DrainKill
  \/ ReportStopped \/ ReportUnproven

Next ==
  \/ ParentStep \/ SupervisorStep \/ Relist \/ Interrupt \/ ParentKilled
  \/ AnchorFires \/ AnchorKilled
  \/ \E m \in Member, c \in Descendant : Fork(m, c)
  \/ \E m \in Member : Exit(m)

Spec == Init /\ [][Next]_vars

(* Fangorn's waits end by their time limits and the anchor's timer runs.   *)
(* Of the supervisor and of the members nothing is assumed.                *)
FairSpec == Spec /\ WF_vars(ParentStep) /\ WF_vars(AnchorFires)

-----------------------------------------------------------------------------
(* The variables have their types, and the group has an anchor before it   *)
(* has a supervisor and a supervisor before it has a member.               *)
TypeOK ==
  /\ parent \in Stages
  /\ outcome \in {"none", "returned", "error", "unproven", "interrupted", "confirm"}
  /\ sigint \in BOOLEAN /\ ordered \in BOOLEAN /\ finish \in BOOLEAN
  /\ supervisor \in {"none", "starting", "watching", "finishing", "draining",
                     "killing", "reported", "gone"}
  /\ told \in {"none", "proven", "unproven"}
  /\ anchor \in {"none", "armed", "fired", "killed", "late"}
  /\ proc \in [Member -> {"unborn", "alive", "doomed", "gone"}]
  /\ listing \in [{"parent", "supervisor"} -> SUBSET Member]
  /\ proof \in {"none", "sound", "missed"}
  /\ supervisor # "none" => anchor # "none"
  /\ proc[Git] # "unborn" => supervisor # "none"

(* The anchor was there when Git began, and nobody killed it alone.        *)
Anchored == anchor \notin {"killed", "late"}

(* A parent whose caller gives the lease back has a scan that found nobody *)
(* (README.md: "releases the lease after proving the Git process group     *)
(* stopped").                                                              *)
ReleasedAfterProof ==
  parent \in {"returned", "error", "interrupted"} => proof # "none"

(* And then nothing of the command executes any more: not Git started by a *)
(* slow supervisor after its group was cancelled, nor, unless an outsider  *)
(* killed the anchor or Git began after it, a process that a scan missed.  *)
StoppedWhenReleased ==
  parent \in {"returned", "error", "interrupted"} =>
    /\ proof # "none"
    /\ proof = "sound" => Running = {}
    /\ Anchored => \A m \in Member : ~Living(m)

(* However the parent ends, killed included, and whatever becomes of the   *)
(* supervisor, an anchored group does not run on.                          *)
NobodyRunsOn == Ended /\ Anchored ~> ~Anchored \/ \A m \in Member : ~Living(m)

(* The call ends though the supervisor, the anchor and Git may all hang.   *)
CommandEnds == <>Ended
=============================================================================
