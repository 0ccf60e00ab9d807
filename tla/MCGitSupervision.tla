-------------------------- MODULE MCGitSupervision --------------------------
(* Git and two descendants, enough for a fork by a fork during a scan.     *)
EXTENDS GitSupervision

(* Where the code handles a first SIGINT, and one stage where it does not. *)
Handled   == Main
Unhandled == Main \cup {"confirm"}
=============================================================================
