\* A SIGINT may also arrive in the last confirmation.
\* It stops when the parent has ended and the group is empty.
CONSTANTS
  Git = git
  Descendant = {d1}
  InterruptedIn <- Unhandled
SPECIFICATION Spec
INVARIANT ReleasedAfterProof
CHECK_DEADLOCK FALSE
