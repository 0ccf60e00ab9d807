\* One supervised command: limits, cancellation, forks, crashes, SIGINT where it is handled.
\* It stops when the parent has ended and the group is empty.
CONSTANTS
  Git = git
  Descendant = {d1, d2}
  InterruptedIn <- Handled
SPECIFICATION FairSpec
INVARIANTS TypeOK StoppedWhenReleased
PROPERTIES NobodyRunsOn CommandEnds
CHECK_DEADLOCK FALSE
