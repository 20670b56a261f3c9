\* The scene thread and two threads that hold its handle.
CONSTANTS
  Callers = {proto, render}
  Surfaces = {s1}
  Counts = {0, 1}
  NoWaiter = NoWaiter
  MaxMailbox = 3
SPECIFICATION FairSpec
INVARIANTS TypeOK ParkedIsFalse BlockedIsHeard
PROPERTIES ImplementsAtomicScene EveryCallReturns
CHECK_DEADLOCK FALSE
