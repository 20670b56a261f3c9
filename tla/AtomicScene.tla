---------------------------- MODULE AtomicScene ----------------------------
(***************************************************************************)
(* What SceneHandle promises its callers (crates/core/src/scene/thread.rs):*)
(* a scene that no two threads touch at once.  Each caller's posts take    *)
(* effect in the order it made them; a read returns the scene with every   *)
(* earlier post of the reader in it; a wait answers true of a scene where  *)
(* its condition holds, and false of one where it does not, and then only  *)
(* because its time is up, or another wait has taken its place.  No word   *)
(* of a mailbox, of a thread, or of who is served when.                    *)
(***************************************************************************)
EXTENDS Integers, Sequences, FiniteSets

CONSTANTS
  Callers,        \* the threads that hold a handle
  Surfaces,
  Counts          \* conditions: surface_count() equals one of these

VARIABLES
  scene,          \* the live surfaces
  pending,        \* each caller's posts that have not taken effect
  call,           \* "none", a "read" or a "wait" the caller is blocked in, "dead"
  count,          \* the condition of a caller's last wait
  late,           \* the waiting callers whose deadline has passed
  answer,         \* what each caller's last call returned
  stopped

vars == <<scene, pending, call, count, late, answer, stopped>>

Post == [op : {"create", "destroy"}, surface : Surfaces]
NoAnswer == [none |-> TRUE]
Saw(sc) == [saw |-> sc]
Told(b) == [told |-> b]

Init ==
  /\ scene = {} /\ pending = [c \in Callers |-> <<>>]
  /\ call = [c \in Callers |-> "none"] /\ late = {}
  /\ count \in [Callers -> Counts]
  /\ answer = [c \in Callers |-> NoAnswer]
  /\ stopped = FALSE

After(p, sc) == IF p.op = "create" THEN sc \cup {p.surface} ELSE sc \ {p.surface}
Holds(c, sc) == Cardinality(sc) = count[c]

Posts(c) ==
  /\ call[c] = "none"
  /\ IF stopped THEN UNCHANGED pending
     ELSE \E p \in Post : pending' = [pending EXCEPT ![c] = Append(@, p)]
  /\ UNCHANGED <<scene, call, count, late, answer, stopped>>

Calls(c, kind) ==
  /\ call[c] = "none"
  /\ call' = [call EXCEPT ![c] = IF stopped THEN "dead" ELSE kind]
  /\ answer' = [answer EXCEPT ![c] = NoAnswer]
  /\ IF kind = "wait" THEN \E n \in Counts : count' = [count EXCEPT ![c] = n]
                      ELSE UNCHANGED count
  /\ UNCHANGED <<scene, pending, late, stopped>>

TimeIsUp(c) ==
  /\ call[c] = "wait" /\ late' = late \cup {c}
  /\ UNCHANGED <<scene, pending, call, count, answer, stopped>>

(* The callers in `who` return, each with its value.                         *)
Returns(who, value(_)) ==
  /\ call' = [c \in Callers |-> IF c \in who THEN "none" ELSE call[c]]
  /\ answer' = [c \in Callers |-> IF c \in who THEN value(c) ELSE answer[c]]
  /\ late' = late \ who

Settled(c) == call[c] = "wait" /\ pending[c] = <<>>

(* A post takes effect; a wait that it satisfies may return at once.         *)
TakesEffect(c) ==
  /\ pending[c] # <<>>
  /\ scene' = After(Head(pending[c]), scene)
  /\ pending' = [pending EXCEPT ![c] = Tail(@)]
  /\ \E who \in SUBSET {w \in Callers : Settled(w) /\ Holds(w, scene')} :
       Returns(who, LAMBDA w : Told(TRUE))
  /\ UNCHANGED <<count, stopped>>

ReadReturns(c) ==
  /\ call[c] = "read" /\ pending[c] = <<>>
  /\ Returns({c}, LAMBDA w : Saw(scene))
  /\ UNCHANGED <<scene, pending, count, stopped>>

WaitReturns(c) ==
  /\ Settled(c)
  /\ Holds(c, scene) \/ c \in late \/ (\E d \in Callers \ {c} : Settled(d))
  /\ Returns({c}, LAMBDA w : Told(Holds(w, scene)))
  /\ UNCHANGED <<scene, pending, count, stopped>>

(* The scene is gone with what was pending: waits return false, a read       *)
(* panics.                                                                   *)
Stops ==
  /\ ~stopped /\ stopped' = TRUE
  /\ pending' = [c \in Callers |-> <<>>]
  /\ call' = [c \in Callers |-> CASE call[c] = "wait" -> "none"
                                  [] call[c] = "read" -> "dead"
                                  [] OTHER -> call[c]]
  /\ answer' = [c \in Callers |-> IF call[c] = "wait" THEN Told(FALSE) ELSE answer[c]]
  /\ late' = {}
  /\ UNCHANGED <<scene, count>>

Next ==
  \/ \E c \in Callers : \/ Posts(c) \/ Calls(c, "read") \/ Calls(c, "wait") \/ TimeIsUp(c)
                        \/ TakesEffect(c) \/ ReadReturns(c) \/ WaitReturns(c)
  \/ Stops

Spec == Init /\ [][Next]_vars
=============================================================================
