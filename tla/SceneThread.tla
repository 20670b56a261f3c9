---------------------------- MODULE SceneThread ----------------------------
(***************************************************************************)
(* The scene-owner thread (crates/core/src/scene/thread.rs): the one       *)
(* mailbox that everyone who holds a SceneHandle sends to, run_scene's     *)
(* loop with its single parked waiter, and SceneThread's drop.             *)
(*                                                                         *)
(* A message carries its sender, which Rust hides in the reply channel.    *)
(* The scene is the set of its live surfaces and a condition is a value    *)
(* of surface_count(), as in the callers' tests.  Time is only whether a   *)
(* wait's deadline has passed.  A send on a closed channel is a no-op for  *)
(* a post and a panic of the caller for a call.  SceneThread keeps a       *)
(* handle of its own until the thread is joined, so the channel is never   *)
(* disconnected and the loop ends by Shutdown alone.                       *)
(***************************************************************************)
EXTENDS Integers, Sequences, FiniteSets

CONSTANTS
  Callers,        \* the threads that hold a handle
  Surfaces,
  Counts,         \* the surface counts they wait for
  NoWaiter,
  MaxMailbox      \* bound of the model: messages in the channel

Post == [op : {"create", "destroy"}, surface : Surfaces]
Shutdown == [from |-> NoWaiter, op |-> "shutdown"]

ASSUME SceneThreadAssumption ==
  /\ NoWaiter \notin Callers
  /\ Counts \subseteq Nat
  /\ MaxMailbox \in Nat

VARIABLES
  scene,          \* the live surfaces of the canonical Scene
  mailbox,        \* the channel
  waiter,         \* the caller whose WaitUntil is parked
  running,        \* run_scene has not returned
  dropping,       \* SceneThread is being dropped
  call,           \* what each caller is blocked in; "dead" is a panic
  count,          \* the condition of its last wait
  late,           \* the waiting callers whose deadline has passed
  answer          \* what its last call returned

callers == <<call, count, late, answer>>
vars == <<scene, mailbox, waiter, running, dropping, callers>>

NoAnswer == [none |-> TRUE]
Saw(sc) == [saw |-> sc]
Told(b) == [told |-> b]

Init ==
  /\ scene = {} /\ mailbox = <<>> /\ waiter = NoWaiter
  /\ running = TRUE /\ dropping = FALSE
  /\ call = [c \in Callers |-> "none"] /\ late = {}
  /\ count \in [Callers -> Counts]
  /\ answer = [c \in Callers |-> NoAnswer]

Holds(c, sc) == Cardinality(sc) = count[c]

-----------------------------------------------------------------------------
(* The callers: SceneHandle's methods.                                       *)

Free(c) == call[c] = "none" /\ Len(mailbox) < MaxMailbox

(* Mutant of emit: events overtake what is already in the channel.           *)
EmitFirst(c) ==
  /\ Free(c)
  /\ \E p \in Post :
       mailbox' = IF running THEN <<[from |-> c, op |-> p.op, surface |-> p.surface]>> \o mailbox
                             ELSE mailbox
  /\ UNCHANGED <<scene, waiter, running, dropping, callers>>

(* emit, mutate, place_solid: sent and forgotten.                            *)
Emit(c) ==
  /\ Free(c)
  /\ \E p \in Post :
       mailbox' = IF running
                  THEN Append(mailbox, [from |-> c, op |-> p.op, surface |-> p.surface])
                  ELSE mailbox
  /\ UNCHANGED <<scene, waiter, running, dropping, callers>>

(* The caller blocks on the reply; without a scene thread it panics.         *)
Calls(c, kind) ==
  /\ Free(c)
  /\ IF running THEN mailbox' = Append(mailbox, [from |-> c, op |-> kind])
                ELSE UNCHANGED mailbox
  /\ call' = [call EXCEPT ![c] = IF running THEN kind ELSE "dead"]
  /\ answer' = [answer EXCEPT ![c] = NoAnswer]
  /\ UNCHANGED <<scene, waiter, running, dropping, late>>

(* snapshot and query.                                                       *)
Read(c) == Calls(c, "read") /\ UNCHANGED count

WaitUntil(c) ==
  /\ Calls(c, "wait")
  /\ \E n \in Counts : count' = [count EXCEPT ![c] = n]

DeadlinePasses(c) ==
  /\ call[c] = "wait" /\ c \notin late
  /\ late' = late \cup {c}
  /\ UNCHANGED <<scene, mailbox, waiter, running, dropping, call, count, answer>>

(* SceneThread's drop; its join returns once `running` is FALSE.             *)
DropOwner ==
  /\ ~dropping /\ dropping' = TRUE
  /\ mailbox' = IF running THEN Append(mailbox, Shutdown) ELSE mailbox
  /\ UNCHANGED <<scene, waiter, running, callers>>

-----------------------------------------------------------------------------
(* run_scene.                                                                *)

(* The replies in a step of the loop: `who` returns, each with its value.    *)
Reply(who, value(_)) ==
  /\ call' = [c \in Callers |-> IF c \in who THEN "none" ELSE call[c]]
  /\ answer' = [c \in Callers |-> IF c \in who THEN value(c) ELSE answer[c]]
  /\ late' = late \ who
  /\ UNCHANGED count

(* The check that ends each turn: with `parked` in the slot and `replied`    *)
(* answered by the message itself, a parked condition that holds is answered.*)
Settle(parked, replied, value(_)) ==
  IF parked # NoWaiter /\ Holds(parked, scene')
  THEN /\ waiter' = NoWaiter
       /\ Reply(replied \cup {parked}, LAMBDA c : IF c = parked THEN Told(TRUE) ELSE value(c))
  ELSE /\ waiter' = parked
       /\ Reply(replied, value)

(* The next message, once the deadline of the parked waiter is not past.  A  *)
(* deadline that passes between that look and the message passes after it.   *)
Received(ops) ==
  /\ running /\ waiter \notin late
  /\ mailbox # <<>> /\ Head(mailbox).op \in ops
  /\ mailbox' = Tail(mailbox)
  /\ UNCHANGED <<running, dropping>>

m == Head(mailbox)

Applied == IF m.op = "create" THEN scene \cup {m.surface} ELSE scene \ {m.surface}

(* Mutant of the check after each message: there is none.                    *)
ServePostUnchecked ==
  /\ Received({"create", "destroy"})
  /\ scene' = Applied
  /\ UNCHANGED <<waiter, callers>>

ServePost ==
  /\ Received({"create", "destroy"})
  /\ scene' = Applied
  /\ Settle(waiter, {}, LAMBDA c : Told(TRUE))

ServeRead ==
  /\ Received({"read"}) /\ UNCHANGED scene
  /\ Settle(waiter, {m.from}, LAMBDA c : Saw(scene))

ServeWaitMet ==
  /\ Received({"wait"}) /\ Holds(m.from, scene) /\ UNCHANGED scene
  /\ Settle(waiter, {m.from}, LAMBDA c : Told(TRUE))

(* Mutant of a wait that has to park: the one it replaces is never told.     *)
ParkUntold ==
  /\ Received({"wait"}) /\ ~Holds(m.from, scene) /\ UNCHANGED scene
  /\ Settle(m.from, {}, LAMBDA c : Told(FALSE))

(* It takes the slot.  The waiter it finds there loses its reply channel,    *)
(* and its caller reads false.                                               *)
Park ==
  /\ Received({"wait"}) /\ ~Holds(m.from, scene) /\ UNCHANGED scene
  /\ Settle(m.from, {waiter} \ {NoWaiter}, LAMBDA c : Told(FALSE))

(* The top of the loop, or recv_timeout, finds the deadline past.            *)
Expire ==
  /\ running /\ waiter \in late
  /\ Reply({waiter}, LAMBDA c : Told(Holds(c, scene)))
  /\ waiter' = NoWaiter
  /\ UNCHANGED <<scene, mailbox, running, dropping>>

(* Mutant of Shutdown: the loop ends, and the channel outlives it.           *)
StopAlone ==
  /\ running /\ waiter \notin late
  /\ mailbox # <<>> /\ m = Shutdown
  /\ running' = FALSE /\ mailbox' = Tail(mailbox)
  /\ UNCHANGED <<scene, waiter, dropping, callers>>

(* Shutdown: the receiver goes, and with it every reply channel in a message *)
(* or in the slot.                                                           *)
Stop ==
  /\ running /\ waiter \notin late
  /\ mailbox # <<>> /\ m = Shutdown
  /\ running' = FALSE /\ mailbox' = <<>> /\ waiter' = NoWaiter
  /\ call' = [c \in Callers |-> CASE call[c] = "wait" -> "none"
                                  [] call[c] = "read" -> "dead"
                                  [] OTHER -> call[c]]
  /\ answer' = [c \in Callers |-> IF call[c] = "wait" THEN Told(FALSE) ELSE answer[c]]
  /\ late' = {}
  /\ UNCHANGED <<scene, dropping, count>>

Serve == ServePost \/ ServeRead \/ ServeWaitMet \/ Park \/ Expire \/ Stop

Next ==
  \/ \E c \in Callers : Emit(c) \/ Read(c) \/ WaitUntil(c) \/ DeadlinePasses(c)
  \/ DropOwner
  \/ Serve

Spec == Init /\ [][Next]_vars

(* The scene thread runs, and time passes.  Nothing is assumed of callers.   *)
Fairness == WF_vars(Serve) /\ \A c \in Callers : WF_vars(DeadlinePasses(c))

FairSpec == Spec /\ Fairness

-----------------------------------------------------------------------------
(* Properties.                                                               *)

Message == [from : Callers, op : {"read", "wait"}]
             \cup [from : Callers, op : {"create", "destroy"}, surface : Surfaces]
             \cup {Shutdown}

(* Every variable holds what its Rust type can hold; only a wait has a       *)
(* deadline; and nothing outlives the thread in its channel or its slot.     *)
TypeOK ==
  /\ scene \subseteq Surfaces
  /\ mailbox \in Seq(Message)
  /\ waiter \in Callers \cup {NoWaiter}
  /\ running \in BOOLEAN /\ dropping \in BOOLEAN
  /\ call \in [Callers -> {"none", "read", "wait", "dead"}]
  /\ count \in [Callers -> Counts]
  /\ late \subseteq {c \in Callers : call[c] = "wait"}
  /\ ~running => mailbox = <<>> /\ waiter = NoWaiter
  /\ answer \in [Callers -> {NoAnswer} \cup [told : BOOLEAN] \cup [saw : SUBSET Surfaces]]

InMailbox(c) == {i \in 1..Len(mailbox) : mailbox[i].from = c /\ mailbox[i].op \in {"read", "wait"}}

(* thread.rs: "Reply `true` as soon as `pred` holds".  Between two messages  *)
(* the parked condition is false: no change of the scene, whoever made it,   *)
(* leaves a waiter asleep on a condition that holds.                         *)
ParkedIsFalse == waiter # NoWaiter => ~Holds(waiter, scene)

(* A caller is blocked exactly while its one request is in the channel or    *)
(* parked: no request is answered twice, and none is lost with a caller      *)
(* still blocked on it.                                                      *)
BlockedIsHeard ==
  \A c \in Callers :
    Cardinality(InMailbox(c)) + (IF waiter = c THEN 1 ELSE 0)
      = (IF call[c] \in {"read", "wait"} THEN 1 ELSE 0)

(* A caller's posts among the messages of a channel, in their order.         *)
PostsIn(box, c) ==
  LET own[i \in 0..Len(box)] ==
        IF i = 0 THEN <<>>
        ELSE IF box[i].from = c /\ box[i].op \in {"create", "destroy"}
             THEN Append(own[i - 1], [op |-> box[i].op, surface |-> box[i].surface])
             ELSE own[i - 1]
  IN  own[Len(box)]

PostsOf(c) == PostsIn(mailbox, c)

(* The mailbox and the loop implement the scene that SceneHandle promises:   *)
(* a caller's posts in order, reads that have seen them, waits that answer   *)
(* what is so.                                                               *)
Atomic == INSTANCE AtomicScene WITH
            pending <- [c \in Callers |-> PostsOf(c)],
            stopped <- ~running
ImplementsAtomicScene == Atomic!Spec

(* Every snapshot, query and wait returns, or panics for want of a scene     *)
(* thread, whoever else keeps posting, waiting or dropping the scene.        *)
EveryCallReturns ==
  \A c \in Callers : call[c] \in {"read", "wait"} ~> call[c] \in {"none", "dead"}
=============================================================================
