------------------------- MODULE SceneThreadProofs -------------------------
(***************************************************************************)
(* Proofs about SceneThread, for every number of callers and surfaces and  *)
(* every length of the channel: the types, that a caller is blocked        *)
(* exactly while its one request is in the channel or parked, and that the *)
(* scene thread never sleeps over a parked condition that holds.           *)
(***************************************************************************)
EXTENDS SceneThread, Recursion, FiniteSetTheorems, TLAPS

Calling == {"read", "wait"}
Answers == {NoAnswer} \cup [told : BOOLEAN] \cup [saw : SUBSET Surfaces]

(* The caller of every request is blocked in it, and in no other: what the   *)
(* parked condition needs to stay the one that was parked.                   *)
Heard ==
  /\ waiter # NoWaiter => call[waiter] = "wait"
  /\ \A i \in 1..Len(mailbox) :
       mailbox[i].op \in Calling =>
         /\ call[mailbox[i].from] = mailbox[i].op
         /\ mailbox[i].from # waiter
         /\ \A j \in 1..Len(mailbox) :
              mailbox[j].op \in Calling /\ j # i => mailbox[j].from # mailbox[i].from

(* What a message of each kind is.                                           *)
LEMMA MessageKinds ==
  ASSUME NEW x \in Message
  PROVE  /\ x.op \in Calling => x.from \in Callers
         /\ x.op \in {"create", "destroy"} => x.from \in Callers /\ x.surface \in Surfaces
         /\ x.op = "shutdown" <=> x = Shutdown
BY DEF Message, Shutdown, Calling

(* The message that is served, and what it leaves in the channel.            *)
LEMMA HeadAndTail ==
  ASSUME TypeOK, mailbox # <<>>
  PROVE  /\ m \in Message /\ m = mailbox[1] /\ 1 \in 1..Len(mailbox)
         /\ Tail(mailbox) \in Seq(Message)
         /\ \A i \in 1..Len(Tail(mailbox)) : /\ i + 1 \in 1..Len(mailbox) /\ i + 1 # 1
                                             /\ Tail(mailbox)[i] = mailbox[i + 1]
         /\ \A i, j \in 1..Len(Tail(mailbox)) : i # j => i + 1 # j + 1
BY DEF TypeOK, m

(* A step that takes a message and answers the callers in `who`.             *)
Turn(who, parked) ==
  /\ waiter' = parked
  /\ call' = [c \in Callers |-> IF c \in who THEN "none" ELSE call[c]]
  /\ late' = late \ who
  /\ count' = count
  /\ \A c \in Callers : answer'[c] = answer[c] \/ answer'[c] \in Answers
  /\ DOMAIN answer' = Callers /\ answer' = [c \in Callers |-> answer'[c]]

(* Settle is such a step, for one of two sets of callers.                    *)
LEMMA SettleTurns ==
  ASSUME TypeOK, scene' \in SUBSET Surfaces,
         NEW parked \in Callers \cup {NoWaiter}, NEW replied \in SUBSET Callers,
         NEW v \in Answers,
         Settle(parked, replied, LAMBDA c : v)
  PROVE  \/ /\ parked # NoWaiter /\ Holds(parked, scene')
            /\ Turn(replied \cup {parked}, NoWaiter)
         \/ /\ parked = NoWaiter \/ ~Holds(parked, scene')
            /\ Turn(replied, parked)
<1>1. CASE parked # NoWaiter /\ Holds(parked, scene')
  <2>1. /\ waiter' = NoWaiter
        /\ Reply(replied \cup {parked}, LAMBDA c : IF c = parked THEN Told(TRUE) ELSE v)
    BY <1>1 DEF Settle
  <2>2. Told(TRUE) \in Answers
    BY DEF Told, Answers
  <2> QED
    BY <1>1, <2>1, <2>2 DEF Reply, Turn
<1>2. CASE ~(parked # NoWaiter /\ Holds(parked, scene'))
  <2>1. waiter' = parked /\ Reply(replied, LAMBDA c : v)
    BY <1>2 DEF Settle
  <2> QED
    BY <1>2, <2>1 DEF Reply, Turn
<1> QED
  BY <1>1, <1>2

(* Whom a turn of the loop answers or leaves parked: the waiter it found,    *)
(* and the caller of the request it serves.                                  *)
Served(c) == c = waiter \/ (m.op \in Calling /\ c = m.from)

Turned ==
  \E who \in SUBSET Callers : \E parked \in Callers \cup {NoWaiter} :
    /\ Turn(who, parked)
    /\ \A c \in who : Served(c)
    /\ \A c \in Callers : Served(c) => c \in who \/ c = parked
    /\ parked # NoWaiter => /\ Served(parked) /\ parked \notin who
                            /\ parked = waiter \/ m.op = "wait"
                            /\ ~Holds(parked, scene')

Handler == ServePost \/ ServeRead \/ ServeWaitMet \/ Park

(* Each of the four handlers is such a turn.                                 *)
LEMMA HandlersTurn ==
  ASSUME TypeOK, Heard, Handler
  PROVE  /\ Turned /\ scene' \in SUBSET Surfaces
         /\ running /\ mailbox # <<>> /\ mailbox' = Tail(mailbox)
         /\ UNCHANGED <<running, dropping>>
<1> USE SceneThreadAssumption
<1>1. /\ running /\ mailbox # <<>> /\ mailbox' = Tail(mailbox)
      /\ UNCHANGED <<running, dropping>>
  BY DEF Handler, ServePost, ServeRead, ServeWaitMet, Park, Received
<1>2. /\ m \in Message /\ m = mailbox[1] /\ 1 \in 1..Len(mailbox)
      /\ waiter \in Callers \cup {NoWaiter} /\ scene \in SUBSET Surfaces
  BY <1>1, HeadAndTail DEF TypeOK
<1>3. m.op \in Calling => m.from \in Callers /\ m.from # waiter
  BY <1>2, MessageKinds DEF Heard
<1>4. /\ Told(TRUE) \in Answers /\ Told(FALSE) \in Answers /\ Saw(scene) \in Answers
  BY <1>2 DEF Told, Saw, Answers
<1>5. CASE ServePost
  <2>1. m.op \in {"create", "destroy"}
    BY <1>5 DEF ServePost, Received, m
  <2>2. scene' \in SUBSET Surfaces
    BY <1>5, <1>2, <2>1, MessageKinds DEF ServePost, Applied
  <2>3. Settle(waiter, {}, LAMBDA c : Told(TRUE))
    BY <1>5 DEF ServePost
  <2>4. \/ waiter # NoWaiter /\ Turn({} \cup {waiter}, NoWaiter)
        \/ (waiter = NoWaiter \/ ~Holds(waiter, scene')) /\ Turn({}, waiter)
    BY <2>2, <2>3, <1>2, <1>4, SettleTurns
  <2>5. m.op \notin Calling
    BY <2>1 DEF Calling
  <2>6. ASSUME waiter # NoWaiter, Turn({} \cup {waiter}, NoWaiter) PROVE Turned
    BY <1>2, <2>5, <2>6 DEF Turned, Served
  <2>7. ASSUME waiter = NoWaiter \/ ~Holds(waiter, scene'), Turn({}, waiter) PROVE Turned
    <3>1. \A c \in Callers : Served(c) => c = waiter
      BY <2>5 DEF Served
    <3>2. Served(waiter) /\ {} \in SUBSET Callers
      BY DEF Served
    <3> QED
      BY <1>2, <2>7, <3>1, <3>2 DEF Turned
  <2> QED
    BY <1>1, <2>2, <2>4, <2>6, <2>7
<1>6. CASE ServeRead \/ ServeWaitMet
  <2>1. m.op \in Calling /\ scene' = scene
    BY <1>6 DEF ServeRead, ServeWaitMet, Received, m, Calling
  <2>2. \E v \in Answers : Settle(waiter, {m.from}, LAMBDA c : v)
    BY <1>6, <1>4 DEF ServeRead, ServeWaitMet
  <2>3. {m.from} \in SUBSET Callers /\ m.from # waiter
    BY <2>1, <1>3
  <2>4. \/ waiter # NoWaiter /\ Turn({m.from} \cup {waiter}, NoWaiter)
        \/ (waiter = NoWaiter \/ ~Holds(waiter, scene')) /\ Turn({m.from}, waiter)
    BY <2>1, <2>2, <2>3, <1>2, SettleTurns
  <2> QED
    BY <1>1, <1>2, <2>1, <2>3, <2>4 DEF Turned, Served
<1>7. CASE Park
  <2>1. m.op = "wait" /\ scene' = scene
    BY <1>7 DEF Park, Received, m
  <2>2. Settle(m.from, {waiter} \ {NoWaiter}, LAMBDA c : Told(FALSE))
    BY <1>7 DEF Park
  <2>3. m.from \in Callers /\ m.from # waiter /\ m.op \in Calling
    BY <2>1, <1>3 DEF Calling
  <2>4. {waiter} \ {NoWaiter} \in SUBSET Callers
    BY <1>2
  <2>5. \/ Turn(({waiter} \ {NoWaiter}) \cup {m.from}, NoWaiter)
        \/ ~Holds(m.from, scene') /\ Turn({waiter} \ {NoWaiter}, m.from)
    BY <2>1, <2>2, <2>3, <2>4, <1>2, <1>4, SettleTurns
  <2> QED
    BY <1>1, <1>2, <2>1, <2>3, <2>4, <2>5 DEF Turned, Served
<1> QED
  BY <1>5, <1>6, <1>7 DEF Handler

(* What a turn, or an expiry, leaves of the callers' types.                  *)
LEMMA TurnType ==
  ASSUME TypeOK, NEW who \in SUBSET Callers, NEW parked \in Callers \cup {NoWaiter},
         Turn(who, parked)
  PROVE  /\ waiter' \in Callers \cup {NoWaiter}
         /\ call' \in [Callers -> {"none", "read", "wait", "dead"}]
         /\ count' \in [Callers -> Counts]
         /\ late' \subseteq {c \in Callers : call'[c] = "wait"}
         /\ answer' \in [Callers -> Answers]
<1>1. answer' \in [Callers -> Answers]
  BY DEF TypeOK, Turn, Answers
<1> QED
  BY <1>1 DEF TypeOK, Turn

-----------------------------------------------------------------------------
(* What the callers' own steps do to the channel.                            *)
LEMMA SendType ==
  ASSUME TypeOK, NEW x \in Message,
         mailbox' = Append(mailbox, x) \/ mailbox' = mailbox
  PROVE  mailbox' \in Seq(Message)
BY DEF TypeOK

LEMMA NextType == TypeOK /\ Heard /\ [Next]_vars => TypeOK'
<1> SUFFICES ASSUME TypeOK, Heard, [Next]_vars PROVE TypeOK'
  OBVIOUS
<1> USE SceneThreadAssumption
<1>1. ASSUME NEW c \in Callers, Emit(c) PROVE TypeOK'
  <2>1. PICK p \in Post :
          mailbox' = IF running
                     THEN Append(mailbox, [from |-> c, op |-> p.op, surface |-> p.surface])
                     ELSE mailbox
    BY <1>1 DEF Emit
  <2>2. [from |-> c, op |-> p.op, surface |-> p.surface] \in Message
    BY DEF Message, Post
  <2>3. mailbox' \in Seq(Message) /\ (~running => mailbox' = mailbox)
    BY <2>1, <2>2, SendType
  <2> QED
    BY <1>1, <2>3 DEF Emit, TypeOK, callers
<1>2. ASSUME NEW c \in Callers, NEW kind \in Calling, Calls(c, kind),
             count' \in [Callers -> Counts]
      PROVE  TypeOK'
  <2>1. [from |-> c, op |-> kind] \in Message
    BY DEF Message, Calling
  <2>2. mailbox' \in Seq(Message) /\ (~running => mailbox' = mailbox)
    BY <1>2, <2>1, SendType DEF Calls
  <2>3. late' \subseteq {d \in Callers : call'[d] = "wait"}
    BY <1>2 DEF Calls, Free, TypeOK
  <2>4. /\ call' \in [Callers -> {"none", "read", "wait", "dead"}]
        /\ answer' \in [Callers -> {NoAnswer} \cup [told : BOOLEAN] \cup [saw : SUBSET Surfaces]]
    BY <1>2 DEF Calls, TypeOK, Calling
  <2> QED
    BY <1>2, <2>2, <2>3, <2>4 DEF Calls, TypeOK
<1>3. ASSUME NEW c \in Callers, Read(c) PROVE TypeOK'
  BY <1>2, <1>3 DEF Read, Calling, TypeOK
<1>4. ASSUME NEW c \in Callers, WaitUntil(c) PROVE TypeOK'
  <2>1. count' \in [Callers -> Counts]
    BY <1>4 DEF WaitUntil, TypeOK
  <2> QED
    BY <1>2, <1>4, <2>1 DEF WaitUntil, Calling
<1>5. ASSUME NEW c \in Callers, DeadlinePasses(c) PROVE TypeOK'
  BY <1>5 DEF DeadlinePasses, TypeOK
<1>6. CASE DropOwner
  <2>1. Shutdown \in Message
    BY DEF Message
  <2>2. mailbox' \in Seq(Message) /\ (~running => mailbox' = mailbox)
    BY <1>6, <2>1, SendType DEF DropOwner
  <2> QED
    BY <1>6, <2>2 DEF DropOwner, TypeOK, callers
<1>7. CASE Handler
  <2>1. /\ Turned /\ scene' \in SUBSET Surfaces
        /\ running /\ mailbox # <<>> /\ mailbox' = Tail(mailbox)
        /\ UNCHANGED <<running, dropping>>
    BY <1>7, HandlersTurn
  <2>2. PICK who \in SUBSET Callers, parked \in Callers \cup {NoWaiter} : Turn(who, parked)
    BY <2>1 DEF Turned
  <2>3. mailbox' \in Seq(Message)
    BY <2>1, HeadAndTail
  <2>4. /\ waiter' \in Callers \cup {NoWaiter}
        /\ call' \in [Callers -> {"none", "read", "wait", "dead"}]
        /\ count' \in [Callers -> Counts]
        /\ late' \subseteq {c \in Callers : call'[c] = "wait"}
        /\ answer' \in [Callers -> Answers]
    BY <2>2, TurnType
  <2>5. /\ scene' \subseteq Surfaces /\ running' \in BOOLEAN /\ dropping' \in BOOLEAN
        /\ ~running' => mailbox' = <<>> /\ waiter' = NoWaiter
    BY <2>1 DEF TypeOK
  <2> QED
    BY <2>3, <2>4, <2>5 DEF TypeOK, Answers
<1>8. CASE Expire
  <2>1. waiter \in Callers /\ Told(Holds(waiter, scene)) \in Answers
    BY <1>8 DEF Expire, TypeOK, Told, Answers, Holds
  <2>2. Turn({waiter}, NoWaiter)
    BY <1>8, <2>1 DEF Expire, Reply, Turn
  <2>3. {waiter} \in SUBSET Callers /\ NoWaiter \in Callers \cup {NoWaiter}
    BY <2>1
  <2>4. /\ waiter' \in Callers \cup {NoWaiter}
        /\ call' \in [Callers -> {"none", "read", "wait", "dead"}]
        /\ count' \in [Callers -> Counts]
        /\ late' \subseteq {c \in Callers : call'[c] = "wait"}
        /\ answer' \in [Callers -> Answers]
    BY <2>2, <2>3, TurnType
  <2> QED
    BY <1>8, <2>4 DEF Expire, TypeOK, Answers
<1>9. CASE Stop
  <2>1. /\ call' \in [Callers -> {"none", "read", "wait", "dead"}]
        /\ answer' \in [Callers -> {NoAnswer} \cup [told : BOOLEAN] \cup [saw : SUBSET Surfaces]]
    BY <1>9 DEF Stop, TypeOK, Told
  <2>2. mailbox' \in Seq(Message) /\ late' \subseteq {c \in Callers : call'[c] = "wait"}
    BY <1>9 DEF Stop
  <2>3. /\ ~running' => mailbox' = <<>> /\ waiter' = NoWaiter
        /\ running' \in BOOLEAN /\ dropping' \in BOOLEAN /\ scene' \subseteq Surfaces
        /\ waiter' \in Callers \cup {NoWaiter} /\ count' \in [Callers -> Counts]
    BY <1>9 DEF Stop, TypeOK
  <2> QED
    BY <2>1, <2>2, <2>3 DEF TypeOK
<1>10. CASE UNCHANGED vars
  BY <1>10 DEF vars, callers, TypeOK
<1> QED
  BY <1>1, <1>3, <1>4, <1>5, <1>6, <1>7, <1>8, <1>9, <1>10 DEF Next, Serve, Handler

(* Requests stay with the callers that are blocked in them.                  *)
LEMMA NextHeard == TypeOK /\ Heard /\ [Next]_vars => Heard'
<1> SUFFICES ASSUME TypeOK, Heard, [Next]_vars PROVE Heard'
  OBVIOUS
<1> USE SceneThreadAssumption
<1>0. mailbox \in Seq(Message) /\ waiter \in Callers \cup {NoWaiter}
      /\ call \in [Callers -> {"none", "read", "wait", "dead"}]
  BY DEF TypeOK
<1>1. \A i \in 1..Len(mailbox) : mailbox[i].op \in Calling => mailbox[i].from \in Callers
  BY <1>0, MessageKinds
<1>2. ASSUME NEW x \in Message, x.op \notin Calling,
             mailbox' = Append(mailbox, x) \/ mailbox' = mailbox,
             UNCHANGED <<waiter, call>>
      PROVE  Heard'
  <2>1. \A i \in 1..Len(mailbox') : mailbox'[i].op \in Calling =>
          i \in 1..Len(mailbox) /\ mailbox'[i] = mailbox[i]
    BY <1>0, <1>2
  <2> QED
    BY <1>2, <2>1 DEF Heard
<1>3. ASSUME NEW c \in Callers, NEW kind \in Calling, Calls(c, kind) PROVE Heard'
  <2>1. /\ call[c] = "none" /\ waiter' = waiter
        /\ call' = [call EXCEPT ![c] = IF running THEN kind ELSE "dead"]
    BY <1>3 DEF Calls, Free
  <2>2. waiter # c /\ \A i \in 1..Len(mailbox) : mailbox[i].op \in Calling => mailbox[i].from # c
    BY <2>1 DEF Heard, Calling
  <2>3. CASE ~running
    <3>1. mailbox' = mailbox
      BY <1>3, <2>3 DEF Calls
    <3> QED
      BY <2>1, <2>2, <3>1, <1>0, <1>1 DEF Heard
  <2>4. CASE running
    <3> DEFINE x == [from |-> c, op |-> kind]
    <3>1. mailbox' = Append(mailbox, x) /\ x.from = c /\ x.op = kind
      BY <1>3, <2>4 DEF Calls
    <3> HIDE DEF x
    <3>2. /\ Len(mailbox') = Len(mailbox) + 1 /\ Len(mailbox) \in Nat
          /\ mailbox'[Len(mailbox) + 1] = x
          /\ \A i \in 1..Len(mailbox) : mailbox'[i] = mailbox[i]
      BY <1>0, <3>1
    <3>3. \A i \in 1..Len(mailbox') : i \in 1..Len(mailbox) \/ i = Len(mailbox) + 1
      BY <3>2
    <3>4. call'[c] = kind /\ \A d \in Callers : d # c => call'[d] = call[d]
      BY <2>1, <2>4, <1>0
    <3>5. waiter' # NoWaiter => call'[waiter'] = "wait"
      BY <2>1, <2>2, <3>4, <1>0 DEF Heard
    <3>6. ASSUME NEW i \in 1..Len(mailbox'), mailbox'[i].op \in Calling
          PROVE  /\ call'[mailbox'[i].from] = mailbox'[i].op
                 /\ mailbox'[i].from # waiter'
      BY <2>1, <2>2, <3>1, <3>2, <3>3, <3>4, <3>6, <1>1 DEF Heard
    <3>7. ASSUME NEW i \in 1..Len(mailbox'), mailbox'[i].op \in Calling,
                 NEW j \in 1..Len(mailbox'), mailbox'[j].op \in Calling, j # i
          PROVE  mailbox'[j].from # mailbox'[i].from
      BY <2>2, <3>1, <3>2, <3>3, <3>7 DEF Heard
    <3> QED
      BY <3>5, <3>6, <3>7 DEF Heard
  <2> QED
    BY <2>3, <2>4
<1>4. CASE Handler
  <2>1. /\ Turned /\ mailbox # <<>> /\ mailbox' = Tail(mailbox)
    BY <1>4, HandlersTurn
  <2>2. PICK who \in SUBSET Callers, parked \in Callers \cup {NoWaiter} :
          /\ Turn(who, parked)
          /\ \A c \in who : Served(c)
          /\ parked # NoWaiter => /\ Served(parked) /\ parked \notin who
                                  /\ parked = waiter \/ m.op = "wait"
    BY <2>1 DEF Turned
  <2>3. waiter' = parked /\ \A c \in Callers : c \notin who => call'[c] = call[c]
    BY <2>2 DEF Turn
  <2>9. /\ \A c \in who : Served(c)
        /\ parked # NoWaiter => /\ Served(parked) /\ parked \notin who
                                /\ parked = waiter \/ m.op = "wait"
    BY <2>2
  <2>4. m = mailbox[1] /\ 1 \in 1..Len(mailbox)
    BY <2>1, HeadAndTail
  <2>5. waiter' # NoWaiter => call'[waiter'] = "wait"
    <3>1. CASE parked = NoWaiter
      BY <2>3, <3>1
    <3>2. CASE parked # NoWaiter /\ parked = waiter
      <4>1. parked \in Callers /\ parked \notin who
        BY <2>9, <3>2
      <4>2. call[parked] = "wait"
        BY <3>2 DEF Heard
      <4> QED
        BY <2>3, <4>1, <4>2
    <3>3. CASE parked # NoWaiter /\ parked # waiter
      <4>1. parked = m.from /\ m.op = "wait" /\ parked \in Callers /\ parked \notin who
        BY <2>9, <3>3, <1>0 DEF Served
      <4>2. call[parked] = "wait"
        BY <2>4, <4>1 DEF Heard, Calling
      <4> QED
        BY <2>3, <4>1, <4>2
    <3> QED
      BY <3>1, <3>2, <3>3
  <2>6. ASSUME NEW i \in 1..Len(mailbox'), mailbox'[i].op \in Calling
        PROVE  /\ i + 1 \in 1..Len(mailbox) /\ mailbox'[i] = mailbox[i + 1]
               /\ mailbox'[i].from \in Callers /\ ~Served(mailbox'[i].from)
    <3>1. i + 1 \in 1..Len(mailbox) /\ i + 1 # 1 /\ mailbox'[i] = mailbox[i + 1]
      BY <2>1, HeadAndTail
    <3> QED
      BY <3>1, <2>4, <2>6, <1>1 DEF Served, Heard
  <2>7. ASSUME NEW i \in 1..Len(mailbox'), mailbox'[i].op \in Calling
        PROVE  /\ call'[mailbox'[i].from] = mailbox'[i].op
               /\ mailbox'[i].from # waiter'
    <3> DEFINE c == mailbox'[i].from
    <3>0. c \in Callers /\ ~Served(c)
      BY <2>6, <2>7
    <3> HIDE DEF c
    <3>1. c \notin who /\ c # parked
      BY <2>9, <3>0, <1>0
    <3> USE DEF c
    <3> QED
      BY <2>3, <2>6, <2>7, <3>1 DEF Heard
  <2>8. ASSUME NEW i \in 1..Len(mailbox'), mailbox'[i].op \in Calling,
               NEW j \in 1..Len(mailbox'), mailbox'[j].op \in Calling, j # i
        PROVE  mailbox'[j].from # mailbox'[i].from
    <3>1. i + 1 # j + 1
      BY <2>8
    <3> QED
      BY <2>6, <2>8, <3>1 DEF Heard
  <2> QED
    BY <2>5, <2>7, <2>8 DEF Heard
<1>5. CASE Expire
  <2>1. /\ mailbox' = mailbox /\ waiter' = NoWaiter
        /\ call' = [c \in Callers |-> IF c = waiter THEN "none" ELSE call[c]]
    BY <1>5 DEF Expire, Reply
  <2> QED
    BY <2>1, <1>1 DEF Heard
<1>6. CASE Stop
  BY <1>6 DEF Stop, Heard
<1>7. ASSUME NEW c \in Callers, Emit(c) PROVE Heard'
  <2>1. PICK p \in Post :
          mailbox' = IF running
                     THEN Append(mailbox, [from |-> c, op |-> p.op, surface |-> p.surface])
                     ELSE mailbox
    BY <1>7 DEF Emit
  <2> DEFINE x == [from |-> c, op |-> p.op, surface |-> p.surface]
  <2>2. x \in Message /\ x.op \notin Calling
    BY DEF Message, Post, Calling
  <2> QED
    BY <1>2, <1>7, <2>1, <2>2 DEF Emit, callers
<1>8. CASE DropOwner
  <2>1. Shutdown \in Message /\ Shutdown.op \notin Calling
    BY DEF Message, Shutdown, Calling
  <2> QED
    BY <1>2, <1>8, <2>1 DEF DropOwner, callers
<1>9. CASE UNCHANGED <<mailbox, waiter, call>>
  BY <1>9 DEF Heard
<1>10. (\E c \in Callers : DeadlinePasses(c)) \/ UNCHANGED vars => UNCHANGED <<mailbox, waiter, call>>
  BY DEF DeadlinePasses, vars, callers
<1> QED
  BY <1>3, <1>4, <1>5, <1>6, <1>7, <1>8, <1>9, <1>10
     DEF Next, Serve, Handler, Read, WaitUntil, Calling

(* The check that ends each turn is enough: nothing else changes the scene,  *)
(* the slot, or the condition of a caller that is blocked.                   *)
LEMMA NextParked == TypeOK /\ Heard /\ ParkedIsFalse /\ [Next]_vars => ParkedIsFalse'
<1> SUFFICES ASSUME TypeOK, Heard, ParkedIsFalse, [Next]_vars PROVE ParkedIsFalse'
  OBVIOUS
<1>1. CASE Handler
  <2>1. PICK who \in SUBSET Callers, parked \in Callers \cup {NoWaiter} :
          /\ Turn(who, parked)
          /\ parked # NoWaiter => ~Holds(parked, scene')
    BY <1>1, HandlersTurn DEF Turned
  <2> QED
    BY <2>1 DEF Turn, ParkedIsFalse, Holds
<1>2. CASE Expire \/ Stop
  BY <1>2 DEF Expire, Stop, ParkedIsFalse
<1>3. CASE UNCHANGED <<scene, waiter, count>>
  BY <1>3 DEF ParkedIsFalse, Holds
<1>4. ASSUME NEW c \in Callers, WaitUntil(c) PROVE ParkedIsFalse'
  <2>1. /\ call[c] = "none" /\ UNCHANGED <<scene, waiter>>
        /\ \E n \in Counts : count' = [count EXCEPT ![c] = n]
    BY <1>4 DEF WaitUntil, Calls, Free
  <2>2. waiter # NoWaiter => waiter # c
    BY <2>1 DEF Heard
  <2>3. waiter # NoWaiter => count'[waiter] = count[waiter]
    BY <2>1, <2>2 DEF TypeOK
  <2> QED
    BY <2>1, <2>3 DEF ParkedIsFalse, Holds
<1>5. ASSUME NEW c \in Callers, Emit(c) \/ Read(c) \/ DeadlinePasses(c)
      PROVE  UNCHANGED <<scene, waiter, count>>
  BY <1>5 DEF Emit, Read, Calls, DeadlinePasses, callers
<1>6. DropOwner \/ UNCHANGED vars => UNCHANGED <<scene, waiter, count>>
  BY DEF DropOwner, vars, callers
<1> QED
  BY <1>1, <1>2, <1>3, <1>4, <1>5, <1>6 DEF Next, Serve, Handler

(* And a blocked caller is not forgotten: its request is in the channel or   *)
(* parked.                                                                   *)
Awaited ==
  \A c \in Callers : call[c] \in Calling =>
    \/ waiter = c
    \/ \E i \in 1..Len(mailbox) : mailbox[i].op \in Calling /\ mailbox[i].from = c

(* No turn of the loop drops a request without an answer.                    *)
LEMMA NextAwaited == TypeOK /\ Heard /\ Awaited /\ [Next]_vars => Awaited'
<1> SUFFICES ASSUME TypeOK, Heard, Awaited, [Next]_vars PROVE Awaited'
  OBVIOUS
<1> USE SceneThreadAssumption
<1>0. mailbox \in Seq(Message) /\ Len(mailbox) \in Nat
      /\ call \in [Callers -> {"none", "read", "wait", "dead"}]
  BY DEF TypeOK
<1>1. ASSUME NEW x, mailbox' = Append(mailbox, x) \/ mailbox' = mailbox
      PROVE  \A i \in 1..Len(mailbox) : i \in 1..Len(mailbox') /\ mailbox'[i] = mailbox[i]
  BY <1>0, <1>1
<1>2. ASSUME NEW x, mailbox' = Append(mailbox, x) \/ mailbox' = mailbox,
             UNCHANGED <<waiter, call>>
      PROVE  Awaited'
  BY <1>1, <1>2 DEF Awaited
<1>3. ASSUME NEW c \in Callers, NEW kind \in Calling, Calls(c, kind) PROVE Awaited'
  <2>1. waiter' = waiter /\ call' = [call EXCEPT ![c] = IF running THEN kind ELSE "dead"]
    BY <1>3 DEF Calls
  <2>2. CASE ~running
    <3>1. mailbox' = mailbox
      BY <1>3, <2>2 DEF Calls
    <3> QED
      BY <1>0, <2>1, <2>2, <3>1 DEF Awaited, Calling
  <2>3. CASE running
    <3> DEFINE x == [from |-> c, op |-> kind]
    <3>1. mailbox' = Append(mailbox, x) /\ x.from = c /\ x.op \in Calling
      BY <1>3, <2>3 DEF Calls
    <3> HIDE DEF x
    <3>2. Len(mailbox) + 1 \in 1..Len(mailbox') /\ mailbox'[Len(mailbox) + 1] = x
      BY <1>0, <3>1
    <3>3. \A i \in 1..Len(mailbox) : i \in 1..Len(mailbox') /\ mailbox'[i] = mailbox[i]
      BY <1>1, <3>1
    <3>4. \A d \in Callers : d # c => call'[d] = call[d]
      BY <1>0, <2>1
    <3>5. ASSUME NEW d \in Callers, call'[d] \in Calling, d # c
          PROVE  \/ waiter' = d
                 \/ \E i \in 1..Len(mailbox') : mailbox'[i].op \in Calling /\ mailbox'[i].from = d
      BY <2>1, <3>3, <3>4, <3>5 DEF Awaited
    <3> QED
      BY <3>1, <3>2, <3>5 DEF Awaited
  <2> QED
    BY <2>2, <2>3
<1>4. CASE Handler
  <2>1. /\ Turned /\ mailbox # <<>> /\ mailbox' = Tail(mailbox)
    BY <1>4, HandlersTurn
  <2>2. PICK who \in SUBSET Callers, parked \in Callers \cup {NoWaiter} :
          /\ Turn(who, parked)
          /\ \A c \in Callers : Served(c) => c \in who \/ c = parked
    BY <2>1 DEF Turned
  <2>3. /\ waiter' = parked
        /\ \A c \in Callers : call'[c] = IF c \in who THEN "none" ELSE call[c]
    BY <2>2 DEF Turn
  <2>4. m = mailbox[1]
    BY <2>1, HeadAndTail
  <2>5. \A i \in 1..Len(mailbox) : i # 1 =>
          i - 1 \in 1..Len(mailbox') /\ mailbox'[i - 1] = mailbox[i]
    BY <1>0, <2>1
  <2>6. ASSUME NEW c \in Callers, call'[c] \in Calling, parked # c
        PROVE  \E i \in 1..Len(mailbox') : mailbox'[i].op \in Calling /\ mailbox'[i].from = c
    <3>1. c \notin who /\ call[c] \in Calling /\ ~Served(c)
      BY <2>2, <2>3, <2>6 DEF Calling
    <3>2. PICK i \in 1..Len(mailbox) : mailbox[i].op \in Calling /\ mailbox[i].from = c
      BY <3>1 DEF Served, Awaited
    <3>3. i # 1
      BY <2>4, <3>1, <3>2 DEF Served
    <3> QED
      BY <2>5, <3>2, <3>3
  <2> QED
    BY <2>3, <2>6 DEF Awaited
<1>5. CASE Expire
  <2>1. /\ mailbox' = mailbox /\ waiter' = NoWaiter
        /\ call' = [c \in Callers |-> IF c = waiter THEN "none" ELSE call[c]]
    BY <1>5 DEF Expire, Reply
  <2> QED
    BY <2>1 DEF Awaited, Calling
<1>6. CASE Stop
  <2>1. \A c \in Callers : call'[c] \notin Calling
    BY <1>6, <1>0 DEF Stop, Calling
  <2> QED
    BY <2>1 DEF Awaited
<1>7. ASSUME NEW c \in Callers, Emit(c) PROVE Awaited'
  BY <1>2, <1>7 DEF Emit, callers
<1>8. CASE DropOwner
  BY <1>2, <1>8 DEF DropOwner, callers
<1>9. CASE UNCHANGED <<mailbox, waiter, call>>
  BY <1>9 DEF Awaited
<1>10. (\E c \in Callers : DeadlinePasses(c)) \/ UNCHANGED vars => UNCHANGED <<mailbox, waiter, call>>
  BY DEF DeadlinePasses, vars, callers
<1> QED
  BY <1>3, <1>4, <1>5, <1>6, <1>7, <1>8, <1>9, <1>10
     DEF Next, Serve, Handler, Read, WaitUntil, Calling

(* Counted: one request for a caller that is blocked, none for another.      *)
LEMMA HeardOnce == TypeOK /\ Heard /\ Awaited => BlockedIsHeard
<1> SUFFICES ASSUME TypeOK, Heard, Awaited, NEW c \in Callers
             PROVE  Cardinality(InMailbox(c)) + (IF waiter = c THEN 1 ELSE 0)
                      = (IF call[c] \in {"read", "wait"} THEN 1 ELSE 0)
  BY DEF BlockedIsHeard
<1>1. waiter = c => call[c] = "wait" /\ InMailbox(c) = {}
  BY SceneThreadAssumption DEF Heard, InMailbox, Calling
<1>2. call[c] \notin Calling => InMailbox(c) = {}
  BY DEF Heard, InMailbox, Calling
<1>3. ASSUME call[c] \in Calling, waiter # c PROVE \E i : InMailbox(c) = {i}
  <2>1. PICK i \in 1..Len(mailbox) : mailbox[i].op \in Calling /\ mailbox[i].from = c
    BY <1>3 DEF Awaited
  <2>2. \A j \in 1..Len(mailbox) : mailbox[j].op \in Calling /\ mailbox[j].from = c => j = i
    BY <2>1 DEF Heard
  <2>3. InMailbox(c) = {i}
    BY <2>1, <2>2 DEF InMailbox, Calling
  <2> QED
    BY <2>3
<1>4. Cardinality({}) = 0 /\ \A i : Cardinality({i}) = 1
  BY FS_EmptySet, FS_Singleton
<1>5. CASE waiter = c
  BY <1>1, <1>4, <1>5
<1>6. CASE waiter # c /\ call[c] \in Calling
  BY <1>3, <1>4, <1>6 DEF Calling
<1>7. CASE waiter # c /\ call[c] \notin Calling
  BY <1>2, <1>4, <1>7 DEF Calling
<1> QED
  BY <1>5, <1>6, <1>7

-----------------------------------------------------------------------------
(* The refinement of AtomicScene.  First the mapping: PostsIn's recursion,   *)
(* and what a message sent or served does to it.                             *)

IsPostOf(x, c) == x.from = c /\ x.op \in {"create", "destroy"}
AsPost(x) == [op |-> x.op, surface |-> x.surface]

(* own is what PostsIn's recursion computes.                                 *)
Collects(own, box, c) ==
  /\ own[0] = <<>>
  /\ \A i \in 0..(Len(box) - 1) :
       own[i + 1] = IF IsPostOf(box[i + 1], c) THEN Append(own[i], AsPost(box[i + 1]))
                                               ELSE own[i]

LEMMA PostsAreCollected ==
  ASSUME NEW box \in Seq(Message), NEW c \in Callers
  PROVE  \E own \in [0..Len(box) -> Seq(Post)] :
           Collects(own, box, c) /\ PostsIn(box, c) = own[Len(box)]
<1> DEFINE n == Len(box)
           V == Seq(Post)
           Step(i, s) == IF IsPostOf(box[i], c) THEN Append(s, AsPost(box[i])) ELSE s
           step == [i \in 1..n |-> [s \in V |-> Step(i, s)]]
           Own(f) == [i \in 0..n |-> IF i = 0 THEN <<>> ELSE Step(i, f[i - 1])]
<1>1. n \in Nat /\ <<>> \in V
  OBVIOUS
<1>2. \A i \in 1..n : \A s \in V : Step(i, s) \in V
  <2> SUFFICES ASSUME NEW i \in 1..n, NEW s \in V, IsPostOf(box[i], c)
               PROVE  Append(s, AsPost(box[i])) \in Seq(Post)
    OBVIOUS
  <2>1. box[i] \in Message
    OBVIOUS
  <2>2. AsPost(box[i]) \in Post
    BY <2>1 DEF IsPostOf, AsPost, Message, Shutdown, Post
  <2> QED
    BY <2>2
<1> HIDE DEF n, V, Step
<1>3. Steps(n, V, step)
  BY <1>2 DEF Steps
<1>4. \A i \in 1..n : \A s \in V : step[i][s] = Step(i, s)
  OBVIOUS
<1> HIDE DEF step
<1>5. PICK f : Recursive(f, n, V, <<>>, step)
  BY <1>1, <1>3, RecursiveFunction
<1>6. \A i \in 1..n : f[i] = Step(i, f[i - 1])
  <2> SUFFICES ASSUME NEW i \in 1..n PROVE f[i] = Step(i, f[i - 1])
    OBVIOUS
  <2>1. f[i - 1] \in V
    BY <1>1, <1>5 DEF Recursive
  <2> QED
    BY <1>4, <1>5, <2>1 DEF Recursive
<1>7. f = Own(f)
  BY <1>1, <1>5, <1>6 DEF Recursive
<1> DEFINE own == CHOOSE g : g = Own(g)
<1>8. own = Own(own)
  BY <1>7
<1>9. PostsIn(box, c) = own[n]
  BY DEF PostsIn, IsPostOf, AsPost, n, Step
<1> HIDE DEF own
<1>10. own[0] = <<>> /\ \A i \in 1..n : own[i] = Step(i, own[i - 1])
  BY <1>1, <1>8
<1>11. \A i \in 1..n : own[i - 1] \in V => own[i] \in V
  BY <1>2, <1>10
<1>12. \A i \in 0..n : own[i] \in V
  BY <1>1, <1>10, <1>11, RecursionStays
<1>13. own \in [0..n -> V]
  BY <1>8, <1>12
<1>14. Collects(own, box, c)
  <2>1. \A i \in 0..(n - 1) : i + 1 \in 1..n /\ (i + 1) - 1 = i
    BY <1>1
  <2>2. \A i \in 0..(n - 1) : own[i + 1] = Step(i + 1, own[i])
    BY <1>10, <2>1
  <2> QED
    BY <1>10, <2>2 DEF Collects, n, Step
<1> QED
  BY <1>9, <1>13, <1>14 DEF n, V

LEMMA NoPosts ==
  ASSUME NEW box \in Seq(Message), NEW c \in Callers,
         \A i \in 1..Len(box) : ~IsPostOf(box[i], c)
  PROVE  PostsIn(box, c) = <<>>
<1>1. PICK own \in [0..Len(box) -> Seq(Post)] :
        Collects(own, box, c) /\ PostsIn(box, c) = own[Len(box)]
  BY PostsAreCollected
<1>2. Len(box) \in Nat /\ own[0] = <<>>
  BY <1>1 DEF Collects
<1> DEFINE T == {i \in 0..Len(box) : own[i] = <<>>}
<1>3. 0 \in T
  BY <1>2
<1>4. ASSUME NEW i \in 0..Len(box), i \in T, i < Len(box) PROVE i + 1 \in T
  <2>1. i \in 0..(Len(box) - 1) /\ i + 1 \in 1..Len(box) /\ i + 1 \in 0..Len(box)
    BY <1>2, <1>4
  <2> QED
    BY <1>1, <1>4, <2>1 DEF Collects
<1> HIDE DEF T
<1>5. \A i \in 0..Len(box) : i \in T
  BY <1>2, <1>3, <1>4, IntervalInduction
<1> QED
  BY <1>1, <1>2, <1>5 DEF T

(* A message sent last adds the sender's post last.                          *)
LEMMA PostsAppend ==
  ASSUME NEW box \in Seq(Message), NEW c \in Callers, NEW x \in Message
  PROVE  PostsIn(Append(box, x), c) =
           IF IsPostOf(x, c) THEN Append(PostsIn(box, c), AsPost(x)) ELSE PostsIn(box, c)
<1> DEFINE n == Len(box)
           longer == Append(box, x)
<1>1. PICK own \in [0..n -> Seq(Post)] : Collects(own, box, c) /\ PostsIn(box, c) = own[n]
  BY PostsAreCollected
<1>2. /\ longer \in Seq(Message) /\ Len(longer) = n + 1 /\ n \in Nat
      /\ longer[n + 1] = x /\ \A i \in 0..(n - 1) : longer[i + 1] = box[i + 1]
  OBVIOUS
<1> HIDE DEF longer
<1>3. PICK more \in [0..Len(longer) -> Seq(Post)] :
        Collects(more, longer, c) /\ PostsIn(longer, c) = more[Len(longer)]
  BY <1>2, PostsAreCollected
<1>4. (n + 1) - 1 = n /\ n \in 0..n
  BY <1>2
<1>5. /\ own[0] = <<>> /\ more[0] = <<>>
      /\ \A i \in 0..(n - 1) :
           own[i + 1] = IF IsPostOf(box[i + 1], c) THEN Append(own[i], AsPost(box[i + 1]))
                                                   ELSE own[i]
      /\ \A i \in 0..n :
           more[i + 1] = IF IsPostOf(longer[i + 1], c) THEN Append(more[i], AsPost(longer[i + 1]))
                                                       ELSE more[i]
  BY <1>1, <1>2, <1>3, <1>4 DEF Collects
<1> HIDE DEF n
<1> DEFINE T == {i \in 0..n : more[i] = own[i]}
<1>6. 0 \in T
  BY <1>2, <1>5
<1>7. ASSUME NEW i \in 0..n, i \in T, i < n PROVE i + 1 \in T
  <2>1. i \in 0..(n - 1) /\ i + 1 \in 0..n
    BY <1>2, <1>7
  <2> QED
    BY <1>2, <1>5, <1>7, <2>1
<1> HIDE DEF T
<1>8. \A i \in 0..n : i \in T
  BY <1>2, <1>6, <1>7, IntervalInduction
<1>9. more[n] = own[n]
  BY <1>4, <1>8 DEF T
<1>10. more[n + 1] = IF IsPostOf(x, c) THEN Append(more[n], AsPost(x)) ELSE more[n]
  BY <1>2, <1>4, <1>5
<1> QED
  BY <1>1, <1>2, <1>3, <1>9, <1>10 DEF longer

(* Concatenation under names of its own, for the induction below.            *)
Glue(s, t) == s \o t
Put(s, x) == Append(s, x)

LEMMA PutGlue ==
  ASSUME NEW S, NEW s \in Seq(S), NEW t \in Seq(S), NEW x \in S
  PROVE  Put(Glue(s, t), x) = Glue(s, Put(t, x))
BY DEF Put, Glue

(* A message served first takes the sender's first post with it.             *)
LEMMA PostsHead ==
  ASSUME NEW box \in Seq(Message), NEW c \in Callers, box # <<>>
  PROVE  /\ PostsIn(Tail(box), c) \in Seq(Post)
         /\ PostsIn(box, c) =
              IF IsPostOf(box[1], c) THEN <<AsPost(box[1])>> \o PostsIn(Tail(box), c)
                                     ELSE PostsIn(Tail(box), c)
<1> DEFINE n == Len(box) - 1
           rest == Tail(box)
           start == IF IsPostOf(box[1], c) THEN <<AsPost(box[1])>> ELSE <<>>
<1>1. PICK own \in [0..Len(box) -> Seq(Post)] :
        Collects(own, box, c) /\ PostsIn(box, c) = own[Len(box)]
  BY PostsAreCollected
<1>2. /\ rest \in Seq(Message) /\ Len(rest) = n /\ n \in Nat /\ Len(box) = n + 1
      /\ \A i \in 0..(n - 1) : rest[i + 1] = box[i + 2]
  OBVIOUS
<1> HIDE DEF rest
<1>3. PICK less \in [0..Len(rest) -> Seq(Post)] :
        Collects(less, rest, c) /\ PostsIn(rest, c) = less[Len(rest)]
  BY <1>2, PostsAreCollected
<1>4. /\ own[0] = <<>> /\ less[0] = <<>>
      /\ \A i \in 0..n :
           own[i + 1] = IF IsPostOf(box[i + 1], c) THEN Append(own[i], AsPost(box[i + 1]))
                                                   ELSE own[i]
      /\ \A i \in 0..(n - 1) :
           less[i + 1] = IF IsPostOf(rest[i + 1], c) THEN Append(less[i], AsPost(rest[i + 1]))
                                                     ELSE less[i]
      /\ \A i \in 0..n : less[i] \in Seq(Post)
  BY <1>1, <1>2, <1>3 DEF Collects
<1> HIDE DEF n
<1>5. start \in Seq(Post) /\ own[1] = start
  <2>1. box[1] \in Message /\ 0 \in 0..n /\ 0 + 1 = 1
    BY <1>2
  <2>2. IsPostOf(box[1], c) => AsPost(box[1]) \in Post
    BY <2>1 DEF IsPostOf, AsPost, Message, Shutdown, Post
  <2>3. start \in Seq(Post)
    BY <2>2
  <2>4. own[1] = IF IsPostOf(box[1], c) THEN Append(<<>>, AsPost(box[1])) ELSE <<>>
    BY <1>4, <2>1
  <2> QED
    BY <2>3, <2>4
<1> HIDE DEF start
<1> DEFINE T == {i \in 0..n : own[i + 1] = Glue(start, less[i])}
<1>6. 0 \in T
  <2>1. start \o <<>> = start /\ 0 \in 0..n /\ 0 + 1 = 1
    BY <1>2, <1>5
  <2> QED
    BY <1>4, <1>5, <2>1 DEF Glue
<1>7. ASSUME NEW i \in 0..n, i \in T, i < n PROVE i + 1 \in T
  <2>1. i \in 0..(n - 1) /\ i + 1 \in 0..n /\ (i + 1) + 1 = i + 2
    BY <1>2, <1>7
  <2>2. rest[i + 1] = box[i + 2] /\ own[i + 1] = Glue(start, less[i]) /\ less[i] \in Seq(Post)
    BY <1>2, <1>4, <1>7, <2>1
  <2>3. IsPostOf(box[i + 2], c) =>
          Put(Glue(start, less[i]), AsPost(box[i + 2])) = Glue(start, Put(less[i], AsPost(box[i + 2])))
    <3>1. box[i + 2] \in Message
      BY <1>2, <2>1
    <3>2. IsPostOf(box[i + 2], c) => AsPost(box[i + 2]) \in Post
      BY <3>1 DEF IsPostOf, AsPost, Message, Shutdown, Post
    <3>3. start \in Seq(Post) /\ less[i] \in Seq(Post)
      BY <1>5, <2>2
    <3> QED
      BY <3>2, <3>3, PutGlue
  <2>4. own[i + 2] = IF IsPostOf(box[i + 2], c) THEN Put(own[i + 1], AsPost(box[i + 2]))
                                                ELSE own[i + 1]
    BY <1>4, <2>1 DEF Put
  <2>5. less[i + 1] = IF IsPostOf(box[i + 2], c) THEN Put(less[i], AsPost(box[i + 2]))
                                                 ELSE less[i]
    BY <1>4, <2>1, <2>2 DEF Put
  <2>6. own[i + 2] = Glue(start, less[i + 1])
    BY <2>2, <2>3, <2>4, <2>5
  <2> QED
    BY <2>1, <2>6
<1> HIDE DEF T
<1>8. \A i \in 0..n : i \in T
  BY <1>2, <1>6, <1>7, IntervalInduction
<1>9. own[n + 1] = Glue(start, less[n]) /\ less[n] \in Seq(Post)
  <2>1. n \in 0..n
    BY <1>2
  <2> QED
    BY <1>4, <1>8, <2>1 DEF T
<1>10. <<>> \o less[n] = less[n]
  BY <1>9
<1> QED
  BY <1>1, <1>2, <1>3, <1>9, <1>10 DEF start, rest, Glue

LEMMA HeadTailOfGlued ==
  ASSUME NEW S, NEW x \in S, NEW s \in Seq(S)
  PROVE  /\ <<x>> \o s # <<>> /\ Head(<<x>> \o s) = x /\ Tail(<<x>> \o s) = s
<1>1. Len(<<x>> \o s) = Len(s) + 1 /\ Len(s) \in Nat
  OBVIOUS
<1>2. <<x>> \o s # <<>> /\ Head(<<x>> \o s) = x
  BY <1>1
<1>3. Tail(<<x>> \o s) = s
  BY <1>1
<1> QED
  BY <1>2, <1>3

Pending == [c \in Callers |-> PostsOf(c)]

LEMMA SentPends ==
  ASSUME TypeOK, NEW x \in Message, mailbox' = Append(mailbox, x)
  PROVE  Pending' = [c \in Callers |-> IF IsPostOf(x, c) THEN Append(PostsOf(c), AsPost(x))
                                                        ELSE PostsOf(c)]
<1>1. \A c \in Callers : PostsOf(c)' = IF IsPostOf(x, c) THEN Append(PostsOf(c), AsPost(x))
                                                        ELSE PostsOf(c)
  BY PostsAppend DEF PostsOf, TypeOK
<1> QED
  BY <1>1 DEF Pending

LEMMA ServedPends ==
  ASSUME TypeOK, mailbox # <<>>, mailbox' = Tail(mailbox)
  PROVE  /\ \A c \in Callers : IsPostOf(m, c) => /\ PostsOf(c) # <<>>
                                               /\ Head(PostsOf(c)) = AsPost(m)
         /\ Pending' = [c \in Callers |-> IF IsPostOf(m, c) THEN Tail(PostsOf(c)) ELSE PostsOf(c)]
<1>1. m \in Message /\ m = mailbox[1] /\ mailbox \in Seq(Message)
  BY HeadAndTail DEF TypeOK
<1>2. ASSUME NEW c \in Callers
      PROVE  /\ IsPostOf(m, c) => /\ PostsOf(c) # <<>> /\ Head(PostsOf(c)) = AsPost(m)
                                   /\ Tail(PostsOf(c)) = PostsOf(c)'
             /\ ~IsPostOf(m, c) => PostsOf(c) = PostsOf(c)'
  <2>1. PICK s \in Seq(Post) : s = PostsIn(Tail(mailbox), c)
    BY <1>1, PostsHead
  <2>2. PostsOf(c) = IF IsPostOf(m, c) THEN <<AsPost(m)>> \o s ELSE s
    BY <1>1, <2>1, PostsHead DEF PostsOf
  <2>3. IsPostOf(m, c) => AsPost(m) \in Post
    BY <1>1 DEF IsPostOf, AsPost, Message, Shutdown, Post
  <2>4. PostsOf(c)' = s
    BY <2>1 DEF PostsOf
  <2> QED
    BY <2>2, <2>3, <2>4, HeadTailOfGlued
<1> QED
  BY <1>2 DEF Pending

-----------------------------------------------------------------------------
(* A caller that is blocked in a call has sent nothing after it: its earlier *)
(* posts have taken effect when it is served.                                *)
Quiet ==
  /\ waiter # NoWaiter => \A i \in 1..Len(mailbox) : mailbox[i].from # waiter
  /\ \A i, j \in 1..Len(mailbox) :
       mailbox[i].op \in Calling /\ i < j => mailbox[j].from # mailbox[i].from

LEMMA NextQuiet == TypeOK /\ Heard /\ Quiet /\ [Next]_vars => Quiet'
<1> SUFFICES ASSUME TypeOK, Heard, Quiet, [Next]_vars PROVE Quiet'
  OBVIOUS
<1> USE SceneThreadAssumption
<1>0. mailbox \in Seq(Message) /\ Len(mailbox) \in Nat
  BY DEF TypeOK
<1>1. \A i \in 1..Len(mailbox) : mailbox[i].op \in Calling => mailbox[i].from \in Callers
  BY <1>0, MessageKinds
<1>2. ASSUME NEW x, mailbox' = Append(mailbox, x), waiter' = waiter,
             waiter # NoWaiter => x.from # waiter,
             \A i \in 1..Len(mailbox) : mailbox[i].op \in Calling => mailbox[i].from # x.from
      PROVE  Quiet'
  <2>1. /\ mailbox'[Len(mailbox) + 1] = x
        /\ \A i \in 1..Len(mailbox) : mailbox'[i] = mailbox[i]
        /\ \A i \in 1..Len(mailbox') : i \in 1..Len(mailbox) \/ i = Len(mailbox) + 1
    BY <1>0, <1>2
  <2>2. ASSUME NEW i \in 1..Len(mailbox'), waiter' # NoWaiter PROVE mailbox'[i].from # waiter'
    BY <1>2, <2>1, <2>2 DEF Quiet
  <2>3. ASSUME NEW i \in 1..Len(mailbox'), NEW j \in 1..Len(mailbox'),
               mailbox'[i].op \in Calling, i < j
        PROVE  mailbox'[j].from # mailbox'[i].from
    <3>1. i \in 1..Len(mailbox)
      BY <1>0, <2>1, <2>3
    <3> QED
      BY <1>2, <2>1, <2>3, <3>1 DEF Quiet
  <2> QED
    BY <2>2, <2>3 DEF Quiet
<1>3. ASSUME NEW c \in Callers, call[c] = "none"
      PROVE  /\ waiter # c
             /\ \A i \in 1..Len(mailbox) : mailbox[i].op \in Calling => mailbox[i].from # c
  BY <1>3 DEF Heard, Calling
<1>4. CASE UNCHANGED <<mailbox, waiter>>
  BY <1>4 DEF Quiet
<1>5. ASSUME NEW c \in Callers, Emit(c) PROVE Quiet'
  <2>1. call[c] = "none" /\ waiter' = waiter
    BY <1>5 DEF Emit, Free
  <2>2. PICK p \in Post :
          mailbox' = IF running
                     THEN Append(mailbox, [from |-> c, op |-> p.op, surface |-> p.surface])
                     ELSE mailbox
    BY <1>5 DEF Emit
  <2> QED
    BY <1>2, <1>3, <1>4, <2>1, <2>2
<1>6. ASSUME NEW c \in Callers, NEW kind \in Calling, Calls(c, kind) PROVE Quiet'
  <2>1. /\ call[c] = "none" /\ waiter' = waiter
        /\ mailbox' = IF running THEN Append(mailbox, [from |-> c, op |-> kind]) ELSE mailbox
    BY <1>6 DEF Calls, Free
  <2> QED
    BY <1>2, <1>3, <1>4, <2>1
<1>7. CASE DropOwner
  <2>1. Shutdown.from = NoWaiter
    BY DEF Shutdown
  <2>2. waiter' = waiter /\ mailbox' = IF running THEN Append(mailbox, Shutdown) ELSE mailbox
    BY <1>7 DEF DropOwner
  <2> QED
    BY <1>1, <1>2, <1>4, <2>1, <2>2
<1>8. CASE Handler
  <2>1. Turned /\ mailbox # <<>> /\ mailbox' = Tail(mailbox)
    BY <1>8, HandlersTurn
  <2>2. PICK who \in SUBSET Callers, parked \in Callers \cup {NoWaiter} :
          /\ Turn(who, parked)
          /\ parked # NoWaiter => Served(parked) /\ (parked = waiter \/ m.op = "wait")
    BY <2>1 DEF Turned
  <2>3. waiter' = parked
    BY <2>2 DEF Turn
  <2>4. /\ m = mailbox[1] /\ 1 \in 1..Len(mailbox)
        /\ \A i \in 1..Len(mailbox') : i + 1 \in 1..Len(mailbox) /\ 1 < i + 1
                                       /\ mailbox'[i] = mailbox[i + 1]
    BY <1>0, <2>1, HeadAndTail
  <2>5. ASSUME NEW i \in 1..Len(mailbox'), waiter' # NoWaiter PROVE mailbox'[i].from # waiter'
    <3>1. CASE parked = waiter
      BY <2>3, <2>4, <2>5, <3>1 DEF Quiet
    <3>2. CASE parked # waiter
      <4>1. parked = m.from /\ m.op \in Calling
        BY <2>2, <2>3, <2>5, <3>2 DEF Served, Calling
      <4> QED
        BY <2>3, <2>4, <4>1 DEF Quiet
    <3> QED
      BY <3>1, <3>2
  <2>6. ASSUME NEW i \in 1..Len(mailbox'), NEW j \in 1..Len(mailbox'),
               mailbox'[i].op \in Calling, i < j
        PROVE  mailbox'[j].from # mailbox'[i].from
    BY <2>4, <2>6 DEF Quiet
  <2> QED
    BY <2>5, <2>6 DEF Quiet
<1>9. CASE Expire \/ Stop
  <2>1. waiter' = NoWaiter /\ (mailbox' = mailbox \/ mailbox' = <<>>)
    BY <1>9 DEF Expire, Stop
  <2> QED
    BY <2>1 DEF Quiet
<1>10. (\E c \in Callers : DeadlinePasses(c)) \/ UNCHANGED vars => UNCHANGED <<mailbox, waiter>>
  BY DEF DeadlinePasses, vars, callers
<1> QED
  BY <1>4, <1>5, <1>6, <1>7, <1>8, <1>9, <1>10
     DEF Next, Serve, Handler, Read, WaitUntil, Calling

(* So when the loop answers a caller, none of its posts is still pending.    *)
LEMMA QuietIsSettled ==
  ASSUME TypeOK, Heard, Quiet
  PROVE  /\ waiter # NoWaiter => PostsOf(waiter) = <<>>
         /\ mailbox # <<>> /\ m.op \in Calling => PostsOf(m.from) = <<>>
<1>0. mailbox \in Seq(Message) /\ Len(mailbox) \in Nat
  BY DEF TypeOK
<1>1. ASSUME waiter # NoWaiter PROVE PostsOf(waiter) = <<>>
  <2>1. waiter \in Callers /\ \A i \in 1..Len(mailbox) : ~IsPostOf(mailbox[i], waiter)
    BY <1>1 DEF TypeOK, Quiet, IsPostOf
  <2> QED
    BY <1>0, <2>1, NoPosts DEF PostsOf
<1>2. ASSUME mailbox # <<>>, m.op \in Calling PROVE PostsOf(m.from) = <<>>
  <2>1. m \in Message /\ m = mailbox[1] /\ 1 \in 1..Len(mailbox)
    BY <1>2, HeadAndTail
  <2>2. m.from \in Callers
    BY <1>2, <2>1, MessageKinds
  <2>3. ASSUME NEW i \in 1..Len(mailbox) PROVE ~IsPostOf(mailbox[i], m.from)
    <3>1. CASE i = 1
      BY <1>2, <2>1, <3>1 DEF IsPostOf, Calling
    <3>2. CASE i # 1
      <4>1. 1 < i
        BY <1>0, <3>2
      <4> QED
        BY <1>2, <2>1, <4>1 DEF Quiet, IsPostOf
    <3> QED
      BY <3>1, <3>2
  <2> QED
    BY <1>0, <2>2, <2>3, NoPosts DEF PostsOf
<1> QED
  BY <1>1, <1>2

(* Each step of the callers and of the loop is a step of AtomicScene.        *)
LEMMA CallersImplement ==
  ASSUME TypeOK, NEW c \in Callers,
         Emit(c) \/ Read(c) \/ WaitUntil(c) \/ DeadlinePasses(c)
  PROVE  Atomic!Next
<1>1. CASE Emit(c)
  <2>1. PICK p \in Post :
          mailbox' = IF running
                     THEN Append(mailbox, [from |-> c, op |-> p.op, surface |-> p.surface])
                     ELSE mailbox
    BY <1>1 DEF Emit
  <2> DEFINE x == [from |-> c, op |-> p.op, surface |-> p.surface]
  <2>2. call[c] = "none" /\ UNCHANGED <<scene, waiter, running, dropping, callers>>
    BY <1>1 DEF Emit, Free
  <2>3. x \in Message /\ AsPost(x) = p /\ \A d \in Callers : IsPostOf(x, d) <=> d = c
    BY DEF Message, Post, AsPost, IsPostOf
  <2>4. CASE running
    <3> HIDE DEF x
    <3>1. Pending' = [Pending EXCEPT ![c] = Append(@, p)]
      <4>1. mailbox' = Append(mailbox, x)
        BY <2>1, <2>4 DEF x
      <4>2. Pending' = [d \in Callers |-> IF IsPostOf(x, d) THEN Append(PostsOf(d), AsPost(x))
                                                           ELSE PostsOf(d)]
        BY <2>3, <4>1, SentPends
      <4> QED
        BY <2>3, <4>2 DEF Pending
    <3> QED
      BY <2>2, <2>4, <3>1 DEF Pending, Atomic!Next, Atomic!Posts, Atomic!Post, Post, callers
  <2>5. CASE ~running
    <3>1. Pending' = Pending
      BY <2>1, <2>5 DEF Pending, PostsOf
    <3> QED
      BY <2>2, <2>5, <3>1 DEF Pending, Atomic!Next, Atomic!Posts, callers
  <2> QED
    BY <2>4, <2>5
<1>2. ASSUME NEW kind \in Calling, Calls(c, kind),
             IF kind = "wait" THEN \E n \in Counts : count' = [count EXCEPT ![c] = n]
                              ELSE UNCHANGED count
      PROVE  Atomic!Calls(c, kind)
  <2>1. Pending' = Pending
    <3>1. CASE running
      <4> DEFINE x == [from |-> c, op |-> kind]
      <4>1. x \in Message /\ \A d \in Callers : ~IsPostOf(x, d)
        BY DEF Message, IsPostOf, Calling
      <4>2. mailbox' = Append(mailbox, x)
        BY <1>2, <3>1 DEF Calls
      <4> HIDE DEF x
      <4> QED
        BY <4>1, <4>2, SentPends DEF Pending
    <3>2. CASE ~running
      BY <1>2, <3>2 DEF Calls, Pending, PostsOf
    <3> QED
      BY <3>1, <3>2
  <2> QED
    BY <1>2, <2>1 DEF Calls, Free, Pending, Atomic!Calls, Atomic!NoAnswer, NoAnswer
<1>3. CASE Read(c)
  <2>1. Atomic!Calls(c, "read")
    BY <1>2, <1>3 DEF Read, Calling
  <2> QED
    BY <2>1 DEF Atomic!Next
<1>4. CASE WaitUntil(c)
  <2>1. Atomic!Calls(c, "wait")
    BY <1>2, <1>4 DEF WaitUntil, Calling
  <2> QED
    BY <2>1 DEF Atomic!Next
<1>5. CASE DeadlinePasses(c)
  <2>1. Pending' = Pending
    BY <1>5 DEF DeadlinePasses, Pending, PostsOf
  <2> QED
    BY <1>5, <2>1 DEF DeadlinePasses, Pending, Atomic!Next, Atomic!TimeIsUp
<1> QED
  BY <1>1, <1>3, <1>4, <1>5

LEMMA EmptyPends ==
  ASSUME NEW box, box = <<>>, NEW c \in Callers
  PROVE  PostsIn(box, c) = <<>>
<1>1. box \in Seq(Message) /\ Len(box) = 0
  OBVIOUS
<1>2. \A i \in 1..Len(box) : FALSE
  BY <1>1
<1> QED
  BY <1>1, <1>2, NoPosts

LEMMA SameCardinality ==
  ASSUME NEW sc
  PROVE  Atomic!Cardinality(sc) = Cardinality(sc)
BY DEF Cardinality, Atomic!Cardinality

LEMMA SameHolds ==
  ASSUME NEW c, NEW sc
  PROVE  Atomic!Holds(c, sc) = Holds(c, sc)
BY SameCardinality DEF Holds, Atomic!Holds

(* The two modules mean the same by an answer and by a condition.            *)
LEMMA TrueReturns ==
  ASSUME NEW who, Reply(who, LAMBDA c : Told(TRUE))
  PROVE  Atomic!Returns(who, LAMBDA w : Atomic!Told(TRUE))
BY DEF Reply, Atomic!Returns, Told, Atomic!Told

LEMMA HoldsReturns ==
  ASSUME NEW who, Reply(who, LAMBDA c : Told(Holds(c, scene)))
  PROVE  Atomic!Returns(who, LAMBDA w : Atomic!Told(Atomic!Holds(w, scene)))
BY SameHolds DEF Reply, Atomic!Returns, Told, Atomic!Told

LEMMA WaitReturned ==
  ASSUME NEW c \in Callers, call[c] = "wait", Pending[c] = <<>>,
         \/ Holds(c, scene) \/ c \in late
         \/ \E d \in Callers \ {c} : call[d] = "wait" /\ Pending[d] = <<>>,
         Reply({c}, LAMBDA d : Told(Holds(d, scene))),
         UNCHANGED <<scene, running>>, Pending' = Pending
  PROVE  Atomic!WaitReturns(c)
<1>1. \A d \in Callers : call[d] = "wait" /\ Pending[d] = <<>> => Atomic!Settled(d)
  BY DEF Atomic!Settled, Pending
<1>2. Holds(c, scene) => Atomic!Holds(c, scene)
  BY SameHolds
<1>3. Atomic!Returns({c}, LAMBDA w : Atomic!Told(Atomic!Holds(w, scene)))
  BY HoldsReturns
<1>4. UNCHANGED <<scene, [d \in Callers |-> PostsOf(d)], count, ~running>>
  BY DEF Pending, Reply
<1> QED
  BY <1>1, <1>2, <1>3, <1>4 DEF Atomic!WaitReturns

LEMMA LoopImplements ==
  ASSUME TypeOK, Heard, Quiet, ParkedIsFalse, Serve
  PROVE  [Atomic!Next]_(Atomic!vars)
<1> USE SceneThreadAssumption
<1>0. /\ waiter \in Callers \cup {NoWaiter}
      /\ call \in [Callers -> {"none", "read", "wait", "dead"}]
      /\ answer = [c \in Callers |-> answer[c]] /\ late \ {} = late
  BY DEF TypeOK
<1>1. waiter # NoWaiter => /\ waiter \in Callers /\ call[waiter] = "wait"
                           /\ Pending[waiter] = <<>> /\ ~Holds(waiter, scene)
  BY <1>0, QuietIsSettled DEF Heard, ParkedIsFalse, Pending
<1>2. ASSUME mailbox # <<>>, m.op \in Calling, mailbox' = Tail(mailbox)
      PROVE  /\ m.from \in Callers /\ call[m.from] = m.op /\ m.from # waiter
             /\ Pending[m.from] = <<>> /\ Pending' = Pending
  <2>1. m \in Message /\ m = mailbox[1] /\ 1 \in 1..Len(mailbox)
    BY <1>2, HeadAndTail
  <2>2. m.from \in Callers
    BY <1>2, <2>1, MessageKinds
  <2>3. \A c \in Callers : ~IsPostOf(m, c)
    BY <1>2 DEF IsPostOf, Calling
  <2> QED
    BY <1>2, <2>1, <2>2, <2>3, QuietIsSettled, ServedPends DEF Heard, Pending
<1>3. CASE ServePost
  <2>1. /\ m.op \in {"create", "destroy"} /\ mailbox # <<>> /\ mailbox' = Tail(mailbox)
        /\ scene' = Applied /\ UNCHANGED <<running, dropping>>
    BY <1>3 DEF ServePost, Received, m
  <2>2. m \in Message /\ m.from \in Callers
    BY <2>1, HeadAndTail, MessageKinds
  <2> DEFINE d == m.from
  <2>3. \A c \in Callers : IsPostOf(m, c) <=> c = d
    BY <2>1 DEF IsPostOf
  <2>4. /\ Pending[d] # <<>> /\ Head(Pending[d]) = AsPost(m)
        /\ Pending' = [Pending EXCEPT ![d] = Tail(@)]
    <3>1. /\ PostsOf(d) # <<>> /\ Head(PostsOf(d)) = AsPost(m)
          /\ Pending' = [c \in Callers |-> IF IsPostOf(m, c) THEN Tail(PostsOf(c)) ELSE PostsOf(c)]
      BY <2>1, <2>2, <2>3, ServedPends
    <3> QED
      BY <2>2, <2>3, <3>1 DEF Pending
  <2>5. scene' = Atomic!After(Head(Pending[d]), scene)
    <3>1. Atomic!After(AsPost(m), scene) = Applied
      BY DEF Applied, Atomic!After, AsPost
    <3> QED
      BY <2>1, <2>4, <3>1
  <2>6. PICK who \in SUBSET {w \in Callers : /\ call[w] = "wait" /\ Pending[w] = <<>>
                                             /\ Holds(w, scene')} :
          Reply(who, LAMBDA c : Told(TRUE))
    <3>1. CASE waiter # NoWaiter /\ Holds(waiter, scene')
      <4>1. Reply({} \cup {waiter}, LAMBDA c : IF c = waiter THEN Told(TRUE) ELSE Told(TRUE))
        BY <1>3, <3>1 DEF ServePost, Settle
      <4>2. Reply({waiter}, LAMBDA c : Told(TRUE))
        BY <4>1 DEF Reply
      <4> QED
        BY <1>1, <3>1, <4>2
    <3>2. CASE ~(waiter # NoWaiter /\ Holds(waiter, scene'))
      <4>1. Reply({}, LAMBDA c : Told(TRUE))
        BY <1>3, <3>2 DEF ServePost, Settle
      <4> QED
        BY <4>1
    <3> QED
      BY <3>1, <3>2
  <2>7. Atomic!Returns(who, LAMBDA w : Atomic!Told(TRUE))
    BY <2>6, TrueReturns
  <2>8. \A w \in who : Atomic!Settled(w) /\ Atomic!Holds(w, scene')
    BY <2>6, SameHolds DEF Atomic!Settled, Pending
  <2>9. UNCHANGED <<count, ~running>>
    BY <2>1, <2>6 DEF Reply
  <2>10. Atomic!TakesEffect(d)
    BY <2>4, <2>5, <2>6, <2>7, <2>8, <2>9 DEF Atomic!TakesEffect, Pending
  <2> QED
    BY <2>2, <2>10 DEF Atomic!Next
<1>4. CASE ServeRead
  <2>1. /\ m.op = "read" /\ mailbox # <<>> /\ mailbox' = Tail(mailbox)
        /\ scene' = scene /\ UNCHANGED <<running, dropping>>
        /\ Settle(waiter, {m.from}, LAMBDA c : Saw(scene))
    BY <1>4 DEF ServeRead, Received, m
  <2>2. /\ m.from \in Callers /\ call[m.from] = "read" /\ Pending[m.from] = <<>>
        /\ Pending' = Pending
    BY <1>2, <2>1 DEF Calling
  <2>3. Reply({m.from}, LAMBDA c : Saw(scene))
    BY <1>1, <2>1 DEF Settle, Holds
  <2>4. Atomic!ReadReturns(m.from)
    BY <2>1, <2>2, <2>3
       DEF Atomic!ReadReturns, Atomic!Returns, Atomic!Saw, Reply, Saw, Pending
  <2> QED
    BY <2>2, <2>4 DEF Atomic!Next
<1>5. CASE ServeWaitMet
  <2>1. /\ m.op = "wait" /\ mailbox # <<>> /\ mailbox' = Tail(mailbox)
        /\ scene' = scene /\ UNCHANGED <<running, dropping>> /\ Holds(m.from, scene)
        /\ Settle(waiter, {m.from}, LAMBDA c : Told(TRUE))
    BY <1>5 DEF ServeWaitMet, Received, m
  <2>2. /\ m.from \in Callers /\ call[m.from] = "wait" /\ Pending[m.from] = <<>>
        /\ Pending' = Pending
    BY <1>2, <2>1 DEF Calling
  <2>3. Reply({m.from}, LAMBDA c : Told(TRUE))
    BY <1>1, <2>1 DEF Settle, Holds
  <2>4. Reply({m.from}, LAMBDA c : Told(Holds(c, scene)))
    BY <2>1, <2>3 DEF Reply, Holds, Told
  <2>5. Atomic!WaitReturns(m.from)
    BY <2>1, <2>2, <2>4, WaitReturned
  <2> QED
    BY <2>2, <2>5 DEF Atomic!Next
<1>6. CASE Park
  <2>1. /\ m.op = "wait" /\ mailbox # <<>> /\ mailbox' = Tail(mailbox)
        /\ scene' = scene /\ UNCHANGED <<running, dropping>> /\ ~Holds(m.from, scene)
        /\ Settle(m.from, {waiter} \ {NoWaiter}, LAMBDA c : Told(FALSE))
    BY <1>6 DEF Park, Received, m
  <2>2. /\ m.from \in Callers /\ call[m.from] = "wait" /\ Pending[m.from] = <<>>
        /\ Pending' = Pending /\ m.from # waiter
    BY <1>2, <2>1 DEF Calling
  <2>3. Reply({waiter} \ {NoWaiter}, LAMBDA c : Told(FALSE))
    BY <2>1 DEF Settle, Holds
  <2>4. CASE waiter = NoWaiter
    <3>1. Reply({}, LAMBDA c : Told(FALSE))
      BY <2>3, <2>4 DEF Reply
    <3>2. UNCHANGED callers
      BY <1>0, <3>1 DEF Reply, callers
    <3> QED
      BY <2>1, <2>2, <3>2 DEF Atomic!vars, Pending, callers
  <2>5. CASE waiter # NoWaiter
    <3>1. Reply({waiter}, LAMBDA c : Told(FALSE))
      <4>1. {waiter} \ {NoWaiter} = {waiter}
        BY <2>5
      <4> QED
        BY <2>3, <4>1
    <3>2. Reply({waiter}, LAMBDA c : Told(Holds(c, scene)))
      BY <1>1, <2>5, <3>1 DEF Reply, Holds, Told
    <3>3. Atomic!WaitReturns(waiter)
      BY <1>1, <2>1, <2>2, <2>5, <3>2, WaitReturned
    <3> QED
      BY <1>1, <2>5, <3>3 DEF Atomic!Next
  <2> QED
    BY <2>4, <2>5
<1>7. CASE Expire
  <2>1. /\ waiter \in late /\ waiter # NoWaiter
        /\ Reply({waiter}, LAMBDA c : Told(Holds(c, scene)))
        /\ UNCHANGED <<scene, running>> /\ Pending' = Pending
    BY <1>7 DEF Expire, TypeOK, Pending, PostsOf
  <2>2. Atomic!WaitReturns(waiter)
    BY <1>1, <2>1, WaitReturned
  <2> QED
    BY <1>1, <2>1, <2>2 DEF Atomic!Next
<1>8. CASE Stop
  <2>1. Pending' = [c \in Callers |-> <<>>]
    <3>1. mailbox' = <<>>
      BY <1>8 DEF Stop
    <3> QED
      BY <3>1, EmptyPends DEF Pending, PostsOf
  <2>2. Atomic!Stops
    BY <1>8, <2>1 DEF Stop, Atomic!Stops, Atomic!Told, Told, Pending
  <2> QED
    BY <2>2 DEF Atomic!Next
<1> QED
  BY <1>3, <1>4, <1>5, <1>6, <1>7, <1>8 DEF Serve

LEMMA NextImplements ==
  TypeOK /\ Heard /\ Quiet /\ ParkedIsFalse /\ [Next]_vars => [Atomic!Next]_(Atomic!vars)
<1> SUFFICES ASSUME TypeOK, Heard, Quiet, ParkedIsFalse, [Next]_vars
             PROVE  [Atomic!Next]_(Atomic!vars)
  OBVIOUS
<1>1. CASE DropOwner
  <2>1. Shutdown \in Message /\ \A c \in Callers : ~IsPostOf(Shutdown, c)
    BY SceneThreadAssumption DEF Message, Shutdown, IsPostOf
  <2>2. Pending' = Pending
    <3>1. CASE running
      BY <1>1, <2>1, <3>1, SentPends DEF DropOwner, Pending
    <3>2. CASE ~running
      BY <1>1, <3>2 DEF DropOwner, Pending, PostsOf
    <3> QED
      BY <3>1, <3>2
  <2> QED
    BY <1>1, <2>2 DEF DropOwner, Atomic!vars, Pending, callers
<1>2. CASE UNCHANGED vars
  BY <1>2 DEF vars, callers, Atomic!vars, PostsOf
<1> QED
  BY <1>1, <1>2, CallersImplement, LoopImplements DEF Next

IInv == TypeOK /\ Heard /\ Awaited /\ Quiet /\ ParkedIsFalse

LEMMA Invariant == Spec => []IInv
<1>1. Init => IInv
  <2> SUFFICES ASSUME Init PROVE IInv
    OBVIOUS
  <2>1. Heard /\ Awaited /\ Quiet /\ ParkedIsFalse
    BY DEF Init, Heard, Awaited, Quiet, Calling, ParkedIsFalse
  <2>2. mailbox \in Seq(Message) /\ late \subseteq {c \in Callers : call[c] = "wait"}
    BY DEF Init
  <2>3. /\ call \in [Callers -> {"none", "read", "wait", "dead"}]
        /\ answer \in [Callers -> {NoAnswer} \cup [told : BOOLEAN] \cup [saw : SUBSET Surfaces]]
    BY DEF Init
  <2> QED
    BY <2>1, <2>2, <2>3 DEF Init, TypeOK, IInv
<1>2. IInv /\ [Next]_vars => IInv'
  BY NextType, NextHeard, NextAwaited, NextQuiet, NextParked DEF IInv
<1> QED
  BY <1>1, <1>2, PTL DEF Spec

(* Whatever the callers send, every variable of the scene thread keeps its   *)
(* type, only waits have deadlines, and nothing outlives the thread.         *)
THEOREM TypeCorrect == Spec => []TypeOK
<1>1. IInv => TypeOK
  BY DEF IInv
<1> QED
  BY <1>1, Invariant, PTL

(* A caller is blocked exactly while its one request is in the channel or    *)
(* parked, whatever the other callers send, and through Shutdown: no reply   *)
(* channel is answered twice, and none is dropped with its caller asleep.    *)
THEOREM NoRequestIsForgotten == Spec => []BlockedIsHeard
<1>1. IInv => BlockedIsHeard
  BY HeardOnce DEF IInv
<1> QED
  BY <1>1, Invariant, PTL

(* thread.rs, "Reply `true` as soon as `pred` holds": between two messages   *)
(* the scene thread is never asleep over a parked condition that holds,      *)
(* however many callers change the scene, wait and take the slot.            *)
THEOREM NoneSleepsOverATruth == Spec => []ParkedIsFalse
<1>1. IInv => ParkedIsFalse
  BY DEF IInv
<1> QED
  BY <1>1, Invariant, PTL

(* The mailbox, the loop and its one parked waiter are, for whoever holds a  *)
(* SceneHandle, the scene of AtomicScene: posts take effect in their order,  *)
(* a read sees the reader's own earlier posts, a wait answers what is so.    *)
THEOREM MailboxIsAtomic == Spec => ImplementsAtomicScene
<1>1. Init => Atomic!Init
  <2> SUFFICES ASSUME Init PROVE Atomic!Init
    OBVIOUS
  <2>1. Pending = [c \in Callers |-> <<>>]
    BY EmptyPends DEF Init, Pending, PostsOf
  <2> QED
    BY <2>1 DEF Init, Pending, Atomic!Init, Atomic!NoAnswer, NoAnswer
<1>2. IInv /\ [Next]_vars => [Atomic!Next]_(Atomic!vars)
  BY NextImplements DEF IInv
<1> QED
  BY <1>1, <1>2, Invariant, PTL DEF Spec, ImplementsAtomicScene, Atomic!Spec
=============================================================================
