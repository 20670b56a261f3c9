------------------------ MODULE FrameCallbacksProofs ------------------------
(***************************************************************************)
(* Proofs about FrameCallbacks, for every set of clients, every limit and  *)
(* every socket size: the types, that throttling is exact, that the        *)
(* backlog is bounded, that no callback is lost or fired twice, and that   *)
(* no frame leaves behind a callback of what it showed.                    *)
(***************************************************************************)
EXTENDS FrameCallbacks, FiniteSetTheorems, TLAPS

(* All that is known of a callback has been read; a client that was not      *)
(* admitted has not been read, and what waits for a parent's commit is the   *)
(* subsurface's.                                                             *)
ReadOnly ==
  \A c \in Client :
    /\ cached[c] \cup current[c] \cup fired[c] \cup answered[c] \subseteq 1..read[c]
    /\ onSubsurface[c] \subseteq 1..sent[c]
    /\ cached[c] \subseteq onSubsurface[c]
    /\ source[c] = "none" => read[c] = 0

(* Whatever the scene thread, T-render or a message knows of a client is     *)
(* older than n.                                                             *)
OlderThan(n, c) ==
  /\ scene[c] < n /\ frame[c] < n /\ presented[c] < n
  /\ \A k \in 1..Len(mailbox) : mailbox[k].client = c => mailbox[k].commit < n

(* ... than the callbacks that wait for a parent's commit, and than the next.*)
CachedIsNews ==
  \A c \in Client : \A n \in cached[c] \cup {read[c] + 1} : OlderThan(n, c)

(* A burst in progress leaves room for what is left in the socket.           *)
RoomForTheBurst ==
  ~FastWriter =>
    \A c \in Client :
      /\ sent[c] - read[c] <= SocketSize
      /\ IF dispatching = c
         THEN Cardinality(current[c] \ onSubsurface[c]) + (sent[c] - read[c])
              < MAX_PENDING_FRAME_CALLBACKS + SocketSize
         ELSE Cardinality(current[c] \ onSubsurface[c])
              < MAX_PENDING_FRAME_CALLBACKS + SocketSize

-----------------------------------------------------------------------------
(* update_throttles yields sources, and neither admits nor removes anybody.  *)
LEMMA ThrottlesType ==
  ASSUME NEW S \in [Client -> {"none", "enabled", "disabled", "removed"}], NEW B
  PROVE  /\ UpdateThrottles(S, B) \in [Client -> {"none", "enabled", "disabled", "removed"}]
         /\ \A c \in Client : S[c] \in {"none", "removed"} => UpdateThrottles(S, B)[c] = S[c]
         /\ \A c \in Client : S[c] \in {"enabled", "disabled"} =>
                                UpdateThrottles(S, B)[c] \in {"enabled", "disabled"}
BY DEF UpdateThrottles

LEMMA DepartedSource ==
  ASSUME LoopOK, NEW c \in Client, Departed(c)
  PROVE  /\ source' \in [Client -> {"none", "enabled", "disabled", "removed"}]
         /\ source'[c] = "removed"
         /\ \A d \in Client : source[d] = "removed" => source'[d] = "removed"
         /\ \A d \in Client : source'[d] = "none" => source[d] = "none"
<1> DEFINE S == [source EXCEPT ![c] = "removed"]
<1>1. S \in [Client -> {"none", "enabled", "disabled", "removed"}]
  BY DEF LoopOK
<1>2. source' = UpdateThrottles(S, current')
  BY DEF Departed
<1>3. S[c] = "removed" /\ \A d \in Client : d # c => S[d] = source[d]
  BY DEF LoopOK
<1> HIDE DEF S
<1> QED
  BY <1>1, <1>2, <1>3, ThrottlesType

LEMMA MailboxAppend ==
  ASSUME MailboxOK, NEW n \in Nat, NEW c \in Client,
         mailbox' = Append(mailbox, Published(c, n))
  PROVE  MailboxOK'
<1>1. PICK m \in [client : Client \cup {NoClient}, commit : Nat] :
        /\ mailbox' = Append(mailbox, m)
        /\ m = Snapshot \/ m.client \in Client
  BY DEF Published
<1>2. mailbox' \in Seq([client : Client \cup {NoClient}, commit : Nat])
  BY <1>1 DEF MailboxOK
<1>3. ASSUME NEW i \in 1..Len(mailbox') PROVE mailbox'[i] = Snapshot \/ mailbox'[i].client \in Client
  BY <1>1, <1>3 DEF MailboxOK
<1> QED
  BY <1>2, <1>3 DEF MailboxOK, Snapshot, Gone

LEMMA MailboxTail ==
  ASSUME MailboxOK, mailbox # <<>>, mailbox' = Tail(mailbox)
  PROVE  /\ MailboxOK'
         /\ Len(mailbox') = Len(mailbox) - 1
         /\ \A i \in 1..Len(mailbox') : i + 1 \in 1..Len(mailbox) /\ mailbox'[i] = mailbox[i + 1]
         /\ 1 \in 1..Len(mailbox) /\ Head(mailbox) = mailbox[1]
<1>1. /\ Len(mailbox') = Len(mailbox) - 1
      /\ \A i \in 1..Len(mailbox') : i + 1 \in 1..Len(mailbox) /\ mailbox'[i] = mailbox[i + 1]
      /\ 1 \in 1..Len(mailbox) /\ Head(mailbox) = mailbox[1]
  BY DEF MailboxOK
<1>2. mailbox' \in Seq([client : Client \cup {NoClient}, commit : Nat])
  BY DEF MailboxOK
<1> QED
  BY <1>1, <1>2 DEF MailboxOK, Snapshot

LEMMA InitType == Init => TypeOK
<1> SUFFICES ASSUME Init PROVE TypeOK
  OBVIOUS
<1> USE FrameCallbacksAssumption DEF Init
<1>1. RequestsOK
  BY DEF RequestsOK
<1>2. LoopOK
  BY DEF LoopOK
<1>3. CallbacksOK
  BY DEF CallbacksOK
<1>4. MailboxOK
  <2>1. mailbox = <<>>
    OBVIOUS
  <2> QED
    BY <2>1 DEF MailboxOK
<1>5. FramesOK
  BY DEF FramesOK, NoFrame, Gone
<1> QED
  BY <1>1, <1>2, <1>3, <1>4, <1>5 DEF TypeOK

(* A step of the dispatch thread, of the scene thread and of T-render.       *)
LEMMA NextType == TypeOK /\ [Next]_vars => TypeOK'
<1> SUFFICES ASSUME TypeOK, [Next]_vars PROVE TypeOK'
  OBVIOUS
<1> USE FrameCallbacksAssumption DEF TypeOK
<1>1. ASSUME NEW c \in Client, Request(c) PROVE TypeOK'
  <2>1. RequestsOK'
    <3>1. sent' \in [Client -> Nat] /\ \A d \in Client : read[d] <= sent'[d] /\ sent'[d] <= MaxRequests[d]
      BY <1>1 DEF Request, CanWrite, RequestsOK
    <3>2. onSubsurface' \in [Client -> SUBSET Nat]
      BY <1>1, <3>1 DEF Request, RequestsOK
    <3> QED
      BY <1>1, <3>1, <3>2 DEF Request, RequestsOK
  <2> QED
    BY <1>1, <2>1 DEF Request, callbacks, rendering, LoopOK, CallbacksOK, MailboxOK, FramesOK, Snapshot
<1>2. ASSUME NEW c \in Client, Close(c) PROVE TypeOK'
  BY <1>2 DEF Close, callbacks, rendering, RequestsOK, LoopOK, CallbacksOK, MailboxOK, FramesOK, Snapshot
<1>3. ASSUME NEW c \in Client, AdmitClient(c) PROVE TypeOK'
  BY <1>3 DEF AdmitClient, clients, callbacks, rendering, RequestsOK, LoopOK, CallbacksOK, MailboxOK,
              FramesOK, Snapshot
<1>4. ASSUME NEW c \in Client, DispatchOneClient(c) PROVE TypeOK'
  BY <1>4 DEF DispatchOneClient, clients, callbacks, rendering, RequestsOK, LoopOK, CallbacksOK,
              MailboxOK, FramesOK, Snapshot
<1>5. ASSUME NEW c \in Client, Commit(c) PROVE TypeOK'
  <2>1. read[c] + 1 \in Nat /\ read[c] < sent[c]
    BY <1>5 DEF Commit, RequestsOK
  <2>2. MailboxOK'
    <3>1. CASE mailbox' = mailbox
      BY <3>1 DEF MailboxOK, Snapshot
    <3>2. CASE mailbox' = Append(mailbox, Published(c, read[c] + 1))
      BY <2>1, <3>2, MailboxAppend
    <3> QED
      BY <1>5, <3>1, <3>2 DEF Commit
  <2>3. RequestsOK'
    BY <1>5, <2>1 DEF Commit, RequestsOK, clients
  <2>4. CallbacksOK'
    <3>1. CASE read[c] + 1 \in onSubsurface[c]
      <4>1. /\ cached' = [cached EXCEPT ![c] = @ \cup {read[c] + 1}]
            /\ UNCHANGED <<current, fired, answered>>
        BY <1>5, <3>1 DEF Commit
      <4> QED
        BY <2>1, <4>1 DEF CallbacksOK
    <3>2. CASE read[c] + 1 \notin onSubsurface[c]
      <4>1. /\ cached' = [cached EXCEPT ![c] = {}]
            /\ current' = [current EXCEPT ![c] = @ \cup cached[c] \cup {read[c] + 1}]
            /\ UNCHANGED <<fired, answered>>
        BY <1>5, <3>2 DEF Commit
      <4> QED
        BY <2>1, <4>1 DEF CallbacksOK
    <3> QED
      BY <3>1, <3>2
  <2>5. UNCHANGED <<source, dispatching, scene, rendering, pinged>>
    BY <1>5 DEF Commit
  <2>6. LoopOK'
    BY <2>5 DEF LoopOK
  <2>7. FramesOK'
    BY <2>5 DEF FramesOK, rendering
  <2> QED
    BY <2>2, <2>3, <2>4, <2>6, <2>7 DEF TypeOK
<1>6. ASSUME NEW c \in Client, EndDispatch(c) PROVE TypeOK'
  <2>1. source' \in [Client -> {"none", "enabled", "disabled", "removed"}]
    BY <1>6, ThrottlesType DEF EndDispatch, LoopOK
  <2> QED
    BY <1>6, <2>1 DEF EndDispatch, clients, callbacks, rendering, RequestsOK, LoopOK, CallbacksOK,
                      MailboxOK, FramesOK, Snapshot
<1>7. ASSUME NEW c \in Client, Departed(c) PROVE TypeOK'
  <2>1. MailboxOK'
    BY <1>7, MailboxAppend DEF Departed, Gone
  <2>2. source' \in [Client -> {"none", "enabled", "disabled", "removed"}]
    BY <1>7, DepartedSource
  <2> QED
    BY <1>7, <2>1, <2>2 DEF Departed, clients, rendering, RequestsOK, LoopOK, CallbacksOK, FramesOK
<1>8. ASSUME PingReceived PROVE TypeOK'
  <2>1. source' \in [Client -> {"none", "enabled", "disabled", "removed"}]
    BY <1>8, ThrottlesType DEF PingReceived, LoopOK
  <2>2. CallbacksOK'
    BY <1>8 DEF PingReceived, CallbacksOK
  <2> QED
    BY <1>8, <2>1, <2>2 DEF PingReceived, clients, rendering, RequestsOK, LoopOK, MailboxOK, FramesOK,
                            Snapshot
<1>9. ASSUME FlushClients PROVE TypeOK'
  <2>1. CallbacksOK'
    BY <1>9 DEF FlushClients, CallbacksOK
  <2> QED
    BY <1>9, <2>1 DEF FlushClients, clients, rendering, RequestsOK, LoopOK, MailboxOK, FramesOK, Snapshot
<1>10. ASSUME ApplyProtocol PROVE TypeOK'
  <2>1. MailboxOK'
    BY <1>10, MailboxTail DEF ApplyProtocol
  <2>2. Head(mailbox).client \in Client /\ Head(mailbox).commit \in Nat
    <3> mailbox # <<>> /\ Head(mailbox) # Snapshot /\ mailbox' = Tail(mailbox)
      BY <1>10 DEF ApplyProtocol
    <3>1. 1 \in 1..Len(mailbox) /\ Head(mailbox) = mailbox[1]
      BY MailboxTail
    <3> DEFINE M == [client : Client \cup {NoClient}, commit : Nat]
    <3>2. mailbox[1] \in M
      <4>1. mailbox \in Seq(M)
        BY DEF MailboxOK
      <4> HIDE DEF M
      <4> QED
        BY <3>1, <4>1
    <3> QED
      BY <3>1, <3>2 DEF MailboxOK
  <2>3. FramesOK'
    BY <1>10, <2>2 DEF ApplyProtocol, FramesOK, rendering
  <2> QED
    BY <1>10, <2>1, <2>3 DEF ApplyProtocol, clients, callbacks, RequestsOK, LoopOK, CallbacksOK
<1>11. ASSUME TakeSnapshot PROVE TypeOK'
  <2>1. MailboxOK'
    BY <1>11, MailboxTail DEF TakeSnapshot
  <2> QED
    BY <1>11, <2>1 DEF TakeSnapshot, clients, callbacks, RequestsOK, LoopOK, CallbacksOK, FramesOK
<1>12. ASSUME Tick PROVE TypeOK'
  <2>1. MailboxOK'
    <3>1. mailbox' = Append(mailbox, Snapshot)
      BY <1>12 DEF Tick
    <3>2. Snapshot \in [client : Client \cup {NoClient}, commit : Nat]
      BY DEF Snapshot, Gone
    <3> QED
      BY <3>1, <3>2 DEF MailboxOK
  <2> QED
    BY <1>12, <2>1 DEF Tick, clients, callbacks, RequestsOK, LoopOK, CallbacksOK, FramesOK
<1>13. ASSUME Present PROVE TypeOK'
  <2>1. FramesOK'
    BY <1>13 DEF Present, FramesOK, NoFrame, Gone
  <2> QED
    BY <1>13, <2>1 DEF Present, clients, callbacks, RequestsOK, LoopOK, CallbacksOK, MailboxOK, Snapshot
<1>14. ASSUME UNCHANGED vars PROVE TypeOK'
  BY <1>14 DEF vars, clients, callbacks, rendering, RequestsOK, LoopOK, CallbacksOK, MailboxOK, FramesOK,
               Snapshot
<1> QED
  BY <1>1, <1>2, <1>3, <1>4, <1>5, <1>6, <1>7, <1>8, <1>9, <1>10, <1>11, <1>12, <1>13, <1>14
     DEF Next, Dispatch, SceneThread, Render

(* Type correctness, for every client and every bound.                       *)
THEOREM TypeCorrect == Spec => []TypeOK
<1>1. Init => TypeOK
  BY InitType
<1>2. TypeOK /\ [Next]_vars => TypeOK'
  BY NextType
<1> QED
  BY <1>1, <1>2, PTL DEF Spec

-----------------------------------------------------------------------------
(* Only what was read is anywhere, and each of it in one place.              *)
Tracked == TypeOK /\ ReadOnly /\ EachCallbackOnce

LEMMA InitTracked == Init => Tracked
BY InitType DEF Init, Tracked, ReadOnly, EachCallbackOnce

LEMMA NextReadOnly == TypeOK /\ ReadOnly /\ [Next]_vars => ReadOnly'
<1> SUFFICES ASSUME TypeOK, ReadOnly, [Next]_vars PROVE ReadOnly'
  OBVIOUS
<1> USE DEF TypeOK, RequestsOK, LoopOK, CallbacksOK, ReadOnly
<1>1. ASSUME NEW c \in Client, Request(c) PROVE ReadOnly'
  <2>1. /\ sent' = [sent EXCEPT ![c] = sent[c] + 1]
        /\ onSubsurface' \in {onSubsurface,
                             [onSubsurface EXCEPT ![c] = onSubsurface[c] \cup {sent'[c]}]}
        /\ UNCHANGED <<read, source, cached, current, fired, answered>>
    BY <1>1 DEF Request, callbacks
  <2> QED
    BY <2>1
<1>2. ASSUME NEW c \in Client, Close(c) PROVE ReadOnly'
  BY <1>2 DEF Close, callbacks
<1>3. ASSUME NEW c \in Client, AdmitClient(c) PROVE ReadOnly'
  BY <1>3 DEF AdmitClient, clients, callbacks
<1>4. ASSUME NEW c \in Client, DispatchOneClient(c) PROVE ReadOnly'
  BY <1>4 DEF DispatchOneClient, clients, callbacks
<1>5. ASSUME NEW c \in Client, Commit(c) PROVE ReadOnly'
  <2>1. /\ read' = [read EXCEPT ![c] = read[c] + 1]
        /\ source[c] = "enabled"
        /\ UNCHANGED <<sent, onSubsurface, source, fired, answered>>
    BY <1>5 DEF Commit, clients
  <2>2. CASE read[c] + 1 \in onSubsurface[c]
    <3>1. cached' = [cached EXCEPT ![c] = cached[c] \cup {read[c] + 1}] /\ UNCHANGED current
      BY <1>5, <2>2 DEF Commit
    <3> QED
      BY <2>1, <2>2, <3>1
  <2>3. CASE read[c] + 1 \notin onSubsurface[c]
    <3>1. /\ cached' = [cached EXCEPT ![c] = {}]
          /\ current' = [current EXCEPT ![c] = current[c] \cup cached[c] \cup {read[c] + 1}]
      BY <1>5, <2>3 DEF Commit
    <3> QED
      BY <2>1, <3>1
  <2> QED
    BY <2>2, <2>3
<1>6. ASSUME NEW c \in Client, EndDispatch(c) PROVE ReadOnly'
  <2>1. \A d \in Client : source'[d] = "none" => source[d] = "none"
    BY <1>6, ThrottlesType DEF EndDispatch
  <2> QED
    BY <1>6, <2>1 DEF EndDispatch, clients, callbacks
<1>7. ASSUME NEW c \in Client, Departed(c) PROVE ReadOnly'
  <2>1. \A d \in Client : source'[d] = "none" => source[d] = "none"
    BY <1>7, DepartedSource
  <2> QED
    BY <1>7, <2>1 DEF Departed, clients
<1>8. ASSUME PingReceived PROVE ReadOnly'
  <2>1. \A d \in Client : source'[d] = "none" => source[d] = "none"
    BY <1>8, ThrottlesType DEF PingReceived
  <2> QED
    BY <1>8, <2>1 DEF PingReceived, clients
<1>9. ASSUME FlushClients PROVE ReadOnly'
  BY <1>9 DEF FlushClients, clients
<1>10. CASE UNCHANGED <<clients, read, source, callbacks>>
  BY <1>10 DEF clients, callbacks
<1> QED
  BY <1>1, <1>2, <1>3, <1>4, <1>5, <1>6, <1>7, <1>8, <1>9, <1>10
     DEF Next, Dispatch, SceneThread, Render, ApplyProtocol, TakeSnapshot, Tick, Present, vars

LEMMA NextOnce == Tracked /\ [Next]_vars => EachCallbackOnce'
<1> SUFFICES ASSUME Tracked, [Next]_vars PROVE EachCallbackOnce'
  OBVIOUS
<1> USE DEF Tracked, TypeOK, RequestsOK, LoopOK, CallbacksOK, ReadOnly, EachCallbackOnce
<1>1. ASSUME NEW c \in Client, AdmitClient(c) PROVE EachCallbackOnce'
  BY <1>1 DEF AdmitClient, callbacks
<1>2. ASSUME NEW c \in Client, Commit(c) PROVE EachCallbackOnce'
  <2>1. /\ read' = [read EXCEPT ![c] = read[c] + 1]
        /\ source[c] = "enabled"
        /\ UNCHANGED <<source, fired, answered>>
    BY <1>2 DEF Commit
  <2>2. 1..(read[c] + 1) = (1..read[c]) \cup {read[c] + 1} /\ read[c] + 1 \notin 1..read[c]
    OBVIOUS
  <2>3. CASE read[c] + 1 \in onSubsurface[c]
    <3>1. cached' = [cached EXCEPT ![c] = cached[c] \cup {read[c] + 1}] /\ UNCHANGED current
      BY <1>2, <2>3 DEF Commit
    <3> QED
      BY <2>1, <2>2, <3>1
  <2>4. CASE read[c] + 1 \notin onSubsurface[c]
    <3>1. /\ cached' = [cached EXCEPT ![c] = {}]
          /\ current' = [current EXCEPT ![c] = current[c] \cup cached[c] \cup {read[c] + 1}]
      BY <1>2, <2>4 DEF Commit
    <3> QED
      BY <2>1, <2>2, <3>1
  <2> QED
    BY <2>3, <2>4
<1>3. ASSUME NEW c \in Client, EndDispatch(c) PROVE EachCallbackOnce'
  <2>1. \A d \in Client : source[d] = "removed" => source'[d] = "removed"
    BY <1>3, ThrottlesType DEF EndDispatch
  <2> QED
    BY <1>3, <2>1 DEF EndDispatch, callbacks
<1>4. ASSUME NEW c \in Client, Departed(c) PROVE EachCallbackOnce'
  <2>1. \A d \in Client : source[d] = "removed" \/ d = c => source'[d] = "removed"
    BY <1>4, DepartedSource
  <2>2. /\ cached' = [cached EXCEPT ![c] = {}] /\ current' = [current EXCEPT ![c] = {}]
        /\ fired' = [fired EXCEPT ![c] = {}] /\ UNCHANGED <<read, answered>>
    BY <1>4 DEF Departed
  <2> QED
    BY <2>1, <2>2
<1>5. ASSUME PingReceived PROVE EachCallbackOnce'
  <2>1. \A d \in Client : source[d] = "removed" => source'[d] = "removed"
    BY <1>5, ThrottlesType DEF PingReceived
  <2> QED
    BY <1>5, <2>1 DEF PingReceived
<1>6. ASSUME FlushClients PROVE EachCallbackOnce'
  BY <1>6 DEF FlushClients
<1>7. CASE UNCHANGED <<read, source, callbacks>>
  BY <1>7 DEF callbacks
<1> QED
  BY <1>1, <1>2, <1>3, <1>4, <1>5, <1>6, <1>7
     DEF Next, Dispatch, SceneThread, Render, ApplyProtocol, TakeSnapshot, Tick, Present, vars,
         Request, Close, DispatchOneClient

LEMMA AlwaysTracked == Spec => []Tracked
<1>1. Init => Tracked
  BY InitTracked
<1>2. Tracked /\ [Next]_vars => Tracked'
  BY NextType, NextReadOnly, NextOnce DEF Tracked
<1> QED
  BY <1>1, <1>2, PTL DEF Spec

(* present takes the list, and a commit moves what was cached: until its     *)
(* client is gone no callback is lost, and none is answered twice.           *)
THEOREM OnceEach == Spec => []EachCallbackOnce
<1>1. Tracked => EachCallbackOnce
  BY DEF Tracked
<1> QED
  BY <1>1, AlwaysTracked, PTL

-----------------------------------------------------------------------------
(* Throttling.  A source is judged right if it was enabled, or if it was     *)
(* disabled for a reason that still holds or no longer does.                 *)
LEMMA Throttling ==
  ASSUME NEW S \in [Client -> {"none", "enabled", "disabled", "removed"}], NEW B, NEW c \in Client,
         Backlog(B, c) \in Nat,
         S[c] = "disabled" => \/ Backlog(B, c) >= MAX_PENDING_FRAME_CALLBACKS
                             \/ Backlog(B, c) < RESUME_PENDING_FRAME_CALLBACKS,
         UpdateThrottles(S, B)[c] \in {"enabled", "disabled"}
  PROVE  UpdateThrottles(S, B)[c] = "enabled" <=> Backlog(B, c) < MAX_PENDING_FRAME_CALLBACKS
BY FrameCallbacksAssumption DEF UpdateThrottles

LEMMA BacklogType ==
  ASSUME TypeOK, ReadOnly, NEW c \in Client
  PROVE  IsFiniteSet(current[c]) /\ Backlog(current, c) \in Nat
<1>1. read[c] \in Nat /\ current[c] \subseteq 1..read[c]
  BY DEF TypeOK, RequestsOK, ReadOnly
<1>2. IsFiniteSet(1..read[c])
  BY <1>1, FS_Interval
<1>3. IsFiniteSet(current[c])
  BY <1>1, <1>2, FS_Subset
<1> QED
  BY <1>3, FS_CardinalityType DEF Backlog

LEMMA NextParked == Tracked /\ ParkedExactlyOverTheLimit /\ [Next]_vars => ParkedExactlyOverTheLimit'
<1> SUFFICES ASSUME Tracked, ParkedExactlyOverTheLimit, [Next]_vars,
                    NEW d \in Client,
                    source'[d] \in {"enabled", "disabled"}, d # dispatching'
             PROVE  source'[d] = "enabled" <=> Backlog(current', d) < MAX_PENDING_FRAME_CALLBACKS
  BY DEF ParkedExactlyOverTheLimit, Admitted, Backlog
<1> USE DEF Tracked, TypeOK, LoopOK
<1>0. Backlog(current, d) \in Nat
  BY BacklogType
<1>1. d # dispatching /\ source[d] \in {"enabled", "disabled"} =>
        (source[d] = "enabled" <=> Backlog(current, d) < MAX_PENDING_FRAME_CALLBACKS)
  BY DEF ParkedExactlyOverTheLimit, Admitted
<1> DEFINE Goal == source'[d] = "enabled" <=> Backlog(current', d) < MAX_PENDING_FRAME_CALLBACKS
<1>2. CASE UNCHANGED <<source, dispatching, current>>
  BY <1>1, <1>2
<1>3. ASSUME NEW c \in Client, AdmitClient(c) PROVE Goal
  <2>1. UNCHANGED <<dispatching, current>> /\ source' = [source EXCEPT ![c] = "enabled"]
        /\ source[c] = "none"
    BY <1>3 DEF AdmitClient, callbacks
  <2>2. current[c] = {}
    <3>1. read[c] = 0 /\ current[c] \subseteq 1..read[c]
      BY <2>1 DEF ReadOnly
    <3> QED
      BY <3>1
  <2>3. Backlog(current, c) = 0
    BY <2>2, FS_EmptySet DEF Backlog
  <2> QED
    BY <1>1, <2>1, <2>3, FrameCallbacksAssumption
<1>4. ASSUME NEW c \in Client, DispatchOneClient(c) PROVE Goal
  BY <1>1, <1>4, FrameCallbacksAssumption DEF DispatchOneClient, callbacks
<1>5. ASSUME NEW c \in Client, Commit(c) PROVE Goal
  <2>1. UNCHANGED <<source, dispatching>> /\ dispatching = c
    BY <1>5 DEF Commit
  <2>2. current'[d] = current[d]
    BY <1>5, <2>1 DEF Commit, CallbacksOK
  <2> QED
    BY <1>1, <2>1, <2>2 DEF Backlog
<1>6. ASSUME NEW c \in Client, EndDispatch(c) PROVE Goal
  <2>1. source' = UpdateThrottles(source, current) /\ current' = current /\ dispatching = c
    BY <1>6 DEF EndDispatch, callbacks
  <2>2. source[d] = "disabled" => Backlog(current, d) >= MAX_PENDING_FRAME_CALLBACKS
    BY <1>0, <1>1, <2>1, FrameCallbacksAssumption
  <2> QED
    BY <1>0, <2>1, <2>2, Throttling
<1>7. ASSUME NEW c \in Client, Departed(c) PROVE Goal
  <2> DEFINE S == [source EXCEPT ![c] = "removed"]
  <2>1. source' = UpdateThrottles(S, current') /\ current' = [current EXCEPT ![c] = {}]
        /\ dispatching = c
    BY <1>7 DEF Departed
  <2>2. d # c
    BY <1>7, DepartedSource
  <2>3. current'[d] = current[d] /\ S[d] = source[d]
    BY <2>1, <2>2 DEF CallbacksOK
  <2>4. Backlog(current', d) = Backlog(current, d)
    BY <2>3 DEF Backlog
  <2>5. S[d] = "disabled" => Backlog(current', d) >= MAX_PENDING_FRAME_CALLBACKS
    BY <1>0, <1>1, <2>1, <2>2, <2>3, <2>4, FrameCallbacksAssumption
  <2>6. S \in [Client -> {"none", "enabled", "disabled", "removed"}]
    OBVIOUS
  <2> HIDE DEF S
  <2> QED
    BY <1>0, <2>1, <2>4, <2>5, <2>6, Throttling
<1>8. ASSUME PingReceived PROVE Goal
  <2>1. source' = UpdateThrottles(source, current') /\ current'[d] = {}
    BY <1>8 DEF PingReceived
  <2>2. Backlog(current', d) = 0
    BY <2>1, FS_EmptySet DEF Backlog
  <2>3. Backlog(current', d) < RESUME_PENDING_FRAME_CALLBACKS
    BY <2>2, FrameCallbacksAssumption
  <2> QED
    BY <2>1, <2>2, <2>3, Throttling
<1> QED
  BY <1>2, <1>3, <1>4, <1>5, <1>6, <1>7, <1>8
     DEF Next, Dispatch, SceneThread, Render, ApplyProtocol, TakeSnapshot, Tick, Present, vars,
         Request, Close, FlushClients, callbacks

(* update_throttles, called at the end of a dispatch and of present: between *)
(* dispatches a client is polled exactly while it is under the limit, for    *)
(* every limit and every mark to resume at that is not above it.             *)
THEOREM ThrottlingIsExact == Spec => []ParkedExactlyOverTheLimit
<1>1. Init => ParkedExactlyOverTheLimit
  BY DEF Init, ParkedExactlyOverTheLimit, Admitted
<1>2. Tracked /\ ParkedExactlyOverTheLimit /\ [Next]_vars => ParkedExactlyOverTheLimit'
  BY NextParked
<1> QED
  BY <1>1, <1>2, AlwaysTracked, PTL DEF Spec

-----------------------------------------------------------------------------
(* Commits travel: dispatch thread, mailbox, scene, snapshot, frame.  None   *)
(* of them knows of a commit that is still to be read, nor of one that a     *)
(* cached callback waits for.                                                *)
LEMMA OlderThanMore ==
  ASSUME TypeOK, NEW c \in Client, NEW m \in Nat, NEW n \in Nat, m <= n, OlderThan(m, c)
  PROVE  OlderThan(n, c)
<1>1. \A k \in 1..Len(mailbox) : mailbox[k].commit \in Nat
  <2> DEFINE M == [client : Client \cup {NoClient}, commit : Nat]
  <2>1. mailbox \in Seq(M)
    BY DEF TypeOK, MailboxOK
  <2>2. \A m1 \in M : m1.commit \in Nat
    OBVIOUS
  <2> HIDE DEF M
  <2> QED
    BY <2>1, <2>2
<1>2. scene[c] \in Nat /\ frame[c] \in Nat /\ presented[c] \in Nat
  BY DEF TypeOK, FramesOK
<1> QED
  BY <1>1, <1>2 DEF OlderThan

LEMMA OlderThanAppended ==
  ASSUME TypeOK, NEW n, NEW d, NEW m, OlderThan(n, d),
         mailbox' = Append(mailbox, m), m.client = d => m.commit < n,
         UNCHANGED <<scene, frame, presented>>
  PROVE  OlderThan(n, d)'
<1>1. \A k \in 1..Len(mailbox') : \/ k \in 1..Len(mailbox) /\ mailbox'[k] = mailbox[k]
                                 \/ mailbox'[k] = m
  BY DEF TypeOK, MailboxOK
<1> QED
  BY <1>1 DEF OlderThan

LEMMA UnreadIsNews ==
  ASSUME TypeOK, CachedIsNews, NEW c \in Client
  PROVE  OlderThan(read[c] + 1, c) /\ OlderThan(read[c] + 2, c)
<1>1. read[c] \in Nat
  BY DEF TypeOK, RequestsOK
<1>2. OlderThan(read[c] + 1, c)
  BY DEF CachedIsNews
<1> QED
  BY <1>1, <1>2, OlderThanMore

LEMMA NextCached == Tracked /\ CachedIsNews /\ [Next]_vars => CachedIsNews'
<1> SUFFICES ASSUME Tracked, CachedIsNews, [Next]_vars,
                    NEW d \in Client, NEW n \in cached'[d] \cup {read'[d] + 1}
             PROVE  OlderThan(n, d)'
  BY DEF CachedIsNews
<1> USE DEF Tracked, TypeOK, RequestsOK, CallbacksOK, MailboxOK, FramesOK, CachedIsNews, OlderThan
<1>1. CASE UNCHANGED <<read, cached, mailbox, scene, frame, presented>>
  BY <1>1
<1>2. ASSUME NEW c \in Client, Commit(c) PROVE OlderThan(n, d)'
  <2>1. read' = [read EXCEPT ![c] = read[c] + 1] /\ UNCHANGED <<scene, frame, presented>>
    BY <1>2 DEF Commit, rendering
  <2>2. OlderThan(read[c] + 1, c) /\ OlderThan(read[c] + 2, c)
    BY UnreadIsNews
  <2>3. CASE read[c] + 1 \in onSubsurface[c]
    <3>1. cached' = [cached EXCEPT ![c] = cached[c] \cup {read[c] + 1}] /\ UNCHANGED mailbox
      BY <1>2, <2>3 DEF Commit
    <3>2. \/ n \in cached[d] \cup {read[d] + 1}
          \/ d = c /\ n = read[c] + 2
      BY <2>1, <3>1
    <3>3. OlderThan(n, d)
      BY <2>2, <3>2
    <3> QED
      BY <2>1, <3>1, <3>3
  <2>4. CASE read[c] + 1 \notin onSubsurface[c]
    <3>1. /\ cached' = [cached EXCEPT ![c] = {}]
          /\ mailbox' = Append(mailbox, Published(c, read[c] + 1))
      BY <1>2, <2>4 DEF Commit
    <3>2. d = c => n = read[c] + 2
      BY <2>1, <3>1
    <3>3. OlderThan(n, d)
      BY <2>1, <2>2, <3>1, <3>2
    <3>4. Published(c, read[c] + 1).client = d => Published(c, read[c] + 1).commit < n
      BY <3>2 DEF Published
    <3> QED
      BY <2>1, <3>1, <3>3, <3>4, OlderThanAppended
  <2> QED
    BY <2>3, <2>4
<1>3. ASSUME NEW c \in Client, Departed(c) PROVE OlderThan(n, d)'
  <2>1. cached' = [cached EXCEPT ![c] = {}] /\ mailbox' = Append(mailbox, Published(c, Gone))
        /\ UNCHANGED <<read, scene, frame, presented>>
    BY <1>3 DEF Departed, rendering
  <2>2. n \in cached[d] \cup {read[d] + 1}
    BY <2>1
  <2>3. OlderThan(n, d) /\ n > 0
    BY <2>2 DEF ReadOnly
  <2>4. Published(c, Gone).client = d => Published(c, Gone).commit < n
    BY <2>3 DEF Published, Gone
  <2> QED
    BY <2>1, <2>3, <2>4, OlderThanAppended
<1>4. ASSUME ApplyProtocol PROVE OlderThan(n, d)'
  <2>1. mailbox # <<>> /\ mailbox' = Tail(mailbox) /\ UNCHANGED <<read, cached, frame, presented>>
        /\ scene' = [scene EXCEPT ![Head(mailbox).client] = Head(mailbox).commit]
    BY <1>4 DEF ApplyProtocol, rendering, callbacks
  <2>2. OlderThan(n, d)
    BY <2>1
  <2>3. \A k \in 1..Len(mailbox') : k + 1 \in 1..Len(mailbox) /\ mailbox'[k] = mailbox[k + 1]
    BY <2>1, MailboxTail
  <2>4. 1 \in 1..Len(mailbox) /\ Head(mailbox) = mailbox[1]
    BY <2>1, MailboxTail
  <2>5. scene'[d] < n
    BY <2>1, <2>2, <2>4
  <2> QED
    BY <2>1, <2>2, <2>3, <2>5
<1>5. ASSUME TakeSnapshot PROVE OlderThan(n, d)'
  <2>1. mailbox # <<>> /\ mailbox' = Tail(mailbox) /\ frame' = scene
        /\ UNCHANGED <<read, cached, scene, presented>>
    BY <1>5 DEF TakeSnapshot, callbacks
  <2>2. \A k \in 1..Len(mailbox') : k + 1 \in 1..Len(mailbox) /\ mailbox'[k] = mailbox[k + 1]
    BY <2>1, MailboxTail
  <2> QED
    BY <2>1, <2>2
<1>6. ASSUME Tick PROVE OlderThan(n, d)'
  <2>1. mailbox' = Append(mailbox, Snapshot) /\ UNCHANGED <<read, cached, scene, frame, presented>>
    BY <1>6 DEF Tick, callbacks
  <2>2. \A k \in 1..Len(mailbox') : \/ k \in 1..Len(mailbox) /\ mailbox'[k] = mailbox[k]
                                   \/ mailbox'[k] = Snapshot
    BY <2>1
  <2> QED
    BY <2>1, <2>2, FrameCallbacksAssumption DEF Snapshot
<1>7. ASSUME Present PROVE OlderThan(n, d)'
  <2>1. presented' = frame /\ frame' = NoFrame /\ UNCHANGED <<read, cached, mailbox, scene>>
    BY <1>7 DEF Present, callbacks
  <2>2. n > 0
    BY <2>1 DEF ReadOnly
  <2> QED
    BY <2>1, <2>2 DEF NoFrame, Gone
<1> QED
  BY <1>1, <1>2, <1>3, <1>4, <1>5, <1>6, <1>7
     DEF Next, Dispatch, SceneThread, Render, vars, clients, callbacks, rendering,
         Request, Close, AdmitClient, DispatchOneClient, EndDispatch, PingReceived, FlushClients

LEMMA NextNoFrame ==
  Tracked /\ CachedIsNews /\ NoFrameLeavesACallback /\ [Next]_vars => NoFrameLeavesACallback'
<1> SUFFICES ASSUME Tracked, CachedIsNews, NoFrameLeavesACallback, [Next]_vars,
                    NEW d \in Client, NEW i \in current'[d], i <= presented'[d]
             PROVE  pinged'
  BY DEF NoFrameLeavesACallback
<1> USE DEF Tracked, TypeOK, RequestsOK, CallbacksOK, FramesOK
<1>1. CASE UNCHANGED <<current, presented, pinged>>
  BY <1>1 DEF NoFrameLeavesACallback
<1>2. ASSUME NEW c \in Client, Commit(c) PROVE pinged'
  <2>1. UNCHANGED <<presented, pinged>>
    BY <1>2 DEF Commit, rendering
  <2>2. i \in current[d] \/ (d = c /\ i \in cached[c] \cup {read[c] + 1})
    BY <1>2 DEF Commit
  <2>3. \A k \in cached[c] \cup {read[c] + 1} : presented[c] < k
    BY DEF CachedIsNews, OlderThan
  <2>4. i \in current[d]
    BY <2>1, <2>2, <2>3
  <2> QED
    BY <2>1, <2>4 DEF NoFrameLeavesACallback
<1>3. ASSUME NEW c \in Client, Departed(c) PROVE pinged'
  <2>1. UNCHANGED <<presented, pinged>> /\ i \in current[d]
    BY <1>3 DEF Departed, rendering
  <2> QED
    BY <2>1 DEF NoFrameLeavesACallback
<1>4. ASSUME PingReceived PROVE pinged'
  BY <1>4 DEF PingReceived
<1>5. ASSUME Present PROVE pinged'
  BY <1>5 DEF Present
<1> QED
  BY <1>1, <1>2, <1>3, <1>4, <1>5
     DEF Next, Dispatch, SceneThread, Render, vars, clients, callbacks, rendering, Request, Close,
         AdmitClient, DispatchOneClient, EndDispatch, FlushClients, ApplyProtocol, TakeSnapshot, Tick

(* The dispatch thread makes a callback due before it sends the commit, so a *)
(* frame cannot show a commit whose callback its ping would miss, whichever  *)
(* of the three threads is how far behind.                                   *)
THEOREM NoFrameIsMissed == Spec => []NoFrameLeavesACallback
<1>1. Init => CachedIsNews /\ NoFrameLeavesACallback
  BY DEF Init, CachedIsNews, NoFrameLeavesACallback, OlderThan, NoFrame, Gone
<1>2. Tracked /\ CachedIsNews /\ NoFrameLeavesACallback /\ [Next]_vars
        => CachedIsNews' /\ NoFrameLeavesACallback'
  BY NextCached, NextNoFrame
<1> QED
  BY <1>1, <1>2, AlwaysTracked, PTL DEF Spec

-----------------------------------------------------------------------------
(* The backlog.  What the client's own surface keeps, Own, grows by one with *)
(* each request that is read.                                                *)
Own(c) == current[c] \ onSubsurface[c]

LEMMA OwnType ==
  ASSUME TypeOK, ReadOnly, NEW c \in Client
  PROVE  /\ IsFiniteSet(Own(c)) /\ Cardinality(Own(c)) \in Nat
         /\ Cardinality(Own(c)) <= Backlog(current, c)
<1>1. IsFiniteSet(current[c])
  BY BacklogType
<1>2. Own(c) \in SUBSET current[c]
  BY DEF Own
<1> QED
  BY <1>1, <1>2, FS_Subset, FS_CardinalityType DEF Backlog

LEMMA NextRoom ==
  Tracked /\ ParkedExactlyOverTheLimit /\ RoomForTheBurst /\ [Next]_vars => RoomForTheBurst'
<1> SUFFICES ASSUME Tracked, ParkedExactlyOverTheLimit, RoomForTheBurst, [Next]_vars, ~FastWriter,
                    NEW d \in Client
             PROVE  /\ sent'[d] - read'[d] <= SocketSize
                    /\ IF dispatching' = d
                       THEN Cardinality(Own(d)') + (sent'[d] - read'[d])
                            < MAX_PENDING_FRAME_CALLBACKS + SocketSize
                       ELSE Cardinality(Own(d)') < MAX_PENDING_FRAME_CALLBACKS + SocketSize
  BY DEF RoomForTheBurst, Own
<1> DEFINE Goal == /\ sent'[d] - read'[d] <= SocketSize
                   /\ IF dispatching' = d
                      THEN Cardinality(Own(d)') + (sent'[d] - read'[d])
                           < MAX_PENDING_FRAME_CALLBACKS + SocketSize
                      ELSE Cardinality(Own(d)') < MAX_PENDING_FRAME_CALLBACKS + SocketSize
           Limit == MAX_PENDING_FRAME_CALLBACKS
<1>a. /\ Limit \in Nat /\ SocketSize \in Nat /\ Limit > 0
      /\ sent[d] \in Nat /\ read[d] \in Nat /\ read[d] <= sent[d]
  BY FrameCallbacksAssumption DEF Tracked, TypeOK, RequestsOK
<1>b. /\ IsFiniteSet(Own(d)) /\ Cardinality(Own(d)) \in Nat
      /\ Cardinality(Own(d)) <= Backlog(current, d) /\ Backlog(current, d) \in Nat
  BY OwnType, BacklogType DEF Tracked
<1>c. /\ sent[d] - read[d] <= SocketSize
      /\ dispatching = d => Cardinality(Own(d)) + (sent[d] - read[d]) < Limit + SocketSize
      /\ dispatching # d => Cardinality(Own(d)) < Limit + SocketSize
  BY DEF RoomForTheBurst, Own
<1>1. CASE UNCHANGED <<sent, read, dispatching, current, onSubsurface>>
  BY <1>1, <1>c DEF Own
<1>2. ASSUME NEW c \in Client, Request(c) PROVE Goal
  <2>1. /\ UNCHANGED <<read, dispatching, current>> /\ dispatching # c
        /\ sent' = [sent EXCEPT ![c] = sent[c] + 1] /\ sent[c] - read[c] < SocketSize
        /\ onSubsurface' \in {onSubsurface,
                             [onSubsurface EXCEPT ![c] = onSubsurface[c] \cup {sent'[c]}]}
    BY <1>2 DEF Request, CanWrite, callbacks
  <2>2. sent'[d] = IF d = c THEN sent[d] + 1 ELSE sent[d]
    BY <2>1 DEF Tracked, TypeOK, RequestsOK
  <2>3. onSubsurface'[d] \in {onSubsurface[d], onSubsurface[d] \cup {sent[d] + 1}}
    BY <2>1, <2>2 DEF Tracked, TypeOK, RequestsOK
  <2>4. sent[d] + 1 \notin current[d]
    BY <1>a DEF Tracked, ReadOnly
  <2>5. Own(d)' = Own(d)
    BY <2>1, <2>3, <2>4 DEF Own
  <2> QED
    BY <1>a, <1>b, <1>c, <2>1, <2>2, <2>5
<1>3. ASSUME NEW c \in Client, DispatchOneClient(c) PROVE Goal
  <2>1. UNCHANGED <<sent, read, current, onSubsurface>> /\ dispatching = NoClient
        /\ dispatching' = c /\ source[c] = "enabled"
    BY <1>3 DEF DispatchOneClient, clients, callbacks
  <2>2. d = c => Backlog(current, d) < Limit
    BY <2>1, FrameCallbacksAssumption DEF ParkedExactlyOverTheLimit, Admitted
  <2>3. dispatching # d
    BY <2>1, FrameCallbacksAssumption
  <2> QED
    BY <1>a, <1>b, <1>c, <2>1, <2>2, <2>3 DEF Own
<1>4. ASSUME NEW c \in Client, Commit(c) PROVE Goal
  <2>1. UNCHANGED <<sent, dispatching, onSubsurface>> /\ dispatching = c /\ read[c] < sent[c]
        /\ read' = [read EXCEPT ![c] = read[c] + 1]
    BY <1>4 DEF Commit, clients
  <2>2. CASE d # c
    <3>1. current'[d] = current[d]
      BY <1>4, <2>2 DEF Commit, Tracked, TypeOK, CallbacksOK
    <3>2. read'[d] = read[d] /\ Own(d)' = Own(d)
      BY <2>1, <2>2, <3>1 DEF Own, Tracked, TypeOK, RequestsOK
    <3> QED
      BY <1>c, <2>1, <2>2, <3>2
  <2>3. CASE d = c
    <3>1. read'[d] = read[d] + 1
      BY <2>1, <2>3 DEF Tracked, TypeOK, RequestsOK
    <3>2. Own(d)' \in {Own(d), Own(d) \cup {read[d] + 1}}
      <4>1. CASE read[d] + 1 \in onSubsurface[d]
        <5>1. UNCHANGED current
          BY <1>4, <2>3, <4>1 DEF Commit
        <5> QED
          BY <2>1, <5>1 DEF Own
      <4>2. CASE read[d] + 1 \notin onSubsurface[d]
        <5>1. current'[d] = current[d] \cup cached[d] \cup {read[d] + 1}
          BY <1>4, <2>3, <4>2 DEF Commit, Tracked, TypeOK, CallbacksOK
        <5>2. cached[d] \subseteq onSubsurface[d]
          BY DEF Tracked, ReadOnly
        <5> QED
          BY <2>1, <4>2, <5>1, <5>2 DEF Own
      <4> QED
        BY <4>1, <4>2
    <3>3. Cardinality(Own(d)') \in {Cardinality(Own(d)), Cardinality(Own(d)) + 1}
      BY <1>b, <3>2, FS_AddElement
    <3> QED
      BY <1>a, <1>b, <1>c, <2>1, <2>3, <3>1, <3>3
  <2> QED
    BY <2>2, <2>3
<1>5. ASSUME NEW c \in Client, EndDispatch(c) PROVE Goal
  <2>1. UNCHANGED <<sent, read, current, onSubsurface>> /\ dispatching = c
        /\ dispatching' = NoClient
    BY <1>5 DEF EndDispatch, clients, callbacks
  <2>2. dispatching' # d
    BY <2>1, FrameCallbacksAssumption
  <2> QED
    BY <1>a, <1>b, <1>c, <2>1, <2>2 DEF Own
<1>6. ASSUME NEW c \in Client, Departed(c) PROVE Goal
  <2>1. UNCHANGED <<sent, read, onSubsurface>> /\ dispatching' = NoClient
        /\ current' = [current EXCEPT ![c] = {}] /\ dispatching = c
    BY <1>6 DEF Departed, clients
  <2>2. dispatching' # d
    BY <2>1, FrameCallbacksAssumption
  <2>3. CASE d = c
    <3>1. Own(d)' = {}
      BY <2>1, <2>3 DEF Own, Tracked, TypeOK, CallbacksOK
    <3>2. Cardinality(Own(d)') = 0
      BY <3>1, FS_EmptySet
    <3> QED
      BY <1>a, <1>c, <2>1, <2>2, <3>2
  <2>4. CASE d # c
    <3>1. Own(d)' = Own(d)
      BY <2>1, <2>4 DEF Own, Tracked, TypeOK, CallbacksOK
    <3> QED
      BY <1>c, <2>1, <2>2, <2>4, <3>1
  <2> QED
    BY <2>3, <2>4
<1>7. ASSUME PingReceived PROVE Goal
  <2>1. UNCHANGED <<sent, read, dispatching, onSubsurface>> /\ dispatching = NoClient
        /\ current'[d] = {}
    BY <1>7 DEF PingReceived, clients
  <2>2. Own(d)' = {}
    BY <2>1 DEF Own
  <2>3. Cardinality(Own(d)') = 0 /\ dispatching' # d
    BY <2>1, <2>2, FS_EmptySet, FrameCallbacksAssumption
  <2> QED
    BY <1>a, <1>c, <2>1, <2>3
<1>8. CASE \/ FlushClients \/ SceneThread \/ Render \/ UNCHANGED vars
           \/ \E c \in Client : Close(c) \/ AdmitClient(c)
  <2>1. UNCHANGED <<sent, read, dispatching, current, onSubsurface>>
    BY <1>8 DEF SceneThread, Render, vars, clients, callbacks, rendering, Close, AdmitClient,
                FlushClients, ApplyProtocol, TakeSnapshot, Tick, Present
  <2> QED
    BY <1>1, <2>1
<1>9. \/ PingReceived \/ FlushClients \/ SceneThread \/ Render \/ UNCHANGED vars
      \/ \E c \in Client : Close(c) \/ AdmitClient(c)
      \/ \E c \in Client : \/ Request(c) \/ DispatchOneClient(c) \/ Commit(c)
                           \/ EndDispatch(c) \/ Departed(c)
  BY DEF Next, Dispatch
<1>10. ASSUME NEW c \in Client,
              Request(c) \/ DispatchOneClient(c) \/ Commit(c) \/ EndDispatch(c) \/ Departed(c)
       PROVE  Goal
  BY ONLY <1>2, <1>3, <1>4, <1>5, <1>6, <1>10, c \in Client
<1> QED
  BY <1>7, <1>8, <1>9, <1>10

(* A dispatch begins under the limit and reads one socket: the callbacks of a*)
(* client's own surface never exceed both together, for every limit, every   *)
(* socket and any number of clients.                                         *)
THEOREM BoundedBacklog == Spec => []BacklogIsBounded
<1>1. Init => RoomForTheBurst
  <2> SUFFICES ASSUME Init, NEW c \in Client
               PROVE  /\ sent[c] - read[c] <= SocketSize /\ dispatching # c
                      /\ Cardinality(current[c] \ onSubsurface[c])
                         < MAX_PENDING_FRAME_CALLBACKS + SocketSize
    BY DEF RoomForTheBurst
  <2>1. sent[c] = 0 /\ read[c] = 0 /\ dispatching = NoClient
        /\ current[c] \ onSubsurface[c] = {}
    BY DEF Init
  <2>2. Cardinality(current[c] \ onSubsurface[c]) = 0
    BY <2>1, FS_EmptySet
  <2> QED
    BY <2>1, <2>2, FrameCallbacksAssumption
<1>2. Tracked /\ ParkedExactlyOverTheLimit /\ RoomForTheBurst /\ [Next]_vars => RoomForTheBurst'
  BY NextRoom
<1>3. Tracked /\ RoomForTheBurst => BacklogIsBounded
  <2> SUFFICES ASSUME Tracked, RoomForTheBurst, ~FastWriter, NEW c \in Client
               PROVE  Cardinality(Own(c)) < MAX_PENDING_FRAME_CALLBACKS + SocketSize
    BY DEF BacklogIsBounded, Own
  <2>1. Cardinality(Own(c)) \in Nat /\ sent[c] \in Nat /\ read[c] \in Nat /\ read[c] <= sent[c]
    BY OwnType DEF Tracked, TypeOK, RequestsOK
  <2>2. \/ Cardinality(Own(c)) < MAX_PENDING_FRAME_CALLBACKS + SocketSize
        \/ Cardinality(Own(c)) + (sent[c] - read[c]) < MAX_PENDING_FRAME_CALLBACKS + SocketSize
    BY DEF RoomForTheBurst, Own
  <2> QED
    BY <2>1, <2>2, FrameCallbacksAssumption
<1> QED
  BY <1>1, <1>2, <1>3, AlwaysTracked, ThrottlingIsExact, PTL DEF Spec

-----------------------------------------------------------------------------
(* No `done` before its commit.  The scene thread knows of commit i of a     *)
(* client, or a message will tell it.                                        *)
Known(c, i) ==
  \/ i <= scene[c]
  \/ \E k \in 1..Len(mailbox) : mailbox[k].client = c /\ i <= mailbox[k].commit

(* What is said of a client that has not hung up only grows, along the       *)
(* mailbox and from the scene to the mailbox.                                *)
InOrder ==
  \A c \in Client \ closed : \A l \in 1..Len(mailbox) : mailbox[l].client = c =>
    /\ scene[c] <= mailbox[l].commit
    /\ \A k \in 1..(l - 1) : mailbox[k].client = c => mailbox[k].commit <= mailbox[l].commit

DueIsKnown ==
  \A c \in Client \ closed : \A i \in current[c] \cup fired[c] \cup answered[c] : Known(c, i)

LEMMA MessagesTyped == MailboxOK => \A k \in 1..Len(mailbox) : mailbox[k].commit \in Nat
<1> DEFINE Messages == [client : Client \cup {NoClient}, commit : Nat]
<1>1. \A m \in Messages : m.commit \in Nat
  OBVIOUS
<1> HIDE DEF Messages
<1>2. ASSUME mailbox \in Seq(Messages), NEW k \in 1..Len(mailbox) PROVE mailbox[k] \in Messages
  BY <1>2
<1> QED
  BY <1>1, <1>2 DEF MailboxOK, Messages

(* A message that is appended takes nothing from what is known, and is in    *)
(* order if it is of a client that hung up, or newer than all there is.      *)
LEMMA AppendedInOrder ==
  ASSUME MailboxOK, FramesOK, InOrder,
         NEW x \in [client : Client \cup {NoClient}, commit : Nat],
         mailbox' = Append(mailbox, x), UNCHANGED scene, closed' = closed,
         x.client \in Client \ closed => OlderThan(x.commit, x.client)
  PROVE  /\ InOrder'
         /\ \A c \in Client, i \in Nat : Known(c, i) => Known(c, i)'
         /\ \A i \in Nat : i <= x.commit => Known(x.client, i)'
<1>1. mailbox \in Seq([client : Client \cup {NoClient}, commit : Nat])
  BY DEF MailboxOK
<1>2. /\ Len(mailbox) \in Nat /\ Len(mailbox') = Len(mailbox) + 1
      /\ mailbox'[Len(mailbox) + 1] = x
      /\ \A k \in 1..Len(mailbox) : mailbox'[k] = mailbox[k]
  BY <1>1
<1>3. \A c \in Client, i \in Nat : Known(c, i) => Known(c, i)'
  BY <1>2 DEF Known
<1>4. \A i \in Nat : i <= x.commit => Known(x.client, i)'
  BY <1>2 DEF Known
<1>5. InOrder'
  <2> SUFFICES ASSUME NEW c \in Client \ closed, NEW l \in 1..Len(mailbox'),
                      mailbox'[l].client = c
               PROVE  /\ scene[c] <= mailbox'[l].commit
                      /\ \A k \in 1..(l - 1) : mailbox'[k].client = c =>
                           mailbox'[k].commit <= mailbox'[l].commit
    BY DEF InOrder
  <2>1. CASE l \in 1..Len(mailbox)
    <3>1. \A k \in 1..(l - 1) : k \in 1..Len(mailbox)
      BY <1>2, <2>1
    <3> QED
      BY <1>2, <2>1, <3>1 DEF InOrder
  <2>2. CASE l = Len(mailbox) + 1
    <3>1. OlderThan(x.commit, c) /\ x.client = c
      BY <1>2, <2>2
    <3>2. /\ scene[c] < x.commit
          /\ \A k \in 1..Len(mailbox) : mailbox[k].client = c => mailbox[k].commit < x.commit
      BY <3>1 DEF OlderThan
    <3>3. scene[c] \in Nat /\ x.commit \in Nat
      BY DEF FramesOK
    <3>4. \A k \in 1..Len(mailbox) : mailbox[k].commit \in Nat
      BY MessagesTyped
    <3>5. \A k \in 1..(l - 1) : k \in 1..Len(mailbox)
      BY <1>2, <2>2
    <3> QED
      BY <1>2, <2>2, <3>2, <3>3, <3>4, <3>5
  <2> QED
    BY <1>2, <2>1, <2>2
<1> QED
  BY <1>3, <1>4, <1>5

(* The scene thread handles the oldest message.                              *)
LEMMA HandledInOrder ==
  ASSUME MailboxOK, FramesOK, InOrder, ApplyProtocol \/ TakeSnapshot
  PROVE  /\ InOrder'
         /\ \A c \in Client \ closed : \A i \in Nat : Known(c, i) => Known(c, i)'
<1>1. /\ mailbox # <<>> /\ mailbox' = Tail(mailbox) /\ closed' = closed
      /\ \/ scene' = [scene EXCEPT ![Head(mailbox).client] = Head(mailbox).commit]
         \/ scene' = scene /\ Head(mailbox).client = NoClient
  BY DEF ApplyProtocol, TakeSnapshot, Snapshot, clients
<1>2. /\ Len(mailbox') = Len(mailbox) - 1
      /\ \A k \in 1..Len(mailbox') : k + 1 \in 1..Len(mailbox) /\ mailbox'[k] = mailbox[k + 1]
      /\ 1 \in 1..Len(mailbox) /\ Head(mailbox) = mailbox[1]
  BY <1>1, MailboxTail
<1>3. \A k \in 1..Len(mailbox) : mailbox[k].commit \in Nat
  BY MessagesTyped
<1>4. ASSUME NEW c \in Client
      PROVE  scene'[c] = IF mailbox[1].client = c THEN mailbox[1].commit ELSE scene[c]
  BY <1>1, <1>2, FrameCallbacksAssumption DEF FramesOK
<1>5. ASSUME NEW c \in Client \ closed, NEW i \in Nat, Known(c, i) PROVE Known(c, i)'
  <2>1. CASE i <= scene[c]
    <3>1. scene[c] \in Nat /\ (mailbox[1].client = c => scene[c] <= mailbox[1].commit)
      BY <1>2 DEF InOrder, FramesOK
    <3>2. i <= scene'[c]
      BY <1>2, <1>3, <1>4, <2>1, <3>1
    <3> QED
      BY <3>2 DEF Known
  <2>2. CASE \E k \in 1..Len(mailbox) : mailbox[k].client = c /\ i <= mailbox[k].commit
    <3>1. PICK k \in 1..Len(mailbox) : mailbox[k].client = c /\ i <= mailbox[k].commit
      BY <2>2
    <3>2. CASE k = 1
      BY <1>4, <3>1, <3>2 DEF Known
    <3>3. CASE k # 1
      <4>1. k - 1 \in 1..Len(mailbox') /\ (k - 1) + 1 = k
        BY <1>2, <3>3
      <4>2. mailbox'[k - 1] = mailbox[k]
        BY <1>2, <4>1
      <4> QED
        BY <3>1, <4>1, <4>2 DEF Known
    <3> QED
      BY <3>2, <3>3
  <2> QED
    BY <1>5, <2>1, <2>2 DEF Known
<1>6. InOrder'
  <2> SUFFICES ASSUME NEW c \in Client \ closed, NEW l \in 1..Len(mailbox'),
                      mailbox'[l].client = c
               PROVE  /\ scene'[c] <= mailbox'[l].commit
                      /\ \A k \in 1..(l - 1) : mailbox'[k].client = c =>
                           mailbox'[k].commit <= mailbox'[l].commit
    BY <1>1 DEF InOrder
  <2>1. l + 1 \in 1..Len(mailbox) /\ mailbox'[l] = mailbox[l + 1] /\ 1 \in 1..((l + 1) - 1)
    BY <1>2
  <2>2. /\ scene[c] <= mailbox[l + 1].commit
        /\ \A k \in 1..((l + 1) - 1) : mailbox[k].client = c =>
             mailbox[k].commit <= mailbox[l + 1].commit
    BY <2>1 DEF InOrder
  <2>3. scene'[c] <= mailbox'[l].commit
    BY <1>4, <2>1, <2>2
  <2>4. ASSUME NEW k \in 1..(l - 1), mailbox'[k].client = c
        PROVE  mailbox'[k].commit <= mailbox'[l].commit
    <3>1. k \in 1..Len(mailbox') /\ k + 1 \in 1..((l + 1) - 1)
      BY <1>2
    <3>2. mailbox'[k] = mailbox[k + 1]
      BY <1>2, <3>1
    <3> QED
      BY <2>1, <2>2, <2>4, <3>1, <3>2
  <2> QED
    BY <2>3, <2>4
<1> QED
  BY <1>5, <1>6

LEMMA NextDue ==
  Tracked /\ CachedIsNews /\ InOrder /\ DueIsKnown /\ [Next]_vars => InOrder' /\ DueIsKnown'
<1> SUFFICES ASSUME Tracked, CachedIsNews, InOrder, DueIsKnown, [Next]_vars
             PROVE  InOrder' /\ DueIsKnown'
  OBVIOUS
<1> USE DEF Tracked, TypeOK, RequestsOK, CallbacksOK
<1>0. ASSUME NEW c \in Client
      PROVE  current[c] \cup fired[c] \cup answered[c] \subseteq Nat
  OBVIOUS
<1>1. ASSUME UNCHANGED <<scene, mailbox>>, closed \subseteq closed',
             \A c \in Client : current'[c] \cup fired'[c] \cup answered'[c]
                                 \subseteq current[c] \cup fired[c] \cup answered[c]
      PROVE  InOrder' /\ DueIsKnown'
  <2>1. \A c \in Client, i \in Nat : Known(c, i)' <=> Known(c, i)
    BY <1>1 DEF Known
  <2>2. InOrder'
    BY <1>1 DEF InOrder
  <2>3. ASSUME NEW c \in Client \ closed',
               NEW i \in current'[c] \cup fired'[c] \cup answered'[c]
        PROVE  Known(c, i)'
    <3>1. c \in Client \ closed /\ i \in current[c] \cup fired[c] \cup answered[c]
      BY <1>1
    <3> QED
      BY <1>0, <2>1, <3>1 DEF DueIsKnown
  <2> QED
    BY <2>2, <2>3 DEF DueIsKnown
<1>2. ASSUME NEW c \in Client, Commit(c) PROVE InOrder' /\ DueIsKnown'
  <2>1. UNCHANGED <<closed, fired, answered, scene>>
    BY <1>2 DEF Commit, clients
  <2>2. CASE read[c] + 1 \in onSubsurface[c]
    <3>1. UNCHANGED <<current, mailbox>>
      BY <1>2, <2>2 DEF Commit
    <3> QED
      BY <1>1, <2>1, <3>1
  <2>3. CASE read[c] + 1 \notin onSubsurface[c]
    <3> DEFINE n == read[c] + 1
    <3>1. /\ current' = [current EXCEPT ![c] = current[c] \cup cached[c] \cup {n}]
          /\ mailbox' = Append(mailbox, Published(c, n))
      BY <1>2, <2>3 DEF Commit
    <3>2. /\ Published(c, n) \in [client : Client \cup {NoClient}, commit : Nat]
          /\ Published(c, n).client = c /\ Published(c, n).commit = n
          /\ OlderThan(n, c)
      BY DEF Published, CachedIsNews
    <3>3. /\ InOrder'
          /\ \A d \in Client, i \in Nat : Known(d, i) => Known(d, i)'
          /\ \A i \in Nat : i <= n => Known(c, i)'
      BY <2>1, <3>1, <3>2, AppendedInOrder
    <3>4. ASSUME NEW d \in Client \ closed, NEW i \in current'[d] \cup fired'[d] \cup answered'[d]
          PROVE  Known(d, i)'
      <4>1. \/ i \in current[d] \cup fired[d] \cup answered[d]
            \/ d = c /\ i \in cached[c] \cup {n}
        BY <2>1, <3>1
      <4>2. i \in Nat /\ (i \in cached[c] \cup {n} => i <= n)
        BY <4>1 DEF ReadOnly
      <4> QED
        BY <3>3, <4>1, <4>2 DEF DueIsKnown
    <3> QED
      BY <2>1, <3>3, <3>4 DEF DueIsKnown
  <2> QED
    BY <2>2, <2>3
<1>3. ASSUME NEW c \in Client, Departed(c) PROVE InOrder' /\ DueIsKnown'
  <2>1. /\ c \in closed /\ UNCHANGED <<closed, answered, scene>>
        /\ current' = [current EXCEPT ![c] = {}] /\ fired' = [fired EXCEPT ![c] = {}]
        /\ mailbox' = Append(mailbox, Published(c, Gone))
    BY <1>3 DEF Departed, clients
  <2>2. /\ Published(c, Gone) \in [client : Client \cup {NoClient}, commit : Nat]
        /\ Published(c, Gone).client = c
    BY DEF Published, Gone
  <2>3. InOrder' /\ \A d \in Client, i \in Nat : Known(d, i) => Known(d, i)'
    BY <2>1, <2>2, AppendedInOrder
  <2>4. \A d \in Client : current'[d] \cup fired'[d] \cup answered'[d]
                            \subseteq current[d] \cup fired[d] \cup answered[d]
    BY <2>1
  <2> QED
    BY <1>0, <2>1, <2>3, <2>4 DEF DueIsKnown
<1>4. ASSUME ApplyProtocol \/ TakeSnapshot PROVE InOrder' /\ DueIsKnown'
  <2>1. UNCHANGED <<closed, current, fired, answered>>
    BY <1>4 DEF ApplyProtocol, TakeSnapshot, clients, callbacks
  <2>2. InOrder' /\ \A d \in Client \ closed : \A i \in Nat : Known(d, i) => Known(d, i)'
    BY <1>4, HandledInOrder
  <2> QED
    BY <1>0, <2>1, <2>2 DEF DueIsKnown
<1>5. ASSUME Tick PROVE InOrder' /\ DueIsKnown'
  <2>1. /\ mailbox' = Append(mailbox, Snapshot)
        /\ UNCHANGED <<closed, current, fired, answered, scene>>
    BY <1>5 DEF Tick, clients, callbacks
  <2>2. /\ Snapshot \in [client : Client \cup {NoClient}, commit : Nat]
        /\ Snapshot.client \notin Client
    BY FrameCallbacksAssumption DEF Snapshot, Gone
  <2>3. InOrder' /\ \A d \in Client, i \in Nat : Known(d, i) => Known(d, i)'
    BY <2>1, <2>2, AppendedInOrder
  <2> QED
    BY <1>0, <2>1, <2>3 DEF DueIsKnown
<1>6. ASSUME PingReceived PROVE InOrder' /\ DueIsKnown'
  <2>1. /\ UNCHANGED <<closed, answered, scene, mailbox>>
        /\ \A c \in Client : fired'[c] = fired[c] \cup current[c] /\ current'[c] = {}
    BY <1>6 DEF PingReceived, clients
  <2> QED
    BY <1>1, <2>1
<1>7. ASSUME FlushClients PROVE InOrder' /\ DueIsKnown'
  <2>1. /\ UNCHANGED <<closed, current, scene, mailbox>>
        /\ \A c \in Client : answered'[c] = answered[c] \cup fired[c] /\ fired'[c] = {}
    BY <1>7 DEF FlushClients, clients
  <2> QED
    BY <1>1, <2>1
<1>8. CASE \/ Present \/ UNCHANGED vars
           \/ \E c \in Client : \/ Request(c) \/ Close(c) \/ AdmitClient(c)
                                \/ DispatchOneClient(c) \/ EndDispatch(c)
  <2>1. UNCHANGED <<current, fired, answered, scene, mailbox>> /\ closed \subseteq closed'
    BY <1>8 DEF Present, vars, clients, callbacks, rendering, Request, Close, AdmitClient,
                DispatchOneClient, EndDispatch
  <2> QED
    BY <1>1, <2>1
<1> QED
  BY <1>2, <1>3, <1>4, <1>5, <1>6, <1>7, <1>8 DEF Next, Dispatch, SceneThread, Render

(* A callback becomes due in the handler that sends its commit, a            *)
(* synchronized subsurface's in the one that sends its parent's, and what    *)
(* the mailbox says of a client is in order: no `done` is fired before that  *)
(* commit was sent to the scene thread.  It may still be in the mailbox, and *)
(* a frame of before it may be the one that fires the callback.              *)
THEOREM DoneFollowsTheCommit == Spec => []NoDoneBeforeItsCommit
<1>1. Init => CachedIsNews /\ InOrder /\ DueIsKnown
  BY DEF Init, CachedIsNews, OlderThan, NoFrame, Gone, InOrder, DueIsKnown
<1>2. Tracked /\ CachedIsNews /\ InOrder /\ DueIsKnown /\ [Next]_vars
        => CachedIsNews' /\ InOrder' /\ DueIsKnown'
  BY NextCached, NextDue
<1>3. DueIsKnown => NoDoneBeforeItsCommit
  BY DEF DueIsKnown, Known, NoDoneBeforeItsCommit
<1> QED
  BY <1>1, <1>2, <1>3, AlwaysTracked, PTL DEF Spec
=============================================================================
