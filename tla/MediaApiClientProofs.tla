------------------------- MODULE MediaApiClientProofs -------------------------
(***************************************************************************)
(* Proofs about MediaApiClient, for any callers, bounds and intervals.     *)
(*                                                                         *)
(* The invariant is a conjunction of parts, each of which is kept by every *)
(* step that starts in a state where all of them hold: how OnJoined        *)
(* relates to the state and the lock, how OnDisconnected relates to the    *)
(* state and the connection, where an OK status can come from, what the    *)
(* destructor has already stopped, and where the statistics loop is.       *)
(***************************************************************************)
EXTENDS MediaApiClient, TLAPS, FiniteSetTheorems

\* OnJoined: the lock is held from the change to joined to the callback's end.
JoinedInv ==
  /\ netPc = "onJoined" <=> mutex = "network"
  /\ netPc = "onJoined" => state = "joined" /\ joinedCalls = 0
  /\ state \in {"ready", "connecting", "joining"} => joinedCalls = 0
  /\ state = "joined" => joinedCalls = 1 \/ netPc = "onJoined"
  /\ JoinedSeenAfterOnJoined

\* OnDisconnected: the state changes first, the connection is closed next.
DisconnectInv ==
  /\ clientPc \in {"closing", "notifying"} =>
       state = "disconnected" /\ disconnectedCalls = 0
  /\ clientPc = "notifying" => pc = "closed"
  /\ clientPc = "sendStats" => state # "disconnected"
  /\ disconnectedCalls \in {0, 1}
  /\ disconnectedCalls = 1 => state = "disconnected" /\ pc = "closed"
  /\ pc = "closed" => netPc = "idle"

\* Some thread saw the client before it had joined.
EarlyLeave == \E c \in Callers : seen[c] \in {"ready", "connecting", "joining"}

\* The status of a task in queue q names a cause that there was.
CauseQueue(q) ==
  \A i \in 1..Len(q) :
    /\ q[i].status = "ok" => server = "disconnected"
    /\ q[i].status = "leave_before_joined" => EarlyLeave

\* A status keeps its cause from the task to the observer.
StatusInv ==
  /\ netPc = "handle" /\ netMsg = "disconnected" => server = "disconnected"
  /\ CauseQueue(queue)
  /\ closing = "ok" \/ lastStatus = "ok" => server = "disconnected"
  /\ closing = "leave_before_joined" \/ lastStatus = "leave_before_joined" => EarlyLeave
  /\ \A c \in Callers : callerPc[c] = "leaving" => seen[c] \notin {"none", "disconnected"}

\* The destructor's own tasks are in queue q only while it waits for them, and
\* at most once.
DestructorTasks == {"kill", "resetTracks"}

DestroyQueue(q) ==
  \A i \in 1..Len(q) :
    /\ q[i].kind = "kill" => dtorPc = "killing"
    /\ q[i].kind = "resetTracks" => dtorPc = "resetting"
    /\ \A j \in 1..Len(q) :
         q[i].kind = q[j].kind /\ q[i].kind \in DestructorTasks => i = j

\* The destructor: one step after the other, each stopping more.
DestroyInv ==
  /\ ~alive <=> dtorPc \in {"closing", "resetting", "destroying", "destroyed"}
  /\ ~alive => clientPc = "idle"
  /\ dtorPc # "none" => \A c \in Callers : callerPc[c] = "idle"
  /\ dtorPc \in {"resetting", "destroying", "destroyed"} => pc = "closed"
  /\ dtorPc \in {"destroying", "destroyed"} => tracks # "signaled"
  /\ dtorPc = "destroyed" => queue = <<>> /\ timers = 0 /\ statsPending = 0
  /\ DestroyQueue(queue)

\* Statistics: the one configuration starts the one loop.
StatsInv ==
  /\ configs \in {0, 1}
  /\ configs = 0 => StatsLoops = 0
  /\ netPc = "handle" /\ netMsg = "stats" => configs = 1 /\ StatsLoops = 0
  /\ SingleStatsLoop

Inv == TypeOK /\ JoinedInv /\ DisconnectInv /\ StatusInv /\ DestroyInv /\ StatsInv

-----------------------------------------------------------------------------
(***************************************************************************)
(* Type correctness.                                                       *)
(***************************************************************************)

\* Posting a task keeps the queue a sequence of tasks.
LEMMA QueueAppend ==
  ASSUME NEW q \in Seq(Tasks), NEW t \in Tasks
  PROVE  Append(q, t) \in Seq(Tasks)
OBVIOUS

\* Taking the first task yields a task and leaves a sequence of tasks.
LEMMA QueueTail ==
  ASSUME NEW q \in Seq(Tasks), q # <<>>
  PROVE  Head(q) \in Tasks /\ Tail(q) \in Seq(Tasks)
OBVIOUS

\* Closing the peer connection posts a disconnection at most.
LEMMA AfterCloseTyped ==
  ASSUME TypeOK
  PROVE  QueuesAfterClose \subseteq Seq(Tasks)
<1>1. DisconnectTask("peer_closed") \in Tasks
  BY DEF DisconnectTask, Tasks, TaskKinds, GuardedKinds, Statuses, Errors
<1>2. queue \in Seq(Tasks)
  BY DEF TypeOK
<1>3. Append(queue, DisconnectTask("peer_closed")) \in Seq(Tasks)
  BY <1>1, <1>2, QueueAppend
<1>. QED
  BY <1>2, <1>3 DEF QueuesAfterClose

\* Every variable keeps its type, for any number of callers and any bounds.
THEOREM TypeCorrect == Spec => []TypeOK
<1>1. Init => TypeOK
  <2> SUFFICES ASSUME Init PROVE TypeOK
    OBVIOUS
  <2>1. alive \in BOOLEAN /\ leaveSent \in BOOLEAN
    BY Zenon DEF Init
  <2>2. queue \in Seq(Tasks) /\ callerPc \in [Callers -> {"idle"}]
      /\ seen \in [Callers -> {"none"}]
    BY DEF Init
  <2>. QED
    BY <2>1, <2>2 DEF Init, TypeOK, States, Statuses, Errors, Updates, ConnectSteps
<1>2. TypeOK /\ [Next]_vars => TypeOK'
  <2> SUFFICES ASSUME TypeOK, [Next]_vars PROVE TypeOK'
    OBVIOUS
  <2> USE IntervalsAssumption
      DEF TypeOK, Tasks, TaskKinds, GuardedKinds, Statuses, Errors, States,
          ConnectSteps, Updates, vars, callVars, appVars, clientVars, netVars,
          dtorVars, linkVars, statsVars, serverVars, boundVars
  <2>1. ASSUME NEW c \in Callers, ConnectActiveConference(c) PROVE TypeOK'
    BY <2>1 DEF ConnectActiveConference, InUse
  <2>2. ASSUME NEW c \in Callers, PostConnect(c) PROVE TypeOK'
    BY <2>2 DEF PostConnect, Task
  <2>3. ASSUME NEW c \in Callers, LeaveRead(c) PROVE TypeOK'
    BY <2>3 DEF LeaveRead, InUse
  <2>4. ASSUME NEW c \in Callers, LeaveSend(c) PROVE TypeOK'
    <3>1. queue' \in Seq(Tasks)
      BY <2>4, QueueAppend DEF LeaveSend, DisconnectTask
    <3>2. QED
      BY <2>4, <3>1 DEF LeaveSend
  <2>5. CASE DropDeadTask
    BY <2>5 DEF DropDeadTask
  <2>6. CASE RunConnect
    BY <2>6 DEF RunConnect, Takes
  <2>7. CASE ConnectProgress
    BY <2>7 DEF ConnectProgress
  <2>8. CASE SetRemote
    BY <2>8 DEF SetRemote
  <2>9. CASE ConnectFails
    BY <2>9 DEF ConnectFails, DisconnectWith
  <2>10. CASE StartJoining
    BY <2>10 DEF StartJoining
  <2>11. CASE RunDisconnect
    <3>1. Head(queue) \in Tasks /\ Tail(queue) \in Seq(Tasks)
      BY <2>11, QueueTail DEF RunDisconnect, Takes
    <3>2. QED
      BY <2>11, <3>1 DEF RunDisconnect, Takes, DisconnectWith
  <2>12. CASE CloseConnection
    <3>1. queue' \in Seq(Tasks)
      BY <2>12, AfterCloseTyped DEF CloseConnection
    <3>2. QED
      BY <2>12, <3>1 DEF CloseConnection
  <2>13. CASE NotifyDisconnected
    BY <2>13 DEF NotifyDisconnected
  <2>14. CASE RunCollectStats
    BY <2>14 DEF RunCollectStats, Takes
  <2>15. CASE RunReport
    BY <2>15 DEF RunReport, Takes
  <2>16. CASE SendStats
    BY <2>16 DEF SendStats
  <2>17. CASE RunAudio
    BY <2>17 DEF RunAudio, Takes
  <2>18. CASE RunKill
    <3>1. queue' \in Seq(Tasks)
      BY <2>18, QueueTail DEF RunKill, Takes
    <3>2. alive' \in BOOLEAN
      BY <2>18, Zenon DEF RunKill
    <3>3. QED
      BY <2>18, <3>1, <3>2 DEF RunKill
  <2>19. CASE RunResetTracks
    BY <2>19 DEF RunResetTracks, Takes
  <2>20. ASSUME NEW m \in Updates, Deliver(m) PROVE TypeOK'
    BY <2>20 DEF Deliver, Sends
  <2>21. CASE HandleOther
    BY <2>21 DEF HandleOther
  <2>22. CASE HandleJoined
    BY <2>22 DEF HandleJoined
  <2>23. CASE OnJoined
    BY <2>23 DEF OnJoined
  <2>24. CASE HandleDisconnected
    BY <2>24 DEF HandleDisconnected, DisconnectTask
  <2>25. CASE HandleStats
    BY <2>25 DEF HandleStats, Task
  <2>26. CASE ConnectionUp
    BY <2>26 DEF ConnectionUp
  <2>27. CASE ConnectionFails
    BY <2>27 DEF ConnectionFails
  <2>28. CASE ConnectionCloses
    BY <2>28 DEF ConnectionCloses, DisconnectTask
  <2>29. CASE DeliverStats
    BY <2>29 DEF DeliverStats, Task
  <2>30. CASE FireTimer
    BY <2>30 DEF FireTimer, Task
  <2>31. CASE OnAudioData
    BY <2>31 DEF OnAudioData, Task
  <2>32. CASE OnVideoFrame
    BY <2>32 DEF OnVideoFrame
  <2>33. CASE BeginDestroy
    BY <2>33 DEF BeginDestroy, Task, InUse
  <2>34. CASE DestroyClose
    <3>1. Task("resetTracks") \in Tasks
      BY DEF Task
    <3>2. PICK q \in Seq(Tasks) :
          queue' = q \/ queue' = Append(q, Task("resetTracks"))
      BY <2>34, AfterCloseTyped DEF DestroyClose
    <3>3. queue' \in Seq(Tasks)
      BY <3>1, <3>2, QueueAppend
    <3>. QED
      BY <2>34, <3>3 DEF DestroyClose
  <2>35. CASE DestroyMembers
    BY <2>35 DEF DestroyMembers
  <2>36. CASE Terminated
    BY <2>36 DEF Terminated
  <2>37. CASE UNCHANGED vars
    BY <2>37
  <2>. QED
    BY <2>1, <2>2, <2>3, <2>4, <2>5, <2>6, <2>7, <2>8, <2>9, <2>10, <2>11, <2>12,
       <2>13, <2>14, <2>15, <2>16, <2>17, <2>18, <2>19, <2>20, <2>21, <2>22, <2>23,
       <2>24, <2>25, <2>26, <2>27, <2>28, <2>29, <2>30, <2>31, <2>32, <2>33, <2>34,
       <2>35, <2>36, <2>37 DEF Next, ClientThread, NetworkHandler
<1>3. QED
  BY <1>1, <1>2, PTL DEF Spec

-----------------------------------------------------------------------------
(***************************************************************************)
(* Counting the tasks of a kind.                                           *)
(***************************************************************************)

\* How many tasks of a kind there are is a natural number.
LEMMA CountType ==
  ASSUME NEW q \in Seq(Tasks), NEW k
  PROVE  /\ Count(q, k) \in Nat
         /\ IsFiniteSet({i \in 1..Len(q) : q[i].kind = k})
<1> DEFINE S == {i \in 1..Len(q) : q[i].kind = k}
<1>1. IsFiniteSet(1..Len(q))
  BY FS_Interval
<1>2. S \in SUBSET (1..Len(q))
  OBVIOUS
<1>3. IsFiniteSet(S)
  BY <1>1, <1>2, FS_Subset
<1>. QED
  BY <1>3, FS_CardinalityType DEF Count

\* Posting a task counts it.
LEMMA CountAppend ==
  ASSUME NEW q \in Seq(Tasks), NEW t \in Tasks, NEW k
  PROVE  Count(Append(q, t), k) = Count(q, k) + (IF t.kind = k THEN 1 ELSE 0)
<1> DEFINE S == {i \in 1..Len(q) : q[i].kind = k}
           T == {i \in 1..Len(Append(q, t)) : Append(q, t)[i].kind = k}
<1>1. IsFiniteSet(S) /\ Cardinality(S) \in Nat
  BY CountType DEF Count
<1>2. Count(q, k) = Cardinality(S) /\ Count(Append(q, t), k) = Cardinality(T)
  BY DEF Count
<1>3. CASE t.kind = k
  <2>1. T = S \cup {Len(q) + 1}
    BY <1>3
  <2>2. Len(q) + 1 \notin S
    OBVIOUS
  <2>3. Cardinality(S \cup {Len(q) + 1}) = Cardinality(S) + 1
    BY <1>1, <2>2, FS_AddElement
  <2>. QED
    BY <1>2, <1>3, <2>1, <2>3
<1>4. CASE t.kind # k
  <2>1. T = S
    BY <1>4
  <2> HIDE DEF S, T
  <2>. QED
    BY <1>1, <1>2, <1>4, <2>1
<1>. QED
  BY <1>3, <1>4

\* Taking the first task counts it off.
LEMMA CountTail ==
  ASSUME NEW q \in Seq(Tasks), q # <<>>, NEW k
  PROVE  Count(q, k) = Count(Tail(q), k) + (IF Head(q).kind = k THEN 1 ELSE 0)
<1> DEFINE S == {i \in 1..Len(q) : q[i].kind = k}
           T == {i \in 1..Len(Tail(q)) : Tail(q)[i].kind = k}
           f == [i \in T |-> i + 1]
<1>1. IsFiniteSet(S) /\ Cardinality(S) \in Nat
  BY CountType DEF Count
<1>2. Tail(q) \in Seq(Tasks)
  OBVIOUS
<1>3. IsFiniteSet(T) /\ Cardinality(T) \in Nat
  BY <1>2, CountType DEF Count
<1>4. \A i \in 1..Len(Tail(q)) : Tail(q)[i] = q[i + 1]
  OBVIOUS
<1>5. f \in Bijection(T, S \ {1})
  <2>1. f \in [T -> S \ {1}]
    BY <1>4
  <2>2. \A a, b \in T : f[a] = f[b] => a = b
    OBVIOUS
  <2>3. \A b \in S \ {1} : \E a \in T : f[a] = b
    <3> SUFFICES ASSUME NEW b \in S \ {1} PROVE \E a \in T : f[a] = b
      OBVIOUS
    <3>1. b - 1 \in 1..Len(Tail(q)) /\ (b - 1) + 1 = b
      OBVIOUS
    <3>2. b - 1 \in T
      BY <1>4, <3>1
    <3>. QED
      BY <3>1, <3>2
  <2>. QED
    BY <2>1, <2>2, <2>3 DEF Bijection, Injection, Surjection, IsInjective
<1>6. Cardinality(S \ {1}) = Cardinality(T)
  BY <1>3, <1>5, FS_Bijection DEF ExistsBijection
<1>7. Cardinality(S \ {1}) = IF 1 \in S THEN Cardinality(S) - 1 ELSE Cardinality(S)
  BY <1>1, FS_RemoveElement
<1>8. 1 \in S <=> Head(q).kind = k
  OBVIOUS
<1>9. Count(q, k) = Cardinality(S) /\ Count(Tail(q), k) = Cardinality(T)
  BY DEF Count
<1> HIDE DEF S, T
<1>. QED
  BY <1>1, <1>3, <1>6, <1>7, <1>8, <1>9

\* An empty queue holds none.
LEMMA CountEmpty ==
  ASSUME NEW k PROVE Count(<<>>, k) = 0
<1>1. {i \in 1..Len(<<>>) : <<>>[i].kind = k} = {}
  OBVIOUS
<1>. QED
  BY <1>1, FS_EmptySet DEF Count

\* Posting any other task leaves the statistics loop's tasks as they are.
LEMMA CountOther ==
  ASSUME NEW q \in Seq(Tasks), NEW t \in Tasks, t.kind \notin {"collect", "report"}
  PROVE  /\ Count(Append(q, t), "collect") = Count(q, "collect")
         /\ Count(Append(q, t), "report") = Count(q, "report")
<1>1. Count(q, "collect") \in Nat /\ Count(q, "report") \in Nat
  BY CountType
<1>2. /\ Count(Append(q, t), "collect") = Count(q, "collect") + 0
      /\ Count(Append(q, t), "report") = Count(q, "report") + 0
  BY CountAppend
<1>. QED
  BY <1>1, <1>2

\* The two kinds of tasks of the statistics loop in the client's queue.
LEMMA QueueCounts ==
  ASSUME TypeOK
  PROVE  Count(queue, "collect") \in Nat /\ Count(queue, "report") \in Nat
BY CountType DEF TypeOK

\* Running the first task takes at most itself from them.
LEMMA TailCounts ==
  ASSUME TypeOK, queue # <<>>
  PROVE  /\ Count(Tail(queue), "collect") \in Nat
         /\ Count(Tail(queue), "report") \in Nat
         /\ Count(queue, "collect")
              = Count(Tail(queue), "collect")
                  + (IF Head(queue).kind = "collect" THEN 1 ELSE 0)
         /\ Count(queue, "report")
              = Count(Tail(queue), "report")
                  + (IF Head(queue).kind = "report" THEN 1 ELSE 0)
<1>1. queue \in Seq(Tasks) /\ Tail(queue) \in Seq(Tasks)
  BY QueueTail DEF TypeOK
<1>. QED
  BY <1>1, CountTail, CountType

\* A task that is no part of the statistics loop is taken without changing them.
LEMMA TakeOtherCounts ==
  ASSUME TypeOK, NEW k \in TaskKinds \ {"collect", "report"}, Takes(k)
  PROVE  /\ Count(queue', "collect") = Count(queue, "collect")
         /\ Count(queue', "report") = Count(queue, "report")
<1>1. /\ queue # <<>>
      /\ queue' = Tail(queue)
      /\ Head(queue).kind # "collect"
      /\ Head(queue).kind # "report"
  BY DEF Takes
<1>. QED
  BY <1>1, TailCounts

\* Closing the peer connection adds none.
LEMMA AfterCloseCounts ==
  ASSUME TypeOK
  PROVE  \A q \in QueuesAfterClose :
           /\ Count(q, "collect") = Count(queue, "collect")
           /\ Count(q, "report") = Count(queue, "report")
<1>1. DisconnectTask("peer_closed") \in Tasks /\ queue \in Seq(Tasks)
  BY DEF TypeOK, DisconnectTask, Tasks, TaskKinds, GuardedKinds, Statuses, Errors
<1>2. LET q == Append(queue, DisconnectTask("peer_closed"))
      IN  /\ Count(q, "collect") = Count(queue, "collect")
          /\ Count(q, "report") = Count(queue, "report")
  BY <1>1, CountOther DEF DisconnectTask
<1>. QED
  BY <1>2, QueueCounts DEF QueuesAfterClose

-----------------------------------------------------------------------------
(***************************************************************************)
(* Each part of the invariant is kept by every step.                       *)
(***************************************************************************)

\* The lock held across OnJoined keeps the state and the callback together.
LEMMA JoinedStep == TypeOK /\ JoinedInv /\ [Next]_vars => JoinedInv'
<1> SUFFICES ASSUME TypeOK, JoinedInv, [Next]_vars PROVE JoinedInv'
  OBVIOUS
<1> USE DEF JoinedInv, JoinedSeenAfterOnJoined, vars, callVars, appVars, clientVars,
        netVars, dtorVars, linkVars, statsVars, serverVars, boundVars
<1>1. ASSUME NEW c \in Callers, ConnectActiveConference(c) PROVE JoinedInv'
  BY <1>1 DEF ConnectActiveConference, InUse
<1>2. ASSUME NEW c \in Callers, PostConnect(c) PROVE JoinedInv'
  BY <1>2 DEF PostConnect, Task
<1>3. ASSUME NEW c \in Callers, LeaveRead(c) PROVE JoinedInv'
  BY <1>3 DEF LeaveRead, InUse, TypeOK
<1>4. ASSUME NEW c \in Callers, LeaveSend(c) PROVE JoinedInv'
  BY <1>4 DEF LeaveSend, DisconnectTask
<1>5. CASE DropDeadTask
  BY <1>5 DEF DropDeadTask
<1>6. CASE RunConnect
  BY <1>6 DEF RunConnect, Takes
<1>7. CASE ConnectProgress
  BY <1>7 DEF ConnectProgress
<1>8. CASE SetRemote
  BY <1>8 DEF SetRemote
<1>9. CASE ConnectFails
  BY <1>9 DEF ConnectFails, DisconnectWith
<1>10. CASE StartJoining
  BY <1>10 DEF StartJoining
<1>11. CASE RunDisconnect
  BY <1>11 DEF RunDisconnect, Takes, DisconnectWith
<1>12. CASE CloseConnection
  BY <1>12 DEF CloseConnection, QueuesAfterClose, DisconnectTask
<1>13. CASE NotifyDisconnected
  BY <1>13 DEF NotifyDisconnected
<1>14. CASE RunCollectStats
  BY <1>14 DEF RunCollectStats, Takes
<1>15. CASE RunReport
  BY <1>15 DEF RunReport, Takes
<1>16. CASE SendStats
  BY <1>16 DEF SendStats
<1>17. CASE RunAudio
  BY <1>17 DEF RunAudio, Takes
<1>18. CASE RunKill
  BY <1>18 DEF RunKill, Takes
<1>19. CASE RunResetTracks
  BY <1>19 DEF RunResetTracks, Takes
<1>20. ASSUME NEW m \in Updates, Deliver(m) PROVE JoinedInv'
  BY <1>20 DEF Deliver, Sends
<1>21. CASE HandleOther
  BY <1>21 DEF HandleOther
<1>22. CASE HandleJoined
  BY <1>22 DEF HandleJoined
<1>23. CASE OnJoined
  BY <1>23 DEF OnJoined
<1>24. CASE HandleDisconnected
  BY <1>24 DEF HandleDisconnected, DisconnectTask
<1>25. CASE HandleStats
  BY <1>25 DEF HandleStats, Task
<1>26. CASE ConnectionUp
  BY <1>26 DEF ConnectionUp
<1>27. CASE ConnectionFails
  BY <1>27 DEF ConnectionFails
<1>28. CASE ConnectionCloses
  BY <1>28 DEF ConnectionCloses, DisconnectTask
<1>29. CASE DeliverStats
  BY <1>29 DEF DeliverStats, Task
<1>30. CASE FireTimer
  BY <1>30 DEF FireTimer, Task
<1>31. CASE OnAudioData
  BY <1>31 DEF OnAudioData, Task
<1>32. CASE OnVideoFrame
  BY <1>32 DEF OnVideoFrame
<1>33. CASE BeginDestroy
  BY <1>33 DEF BeginDestroy, Task, InUse
<1>34. CASE DestroyClose
  BY <1>34 DEF DestroyClose, Task, QueuesAfterClose, DisconnectTask
<1>35. CASE DestroyMembers
  BY <1>35 DEF DestroyMembers
<1>36. CASE Terminated
  BY <1>36 DEF Terminated
<1>37. CASE UNCHANGED vars
  BY <1>37
<1>. QED
  BY <1>1, <1>2, <1>3, <1>4, <1>5, <1>6, <1>7, <1>8, <1>9, <1>10, <1>11, <1>12,
     <1>13, <1>14, <1>15, <1>16, <1>17, <1>18, <1>19, <1>20, <1>21, <1>22, <1>23,
     <1>24, <1>25, <1>26, <1>27, <1>28, <1>29, <1>30, <1>31, <1>32, <1>33, <1>34,
     <1>35, <1>36, <1>37 DEF Next, ClientThread, NetworkHandler

\* The client thread alone disconnects, and closes before it notifies.
LEMMA DisconnectStep == TypeOK /\ DisconnectInv /\ [Next]_vars => DisconnectInv'
<1> SUFFICES ASSUME TypeOK, DisconnectInv, [Next]_vars PROVE DisconnectInv'
  OBVIOUS
<1> USE DEF DisconnectInv, ConnectSteps, vars, callVars, appVars, clientVars,
        netVars, dtorVars, linkVars, statsVars, serverVars, boundVars
<1>1. ASSUME NEW c \in Callers, ConnectActiveConference(c) PROVE DisconnectInv'
  BY <1>1 DEF ConnectActiveConference, InUse
<1>2. ASSUME NEW c \in Callers, PostConnect(c) PROVE DisconnectInv'
  BY <1>2 DEF PostConnect, Task
<1>3. ASSUME NEW c \in Callers, LeaveRead(c) PROVE DisconnectInv'
  BY <1>3 DEF LeaveRead, InUse
<1>4. ASSUME NEW c \in Callers, LeaveSend(c) PROVE DisconnectInv'
  BY <1>4 DEF LeaveSend, DisconnectTask
<1>5. CASE DropDeadTask
  BY <1>5 DEF DropDeadTask
<1>6. CASE RunConnect
  BY <1>6 DEF RunConnect, Takes
<1>7. CASE ConnectProgress
  BY <1>7 DEF ConnectProgress
<1>8. CASE SetRemote
  BY <1>8 DEF SetRemote
<1>9. CASE ConnectFails
  BY <1>9 DEF ConnectFails, DisconnectWith
<1>10. CASE StartJoining
  BY <1>10 DEF StartJoining
<1>11. CASE RunDisconnect
  BY <1>11 DEF RunDisconnect, Takes, DisconnectWith
<1>12. CASE CloseConnection
  BY <1>12 DEF CloseConnection, QueuesAfterClose, DisconnectTask
<1>13. CASE NotifyDisconnected
  BY <1>13 DEF NotifyDisconnected
<1>14. CASE RunCollectStats
  BY <1>14 DEF RunCollectStats, Takes
<1>15. CASE RunReport
  BY <1>15 DEF RunReport, Takes
<1>16. CASE SendStats
  BY <1>16 DEF SendStats
<1>17. CASE RunAudio
  BY <1>17 DEF RunAudio, Takes
<1>18. CASE RunKill
  BY <1>18 DEF RunKill, Takes
<1>19. CASE RunResetTracks
  BY <1>19 DEF RunResetTracks, Takes
<1>20. ASSUME NEW m \in Updates, Deliver(m) PROVE DisconnectInv'
  BY <1>20 DEF Deliver, Sends
<1>21. CASE HandleOther
  BY <1>21 DEF HandleOther
<1>22. CASE HandleJoined
  BY <1>22 DEF HandleJoined
<1>23. CASE OnJoined
  BY <1>23 DEF OnJoined
<1>24. CASE HandleDisconnected
  BY <1>24 DEF HandleDisconnected, DisconnectTask
<1>25. CASE HandleStats
  BY <1>25 DEF HandleStats, Task
<1>26. CASE ConnectionUp
  BY <1>26 DEF ConnectionUp
<1>27. CASE ConnectionFails
  BY <1>27 DEF ConnectionFails
<1>28. CASE ConnectionCloses
  BY <1>28 DEF ConnectionCloses, DisconnectTask
<1>29. CASE DeliverStats
  BY <1>29 DEF DeliverStats, Task
<1>30. CASE FireTimer
  BY <1>30 DEF FireTimer, Task
<1>31. CASE OnAudioData
  BY <1>31 DEF OnAudioData, Task
<1>32. CASE OnVideoFrame
  BY <1>32 DEF OnVideoFrame
<1>33. CASE BeginDestroy
  BY <1>33 DEF BeginDestroy, Task, InUse
<1>34. CASE DestroyClose
  BY <1>34 DEF DestroyClose, Task, QueuesAfterClose, DisconnectTask
<1>35. CASE DestroyMembers
  BY <1>35 DEF DestroyMembers
<1>36. CASE Terminated
  BY <1>36 DEF Terminated
<1>37. CASE UNCHANGED vars
  BY <1>37
<1>. QED
  BY <1>1, <1>2, <1>3, <1>4, <1>5, <1>6, <1>7, <1>8, <1>9, <1>10, <1>11, <1>12,
     <1>13, <1>14, <1>15, <1>16, <1>17, <1>18, <1>19, <1>20, <1>21, <1>22, <1>23,
     <1>24, <1>25, <1>26, <1>27, <1>28, <1>29, <1>30, <1>31, <1>32, <1>33, <1>34,
     <1>35, <1>36, <1>37 DEF Next, ClientThread, NetworkHandler

\* No other status than the one the server caused is OK.
\* A thread does not forget what it saw.
LEMMA EarlyStays == TypeOK /\ [Next]_vars => (EarlyLeave => EarlyLeave')
<1> SUFFICES ASSUME TypeOK, [Next]_vars, NEW d \in Callers,
                    seen[d] \in {"ready", "connecting", "joining"}
             PROVE  EarlyLeave'
  BY DEF EarlyLeave
<1>1. ASSUME NEW c \in Callers, LeaveRead(c) PROVE EarlyLeave'
  <2>1. seen'[d] = seen[d]
    BY <1>1 DEF LeaveRead, TypeOK
  <2>. QED
    BY <2>1 DEF EarlyLeave
<1>2. ASSUME UNCHANGED seen PROVE EarlyLeave'
  BY <1>2 DEF EarlyLeave
<1>. QED
  BY <1>1, <1>2 DEF Next, ClientThread, NetworkHandler, vars, appVars,
     ConnectActiveConference, PostConnect, LeaveSend, DropDeadTask, RunConnect,
     ConnectProgress, SetRemote, ConnectFails, StartJoining, RunDisconnect,
     CloseConnection, NotifyDisconnected, RunCollectStats, RunReport, SendStats, RunAudio,
     RunKill, RunResetTracks, Deliver, HandleOther, HandleJoined, OnJoined,
     HandleDisconnected, HandleStats, ConnectionUp, ConnectionFails, ConnectionCloses,
     DeliverStats, FireTimer, OnAudioData, OnVideoFrame, BeginDestroy, DestroyClose,
     DestroyMembers, Terminated

LEMMA StatusStep == TypeOK /\ DisconnectInv /\ StatusInv /\ [Next]_vars => StatusInv'
<1> SUFFICES ASSUME TypeOK, DisconnectInv, StatusInv, [Next]_vars PROVE StatusInv'
  OBVIOUS
<1>0. EarlyLeave => EarlyLeave'
  BY EarlyStays
<1> USE <1>0 DEF TypeOK, StatusInv, CauseQueue, ConnectSteps, vars,
    callVars, appVars, clientVars, netVars, dtorVars, linkVars, statsVars, serverVars,
        boundVars
<1>1. ASSUME NEW c \in Callers, ConnectActiveConference(c) PROVE StatusInv'
  BY <1>1 DEF ConnectActiveConference, InUse
<1>2. ASSUME NEW c \in Callers, PostConnect(c) PROVE StatusInv'
  BY <1>2 DEF PostConnect, Task
<1>3. ASSUME NEW c \in Callers, LeaveRead(c) PROVE StatusInv'
  <2>1. \A d \in Callers :
          callerPc'[d] = "leaving" => seen'[d] \notin {"none", "disconnected"}
    BY <1>3 DEF LeaveRead, States
  <2>. QED
    BY <1>3, <2>1 DEF LeaveRead
<1>4. ASSUME NEW c \in Callers, LeaveSend(c) PROVE StatusInv'
  <2>1. seen[c] # "joined" => EarlyLeave
    BY <1>4 DEF LeaveSend, EarlyLeave, States
  <2>. QED
    BY <1>4, <2>1 DEF LeaveSend, DisconnectTask
<1>5. CASE DropDeadTask
  BY <1>5 DEF DropDeadTask
<1>6. CASE RunConnect
  BY <1>6 DEF RunConnect, Takes
<1>7. CASE ConnectProgress
  BY <1>7 DEF ConnectProgress
<1>8. CASE SetRemote
  BY <1>8 DEF SetRemote
<1>9. CASE ConnectFails
  BY <1>9 DEF ConnectFails, DisconnectWith
<1>10. CASE StartJoining
  BY <1>10 DEF StartJoining
<1>11. CASE RunDisconnect
  BY <1>11 DEF RunDisconnect, Takes, DisconnectWith
<1>12. CASE CloseConnection
  BY <1>12 DEF CloseConnection, QueuesAfterClose, DisconnectTask
<1>13. CASE NotifyDisconnected
  BY <1>13 DEF NotifyDisconnected
<1>14. CASE RunCollectStats
  BY <1>14 DEF RunCollectStats, Takes
<1>15. CASE RunReport
  BY <1>15 DEF RunReport, Takes
<1>16. CASE SendStats
  BY <1>16 DEF SendStats
<1>17. CASE RunAudio
  BY <1>17 DEF RunAudio, Takes
<1>18. CASE RunKill
  BY <1>18 DEF RunKill, Takes
<1>19. CASE RunResetTracks
  BY <1>19 DEF RunResetTracks, Takes
<1>20. ASSUME NEW m \in Updates, Deliver(m) PROVE StatusInv'
  BY <1>20 DEF Deliver, Sends
<1>21. CASE HandleOther
  BY <1>21 DEF HandleOther
<1>22. CASE HandleJoined
  BY <1>22 DEF HandleJoined
<1>23. CASE OnJoined
  BY <1>23 DEF OnJoined
<1>24. CASE HandleDisconnected
  BY <1>24 DEF HandleDisconnected, DisconnectTask
<1>25. CASE HandleStats
  BY <1>25 DEF HandleStats, Task
<1>26. CASE ConnectionUp
  BY <1>26 DEF ConnectionUp
<1>27. CASE ConnectionFails
  BY <1>27 DEF ConnectionFails
<1>28. CASE ConnectionCloses
  BY <1>28 DEF ConnectionCloses, DisconnectTask
<1>29. CASE DeliverStats
  BY <1>29 DEF DeliverStats, Task
<1>30. CASE FireTimer
  BY <1>30 DEF FireTimer, Task
<1>31. CASE OnAudioData
  BY <1>31 DEF OnAudioData, Task
<1>32. CASE OnVideoFrame
  BY <1>32 DEF OnVideoFrame
<1>33. CASE BeginDestroy
  BY <1>33 DEF BeginDestroy, Task, InUse
<1>34. CASE DestroyClose
  <2>1. QueuesAfterClose \subseteq Seq(Tasks)
    BY AfterCloseTyped
  <2>2. \A q \in QueuesAfterClose : CauseQueue(q)
    <3>1. CauseQueue(queue) /\ queue \in Seq(Tasks)
      BY DEF TypeOK
    <3>2. CauseQueue(Append(queue, DisconnectTask("peer_closed")))
      BY <3>1 DEF DisconnectTask
    <3>. QED
      BY <3>1, <3>2 DEF QueuesAfterClose
  <2>3. PICK q \in QueuesAfterClose :
           queue' = q \/ queue' = Append(q, Task("resetTracks"))
    BY <1>34 DEF DestroyClose
  <2>4. q \in Seq(Tasks) /\ CauseQueue(q)
    BY <2>1, <2>2
  <2>5. CauseQueue(Append(q, Task("resetTracks")))
    BY <2>4 DEF Task
  <2>6. CauseQueue(queue)'
    BY <1>34, <2>3, <2>4, <2>5 DEF DestroyClose
  <2>. QED
    BY <1>34, <2>6 DEF DestroyClose
<1>35. CASE DestroyMembers
  BY <1>35 DEF DestroyMembers
<1>36. CASE Terminated
  BY <1>36 DEF Terminated
<1>37. CASE UNCHANGED vars
  BY <1>37
<1>. QED
  BY <1>1, <1>2, <1>3, <1>4, <1>5, <1>6, <1>7, <1>8, <1>9, <1>10, <1>11, <1>12,
     <1>13, <1>14, <1>15, <1>16, <1>17, <1>18, <1>19, <1>20, <1>21, <1>22, <1>23,
     <1>24, <1>25, <1>26, <1>27, <1>28, <1>29, <1>30, <1>31, <1>32, <1>33, <1>34,
     <1>35, <1>36, <1>37 DEF Next, ClientThread, NetworkHandler

\* A task that is not the destructor's may be posted at any time.
LEMMA OtherTask ==
  ASSUME NEW q \in Seq(Tasks), NEW t \in Tasks, t.kind \notin DestructorTasks,
         DestroyQueue(q)
  PROVE  DestroyQueue(Append(q, t))
BY DEF DestroyQueue, DestructorTasks

\* What closing the peer connection posts is not the destructor's.
LEMMA AfterCloseDestroyQueue ==
  ASSUME TypeOK, DestroyQueue(queue)
  PROVE  \A q \in QueuesAfterClose : q \in Seq(Tasks) /\ DestroyQueue(q)
<1>1. DisconnectTask("peer_closed") \in Tasks
  BY DEF DisconnectTask, Tasks, TaskKinds, GuardedKinds, Statuses, Errors
<1>2. DisconnectTask("peer_closed").kind \notin DestructorTasks
  BY DEF DisconnectTask, DestructorTasks
<1>3. DestroyQueue(Append(queue, DisconnectTask("peer_closed")))
  BY <1>1, <1>2, OtherTask DEF TypeOK
<1>. QED
  BY <1>3, AfterCloseTyped DEF QueuesAfterClose

\* The destructor's blocking calls find the client in the order it relies on.
LEMMA DestroyStep == TypeOK /\ DisconnectInv /\ DestroyInv /\ [Next]_vars
    => DestroyInv'
<1> SUFFICES ASSUME TypeOK, DisconnectInv, DestroyInv, [Next]_vars PROVE DestroyInv'
  OBVIOUS
<1> USE DEF TypeOK, DestroyInv, ConnectSteps, GuardedKinds, vars, callVars,
        appVars, clientVars, netVars, dtorVars, linkVars, statsVars, serverVars,
        boundVars
<1>1. ASSUME NEW c \in Callers, ConnectActiveConference(c) PROVE DestroyInv'
  BY <1>1 DEF ConnectActiveConference, InUse, DestroyQueue, DestructorTasks
<1>2. ASSUME NEW c \in Callers, PostConnect(c) PROVE DestroyInv'
  BY <1>2 DEF PostConnect, Task, DestroyQueue, DestructorTasks
<1>3. ASSUME NEW c \in Callers, LeaveRead(c) PROVE DestroyInv'
  BY <1>3 DEF LeaveRead, InUse, DestroyQueue, DestructorTasks
<1>4. ASSUME NEW c \in Callers, LeaveSend(c) PROVE DestroyInv'
  BY <1>4 DEF LeaveSend, DisconnectTask, DestroyQueue, DestructorTasks
<1>5. CASE DropDeadTask
  BY <1>5 DEF DropDeadTask, DestroyQueue, DestructorTasks
<1>6. CASE RunConnect
  BY <1>6 DEF RunConnect, Takes, DestroyQueue, DestructorTasks
<1>7. CASE ConnectProgress
  BY <1>7 DEF ConnectProgress, DestroyQueue, DestructorTasks
<1>8. CASE SetRemote
  BY <1>8 DEF SetRemote, DestroyQueue, DestructorTasks
<1>9. CASE ConnectFails
  BY <1>9 DEF ConnectFails, DisconnectWith, DestroyQueue, DestructorTasks
<1>10. CASE StartJoining
  BY <1>10 DEF StartJoining, DestroyQueue, DestructorTasks
<1>11. CASE RunDisconnect
  BY <1>11 DEF RunDisconnect, Takes, DisconnectWith, DestroyQueue, DestructorTasks
<1>12. CASE CloseConnection
  <2>1. DestroyQueue(queue)'
    BY <1>12, AfterCloseDestroyQueue DEF CloseConnection, DestroyQueue
  <2>. QED
    BY <1>12, <2>1 DEF CloseConnection
<1>13. CASE NotifyDisconnected
  BY <1>13 DEF NotifyDisconnected, DestroyQueue, DestructorTasks
<1>14. CASE RunCollectStats
  BY <1>14 DEF RunCollectStats, Takes, DestroyQueue, DestructorTasks
<1>15. CASE RunReport
  BY <1>15 DEF RunReport, Takes, DestroyQueue, DestructorTasks
<1>16. CASE SendStats
  BY <1>16 DEF SendStats, DestroyQueue, DestructorTasks
<1>17. CASE RunAudio
  BY <1>17 DEF RunAudio, Takes, DestroyQueue, DestructorTasks
<1>18. CASE RunKill
  BY <1>18 DEF RunKill, Takes, DestroyQueue, DestructorTasks
<1>19. CASE RunResetTracks
  BY <1>19 DEF RunResetTracks, Takes, DestroyQueue, DestructorTasks
<1>20. ASSUME NEW m \in Updates, Deliver(m) PROVE DestroyInv'
  BY <1>20 DEF Deliver, Sends, DestroyQueue, DestructorTasks
<1>21. CASE HandleOther
  BY <1>21 DEF HandleOther, DestroyQueue, DestructorTasks
<1>22. CASE HandleJoined
  BY <1>22 DEF HandleJoined, DestroyQueue, DestructorTasks
<1>23. CASE OnJoined
  BY <1>23 DEF OnJoined, DestroyQueue, DestructorTasks
<1>24. CASE HandleDisconnected
  <2>1. DisconnectTask("ok") \in Tasks
      /\ DisconnectTask("ok").kind \notin DestructorTasks
    BY DEF DisconnectTask, Tasks, TaskKinds, GuardedKinds, Statuses, Errors,
        DestructorTasks
  <2>2. DestroyQueue(queue)'
    BY <1>24, <2>1, OtherTask DEF HandleDisconnected, DestroyQueue
  <2>. QED
    BY <1>24, <2>2 DEF HandleDisconnected, DisconnectInv
<1>25. CASE HandleStats
  <2>1. Task("collect") \in Tasks /\ Task("collect").kind \notin DestructorTasks
    BY DEF Task, Tasks, TaskKinds, GuardedKinds, Statuses, Errors, DestructorTasks
  <2>2. DestroyQueue(queue)'
    BY <1>25, <2>1, OtherTask DEF HandleStats, DestroyQueue
  <2>. QED
    BY <1>25, <2>2 DEF HandleStats, DisconnectInv
<1>26. CASE ConnectionUp
  BY <1>26 DEF ConnectionUp, DestroyQueue, DestructorTasks
<1>27. CASE ConnectionFails
  BY <1>27 DEF ConnectionFails, DestroyQueue, DestructorTasks
<1>28. CASE ConnectionCloses
  BY <1>28 DEF ConnectionCloses, DisconnectTask, DestroyQueue, DestructorTasks
<1>29. CASE DeliverStats
  BY <1>29 DEF DeliverStats, Task, DestroyQueue, DestructorTasks
<1>30. CASE FireTimer
  BY <1>30 DEF FireTimer, Task, DestroyQueue, DestructorTasks
<1>31. CASE OnAudioData
  BY <1>31 DEF OnAudioData, Task, DestroyQueue, DestructorTasks
<1>32. CASE OnVideoFrame
  BY <1>32 DEF OnVideoFrame, DestroyQueue, DestructorTasks
<1>33. CASE BeginDestroy
  BY <1>33 DEF BeginDestroy, Task, InUse, DestroyQueue, DestructorTasks
<1>34. CASE DestroyClose
  <2>1. PICK q \in QueuesAfterClose :
          IF tracks = "signaled"
          THEN dtorPc' = "resetting" /\ queue' = Append(q, Task("resetTracks"))
          ELSE dtorPc' = "destroying" /\ queue' = q
    BY <1>34 DEF DestroyClose
  <2>2. q \in Seq(Tasks) /\ DestroyQueue(q)
    BY AfterCloseDestroyQueue
  <2>3. \A i \in 1..Len(q) : q[i].kind \notin DestructorTasks
    BY <1>34, <2>2 DEF DestroyQueue, DestructorTasks, DestroyClose
  <2>4. CASE tracks = "signaled"
    <3>1. queue' = Append(q, Task("resetTracks")) /\ dtorPc' = "resetting"
      BY <2>1, <2>4
    <3>2. \A i \in 1..Len(q) : queue'[i] = q[i]
      BY <2>2, <3>1
    <3>3. /\ Len(queue') = Len(q) + 1
          /\ queue'[Len(q) + 1].kind = "resetTracks"
      BY <2>2, <3>1 DEF Task
    <3>4. \A i \in 1..Len(queue') : i \in 1..Len(q) \/ i = Len(q) + 1
      BY <2>2, <3>3
    <3>5. DestroyQueue(queue)'
      BY <2>3, <3>1, <3>2, <3>3, <3>4 DEF DestroyQueue, DestructorTasks
    <3>. QED
      BY <1>34, <2>1, <2>4, <3>5 DEF DestroyClose
  <2>5. CASE tracks # "signaled"
    <3>1. DestroyQueue(queue)'
      BY <2>1, <2>3, <2>5 DEF DestroyQueue, DestructorTasks
    <3>. QED
      BY <1>34, <2>1, <2>5, <3>1 DEF DestroyClose
  <2>. QED
    BY <2>4, <2>5
<1>35. CASE DestroyMembers
  BY <1>35 DEF DestroyMembers, DestroyQueue, DestructorTasks
<1>36. CASE Terminated
  BY <1>36 DEF Terminated, DestroyQueue, DestructorTasks
<1>37. CASE UNCHANGED vars
  BY <1>37 DEF DestroyQueue
<1>. QED
  BY <1>1, <1>2, <1>3, <1>4, <1>5, <1>6, <1>7, <1>8, <1>9, <1>10, <1>11, <1>12,
     <1>13, <1>14, <1>15, <1>16, <1>17, <1>18, <1>19, <1>20, <1>21, <1>22, <1>23,
     <1>24, <1>25, <1>26, <1>27, <1>28, <1>29, <1>30, <1>31, <1>32, <1>33, <1>34,
     <1>35, <1>36, <1>37 DEF Next, ClientThread, NetworkHandler

\* Every stage of the loop hands over to the next; the one configuration starts
\* it once.
LEMMA StatsStep == TypeOK /\ StatsInv /\ [Next]_vars => StatsInv'
<1> SUFFICES ASSUME TypeOK, StatsInv, [Next]_vars PROVE StatsInv'
  OBVIOUS
<1> DEFINE Typed == /\ statsPending \in Nat
                    /\ timers \in Nat
                    /\ Count(queue, "collect") \in Nat
                    /\ Count(queue, "report") \in Nat
<1>0. Typed
  BY QueueCounts DEF TypeOK
<1> USE <1>0, OneConfigAssumption
    DEF StatsInv, StatsLoops, SingleStatsLoop, ConnectSteps, vars, callVars,
        appVars, clientVars,
        netVars, dtorVars, linkVars, statsVars, serverVars, boundVars
<1>1. ASSUME NEW c \in Callers, ConnectActiveConference(c) PROVE StatsInv'
  BY <1>1 DEF ConnectActiveConference, InUse
<1>2. ASSUME NEW c \in Callers, PostConnect(c) PROVE StatsInv'
  <2>1. Task("connect") \in Tasks
    BY DEF Task, Tasks, TaskKinds, GuardedKinds, Statuses, Errors
  <2>2. /\ Count(Append(queue, Task("connect")), "collect") = Count(queue, "collect")
        /\ Count(Append(queue, Task("connect")), "report") = Count(queue, "report")
    BY <2>1, CountOther DEF TypeOK, Task
  <2>. QED
    BY <1>2, <2>2 DEF PostConnect, Task
<1>3. ASSUME NEW c \in Callers, LeaveRead(c) PROVE StatsInv'
  BY <1>3 DEF LeaveRead, InUse
<1>4. ASSUME NEW c \in Callers, LeaveSend(c) PROVE StatsInv'
  <2>1. DisconnectTask("leave_before_joined") \in Tasks
    BY DEF DisconnectTask, Tasks, TaskKinds, GuardedKinds, Statuses, Errors
  <2>2. LET q == Append(queue, DisconnectTask("leave_before_joined"))
        IN  /\ Count(q, "collect") = Count(queue, "collect")
            /\ Count(q, "report") = Count(queue, "report")
    BY <2>1, CountOther DEF TypeOK, DisconnectTask
  <2>. QED
    BY <1>4, <2>2 DEF LeaveSend
<1>5. CASE DropDeadTask
  BY <1>5, TailCounts DEF DropDeadTask
<1>6. CASE RunConnect
  <2>1. Takes("connect")
    BY <1>6 DEF RunConnect
  <2>2. /\ Count(queue', "collect") = Count(queue, "collect")
        /\ Count(queue', "report") = Count(queue, "report")
    BY <2>1, TakeOtherCounts DEF TaskKinds, GuardedKinds
  <2>. QED
    BY <1>6, <2>1, <2>2 DEF RunConnect, Takes
<1>7. CASE ConnectProgress
  BY <1>7 DEF ConnectProgress
<1>8. CASE SetRemote
  BY <1>8 DEF SetRemote
<1>9. CASE ConnectFails
  BY <1>9 DEF ConnectFails, DisconnectWith
<1>10. CASE StartJoining
  BY <1>10 DEF StartJoining
<1>11. CASE RunDisconnect
  <2>1. Takes("disconnect")
    BY <1>11 DEF RunDisconnect
  <2>2. /\ Count(queue', "collect") = Count(queue, "collect")
        /\ Count(queue', "report") = Count(queue, "report")
    BY <2>1, TakeOtherCounts DEF TaskKinds, GuardedKinds
  <2>. QED
    BY <1>11, <2>1, <2>2 DEF RunDisconnect, Takes, DisconnectWith
<1>12. CASE CloseConnection
  BY <1>12, AfterCloseCounts DEF CloseConnection
<1>13. CASE NotifyDisconnected
  BY <1>13 DEF NotifyDisconnected
<1>14. CASE RunCollectStats
  BY <1>14, TailCounts DEF RunCollectStats, Takes
<1>15. CASE RunReport
  BY <1>15, TailCounts DEF RunReport, Takes
<1>16. CASE SendStats
  BY <1>16 DEF SendStats
<1>17. CASE RunAudio
  BY <1>17, TailCounts DEF RunAudio, Takes
<1>18. CASE RunKill
  <2>1. Takes("kill")
    BY <1>18 DEF RunKill
  <2>2. /\ Count(queue', "collect") = Count(queue, "collect")
        /\ Count(queue', "report") = Count(queue, "report")
    BY <2>1, TakeOtherCounts DEF TaskKinds, GuardedKinds
  <2>. QED
    BY <1>18, <2>1, <2>2 DEF RunKill, Takes
<1>19. CASE RunResetTracks
  BY <1>19, TailCounts DEF RunResetTracks, Takes
<1>20. ASSUME NEW m \in Updates, Deliver(m) PROVE StatsInv'
  BY <1>20 DEF Deliver, Sends
<1>21. CASE HandleOther
  BY <1>21 DEF HandleOther
<1>22. CASE HandleJoined
  BY <1>22 DEF HandleJoined
<1>23. CASE OnJoined
  BY <1>23 DEF OnJoined
<1>24. CASE HandleDisconnected
  <2>1. DisconnectTask("ok") \in Tasks
    BY DEF DisconnectTask, Tasks, TaskKinds, GuardedKinds, Statuses, Errors
  <2>2. /\ Count(Append(queue, DisconnectTask("ok")), "collect")
              = Count(queue, "collect")
        /\ Count(Append(queue, DisconnectTask("ok")), "report")
              = Count(queue, "report")
    BY <2>1, CountOther DEF TypeOK, DisconnectTask
  <2>. QED
    BY <1>24, <2>2 DEF HandleDisconnected, DisconnectTask
<1>25. CASE HandleStats
  <2>1. Task("collect") \in Tasks
    BY DEF Task, Tasks, TaskKinds, GuardedKinds, Statuses, Errors
  <2>2. /\ Count(Append(queue, Task("collect")), "collect")
             = Count(queue, "collect") + 1
        /\ Count(Append(queue, Task("collect")), "report") = Count(queue, "report")
    BY <2>1, CountAppend DEF TypeOK, Task
  <2>. QED
    BY <1>25, <2>2 DEF HandleStats, Task
<1>26. CASE ConnectionUp
  BY <1>26 DEF ConnectionUp
<1>27. CASE ConnectionFails
  BY <1>27 DEF ConnectionFails
<1>28. CASE ConnectionCloses
  <2>1. DisconnectTask("peer_closed") \in Tasks
    BY DEF DisconnectTask, Tasks, TaskKinds, GuardedKinds, Statuses, Errors
  <2>2. /\ Count(Append(queue, DisconnectTask("peer_closed")), "collect")
             = Count(queue, "collect")
        /\ Count(Append(queue, DisconnectTask("peer_closed")), "report")
             = Count(queue, "report")
    BY <2>1, CountOther DEF TypeOK, DisconnectTask
  <2>. QED
    BY <1>28, <2>2 DEF ConnectionCloses, DisconnectTask
<1>29. CASE DeliverStats
  <2>1. Task("report") \in Tasks
    BY DEF Task, Tasks, TaskKinds, GuardedKinds, Statuses, Errors
  <2>2. /\ Count(Append(queue, Task("report")), "collect") = Count(queue, "collect")
        /\ Count(Append(queue, Task("report")), "report") = Count(queue, "report") + 1
    BY <2>1, CountAppend DEF TypeOK, Task
  <2>. QED
    BY <1>29, <2>2 DEF DeliverStats, Task
<1>30. CASE FireTimer
  <2>1. Task("collect") \in Tasks
    BY DEF Task, Tasks, TaskKinds, GuardedKinds, Statuses, Errors
  <2>2. /\ Count(Append(queue, Task("collect")), "collect")
             = Count(queue, "collect") + 1
        /\ Count(Append(queue, Task("collect")), "report") = Count(queue, "report")
    BY <2>1, CountAppend DEF TypeOK, Task
  <2>. QED
    BY <1>30, <2>2 DEF FireTimer, Task
<1>31. CASE OnAudioData
  <2>1. Task("audio") \in Tasks
    BY DEF Task, Tasks, TaskKinds, GuardedKinds, Statuses, Errors
  <2>2. /\ Count(Append(queue, Task("audio")), "collect") = Count(queue, "collect")
        /\ Count(Append(queue, Task("audio")), "report") = Count(queue, "report")
    BY <2>1, CountOther DEF TypeOK, Task
  <2>. QED
    BY <1>31, <2>2 DEF OnAudioData, Task
<1>32. CASE OnVideoFrame
  BY <1>32 DEF OnVideoFrame
<1>33. CASE BeginDestroy
  <2>1. Task("kill") \in Tasks
    BY DEF Task, Tasks, TaskKinds, GuardedKinds, Statuses, Errors
  <2>2. /\ Count(Append(queue, Task("kill")), "collect") = Count(queue, "collect")
        /\ Count(Append(queue, Task("kill")), "report") = Count(queue, "report")
    BY <2>1, CountOther DEF TypeOK, Task
  <2>. QED
    BY <1>33, <2>2 DEF BeginDestroy, Task
<1>34. CASE DestroyClose
  <2>1. Task("resetTracks") \in Tasks
    BY DEF Task, Tasks, TaskKinds, GuardedKinds, Statuses
  <2>2. PICK q \in QueuesAfterClose :
        queue' = q \/ queue' = Append(q, Task("resetTracks"))
    BY <1>34 DEF DestroyClose
  <2>3. q \in Seq(Tasks) /\ Count(q, "collect") = Count(queue, "collect")
                          /\ Count(q, "report") = Count(queue, "report")
    BY AfterCloseCounts, AfterCloseTyped
  <2>4. /\ Count(Append(q, Task("resetTracks")), "collect") = Count(q, "collect")
        /\ Count(Append(q, Task("resetTracks")), "report") = Count(q, "report")
    BY <2>1, <2>3, CountOther DEF Task
  <2>5. Count(queue', "collect") = Count(queue, "collect")
         /\ Count(queue', "report") = Count(queue, "report")
    BY <2>2, <2>3, <2>4
  <2>. QED
    BY <1>34, <2>5 DEF DestroyClose
<1>35. CASE DestroyMembers
  <2>1. Count(queue, "collect")' = 0 /\ Count(queue, "report")' = 0
    BY <1>35, CountEmpty DEF DestroyMembers
  <2>2. StatsLoops' = 0
    BY <1>35, <2>1 DEF DestroyMembers
  <2>. QED
    BY <1>35, <2>2 DEF DestroyMembers
<1>36. CASE Terminated
  BY <1>36 DEF Terminated
<1>37. CASE UNCHANGED vars
  BY <1>37
<1>. QED
  BY <1>1, <1>2, <1>3, <1>4, <1>5, <1>6, <1>7, <1>8, <1>9, <1>10, <1>11, <1>12,
     <1>13, <1>14, <1>15, <1>16, <1>17, <1>18, <1>19, <1>20, <1>21, <1>22, <1>23,
     <1>24, <1>25, <1>26, <1>27, <1>28, <1>29, <1>30, <1>31, <1>32, <1>33, <1>34,
     <1>35, <1>36, <1>37 DEF Next, ClientThread, NetworkHandler

-----------------------------------------------------------------------------
(***************************************************************************)
(* The theorems.                                                           *)
(***************************************************************************)

\* The parts hold together in every reachable state.
THEOREM Invariance == Spec => []Inv
<1>0. Init => StatsInv
  BY CountEmpty DEF Init, StatsInv, StatsLoops, SingleStatsLoop
<1>1. Init => JoinedInv /\ DisconnectInv /\ StatusInv /\ DestroyInv
  BY DEF Init, JoinedInv, JoinedSeenAfterOnJoined, DisconnectInv, StatusInv, CauseQueue,
         DestroyInv, DestroyQueue
<1>2. /\ TypeOK /\ JoinedInv /\ DisconnectInv /\ StatusInv /\ DestroyInv /\ StatsInv
      /\ [Next]_vars
      => JoinedInv' /\ DisconnectInv' /\ StatusInv' /\ DestroyInv' /\ StatsInv'
  BY JoinedStep, DisconnectStep, StatusStep, DestroyStep, StatsStep
<1>. QED
  BY <1>0, <1>1, <1>2, TypeCorrect, PTL DEF Spec, Inv

\* LeaveConference's copy of the state: "joined" is never seen before OnJoined
\* has returned, whatever the threads' interleaving.
THEOREM JoinedSeenSafe == Spec => []JoinedSeenAfterOnJoined
<1>1. Inv => JoinedSeenAfterOnJoined
  BY DEF Inv, JoinedInv
<1>. QED
  BY <1>1, Invariance, PTL

\* After OnDisconnected the connection is closed and no thread is in a handler
\* that could call the observer.
THEOREM DisconnectedSafe == Spec => []DisconnectedIsFinal
<1>1. Inv => DisconnectedIsFinal
  BY DEF Inv, DisconnectInv, DisconnectedIsFinal
<1>. QED
  BY <1>1, Invariance, PTL

\* The status OnDisconnected gets names a cause that there was, whichever
\* disconnection came first: an end by the server, or a leave before joining.
THEOREM StatusSafe == Spec => []StatusNamesCause
<1>1. Inv => StatusNamesCause
  BY DEF Inv, StatusInv, StatusNamesCause, EarlyLeave
<1>. QED
  BY <1>1, Invariance, PTL

\* There is never a second statistics loop.
THEOREM StatsLoopSafe == Spec => []SingleStatsLoop
<1>1. Inv => SingleStatsLoop
  BY DEF Inv, StatsInv
<1>. QED
  BY <1>1, Invariance, PTL

\* Nothing that could call into the client survives its destructor.
THEOREM DestroySafe == Spec => []DestroyedIsQuiet
<1>1. Inv => DestroyedIsQuiet
  BY DEF Inv, DestroyInv, DisconnectInv, DestroyedIsQuiet, TypeOK
<1>. QED
  BY <1>1, Invariance, PTL

\* A disconnected client sends no statistics, however late GetStats answers.
THEOREM StatsStopSafe == Spec => NoStatsAfterDisconnect
<1>1. Inv /\ [Next]_vars
        => [clientPc = "sendStats" /\ clientPc' = "idle"
            => state # "disconnected"]_vars
  BY DEF Inv, DisconnectInv
<1>. QED
  BY <1>1, Invariance, PTL DEF Spec, NoStatsAfterDisconnect

\* No task touches the client once its flag is down.
THEOREM DeadClientSafe == Spec => DeadClientIsInert
<1>1. ASSUME Inv, [Next]_vars, ~alive
      PROVE  /\ clientPc' = "idle"
             /\ statsPending' <= statsPending
             /\ disconnectedCalls' = disconnectedCalls
  <2> DEFINE Inert == /\ clientPc' = "idle"
                      /\ statsPending' <= statsPending
                      /\ disconnectedCalls' = disconnectedCalls
  <2> USE <1>1
      DEF Inv, DestroyInv, TypeOK, ConnectSteps, GuardedKinds, vars, callVars,
          appVars, clientVars, netVars, dtorVars, linkVars, statsVars, serverVars,
          boundVars
  <2>1. ASSUME NEW c \in Callers, ConnectActiveConference(c) PROVE Inert
    BY <2>1 DEF ConnectActiveConference, InUse
  <2>2. ASSUME NEW c \in Callers, PostConnect(c) PROVE Inert
    BY <2>2 DEF PostConnect, Task
  <2>3. ASSUME NEW c \in Callers, LeaveRead(c) PROVE Inert
    BY <2>3 DEF LeaveRead, InUse
  <2>4. ASSUME NEW c \in Callers, LeaveSend(c) PROVE Inert
    BY <2>4 DEF LeaveSend, DisconnectTask
  <2>5. CASE DropDeadTask
    BY <2>5 DEF DropDeadTask
  <2>6. CASE RunConnect
    BY <2>6 DEF RunConnect, Takes
  <2>7. CASE ConnectProgress
    BY <2>7 DEF ConnectProgress
  <2>8. CASE SetRemote
    BY <2>8 DEF SetRemote
  <2>9. CASE ConnectFails
    BY <2>9 DEF ConnectFails, DisconnectWith
  <2>10. CASE StartJoining
    BY <2>10 DEF StartJoining
  <2>11. CASE RunDisconnect
    BY <2>11 DEF RunDisconnect, Takes, DisconnectWith
  <2>12. CASE CloseConnection
    BY <2>12 DEF CloseConnection, QueuesAfterClose, DisconnectTask
  <2>13. CASE NotifyDisconnected
    BY <2>13 DEF NotifyDisconnected
  <2>14. CASE RunCollectStats
    BY <2>14 DEF RunCollectStats, Takes
  <2>15. CASE RunReport
    BY <2>15 DEF RunReport, Takes
  <2>16. CASE SendStats
    BY <2>16 DEF SendStats
  <2>17. CASE RunAudio
    BY <2>17 DEF RunAudio, Takes
  <2>18. CASE RunKill
    BY <2>18 DEF RunKill, Takes
  <2>19. CASE RunResetTracks
    BY <2>19 DEF RunResetTracks, Takes
  <2>20. ASSUME NEW m \in Updates, Deliver(m) PROVE Inert
    BY <2>20 DEF Deliver, Sends
  <2>21. CASE HandleOther
    BY <2>21 DEF HandleOther
  <2>22. CASE HandleJoined
    BY <2>22 DEF HandleJoined
  <2>23. CASE OnJoined
    BY <2>23 DEF OnJoined
  <2>24. CASE HandleDisconnected
    BY <2>24 DEF HandleDisconnected, DisconnectTask
  <2>25. CASE HandleStats
    BY <2>25 DEF HandleStats, Task
  <2>26. CASE ConnectionUp
    BY <2>26 DEF ConnectionUp
  <2>27. CASE ConnectionFails
    BY <2>27 DEF ConnectionFails
  <2>28. CASE ConnectionCloses
    BY <2>28 DEF ConnectionCloses, DisconnectTask
  <2>29. CASE DeliverStats
    BY <2>29 DEF DeliverStats, Task
  <2>30. CASE FireTimer
    BY <2>30 DEF FireTimer, Task
  <2>31. CASE OnAudioData
    BY <2>31 DEF OnAudioData, Task
  <2>32. CASE OnVideoFrame
    BY <2>32 DEF OnVideoFrame
  <2>33. CASE BeginDestroy
    BY <2>33 DEF BeginDestroy, Task, InUse
  <2>34. CASE DestroyClose
    BY <2>34 DEF DestroyClose, Task, QueuesAfterClose, DisconnectTask
  <2>35. CASE DestroyMembers
    BY <2>35 DEF DestroyMembers
  <2>36. CASE Terminated
    BY <2>36 DEF Terminated
  <2>37. CASE UNCHANGED vars
    BY <2>37
  <2>. QED
    BY <2>1, <2>2, <2>3, <2>4, <2>5, <2>6, <2>7, <2>8, <2>9, <2>10, <2>11, <2>12,
       <2>13, <2>14, <2>15, <2>16, <2>17, <2>18, <2>19, <2>20, <2>21, <2>22, <2>23,
       <2>24, <2>25, <2>26, <2>27, <2>28, <2>29, <2>30, <2>31, <2>32, <2>33, <2>34,
       <2>35, <2>36, <2>37 DEF Next, ClientThread, NetworkHandler
<1>. QED
  BY <1>1, Invariance, PTL DEF Spec, DeadClientIsInert

\* No step takes the client back to an earlier state.
THEOREM StateAdvances == Spec => StateOnlyAdvances
<1>1. ASSUME Inv, [Next]_vars
      PROVE  Rank[state'] >= Rank[state]
  <2> DEFINE Forward == Rank[state'] >= Rank[state]
  <2> USE <1>1 DEF Inv, TypeOK, Rank, States, vars
  <2>1. ASSUME NEW c \in Callers, ConnectActiveConference(c) PROVE Forward
    BY <2>1 DEF ConnectActiveConference, InUse
  <2>2. ASSUME NEW c \in Callers, PostConnect(c) PROVE Forward
    BY <2>2 DEF PostConnect, Task
  <2>3. ASSUME NEW c \in Callers, LeaveRead(c) PROVE Forward
    BY <2>3 DEF LeaveRead, InUse
  <2>4. ASSUME NEW c \in Callers, LeaveSend(c) PROVE Forward
    BY <2>4 DEF LeaveSend, DisconnectTask
  <2>5. CASE DropDeadTask
    BY <2>5 DEF DropDeadTask
  <2>6. CASE RunConnect
    BY <2>6 DEF RunConnect, Takes
  <2>7. CASE ConnectProgress
    BY <2>7 DEF ConnectProgress
  <2>8. CASE SetRemote
    BY <2>8 DEF SetRemote
  <2>9. CASE ConnectFails
    BY <2>9 DEF ConnectFails, DisconnectWith
  <2>10. CASE StartJoining
    BY <2>10 DEF StartJoining
  <2>11. CASE RunDisconnect
    BY <2>11 DEF RunDisconnect, Takes, DisconnectWith
  <2>12. CASE CloseConnection
    BY <2>12 DEF CloseConnection, QueuesAfterClose, DisconnectTask
  <2>13. CASE NotifyDisconnected
    BY <2>13 DEF NotifyDisconnected
  <2>14. CASE RunCollectStats
    BY <2>14 DEF RunCollectStats, Takes
  <2>15. CASE RunReport
    BY <2>15 DEF RunReport, Takes
  <2>16. CASE SendStats
    BY <2>16 DEF SendStats
  <2>17. CASE RunAudio
    BY <2>17 DEF RunAudio, Takes
  <2>18. CASE RunKill
    BY <2>18 DEF RunKill, Takes
  <2>19. CASE RunResetTracks
    BY <2>19 DEF RunResetTracks, Takes
  <2>20. ASSUME NEW m \in Updates, Deliver(m) PROVE Forward
    BY <2>20 DEF Deliver, Sends
  <2>21. CASE HandleOther
    BY <2>21 DEF HandleOther
  <2>22. CASE HandleJoined
    BY <2>22 DEF HandleJoined
  <2>23. CASE OnJoined
    BY <2>23 DEF OnJoined
  <2>24. CASE HandleDisconnected
    BY <2>24 DEF HandleDisconnected, DisconnectTask
  <2>25. CASE HandleStats
    BY <2>25 DEF HandleStats, Task
  <2>26. CASE ConnectionUp
    BY <2>26 DEF ConnectionUp
  <2>27. CASE ConnectionFails
    BY <2>27 DEF ConnectionFails
  <2>28. CASE ConnectionCloses
    BY <2>28 DEF ConnectionCloses, DisconnectTask
  <2>29. CASE DeliverStats
    BY <2>29 DEF DeliverStats, Task
  <2>30. CASE FireTimer
    BY <2>30 DEF FireTimer, Task
  <2>31. CASE OnAudioData
    BY <2>31 DEF OnAudioData, Task
  <2>32. CASE OnVideoFrame
    BY <2>32 DEF OnVideoFrame
  <2>33. CASE BeginDestroy
    BY <2>33 DEF BeginDestroy, Task, InUse
  <2>34. CASE DestroyClose
    BY <2>34 DEF DestroyClose, Task, QueuesAfterClose, DisconnectTask
  <2>35. CASE DestroyMembers
    BY <2>35 DEF DestroyMembers
  <2>36. CASE Terminated
    BY <2>36 DEF Terminated
  <2>37. CASE UNCHANGED vars
    BY <2>37
  <2>. QED
    BY <2>1, <2>2, <2>3, <2>4, <2>5, <2>6, <2>7, <2>8, <2>9, <2>10, <2>11, <2>12,
       <2>13, <2>14, <2>15, <2>16, <2>17, <2>18, <2>19, <2>20, <2>21, <2>22, <2>23,
       <2>24, <2>25, <2>26, <2>27, <2>28, <2>29, <2>30, <2>31, <2>32, <2>33, <2>34,
       <2>35, <2>36, <2>37 DEF Next, ClientThread, NetworkHandler
<1>. QED
  BY <1>1, Invariance, PTL DEF Spec, StateOnlyAdvances

\* The client implements the contract of the observer interface: OnJoined and
\* OnDisconnected at most once each, and nothing after OnDisconnected, from
\* whichever thread.
THEOREM Implements == Spec => ImplementsContract
<1>1. Init => Contract!Init
  BY DEF Init, Contract!Init
<1>2. ASSUME Inv, [Next]_vars
      PROVE  [Contract!Next]_(Contract!contractVars)
  <2> DEFINE Maps == [Contract!Next]_(Contract!contractVars)
  <2> USE <1>2
      DEF Contract!contractVars, Contract!Next, Contract!Joined,
          Contract!Disconnected,
          Contract!Data, Inv, JoinedInv, DisconnectInv, vars,
              callVars
  <2>1. ASSUME NEW c \in Callers, ConnectActiveConference(c) PROVE Maps
    BY <2>1 DEF ConnectActiveConference, InUse
  <2>2. ASSUME NEW c \in Callers, PostConnect(c) PROVE Maps
    BY <2>2 DEF PostConnect, Task
  <2>3. ASSUME NEW c \in Callers, LeaveRead(c) PROVE Maps
    BY <2>3 DEF LeaveRead, InUse
  <2>4. ASSUME NEW c \in Callers, LeaveSend(c) PROVE Maps
    BY <2>4 DEF LeaveSend, DisconnectTask
  <2>5. CASE DropDeadTask
    BY <2>5 DEF DropDeadTask
  <2>6. CASE RunConnect
    BY <2>6 DEF RunConnect, Takes
  <2>7. CASE ConnectProgress
    BY <2>7 DEF ConnectProgress
  <2>8. CASE SetRemote
    BY <2>8 DEF SetRemote
  <2>9. CASE ConnectFails
    BY <2>9 DEF ConnectFails, DisconnectWith
  <2>10. CASE StartJoining
    BY <2>10 DEF StartJoining
  <2>11. CASE RunDisconnect
    BY <2>11 DEF RunDisconnect, Takes, DisconnectWith
  <2>12. CASE CloseConnection
    BY <2>12 DEF CloseConnection, QueuesAfterClose, DisconnectTask
  <2>13. CASE NotifyDisconnected
    BY <2>13 DEF NotifyDisconnected
  <2>14. CASE RunCollectStats
    BY <2>14 DEF RunCollectStats, Takes
  <2>15. CASE RunReport
    BY <2>15 DEF RunReport, Takes
  <2>16. CASE SendStats
    BY <2>16 DEF SendStats
  <2>17. CASE RunAudio
    BY <2>17 DEF RunAudio, Takes
  <2>18. CASE RunKill
    BY <2>18 DEF RunKill, Takes
  <2>19. CASE RunResetTracks
    BY <2>19 DEF RunResetTracks, Takes
  <2>20. ASSUME NEW m \in Updates, Deliver(m) PROVE Maps
    BY <2>20 DEF Deliver, Sends
  <2>21. CASE HandleOther
    BY <2>21 DEF HandleOther
  <2>22. CASE HandleJoined
    BY <2>22 DEF HandleJoined
  <2>23. CASE OnJoined
    BY <2>23 DEF OnJoined
  <2>24. CASE HandleDisconnected
    BY <2>24 DEF HandleDisconnected, DisconnectTask
  <2>25. CASE HandleStats
    BY <2>25 DEF HandleStats, Task
  <2>26. CASE ConnectionUp
    BY <2>26 DEF ConnectionUp
  <2>27. CASE ConnectionFails
    BY <2>27 DEF ConnectionFails
  <2>28. CASE ConnectionCloses
    BY <2>28 DEF ConnectionCloses, DisconnectTask
  <2>29. CASE DeliverStats
    BY <2>29 DEF DeliverStats, Task
  <2>30. CASE FireTimer
    BY <2>30 DEF FireTimer, Task
  <2>31. CASE OnAudioData
    BY <2>31 DEF OnAudioData, Task
  <2>32. CASE OnVideoFrame
    BY <2>32 DEF OnVideoFrame
  <2>33. CASE BeginDestroy
    BY <2>33 DEF BeginDestroy, Task, InUse
  <2>34. CASE DestroyClose
    BY <2>34 DEF DestroyClose, Task, QueuesAfterClose, DisconnectTask
  <2>35. CASE DestroyMembers
    BY <2>35 DEF DestroyMembers
  <2>36. CASE Terminated
    BY <2>36 DEF Terminated
  <2>37. CASE UNCHANGED vars
    BY <2>37
  <2>. QED
    BY <2>1, <2>2, <2>3, <2>4, <2>5, <2>6, <2>7, <2>8, <2>9, <2>10, <2>11, <2>12,
       <2>13, <2>14, <2>15, <2>16, <2>17, <2>18, <2>19, <2>20, <2>21, <2>22, <2>23,
       <2>24, <2>25, <2>26, <2>27, <2>28, <2>29, <2>30, <2>31, <2>32, <2>33, <2>34,
       <2>35, <2>36, <2>37 DEF Next, ClientThread, NetworkHandler
<1>. QED
  BY <1>1, <1>2, Invariance, PTL DEF Spec, ImplementsContract, Contract!Spec

=============================================================================
