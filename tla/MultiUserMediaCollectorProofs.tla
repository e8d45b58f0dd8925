--------------------- MODULE MultiUserMediaCollectorProofs ---------------------
(***************************************************************************)
(* Proofs about MultiUserMediaCollector, for any sources, threshold and    *)
(* bounds.  The invariant follows a disconnection from the callback        *)
(* through the queue to the notifications and the application's answer.    *)
(* On it rests another, by source: the files closed so far are the         *)
(* stretches of the source's frames but the one that is open.              *)
(***************************************************************************)
EXTENDS MultiUserMediaCollector, TLAPS, FiniteSetTheorems, SequenceTheorems

\* How far the disconnection has come on the collector thread, and how often
\* each notification has been notified by then.
NotifyInv ==
  /\ joinedCalls \in {0, 1}
  /\ disconnectStatus = "none" =>
       collectorPc = "idle" /\ disconnectNotified = 0 /\ joinNotified = joinedCalls
  /\ disconnectStatus # "none" => disconnectedCalls = 1
  /\ collectorPc = "notify" => disconnectNotified = 0 /\ joinNotified = joinedCalls
  /\ collectorPc = "check" => disconnectNotified = 1 /\ joinNotified = joinedCalls
  /\ collectorPc = "release" => disconnectNotified = 1 /\ joinNotified = 0
  /\ disconnectStatus # "none" /\ collectorPc = "idle" =>
       disconnectNotified = 1 /\ joinNotified = 1

\* The tasks of queue q, with the status s, d calls of OnDisconnected and n
\* notifications of a disconnection so far: the disconnect task is the only one
\* of its kind and comes after every frame, and the status of a disconnection is
\* asked for after its notification.
QueueInv(q, s, d, n) ==
  \A i \in 1..Len(q) :
    /\ q[i].kind = "frame" => s = "none"
    /\ q[i].kind = "disconnect" =>
         /\ s = "none" /\ d = 1
         /\ \A j \in 1..Len(q) : j > i => q[j].kind \notin {"frame", "disconnect"}
    /\ q[i].kind = "disconnectStatus" => n = 1

\* Once the disconnect task has run, every segment is closed.
ClosedInv ==
  disconnectStatus # "none" =>
    \A c \in Csrcs : audioSegments[c] = None /\ videoSegments[c] = None

\* The application's answer is the status of the disconnection.
AnswerInv ==
  disconnectResult \in Statuses \cup {"unset"} =>
    disconnectResult = disconnectStatus /\ disconnectStatus # "none"

Inv ==
  /\ TypeOK
  /\ NotifyInv
  /\ QueueInv(queue, disconnectStatus, disconnectedCalls, disconnectNotified)
  /\ ClosedInv
  /\ AnswerInv

-----------------------------------------------------------------------------
(***************************************************************************)
(* Type correctness.                                                       *)
(***************************************************************************)

\* Posting a task keeps the queue a sequence of tasks.
LEMMA QueueAppend ==
  ASSUME NEW q \in Seq(Tasks), NEW t \in Tasks
  PROVE  Append(q, t) \in Seq(Tasks)
OBVIOUS

\* Taking the first task yields a task and leaves a sequence of tasks.
LEMMA QueueTail ==
  ASSUME NEW q \in Seq(Tasks), q # <<>>
  PROVE  Head(q) \in Tasks /\ Tail(q) \in Seq(Tasks)
OBVIOUS

\* A task whose kind is "frame" carries a frame, and so on.
LEMMA TaskFields ==
  ASSUME NEW t \in Tasks
  PROVE  /\ t.kind = "frame" => t.frame \in Frames
         /\ t.kind = "update" => t.identifier \in Identifiers \cup {None}
         /\ t.kind = "disconnect" => t.status \in Statuses
BY DEF Tasks, FrameTasks, UpdateTasks, DisconnectTasks, StatusTasks

\* A frame has the fields of a segment.
LEMMA FrameFields ==
  ASSUME NEW f \in Frames
  PROVE  /\ f.media \in {"audio", "video"} /\ f.csrc \in Csrcs
         /\ f.size \in Sizes \cup {"none"} /\ f.time \in Nat
BY DEF Frames, AudioFrames, VideoFrames

\* A frame written to a segment changes its end and its length.
LEMMA SegmentExtended ==
  ASSUME NEW s \in Segments, NEW t \in Nat, NEW n \in Nat
  PROVE  [s EXCEPT !.last = t, !.frames = n] \in Segments
BY DEF Segments

\* A frame leaves its source a segment or none, and finishes segments only.
LEMMA FrameTyped ==
  ASSUME TypeOK, NEW f \in Frames, NEW segment \in Segments \cup {None},
         NEW continues \in BOOLEAN
  PROVE  /\ NextSegment(segment, f, continues) \in Segments \cup {None}
         /\ FinishedBy(f, segment, continues) \in [Media -> [Csrcs -> Seq(Segments)]]
<1>1. NewSegment(f) \in Segments \cup {None}
  BY FrameFields DEF NewSegment, Segments, TypeOK, Media
<1>2. CASE segment # None /\ continues
  <2>1. [segment EXCEPT !.last = f.time, !.frames = @ + 1] \in Segments
    <3>1. segment \in Segments /\ f.time \in Nat
      BY <1>2, FrameFields
    <3>2. segment.frames + 1 \in Nat
      BY <3>1 DEF Segments
    <3> QED
      BY <3>1, <3>2, SegmentExtended
  <2> QED
    BY <1>2, <2>1, FrameFields DEF NextSegment, FinishedBy, TypeOK
<1>3. CASE ~(segment # None /\ continues)
  <2>1. f.media \in Media /\ f.csrc \in Csrcs
    BY FrameFields DEF Media
  <2>2. segment # None /\ ~continues =>
          [finished EXCEPT ![f.media][f.csrc] = Append(@, segment)]
            \in [Media -> [Csrcs -> Seq(Segments)]]
    BY <2>1 DEF TypeOK
  <2> QED
    BY <1>1, <1>3, <2>2 DEF NextSegment, FinishedBy, TypeOK
<1> QED
  BY <1>2, <1>3

\* A frame that is handled joins its source's frames.
LEMMA HandledTyped ==
  ASSUME TypeOK, NEW f \in Frames, Handles(f)
  PROVE  /\ DOMAIN handled' = Media
         /\ \A media \in Media : DOMAIN handled'[media] = Csrcs
         /\ \A media \in Media, c \in Csrcs : handled'[media][c] \in Seq(HandledFrames(media, c))
<1> DEFINE e == [frame |-> f, identifier |-> identifiers[f.csrc]]
<1>1. f.media \in Media /\ f.csrc \in Csrcs /\ e \in HandledFrames(f.media, f.csrc)
  BY FrameFields DEF HandledFrames, TypeOK, Media
<1>2. handled' = [handled EXCEPT ![f.media][f.csrc] = Append(@, e)]
  BY DEF Handles
<1> HIDE DEF e
<1>3. /\ DOMAIN handled' = Media
      /\ \A media \in Media : DOMAIN handled'[media] = Csrcs
      /\ \A media \in Media, c \in Csrcs :
           handled'[media][c] = IF media = f.media /\ c = f.csrc
                                THEN Append(handled[media][c], e) ELSE handled[media][c]
  BY <1>1, <1>2 DEF TypeOK
<1>4. Append(handled[f.media][f.csrc], e) \in Seq(HandledFrames(f.media, f.csrc))
  BY <1>1 DEF TypeOK
<1> QED
  BY <1>3, <1>4 DEF TypeOK

\* Closing the open segments closes segments only.
LEMMA ClosedTyped ==
  ASSUME NEW files \in [Csrcs -> Seq(Segments)], NEW segments \in [Csrcs -> Segments \cup {None}]
  PROVE  ClosedFiles(files, segments) \in [Csrcs -> Seq(Segments)]
<1>1. \A c \in Csrcs : segments[c] # None => Append(files[c], segments[c]) \in Seq(Segments)
  OBVIOUS
<1> QED
  BY <1>1 DEF ClosedFiles

\* Every step keeps the types.
LEMMA TypeStep == TypeOK /\ [Next]_vars => TypeOK'
<1> SUFFICES ASSUME TypeOK, [Next]_vars PROVE TypeOK'
  OBVIOUS
<1> USE DEF TypeOK, vars, contractVars, segmentVars, notificationVars, appVars, bounds
<1>1. ASSUME NEW c \in Csrcs, OnAudioFrame(c) PROVE TypeOK'
  <2> DEFINE f == [media |-> "audio", csrc |-> c, size |-> "none", time |-> now]
             t == [kind |-> "frame", frame |-> f]
  <2>1. t \in Tasks
    BY DEF Tasks, FrameTasks, Frames, AudioFrames
  <2>2. queue' \in Seq(Tasks)
    BY <1>1, <2>1, QueueAppend DEF OnAudioFrame, PostFrame
  <2> QED
    BY <1>1, <2>2 DEF OnAudioFrame, PostFrame, Contract!Data
<1>2. ASSUME NEW c \in Csrcs, NEW s \in Sizes, OnVideoFrame(c, s) PROVE TypeOK'
  <2> DEFINE f == [media |-> "video", csrc |-> c, size |-> s, time |-> now]
             t == [kind |-> "frame", frame |-> f]
  <2>1. t \in Tasks
    BY DEF Tasks, FrameTasks, Frames, VideoFrames
  <2>2. queue' \in Seq(Tasks)
    BY <1>2, <2>1, QueueAppend DEF OnVideoFrame, PostFrame
  <2> QED
    BY <1>2, <2>2 DEF OnVideoFrame, PostFrame, Contract!Data
<1>3. ASSUME NEW cs \in SUBSET Csrcs, NEW id \in Identifiers \cup {None},
             OnMessageFromServer(cs, id)
      PROVE  TypeOK'
  <2>1. [kind |-> "update", csrcs |-> cs, identifier |-> id] \in Tasks
    BY DEF Tasks, UpdateTasks
  <2>2. queue' \in Seq(Tasks)
    BY <1>3, <2>1, QueueAppend DEF OnMessageFromServer
  <2> QED
    BY <1>3, <2>2 DEF OnMessageFromServer, Contract!Data
<1>4. CASE OnJoined
  BY <1>4 DEF OnJoined, Contract!Joined
<1>5. ASSUME NEW s \in Statuses, OnDisconnected(s) PROVE TypeOK'
  <2>1. [kind |-> "disconnect", status |-> s] \in Tasks
    BY DEF Tasks, DisconnectTasks
  <2>2. queue' \in Seq(Tasks)
    BY <1>5, <2>1, QueueAppend DEF OnDisconnected
  <2> QED
    BY <1>5, <2>2 DEF OnDisconnected, Contract!Disconnected
<1>6. CASE Tick
  BY <1>6 DEF Tick
<1>7. CASE HandleAudioData
  <2> DEFINE f == Head(queue).frame
             segment == audioSegments[f.csrc]
             continues == segment # None /\ WithinGap(segment, f)
  <2>1. f \in Frames /\ f.csrc \in Csrcs /\ queue' \in Seq(Tasks)
    BY <1>7, QueueTail, TaskFields, FrameFields DEF HandleAudioData, Takes
  <2>2. segment \in Segments \cup {None} /\ continues \in BOOLEAN
    BY <2>1
  <2>3. /\ audioSegments' = [audioSegments EXCEPT ![f.csrc] =
                               NextSegment(segment, f, continues)]
        /\ finished' = FinishedBy(f, segment, continues)
        /\ Handles(f)
    BY <1>7 DEF HandleAudioData
  <2> HIDE DEF f, segment, continues
  <2>4. /\ audioSegments' \in [Csrcs -> Segments \cup {None}]
        /\ finished' \in [Media -> [Csrcs -> Seq(Segments)]]
    BY <2>1, <2>2, <2>3, FrameTyped
  <2>5. /\ DOMAIN handled' = Media
        /\ \A media \in Media : DOMAIN handled'[media] = Csrcs
        /\ \A media \in Media, c \in Csrcs : handled'[media][c] \in Seq(HandledFrames(media, c))
    BY <2>1, <2>3, HandledTyped
  <2>6. UNCHANGED <<contractVars, now, collectorPc, videoSegments, identifiers,
                    notificationVars, appVars, bounds>>
    BY <1>7 DEF HandleAudioData
  <2>7. /\ joinedCalls' \in {0, 1} /\ disconnectedCalls' \in {0, 1}
        /\ lastCall' \in {"none", "OnJoined", "OnDisconnected", "data"}
        /\ now' \in Nat /\ videoSegments' \in [Csrcs -> Segments \cup {None}]
        /\ collectorPc' \in {"idle", "notify", "check", "release"}
        /\ identifiers' \in [Csrcs -> Identifiers \cup {None}]
        /\ disconnectStatus' \in Statuses \cup {"none"}
        /\ joinNotified' \in Nat /\ disconnectNotified' \in Nat
        /\ appPc' \in {"connected", "waitJoined", "askJoined", "collecting",
                       "waitDisconnected", "askDisconnected", "exiting", "destroyed"}
        /\ joinResult' \in Results /\ disconnectResult' \in Results \cup {"unset"}
        /\ frames' \in Nat /\ updates' \in Nat
    BY <2>6
  <2> QED
    BY ONLY <2>1, <2>4, <2>5, <2>7 DEF TypeOK
<1>8. CASE HandleVideoData
  <2> DEFINE f == Head(queue).frame
             segment == videoSegments[f.csrc]
             continues == segment # None /\ WithinGap(segment, f) /\ segment.size = f.size
  <2>1. f \in Frames /\ f.csrc \in Csrcs /\ queue' \in Seq(Tasks)
    BY <1>8, QueueTail, TaskFields, FrameFields DEF HandleVideoData, Takes
  <2>2. segment \in Segments \cup {None} /\ continues \in BOOLEAN
    BY <2>1
  <2>3. /\ videoSegments' = [videoSegments EXCEPT ![f.csrc] =
                               NextSegment(segment, f, continues)]
        /\ finished' = FinishedBy(f, segment, continues)
        /\ Handles(f)
    BY <1>8 DEF HandleVideoData
  <2> HIDE DEF f, segment, continues
  <2>4. /\ videoSegments' \in [Csrcs -> Segments \cup {None}]
        /\ finished' \in [Media -> [Csrcs -> Seq(Segments)]]
    BY <2>1, <2>2, <2>3, FrameTyped
  <2>5. /\ DOMAIN handled' = Media
        /\ \A media \in Media : DOMAIN handled'[media] = Csrcs
        /\ \A media \in Media, c \in Csrcs : handled'[media][c] \in Seq(HandledFrames(media, c))
    BY <2>1, <2>3, HandledTyped
  <2>6. UNCHANGED <<contractVars, now, collectorPc, audioSegments, identifiers,
                    notificationVars, appVars, bounds>>
    BY <1>8 DEF HandleVideoData
  <2>7. /\ joinedCalls' \in {0, 1} /\ disconnectedCalls' \in {0, 1}
        /\ lastCall' \in {"none", "OnJoined", "OnDisconnected", "data"}
        /\ now' \in Nat /\ audioSegments' \in [Csrcs -> Segments \cup {None}]
        /\ collectorPc' \in {"idle", "notify", "check", "release"}
        /\ identifiers' \in [Csrcs -> Identifiers \cup {None}]
        /\ disconnectStatus' \in Statuses \cup {"none"}
        /\ joinNotified' \in Nat /\ disconnectNotified' \in Nat
        /\ appPc' \in {"connected", "waitJoined", "askJoined", "collecting",
                       "waitDisconnected", "askDisconnected", "exiting", "destroyed"}
        /\ joinResult' \in Results /\ disconnectResult' \in Results \cup {"unset"}
        /\ frames' \in Nat /\ updates' \in Nat
    BY <2>6
  <2> QED
    BY ONLY <2>1, <2>4, <2>5, <2>7 DEF TypeOK
<1>9. CASE HandleUpdate
  <2>1. Head(queue).identifier \in Identifiers \cup {None} /\ queue' \in Seq(Tasks)
    BY <1>9, QueueTail, TaskFields DEF HandleUpdate, Takes
  <2> QED
    BY <1>9, <2>1 DEF HandleUpdate
<1>10. CASE HandleDisconnect
  <2>1. Head(queue).status \in Statuses /\ queue' \in Seq(Tasks)
    BY <1>10, QueueTail, TaskFields DEF HandleDisconnect, Takes
  <2>2. finished' \in [Media -> [Csrcs -> Seq(Segments)]]
    <3>1. finished' = [media \in Media |-> ClosedFiles(finished[media], SegmentsOf(media))]
      BY <1>10 DEF HandleDisconnect
    <3>2. \A media \in Media :
            ClosedFiles(finished[media], SegmentsOf(media)) \in [Csrcs -> Seq(Segments)]
      BY ClosedTyped DEF SegmentsOf
    <3> QED
      BY <3>1, <3>2
  <2> QED
    BY <1>10, <2>1, <2>2 DEF HandleDisconnect
<1>11. CASE NotifyDisconnected
  BY <1>11 DEF NotifyDisconnected
<1>12. CASE CheckJoined
  BY <1>12 DEF CheckJoined
<1>13. CASE ReleaseJoined
  BY <1>13 DEF ReleaseJoined
<1>14. CASE AnswerJoined
  <2>1. queue' \in Seq(Tasks)
    BY <1>14, QueueTail DEF AnswerJoined, Takes
  <2> QED
    BY <1>14, <2>1 DEF AnswerJoined, Results, Statuses
<1>15. CASE AnswerDisconnected
  <2>1. queue' \in Seq(Tasks)
    BY <1>15, QueueTail DEF AnswerDisconnected, Takes
  <2> QED
    BY <1>15, <2>1 DEF AnswerDisconnected, Results, Statuses
<1>16. CASE BeginWait
  BY <1>16 DEF BeginWait, otherThanApp
<1>17. CASE GivesUp
  BY <1>17 DEF GivesUp, otherThanApp
<1>18. CASE Woken
  <2>1. \A k \in {"joinStatus", "disconnectStatus"} : [kind |-> k] \in Tasks
    BY DEF Tasks, StatusTasks
  <2>2. queue' \in Seq(Tasks)
    BY <1>18, <2>1, QueueAppend DEF Woken
  <2> QED
    BY <1>18, <2>2 DEF Woken, otherThanApp
<1>19. CASE WaitTimesOut
  BY <1>19 DEF WaitTimesOut, otherThanApp, Results
<1>20. CASE Destroy
  BY <1>20 DEF Destroy, otherThanApp
<1>21. CASE UNCHANGED vars
  BY <1>21
<1> QED
  BY <1>1, <1>2, <1>3, <1>4, <1>5, <1>6, <1>7, <1>8, <1>9, <1>10, <1>11, <1>12, <1>13,
     <1>14, <1>15, <1>16, <1>17, <1>18, <1>19, <1>20, <1>21
     DEF Next, CollectorThread, App, Terminated

\* Every variable keeps its type, for any sources, threshold and bounds.
THEOREM TypeCorrect == Spec => []TypeOK
<1>1. Init => TypeOK
  BY DEF Init, TypeOK, Contract!Init, Results
<1> QED
  BY <1>1, TypeStep, PTL DEF Spec

-----------------------------------------------------------------------------
(***************************************************************************)
(* The queue.                                                              *)
(***************************************************************************)

\* What posting puts where.
LEMMA AppendElements ==
  ASSUME NEW q \in Seq(Tasks), NEW t \in Tasks
  PROVE  /\ Len(Append(q, t)) = Len(q) + 1
         /\ \A i \in 1..Len(q) : Append(q, t)[i] = q[i]
         /\ Append(q, t)[Len(q) + 1] = t
OBVIOUS

\* What taking the first task leaves.
LEMMA TailElements ==
  ASSUME NEW q \in Seq(Tasks), q # <<>>
  PROVE  /\ Head(q) = q[1] /\ 1 \in 1..Len(q)
         /\ Len(Tail(q)) = Len(q) - 1
         /\ \A i \in 1..Len(Tail(q)) : Tail(q)[i] = q[i + 1] /\ i + 1 \in 1..Len(q)
OBVIOUS

\* A callback posts a frame or the disconnection only while none has come.
LEMMA QueueInvAppend ==
  ASSUME NEW q \in Seq(Tasks), NEW t \in Tasks, NEW s, NEW d, NEW n, NEW e,
         QueueInv(q, s, d, n),
         t.kind = "frame" => s = "none" /\ d = 0 /\ e = 0,
         t.kind = "disconnect" => s = "none" /\ d = 0 /\ e = 1,
         t.kind \notin {"frame", "disconnect"} => e = d,
         t.kind = "disconnectStatus" => n = 1
  PROVE  QueueInv(Append(q, t), s, e, n)
<1> DEFINE r == Append(q, t)
<1>1. /\ Len(r) = Len(q) + 1 /\ Len(q) \in Nat
      /\ \A i \in 1..Len(q) : r[i] = q[i]
      /\ r[Len(q) + 1] = t
  BY AppendElements
<1> HIDE DEF r
<1>2. \A i \in 1..Len(r) : (i \in 1..Len(q) /\ r[i] = q[i]) \/ (i = Len(q) + 1 /\ r[i] = t)
  BY <1>1
<1>3. \A i \in 1..Len(q) : q[i].kind = "disconnect" => t.kind \notin {"frame", "disconnect"}
  BY DEF QueueInv
<1>4. ASSUME NEW i \in 1..Len(r)
      PROVE  /\ r[i].kind = "frame" => s = "none"
             /\ r[i].kind = "disconnect" => s = "none" /\ e = 1
             /\ r[i].kind = "disconnectStatus" => n = 1
  <2>1. CASE i \in 1..Len(q) /\ r[i] = q[i]
    BY <1>3, <2>1 DEF QueueInv
  <2>2. CASE r[i] = t
    BY <2>2
  <2> QED
    BY <1>2, <2>1, <2>2
<1>5. ASSUME NEW i \in 1..Len(r), r[i].kind = "disconnect", NEW j \in 1..Len(r), j > i
      PROVE  r[j].kind \notin {"frame", "disconnect"}
  <2>1. i \in 1..Len(q) /\ r[i] = q[i]
    BY <1>1, <1>2, <1>5
  <2>2. CASE j \in 1..Len(q) /\ r[j] = q[j]
    BY <1>5, <2>1, <2>2 DEF QueueInv
  <2>3. CASE r[j] = t
    BY <1>3, <1>5, <2>1, <2>3
  <2> QED
    BY <1>2, <2>2, <2>3
<1>6. QueueInv(r, s, e, n)
  BY <1>4, <1>5 DEF QueueInv
<1> QED
  BY <1>6 DEF r

\* Taking a task keeps the order of the others.
LEMMA QueueInvTail ==
  ASSUME NEW q \in Seq(Tasks), q # <<>>, NEW s, NEW d, NEW n, QueueInv(q, s, d, n)
  PROVE  QueueInv(Tail(q), s, d, n)
<1>1. ASSUME NEW i \in 1..Len(Tail(q))
      PROVE  /\ Tail(q)[i] = q[i + 1] /\ i + 1 \in 1..Len(q)
             /\ \A j \in 1..Len(Tail(q)) : j > i =>
                  Tail(q)[j] = q[j + 1] /\ j + 1 \in 1..Len(q) /\ j + 1 > i + 1
  BY TailElements
<1> QED
  BY <1>1 DEF QueueInv

\* Once the disconnect task is taken, the rest does not depend on the status.
LEMMA QueueInvDisconnect ==
  ASSUME NEW q \in Seq(Tasks), q # <<>>, NEW s, NEW d, NEW n, QueueInv(q, s, d, n),
         Head(q).kind = "disconnect", NEW u
  PROVE  s = "none" /\ d = 1 /\ QueueInv(Tail(q), u, d, n)
<1>1. q[1].kind = "disconnect" /\ 1 \in 1..Len(q)
  BY TailElements
<1>2. s = "none" /\ d = 1
  BY <1>1 DEF QueueInv
<1>3. \A j \in 1..Len(q) : j > 1 => q[j].kind \notin {"frame", "disconnect"}
  BY <1>1 DEF QueueInv
<1>4. ASSUME NEW i \in 1..Len(Tail(q))
      PROVE  Tail(q)[i] = q[i + 1] /\ i + 1 \in 1..Len(q) /\ i + 1 > 1
  BY TailElements
<1> QED
  BY <1>2, <1>3, <1>4 DEF QueueInv

-----------------------------------------------------------------------------
(***************************************************************************)
(* The invariant.                                                          *)
(***************************************************************************)

\* The invariant is inductive.
LEMMA InvStep == Inv /\ [Next]_vars => Inv'
<1> SUFFICES ASSUME Inv, [Next]_vars PROVE Inv'
  OBVIOUS
<1> DEFINE QInv == QueueInv(queue, disconnectStatus, disconnectedCalls, disconnectNotified)
<1>0. TypeOK' /\ queue \in Seq(Tasks) /\ QInv
  BY TypeStep DEF Inv, TypeOK
<1> USE DEF vars, contractVars, segmentVars, notificationVars, appVars, otherThanApp
<1>1. ASSUME NEW f \in Frames, PostFrame(f) PROVE Inv'
  <2> DEFINE t == [kind |-> "frame", frame |-> f]
  <2>1. t \in Tasks
    BY DEF Tasks, FrameTasks
  <2>2. /\ disconnectedCalls = 0 /\ disconnectedCalls' = 0 /\ disconnectStatus = "none"
        /\ queue' = Append(queue, t)
        /\ disconnectStatus' = disconnectStatus /\ disconnectNotified' = disconnectNotified
    BY <1>1 DEF PostFrame, Contract!Data, Inv, NotifyInv
  <2>3. QInv'
    BY <1>0, <2>1, <2>2, QueueInvAppend
  <2>4. NotifyInv' /\ ClosedInv' /\ AnswerInv'
    BY <1>1, <2>2 DEF PostFrame, Contract!Data, Inv, NotifyInv, ClosedInv, AnswerInv
  <2> QED
    BY <1>0, <2>3, <2>4 DEF Inv
<1>2. ASSUME NEW cs \in SUBSET Csrcs, NEW id \in Identifiers \cup {None},
             OnMessageFromServer(cs, id)
      PROVE  Inv'
  <2> DEFINE t == [kind |-> "update", csrcs |-> cs, identifier |-> id]
  <2>1. t \in Tasks
    BY DEF Tasks, UpdateTasks
  <2>2. /\ disconnectedCalls' = disconnectedCalls
        /\ queue' = Append(queue, t)
        /\ disconnectStatus' = disconnectStatus /\ disconnectNotified' = disconnectNotified
    BY <1>2 DEF OnMessageFromServer, Contract!Data
  <2>3. QInv'
    BY <1>0, <2>1, <2>2, QueueInvAppend
  <2>4. NotifyInv' /\ ClosedInv' /\ AnswerInv'
    BY <1>2 DEF OnMessageFromServer, Contract!Data, Inv, NotifyInv, ClosedInv, AnswerInv
  <2> QED
    BY <1>0, <2>3, <2>4 DEF Inv
<1>3. CASE OnJoined
  <2>1. UNCHANGED <<queue, disconnectedCalls, disconnectStatus, disconnectNotified>>
    BY <1>3 DEF OnJoined, Contract!Joined
  <2>2. NotifyInv' /\ ClosedInv' /\ AnswerInv'
    BY <1>3 DEF OnJoined, Contract!Joined, Inv, NotifyInv, ClosedInv, AnswerInv
  <2> QED
    BY <1>0, <2>1, <2>2 DEF Inv
<1>4. ASSUME NEW s \in Statuses, OnDisconnected(s) PROVE Inv'
  <2> DEFINE t == [kind |-> "disconnect", status |-> s]
  <2>1. t \in Tasks
    BY DEF Tasks, DisconnectTasks
  <2>2. /\ disconnectedCalls = 0 /\ disconnectedCalls' = 1 /\ disconnectStatus = "none"
        /\ queue' = Append(queue, t)
        /\ disconnectStatus' = disconnectStatus /\ disconnectNotified' = disconnectNotified
    BY <1>4 DEF OnDisconnected, Contract!Disconnected, Inv, NotifyInv
  <2>3. QInv'
    BY <1>0, <2>1, <2>2, QueueInvAppend
  <2>4. NotifyInv' /\ ClosedInv' /\ AnswerInv'
    BY <1>4 DEF OnDisconnected, Contract!Disconnected, Inv, NotifyInv, ClosedInv, AnswerInv
  <2> QED
    BY <1>0, <2>3, <2>4 DEF Inv
<1>5. CASE HandleAudioData \/ HandleVideoData
  <2>1. /\ queue # <<>> /\ Head(queue).kind = "frame" /\ queue' = Tail(queue)
        /\ UNCHANGED <<contractVars, collectorPc, notificationVars, appVars>>
    BY <1>5 DEF HandleAudioData, HandleVideoData, Takes
  <2>2. disconnectStatus = "none"
    BY <1>0, <2>1, TailElements DEF QueueInv
  <2>3. QInv'
    BY <1>0, <2>1, QueueInvTail
  <2>4. NotifyInv' /\ ClosedInv' /\ AnswerInv'
    BY <2>1, <2>2 DEF Inv, NotifyInv, ClosedInv, AnswerInv
  <2> QED
    BY <1>0, <2>3, <2>4 DEF Inv
<1>6. CASE HandleUpdate
  <2>1. QInv'
    BY <1>0, <1>6, QueueInvTail DEF HandleUpdate, Takes
  <2>2. NotifyInv' /\ ClosedInv' /\ AnswerInv'
    BY <1>6 DEF HandleUpdate, Inv, NotifyInv, ClosedInv, AnswerInv
  <2> QED
    BY <1>0, <2>1, <2>2 DEF Inv
<1>7. CASE HandleDisconnect
  <2>1. /\ queue # <<>> /\ Head(queue).kind = "disconnect" /\ queue' = Tail(queue)
        /\ collectorPc = "idle" /\ collectorPc' = "notify"
        /\ disconnectStatus' = Head(queue).status
        /\ UNCHANGED <<contractVars, joinNotified, disconnectNotified, appVars>>
    BY <1>7 DEF HandleDisconnect, Takes
  <2>2. Head(queue).status \in Statuses
    BY <1>0, <2>1, QueueTail, TaskFields
  <2>3. disconnectStatus = "none" /\ disconnectedCalls = 1 /\ QInv'
    BY <1>0, <2>1, QueueInvDisconnect
  <2>4. NotifyInv' /\ AnswerInv'
    BY <2>1, <2>2, <2>3 DEF Inv, NotifyInv, AnswerInv, Statuses
  <2>5. ClosedInv'
    BY <1>7 DEF HandleDisconnect, ClosedInv
  <2> QED
    BY <1>0, <2>3, <2>4, <2>5 DEF Inv
<1>8. CASE NotifyDisconnected
  <2>1. QInv'
    BY <1>0, <1>8 DEF NotifyDisconnected, QueueInv, Inv, NotifyInv
  <2>2. NotifyInv' /\ ClosedInv' /\ AnswerInv'
    BY <1>8 DEF NotifyDisconnected, Inv, NotifyInv, ClosedInv, AnswerInv
  <2> QED
    BY <1>0, <2>1, <2>2 DEF Inv
<1>9. CASE CheckJoined
  <2>1. NotifyInv' /\ ClosedInv' /\ AnswerInv'
    BY <1>9 DEF CheckJoined, Inv, NotifyInv, ClosedInv, AnswerInv
  <2> QED
    BY <1>0, <1>9, <2>1 DEF Inv, CheckJoined
<1>10. CASE ReleaseJoined
  <2>1. NotifyInv' /\ ClosedInv' /\ AnswerInv'
    BY <1>10 DEF ReleaseJoined, Inv, NotifyInv, ClosedInv, AnswerInv
  <2> QED
    BY <1>0, <1>10, <2>1 DEF Inv, ReleaseJoined
<1>11. CASE AnswerJoined
  <2>1. QInv'
    BY <1>0, <1>11, QueueInvTail DEF AnswerJoined, Takes
  <2>2. NotifyInv' /\ ClosedInv' /\ AnswerInv'
    BY <1>11 DEF AnswerJoined, Inv, NotifyInv, ClosedInv, AnswerInv
  <2> QED
    BY <1>0, <2>1, <2>2 DEF Inv
<1>12. CASE AnswerDisconnected
  <2>1. /\ queue # <<>> /\ Head(queue).kind = "disconnectStatus" /\ queue' = Tail(queue)
        /\ disconnectResult' = IF disconnectStatus = "none" THEN "unset" ELSE disconnectStatus
        /\ UNCHANGED <<contractVars, collectorPc, segmentVars, notificationVars>>
    BY <1>12 DEF AnswerDisconnected, Takes
  <2>2. disconnectNotified = 1
    BY <1>0, <2>1, TailElements DEF QueueInv
  <2>3. disconnectStatus # "none"
    BY <2>2 DEF Inv, NotifyInv
  <2>4. QInv'
    BY <1>0, <2>1, QueueInvTail
  <2>5. NotifyInv' /\ ClosedInv' /\ AnswerInv'
    BY <2>1, <2>3 DEF Inv, NotifyInv, ClosedInv, AnswerInv
  <2> QED
    BY <1>0, <2>4, <2>5 DEF Inv
<1>13. CASE Woken
  <2>1. UNCHANGED <<contractVars, collectorPc, segmentVars, notificationVars, disconnectResult>>
    BY <1>13 DEF Woken
  <2>2. PICK k \in {"joinStatus", "disconnectStatus"} :
          queue' = Append(queue, [kind |-> k])
          /\ (k = "disconnectStatus" => disconnectNotified > 0)
    BY <1>13 DEF Woken
  <2>3. [kind |-> k] \in Tasks
    BY DEF Tasks, StatusTasks
  <2>4. k = "disconnectStatus" => disconnectNotified = 1
    <3>1. disconnectNotified \in {0, 1}
      BY DEF Inv, NotifyInv, TypeOK
    <3> QED
      BY <2>2, <3>1
  <2>5. QInv'
    BY <1>0, <2>1, <2>2, <2>3, <2>4, QueueInvAppend
  <2>6. NotifyInv' /\ ClosedInv' /\ AnswerInv'
    BY <2>1 DEF Inv, NotifyInv, ClosedInv, AnswerInv
  <2> QED
    BY <1>0, <2>5, <2>6 DEF Inv
<1>14. CASE Tick \/ BeginWait \/ GivesUp \/ WaitTimesOut \/ UNCHANGED vars
  <2>1. /\ UNCHANGED <<contractVars, queue, collectorPc, segmentVars, notificationVars>>
        /\ disconnectResult' = disconnectResult \/ disconnectResult' = "timeout"
    BY <1>14 DEF Tick, BeginWait, GivesUp, WaitTimesOut
  <2>2. NotifyInv' /\ ClosedInv' /\ AnswerInv'
    BY <2>1 DEF Inv, NotifyInv, ClosedInv, AnswerInv, Statuses
  <2> QED
    BY <1>0, <2>1, <2>2 DEF Inv
<1>15. CASE Destroy
  <2>1. /\ queue' = <<>>
        /\ UNCHANGED <<contractVars, collectorPc, segmentVars, notificationVars,
                       disconnectResult>>
    BY <1>15 DEF Destroy
  <2>2. QInv'
    BY <2>1 DEF QueueInv
  <2>3. NotifyInv' /\ ClosedInv' /\ AnswerInv'
    BY <2>1 DEF Inv, NotifyInv, ClosedInv, AnswerInv
  <2> QED
    BY <1>0, <2>2, <2>3 DEF Inv
<1>16. ASSUME NEW c \in Csrcs, OnAudioFrame(c) PROVE Inv'
  <2>1. [media |-> "audio", csrc |-> c, size |-> "none", time |-> now] \in Frames
    BY DEF Frames, AudioFrames, Inv, TypeOK
  <2> QED
    BY <1>1, <1>16, <2>1 DEF OnAudioFrame
<1>17. ASSUME NEW c \in Csrcs, NEW s \in Sizes, OnVideoFrame(c, s) PROVE Inv'
  <2>1. [media |-> "video", csrc |-> c, size |-> s, time |-> now] \in Frames
    BY DEF Frames, VideoFrames, Inv, TypeOK
  <2> QED
    BY <1>1, <1>17, <2>1 DEF OnVideoFrame
<1> QED
  BY <1>2, <1>3, <1>4, <1>5, <1>6, <1>7, <1>8, <1>9, <1>10, <1>11, <1>12, <1>13, <1>14,
     <1>15, <1>16, <1>17
     DEF Next, CollectorThread, App, Terminated

\* The invariant always holds.
THEOREM Invariance == Spec => []Inv
<1>1. Init => Inv
  <2>1. Init => TypeOK
    BY DEF Init, TypeOK, Contract!Init, Results
  <2>2. Init => NotifyInv /\ ClosedInv /\ AnswerInv
    BY DEF Init, Contract!Init, NotifyInv, ClosedInv, AnswerInv, Statuses
  <2>3. Init => QueueInv(queue, disconnectStatus, disconnectedCalls, disconnectNotified)
    BY DEF Init, QueueInv
  <2> QED
    BY <2>1, <2>2, <2>3 DEF Inv
<1> QED
  BY <1>1, InvStep, PTL DEF Spec

\* Neither notification is notified twice, though one of them is notified by
\* two threads.
THEOREM NotificationsSafe == Spec => []NotifiedOnce
<1>1. Inv => NotifiedOnce
  BY DEF Inv, NotifyInv, TypeOK, NotifiedOnce
<1> QED
  BY <1>1, Invariance, PTL

\* A returned WaitForDisconnected means a complete recording.
THEOREM RecordingSafe == Spec => []RecordingComplete
<1>1. Inv => RecordingComplete
  <2> SUFFICES ASSUME Inv, disconnectResult \in Statuses \cup {"unset"}
               PROVE  /\ disconnectResult = disconnectStatus
                      /\ \A c \in Csrcs : audioSegments[c] = None /\ videoSegments[c] = None
                      /\ \A i \in 1..Len(queue) : queue[i].kind # "frame"
    BY DEF RecordingComplete
  <2>1. disconnectResult = disconnectStatus /\ disconnectStatus # "none"
    BY DEF Inv, AnswerInv
  <2>2. \A i \in 1..Len(queue) : queue[i].kind # "frame"
    BY <2>1 DEF Inv, QueueInv
  <2> QED
    BY <2>1, <2>2 DEF Inv, ClosedInv
<1> QED
  BY <1>1, Invariance, PTL

-----------------------------------------------------------------------------
(***************************************************************************)
(* The files are the stretches.                                            *)
(***************************************************************************)

\* The files that a source has closed are its stretches but the one that its open
\* segment is; before the disconnection there is an open segment if and only if
\* the last frame is in a file.
SourceInv(h, files, segment, done) ==
  LET n == Len(h)
      closed == {p \in Stretches(h, Gap) : segment = None \/ p[2] < n}
  IN  /\ segment # None =>
           /\ segment.size = h[n].frame.size
           /\ \E i \in 1..n : IsStretch(h, i, n, Gap) /\ segment = SegmentOf(h, <<i, n>>)
      /\ ~done => (segment = None <=> n \notin InFile(h, Gap))
      /\ {files[i] : i \in 1..Len(files)} = {SegmentOf(h, p) : p \in closed}
      /\ Len(files) = Cardinality(closed)

StretchesInv ==
  \A media \in Media, c \in Csrcs :
    SourceInv(handled[media][c], finished[media][c], SegmentsOf(media)[c],
              disconnectStatus # "none")

\* The frames of a history that goes on.
LEMMA GoesOn ==
  ASSUME NEW S, NEW h \in Seq(S), NEW e \in S
  PROVE  /\ Len(h) \in Nat /\ Len(Append(h, e)) = Len(h) + 1
         /\ \A i \in 1..Len(h) : Append(h, e)[i] = h[i]
         /\ Append(h, e)[Len(h) + 1] = e
  OBVIOUS

\* What comes later puts no frame into a file and takes none from it.
LEMMA InFileBefore ==
  ASSUME NEW S, NEW h \in Seq(S), NEW e \in S, NEW i \in 1..Len(h)
  PROVE  i \in InFile(Append(h, e), Gap) <=> i \in InFile(h, Gap)
<1> DEFINE g == Append(h, e)
           n == Len(h)
<1>1. n \in Nat /\ Len(g) = n + 1 /\ \A k \in 1..n : g[k] = h[k]
  BY GoesOn
<1>2. i \in 1..Len(g)
  BY <1>1
<1>3. ASSUME NEW k \in 1..i
      PROVE  /\ g[k] = h[k]
             /\ \A j \in k + 1 .. i : g[j] = h[j] /\ g[j - 1] = h[j - 1]
  <2>1. k \in 1..n
    BY <1>1, <1>3
  <2>2. \A j \in k + 1 .. i : j \in 1..n /\ j - 1 \in 1..n
    BY <1>1, <1>3
  <2> QED
    BY <1>1, <2>1, <2>2
<1> HIDE DEF g
<1>4. i \in InFile(g, Gap) <=> i \in InFile(h, Gap)
  BY <1>2, <1>3 DEF InFile
<1> QED
  BY <1>4 DEF g

\* The next frame is in a file if its source is named or it follows one that is.
LEMMA InFileNext ==
  ASSUME NEW S, NEW h \in Seq(S), NEW e \in S
  PROVE  /\ Follows(Append(h, e), Len(h) + 1, Gap)
              <=> Len(h) \in InFile(h, Gap) /\ Unbroken(h[Len(h)].frame, e.frame, Gap)
         /\ Len(h) + 1 \in InFile(Append(h, e), Gap)
              <=> e.identifier # None \/ Follows(Append(h, e), Len(h) + 1, Gap)
<1> DEFINE g == Append(h, e)
           n == Len(h)
<1>1. n \in Nat /\ Len(g) = n + 1 /\ g[n + 1] = e /\ \A k \in 1..n : g[k] = h[k]
  BY GoesOn
<1>2. n \in InFile(g, Gap) <=> n \in InFile(h, Gap)
  <2>1. CASE n \in 1..n
    BY <2>1, InFileBefore
  <2>2. CASE n \notin 1..n
    <3>1. n = 0
      BY <1>1, <2>2
    <3> QED
      BY <3>1 DEF InFile
  <2> QED
    BY <2>1, <2>2
<1>3. n \in InFile(h, Gap) => n \in 1..n
  BY DEF InFile
<1> HIDE DEF g
<1>4. Follows(g, n + 1, Gap) <=> n \in InFile(h, Gap) /\ Unbroken(h[n].frame, e.frame, Gap)
  <2>1. (n + 1) - 1 = n
    BY <1>1
  <2> QED
    BY <1>1, <1>2, <1>3, <2>1 DEF Follows
<1>5. ASSUME n + 1 \in InFile(g, Gap), e.identifier = None
      PROVE  Follows(g, n + 1, Gap)
  <2>1. PICK k \in 1..(n + 1) :
          /\ g[k].identifier # None
          /\ \A j \in k + 1 .. n + 1 : Unbroken(g[j - 1].frame, g[j].frame, Gap)
    BY <1>5 DEF InFile
  <2>2. k \in 1..n
    BY <2>1, <1>1, <1>5
  <2>3. \A j \in k + 1 .. n : Unbroken(g[j - 1].frame, g[j].frame, Gap)
    BY <2>1, <2>2, <1>1
  <2>4. n \in InFile(g, Gap)
    BY <2>1, <2>2, <2>3, <1>1 DEF InFile
  <2>5. n + 1 \in k + 1 .. n + 1 /\ (n + 1) - 1 = n
    BY <2>2, <1>1
  <2> QED
    BY <2>1, <2>4, <2>5 DEF Follows
<1>6. ASSUME e.identifier # None
      PROVE  n + 1 \in InFile(g, Gap)
  <2>1. n + 1 \in 1..Len(g) /\ n + 1 \in 1..(n + 1) /\ (n + 1) + 1 .. n + 1 = {}
    BY <1>1
  <2> QED
    BY <2>1, <1>1, <1>6 DEF InFile
<1>7. ASSUME Follows(g, n + 1, Gap)
      PROVE  n + 1 \in InFile(g, Gap)
  <2>1. n \in InFile(g, Gap) /\ Unbroken(g[n].frame, g[n + 1].frame, Gap)
    <3>1. (n + 1) - 1 = n
      BY <1>1
    <3> QED
      BY <3>1, <1>7 DEF Follows
  <2>2. PICK k \in 1..n :
          /\ g[k].identifier # None
          /\ \A j \in k + 1 .. n : Unbroken(g[j - 1].frame, g[j].frame, Gap)
    BY <2>1 DEF InFile
  <2>3. \A j \in k + 1 .. n + 1 : Unbroken(g[j - 1].frame, g[j].frame, Gap)
    <3> TAKE j \in k + 1 .. n + 1
    <3>1. j \in k + 1 .. n \/ (j = n + 1 /\ j - 1 = n)
      BY <1>1
    <3> QED
      BY <3>1, <2>1, <2>2
  <2>4. k \in 1..(n + 1) /\ n + 1 \in 1..Len(g)
    BY <1>1
  <2> QED
    BY <2>2, <2>3, <2>4 DEF InFile
<1>8. n + 1 \in InFile(g, Gap) <=> e.identifier # None \/ Follows(g, n + 1, Gap)
  BY <1>5, <1>6, <1>7
<1> QED
  BY <1>4, <1>8 DEF g

LEMMA FollowsBefore ==
  ASSUME NEW S, NEW h \in Seq(S), NEW e \in S, NEW i \in 1..Len(h)
  PROVE  Follows(Append(h, e), i, Gap) <=> Follows(h, i, Gap)
<1> DEFINE g == Append(h, e)
           n == Len(h)
<1>1. n \in Nat /\ Len(g) = n + 1 /\ \A k \in 1..n : g[k] = h[k]
  BY GoesOn
<1>2. CASE i - 1 \in 1..n
  <2>1. i - 1 \in InFile(g, Gap) <=> i - 1 \in InFile(h, Gap)
    BY <1>2, InFileBefore
  <2> HIDE DEF g
  <2>2. Follows(g, i, Gap) <=> Follows(h, i, Gap)
    BY <1>1, <1>2, <2>1 DEF Follows
  <2> QED
    BY <2>2 DEF g
<1>3. CASE i - 1 \notin 1..n
  <2>1. i - 1 = 0
    BY <1>1, <1>3
  <2>2. ~Follows(g, i, Gap) /\ ~Follows(h, i, Gap)
    BY <2>1 DEF Follows, InFile
  <2> QED
    BY <2>2
<1> QED
  BY <1>2, <1>3

\* The stretches that end before the last frame remain.
LEMMA StretchesBefore ==
  ASSUME NEW S, NEW h \in Seq(S), NEW e \in S,
         NEW i \in 1..Len(h), NEW j \in 1..Len(h), i <= j
  PROVE  /\ j < Len(h) => (IsStretch(Append(h, e), i, j, Gap) <=> IsStretch(h, i, j, Gap))
         /\ IsStretch(Append(h, e), i, Len(h), Gap)
              <=> IsStretch(h, i, Len(h), Gap) /\ ~Follows(Append(h, e), Len(h) + 1, Gap)
<1> DEFINE g == Append(h, e)
           n == Len(h)
<1>1. n \in Nat /\ Len(g) = n + 1
  BY GoesOn
<1>2. \A k \in 1..n : (k \in InFile(g, Gap) <=> k \in InFile(h, Gap)) /\ (Follows(g, k, Gap) <=> Follows(h, k, Gap))
  BY InFileBefore, FollowsBefore
<1> HIDE DEF g
<1>3. ASSUME NEW m \in 1..n, i <= m
      PROVE  /\ i..m \subseteq InFile(g, Gap) <=> i..m \subseteq InFile(h, Gap)
             /\ Follows(g, i, Gap) <=> Follows(h, i, Gap)
             /\ (\A k \in i + 1 .. m : Follows(g, k, Gap)) <=> (\A k \in i + 1 .. m : Follows(h, k, Gap))
  <2>1. \A k \in i..m : k \in 1..n
    BY <1>1, <1>3
  <2>2. \A k \in i + 1 .. m : k \in 1..n
    BY <1>1, <1>3
  <2> QED
    BY <1>2, <2>1, <2>2
<1>4. j < n => (IsStretch(g, i, j, Gap) <=> IsStretch(h, i, j, Gap))
  <2> HAVE j < n
  <2>1. j + 1 \in 1..n /\ j < Len(g) /\ j < Len(h)
    BY <1>1
  <2>2. Follows(g, j + 1, Gap) <=> Follows(h, j + 1, Gap)
    BY <1>2, <2>1
  <2> QED
    BY <2>1, <2>2, <1>3 DEF IsStretch
<1>5. IsStretch(g, i, n, Gap) <=> IsStretch(h, i, n, Gap) /\ ~Follows(g, n + 1, Gap)
  <2>1. n \in 1..n /\ i <= n /\ n < Len(g) /\ ~(n < Len(h))
    BY <1>1
  <2> QED
    BY <2>1, <1>3 DEF IsStretch
<1> QED
  BY <1>4, <1>5 DEF g

\* The stretch of the last frame goes on with one that follows it, which is else
\* the first of its own, if it is in a file at all.
LEMMA StretchesNext ==
  ASSUME NEW S, NEW h \in Seq(S), NEW e \in S
  PROVE  /\ \A i \in 1..Len(h) :
              IsStretch(Append(h, e), i, Len(h) + 1, Gap)
                <=> IsStretch(h, i, Len(h), Gap) /\ Follows(Append(h, e), Len(h) + 1, Gap)
         /\ IsStretch(Append(h, e), Len(h) + 1, Len(h) + 1, Gap)
              <=> /\ Len(h) + 1 \in InFile(Append(h, e), Gap)
                  /\ ~Follows(Append(h, e), Len(h) + 1, Gap)
<1> DEFINE g == Append(h, e)
           n == Len(h)
<1>1. n \in Nat /\ Len(g) = n + 1
  BY GoesOn
<1>2. \A k \in 1..n : (k \in InFile(g, Gap) <=> k \in InFile(h, Gap)) /\ (Follows(g, k, Gap) <=> Follows(h, k, Gap))
  BY InFileBefore, FollowsBefore
<1>3. Follows(g, n + 1, Gap) => n + 1 \in InFile(g, Gap)
  BY InFileNext
<1> HIDE DEF g
<1>4. ASSUME NEW i \in 1..n
      PROVE  IsStretch(g, i, n + 1, Gap) <=> IsStretch(h, i, n, Gap) /\ Follows(g, n + 1, Gap)
  <2>1. /\ \A k \in i .. n + 1 : k \in i..n \/ k = n + 1
        /\ \A k \in i + 1 .. n + 1 : k \in i + 1 .. n \/ k = n + 1
        /\ n + 1 \in i .. n + 1 /\ n + 1 \in i + 1 .. n + 1
        /\ i..n \subseteq i .. n + 1 /\ i + 1 .. n \subseteq i + 1 .. n + 1
        /\ i..n \subseteq 1..n /\ i + 1 .. n \subseteq 1..n
        /\ ~(n + 1 < Len(g)) /\ ~(n < Len(h))
    BY <1>1
  <2>2. Follows(g, i, Gap) <=> Follows(h, i, Gap)
    BY <1>2
  <2>3. ASSUME Follows(g, n + 1, Gap)
        PROVE  i .. n + 1 \subseteq InFile(g, Gap) <=> i..n \subseteq InFile(h, Gap)
    BY <1>2, <1>3, <2>1, <2>3
  <2>4. (\A k \in i + 1 .. n + 1 : Follows(g, k, Gap))
          <=> (\A k \in i + 1 .. n : Follows(h, k, Gap)) /\ Follows(g, n + 1, Gap)
    BY <1>2, <2>1
  <2> QED
    BY <2>1, <2>2, <2>3, <2>4 DEF IsStretch
<1>5. IsStretch(g, n + 1, n + 1, Gap) <=> n + 1 \in InFile(g, Gap) /\ ~Follows(g, n + 1, Gap)
  <2>1. (n + 1) .. (n + 1) = {n + 1} /\ (n + 1) + 1 .. n + 1 = {} /\ ~(n + 1 < Len(g))
    BY <1>1
  <2> QED
    BY <2>1 DEF IsStretch
<1> QED
  BY <1>4, <1>5 DEF g

\* Stretches are pairs of indices; at most one ends with the last frame.
LEMMA StretchesFinite ==
  ASSUME NEW S, NEW h \in Seq(S)
  PROVE  IsFiniteSet(Stretches(h, Gap))
<1>1. Len(h) \in Nat
  OBVIOUS
<1>2. IsFiniteSet(1..Len(h))
  BY <1>1, FS_Interval
<1>3. IsFiniteSet((1..Len(h)) \X (1..Len(h)))
  BY <1>2, FS_Product
<1> QED
  BY <1>3, FS_Subset DEF Stretches

LEMMA OneLastStretch ==
  ASSUME NEW S, NEW h \in Seq(S), NEW i \in 1..Len(h), NEW j \in 1..Len(h),
         IsStretch(h, i, Len(h), Gap), IsStretch(h, j, Len(h), Gap)
  PROVE  i = j
<1> DEFINE n == Len(h)
<1>1. n \in Nat
  OBVIOUS
<1>2. ~(i < j)
  <2>1. i < j => j \in i + 1 .. n
    BY <1>1
  <2> QED
    BY <2>1 DEF IsStretch
<1>3. ~(j < i)
  <2>1. j < i => i \in j + 1 .. n
    BY <1>1
  <2> QED
    BY <2>1 DEF IsStretch
<1> QED
  BY <1>1, <1>2, <1>3

\* A stretch is one of pairs; the pairs are told by their numbers.
LEMMA StretchPairs ==
  ASSUME NEW S, NEW h \in Seq(S)
  PROVE  /\ \A p \in Stretches(h, Gap) :
              /\ p[1] \in 1..Len(h) /\ p[2] \in 1..Len(h) /\ p = <<p[1], p[2]>>
              /\ p[1] <= p[2] /\ IsStretch(h, p[1], p[2], Gap)
         /\ \A i \in 1..Len(h), j \in 1..Len(h) :
              i <= j /\ IsStretch(h, i, j, Gap) => <<i, j>> \in Stretches(h, Gap)
  BY DEF Stretches

\* What the collector makes of a frame that is handled: the segment after it and
\* the files.
Continues(segment, e) ==
  segment # None /\ e.frame.time < segment.last + Gap /\ segment.size = e.frame.size

SegmentAfter(segment, e) ==
  IF Continues(segment, e)
  THEN [segment EXCEPT !.last = e.frame.time, !.frames = @ + 1]
  ELSE IF e.identifier = None THEN None
  ELSE [media |-> e.frame.media, csrc |-> e.frame.csrc, identifier |-> e.identifier,
        size |-> e.frame.size, first |-> e.frame.time, last |-> e.frame.time, frames |-> 1]

FilesAfter(files, segment, e) ==
  IF segment = None \/ Continues(segment, e) THEN files ELSE Append(files, segment)

ClosedStretches(h, segment) == {p \in Stretches(h, Gap) : segment = None \/ p[2] < Len(h)}

\* The open segment of a source goes on as its history does.
LEMMA ContinuesFollows ==
  ASSUME NEW S, NEW h \in Seq(S), NEW e \in S, NEW files, NEW segment,
         SourceInv(h, files, segment, FALSE)
  PROVE  Continues(segment, e) <=> Follows(Append(h, e), Len(h) + 1, Gap)
<1> DEFINE n == Len(h)
<1>1. segment = None <=> n \notin InFile(h, Gap)
  BY DEF SourceInv
<1>2. segment # None => segment.size = h[n].frame.size /\ segment.last = h[n].frame.time
  BY DEF SourceInv, SegmentOf
<1>3. Follows(Append(h, e), n + 1, Gap) <=> n \in InFile(h, Gap) /\ Unbroken(h[n].frame, e.frame, Gap)
  BY InFileNext
<1> QED
  BY <1>1, <1>2, <1>3 DEF Continues, Unbroken

\* The stretches that are closed after a frame.
LEMMA ClosedAfter ==
  ASSUME NEW S, NEW h \in Seq(S), NEW e \in S, NEW files, NEW segment,
         SourceInv(h, files, segment, FALSE), SegmentAfter(segment, e) = None <=>
           ~Continues(segment, e) /\ e.identifier = None
  PROVE  ClosedStretches(Append(h, e), SegmentAfter(segment, e))
           = IF Continues(segment, e) THEN ClosedStretches(h, segment) ELSE Stretches(h, Gap)
<1> DEFINE g == Append(h, e)
           n == Len(h)
           F == Follows(g, n + 1, Gap)
           after == SegmentAfter(segment, e)
<1>1. n \in Nat /\ Len(g) = n + 1 /\ g \in Seq(S)
  BY GoesOn
<1>2. Continues(segment, e) <=> F
  BY ContinuesFollows
<1>3. \A i, j \in 1..n : i <= j =>
        /\ j < n => (IsStretch(g, i, j, Gap) <=> IsStretch(h, i, j, Gap))
        /\ IsStretch(g, i, n, Gap) <=> IsStretch(h, i, n, Gap) /\ ~F
  BY StretchesBefore
<1>4. n + 1 \in InFile(g, Gap) <=> e.identifier # None \/ F
  BY InFileNext
<1>5. after = None <=> n + 1 \notin InFile(g, Gap)
  BY <1>2, <1>4
<1>6. /\ \A p \in Stretches(g, Gap) :
           /\ p[1] \in 1..(n + 1) /\ p[2] \in 1..(n + 1) /\ p = <<p[1], p[2]>>
           /\ p[1] <= p[2] /\ IsStretch(g, p[1], p[2], Gap)
      /\ \A i, j \in 1..(n + 1) : i <= j /\ IsStretch(g, i, j, Gap) => <<i, j>> \in Stretches(g, Gap)
  BY <1>1, StretchPairs
<1>7. /\ \A p \in Stretches(h, Gap) :
           /\ p[1] \in 1..n /\ p[2] \in 1..n /\ p = <<p[1], p[2]>>
           /\ p[1] <= p[2] /\ IsStretch(h, p[1], p[2], Gap)
      /\ \A i, j \in 1..n : i <= j /\ IsStretch(h, i, j, Gap) => <<i, j>> \in Stretches(h, Gap)
  BY StretchPairs
<1>8. segment = None => \A p \in Stretches(h, Gap) : p[2] # n
  <2> SUFFICES ASSUME segment = None, NEW p \in Stretches(h, Gap), p[2] = n PROVE FALSE
    OBVIOUS
  <2>1. n \in p[1]..n
    BY <1>1, <1>7
  <2>2. p[1]..n \subseteq InFile(h, Gap)
    BY <1>7 DEF IsStretch
  <2> QED
    BY <2>1, <2>2 DEF SourceInv
<1> HIDE DEF g, after, F
<1>9. ASSUME NEW p \in Stretches(g, Gap), after = None \/ p[2] < n + 1
      PROVE  /\ p \in Stretches(h, Gap) /\ (p[2] = n => ~F)
  <2>1. p[2] \in 1..n
    <3>1. CASE after = None
      <4>1. p[2] \in p[1]..p[2] /\ p[1]..p[2] \subseteq InFile(g, Gap)
        BY <1>6 DEF IsStretch
      <4> QED
        BY <3>1, <4>1, <1>1, <1>5, <1>6
    <3>2. CASE p[2] < n + 1
      BY <3>2, <1>1, <1>6
    <3> QED
      BY <1>9, <3>1, <3>2
  <2>2. p[1] \in 1..n /\ p[1] <= p[2] /\ IsStretch(g, p[1], p[2], Gap) /\ p = <<p[1], p[2]>>
    BY <2>1, <1>1, <1>6
  <2>3. IsStretch(h, p[1], p[2], Gap) /\ (p[2] = n => ~F)
    <3>1. CASE p[2] < n
      BY <3>1, <2>1, <2>2, <1>3, <1>1
    <3>2. CASE p[2] = n
      BY <3>2, <2>1, <2>2, <1>3
    <3> QED
      BY <3>1, <3>2, <2>1, <1>1
  <2> QED
    BY <2>1, <2>2, <2>3, <1>7
<1>10. ASSUME NEW p \in Stretches(h, Gap), p[2] = n => ~F
       PROVE  p \in Stretches(g, Gap) /\ p[2] < n + 1
  <2>1. p[1] \in 1..n /\ p[2] \in 1..n /\ p = <<p[1], p[2]>> /\ p[1] <= p[2]
    BY <1>7
  <2>2. IsStretch(g, p[1], p[2], Gap)
    <3>1. CASE p[2] < n
      BY <3>1, <2>1, <1>3, <1>7
    <3>2. CASE p[2] = n
      BY <3>2, <2>1, <1>3, <1>7, <1>10
    <3> QED
      BY <3>1, <3>2, <2>1, <1>1
  <2>3. p[1] \in 1..(n + 1) /\ p[2] \in 1..(n + 1) /\ p[2] < n + 1
    BY <2>1, <1>1
  <2> QED
    BY <2>1, <2>2, <2>3, <1>6
<1>11. ClosedStretches(g, after) = {p \in Stretches(h, Gap) : p[2] = n => ~F}
  BY <1>9, <1>10, <1>1 DEF ClosedStretches
<1>12. CASE F
  <2>1. \A p \in Stretches(h, Gap) : p[2] # n <=> segment = None \/ p[2] < n
    BY <1>7, <1>8, <1>1
  <2> QED
    BY <2>1, <1>2, <1>11, <1>12 DEF ClosedStretches, g, after
<1>13. CASE ~F
  BY <1>2, <1>11, <1>13 DEF g, after
<1> QED
  BY <1>12, <1>13

\* A stretch that is there already is the same segment when the history goes on.
LEMMA SegmentBefore ==
  ASSUME NEW S, NEW h \in Seq(S), NEW e \in S, NEW p \in Stretches(h, Gap)
  PROVE  SegmentOf(Append(h, e), p) = SegmentOf(h, p)
<1>1. p[1] \in 1..Len(h) /\ p[2] \in 1..Len(h)
  BY StretchPairs
<1>2. Append(h, e)[p[1]] = h[p[1]] /\ Append(h, e)[p[2]] = h[p[2]]
  BY <1>1, GoesOn
<1> QED
  BY <1>2 DEF SegmentOf

\* With the open segment closed, a source's files are all its stretches.
AllStretches(h, all) ==
  /\ {all[i] : i \in 1..Len(all)} = {SegmentOf(h, p) : p \in Stretches(h, Gap)}
  /\ Len(all) = Cardinality(Stretches(h, Gap))

LEMMA SourceClosed ==
  ASSUME NEW S, NEW h \in Seq(S), NEW files \in Seq(Segments), NEW segment \in Segments \cup {None},
         NEW done, SourceInv(h, files, segment, done),
         NEW all, all = IF segment = None THEN files ELSE Append(files, segment)
  PROVE  AllStretches(h, all)
<1> DEFINE n == Len(h)
           closed == ClosedStretches(h, segment)
<1>1. /\ {files[i] : i \in 1..Len(files)} = {SegmentOf(h, p) : p \in closed}
      /\ Len(files) = Cardinality(closed)
  BY DEF SourceInv, ClosedStretches
<1>2. CASE segment = None
  <2>1. closed = Stretches(h, Gap)
    BY <1>2 DEF ClosedStretches
  <2> QED
    BY <1>1, <1>2, <2>1 DEF AllStretches
<1>3. CASE segment # None
  <2>1. PICK i \in 1..n : IsStretch(h, i, n, Gap) /\ segment = SegmentOf(h, <<i, n>>)
    BY <1>3 DEF SourceInv
  <2> DEFINE last == <<i, n>>
  <2>2. n \in Nat /\ n \in 1..n /\ i <= n
    OBVIOUS
  <2>3. last \in Stretches(h, Gap) /\ last[2] = n
    BY <2>1, <2>2, StretchPairs
  <2>4. \A p \in Stretches(h, Gap) : p[2] < n \/ p = last
    <3> TAKE p \in Stretches(h, Gap)
    <3>1. p[1] \in 1..n /\ p[2] \in 1..n /\ p = <<p[1], p[2]>> /\ IsStretch(h, p[1], p[2], Gap)
      BY StretchPairs
    <3>2. CASE p[2] = n
      <4>1. p[1] = i
        BY <2>1, <3>1, <3>2, OneLastStretch
      <4> QED
        BY <3>1, <3>2, <4>1
    <3>3. CASE p[2] # n
      BY <3>1, <3>3, <2>2
    <3> QED
      BY <3>2, <3>3
  <2> HIDE DEF last
  <2>5. last \notin closed
    BY <1>3, <2>2, <2>3 DEF ClosedStretches
  <2>6. Stretches(h, Gap) = closed \cup {last}
    BY <1>3, <2>3, <2>4 DEF ClosedStretches
  <2>7. IsFiniteSet(closed)
    <3>1. closed \subseteq Stretches(h, Gap) /\ IsFiniteSet(Stretches(h, Gap))
      BY StretchesFinite DEF ClosedStretches
    <3> QED
      BY <3>1, FS_Subset
  <2> HIDE DEF closed
  <2>8. Cardinality(Stretches(h, Gap)) = Cardinality(closed) + 1
    BY <2>5, <2>6, <2>7, FS_AddElement
  <2>9. /\ Len(files) \in Nat /\ Len(all) = Len(files) + 1 /\ all[Len(files) + 1] = segment
        /\ \A k \in 1..Len(files) : all[k] = files[k]
    BY <1>3
  <2>10. Len(all) = Cardinality(Stretches(h, Gap))
    BY <1>1, <2>8, <2>9
  <2>11. 1..Len(all) = 1..Len(files) \cup {Len(files) + 1}
    BY <2>9
  <2>12. {all[k] : k \in 1..Len(all)} = {files[k] : k \in 1..Len(files)} \cup {segment}
    <3>1. \A k \in 1..Len(all) : all[k] \in {files[x] : x \in 1..Len(files)} \cup {segment}
      BY <2>9, <2>11
    <3>2. \A k \in 1..Len(files) : files[k] \in {all[x] : x \in 1..Len(all)}
      BY <2>9, <2>11
    <3>3. segment \in {all[x] : x \in 1..Len(all)}
      BY <2>9, <2>11
    <3> QED
      BY <3>1, <3>2, <3>3
  <2>13. {SegmentOf(h, p) : p \in Stretches(h, Gap)} = {SegmentOf(h, p) : p \in closed} \cup {segment}
    BY <2>1, <2>6 DEF last
  <2> QED
    BY <1>1, <2>10, <2>12, <2>13 DEF AllStretches
<1> QED
  BY <1>2, <1>3

\* A frame that is handled.
LEMMA SourceHandles ==
  ASSUME NEW S, NEW h \in Seq(S), NEW e \in S, NEW files \in Seq(Segments),
         NEW segment \in Segments \cup {None}, SourceInv(h, files, segment, FALSE),
         e.frame.time \in Nat, SegmentAfter(segment, e) \in Segments \cup {None},
         SegmentAfter(segment, e) = None <=> ~Continues(segment, e) /\ e.identifier = None
  PROVE  SourceInv(Append(h, e), FilesAfter(files, segment, e), SegmentAfter(segment, e), FALSE)
<1> DEFINE g == Append(h, e)
           n == Len(h)
           F == Follows(g, n + 1, Gap)
           after == SegmentAfter(segment, e)
           files2 == FilesAfter(files, segment, e)
           closed2 == ClosedStretches(g, after)
<1>1. /\ n \in Nat /\ Len(g) = n + 1 /\ g[n + 1] = e
      /\ \A i \in 1..n : g[i] = h[i]
  BY GoesOn
<1>2. Continues(segment, e) <=> F
  BY ContinuesFollows
<1>3. n + 1 \in InFile(g, Gap) <=> e.identifier # None \/ F
  BY InFileNext
<1>4. after = None <=> n + 1 \notin InFile(g, Gap)
  BY <1>2, <1>3
<1>5. closed2 = IF F THEN ClosedStretches(h, segment) ELSE Stretches(h, Gap)
  BY <1>2, ClosedAfter
<1>6. /\ {files2[i] : i \in 1..Len(files2)} = {SegmentOf(h, p) : p \in closed2}
      /\ Len(files2) = Cardinality(closed2)
  <2>1. CASE F
    <3>1. files2 = files
      BY <1>2, <2>1 DEF FilesAfter
    <3>2. /\ {files[i] : i \in 1..Len(files)} = {SegmentOf(h, p) : p \in ClosedStretches(h, segment)}
          /\ Len(files) = Cardinality(ClosedStretches(h, segment))
      BY DEF SourceInv, ClosedStretches
    <3> QED
      BY <2>1, <3>1, <3>2, <1>5
  <2>2. CASE ~F
    <3>1. files2 = IF segment = None THEN files ELSE Append(files, segment)
      BY <1>2, <2>2 DEF FilesAfter
    <3> HIDE DEF files2
    <3>2. AllStretches(h, files2)
      BY <3>1, SourceClosed
    <3> QED
      BY <2>2, <3>2, <1>5 DEF AllStretches
  <2> QED
    BY <2>1, <2>2
<1>7. {SegmentOf(h, p) : p \in closed2} = {SegmentOf(g, p) : p \in closed2}
  <2>1. closed2 \subseteq Stretches(h, Gap)
    BY <1>5 DEF ClosedStretches
  <2>2. \A p \in closed2 : SegmentOf(g, p) = SegmentOf(h, p)
    BY <2>1, SegmentBefore
  <2> QED
    BY <2>2
<1>8. ASSUME after # None
      PROVE  /\ after.size = e.frame.size
             /\ \E i \in 1..(n + 1) : IsStretch(g, i, n + 1, Gap) /\ after = SegmentOf(g, <<i, n + 1>>)
  <2>1. CASE F
    <3>1. segment # None /\ Continues(segment, e)
      BY <1>2, <2>1 DEF Continues
    <3>2. PICK i \in 1..n : IsStretch(h, i, n, Gap) /\ segment = SegmentOf(h, <<i, n>>)
      BY <3>1 DEF SourceInv
    <3>3. i \in 1..(n + 1) /\ IsStretch(g, i, n + 1, Gap)
      BY <1>1, <2>1, <3>2, StretchesNext
    <3>4. after = [segment EXCEPT !.last = e.frame.time, !.frames = @ + 1]
      BY <3>1 DEF SegmentAfter
    <3>5. (n - i + 1) + 1 = (n + 1) - i + 1
      BY <1>1
    <3>6. after = SegmentOf(g, <<i, n + 1>>)
      <4>1. segment = [media |-> h[i].frame.media, csrc |-> h[i].frame.csrc,
                       identifier |-> h[i].identifier, size |-> h[i].frame.size,
                       first |-> h[i].frame.time, last |-> h[n].frame.time,
                       frames |-> n - i + 1]
        BY <3>2 DEF SegmentOf
      <4>2. after = [media |-> h[i].frame.media, csrc |-> h[i].frame.csrc,
                     identifier |-> h[i].identifier, size |-> h[i].frame.size,
                     first |-> h[i].frame.time, last |-> e.frame.time,
                     frames |-> (n - i + 1) + 1]
        BY <3>4, <4>1
      <4> HIDE DEF g, after
      <4>3. SegmentOf(g, <<i, n + 1>>)
              = [media |-> g[i].frame.media, csrc |-> g[i].frame.csrc,
                 identifier |-> g[i].identifier, size |-> g[i].frame.size,
                 first |-> g[i].frame.time, last |-> g[n + 1].frame.time,
                 frames |-> (n + 1) - i + 1]
        BY DEF SegmentOf
      <4> QED
        BY <1>1, <3>5, <4>2, <4>3
    <3>7. after.size = e.frame.size
      BY <3>1, <3>2, <3>4 DEF Continues, SegmentOf
    <3> QED
      BY <3>3, <3>6, <3>7
  <2>2. CASE ~F
    <3>1. n + 1 \in InFile(g, Gap) /\ e.identifier # None /\ ~Continues(segment, e)
      BY <1>2, <1>3, <1>4, <1>8, <2>2
    <3>2. IsStretch(g, n + 1, n + 1, Gap)
      BY <2>2, <3>1, StretchesNext
    <3>3. after = [media |-> e.frame.media, csrc |-> e.frame.csrc, identifier |-> e.identifier,
                   size |-> e.frame.size, first |-> e.frame.time, last |-> e.frame.time,
                   frames |-> 1]
      BY <3>1 DEF SegmentAfter
    <3>4. (n + 1) - (n + 1) + 1 = 1 /\ n + 1 \in 1..(n + 1)
      BY <1>1
    <3>5. after = SegmentOf(g, <<n + 1, n + 1>>)
      BY <1>1, <3>3, <3>4 DEF SegmentOf
    <3>6. after.size = e.frame.size
      BY <3>3
    <3> HIDE DEF g, after
    <3> QED
      BY <3>2, <3>4, <3>5, <3>6
  <2> QED
    BY <2>1, <2>2
<1> HIDE DEF g, after, files2, F
<1>9. SourceInv(g, files2, after, FALSE)
  BY <1>1, <1>4, <1>6, <1>7, <1>8 DEF SourceInv, ClosedStretches
<1> QED
  BY <1>9 DEF g, after, files2

\* What follows a frame is a segment or none.
LEMMA AfterTyped ==
  ASSUME NEW media \in Media, NEW c \in Csrcs, NEW e \in HandledFrames(media, c),
         NEW segment \in Segments \cup {None}
  PROVE  /\ e.frame.time \in Nat
         /\ SegmentAfter(segment, e) \in Segments \cup {None}
         /\ SegmentAfter(segment, e) = None <=> ~Continues(segment, e) /\ e.identifier = None
<1>1. e.frame \in Frames /\ e.identifier \in Identifiers \cup {None}
  BY DEF HandledFrames
<1>2. /\ e.frame.media \in Media /\ e.frame.csrc \in Csrcs
      /\ e.frame.size \in Sizes \cup {"none"} /\ e.frame.time \in Nat
  BY <1>1, FrameFields DEF Media
<1>3. None \notin Segments
  BY NoneAssumption
<1>4. CASE Continues(segment, e)
  <2>1. segment \in Segments /\ segment.frames + 1 \in Nat
    BY <1>4 DEF Continues, Segments
  <2>2. [segment EXCEPT !.last = e.frame.time, !.frames = @ + 1] \in Segments
    BY <1>2, <2>1, SegmentExtended
  <2> QED
    BY <1>2, <1>3, <1>4, <2>2 DEF SegmentAfter
<1>5. CASE ~Continues(segment, e)
  <2>1. e.identifier # None =>
          [media |-> e.frame.media, csrc |-> e.frame.csrc, identifier |-> e.identifier,
           size |-> e.frame.size, first |-> e.frame.time, last |-> e.frame.time, frames |-> 1]
            \in Segments
    BY <1>1, <1>2 DEF Segments
  <2> QED
    BY <1>2, <1>3, <1>5, <2>1 DEF SegmentAfter
<1> QED
  BY <1>4, <1>5

\* A frame of media and c that is handled, as the actions for both media have it.
HandlesFrame(media, c, f, continues) ==
  LET segment == SegmentsOf(media)[c]
  IN  /\ f \in Frames /\ f.media = media /\ f.csrc = c
      /\ continues <=> segment # None /\ WithinGap(segment, f) /\ segment.size = f.size
      /\ \A m \in Media, d \in Csrcs :
           (SegmentsOf(m)[d])' = IF m = media /\ d = c THEN NextSegment(segment, f, continues)
                                 ELSE SegmentsOf(m)[d]
      /\ finished' = FinishedBy(f, segment, continues)
      /\ Handles(f)

LEMMA FrameKeepsStretches ==
  ASSUME TypeOK, StretchesInv, disconnectStatus = "none", UNCHANGED disconnectStatus,
         NEW media \in Media, NEW c \in Csrcs, NEW f, NEW continues \in BOOLEAN,
         HandlesFrame(media, c, f, continues)
  PROVE  StretchesInv'
<1> DEFINE segment == SegmentsOf(media)[c]
           e == [frame |-> f, identifier |-> identifiers[c]]
           h == handled[media][c]
           files == finished[media][c]
<1>1. /\ f \in Frames /\ f.media = media /\ f.csrc = c
      /\ continues <=> segment # None /\ WithinGap(segment, f) /\ segment.size = f.size
      /\ (SegmentsOf(media)[c])' = NextSegment(segment, f, continues)
      /\ \A m \in Media, d \in Csrcs :
           ~(m = media /\ d = c) => (SegmentsOf(m)[d])' = SegmentsOf(m)[d]
  BY DEF HandlesFrame
<1>2. /\ finished' = FinishedBy(f, segment, continues)
      /\ handled' = [handled EXCEPT ![media][c] = Append(@, e)]
  BY <1>1 DEF HandlesFrame, Handles
<1>3. /\ segment \in Segments \cup {None} /\ files \in Seq(Segments)
      /\ e \in HandledFrames(media, c) /\ h \in Seq(HandledFrames(media, c))
  BY <1>1 DEF TypeOK, SegmentsOf, HandledFrames
<1>4. SourceInv(h, files, segment, FALSE)
  BY DEF StretchesInv
<1>5. Continues(segment, e) <=> continues
  BY <1>1 DEF Continues, WithinGap
<1>6. NextSegment(segment, f, continues) = SegmentAfter(segment, e)
  <2>1. CASE continues
    BY <1>1, <1>5, <2>1 DEF NextSegment, SegmentAfter
  <2>2. CASE ~continues
    BY <1>1, <1>5, <2>2 DEF NextSegment, SegmentAfter, NewSegment
  <2> QED
    BY <2>1, <2>2
<1>7. SourceInv(Append(h, e), FilesAfter(files, segment, e), SegmentAfter(segment, e), FALSE)
  BY <1>3, <1>4, AfterTyped, SourceHandles
<1>8. /\ handled'[media][c] = Append(h, e)
      /\ \A m \in Media, d \in Csrcs : ~(m = media /\ d = c) => handled'[m][d] = handled[m][d]
  BY <1>2 DEF TypeOK
<1>9. /\ finished'[media][c] = FilesAfter(files, segment, e)
      /\ \A m \in Media, d \in Csrcs : ~(m = media /\ d = c) => finished'[m][d] = finished[m][d]
  <2>1. CASE segment = None \/ continues
    BY <1>2, <1>5, <2>1 DEF FinishedBy, FilesAfter
  <2>2. CASE ~(segment = None \/ continues)
    <3>1. finished' = [finished EXCEPT ![media][c] = Append(@, segment)]
      BY <1>1, <1>2, <2>2 DEF FinishedBy
    <3>2. FilesAfter(files, segment, e) = Append(files, segment)
      BY <1>5, <2>2 DEF FilesAfter
    <3> HIDE DEF segment
    <3> QED
      BY <3>1, <3>2 DEF TypeOK
  <2> QED
    BY <2>1, <2>2
<1>10. SourceInv(handled'[media][c], finished'[media][c], (SegmentsOf(media)[c])', FALSE)
  BY <1>1, <1>6, <1>7, <1>8, <1>9
<1>11. ASSUME NEW m \in Media, NEW d \in Csrcs, ~(m = media /\ d = c)
       PROVE  SourceInv(handled'[m][d], finished'[m][d], (SegmentsOf(m)[d])', FALSE)
  <2>1. SourceInv(handled[m][d], finished[m][d], SegmentsOf(m)[d], FALSE)
    BY DEF StretchesInv
  <2> QED
    BY <1>1, <1>8, <1>9, <1>11, <2>1
<1>12. (disconnectStatus # "none")' = FALSE
  OBVIOUS
<1>13. ASSUME NEW m \in Media, NEW d \in Csrcs
       PROVE  SourceInv(handled'[m][d], finished'[m][d], (SegmentsOf(m)[d])', FALSE)
  BY <1>10, <1>11
<1> QED
  BY <1>12, <1>13 DEF StretchesInv

\* Audio frames and segments have no resolution.
LEMMA AudioHasNoSize ==
  ASSUME TypeOK, StretchesInv, NEW c \in Csrcs, audioSegments[c] # None
  PROVE  audioSegments[c].size = "none"
<1> DEFINE h == handled["audio"][c]
           n == Len(h)
<1>1. "audio" \in Media /\ SegmentsOf("audio")[c] = audioSegments[c]
  BY DEF Media, SegmentsOf
<1>2. h \in Seq(HandledFrames("audio", c))
  BY <1>1 DEF TypeOK
<1>3. SourceInv(h, finished["audio"][c], audioSegments[c], disconnectStatus # "none")
  BY <1>1 DEF StretchesInv
<1>4. PICK i \in 1..n : IsStretch(h, i, n, Gap)
  BY <1>3 DEF SourceInv
<1>5. n \in 1..n /\ h[n] \in HandledFrames("audio", c)
  <2>1. n \in Nat /\ n \in 1..n
    BY <1>2, <1>4
  <2> QED
    BY <1>2, <2>1, ElementOfSeq
<1>6. h[n].frame \in Frames /\ h[n].frame.media = "audio"
  BY <1>5 DEF HandledFrames
<1>7. h[n].frame.size = "none"
  BY <1>6 DEF Frames, AudioFrames, VideoFrames
<1> QED
  BY <1>3, <1>7 DEF SourceInv

\* The disconnect task closes what is open.
LEMMA DisconnectKeepsStretches ==
  ASSUME TypeOK, StretchesInv, disconnectStatus = "none", HandleDisconnect
  PROVE  StretchesInv'
<1>1. finished' = [media \in Media |-> ClosedFiles(finished[media], SegmentsOf(media))]
  BY DEF HandleDisconnect
<1>2. handled' = handled
  BY DEF HandleDisconnect
<1>3. ASSUME NEW media \in Media, NEW c \in Csrcs, NEW done
      PROVE  SourceInv(handled[media][c], finished'[media][c], None, TRUE)
  <2> DEFINE h == handled[media][c]
             files == finished[media][c]
             segment == SegmentsOf(media)[c]
             all == finished'[media][c]
  <2>1. /\ h \in Seq(HandledFrames(media, c)) /\ files \in Seq(Segments)
        /\ segment \in Segments \cup {None}
    BY DEF TypeOK, SegmentsOf
  <2>2. SourceInv(h, files, segment, FALSE)
    BY DEF StretchesInv
  <2>3. all = IF segment = None THEN files ELSE Append(files, segment)
    BY <1>1 DEF ClosedFiles
  <2> HIDE DEF h, files, segment, all
  <2>4. AllStretches(h, all)
    BY <2>1, <2>2, <2>3, SourceClosed
  <2>5. SourceInv(h, all, None, TRUE)
    BY <2>4 DEF AllStretches, SourceInv
  <2> QED
    BY <2>5 DEF h, all
<1>4. \A media \in Media, c \in Csrcs : (SegmentsOf(media)[c])' = None
  BY DEF HandleDisconnect, SegmentsOf
<1>5. CASE disconnectStatus' # "none"
  <2>1. (disconnectStatus # "none")' = TRUE
    BY <1>5
  <2> QED
    BY <1>2, <1>3, <1>4, <2>1 DEF StretchesInv
<1>6. CASE disconnectStatus' = "none"
  <2>1. Head(queue).status \in Statuses
    BY QueueTail, TaskFields DEF HandleDisconnect, Takes, TypeOK
  <2> QED
    BY <1>6, <2>1 DEF HandleDisconnect, Statuses
<1> QED
  BY <1>5, <1>6

\* Every other step leaves the frames handled, the segments and the files alone.
LEMMA StretchesStep == Inv /\ StretchesInv /\ [Next]_vars => StretchesInv'
<1> SUFFICES ASSUME Inv, StretchesInv, [Next]_vars PROVE StretchesInv'
  OBVIOUS
<1>0. TypeOK /\ queue \in Seq(Tasks)
  BY DEF Inv, TypeOK
<1>1. ASSUME UNCHANGED <<segmentVars, disconnectStatus>> PROVE StretchesInv'
  BY <1>1 DEF StretchesInv, SegmentsOf, segmentVars
<1>2. ASSUME Takes("frame") PROVE Head(queue).frame \in Frames /\ disconnectStatus = "none"
  <2>1. queue # <<>> /\ Head(queue).kind = "frame"
    BY <1>2 DEF Takes
  <2>2. Head(queue).frame \in Frames
    BY <1>0, <2>1, QueueTail, TaskFields
  <2>3. disconnectStatus = "none"
    BY <1>0, <2>1, TailElements DEF Inv, QueueInv
  <2> QED
    BY <2>2, <2>3
<1>3. CASE HandleAudioData
  <2>1. PICK f \in Frames, c \in Csrcs : f = Head(queue).frame /\ c = f.csrc
    BY <1>2, <1>3, FrameFields DEF HandleAudioData
  <2> DEFINE segment == audioSegments[c]
  <2>2. PICK continues \in BOOLEAN :
          continues <=> segment # None /\ WithinGap(segment, f)
    OBVIOUS
  <2>3. /\ f.media = "audio"
        /\ audioSegments' = [audioSegments EXCEPT ![c] = NextSegment(segment, f, continues)]
        /\ finished' = FinishedBy(f, segment, continues)
        /\ Handles(f)
        /\ videoSegments' = videoSegments /\ UNCHANGED disconnectStatus
    BY <1>3, <2>1, <2>2 DEF HandleAudioData, notificationVars
  <2>4. disconnectStatus = "none" /\ "audio" \in Media /\ segment = SegmentsOf("audio")[c]
    BY <1>2, <1>3 DEF HandleAudioData, Media, SegmentsOf
  <2>5. segment # None => segment.size = f.size
    <3>1. f.size = "none"
      BY <2>3 DEF Frames, AudioFrames, VideoFrames
    <3> QED
      BY <1>0, <3>1, AudioHasNoSize
  <2>6. continues <=> segment # None /\ WithinGap(segment, f) /\ segment.size = f.size
    BY <2>2, <2>5
  <2>7. \A m \in Media, d \in Csrcs :
          (SegmentsOf(m)[d])' = IF m = "audio" /\ d = c THEN NextSegment(segment, f, continues)
                                ELSE SegmentsOf(m)[d]
    BY <1>0, <2>3 DEF SegmentsOf, Media, TypeOK
  <2> HIDE DEF segment
  <2>8. HandlesFrame("audio", c, f, continues)
    BY <2>1, <2>3, <2>4, <2>6, <2>7 DEF HandlesFrame
  <2> QED
    BY <1>0, <2>3, <2>4, <2>8, FrameKeepsStretches
<1>4. CASE HandleVideoData
  <2>1. PICK f \in Frames, c \in Csrcs : f = Head(queue).frame /\ c = f.csrc
    BY <1>2, <1>4, FrameFields DEF HandleVideoData
  <2> DEFINE segment == videoSegments[c]
  <2>2. PICK continues \in BOOLEAN :
          continues <=> segment # None /\ WithinGap(segment, f) /\ segment.size = f.size
    OBVIOUS
  <2>3. /\ f.media = "video"
        /\ videoSegments' = [videoSegments EXCEPT ![c] = NextSegment(segment, f, continues)]
        /\ finished' = FinishedBy(f, segment, continues)
        /\ Handles(f)
        /\ audioSegments' = audioSegments /\ UNCHANGED disconnectStatus
    BY <1>4, <2>1, <2>2 DEF HandleVideoData, notificationVars
  <2>4. disconnectStatus = "none" /\ "video" \in Media /\ segment = SegmentsOf("video")[c]
    BY <1>2, <1>4 DEF HandleVideoData, Media, SegmentsOf
  <2>6. continues <=> segment # None /\ WithinGap(segment, f) /\ segment.size = f.size
    BY <2>2
  <2>7. \A m \in Media, d \in Csrcs :
          (SegmentsOf(m)[d])' = IF m = "video" /\ d = c THEN NextSegment(segment, f, continues)
                                ELSE SegmentsOf(m)[d]
    BY <1>0, <2>3 DEF SegmentsOf, Media, TypeOK
  <2> HIDE DEF segment
  <2>8. HandlesFrame("video", c, f, continues)
    BY <2>1, <2>3, <2>4, <2>6, <2>7 DEF HandlesFrame
  <2> QED
    BY <1>0, <2>3, <2>4, <2>8, FrameKeepsStretches
<1>5. CASE HandleDisconnect
  <2>1. queue # <<>> /\ Head(queue).kind = "disconnect"
    BY <1>5 DEF HandleDisconnect, Takes
  <2>2. disconnectStatus = "none"
    BY <1>0, <2>1, QueueInvDisconnect DEF Inv
  <2> QED
    BY <1>0, <1>5, <2>2, DisconnectKeepsStretches
<1>6. CASE \/ \E c \in Csrcs : OnAudioFrame(c) \/ \E s \in Sizes : OnVideoFrame(c, s)
           \/ \E cs \in SUBSET Csrcs \ {{}}, id \in Identifiers \cup {None} : OnMessageFromServer(cs, id)
           \/ OnJoined
           \/ \E s \in Statuses : OnDisconnected(s)
           \/ Tick
  BY <1>1, <1>6 DEF OnAudioFrame, OnVideoFrame, PostFrame, OnMessageFromServer, OnJoined,
                    OnDisconnected, Tick, notificationVars
<1>7. CASE HandleUpdate \/ NotifyDisconnected \/ CheckJoined \/ ReleaseJoined \/ AnswerJoined
             \/ AnswerDisconnected
  BY <1>1, <1>7 DEF HandleUpdate, NotifyDisconnected, CheckJoined, ReleaseJoined, AnswerJoined,
                    AnswerDisconnected, notificationVars
<1>8. CASE App \/ UNCHANGED vars
  BY <1>1, <1>8 DEF App, BeginWait, GivesUp, Woken, WaitTimesOut, Destroy, otherThanApp, vars,
                    notificationVars
<1> QED
  BY <1>3, <1>4, <1>5, <1>6, <1>7, <1>8 DEF Next, CollectorThread, Terminated

LEMMA StretchesInit == Init => StretchesInv
<1> SUFFICES ASSUME Init, NEW media \in Media, NEW c \in Csrcs
             PROVE  SourceInv(handled[media][c], finished[media][c], SegmentsOf(media)[c],
                              disconnectStatus # "none")
  BY DEF StretchesInv
<1>1. /\ handled[media][c] = <<>> /\ finished[media][c] = <<>> /\ SegmentsOf(media)[c] = None
      /\ disconnectStatus = "none"
  BY DEF Init, SegmentsOf
<1>2. InFile(<<>>, Gap) = {} /\ Stretches(<<>>, Gap) = {} /\ Len(<<>>) = 0
  BY DEF InFile, Stretches
<1>3. SourceInv(<<>>, <<>>, None, FALSE)
  <2>1. Cardinality({}) = 0
    BY FS_EmptySet
  <2>2. {p \in Stretches(<<>>, Gap) : None = None \/ p[2] < Len(<<>>)} = {}
    BY <1>2
  <2>3. {<<>>[i] : i \in 1..Len(<<>>)} = {} /\ {SegmentOf(<<>>, p) : p \in {}} = {}
    BY <1>2
  <2> QED
    BY <1>2, <2>1, <2>2, <2>3 DEF SourceInv
<1> QED
  BY <1>1, <1>3

\* What a source's files and its open segment are: its frames' unbroken stretches.
LEMMA StretchesHold ==
  ASSUME TypeOK, StretchesInv
  PROVE  SegmentsAreStretches
<1> SUFFICES ASSUME NEW media \in Media, NEW c \in Csrcs
             PROVE  FilesAreStretches(media, c, Gap)
  BY DEF SegmentsAreStretches
<1> DEFINE h == handled[media][c]
           files == finished[media][c]
           segment == SegmentsOf(media)[c]
           open == {segment} \ {None}
           all == IF segment = None THEN files ELSE Append(files, segment)
<1>1. /\ h \in Seq(HandledFrames(media, c)) /\ files \in Seq(Segments)
      /\ segment \in Segments \cup {None}
  BY DEF TypeOK, SegmentsOf
<1>2. SourceInv(h, files, segment, disconnectStatus # "none")
  BY DEF StretchesInv
<1>3. AllStretches(h, all)
  <2> HIDE DEF h, files, segment
  <2> QED
    BY <1>1, <1>2, SourceClosed
<1> HIDE DEF h, files, segment
<1>4. CASE segment = None
  <2>1. open = {}
    BY <1>4
  <2>2. Cardinality(open) = 0
    BY <2>1, FS_EmptySet
  <2>3. Len(files) \in Nat /\ all = files
    BY <1>1, <1>4
  <2>4. /\ open \cup {files[i] : i \in 1..Len(files)} = {SegmentOf(h, p) : p \in Stretches(h, Gap)}
        /\ Len(files) + Cardinality(open) = Cardinality(Stretches(h, Gap))
    <3>1. /\ {files[i] : i \in 1..Len(files)} = {SegmentOf(h, p) : p \in Stretches(h, Gap)}
          /\ Len(files) = Cardinality(Stretches(h, Gap))
      BY <1>3, <2>3 DEF AllStretches
    <3> HIDE DEF open, all
    <3>2. open \cup {files[i] : i \in 1..Len(files)} = {files[i] : i \in 1..Len(files)}
      BY <2>1
    <3>3. Len(files) + Cardinality(open) = Len(files)
      BY <2>2, <2>3
    <3> QED
      BY <3>1, <3>2, <3>3
  <2> QED
    BY <2>4 DEF FilesAreStretches, h, files, segment
<1>5. CASE segment # None
  <2>1. open = {segment} /\ Cardinality(open) = 1
    BY <1>5, FS_Singleton
  <2>2. /\ Len(files) \in Nat /\ Len(all) = Len(files) + 1 /\ all[Len(files) + 1] = segment
        /\ \A k \in 1..Len(files) : all[k] = files[k]
    BY <1>1, <1>5
  <2>3. 1..Len(all) = 1..Len(files) \cup {Len(files) + 1}
    BY <2>2
  <2> HIDE DEF all
  <2>4. {all[k] : k \in 1..Len(all)} = {segment} \cup {files[k] : k \in 1..Len(files)}
    <3>1. \A k \in 1..Len(all) : all[k] \in {files[x] : x \in 1..Len(files)} \cup {segment}
      BY <2>2, <2>3
    <3>2. \A k \in 1..Len(files) : files[k] \in {all[x] : x \in 1..Len(all)}
      BY <2>2, <2>3
    <3>3. segment \in {all[x] : x \in 1..Len(all)}
      BY <2>2, <2>3
    <3> QED
      BY <3>1, <3>2, <3>3
  <2> QED
    BY <1>3, <2>1, <2>2, <2>4 DEF FilesAreStretches, AllStretches, h, files, segment
<1> QED
  BY <1>4, <1>5

\* The files of every source are exactly the unbroken stretches of its frames, for
\* any number of frames and sources (HandleAudioData, HandleVideoData and the task
\* of OnDisconnected).
THEOREM SegmentsSafe == Spec => []SegmentsAreStretches
<1>1. Spec => [](Inv /\ StretchesInv)
  <2>1. Spec => []Inv
    BY Invariance
  <2>2. Init => StretchesInv
    BY StretchesInit
  <2>3. Inv /\ StretchesInv /\ [Next]_vars => StretchesInv'
    BY StretchesStep
  <2> QED
    BY <2>1, <2>2, <2>3, PTL DEF Spec
<1>2. Inv /\ StretchesInv => SegmentsAreStretches
  BY StretchesHold DEF Inv
<1> QED
  BY <1>1, <1>2, PTL

=============================================================================
