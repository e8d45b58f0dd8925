---------------------- MODULE SingleUserRecordingProofs ----------------------
(***************************************************************************)
(* The playout's pacing, for every interval: by an inductive invariant of  *)
(* AudioPlayout, and for the whole recording because each of its steps is  *)
(* a step of the playout or leaves the playout alone.  Then the recording: *)
(* for any frames, nothing is missing when the disconnection is announced. *)
(***************************************************************************)
EXTENDS SingleUserRecording, TLAPS, SequenceTheorems, WellFoundedInduction

PlayoutTypeOK ==
  /\ now \in Nat
  /\ callback \in BOOLEAN
  /\ playout \in PlayoutStates
  /\ nextRun \in Nat /\ wake \in Nat /\ ideal \in Nat
  /\ overrun \in BOOLEAN

\* Targets never lie before the nominal time, and only an overrun takes them
\* past it; a delayed task is due at its target; a call runs at its target or
\* after it.
PlayoutInv ==
  /\ PlayoutTypeOK
  /\ playout \in {"waiting", "running"} => nextRun >= ideal
  /\ playout \in {"waiting", "running"} /\ ~overrun => nextRun = ideal
  /\ playout = "waiting" => wake = nextRun
  /\ playout = "running" => now >= nextRun

\* The invariant holds at the start.
LEMMA PlayoutInvInit == PlayoutInit => PlayoutInv
<1> SUFFICES ASSUME PlayoutInit PROVE PlayoutInv
  OBVIOUS
<1>1. overrun \in BOOLEAN /\ callback \in BOOLEAN
  BY Zenon DEF PlayoutInit
<1>2. now = 0 /\ nextRun = 0 /\ wake = 0 /\ ideal = 0 /\ playout = "none"
  BY DEF PlayoutInit
<1>3. playout \notin {"waiting", "running"}
  BY <1>2
<1>4. PlayoutTypeOK
  BY <1>1, <1>2 DEF PlayoutTypeOK, PlayoutStates
<1> QED
  BY <1>3, <1>4, Zenon DEF PlayoutInv

\* The invariant is kept by every step of the playout.
LEMMA PlayoutInvStep ==
  ASSUME PlayoutInv, [PlayoutNext]_<<now, playoutVars>>
  PROVE  PlayoutInv'
<1> USE DEF PlayoutInv, PlayoutTypeOK, PlayoutStates, playoutVars
<1>1. CASE Tick
  BY <1>1 DEF Tick
<1>2. ASSUME NEW registered \in BOOLEAN, RegisterAudioCallback(registered)
      PROVE  PlayoutInv'
  BY <1>2 DEF RegisterAudioCallback
<1>3. CASE StartPlayout
  BY <1>3 DEF StartPlayout
<1>4. CASE FirstRun
  <2>1. overrun' \in BOOLEAN /\ callback' \in BOOLEAN
    BY <1>4, Zenon DEF FirstRun
  <2>2. /\ now' = now /\ nextRun' = now /\ ideal' = now /\ wake' = wake
        /\ playout' = "running"
    BY <1>4 DEF FirstRun
  <2> QED
    BY <2>1, <2>2
<1>5. CASE Wake
  BY <1>5 DEF Wake
<1>6. CASE Reschedule
  <2>1. overrun' \in BOOLEAN /\ callback' \in BOOLEAN
    BY <1>6, Zenon DEF Reschedule
  <2>2. ~overrun' => ~overrun /\ ~(now - nextRun > Interval)
    BY <1>6, Zenon DEF Reschedule
  <2>3. /\ now' = now /\ playout = "running" /\ playout' = "waiting"
        /\ nextRun' = Later(nextRun + Interval, now)
        /\ wake' = now + Remaining(Interval, now - nextRun)
        /\ ideal' = ideal + Interval
    BY <1>6 DEF Reschedule
  <2>4. nextRun >= ideal /\ now >= nextRun
    BY <2>3
  <2>5. nextRun' \in Nat /\ wake' \in Nat /\ ideal' \in Nat
    BY <2>3, IntervalAssumption DEF Later, Remaining
  <2>6. wake' = nextRun' /\ nextRun' >= ideal'
    BY <2>3, <2>4, IntervalAssumption DEF Later, Remaining
  <2>7. ~overrun' => nextRun' = ideal'
    <3> SUFFICES ASSUME ~overrun' PROVE nextRun' = ideal'
      OBVIOUS
    <3>1. ~overrun /\ now - nextRun <= Interval
      BY <2>2, IntervalAssumption
    <3>2. nextRun = ideal
      BY <3>1, <2>3
    <3> QED
      BY <3>1, <3>2, <2>3, IntervalAssumption DEF Later
  <2> QED
    BY <2>1, <2>3, <2>5, <2>6, <2>7
<1>7. CASE StopPlayout
  BY <1>7 DEF StopPlayout
<1>8. CASE UNCHANGED <<now, playoutVars>>
  BY <1>8
<1> QED
  BY <1>1, <1>2, <1>3, <1>4, <1>5, <1>6, <1>7, <1>8 DEF PlayoutNext

\* The invariant has both halves of the pacing.
LEMMA PlayoutInvPaces == PlayoutInv => PlayoutIsPaced
  BY DEF PlayoutInv, PlayoutTypeOK, PlayoutIsPaced, NeverAhead, NoDrift

\* The playout keeps its pace for every sampling interval, however long calls
\* take and wakeups are late, and however often it is stopped and started.
THEOREM PlayoutPaced == PlayoutSpec => []PlayoutIsPaced
<1>1. PlayoutInv /\ [PlayoutNext]_<<now, playoutVars>> => PlayoutInv'
  BY PlayoutInvStep
<1> QED
  BY <1>1, PlayoutInvInit, PlayoutInvPaces, PTL DEF PlayoutSpec

\* A step of the recording is a step of the playout or leaves it alone.
LEMMA RecordingStepsPlayout ==
  ASSUME [Next]_vars
  PROVE  [PlayoutNext]_<<now, playoutVars>>
<1> USE DEF PlayoutNext
<1>1. CASE ProcessPlayData
  BY <1>1 DEF ProcessPlayData
<1>2. CASE Playout
  BY <1>2 DEF Playout
<1>3. CASE CloseClient
  BY <1>3 DEF CloseClient
<1>4. CASE SourceAppears \/ OnVideoFrame \/ OnJoined \/ \E s \in Statuses : EndSession(s)
  BY <1>4 DEF SourceAppears, OnVideoFrame, OnJoined, EndSession
<1>5. CASE ClientThread
  BY <1>5 DEF ClientThread, RunAudio, RunDisconnect, NotifyDisconnected, RunKill
<1>6. CASE CollectorThread
  BY <1>6 DEF CollectorThread, HandleAudioBuffer, HandleVideoBuffer, StoreStatus,
              AnswerJoined, AnswerDisconnected
<1>7. CASE WaitForJoined \/ Leave \/ WaitForDisconnected \/ DestroyClient \/ DestroyCollector
  BY <1>7 DEF WaitForJoined, WaitForDisconnected, Await, Leave, DestroyClient, DestroyCollector
<1>8. CASE Terminated \/ UNCHANGED vars
  BY <1>8 DEF Terminated, vars
<1> QED
  BY <1>1, <1>2, <1>3, <1>4, <1>5, <1>6, <1>7, <1>8 DEF Next, Main

\* The recording implements the playout.
THEOREM RecordingImplementsPlayout == Spec => PlayoutSpec
<1>1. Init => PlayoutInit
  BY DEF Init
<1>2. [Next]_vars => [PlayoutNext]_<<now, playoutVars>>
  BY RecordingStepsPlayout
<1> QED
  BY <1>1, <1>2, PTL DEF Spec, PlayoutSpec

\* ... so that the playout is paced in it, whatever the rest of it does.
THEOREM RecordingPaced == Spec => []PlayoutIsPaced
  BY PlayoutPaced, RecordingImplementsPlayout, PTL

-----------------------------------------------------------------------------
(***************************************************************************)
(* The recording.                                                          *)
(***************************************************************************)

Questions == {"askJoined", "askDisconnected"}
AudioItems == [kind : {"audio"}, number : Nat]
VideoItems == [kind : {"video"}, number : Nat, size : Range(Video)]
Items == AudioItems \cup VideoItems \cup [kind : {"status"}, status : Statuses]
           \cup [kind : Questions]
TaskItems == AudioItems \cup [kind : {"disconnect"}, status : Statuses]
               \cup [kind : {"kill"}]

RecordingTypeOK ==
  /\ tasks \in Seq(TaskItems)
  /\ collected \in Seq(Items)
  /\ pulled \in Nat /\ shown \in Nat
  /\ heard \in Seq(Nat) /\ audioFile \in Seq(Nat)
  /\ segment \in FileNames \cup {NoSegment}
  /\ videoFiles \in [FileNames -> Seq(Nat)]

Increasing(s) == \A i, j \in 1..Len(s) : i < j => s[i] < s[j]

\* Every element of s is one of t.
Within(s, t) == \A i \in 1..Len(s) : \E k \in 1..Len(t) : t[k] = s[i]

\* The items of a kind in queue q are numbered upwards.
Ascending(q, kind) ==
  \A i, j \in 1..Len(q) :
    i < j /\ q[i].kind = kind /\ q[j].kind = kind => q[i].number < q[j].number

\* Those of queue q have numbers above n.
Above(q, kind, n) == \A i \in 1..Len(q) : q[i].kind = kind => n < q[i].number

\* Item n of a kind waits in queue q.
Waits(q, kind, n) == \E i \in 1..Len(q) : q[i].kind = kind /\ q[i].number = n

\* main has destroyed the collector before the disconnection was announced: what
\* the collector thread had not taken is lost.
Dropped == mainPc = "exited" /\ ~disconnectNotified

\* Audio keeps its order from the playout to OnAudioFrame ...
TasksInv ==
  /\ Ascending(tasks, "audio")
  /\ \A i \in 1..Len(tasks) : tasks[i].kind = "audio" => tasks[i].number <= pulled
  /\ Increasing(heard)
  /\ \A k \in 1..Len(heard) : heard[k] <= pulled /\ Above(tasks, "audio", heard[k])

\* ... and from there to the file, and on its way a frame is in the queue.
AudioInv ==
  /\ Ascending(collected, "audio")
  /\ Increasing(audioFile)
  /\ \A k \in 1..Len(audioFile) : Above(collected, "audio", audioFile[k])
  /\ Within(audioFile, heard)
  /\ \A i \in 1..Len(collected) :
       collected[i].kind = "audio" => \E h \in 1..Len(heard) : heard[h] = collected[i].number
  /\ ~Dropped => \A h \in 1..Len(heard) :
       \/ \E k \in 1..Len(audioFile) : audioFile[k] = heard[h]
       \/ Waits(collected, "audio", heard[h])

\* So does video; the files of the segments to come are empty, and there are as
\* many frames before the next one as segments.
VideoInv ==
  /\ shown <= Len(Video)
  /\ segment # NoSegment => segment.number < shown
  /\ Ascending(collected, "video")
  /\ \A i \in 1..Len(collected) : collected[i].kind = "video" =>
       /\ collected[i].number \in 1..shown
       /\ collected[i].size = Video[collected[i].number]
       /\ segment # NoSegment => collected[i].number > segment.number + 1
  /\ \A f \in FileNames : \A k \in 1..Len(videoFiles[f]) :
       videoFiles[f][k] <= shown /\ Above(collected, "video", videoFiles[f][k])
  /\ \A f \in FileNames :
       segment = NoSegment \/ f.number > segment.number => videoFiles[f] = <<>>
  /\ ~Dropped => \A n \in 1..shown :
       \/ Waits(collected, "video", n)
       \/ \E f \in FileNames : f.size = Video[n] /\ Holds(videoFiles[f], n)

\* The status of the disconnection is stored behind all frames, and there are no
\* more: the link is closed.
StatusInv ==
  /\ clientPc # "idle" \/ disconnectNotified => link = "closed"
  /\ clientPc = "notify" \/ disconnectNotified =>
       \A i \in 1..Len(collected) : collected[i].kind \notin {"audio", "video"}
  /\ \A i \in 1..Len(collected) : collected[i].kind = "status" =>
       /\ clientPc = "blocked"
       /\ \A j \in 1..Len(collected) :
            j > i => collected[j].kind \notin {"audio", "video", "status"}

\* A question is asked by main, which waits for its answer.
QuestionsInv ==
  \A i \in 1..Len(collected) : collected[i].kind \in Questions =>
    /\ mainPc = collected[i].kind
    /\ \A j \in 1..Len(collected) : collected[j].kind \in Questions => i = j

\* The client ends in its turn, and leaves nothing to run.
EndInv ==
  /\ \A i \in 1..Len(tasks) : tasks[i].kind = "kill" => mainPc \in {"killing", "closing"}
  /\ mainPc \in {"stopping", "exited"} =>
       link = "closed" /\ clientPc = "idle" /\ tasks = <<>>

RecordingInv ==
  RecordingTypeOK /\ TasksInv /\ AudioInv /\ VideoInv /\ StatusInv /\ QuestionsInv /\ EndInv

-----------------------------------------------------------------------------
(***************************************************************************)
(* Sequences and queues.                                                   *)
(***************************************************************************)

\* A set of numbers has a least one: the induction of what follows.
LEMMA LeastNat ==
  ASSUME NEW T, T \subseteq Nat, T # {}
  PROVE  \E n \in T : \A m \in T : n <= m
<1> DEFINE R == {p \in Nat \X Nat : p[1] < p[2]}
<1>1. IsWellFoundedOn(R, Nat)
  BY NatLessThanWellFounded DEF OpToRel
<1> HIDE DEF R
<1>2. PICK n \in T : \A m \in T : <<m, n>> \notin R
  BY <1>1, WFMin
<1>3. \A m \in T : <<m, n>> \in Nat \X Nat
  OBVIOUS
<1>4. \A m \in T : ~(m < n)
  BY <1>2, <1>3 DEF R
<1> QED
  BY <1>4

\* Half of SameRange: s begins t.
LEMMA BeginsLike ==
  ASSUME NEW s \in Seq(Nat), NEW t \in Seq(Nat), Increasing(s), Increasing(t),
         Within(s, t), Within(t, s)
  PROVE  \A i \in 1..Len(s) : i <= Len(t) /\ t[i] = s[i]
<1> DEFINE T == {i \in 1..Len(s) : ~(i <= Len(t) /\ t[i] = s[i])}
<1>1. SUFFICES ASSUME T # {} PROVE FALSE
  OBVIOUS
<1>2. /\ Len(s) \in Nat /\ Len(t) \in Nat
      /\ \A i \in 1..Len(s) : s[i] \in Nat
      /\ \A i \in 1..Len(t) : t[i] \in Nat
  BY LenProperties, ElementOfSeq
<1>3. T \subseteq Nat
  BY <1>2
<1> HIDE DEF T
<1>4. PICK i \in T : \A j \in T : i <= j
  BY <1>1, <1>3, LeastNat
<1>5. /\ i \in 1..Len(s) /\ ~(i <= Len(t) /\ t[i] = s[i])
      /\ \A j \in 1..Len(s) : j < i => j <= Len(t) /\ t[j] = s[j]
  BY <1>2, <1>4 DEF T
<1>6. PICK k \in 1..Len(t) : t[k] = s[i]
  BY <1>5 DEF Within
<1>7. i \in Nat /\ k \in Nat /\ k <= Len(t) /\ i <= Len(s) /\ 1 <= i /\ 1 <= k
      /\ s[i] \in Nat /\ t[k] \in Nat
  BY <1>2, <1>5, <1>6
<1>8. k >= i
  <2> SUFFICES ASSUME k < i PROVE FALSE
    BY <1>7
  <2>1. k \in 1..Len(s)
    BY <1>2, <1>7
  <2>2. t[k] = s[k] /\ s[k] < s[i]
    BY <1>5, <2>1 DEF Increasing
  <2> QED
    BY <1>6, <1>7, <2>2
<1>9. i \in 1..Len(t) /\ t[i] # s[i] /\ t[i] \in Nat
  BY <1>2, <1>5, <1>7, <1>8
<1>10. PICK m \in 1..Len(s) : s[m] = t[i]
  BY <1>9 DEF Within
<1>11. m \in Nat /\ m > i
  <2>1. m # i /\ m \in Nat
    BY <1>2, <1>9, <1>10
  <2>2. ~(m < i)
    <3> SUFFICES ASSUME m < i PROVE FALSE
      OBVIOUS
    <3>1. m \in 1..Len(t) /\ t[m] = s[m]
      BY <1>5, <1>8, <1>7, <1>10, <1>2
    <3>2. t[m] < t[i]
      BY <1>9, <3>1 DEF Increasing
    <3> QED
      BY <1>9, <1>10, <3>1, <3>2
  <2> QED
    BY <1>7, <2>1, <2>2
<1>12. s[i] < t[i]
  BY <1>5, <1>10, <1>11 DEF Increasing
<1>13. t[i] <= t[k]
  <2>1. CASE k = i
    BY <1>9, <2>1
  <2>2. CASE i < k
    BY <1>6, <1>7, <1>9, <2>2 DEF Increasing
  <2> QED
    BY <1>7, <1>8, <2>1, <2>2
<1> QED
  BY <1>6, <1>7, <1>9, <1>12, <1>13

\* Two increasing sequences of the same numbers are equal.
LEMMA SameRange ==
  ASSUME NEW s \in Seq(Nat), NEW t \in Seq(Nat), Increasing(s), Increasing(t),
         Within(s, t), Within(t, s)
  PROVE  s = t
<1>1. Len(s) \in Nat /\ Len(t) \in Nat
  BY LenProperties
<1>2. \A i \in 1..Len(s) : i <= Len(t) /\ t[i] = s[i]
  BY BeginsLike
<1>3. \A i \in 1..Len(t) : i <= Len(s)
  BY BeginsLike
<1>4. Len(s) <= Len(t)
  BY <1>1, <1>2, Len(s) = 0 \/ Len(s) \in 1..Len(s)
<1>5. Len(t) <= Len(s)
  BY <1>1, <1>3, Len(t) = 0 \/ Len(t) \in 1..Len(t)
<1>6. Len(s) = Len(t)
  BY <1>1, <1>4, <1>5
<1> QED
  BY <1>2, <1>6, SeqEqual

\* What an item put at the end of a queue, or taken from its head, does to it.
LEMMA Appended ==
  ASSUME NEW S, NEW q \in Seq(S), NEW e \in S
  PROVE  /\ Append(q, e) \in Seq(S)
         /\ Len(q) \in Nat /\ Len(Append(q, e)) = Len(q) + 1
         /\ \A i \in 1..Len(q) : Append(q, e)[i] = q[i]
         /\ Append(q, e)[Len(q) + 1] = e
BY AppendProperties, LenProperties

LEMMA Taken ==
  ASSUME NEW S, NEW q \in Seq(S), q # <<>>
  PROVE  /\ Tail(q) \in Seq(S) /\ Head(q) \in S /\ Head(q) = q[1]
         /\ Len(q) \in Nat /\ Len(q) > 0 /\ Len(Tail(q)) = Len(q) - 1
         /\ \A i \in 1..Len(Tail(q)) : Tail(q)[i] = q[i + 1] /\ i + 1 \in 1..Len(q)
         /\ \A i \in 1..Len(q) : i = 1 \/ (i - 1 \in 1..Len(Tail(q)) /\ Tail(q)[i - 1] = q[i])
<1>1. Tail(q) \in Seq(S) /\ Head(q) \in S /\ Head(q) = q[1]
  BY HeadTailProperties
<1>2. Len(q) \in Nat /\ Len(q) > 0 /\ Len(Tail(q)) = Len(q) - 1
  BY HeadTailProperties, LenProperties, EmptySeq
<1>3. \A i \in 1..Len(Tail(q)) : Tail(q)[i] = q[i + 1] /\ i + 1 \in 1..Len(q)
  BY <1>2, HeadTailProperties
<1>4. ASSUME NEW i \in 1..Len(q), i # 1
      PROVE  i - 1 \in 1..Len(Tail(q)) /\ Tail(q)[i - 1] = q[i]
  <2>1. i - 1 \in 1..Len(Tail(q)) /\ (i - 1) + 1 = i
    BY <1>2, <1>4
  <2> QED
    BY <1>3, <2>1
<1> QED
  BY <1>1, <1>2, <1>3, <1>4

\* Order in a queue survives its two ends ...
LEMMA AscendingKept ==
  ASSUME NEW S, NEW q \in Seq(S), NEW kind, Ascending(q, kind)
  PROVE  /\ q # <<>> => Ascending(Tail(q), kind)
         /\ \A e \in S :
              (e.kind = kind => \A i \in 1..Len(q) : q[i].kind = kind => q[i].number < e.number)
              => Ascending(Append(q, e), kind)
<1>1. ASSUME q # <<>> PROVE Ascending(Tail(q), kind)
  <2>1. ASSUME NEW i \in 1..Len(Tail(q)), NEW j \in 1..Len(Tail(q)), i < j,
               Tail(q)[i].kind = kind, Tail(q)[j].kind = kind
        PROVE  Tail(q)[i].number < Tail(q)[j].number
    <3>1. /\ Tail(q)[i] = q[i + 1] /\ i + 1 \in 1..Len(q)
          /\ Tail(q)[j] = q[j + 1] /\ j + 1 \in 1..Len(q)
      BY <1>1, Taken
    <3> QED
      BY <2>1, <3>1 DEF Ascending
  <2> QED
    BY <2>1 DEF Ascending
<1>2. ASSUME NEW e \in S,
             e.kind = kind => \A i \in 1..Len(q) : q[i].kind = kind => q[i].number < e.number
      PROVE  Ascending(Append(q, e), kind)
  <2> DEFINE r == Append(q, e)
  <2>1. /\ Len(q) \in Nat /\ Len(r) = Len(q) + 1
        /\ \A i \in 1..Len(q) : r[i] = q[i]
        /\ r[Len(q) + 1] = e
    BY Appended
  <2> HIDE DEF r
  <2>2. ASSUME NEW i \in 1..Len(r), NEW j \in 1..Len(r), i < j,
               r[i].kind = kind, r[j].kind = kind
        PROVE  r[i].number < r[j].number
    <3>1. i \in 1..Len(q) /\ (j \in 1..Len(q) \/ j = Len(q) + 1)
      BY <2>1, <2>2
    <3> QED
      BY <1>2, <2>1, <2>2, <3>1 DEF Ascending
  <2>3. Ascending(r, kind)
    BY <2>2 DEF Ascending
  <2> QED
    BY <2>3 DEF r
<1> QED
  BY <1>1, <1>2

\* ... and so does what is below it, and the head is below the rest.
LEMMA AboveKept ==
  ASSUME NEW S, NEW q \in Seq(S), NEW kind, NEW n, Above(q, kind, n)
  PROVE  /\ q # <<>> => Above(Tail(q), kind, n)
         /\ \A e \in S : (e.kind = kind => n < e.number) => Above(Append(q, e), kind, n)
<1>1. ASSUME q # <<>> PROVE Above(Tail(q), kind, n)
  BY <1>1, Taken DEF Above
<1>2. ASSUME NEW e \in S, e.kind = kind => n < e.number
      PROVE  Above(Append(q, e), kind, n)
  <2>1. /\ Len(q) \in Nat /\ Len(Append(q, e)) = Len(q) + 1
        /\ \A i \in 1..Len(q) : Append(q, e)[i] = q[i]
        /\ Append(q, e)[Len(q) + 1] = e
    BY Appended
  <2>2. \A i \in 1..Len(Append(q, e)) : i \in 1..Len(q) \/ i = Len(q) + 1
    BY <2>1
  <2> QED
    BY <1>2, <2>1, <2>2 DEF Above
<1> QED
  BY <1>1, <1>2

LEMMA HeadBelow ==
  ASSUME NEW S, NEW q \in Seq(S), NEW kind, Ascending(q, kind), q # <<>>, Head(q).kind = kind
  PROVE  Above(Tail(q), kind, Head(q).number)
<1>1. ASSUME NEW i \in 1..Len(Tail(q)), Tail(q)[i].kind = kind
      PROVE  Head(q).number < Tail(q)[i].number
  <2>1. /\ Head(q) = q[1] /\ Len(q) \in Nat /\ Len(q) > 0
        /\ Tail(q)[i] = q[i + 1] /\ i + 1 \in 1..Len(q)
    BY Taken
  <2>2. 1 \in 1..Len(q) /\ 1 < i + 1
    BY <2>1
  <2> QED
    BY <1>1, <2>1, <2>2 DEF Ascending
<1> QED
  BY <1>1 DEF Above

\* What waits goes on waiting, unless it is taken; what is put there waits.
LEMMA WaitsKept ==
  ASSUME NEW S, NEW q \in Seq(S), NEW kind, NEW n
  PROVE  /\ q # <<>> /\ Waits(q, kind, n) =>
              Waits(Tail(q), kind, n) \/ (Head(q).kind = kind /\ Head(q).number = n)
         /\ \A e \in S : Waits(q, kind, n) => Waits(Append(q, e), kind, n)
         /\ \A e \in S : e.kind = kind /\ e.number = n => Waits(Append(q, e), kind, n)
<1>1. ASSUME q # <<>>, Waits(q, kind, n)
      PROVE  Waits(Tail(q), kind, n) \/ (Head(q).kind = kind /\ Head(q).number = n)
  <2>1. PICK i \in 1..Len(q) : q[i].kind = kind /\ q[i].number = n
    BY <1>1 DEF Waits
  <2>2. /\ Head(q) = q[1]
        /\ i = 1 \/ (i - 1 \in 1..Len(Tail(q)) /\ Tail(q)[i - 1] = q[i])
    BY <1>1, Taken
  <2> QED
    BY <2>1, <2>2 DEF Waits
<1>2. ASSUME NEW e \in S
      PROVE  /\ Waits(q, kind, n) => Waits(Append(q, e), kind, n)
             /\ e.kind = kind /\ e.number = n => Waits(Append(q, e), kind, n)
  <2>1. /\ Len(q) \in Nat /\ Len(Append(q, e)) = Len(q) + 1
        /\ \A i \in 1..Len(q) : Append(q, e)[i] = q[i]
        /\ Append(q, e)[Len(q) + 1] = e
    BY Appended
  <2>2. Len(q) + 1 \in 1..Len(Append(q, e)) /\ \A i \in 1..Len(q) : i \in 1..Len(Append(q, e))
    BY <2>1
  <2> QED
    BY <2>1, <2>2 DEF Waits
<1> QED
  BY <1>1, <1>2

\* A larger number keeps a sequence increasing.
LEMMA IncreasingAppend ==
  ASSUME NEW s \in Seq(Nat), Increasing(s), NEW n \in Nat, \A k \in 1..Len(s) : s[k] < n
  PROVE  Increasing(Append(s, n))
<1>1. /\ Len(s) \in Nat /\ Len(Append(s, n)) = Len(s) + 1
      /\ \A i \in 1..Len(s) : Append(s, n)[i] = s[i]
      /\ Append(s, n)[Len(s) + 1] = n
  BY Appended
<1>2. ASSUME NEW i \in 1..Len(Append(s, n)), NEW j \in 1..Len(Append(s, n)), i < j
      PROVE  Append(s, n)[i] < Append(s, n)[j]
  <2>1. i \in 1..Len(s) /\ (j \in 1..Len(s) \/ j = Len(s) + 1)
    BY <1>1, <1>2
  <2> QED
    BY <1>1, <1>2, <2>1 DEF Increasing
<1> QED
  BY <1>2 DEF Increasing

-----------------------------------------------------------------------------
(***************************************************************************)
(* What the steps of the two queues do to the parts of the invariant.      *)
(***************************************************************************)

\* The client thread's queue: a task that is not audio comes, or one goes.
LEMMA TasksInvAppend ==
  ASSUME RecordingTypeOK, TasksInv, NEW e \in TaskItems,
         tasks' = Append(tasks, e), heard' = heard, pulled' \in Nat,
         \/ e.kind # "audio" /\ pulled' = pulled
         \/ e.number = pulled + 1 /\ pulled' = pulled + 1
  PROVE  TasksInv'
<1>1. /\ tasks \in Seq(TaskItems) /\ heard \in Seq(Nat) /\ pulled \in Nat
      /\ Ascending(tasks, "audio")
      /\ \A i \in 1..Len(tasks) : tasks[i].kind = "audio" => tasks[i].number <= pulled
      /\ \A k \in 1..Len(heard) : heard[k] <= pulled /\ Above(tasks, "audio", heard[k])
  BY DEF TasksInv, RecordingTypeOK
<1>2. /\ Len(tasks) \in Nat /\ Len(tasks') = Len(tasks) + 1
      /\ \A i \in 1..Len(tasks) : tasks'[i] = tasks[i]
      /\ tasks'[Len(tasks) + 1] = e
  BY <1>1, Appended
<1>3. \A k \in 1..Len(heard) : heard[k] \in Nat
  BY <1>1, ElementOfSeq
<1>4. \A i \in 1..Len(tasks) : tasks[i].kind = "audio" => tasks[i].number \in Nat
  <2>1. \A i \in 1..Len(tasks) : tasks[i] \in TaskItems
    BY <1>1, ElementOfSeq
  <2> QED
    BY <2>1 DEF TaskItems, AudioItems
<1>5. Ascending(tasks', "audio")
  <2>1. e.kind = "audio" =>
          \A i \in 1..Len(tasks) : tasks[i].kind = "audio" => tasks[i].number < e.number
    BY <1>1, <1>4
  <2> QED
    BY <1>1, <2>1, AscendingKept
<1>6. ASSUME NEW i \in 1..Len(tasks'), tasks'[i].kind = "audio"
      PROVE  tasks'[i].number <= pulled'
  <2>1. i \in 1..Len(tasks) \/ i = Len(tasks) + 1
    BY <1>2
  <2> QED
    BY <1>1, <1>2, <1>4, <1>6, <2>1
<1>7. ASSUME NEW k \in 1..Len(heard) PROVE heard[k] <= pulled' /\ Above(tasks', "audio", heard[k])
  <2>1. e.kind = "audio" => heard[k] < e.number
    BY <1>1, <1>3
  <2> QED
    BY <1>1, <1>3, <2>1, AboveKept
<1> QED
  BY <1>5, <1>6, <1>7 DEF TasksInv

LEMMA TasksInvTail ==
  ASSUME RecordingTypeOK, TasksInv, tasks # <<>>,
         tasks' = Tail(tasks), UNCHANGED <<heard, pulled>>
  PROVE  TasksInv'
<1>1. /\ tasks \in Seq(TaskItems)
      /\ Ascending(tasks, "audio")
      /\ \A i \in 1..Len(tasks) : tasks[i].kind = "audio" => tasks[i].number <= pulled
      /\ \A k \in 1..Len(heard) : heard[k] <= pulled /\ Above(tasks, "audio", heard[k])
      /\ Increasing(heard)
  BY DEF TasksInv, RecordingTypeOK
<1>2. Ascending(tasks', "audio") /\ \A k \in 1..Len(heard) : Above(tasks', "audio", heard[k])
  BY <1>1, AscendingKept, AboveKept
<1>3. \A i \in 1..Len(tasks') : tasks'[i].kind = "audio" => tasks'[i].number <= pulled
  BY <1>1, Taken
<1> QED
  BY <1>1, <1>2, <1>3 DEF TasksInv

\* The collector thread's queue: something else than audio comes or goes.
LEMMA AudioInvAppend ==
  ASSUME RecordingTypeOK, AudioInv, NEW e \in Items, e.kind # "audio",
         collected' = Append(collected, e), UNCHANGED <<heard, audioFile>>, Dropped => Dropped'
  PROVE  AudioInv'
<1>1. collected \in Seq(Items) /\ Ascending(collected, "audio")
  BY DEF AudioInv, RecordingTypeOK
<1>2. /\ Len(collected) \in Nat /\ Len(collected') = Len(collected) + 1
      /\ \A i \in 1..Len(collected) : collected'[i] = collected[i]
      /\ collected'[Len(collected) + 1] = e
  BY <1>1, Appended
<1>3. Ascending(collected', "audio")
  BY <1>1, AscendingKept
<1>4. \A k \in 1..Len(audioFile) : Above(collected', "audio", audioFile[k])
  BY <1>1, AboveKept DEF AudioInv
<1>5. \A i \in 1..Len(collected') : collected'[i].kind = "audio" =>
        \E h \in 1..Len(heard) : heard[h] = collected'[i].number
  <2>1. \A i \in 1..Len(collected') : i \in 1..Len(collected) \/ i = Len(collected) + 1
    BY <1>2
  <2> QED
    BY <1>2, <2>1 DEF AudioInv
<1>6. \A n : Waits(collected, "audio", n) => Waits(collected', "audio", n)
  BY <1>1, WaitsKept
<1>7. Increasing(audioFile') /\ Within(audioFile', heard')
  BY DEF AudioInv
<1> QED
  BY <1>3, <1>4, <1>5, <1>6, <1>7 DEF AudioInv

LEMMA AudioInvTail ==
  ASSUME RecordingTypeOK, AudioInv, collected # <<>>, Head(collected).kind # "audio",
         collected' = Tail(collected), UNCHANGED <<heard, audioFile>>, Dropped => Dropped'
  PROVE  AudioInv'
<1>1. collected \in Seq(Items) /\ Ascending(collected, "audio")
  BY DEF AudioInv, RecordingTypeOK
<1>2. \A i \in 1..Len(collected') : collected'[i] = collected[i + 1] /\ i + 1 \in 1..Len(collected)
  BY <1>1, Taken
<1>3. Ascending(collected', "audio")
  BY <1>1, AscendingKept
<1>4. \A k \in 1..Len(audioFile) : Above(collected', "audio", audioFile[k])
  BY <1>1, AboveKept DEF AudioInv
<1>5. \A i \in 1..Len(collected') : collected'[i].kind = "audio" =>
        \E h \in 1..Len(heard) : heard[h] = collected'[i].number
  BY <1>2 DEF AudioInv
<1>6. \A n : Waits(collected, "audio", n) => Waits(collected', "audio", n)
  BY <1>1, WaitsKept
<1>7. Increasing(audioFile') /\ Within(audioFile', heard')
  BY DEF AudioInv
<1> QED
  BY <1>3, <1>4, <1>5, <1>6, <1>7 DEF AudioInv

\* Something else than video comes or goes.
LEMMA VideoInvAppend ==
  ASSUME RecordingTypeOK, VideoInv, NEW e \in Items, e.kind # "video",
         collected' = Append(collected, e), UNCHANGED <<shown, segment, videoFiles>>,
         Dropped => Dropped'
  PROVE  VideoInv'
<1>1. collected \in Seq(Items) /\ Ascending(collected, "video")
  BY DEF VideoInv, RecordingTypeOK
<1>2. /\ Len(collected) \in Nat /\ Len(collected') = Len(collected) + 1
      /\ \A i \in 1..Len(collected) : collected'[i] = collected[i]
      /\ collected'[Len(collected) + 1] = e
  BY <1>1, Appended
<1>3. Ascending(collected', "video")
  BY <1>1, AscendingKept
<1>4. \A n : Above(collected, "video", n) => Above(collected', "video", n)
  BY <1>1, AboveKept
<1>5. \A i \in 1..Len(collected') : collected'[i].kind = "video" => i \in 1..Len(collected)
  BY <1>2
<1>6. \A n : Waits(collected, "video", n) => Waits(collected', "video", n)
  BY <1>1, WaitsKept
<1> QED
  BY <1>2, <1>3, <1>4, <1>5, <1>6 DEF VideoInv

LEMMA VideoInvTail ==
  ASSUME RecordingTypeOK, VideoInv, collected # <<>>, Head(collected).kind # "video",
         collected' = Tail(collected), UNCHANGED <<shown, segment, videoFiles>>,
         Dropped => Dropped'
  PROVE  VideoInv'
<1>1. collected \in Seq(Items) /\ Ascending(collected, "video")
  BY DEF VideoInv, RecordingTypeOK
<1>2. \A i \in 1..Len(collected') : collected'[i] = collected[i + 1] /\ i + 1 \in 1..Len(collected)
  BY <1>1, Taken
<1>3. Ascending(collected', "video")
  BY <1>1, AscendingKept
<1>4. \A n : Above(collected, "video", n) => Above(collected', "video", n)
  BY <1>1, AboveKept
<1>5. \A n : Waits(collected, "video", n) => Waits(collected', "video", n)
  BY <1>1, WaitsKept
<1> QED
  BY <1>2, <1>3, <1>4, <1>5 DEF VideoInv

\* The order in which the status and the questions stand in the queue.
LEMMA StatusInvKept ==
  ASSUME RecordingTypeOK, StatusInv, UNCHANGED <<clientPc, link, disconnectNotified>>
  PROVE  /\ UNCHANGED collected => StatusInv'
         /\ collected # <<>> /\ collected' = Tail(collected) => StatusInv'
         /\ \A e \in Items :
              /\ collected' = Append(collected, e)
              /\ e.kind # "status" /\ (e.kind \in {"audio", "video"} => link # "closed")
              => StatusInv'
<1>1. collected \in Seq(Items)
  BY DEF RecordingTypeOK
<1>2. ASSUME UNCHANGED collected PROVE StatusInv'
  BY <1>2 DEF StatusInv
<1>3. ASSUME collected # <<>>, collected' = Tail(collected) PROVE StatusInv'
  <2>1. \A i \in 1..Len(collected') : collected'[i] = collected[i + 1] /\ i + 1 \in 1..Len(collected)
    BY <1>1, <1>3, Taken
  <2>2. Len(collected') \in Nat
    BY <1>1, <1>3, Taken, LenProperties
  <2>3. ASSUME NEW i \in 1..Len(collected'), collected'[i].kind = "status"
        PROVE  /\ clientPc' = "blocked"
               /\ \A j \in 1..Len(collected') :
                    j > i => collected'[j].kind \notin {"audio", "video", "status"}
    <3>1. i + 1 \in 1..Len(collected) /\ collected[i + 1].kind = "status"
      BY <2>1, <2>3
    <3>2. /\ clientPc = "blocked"
          /\ \A j \in 1..Len(collected) :
               j > i + 1 => collected[j].kind \notin {"audio", "video", "status"}
      BY <3>1 DEF StatusInv
    <3>3. ASSUME NEW j \in 1..Len(collected'), j > i
          PROVE  collected'[j].kind \notin {"audio", "video", "status"}
      <4>1. j + 1 \in 1..Len(collected) /\ j + 1 > i + 1 /\ collected'[j] = collected[j + 1]
        BY <2>1, <2>2, <3>3
      <4> QED
        BY <3>2, <4>1
    <3> QED
      BY <3>2, <3>3
  <2>4. clientPc' = "notify" \/ disconnectNotified' =>
          \A i \in 1..Len(collected') : collected'[i].kind \notin {"audio", "video"}
    BY <2>1 DEF StatusInv
  <2>5. clientPc' # "idle" \/ disconnectNotified' => link' = "closed"
    BY DEF StatusInv
  <2> QED
    BY <2>3, <2>4, <2>5 DEF StatusInv
<1>4. ASSUME NEW e \in Items, collected' = Append(collected, e),
             e.kind # "status", e.kind \in {"audio", "video"} => link # "closed"
      PROVE  StatusInv'
  <2>1. /\ Len(collected) \in Nat /\ Len(collected') = Len(collected) + 1
        /\ \A i \in 1..Len(collected) : collected'[i] = collected[i]
        /\ collected'[Len(collected) + 1] = e
    BY <1>1, <1>4, Appended
  <2>2. \A i \in 1..Len(collected') : i \in 1..Len(collected) \/ i = Len(collected) + 1
    BY <2>1
  <2> QED
    BY <1>4, <2>1, <2>2 DEF StatusInv
<1> QED
  BY <1>2, <1>3, <1>4

LEMMA QuestionsInvKept ==
  ASSUME RecordingTypeOK, QuestionsInv
  PROVE  /\ UNCHANGED <<collected, mainPc>> => QuestionsInv'
         /\ UNCHANGED collected /\ mainPc \notin Questions => QuestionsInv'
         /\ collected # <<>> /\ collected' = Tail(collected) /\ UNCHANGED mainPc => QuestionsInv'
         /\ collected # <<>> /\ collected' = Tail(collected) /\ Head(collected).kind \in Questions
            => QuestionsInv'
         /\ \A e \in Items :
              collected' = Append(collected, e) /\ e.kind \notin Questions /\ UNCHANGED mainPc
              => QuestionsInv'
         /\ \A e \in Items :
              collected' = Append(collected, e) /\ mainPc \notin Questions /\ mainPc' = e.kind
              => QuestionsInv'
<1>1. collected \in Seq(Items)
  BY DEF RecordingTypeOK
<1>2. ASSUME UNCHANGED collected, UNCHANGED mainPc \/ mainPc \notin Questions
      PROVE  QuestionsInv'
  BY <1>2 DEF QuestionsInv
<1>3. ASSUME collected # <<>>, collected' = Tail(collected),
             UNCHANGED mainPc \/ Head(collected).kind \in Questions
      PROVE  QuestionsInv'
  <2>1. /\ Head(collected) = collected[1] /\ Len(collected') \in Nat /\ 1 \in 1..Len(collected)
        /\ \A i \in 1..Len(collected') :
             collected'[i] = collected[i + 1] /\ i + 1 \in 1..Len(collected)
    BY <1>1, <1>3, Taken, LenProperties
  <2>2. \A i \in 1..Len(collected') : i + 1 # 1 /\ i \in Nat
    BY <2>1
  <2>3. ASSUME NEW i \in 1..Len(collected'), collected'[i].kind \in Questions
        PROVE  /\ mainPc' = collected'[i].kind
               /\ \A j \in 1..Len(collected') : collected'[j].kind \in Questions => i = j
    <3>1. i + 1 \in 1..Len(collected) /\ collected[i + 1].kind \in Questions
      BY <2>1, <2>3
    <3>2. /\ mainPc = collected[i + 1].kind
          /\ \A j \in 1..Len(collected) : collected[j].kind \in Questions => i + 1 = j
      BY <3>1 DEF QuestionsInv
    <3>3. UNCHANGED mainPc
      BY <1>3, <2>1, <2>2, <3>2
    <3>4. ASSUME NEW j \in 1..Len(collected'), collected'[j].kind \in Questions
          PROVE  i = j
      <4>1. j + 1 \in 1..Len(collected) /\ collected[j + 1].kind \in Questions
        BY <2>1, <3>4
      <4>2. i + 1 = j + 1
        BY <3>2, <4>1
      <4> QED
        BY <2>2, <4>2
    <3> QED
      BY <2>1, <3>2, <3>3, <3>4
  <2> QED
    BY <2>3 DEF QuestionsInv
<1>4. ASSUME NEW e \in Items, collected' = Append(collected, e),
             \/ e.kind \notin Questions /\ UNCHANGED mainPc
             \/ mainPc \notin Questions /\ mainPc' = e.kind
      PROVE  QuestionsInv'
  <2>1. /\ Len(collected) \in Nat /\ Len(collected') = Len(collected) + 1
        /\ \A i \in 1..Len(collected) : collected'[i] = collected[i]
        /\ collected'[Len(collected) + 1] = e
    BY <1>1, <1>4, Appended
  <2>2. \A i \in 1..Len(collected') : i \in 1..Len(collected) \/ i = Len(collected) + 1
    BY <2>1
  <2> QED
    BY <1>4, <2>1, <2>2 DEF QuestionsInv
<1> QED
  BY <1>2, <1>3, <1>4

\* The invariant where a step leaves its variables alone.
LEMMA UnchangedInv ==
  ASSUME RecordingInv
  PROVE  /\ UNCHANGED <<tasks, pulled, heard>> => TasksInv'
         /\ UNCHANGED <<collected, heard, audioFile>> /\ (Dropped => Dropped') => AudioInv'
         /\ UNCHANGED <<collected, shown, segment, videoFiles>> /\ (Dropped => Dropped') => VideoInv'
         /\ UNCHANGED <<tasks, mainPc, link, clientPc>> => EndInv'
<1>1. ASSUME UNCHANGED <<tasks, pulled, heard>> PROVE TasksInv'
  BY <1>1 DEF RecordingInv, TasksInv
<1>2. ASSUME UNCHANGED <<collected, heard, audioFile>>, Dropped => Dropped' PROVE AudioInv'
  BY <1>2 DEF RecordingInv, AudioInv
<1>3. ASSUME UNCHANGED <<collected, shown, segment, videoFiles>>, Dropped => Dropped' PROVE VideoInv'
  BY <1>3 DEF RecordingInv, VideoInv
<1>4. ASSUME UNCHANGED <<tasks, mainPc, link, clientPc>> PROVE EndInv'
  BY <1>4 DEF RecordingInv, EndInv
<1> QED
  BY <1>1, <1>2, <1>3, <1>4

\* The invariant holds at the start.
LEMMA RecordingInvInit == Init => RecordingInv
<1> SUFFICES ASSUME Init PROVE RecordingInv
  OBVIOUS
<1>1. /\ tasks = <<>> /\ collected = <<>> /\ heard = <<>> /\ audioFile = <<>>
      /\ pulled = 0 /\ shown = 0 /\ clientPc = "idle" /\ disconnectNotified = FALSE
      /\ segment = NoSegment /\ videoFiles = [f \in FileNames |-> <<>>]
      /\ mainPc = "waitJoined"
  BY DEF Init
<1>2. /\ \A S : <<>> \in Seq(S)
      /\ Len(<<>>) = 0
  BY EmptySeq
<1>3. Len(Video) \in Nat
  BY RecordingBoundsAssumption, LenProperties
<1>4. RecordingTypeOK
  BY <1>1, <1>2 DEF RecordingTypeOK
<1>5. TasksInv /\ AudioInv
  BY <1>1, <1>2 DEF TasksInv, AudioInv, Ascending, Increasing, Above, Within, Waits
<1>6. VideoInv
  BY <1>1, <1>2, <1>3 DEF VideoInv, Ascending, Above, Waits
<1>7. StatusInv /\ QuestionsInv /\ EndInv
  BY <1>1, <1>2 DEF StatusInv, QuestionsInv, EndInv
<1> QED
  BY <1>4, <1>5, <1>6, <1>7 DEF RecordingInv

-----------------------------------------------------------------------------
(***************************************************************************)
(* The steps.                                                              *)
(***************************************************************************)

\* What is lost stays lost.
LEMMA DroppedKept ==
  ASSUME RecordingInv, Next
  PROVE  Dropped => Dropped'
<1> SUFFICES ASSUME mainPc = "exited", ~disconnectNotified
             PROVE  mainPc' = "exited" /\ ~disconnectNotified'
  BY DEF Dropped
<1>1. clientPc = "idle" /\ tasks = <<>>
  BY DEF RecordingInv, EndInv
<1>2. CASE SourceAppears \/ Playout \/ OnVideoFrame \/ OnJoined
  BY <1>2 DEF SourceAppears, Playout, OnVideoFrame, OnJoined, recordingVars, noticeVars
<1>7. CASE ProcessPlayData
  BY <1>7 DEF ProcessPlayData, noticeVars
<1>8. CASE \E s \in Statuses : EndSession(s)
  BY <1>8 DEF EndSession, noticeVars
<1>3. CASE ClientThread
  BY <1>1, <1>3 DEF ClientThread, RunAudio, RunDisconnect, NotifyDisconnected, RunKill, ClientTakes
<1>4. CASE CollectorThread
  <2>1. CASE HandleAudioBuffer \/ HandleVideoBuffer \/ StoreStatus
    BY <2>1 DEF HandleAudioBuffer, HandleVideoBuffer, StoreStatus, noticeVars
  <2>2. CASE AnswerJoined \/ AnswerDisconnected
    <3>1. collected # <<>> /\ Head(collected).kind \in Questions
      BY <2>2 DEF AnswerJoined, AnswerDisconnected, CollectorTakes, Questions
    <3>2. collected \in Seq(Items) /\ QuestionsInv
      BY DEF RecordingInv, RecordingTypeOK
    <3>3. 1 \in 1..Len(collected) /\ collected[1].kind \in Questions
      BY <3>1, <3>2, Taken
    <3>4. mainPc \in Questions
      BY <3>2, <3>3 DEF QuestionsInv
    <3> QED
      BY <3>4 DEF Questions
  <2> QED
    BY <1>4, <2>1, <2>2 DEF CollectorThread
<1>5. CASE Main
  BY <1>5 DEF Main, WaitForJoined, WaitForDisconnected, Await, Leave, DestroyClient, CloseClient,
              DestroyCollector, noticeVars
<1>6. CASE Terminated
  BY <1>6 DEF Terminated, vars, recordingVars, noticeVars
<1> QED
  BY <1>2, <1>3, <1>4, <1>5, <1>6, <1>7, <1>8 DEF Next

\* Steps that leave everything alone the invariant speaks of.
LEMMA QuietStep ==
  ASSUME RecordingInv, Dropped => Dropped',
         UNCHANGED <<tasks, collected, pulled, shown, heard, audioFile, segment, videoFiles,
                     clientPc, link, disconnectNotified>>,
         \/ mainPc' = mainPc
         \/ /\ mainPc \notin Questions \cup {"stopping", "exited", "killing", "closing"}
            /\ mainPc' \notin {"stopping", "exited"}
  PROVE  RecordingInv'
<1>1. TasksInv' /\ AudioInv' /\ VideoInv'
  BY UnchangedInv
<1>2. RecordingTypeOK'
  BY DEF RecordingInv, RecordingTypeOK
<1>3. StatusInv'
  BY StatusInvKept DEF RecordingInv
<1>4. QuestionsInv'
  BY QuestionsInvKept DEF RecordingInv
<1>5. EndInv'
  BY DEF RecordingInv, EndInv
<1> QED
  BY <1>1, <1>2, <1>3, <1>4, <1>5 DEF RecordingInv

LEMMA ProcessPlayDataKeeps ==
  ASSUME RecordingInv, ProcessPlayData, Dropped => Dropped'
  PROVE  RecordingInv'
<1>1. UNCHANGED <<shown, heard, link, clientPc, collected, audioFile, videoFiles, segment,
                  disconnectNotified, mainPc>>
  BY DEF ProcessPlayData, fileVars, noticeVars
<1>2. CASE UNCHANGED <<pulled, tasks>>
  BY <1>1, <1>2, QuietStep
<1>3. CASE OnData
  <2> DEFINE e == [kind |-> "audio", number |-> pulled + 1]
  <2>1. pulled \in Nat /\ tasks \in Seq(TaskItems)
    BY DEF RecordingInv, RecordingTypeOK
  <2>2. e \in TaskItems
    BY <2>1 DEF TaskItems, AudioItems
  <2>3. tasks' = Append(tasks, e) /\ pulled' = pulled + 1 /\ link = "open"
    BY <1>3 DEF OnData
  <2>4. TasksInv'
    <3>1. e.number = pulled + 1
      OBVIOUS
    <3> HIDE DEF e
    <3> QED
      BY <1>1, <2>1, <2>2, <2>3, <3>1, TasksInvAppend DEF RecordingInv
  <2>5. AudioInv' /\ VideoInv'
    BY <1>1, UnchangedInv
  <2>6. StatusInv' /\ QuestionsInv'
    BY <1>1, StatusInvKept, QuestionsInvKept DEF RecordingInv
  <2>7. EndInv'
    <3>1. \A i \in 1..Len(tasks') : tasks'[i].kind = "kill" => i \in 1..Len(tasks) /\ tasks'[i] = tasks[i]
      BY <2>1, <2>2, <2>3, Appended
    <3> QED
      BY <1>1, <2>3, <3>1 DEF RecordingInv, EndInv
  <2>8. RecordingTypeOK'
    BY <1>1, <2>1, <2>2, <2>3, Appended DEF RecordingInv, RecordingTypeOK
  <2> QED
    BY <2>4, <2>5, <2>6, <2>7, <2>8 DEF RecordingInv
<1> QED
  BY <1>2, <1>3 DEF ProcessPlayData

LEMMA EndSessionKeeps ==
  ASSUME RecordingInv, NEW s \in Statuses, EndSession(s), Dropped => Dropped'
  PROVE  RecordingInv'
<1> DEFINE e == [kind |-> "disconnect", status |-> s]
<1>1. UNCHANGED <<shown, heard, pulled, link, clientPc, collected, audioFile, videoFiles, segment,
                  disconnectNotified, mainPc>>
  BY DEF EndSession, trackVars, fileVars, noticeVars
<1>2. tasks' = Append(tasks, e) /\ link = "open"
  BY DEF EndSession
<1>3. pulled \in Nat /\ tasks \in Seq(TaskItems)
  BY DEF RecordingInv, RecordingTypeOK
<1>4. e \in TaskItems /\ e.kind = "disconnect"
  BY DEF TaskItems
<1> HIDE DEF e
<1>5. TasksInv'
  BY <1>1, <1>2, <1>3, <1>4, TasksInvAppend DEF RecordingInv
<1>6. AudioInv' /\ VideoInv'
  BY <1>1, UnchangedInv
<1>7. StatusInv' /\ QuestionsInv'
  BY <1>1, StatusInvKept, QuestionsInvKept DEF RecordingInv
<1>8. EndInv'
  <2>1. \A i \in 1..Len(tasks') : tasks'[i].kind = "kill" => i \in 1..Len(tasks) /\ tasks'[i] = tasks[i]
    BY <1>2, <1>3, <1>4, Appended
  <2> QED
    BY <1>1, <1>2, <2>1 DEF RecordingInv, EndInv
<1>9. RecordingTypeOK'
  BY <1>1, <1>2, <1>3, <1>4, Appended DEF RecordingInv, RecordingTypeOK
<1> QED
  BY <1>5, <1>6, <1>7, <1>8, <1>9 DEF RecordingInv

LEMMA OnVideoFrameKeeps ==
  ASSUME RecordingInv, OnVideoFrame, Dropped => Dropped'
  PROVE  RecordingInv'
<1> DEFINE n == shown + 1
           e == [kind |-> "video", number |-> n, size |-> Video[n]]
<1>1. UNCHANGED <<tasks, heard, pulled, link, clientPc, audioFile, videoFiles, segment,
                  disconnectNotified, mainPc>>
  BY DEF OnVideoFrame, clientVars, fileVars, noticeVars
<1>2. /\ collected' = Append(collected, e) /\ shown' = n /\ shown < Len(Video) /\ link = "open"
  BY DEF OnVideoFrame
<1>3. /\ shown \in Nat /\ collected \in Seq(Items) /\ VideoInv
      /\ segment \in FileNames \cup {NoSegment}
      /\ videoFiles \in [FileNames -> Seq(Nat)]
  BY DEF RecordingInv, RecordingTypeOK
<1>4. n \in Nat /\ n \in 1..Len(Video) /\ Len(Video) \in Nat /\ Video[n] \in Range(Video)
  <2>1. Len(Video) \in Nat /\ Video \in Seq(Range(Video))
    BY RecordingBoundsAssumption, LenProperties
  <2>2. n \in 1..Len(Video)
    BY <1>2, <1>3, <2>1
  <2> QED
    BY <2>1, <2>2, ElementOfSeq
<1>5. e \in Items /\ e.kind = "video" /\ e.number = n /\ e.size = Video[n]
  BY <1>4 DEF Items, VideoItems
<1> HIDE DEF e
<1>6. TasksInv' /\ EndInv'
  BY <1>1, UnchangedInv
<1>7. AudioInv'
  BY <1>1, <1>2, <1>5, AudioInvAppend DEF RecordingInv
<1>8. StatusInv'
  BY <1>1, <1>2, <1>5, StatusInvKept DEF RecordingInv
<1>9. QuestionsInv'
  BY <1>1, <1>2, <1>5, QuestionsInvKept DEF RecordingInv, Questions
<1>10. RecordingTypeOK'
  BY <1>1, <1>2, <1>3, <1>4, <1>5, Appended DEF RecordingInv, RecordingTypeOK
<1>11. VideoInv'
  <2>1. /\ Len(collected) \in Nat /\ Len(collected') = Len(collected) + 1
        /\ \A i \in 1..Len(collected) : collected'[i] = collected[i]
        /\ collected'[Len(collected) + 1] = e
    BY <1>2, <1>3, <1>5, Appended
  <2>2. \A i \in 1..Len(collected') : i \in 1..Len(collected) \/ i = Len(collected) + 1
    BY <2>1
  <2>3. Ascending(collected', "video")
    <3>1. \A i \in 1..Len(collected) : collected[i].kind = "video" => collected[i].number < n
      BY <1>3, <1>4 DEF VideoInv
    <3>2. Ascending(collected, "video")
      BY <1>3 DEF VideoInv
    <3> QED
      BY <1>2, <1>3, <1>5, <3>1, <3>2, AscendingKept
  <2>4. ASSUME NEW i \in 1..Len(collected'), collected'[i].kind = "video"
        PROVE  /\ collected'[i].number \in 1..shown'
               /\ collected'[i].size = Video[collected'[i].number]
               /\ segment' # NoSegment => collected'[i].number > segment'.number + 1
    <3>1. CASE i \in 1..Len(collected)
      <4>1. /\ collected[i].number \in 1..shown
            /\ collected[i].size = Video[collected[i].number]
            /\ segment # NoSegment => collected[i].number > segment.number + 1
        BY <1>3, <2>1, <2>4, <3>1 DEF VideoInv
      <4> QED
        BY <1>1, <1>2, <1>3, <2>1, <3>1, <4>1
    <3>2. CASE i = Len(collected) + 1
      <4>1. segment # NoSegment => n > segment.number + 1
        BY <1>3, <1>4 DEF VideoInv, FileNames
      <4> QED
        BY <1>1, <1>2, <1>4, <1>5, <2>1, <3>2, <4>1
    <3> QED
      BY <2>2, <3>1, <3>2
  <2>5. ASSUME NEW f \in FileNames, NEW k \in 1..Len(videoFiles[f])
        PROVE  videoFiles'[f][k] <= shown' /\ Above(collected', "video", videoFiles'[f][k])
    <3>1. videoFiles[f][k] <= shown /\ Above(collected, "video", videoFiles[f][k])
      BY <1>3 DEF VideoInv
    <3>2. videoFiles[f][k] \in Nat
      BY <1>3, ElementOfSeq
    <3>3. videoFiles[f][k] < n
      BY <1>3, <3>1, <3>2
    <3> QED
      BY <1>1, <1>2, <1>3, <1>5, <3>1, <3>2, <3>3, AboveKept
  <2>6. ~Dropped' => \A m \in 1..shown' :
          \/ Waits(collected', "video", m)
          \/ \E f \in FileNames : f.size = Video[m] /\ Holds(videoFiles'[f], m)
    <3>1. Waits(collected', "video", n)
      BY <1>2, <1>3, <1>5, WaitsKept
    <3>2. \A m : Waits(collected, "video", m) => Waits(collected', "video", m)
      BY <1>2, <1>3, <1>5, WaitsKept
    <3>3. \A m \in 1..shown' : m \in 1..shown \/ m = n
      BY <1>2, <1>3
    <3> QED
      BY <1>1, <1>3, <3>1, <3>2, <3>3 DEF VideoInv
  <2>7. shown' <= Len(Video) /\ (segment' # NoSegment => segment'.number < shown')
    <3>1. segment # NoSegment => segment.number < shown /\ segment.number \in Nat
      BY <1>3 DEF VideoInv, FileNames
    <3> QED
      BY <1>1, <1>2, <1>3, <1>4, <3>1
  <2>8. \A f \in FileNames :
          segment' = NoSegment \/ f.number > segment'.number => videoFiles'[f] = <<>>
    BY <1>1, <1>3 DEF VideoInv
  <2> QED
    BY <1>1, <2>3, <2>4, <2>5, <2>6, <2>7, <2>8 DEF VideoInv
<1> QED
  BY <1>6, <1>7, <1>8, <1>9, <1>10, <1>11 DEF RecordingInv

\* What the two threads take.
LEMMA TakenTask ==
  ASSUME RecordingInv, NEW kind, ClientTakes(kind)
  PROVE  /\ tasks \in Seq(TaskItems) /\ tasks # <<>>
         /\ tasks' = Tail(tasks) /\ tasks' \in Seq(TaskItems)
         /\ clientPc = "idle"
         /\ Head(tasks) \in TaskItems /\ Head(tasks).kind = kind
         /\ 1 \in 1..Len(tasks) /\ Head(tasks) = tasks[1]
         /\ \A i \in 1..Len(tasks') : i + 1 \in 1..Len(tasks) /\ tasks'[i] = tasks[i + 1]
<1>1. tasks \in Seq(TaskItems) /\ tasks # <<>> /\ tasks' = Tail(tasks) /\ clientPc = "idle"
      /\ Head(tasks).kind = kind
  BY DEF RecordingInv, RecordingTypeOK, ClientTakes
<1> QED
  BY <1>1, Taken

LEMMA TakenItem ==
  ASSUME RecordingInv, NEW kind, CollectorTakes(kind)
  PROVE  /\ collected \in Seq(Items) /\ collected # <<>>
         /\ collected' = Tail(collected) /\ collected' \in Seq(Items)
         /\ Head(collected) \in Items /\ Head(collected).kind = kind
         /\ 1 \in 1..Len(collected) /\ Head(collected) = collected[1]
         /\ \A i \in 1..Len(collected') : i + 1 \in 1..Len(collected) /\ collected'[i] = collected[i + 1]
         /\ \A i \in 1..Len(collected') : i \in Nat /\ i + 1 > 1
<1>1. collected \in Seq(Items) /\ collected # <<>> /\ collected' = Tail(collected)
      /\ Head(collected).kind = kind
  BY DEF RecordingInv, RecordingTypeOK, CollectorTakes
<1>2. Len(collected') \in Nat
  BY <1>1, Taken, LenProperties
<1> QED
  BY <1>1, <1>2, Taken

LEMMA RunAudioKeeps ==
  ASSUME RecordingInv, RunAudio, Dropped => Dropped'
  PROVE  RecordingInv'
<1> DEFINE e == Head(tasks)
<1>1. UNCHANGED <<shown, pulled, link, clientPc, audioFile, videoFiles, segment,
                  disconnectNotified, mainPc>>
  BY DEF RunAudio, fileVars, noticeVars
<1>2. /\ tasks \in Seq(TaskItems) /\ tasks # <<>>
      /\ tasks' = Tail(tasks) /\ tasks' \in Seq(TaskItems)
      /\ clientPc = "idle"
      /\ e \in TaskItems /\ e.kind = "audio"
      /\ 1 \in 1..Len(tasks) /\ e = tasks[1]
      /\ \A i \in 1..Len(tasks') : i + 1 \in 1..Len(tasks) /\ tasks'[i] = tasks[i + 1]
  BY TakenTask DEF RunAudio
<1>3. e \in Items /\ e.number \in Nat
  BY <1>2 DEF TaskItems, Items, AudioItems
<1>4. /\ RecordingTypeOK /\ TasksInv /\ AudioInv /\ VideoInv /\ StatusInv /\ QuestionsInv /\ EndInv
      /\ collected \in Seq(Items) /\ heard \in Seq(Nat) /\ audioFile \in Seq(Nat) /\ pulled \in Nat
  BY DEF RecordingInv, RecordingTypeOK
<1>5. \/ UNCHANGED <<heard, collected>>
      \/ /\ link = "open" /\ heard' = Append(heard, e.number) /\ collected' = Append(collected, e)
  BY DEF RunAudio
<1> HIDE DEF e
<1>6. EndInv'
  BY <1>1, <1>2, <1>4 DEF EndInv
<1>7. RecordingTypeOK'
  <2>1. Append(heard, e.number) \in Seq(Nat)
    BY <1>3, <1>4, Appended
  <2>2. Append(collected, e) \in Seq(Items)
    BY <1>3, <1>4, Appended
  <2> QED
    BY <1>1, <1>2, <1>4, <1>5, <2>1, <2>2 DEF RecordingTypeOK
<1>8. VideoInv' /\ StatusInv' /\ QuestionsInv'
  <2>1. CASE UNCHANGED collected
    BY <1>1, <1>4, <2>1, UnchangedInv, StatusInvKept, QuestionsInvKept
  <2>2. CASE link = "open" /\ collected' = Append(collected, e)
    <3>1. VideoInv'
      BY <1>1, <1>2, <1>3, <1>4, <2>2, VideoInvAppend
    <3>2. StatusInv'
      BY <1>1, <1>2, <1>3, <1>4, <2>2, StatusInvKept
    <3>3. QuestionsInv'
      BY <1>1, <1>2, <1>3, <1>4, <2>2, QuestionsInvKept DEF Questions
    <3> QED
      BY <3>1, <3>2, <3>3
  <2> QED
    BY <1>5, <2>1, <2>2
<1>9. TasksInv' /\ AudioInv'
  <2>1. CASE UNCHANGED <<heard, collected>>
    <3>1. TasksInv'
      BY <1>1, <1>2, <1>4, <2>1, TasksInvTail
    <3>2. AudioInv'
      BY <1>1, <2>1, UnchangedInv
    <3> QED
      BY <3>1, <3>2
  <2>2. CASE heard' = Append(heard, e.number) /\ collected' = Append(collected, e)
    <3>1. /\ Len(heard) \in Nat /\ Len(heard') = Len(heard) + 1
          /\ \A k \in 1..Len(heard) : heard'[k] = heard[k]
          /\ heard'[Len(heard) + 1] = e.number
      BY <1>3, <1>4, <2>2, Appended
    <3>2. /\ \A k \in 1..Len(heard') : k \in 1..Len(heard) \/ k = Len(heard) + 1
          /\ \A k \in 1..Len(heard) : k \in 1..Len(heard')
          /\ Len(heard) + 1 \in 1..Len(heard')
      BY <3>1
    <3>3. /\ Len(collected) \in Nat /\ Len(collected') = Len(collected) + 1
          /\ \A i \in 1..Len(collected) : collected'[i] = collected[i]
          /\ collected'[Len(collected) + 1] = e
      BY <1>3, <1>4, <2>2, Appended
    <3>4. \A i \in 1..Len(collected') : i \in 1..Len(collected) \/ i = Len(collected) + 1
      BY <3>3
    <3>5. /\ Ascending(tasks, "audio") /\ Increasing(heard)
          /\ \A k \in 1..Len(heard) : heard[k] < e.number
      BY <1>2, <1>4 DEF TasksInv, Above
    <3>6. TasksInv'
      <4>1. Ascending(tasks', "audio")
        BY <1>2, <3>5, AscendingKept
      <4>2. \A i \in 1..Len(tasks') : tasks'[i].kind = "audio" => tasks'[i].number <= pulled'
        BY <1>1, <1>2, <1>4 DEF TasksInv
      <4>3. Increasing(heard')
        BY <1>3, <1>4, <2>2, <3>5, IncreasingAppend
      <4>4. ASSUME NEW k \in 1..Len(heard')
            PROVE  heard'[k] <= pulled' /\ Above(tasks', "audio", heard'[k])
        <5>1. CASE k \in 1..Len(heard)
          <6>1. heard[k] <= pulled /\ Above(tasks, "audio", heard[k])
            BY <1>4, <5>1 DEF TasksInv
          <6> QED
            BY <1>1, <1>2, <3>1, <5>1, <6>1, AboveKept
        <5>2. CASE k = Len(heard) + 1
          <6>1. e.number <= pulled
            BY <1>2, <1>4 DEF TasksInv
          <6>2. Above(tasks', "audio", e.number)
            BY <1>2, <3>5, HeadBelow DEF e
          <6> QED
            BY <1>1, <3>1, <5>2, <6>1, <6>2
        <5> QED
          BY <3>2, <5>1, <5>2
      <4> QED
        BY <4>1, <4>2, <4>3, <4>4 DEF TasksInv
    <3>7. AudioInv'
      <4>1. Ascending(collected', "audio")
        <5>1. \A i \in 1..Len(collected) : collected[i].kind = "audio" => collected[i].number < e.number
          BY <1>4, <3>5 DEF AudioInv
        <5> QED
          BY <1>3, <1>4, <2>2, <5>1, AscendingKept DEF AudioInv
      <4>2. \A k \in 1..Len(audioFile') : Above(collected', "audio", audioFile'[k])
        <5>1. \A k \in 1..Len(audioFile) : audioFile[k] < e.number
          BY <1>4, <3>5 DEF AudioInv, Within
        <5>2. \A k \in 1..Len(audioFile) : Above(collected, "audio", audioFile[k])
          BY <1>4 DEF AudioInv
        <5> QED
          BY <1>1, <1>3, <1>4, <2>2, <5>1, <5>2, AboveKept
      <4>3. Increasing(audioFile')
        BY <1>1, <1>4 DEF AudioInv
      <4>4. Within(audioFile', heard')
        <5>1. Within(audioFile, heard)
          BY <1>4 DEF AudioInv
        <5> QED
          BY <1>1, <3>1, <3>2, <5>1 DEF Within
      <4>5. ASSUME NEW i \in 1..Len(collected'), collected'[i].kind = "audio"
            PROVE  \E h \in 1..Len(heard') : heard'[h] = collected'[i].number
        <5>1. CASE i \in 1..Len(collected)
          <6>1. PICK h \in 1..Len(heard) : heard[h] = collected[i].number
            BY <1>4, <3>3, <4>5, <5>1 DEF AudioInv
          <6> QED
            BY <3>1, <3>2, <3>3, <5>1, <6>1
        <5>2. CASE i = Len(collected) + 1
          BY <3>1, <3>2, <3>3, <5>2
        <5> QED
          BY <3>4, <5>1, <5>2
      <4>6. ASSUME ~Dropped', NEW h \in 1..Len(heard')
            PROVE  \/ \E k \in 1..Len(audioFile') : audioFile'[k] = heard'[h]
                   \/ Waits(collected', "audio", heard'[h])
        <5>1. CASE h \in 1..Len(heard)
          <6>1. \/ \E k \in 1..Len(audioFile) : audioFile[k] = heard[h]
                \/ Waits(collected, "audio", heard[h])
            BY <1>4, <4>6, <5>1 DEF AudioInv
          <6> QED
            BY <1>1, <1>3, <1>4, <2>2, <3>1, <5>1, <6>1, WaitsKept
        <5>2. CASE h = Len(heard) + 1
          BY <1>2, <1>3, <1>4, <2>2, <3>1, <5>2, WaitsKept
        <5> QED
          BY <3>2, <5>1, <5>2
      <4> QED
        BY <4>1, <4>2, <4>3, <4>4, <4>5, <4>6 DEF AudioInv
    <3> QED
      BY <3>6, <3>7
  <2> QED
    BY <1>5, <2>1, <2>2
<1> QED
  BY <1>6, <1>7, <1>8, <1>9 DEF RecordingInv

LEMMA RunDisconnectKeeps ==
  ASSUME RecordingInv, RunDisconnect, Dropped => Dropped'
  PROVE  RecordingInv'
<1>1. UNCHANGED <<shown, pulled, heard, audioFile, videoFiles, segment, disconnectNotified, mainPc>>
  BY DEF RunDisconnect, trackVars, fileVars, noticeVars
<1>2. /\ tasks \in Seq(TaskItems) /\ tasks # <<>>
      /\ tasks' = Tail(tasks) /\ tasks' \in Seq(TaskItems)
      /\ clientPc = "idle"
      /\ Head(tasks) \in TaskItems /\ Head(tasks).kind = "disconnect"
      /\ \A i \in 1..Len(tasks') : i + 1 \in 1..Len(tasks) /\ tasks'[i] = tasks[i + 1]
  BY TakenTask DEF RunDisconnect
<1>3. /\ RecordingTypeOK /\ TasksInv /\ AudioInv /\ VideoInv /\ StatusInv /\ QuestionsInv /\ EndInv
      /\ collected \in Seq(Items)
  BY DEF RecordingInv, RecordingTypeOK
<1>4. TasksInv'
  BY <1>1, <1>2, <1>3, TasksInvTail
<1>5. CASE UNCHANGED <<link, collected, clientPc>>
  <2>1. AudioInv' /\ VideoInv'
    BY <1>1, <1>5, UnchangedInv
  <2>2. StatusInv' /\ QuestionsInv'
    BY <1>1, <1>3, <1>5, StatusInvKept, QuestionsInvKept
  <2>3. EndInv'
    BY <1>1, <1>2, <1>3, <1>5 DEF EndInv
  <2>4. RecordingTypeOK'
    BY <1>1, <1>2, <1>3, <1>5 DEF RecordingTypeOK
  <2> QED
    BY <1>4, <2>1, <2>2, <2>3, <2>4 DEF RecordingInv
<1>6. CASE ~UNCHANGED <<link, collected, clientPc>>
  <2> DEFINE e == [kind |-> "status", status |-> Head(tasks).status]
  <2>1. /\ mainPc \notin {"closing", "stopping", "exited"}
        /\ link' = "closed" /\ clientPc' = "blocked" /\ collected' = Append(collected, e)
    BY <1>6 DEF RunDisconnect, Alive
  <2>2. e \in Items /\ e.kind = "status"
    BY <1>2 DEF TaskItems, AudioItems, Items
  <2> HIDE DEF e
  <2>3. AudioInv' /\ VideoInv'
    BY <1>1, <1>3, <2>1, <2>2, AudioInvAppend, VideoInvAppend
  <2>4. QuestionsInv'
    BY <1>1, <1>3, <2>1, <2>2, QuestionsInvKept DEF Questions
  <2>5. EndInv'
    BY <1>1, <1>2, <1>3, <2>1 DEF EndInv
  <2>6. RecordingTypeOK'
    BY <1>1, <1>2, <1>3, <2>1, <2>2, Appended DEF RecordingTypeOK
  <2>7. StatusInv'
    <3>1. /\ Len(collected) \in Nat /\ Len(collected') = Len(collected) + 1
          /\ \A i \in 1..Len(collected) : collected'[i] = collected[i]
          /\ collected'[Len(collected) + 1] = e
      BY <1>3, <2>1, <2>2, Appended
    <3>2. \A i \in 1..Len(collected') : i \in 1..Len(collected) \/ i = Len(collected) + 1
      BY <3>1
    <3>3. \A i \in 1..Len(collected) : collected[i].kind # "status"
      BY <1>2, <1>3 DEF StatusInv
    <3>4. disconnectNotified => \A i \in 1..Len(collected) : collected[i].kind \notin {"audio", "video"}
      BY <1>3 DEF StatusInv
    <3>5. \A i \in 1..Len(collected'), j \in 1..Len(collected') :
            collected'[i].kind = "status" => ~(j > i)
      BY <3>1, <3>2, <3>3
    <3> QED
      BY <1>1, <2>1, <2>2, <3>1, <3>2, <3>4, <3>5 DEF StatusInv
  <2> QED
    BY <1>4, <2>3, <2>4, <2>5, <2>6, <2>7 DEF RecordingInv
<1> QED
  BY <1>5, <1>6

LEMMA NotifyDisconnectedKeeps ==
  ASSUME RecordingInv, NotifyDisconnected, Dropped => Dropped'
  PROVE  RecordingInv'
<1>1. UNCHANGED <<tasks, collected, pulled, shown, heard, audioFile, segment, videoFiles,
                  link, mainPc>>
  BY DEF NotifyDisconnected, trackVars, fileVars
<1>2. clientPc = "notify" /\ clientPc' = "idle" /\ disconnectNotified' = TRUE
  BY DEF NotifyDisconnected
<1>3. /\ RecordingTypeOK /\ StatusInv /\ QuestionsInv /\ EndInv
  BY DEF RecordingInv
<1>4. TasksInv' /\ AudioInv' /\ VideoInv'
  BY <1>1, UnchangedInv
<1>5. RecordingTypeOK'
  BY <1>1, <1>3 DEF RecordingTypeOK
<1>6. StatusInv'
  BY <1>1, <1>2, <1>3 DEF StatusInv
<1>7. QuestionsInv'
  BY <1>1, <1>3, QuestionsInvKept
<1>8. EndInv'
  BY <1>1, <1>2, <1>3 DEF EndInv
<1> QED
  BY <1>4, <1>5, <1>6, <1>7, <1>8 DEF RecordingInv

LEMMA RunKillKeeps ==
  ASSUME RecordingInv, RunKill, Dropped => Dropped'
  PROVE  RecordingInv'
<1>1. UNCHANGED <<collected, pulled, shown, heard, audioFile, segment, videoFiles,
                  clientPc, link, disconnectNotified>>
  BY DEF RunKill, trackVars, fileVars, noticeVars
<1>2. /\ tasks \in Seq(TaskItems) /\ tasks # <<>>
      /\ tasks' = Tail(tasks) /\ tasks' \in Seq(TaskItems)
      /\ Head(tasks).kind = "kill" /\ 1 \in 1..Len(tasks) /\ Head(tasks) = tasks[1]
      /\ mainPc' = "closing"
  BY TakenTask DEF RunKill
<1>3. /\ RecordingTypeOK /\ TasksInv /\ StatusInv /\ QuestionsInv /\ EndInv
  BY DEF RecordingInv
<1>4. mainPc \in {"killing", "closing"}
  BY <1>2, <1>3 DEF EndInv
<1>5. TasksInv'
  BY <1>1, <1>2, <1>3, TasksInvTail
<1>6. AudioInv' /\ VideoInv'
  BY <1>1, UnchangedInv
<1>7. StatusInv'
  BY <1>1, <1>3, StatusInvKept
<1>8. QuestionsInv'
  BY <1>1, <1>3, <1>4, QuestionsInvKept DEF Questions
<1>9. EndInv'
  BY <1>2 DEF EndInv
<1>10. RecordingTypeOK'
  BY <1>1, <1>2, <1>3 DEF RecordingTypeOK
<1> QED
  BY <1>5, <1>6, <1>7, <1>8, <1>9, <1>10 DEF RecordingInv

LEMMA HandleAudioBufferKeeps ==
  ASSUME RecordingInv, HandleAudioBuffer, Dropped => Dropped'
  PROVE  RecordingInv'
<1> DEFINE n == Head(collected).number
<1>1. UNCHANGED <<tasks, pulled, shown, heard, videoFiles, segment, clientPc, link,
                  disconnectNotified, mainPc>>
  BY DEF HandleAudioBuffer, trackVars, clientVars, noticeVars
<1>2. /\ collected \in Seq(Items) /\ collected # <<>>
      /\ collected' = Tail(collected) /\ collected' \in Seq(Items)
      /\ Head(collected) \in Items /\ Head(collected).kind = "audio"
      /\ 1 \in 1..Len(collected) /\ Head(collected) = collected[1]
      /\ \A i \in 1..Len(collected') : i + 1 \in 1..Len(collected) /\ collected'[i] = collected[i + 1]
  BY TakenItem DEF HandleAudioBuffer
<1>3. n \in Nat
  BY <1>2 DEF Items, AudioItems, VideoItems, Questions
<1>4. audioFile' = Append(audioFile, n)
  BY DEF HandleAudioBuffer
<1>5. /\ RecordingTypeOK /\ AudioInv /\ VideoInv /\ StatusInv /\ QuestionsInv
      /\ audioFile \in Seq(Nat)
  BY DEF RecordingInv, RecordingTypeOK
<1> HIDE DEF n
<1>6. TasksInv' /\ EndInv'
  BY <1>1, UnchangedInv
<1>7. VideoInv'
  BY <1>1, <1>2, <1>5, VideoInvTail
<1>8. StatusInv' /\ QuestionsInv'
  BY <1>1, <1>2, <1>5, StatusInvKept, QuestionsInvKept
<1>9. RecordingTypeOK'
  <2>1. audioFile' \in Seq(Nat)
    BY <1>3, <1>4, <1>5, Appended
  <2> QED
    BY <1>1, <1>2, <1>5, <2>1 DEF RecordingTypeOK
<1>10. AudioInv'
  <2>1. /\ Len(audioFile) \in Nat /\ Len(audioFile') = Len(audioFile) + 1
        /\ \A k \in 1..Len(audioFile) : audioFile'[k] = audioFile[k]
        /\ audioFile'[Len(audioFile) + 1] = n
    BY <1>3, <1>4, <1>5, Appended
  <2>2. /\ \A k \in 1..Len(audioFile') : k \in 1..Len(audioFile) \/ k = Len(audioFile) + 1
        /\ \A k \in 1..Len(audioFile) : k \in 1..Len(audioFile')
        /\ Len(audioFile) + 1 \in 1..Len(audioFile')
    BY <2>1
  <2>3. /\ Ascending(collected, "audio") /\ Increasing(audioFile)
        /\ \A k \in 1..Len(audioFile) : Above(collected, "audio", audioFile[k])
    BY <1>5 DEF AudioInv
  <2>4. Ascending(collected', "audio")
    BY <1>2, <2>3, AscendingKept
  <2>5. Increasing(audioFile')
    <3>1. \A k \in 1..Len(audioFile) : audioFile[k] < n
      BY <1>2, <2>3 DEF Above, n
    <3> QED
      BY <1>3, <1>4, <1>5, <2>3, <3>1, IncreasingAppend
  <2>6. \A k \in 1..Len(audioFile') : Above(collected', "audio", audioFile'[k])
    <3>1. Above(collected', "audio", n)
      BY <1>2, <2>3, HeadBelow DEF n
    <3>2. \A k \in 1..Len(audioFile) : Above(collected', "audio", audioFile[k])
      BY <1>2, <2>3, AboveKept
    <3> QED
      BY <2>1, <2>2, <3>1, <3>2
  <2>7. Within(audioFile', heard')
    <3>1. Within(audioFile, heard)
      BY <1>5 DEF AudioInv
    <3>2. \E h \in 1..Len(heard) : heard[h] = n
      BY <1>2, <1>5 DEF AudioInv, n
    <3> QED
      BY <1>1, <2>1, <2>2, <3>1, <3>2 DEF Within
  <2>8. \A i \in 1..Len(collected') :
          collected'[i].kind = "audio" => \E h \in 1..Len(heard') : heard'[h] = collected'[i].number
    BY <1>1, <1>2, <1>5 DEF AudioInv
  <2>9. ASSUME ~Dropped', NEW h \in 1..Len(heard')
        PROVE  \/ \E k \in 1..Len(audioFile') : audioFile'[k] = heard'[h]
               \/ Waits(collected', "audio", heard'[h])
    <3>1. \/ \E k \in 1..Len(audioFile) : audioFile[k] = heard[h]
          \/ Waits(collected, "audio", heard[h])
      BY <1>1, <1>5, <2>9 DEF AudioInv
    <3>2. Waits(collected, "audio", heard[h]) => Waits(collected', "audio", heard[h]) \/ n = heard[h]
      BY <1>2, WaitsKept DEF n
    <3> QED
      BY <1>1, <2>1, <2>2, <3>1, <3>2
  <2> QED
    BY <2>4, <2>5, <2>6, <2>7, <2>8, <2>9 DEF AudioInv
<1> QED
  BY <1>6, <1>7, <1>8, <1>9, <1>10 DEF RecordingInv

\* No segment truncates the file of an earlier one: the file of a new segment is
\* empty, and has a name.
LEMMA NoTruncation ==
  ASSUME RecordingInv, HandleVideoBuffer
  PROVE  LET n == Head(collected).number
             next == SegmentFor(Video[n])
         IN  /\ n \in 1..shown
             /\ next \in FileNames /\ next.size = Video[n]
             /\ next.number < n
             /\ segment # NoSegment => segment.number <= next.number
             /\ segment # NoSegment => n > segment.number + 1
             /\ segment' = next
             /\ videoFiles' = [videoFiles EXCEPT ![next] = Append(videoFiles[next], n)]
             /\ \A f \in FileNames : f.number > next.number => f # next /\ videoFiles[f] = <<>>
<1> DEFINE n == Head(collected).number
           next == SegmentFor(Video[n])
<1>1. /\ Head(collected).kind = "video"
      /\ 1 \in 1..Len(collected) /\ Head(collected) = collected[1]
  BY TakenItem DEF HandleVideoBuffer
<1>2. /\ VideoInv /\ segment \in FileNames \cup {NoSegment} /\ shown \in Nat
  BY DEF RecordingInv, RecordingTypeOK
<1>3. /\ n \in 1..shown /\ Head(collected).size = Video[n] /\ shown <= Len(Video)
      /\ segment # NoSegment => n > segment.number + 1
  BY <1>1, <1>2 DEF VideoInv
<1>4. Len(Video) \in Nat /\ Video \in Seq(Range(Video))
  BY RecordingBoundsAssumption, LenProperties
<1>5. n \in Nat /\ n >= 1 /\ n <= Len(Video) /\ n \in 1..Len(Video)
  BY <1>2, <1>3, <1>4
<1>6. Video[n] \in Range(Video) /\ Video[n] # "none"
  BY <1>4, <1>5, ElementOfSeq, SizesAssumption
<1>7. segment # NoSegment => segment \in FileNames /\ segment.number \in Nat
  BY <1>2 DEF FileNames
<1>8. \A f \in FileNames : f.number \in Nat
  BY DEF FileNames
<1>9. /\ segment' = next
      /\ videoFiles' = [videoFiles EXCEPT ![next] =
                          Append(IF next = segment THEN videoFiles[next] ELSE <<>>, n)]
  BY <1>3 DEF HandleVideoBuffer
<1>10. /\ next \in FileNames /\ next.size = Video[n] /\ next.number < n
       /\ segment # NoSegment => segment.number <= next.number
       /\ next # segment => segment = NoSegment \/ next.number > segment.number
  <2>1. CASE segment.size = Video[n]
    <3>1. segment # NoSegment
      BY <1>6, <2>1 DEF NoSegment
    <3>2. next = segment
      BY <2>1 DEF SegmentFor
    <3> QED
      BY <1>3, <1>5, <1>7, <2>1, <3>1, <3>2
  <2>2. CASE segment.size # Video[n] /\ segment = NoSegment
    <3>1. next = [number |-> 0, size |-> Video[n]]
      BY <2>2 DEF SegmentFor
    <3> QED
      BY <1>4, <1>5, <1>6, <2>2, <3>1 DEF FileNames
  <2>3. CASE segment.size # Video[n] /\ segment # NoSegment
    <3>1. next = [number |-> segment.number + 1, size |-> Video[n]]
      BY <2>3 DEF SegmentFor
    <3>2. segment.number + 1 \in 0..Len(Video) /\ segment.number + 1 < n
      BY <1>3, <1>4, <1>5, <1>7, <2>3
    <3> QED
      BY <1>6, <1>7, <2>3, <3>1, <3>2 DEF FileNames
  <2> QED
    BY <2>1, <2>2, <2>3
<1> HIDE DEF next, n
<1>11. next # segment => videoFiles[next] = <<>>
  BY <1>2, <1>10 DEF VideoInv
<1>12. ASSUME NEW f \in FileNames, f.number > next.number
       PROVE  f # next /\ videoFiles[f] = <<>>
  <2>1. segment = NoSegment \/ f.number > segment.number
    BY <1>7, <1>8, <1>10, <1>12
  <2> QED
    BY <1>2, <1>8, <1>10, <1>12, <2>1 DEF VideoInv
<1> QED
  BY <1>3, <1>9, <1>10, <1>11, <1>12 DEF next, n

LEMMA HandleVideoBufferKeeps ==
  ASSUME RecordingInv, HandleVideoBuffer, Dropped => Dropped'
  PROVE  RecordingInv'
<1> DEFINE n == Head(collected).number
           next == SegmentFor(Video[n])
<1>1. UNCHANGED <<tasks, pulled, shown, heard, audioFile, clientPc, link,
                  disconnectNotified, mainPc>>
  BY DEF HandleVideoBuffer, trackVars, clientVars, noticeVars
<1>2. /\ collected \in Seq(Items) /\ collected # <<>>
      /\ collected' = Tail(collected) /\ collected' \in Seq(Items)
      /\ Head(collected).kind = "video"
      /\ 1 \in 1..Len(collected) /\ Head(collected) = collected[1]
      /\ \A i \in 1..Len(collected') : i + 1 \in 1..Len(collected) /\ collected'[i] = collected[i + 1]
  BY TakenItem DEF HandleVideoBuffer
<1>3. /\ n \in 1..shown
      /\ next \in FileNames /\ next.size = Video[n]
      /\ next.number < n
      /\ segment # NoSegment => segment.number <= next.number
      /\ segment # NoSegment => n > segment.number + 1
      /\ segment' = next
      /\ videoFiles' = [videoFiles EXCEPT ![next] = Append(videoFiles[next], n)]
      /\ \A f \in FileNames : f.number > next.number => f # next /\ videoFiles[f] = <<>>
  BY NoTruncation
<1>4. /\ RecordingTypeOK /\ AudioInv /\ VideoInv /\ StatusInv /\ QuestionsInv
      /\ videoFiles \in [FileNames -> Seq(Nat)] /\ shown \in Nat
      /\ segment \in FileNames \cup {NoSegment}
  BY DEF RecordingInv, RecordingTypeOK
<1>5. n \in Nat /\ next.number \in Nat /\ (segment # NoSegment => segment.number \in Nat)
      /\ next.number + 1 <= n
  BY <1>3, <1>4 DEF FileNames
<1>6. Ascending(collected, "video") /\ Above(collected', "video", n)
  BY <1>2, <1>4, HeadBelow DEF VideoInv
<1> HIDE DEF next, n
<1>7. TasksInv' /\ EndInv'
  BY <1>1, UnchangedInv
<1>8. AudioInv'
  BY <1>1, <1>2, <1>4, AudioInvTail
<1>9. StatusInv' /\ QuestionsInv'
  BY <1>1, <1>2, <1>4, StatusInvKept, QuestionsInvKept
<1>10. /\ videoFiles[next] \in Seq(Nat) /\ Append(videoFiles[next], n) \in Seq(Nat)
       /\ Len(videoFiles[next]) \in Nat /\ Len(videoFiles'[next]) = Len(videoFiles[next]) + 1
       /\ \A k \in 1..Len(videoFiles[next]) : videoFiles'[next][k] = videoFiles[next][k]
       /\ videoFiles'[next][Len(videoFiles[next]) + 1] = n
       /\ \A f \in FileNames : f # next => videoFiles'[f] = videoFiles[f]
  <2>1. videoFiles[next] \in Seq(Nat)
    BY <1>3, <1>4
  <2>2. videoFiles'[next] = Append(videoFiles[next], n)
    BY <1>3, <1>4
  <2>3. \A f \in FileNames : f # next => videoFiles'[f] = videoFiles[f]
    BY <1>3, <1>4
  <2> QED
    BY <1>5, <2>1, <2>2, <2>3, Appended
<1>11. RecordingTypeOK'
  <2>1. videoFiles' \in [FileNames -> Seq(Nat)] /\ segment' \in FileNames
    BY <1>3, <1>4, <1>10
  <2> QED
    BY <1>1, <1>2, <1>4, <2>1 DEF RecordingTypeOK
<1>12. VideoInv'
  <2>1. Ascending(collected', "video")
    BY <1>2, <1>6, AscendingKept
  <2>2. segment' # NoSegment /\ segment'.number < shown'
    BY <1>1, <1>3, <1>4, <1>5, SizesAssumption DEF FileNames, NoSegment
  <2>3. ASSUME NEW i \in 1..Len(collected'), collected'[i].kind = "video"
        PROVE  /\ collected'[i].number \in 1..shown'
               /\ collected'[i].size = Video[collected'[i].number]
               /\ segment' # NoSegment => collected'[i].number > segment'.number + 1
    <3>1. i + 1 \in 1..Len(collected) /\ collected'[i] = collected[i + 1]
      BY <1>2
    <3>2. /\ collected'[i].number \in 1..shown
          /\ collected'[i].size = Video[collected'[i].number]
      BY <1>4, <2>3, <3>1 DEF VideoInv
    <3>3. n < collected'[i].number
      BY <1>6, <2>3 DEF Above
    <3>4. collected'[i].number > next.number + 1
      BY <1>4, <1>5, <3>2, <3>3
    <3> QED
      BY <1>1, <1>3, <3>2, <3>4
  <2>4. ASSUME NEW f \in FileNames, NEW k \in 1..Len(videoFiles'[f])
        PROVE  videoFiles'[f][k] <= shown' /\ Above(collected', "video", videoFiles'[f][k])
    <3>1. ASSUME k \in 1..Len(videoFiles[f]), videoFiles'[f][k] = videoFiles[f][k]
          PROVE  videoFiles'[f][k] <= shown' /\ Above(collected', "video", videoFiles'[f][k])
      <4>1. videoFiles[f][k] <= shown /\ Above(collected, "video", videoFiles[f][k])
        BY <1>4, <3>1 DEF VideoInv
      <4> QED
        BY <1>1, <1>2, <3>1, <4>1, AboveKept
    <3>2. CASE f = next
      <4>1. k \in 1..Len(videoFiles[next]) \/ k = Len(videoFiles[next]) + 1
        BY <1>10, <3>2
      <4>2. CASE k \in 1..Len(videoFiles[next])
        BY <1>10, <3>1, <3>2, <4>2
      <4>3. CASE k = Len(videoFiles[next]) + 1
        BY <1>1, <1>3, <1>4, <1>6, <1>10, <3>2, <4>3
      <4> QED
        BY <4>1, <4>2, <4>3
    <3>3. CASE f # next
      BY <1>10, <3>1, <3>3
    <3> QED
      BY <3>2, <3>3
  <2>5. \A f \in FileNames : f.number > segment'.number => videoFiles'[f] = <<>>
    BY <1>3, <1>10
  <2>6. ASSUME ~Dropped', NEW m \in 1..shown'
        PROVE  \/ Waits(collected', "video", m)
               \/ \E f \in FileNames : f.size = Video[m] /\ Holds(videoFiles'[f], m)
    <3>1. \/ Waits(collected, "video", m)
          \/ \E f \in FileNames : f.size = Video[m] /\ Holds(videoFiles[f], m)
      BY <1>1, <1>4, <2>6 DEF VideoInv
    <3>2. CASE Waits(collected, "video", m)
      <4>1. Waits(collected', "video", m) \/ m = n
        BY <1>2, <3>2, WaitsKept DEF n
      <4>2. Holds(videoFiles'[next], n)
        <5>1. \A k \in 1..Len(videoFiles[next]) : videoFiles[next][k] < n
          BY <1>2, <1>3, <1>4 DEF VideoInv, Above, n
        <5>2. /\ Len(videoFiles[next]) + 1 \in 1..Len(videoFiles'[next])
              /\ \A j \in 1..((Len(videoFiles[next]) + 1) - 1) : j \in 1..Len(videoFiles[next])
          BY <1>10
        <5> QED
          BY <1>10, <5>1, <5>2 DEF Holds
      <4> QED
        BY <1>3, <4>1, <4>2
    <3>3. CASE \E f \in FileNames : f.size = Video[m] /\ Holds(videoFiles[f], m)
      <4>1. PICK f \in FileNames : f.size = Video[m] /\ Holds(videoFiles[f], m)
        BY <3>3
      <4>2. Holds(videoFiles'[f], m)
        <5>1. CASE f = next
          <6>1. PICK k \in 1..Len(videoFiles[next]) :
                  videoFiles[next][k] = m /\ \A j \in 1..(k - 1) : videoFiles[next][j] < m
            BY <4>1, <5>1 DEF Holds
          <6>2. /\ k \in 1..Len(videoFiles'[next])
                /\ \A j \in 1..(k - 1) : j \in 1..Len(videoFiles[next])
            BY <1>10
          <6> QED
            BY <1>10, <5>1, <6>1, <6>2 DEF Holds
        <5>2. CASE f # next
          BY <1>10, <4>1, <5>2
        <5> QED
          BY <5>1, <5>2
      <4> QED
        BY <4>1, <4>2
    <3> QED
      BY <3>1, <3>2, <3>3
  <2>7. shown' <= Len(Video)
    BY <1>1, <1>4 DEF VideoInv
  <2> QED
    BY <2>1, <2>2, <2>3, <2>4, <2>5, <2>6, <2>7 DEF VideoInv
<1> QED
  BY <1>7, <1>8, <1>9, <1>11, <1>12 DEF RecordingInv

LEMMA StoreStatusKeeps ==
  ASSUME RecordingInv, StoreStatus, Dropped => Dropped'
  PROVE  RecordingInv'
<1>1. UNCHANGED <<tasks, pulled, shown, heard, audioFile, segment, videoFiles, link,
                  disconnectNotified, mainPc>>
  BY DEF StoreStatus, trackVars, fileVars, noticeVars
<1>2. /\ collected \in Seq(Items) /\ collected # <<>>
      /\ collected' = Tail(collected) /\ collected' \in Seq(Items)
      /\ Head(collected).kind = "status"
      /\ 1 \in 1..Len(collected) /\ Head(collected) = collected[1]
      /\ \A i \in 1..Len(collected') : i + 1 \in 1..Len(collected) /\ collected'[i] = collected[i + 1]
      /\ \A i \in 1..Len(collected') : i \in Nat /\ i + 1 > 1
      /\ clientPc' = "notify"
  BY TakenItem DEF StoreStatus
<1>3. RecordingTypeOK /\ AudioInv /\ VideoInv /\ StatusInv /\ QuestionsInv /\ EndInv
  BY DEF RecordingInv
<1>4. TasksInv'
  BY <1>1, UnchangedInv
<1>5. AudioInv' /\ VideoInv'
  BY <1>1, <1>2, <1>3, AudioInvTail, VideoInvTail
<1>6. QuestionsInv'
  BY <1>1, <1>2, <1>3, QuestionsInvKept
<1>7. /\ clientPc = "blocked"
      /\ \A i \in 1..Len(collected') : collected'[i].kind \notin {"audio", "video", "status"}
  BY <1>2, <1>3 DEF StatusInv
<1>8. StatusInv'
  BY <1>1, <1>2, <1>3, <1>7 DEF StatusInv
<1>9. EndInv'
  BY <1>1, <1>3, <1>7 DEF EndInv
<1>10. RecordingTypeOK'
  BY <1>1, <1>2, <1>3 DEF RecordingTypeOK
<1> QED
  BY <1>4, <1>5, <1>6, <1>8, <1>9, <1>10 DEF RecordingInv

\* main is answered, and its question is gone.
LEMMA AnswerKeeps ==
  ASSUME RecordingInv, AnswerJoined \/ AnswerDisconnected, Dropped => Dropped'
  PROVE  RecordingInv'
<1>1. UNCHANGED <<tasks, pulled, shown, heard, audioFile, segment, videoFiles, clientPc, link,
                  disconnectNotified>>
  BY DEF AnswerJoined, AnswerDisconnected, trackVars, clientVars, fileVars, noticeVars
<1>2. /\ collected \in Seq(Items) /\ collected # <<>>
      /\ collected' = Tail(collected) /\ collected' \in Seq(Items)
      /\ Head(collected).kind \in Questions
      /\ 1 \in 1..Len(collected) /\ Head(collected) = collected[1]
      /\ mainPc' \in {"collecting", "returning"}
  BY TakenItem DEF AnswerJoined, AnswerDisconnected, Questions
<1>3. RecordingTypeOK /\ AudioInv /\ VideoInv /\ StatusInv /\ QuestionsInv /\ EndInv
  BY DEF RecordingInv
<1>4. TasksInv'
  BY <1>1, UnchangedInv
<1>5. AudioInv' /\ VideoInv'
  BY <1>1, <1>2, <1>3, AudioInvTail, VideoInvTail DEF Questions
<1>6. StatusInv'
  BY <1>1, <1>2, <1>3, StatusInvKept
<1>7. QuestionsInv'
  BY <1>2, <1>3, QuestionsInvKept
<1>8. mainPc \in Questions
  BY <1>2, <1>3 DEF QuestionsInv
<1>9. EndInv'
  BY <1>1, <1>2, <1>3, <1>8 DEF EndInv, Questions
<1>10. RecordingTypeOK'
  BY <1>1, <1>2, <1>3 DEF RecordingTypeOK
<1> QED
  BY <1>4, <1>5, <1>6, <1>7, <1>9, <1>10 DEF RecordingInv

\* main asks, or goes to its end.
LEMMA AwaitKeeps ==
  ASSUME RecordingInv, WaitForJoined \/ WaitForDisconnected, Dropped => Dropped'
  PROVE  RecordingInv'
<1>1. UNCHANGED <<tasks, pulled, shown, heard, audioFile, segment, videoFiles, clientPc, link,
                  disconnectNotified>>
  BY DEF WaitForJoined, WaitForDisconnected, Await, trackVars, clientVars, fileVars, noticeVars
<1>2. mainPc \in {"waitJoined", "waitDisconnected"}
  BY DEF WaitForJoined, WaitForDisconnected, Await
<1>3. RecordingTypeOK /\ AudioInv /\ VideoInv /\ StatusInv /\ QuestionsInv /\ EndInv
      /\ collected \in Seq(Items)
  BY DEF RecordingInv, RecordingTypeOK
<1>4. CASE mainPc' = "returning" /\ UNCHANGED collected
  BY <1>1, <1>2, <1>4, QuietStep DEF Questions
<1>5. ASSUME NEW q \in Questions, mainPc' = q, collected' = Append(collected, [kind |-> q])
      PROVE  RecordingInv'
  <2> DEFINE e == [kind |-> q]
  <2>1. e \in Items /\ e.kind = q
    BY DEF Items
  <2> HIDE DEF e
  <2>2. collected' = Append(collected, e)
    BY <1>5 DEF e
  <2>3. TasksInv'
    BY <1>1, UnchangedInv
  <2>4. AudioInv' /\ VideoInv'
    BY <1>1, <1>3, <2>1, <2>2, AudioInvAppend, VideoInvAppend DEF Questions
  <2>5. StatusInv'
    BY <1>1, <1>3, <2>1, <2>2, StatusInvKept DEF Questions
  <2>6. QuestionsInv'
    <3>1. mainPc \notin Questions /\ mainPc' = e.kind
      BY <1>2, <1>5, <2>1 DEF Questions
    <3> QED
      BY <1>3, <2>1, <2>2, <3>1, QuestionsInvKept
  <2>7. EndInv'
    BY <1>1, <1>2, <1>3, <1>5 DEF EndInv, Questions
  <2>8. RecordingTypeOK'
    <3>1. collected' \in Seq(Items)
      BY <1>3, <2>1, <2>2, Appended
    <3> QED
      BY <1>1, <1>3, <3>1 DEF RecordingTypeOK
  <2> QED
    BY <2>3, <2>4, <2>5, <2>6, <2>7, <2>8 DEF RecordingInv
<1> QED
  BY <1>4, <1>5 DEF WaitForJoined, WaitForDisconnected, Await, Questions

\* The end of the client.
LEMMA DestroyClientKeeps ==
  ASSUME RecordingInv, DestroyClient, Dropped => Dropped'
  PROVE  RecordingInv'
<1> DEFINE e == [kind |-> "kill"]
<1>1. UNCHANGED <<collected, pulled, shown, heard, audioFile, segment, videoFiles, clientPc, link,
                  disconnectNotified>>
  BY DEF DestroyClient, trackVars, fileVars, noticeVars
<1>2. mainPc = "returning" /\ mainPc' = "killing" /\ tasks' = Append(tasks, e)
  BY DEF DestroyClient
<1>3. /\ RecordingTypeOK /\ TasksInv /\ StatusInv /\ QuestionsInv
      /\ tasks \in Seq(TaskItems) /\ pulled \in Nat
  BY DEF RecordingInv, RecordingTypeOK
<1>4. e \in TaskItems /\ e.kind = "kill"
  BY DEF TaskItems
<1> HIDE DEF e
<1>5. TasksInv'
  BY <1>1, <1>2, <1>3, <1>4, TasksInvAppend
<1>6. AudioInv' /\ VideoInv'
  BY <1>1, UnchangedInv
<1>7. StatusInv' /\ QuestionsInv'
  BY <1>1, <1>2, <1>3, StatusInvKept, QuestionsInvKept DEF Questions
<1>8. EndInv'
  BY <1>2 DEF EndInv
<1>9. RecordingTypeOK'
  BY <1>1, <1>2, <1>3, <1>4, Appended DEF RecordingTypeOK
<1> QED
  BY <1>5, <1>6, <1>7, <1>8, <1>9 DEF RecordingInv

LEMMA CloseClientKeeps ==
  ASSUME RecordingInv, CloseClient, Dropped => Dropped'
  PROVE  RecordingInv'
<1>1. UNCHANGED <<collected, pulled, shown, heard, audioFile, segment, videoFiles, clientPc,
                  disconnectNotified>>
  BY DEF CloseClient, trackVars, fileVars, noticeVars
<1>2. mainPc = "closing" /\ mainPc' = "stopping" /\ tasks' = <<>> /\ link' = "closed"
      /\ clientPc = "idle"
  BY DEF CloseClient
<1>3. RecordingTypeOK /\ TasksInv /\ StatusInv /\ QuestionsInv
  BY DEF RecordingInv
<1>4. <<>> \in Seq(TaskItems) /\ Len(<<>>) = 0
  BY EmptySeq
<1>5. TasksInv'
  BY <1>1, <1>2, <1>3, <1>4 DEF TasksInv, Ascending, Above
<1>6. AudioInv' /\ VideoInv'
  BY <1>1, UnchangedInv
<1>7. StatusInv'
  BY <1>1, <1>2, <1>3 DEF StatusInv
<1>8. QuestionsInv'
  BY <1>1, <1>2, <1>3, QuestionsInvKept DEF Questions
<1>9. EndInv'
  BY <1>1, <1>2, <1>4 DEF EndInv
<1>10. RecordingTypeOK'
  BY <1>1, <1>2, <1>3, <1>4 DEF RecordingTypeOK
<1> QED
  BY <1>5, <1>6, <1>7, <1>8, <1>9, <1>10 DEF RecordingInv

\* What is still queued for the collector is dropped: it is nothing, or nobody
\* has been told that the recording is complete.
LEMMA DestroyCollectorKeeps ==
  ASSUME RecordingInv, DestroyCollector, Dropped => Dropped'
  PROVE  RecordingInv'
<1>1. UNCHANGED <<tasks, pulled, shown, heard, audioFile, segment, videoFiles, clientPc, link,
                  disconnectNotified>>
  BY DEF DestroyCollector, trackVars, clientVars, fileVars, noticeVars
<1>2. mainPc = "stopping" /\ mainPc' = "exited" /\ collected' = <<>>
  BY DEF DestroyCollector
<1>3. RecordingTypeOK /\ AudioInv /\ VideoInv /\ StatusInv /\ EndInv
  BY DEF RecordingInv
<1>4. <<>> \in Seq(Items) /\ Len(<<>>) = 0
  BY EmptySeq
<1>5. TasksInv'
  BY <1>1, UnchangedInv
<1>6. ~Dropped' => ~Dropped /\ disconnectNotified
  BY <1>1, <1>2 DEF Dropped
<1>7. ~Dropped' => \A n : ~Waits(collected, "audio", n) /\ ~Waits(collected, "video", n)
  BY <1>3, <1>6 DEF StatusInv, Waits
<1>8. AudioInv'
  BY <1>1, <1>2, <1>3, <1>4, <1>6, <1>7 DEF AudioInv, Ascending, Above
<1>9. VideoInv'
  BY <1>1, <1>2, <1>3, <1>4, <1>6, <1>7 DEF VideoInv, Ascending, Above
<1>10. StatusInv' /\ QuestionsInv'
  BY <1>1, <1>2, <1>3, <1>4 DEF StatusInv, QuestionsInv
<1>11. EndInv'
  BY <1>1, <1>2, <1>3 DEF EndInv
<1>12. RecordingTypeOK'
  BY <1>1, <1>2, <1>3, <1>4 DEF RecordingTypeOK
<1> QED
  BY <1>5, <1>8, <1>9, <1>10, <1>11, <1>12 DEF RecordingInv

\* Every step keeps the invariant.
LEMMA RecordingInvStep ==
  ASSUME RecordingInv, [Next]_vars
  PROVE  RecordingInv'
<1>1. CASE Next
  <2>1. Dropped => Dropped'
    BY <1>1, DroppedKept
  <2>2. CASE SourceAppears \/ OnJoined \/ Playout \/ Leave
    <3>1. UNCHANGED <<tasks, collected, pulled, shown, heard, audioFile, segment, videoFiles,
                      clientPc, link, disconnectNotified>>
      BY <2>2 DEF SourceAppears, OnJoined, Playout, Leave, recordingVars, trackVars, clientVars,
                  fileVars, noticeVars
    <3>2. \/ mainPc' = mainPc
          \/ mainPc = "collecting" /\ mainPc' \in {"returning", "waitDisconnected"}
      BY <2>2 DEF SourceAppears, OnJoined, Playout, Leave, recordingVars
    <3> QED
      BY <2>1, <3>1, <3>2, QuietStep DEF Questions
  <2>3. CASE ProcessPlayData
    BY <2>1, <2>3, ProcessPlayDataKeeps
  <2>4. CASE OnVideoFrame
    BY <2>1, <2>4, OnVideoFrameKeeps
  <2>5. CASE \E s \in Statuses : EndSession(s)
    BY <2>1, <2>5, EndSessionKeeps
  <2>6. CASE ClientThread
    BY <2>1, <2>6, RunAudioKeeps, RunDisconnectKeeps, NotifyDisconnectedKeeps, RunKillKeeps
       DEF ClientThread
  <2>7. CASE CollectorThread
    BY <2>1, <2>7, HandleAudioBufferKeeps, HandleVideoBufferKeeps, StoreStatusKeeps, AnswerKeeps
       DEF CollectorThread
  <2>8. CASE Main
    BY <2>1, <2>2, <2>8, AwaitKeeps, DestroyClientKeeps, CloseClientKeeps, DestroyCollectorKeeps
       DEF Main
  <2>9. CASE Terminated
    BY <2>1, <2>9, QuietStep DEF Terminated, vars, recordingVars, trackVars, clientVars, fileVars,
                                 noticeVars
  <2> QED
    BY <1>1, <2>2, <2>3, <2>4, <2>5, <2>6, <2>7, <2>8, <2>9 DEF Next
<1>2. CASE UNCHANGED vars
  <2>1. UNCHANGED <<tasks, collected, pulled, shown, heard, audioFile, segment, videoFiles,
                    clientPc, link, disconnectNotified, mainPc>>
    BY <1>2 DEF vars, recordingVars, trackVars, clientVars, fileVars, noticeVars
  <2>2. Dropped => Dropped'
    BY <2>1 DEF Dropped
  <2> QED
    BY <2>1, <2>2, QuietStep
<1> QED
  BY <1>1, <1>2

\* With nothing on its way, what was heard and what is written is the same.
LEMMA RecordingInvComplete == RecordingInv => RecordingIsComplete
<1> SUFFICES ASSUME RecordingInv, disconnectNotified
             PROVE  /\ audioFile = heard
                    /\ \A i \in 1..shown :
                         \E f \in FileNames : f.size = Video[i] /\ Holds(videoFiles[f], i)
  BY DEF RecordingIsComplete
<1>1. RecordingTypeOK /\ TasksInv /\ AudioInv /\ VideoInv /\ StatusInv
      /\ audioFile \in Seq(Nat) /\ heard \in Seq(Nat)
  BY DEF RecordingInv, RecordingTypeOK
<1>2. ~Dropped
  BY DEF Dropped
<1>3. \A n : ~Waits(collected, "audio", n) /\ ~Waits(collected, "video", n)
  BY <1>1 DEF StatusInv, Waits
<1>4. audioFile = heard
  <2>1. Increasing(audioFile) /\ Increasing(heard) /\ Within(audioFile, heard)
    BY <1>1 DEF AudioInv, TasksInv
  <2>2. Within(heard, audioFile)
    BY <1>1, <1>2, <1>3 DEF AudioInv, Within
  <2> QED
    BY <1>1, <2>1, <2>2, SameRange
<1>5. \A i \in 1..shown : \E f \in FileNames : f.size = Video[i] /\ Holds(videoFiles[f], i)
  BY <1>1, <1>2, <1>3 DEF VideoInv
<1> QED
  BY <1>4, <1>5

\* The recording is complete when the disconnection is announced, for any number
\* of frames of any sizes and any interleaving of the five threads.
THEOREM RecordingComplete == Spec => []RecordingIsComplete
<1>1. Init => RecordingInv
  BY RecordingInvInit
<1>2. RecordingInv /\ [Next]_vars => RecordingInv'
  BY RecordingInvStep
<1>3. RecordingInv => RecordingIsComplete
  BY RecordingInvComplete
<1> QED
  BY <1>1, <1>2, <1>3, PTL DEF Spec

=============================================================================
