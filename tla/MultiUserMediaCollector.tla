------------------------ MODULE MultiUserMediaCollector ------------------------
(***************************************************************************)
(* MultiUserMediaCollector (cpp/samples/multi_user_media_collector.{h,cc}) *)
(* and the sample program that waits for it.                               *)
(*                                                                         *)
(* The observer's callbacks come from the client's threads, in an order    *)
(* ObserverContract allows; each reads the clock and posts a task to the   *)
(* collector thread.  The application's thread waits for the two           *)
(* notifications and then reads the status on the collector thread.  The   *)
(* callbacks that carry frames of one source do not overlap.               *)
(*                                                                         *)
(* What each source's files and frames were is kept in finished and        *)
(* handled, for the properties: the actions never read them.               *)
(***************************************************************************)
EXTENDS Naturals, Sequences, FiniteSets

CONSTANTS
  Csrcs,          \* contributing sources
  Sizes,          \* resolutions of video frames
  Identifiers,    \* output file identifiers
  Gap,            \* segment_gap_threshold_
  MaxTime,        \* bound: where the clock stops
  MaxFrames,      \* bound: frames the client hands over
  MaxUpdates,     \* bound: resource updates the client hands over
  None            \* no segment, no identifier

\* A map of segments is finite, and a conference has finitely many sources.
ASSUME CsrcsAssumption == IsFiniteSet(Csrcs)
ASSUME GapAssumption == Gap \in Nat \ {0}
ASSUME BoundsAssumption == MaxTime \in Nat /\ MaxFrames \in Nat /\ MaxUpdates \in Nat

Media == {"audio", "video"}

\* An audio frame has no resolution.
AudioFrames == [media : {"audio"}, csrc : Csrcs, size : {"none"}, time : Nat]
VideoFrames == [media : {"video"}, csrc : Csrcs, size : Sizes, time : Nat]
Frames == AudioFrames \cup VideoFrames

\* AudioSegment and VideoSegment; the writer is the number of frames written.
Segments == [media : Media, csrc : Csrcs, identifier : Identifiers,
             size : Sizes \cup {"none"}, first : Nat, last : Nat, frames : Nat]

ASSUME NoneAssumption == None \notin Segments \cup Identifiers

Statuses == {"ok", "error"}

VARIABLES
  joinedCalls, disconnectedCalls, lastCall,   \* the callbacks so far
  now,                  \* the clock
  queue,                \* tasks posted to collector_thread_
  collectorPc,          \* where the collector thread is
  audioSegments,        \* audio_segments_
  videoSegments,        \* video_segments_
  identifiers,          \* what GetOutputFileIdentifier answers for each csrc
  disconnectStatus,     \* disconnect_status_
  joinNotified,         \* how often join_notification_ has been notified
  disconnectNotified,   \* how often disconnect_notification_ has been notified
  appPc,                \* where the application's thread is
  joinResult,           \* what WaitForJoined returned
  disconnectResult,     \* what WaitForDisconnected returned
  finished,             \* each source's segments closed, in order
  handled,              \* each source's frames handled, in order, with its identifier then
  frames, updates       \* used up bounds

Contract == INSTANCE ObserverContract
              WITH joinedCalls <- joinedCalls, disconnectedCalls <- disconnectedCalls,
                   lastCall <- lastCall

contractVars == <<joinedCalls, disconnectedCalls, lastCall>>
segmentVars == <<audioSegments, videoSegments, finished, handled>>
notificationVars == <<disconnectStatus, joinNotified, disconnectNotified>>
appVars == <<appPc, joinResult, disconnectResult>>
bounds == <<frames, updates>>
vars == <<contractVars, now, queue, collectorPc, segmentVars, identifiers,
          notificationVars, appVars, bounds>>

\* A frame of a source and what the source was called when it was handled.
HandledFrames(media, c) ==
  [frame : {f \in Frames : f.media = media /\ f.csrc = c}, identifier : Identifiers \cup {None}]

Results == Statuses \cup {"none", "timeout"}

\* Tasks posted by the callbacks, and the application's two blocking calls.
FrameTasks == [kind : {"frame"}, frame : Frames]
UpdateTasks == [kind : {"update"}, csrcs : SUBSET Csrcs, identifier : Identifiers \cup {None}]
DisconnectTasks == [kind : {"disconnect"}, status : Statuses]
StatusTasks == [kind : {"joinStatus", "disconnectStatus"}]
Tasks == FrameTasks \cup UpdateTasks \cup DisconnectTasks \cup StatusTasks

TypeOK ==
  /\ joinedCalls \in {0, 1} /\ disconnectedCalls \in {0, 1}
  /\ lastCall \in {"none", "OnJoined", "OnDisconnected", "data"}
  /\ now \in Nat
  /\ queue \in Seq(Tasks)
  /\ collectorPc \in {"idle", "notify", "check", "release"}
  /\ audioSegments \in [Csrcs -> Segments \cup {None}]
  /\ videoSegments \in [Csrcs -> Segments \cup {None}]
  /\ identifiers \in [Csrcs -> Identifiers \cup {None}]
  /\ disconnectStatus \in Statuses \cup {"none"}
  /\ joinNotified \in Nat /\ disconnectNotified \in Nat
  /\ appPc \in {"connected", "waitJoined", "askJoined", "collecting",
                "waitDisconnected", "askDisconnected", "exiting", "destroyed"}
  /\ joinResult \in Results /\ disconnectResult \in Results \cup {"unset"}
  /\ finished \in [Media -> [Csrcs -> Seq(Segments)]]
  /\ DOMAIN handled = Media
  /\ \A media \in Media : DOMAIN handled[media] = Csrcs
  /\ \A media \in Media, c \in Csrcs : handled[media][c] \in Seq(HandledFrames(media, c))
  /\ frames \in Nat /\ updates \in Nat

Init ==
  /\ Contract!Init
  /\ now = 0
  /\ queue = <<>>
  /\ collectorPc = "idle"
  /\ audioSegments = [c \in Csrcs |-> None]
  /\ videoSegments = [c \in Csrcs |-> None]
  /\ identifiers = [c \in Csrcs |-> None]
  /\ disconnectStatus = "none"
  /\ joinNotified = 0 /\ disconnectNotified = 0
  /\ appPc = "connected"
  /\ joinResult = "none" /\ disconnectResult = "none"
  /\ finished = [media \in Media |-> [c \in Csrcs |-> <<>>]]
  /\ handled = [media \in Media |-> [c \in Csrcs |-> <<>>]]
  /\ frames = 0 /\ updates = 0

-----------------------------------------------------------------------------
(***************************************************************************)
(* The callbacks, on the client's threads.                                 *)
(***************************************************************************)

\* The client is destroyed before the collector; it calls nothing then.
ClientExists == appPc \notin {"exiting", "destroyed"}

\* A frame is stamped with the time and posted.
PostFrame(f) ==
  /\ ClientExists
  /\ Contract!Data
  /\ frames < MaxFrames
  /\ frames' = frames + 1
  /\ queue' = Append(queue, [kind |-> "frame", frame |-> f])
  /\ UNCHANGED <<now, collectorPc, segmentVars, identifiers, notificationVars,
                 appVars, updates>>

OnAudioFrame(c) ==
  PostFrame([media |-> "audio", csrc |-> c, size |-> "none", time |-> now])

OnVideoFrame(c, s) ==
  PostFrame([media |-> "video", csrc |-> c, size |-> s, time |-> now])

\* A resource update, which names the streams of one media entry or takes
\* their name away; other updates have no effect in the task.
OnMessageFromServer(cs, id) ==
  /\ ClientExists
  /\ Contract!Data
  /\ updates < MaxUpdates
  /\ updates' = updates + 1
  /\ queue' = Append(queue, [kind |-> "update", csrcs |-> cs, identifier |-> id])
  /\ UNCHANGED <<now, collectorPc, segmentVars, identifiers, notificationVars, appVars,
                 frames>>

\* OnJoined notifies at once.
OnJoined ==
  /\ ClientExists
  /\ Contract!Joined
  /\ joinNotified' = joinNotified + 1
  /\ UNCHANGED <<now, queue, collectorPc, segmentVars, identifiers, disconnectStatus,
                 disconnectNotified, appVars, bounds>>

\* OnDisconnected leaves everything to the collector thread.
OnDisconnected(s) ==
  /\ ClientExists
  /\ Contract!Disconnected
  /\ queue' = Append(queue, [kind |-> "disconnect", status |-> s])
  /\ UNCHANGED <<now, collectorPc, segmentVars, identifiers, notificationVars,
                 appVars, bounds>>

\* Only frames read the clock; it stops with the last of them.
Tick ==
  /\ now < MaxTime
  /\ frames < MaxFrames
  /\ now' = now + 1
  /\ UNCHANGED <<contractVars, queue, collectorPc, segmentVars, identifiers,
                 notificationVars, appVars, bounds>>

-----------------------------------------------------------------------------
(***************************************************************************)
(* The collector thread.                                                   *)
(***************************************************************************)
Takes(k) ==
  /\ collectorPc = "idle"
  /\ queue # <<>>
  /\ Head(queue).kind = k
  /\ queue' = Tail(queue)

\* Mutant: last_frame_time is not moved on, the gap is that to the first frame.
WithinGapOfFirst(segment, f) == f.time < segment.first + Gap

\* "received_time - last_frame_time < segment_gap_threshold_".
WithinGap(segment, f) == f.time < segment.last + Gap

\* The segment f starts, if its source has an identifier by now.
NewSegment(f) ==
  IF identifiers[f.csrc] = None THEN None
  ELSE [media |-> f.media, csrc |-> f.csrc, identifier |-> identifiers[f.csrc],
        size |-> f.size, first |-> f.time, last |-> f.time, frames |-> 1]

\* What a frame makes of its source's segment, which it continues or not.
NextSegment(segment, f, continues) ==
  IF segment # None /\ continues
  THEN [segment EXCEPT !.last = f.time, !.frames = @ + 1]
  ELSE NewSegment(f)

\* ... and of the source's finished files.
FinishedBy(f, segment, continues) ==
  IF segment = None \/ continues THEN finished
  ELSE [finished EXCEPT ![f.media][f.csrc] = Append(@, segment)]

Handles(f) ==
  handled' = [handled EXCEPT ![f.media][f.csrc] =
                Append(@, [frame |-> f, identifier |-> identifiers[f.csrc]])]

HandleAudioData ==
  /\ Takes("frame")
  /\ LET f == Head(queue).frame
         segment == audioSegments[f.csrc]
         continues == segment # None /\ WithinGap(segment, f)
     IN  /\ f.media = "audio"
         /\ audioSegments' = [audioSegments EXCEPT ![f.csrc] = NextSegment(segment, f, continues)]
         /\ finished' = FinishedBy(f, segment, continues)
         /\ Handles(f)
  /\ UNCHANGED <<contractVars, now, collectorPc, videoSegments, identifiers,
                 notificationVars, appVars, bounds>>

\* A change of the resolution ends a video segment too.
HandleVideoData ==
  /\ Takes("frame")
  /\ LET f == Head(queue).frame
         segment == videoSegments[f.csrc]
         continues == segment # None /\ WithinGap(segment, f) /\ segment.size = f.size
     IN  /\ f.media = "video"
         /\ videoSegments' = [videoSegments EXCEPT ![f.csrc] = NextSegment(segment, f, continues)]
         /\ finished' = FinishedBy(f, segment, continues)
         /\ Handles(f)
  /\ UNCHANGED <<contractVars, now, collectorPc, audioSegments, identifiers,
                 notificationVars, appVars, bounds>>

\* The resource manager takes the update in.
HandleUpdate ==
  /\ Takes("update")
  /\ identifiers' = [c \in Csrcs |-> IF c \in Head(queue).csrcs THEN Head(queue).identifier
                                     ELSE identifiers[c]]
  /\ UNCHANGED <<contractVars, now, collectorPc, segmentVars, notificationVars,
                 appVars, bounds>>

\* The files of the sources when their open segments have been closed.
ClosedFiles(files, segments) ==
  [c \in Csrcs |-> IF segments[c] = None THEN files[c] ELSE Append(files[c], segments[c])]

SegmentsOf(media) == IF media = "audio" THEN audioSegments ELSE videoSegments

\* Mutant: the video segments are left open.
HandleDisconnectAudioOnly ==
  /\ Takes("disconnect")
  /\ disconnectStatus' = Head(queue).status
  /\ finished' = [finished EXCEPT !["audio"] = ClosedFiles(@, audioSegments)]
  /\ audioSegments' = [c \in Csrcs |-> None]
  /\ collectorPc' = "notify"
  /\ UNCHANGED <<contractVars, now, videoSegments, handled, identifiers, joinNotified,
                 disconnectNotified, appVars, bounds>>

\* OnDisconnected's task: the status is kept and every segment closed ...
HandleDisconnect ==
  /\ Takes("disconnect")
  /\ disconnectStatus' = Head(queue).status
  /\ finished' = [media \in Media |-> ClosedFiles(finished[media], SegmentsOf(media))]
  /\ audioSegments' = [c \in Csrcs |-> None]
  /\ videoSegments' = [c \in Csrcs |-> None]
  /\ collectorPc' = "notify"
  /\ UNCHANGED <<contractVars, now, handled, identifiers, joinNotified,
                 disconnectNotified, appVars, bounds>>

\* ... disconnect_notification_ is notified ...
NotifyDisconnected ==
  /\ collectorPc = "notify"
  /\ disconnectNotified' = disconnectNotified + 1
  /\ collectorPc' = "check"
  /\ UNCHANGED <<contractVars, now, queue, segmentVars, identifiers, disconnectStatus,
                 joinNotified, appVars, bounds>>

\* Mutant: join_notification_ is left to OnJoined.
CheckJoinedNever ==
  /\ collectorPc = "check"
  /\ collectorPc' = "idle"
  /\ UNCHANGED <<contractVars, now, queue, segmentVars, identifiers, notificationVars,
                 appVars, bounds>>

\* Mutant: join_notification_ is notified whether it has been or not.
CheckJoinedAlways ==
  /\ collectorPc = "check"
  /\ collectorPc' = "release"
  /\ UNCHANGED <<contractVars, now, queue, segmentVars, identifiers, notificationVars,
                 appVars, bounds>>

\* ... and join_notification_, if it has not been yet.
CheckJoined ==
  /\ collectorPc = "check"
  /\ collectorPc' = IF joinNotified > 0 THEN "idle" ELSE "release"
  /\ UNCHANGED <<contractVars, now, queue, segmentVars, identifiers, notificationVars,
                 appVars, bounds>>

ReleaseJoined ==
  /\ collectorPc = "release"
  /\ joinNotified' = joinNotified + 1
  /\ collectorPc' = "idle"
  /\ UNCHANGED <<contractVars, now, queue, segmentVars, identifiers, disconnectStatus,
                 disconnectNotified, appVars, bounds>>

\* WaitForJoined's blocking call: the disconnect status if there is one.
AnswerJoined ==
  /\ Takes("joinStatus")
  /\ joinResult' = IF disconnectStatus = "none" THEN "ok" ELSE disconnectStatus
  /\ appPc' = IF joinResult' = "ok" THEN "collecting" ELSE "exiting"
  /\ UNCHANGED <<contractVars, now, collectorPc, segmentVars, identifiers,
                 notificationVars, disconnectResult, bounds>>

\* WaitForDisconnected's blocking call.
AnswerDisconnected ==
  /\ Takes("disconnectStatus")
  /\ disconnectResult' = IF disconnectStatus = "none" THEN "unset" ELSE disconnectStatus
  /\ appPc' = "exiting"
  /\ UNCHANGED <<contractVars, now, collectorPc, segmentVars, identifiers,
                 notificationVars, joinResult, bounds>>

CollectorThread ==
  \/ HandleAudioData \/ HandleVideoData \/ HandleUpdate \/ HandleDisconnect
  \/ NotifyDisconnected \/ CheckJoined \/ ReleaseJoined
  \/ AnswerJoined \/ AnswerDisconnected

-----------------------------------------------------------------------------
(***************************************************************************)
(* The application's thread: the main function of the sample.              *)
(***************************************************************************)
otherThanApp == <<contractVars, now, collectorPc, segmentVars, identifiers,
                  notificationVars, bounds>>

\* WaitForJoined and WaitForDisconnected begin.
BeginWait ==
  /\ \/ appPc = "connected" /\ appPc' = "waitJoined"
     \/ appPc = "collecting" /\ appPc' = "waitDisconnected"
  /\ UNCHANGED <<otherThanApp, queue, joinResult, disconnectResult>>

\* ConnectActiveConference, SendRequest or LeaveConference returns an error (the
\* latter for a client that has disconnected by then): the sample ends.
GivesUp ==
  /\ appPc \in {"connected", "collecting"}
  /\ appPc' = "exiting"
  /\ UNCHANGED <<otherThanApp, queue, joinResult, disconnectResult>>

\* A notification has come: the status is asked for on the collector thread.
Woken ==
  /\ \/ /\ appPc = "waitJoined" /\ joinNotified > 0
        /\ appPc' = "askJoined"
        /\ queue' = Append(queue, [kind |-> "joinStatus"])
     \/ /\ appPc = "waitDisconnected" /\ disconnectNotified > 0
        /\ appPc' = "askDisconnected"
        /\ queue' = Append(queue, [kind |-> "disconnectStatus"])
  /\ UNCHANGED <<otherThanApp, joinResult, disconnectResult>>

\* The wait times out; the sample ends.
WaitTimesOut ==
  /\ \/ /\ appPc = "waitJoined" /\ joinNotified = 0
        /\ joinResult' = "timeout" /\ UNCHANGED disconnectResult
     \/ /\ appPc = "waitDisconnected" /\ disconnectNotified = 0
        /\ disconnectResult' = "timeout" /\ UNCHANGED joinResult
  /\ appPc' = "exiting"
  /\ UNCHANGED <<otherThanApp, queue>>

\* ~MultiUserMediaCollector stops the thread, which drops its tasks.
Destroy ==
  /\ appPc = "exiting"
  /\ collectorPc = "idle"
  /\ appPc' = "destroyed"
  /\ queue' = <<>>
  /\ UNCHANGED <<otherThanApp, joinResult, disconnectResult>>

\* The one legitimate end.
Terminated == appPc = "destroyed" /\ UNCHANGED vars

App == BeginWait \/ GivesUp \/ Woken \/ WaitTimesOut \/ Destroy

Next ==
  \/ \E c \in Csrcs : OnAudioFrame(c) \/ \E s \in Sizes : OnVideoFrame(c, s)
  \/ \E cs \in SUBSET Csrcs \ {{}}, id \in Identifiers \cup {None} : OnMessageFromServer(cs, id)
  \/ OnJoined
  \/ \E s \in Statuses : OnDisconnected(s)
  \/ Tick
  \/ appPc # "destroyed" /\ CollectorThread
  \/ App
  \/ Terminated

Spec == Init /\ [][Next]_vars

\* The collector thread runs its tasks and a notified thread wakes up; nothing
\* else has to happen, no timeout either.
Fairness == WF_vars(appPc # "destroyed" /\ CollectorThread) /\ WF_vars(Woken)
FairSpec == Spec /\ Fairness

-----------------------------------------------------------------------------
(***************************************************************************)
(* Safety.                                                                 *)
(***************************************************************************)

\* absl::Notification::Notify must be called once at most: the collector
\* thread's check of join_notification_ does not race with OnJoined, because
\* the client never calls OnJoined once it has called OnDisconnected.
NotifiedOnce == joinNotified <= 1 /\ disconnectNotified <= 1

\* When WaitForDisconnected returns a status the recording is complete: it is
\* the status of the disconnection, no segment is open and none will be opened
\* by a frame still in the queue.
RecordingComplete ==
  disconnectResult \in Statuses \cup {"unset"} =>
    /\ disconnectResult = disconnectStatus
    /\ \A c \in Csrcs : audioSegments[c] = None /\ videoSegments[c] = None
    /\ \A i \in 1..Len(queue) : queue[i].kind # "frame"

\* Two frames that follow each other without a break in the stream: less than
\* limit apart and of one size.
Unbroken(f, g, limit) == g.time < f.time + limit /\ g.size = f.size

\* The frames of a source's history h that are in a file: those whose source is
\* named, and those that follow one of these without a break in between.
InFile(h, limit) ==
  {i \in 1..Len(h) :
     \E k \in 1..i : /\ h[k].identifier # None
                     /\ \A j \in k + 1 .. i : Unbroken(h[j - 1].frame, h[j].frame, limit)}

\* Frame i of history h continues the file that the frame before it is in.
Follows(h, i, limit) == i - 1 \in InFile(h, limit) /\ Unbroken(h[i - 1].frame, h[i].frame, limit)

\* The segments of history h: its longest unbroken stretches of such frames.
IsStretch(h, i, j, limit) ==
  /\ i..j \subseteq InFile(h, limit)
  /\ ~Follows(h, i, limit)
  /\ \A k \in i + 1 .. j : Follows(h, k, limit)
  /\ j < Len(h) => ~Follows(h, j + 1, limit)
Stretches(h, limit) ==
  {p \in (1..Len(h)) \X (1..Len(h)) : p[1] <= p[2] /\ IsStretch(h, p[1], p[2], limit)}

SegmentOf(h, p) ==
  [media |-> h[p[1]].frame.media, csrc |-> h[p[1]].frame.csrc,
   identifier |-> h[p[1]].identifier, size |-> h[p[1]].frame.size,
   first |-> h[p[1]].frame.time, last |-> h[p[2]].frame.time, frames |-> p[2] - p[1] + 1]

\* The files of the source c and its open segment are the stretches of its frames:
\* named by the first and last frame, with every frame in between and no other,
\* none cut in two, joined with another or written twice.
FilesAreStretches(media, c, limit) ==
  LET h == handled[media][c]
      files == finished[media][c]
      open == {SegmentsOf(media)[c]} \ {None}
  IN  /\ open \cup {files[i] : i \in 1..Len(files)} = {SegmentOf(h, p) : p \in Stretches(h, limit)}
      /\ Len(files) + Cardinality(open) = Cardinality(Stretches(h, limit))

\* The files are the unbroken stretches of each source's frames.  Whether a gap of
\* exactly segment_gap_threshold_ breaks a stretch (the code's "<") or does not
\* (the header's "more than", multi_user_media_collector.h:204-206 and :242-244)
\* is left open; it is the same for all.
SegmentsAreStretches ==
  \E limit \in {Gap, Gap + 1} :
    \A media \in Media, c \in Csrcs : FilesAreStretches(media, c, limit)

-----------------------------------------------------------------------------
(***************************************************************************)
(* Liveness, under FairSpec.                                               *)
(***************************************************************************)

\* OnDisconnected releases a thread that waits for either notification,
\* whether the client has joined or not, without a timeout.
DisconnectReleasesWaiter ==
  disconnectedCalls = 1 /\ appPc \in {"waitJoined", "waitDisconnected"}
    ~> appPc \in {"collecting", "exiting"}

-----------------------------------------------------------------------------
(***************************************************************************)
(* What the comments say and the code does not do.                         *)
(***************************************************************************)

\* The identifier "uniquely identifies the media stream": no two open segments
\* write to one temporary file.
TemporaryFilesDistinct ==
  \A c, d \in Csrcs :
    c # d /\ videoSegments[c] # None /\ videoSegments[d] # None =>
      \/ videoSegments[c].identifier # videoSegments[d].identifier
      \/ videoSegments[c].size # videoSegments[d].size

=============================================================================
