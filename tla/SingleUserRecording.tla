------------------------- MODULE SingleUserRecording -------------------------
(***************************************************************************)
(* The single user sample, its collector, and what feeds them: the audio   *)
(* playout, the tracks (cpp/internal/conference_media_tracks), the client  *)
(* thread.  Audio goes from the playout thread through the client   *)
(* thread to the collector thread, video from a media thread straight to   *)
(* the collector thread, the status of the disconnection from the client   *)
(* thread, which waits for it; main waits for notifications and leaves.    *)
(* The connection is up at the start; the client's own states are those of *)
(* MediaApiClient, here only as far as the recording depends on them.      *)
(***************************************************************************)
EXTENDS AudioPlayout, SequencesExt

CONSTANTS
  Video,       \* bound: the video frames that may come, each by its size
  MaxAudio     \* bound: audio buffers the playout brings

ASSUME RecordingBoundsAssumption == MaxAudio \in Nat /\ Video \in Seq(Range(Video))
\* "none" is the size of no frame.
ASSUME SizesAssumption == "none" \notin Range(Video)

VARIABLES
  sources,       \* does the receiver have a contributing source?
  session,       \* state_ of the client
  link,          \* the peer connection
  tasks,         \* posted to client_thread_
  clientPc,      \* where the client thread is in OnDisconnected
  pulled,        \* number of audio buffers given to OnData
  heard,         \* audio frames given to OnAudioFrame, by number
  shown,         \* number of video frames given to OnVideoFrame
  collected,     \* posted to collector_thread_
  stopped,       \* collector_thread_ is stopped
  audioFile,     \* what audio_writer_ has written
  videoFiles,    \* what is in each video file, by segment number and size
  segment,       \* video_segment_: its number and size
  status,        \* disconnect_status_
  joinNotified, disconnectNotified,   \* the two notifications
  mainPc         \* where main is

trackVars == <<sources, pulled, heard, shown>>
clientVars == <<session, link, tasks, clientPc>>
fileVars == <<audioFile, videoFiles, segment>>
noticeVars == <<joinNotified, disconnectNotified>>
recordingVars == <<trackVars, clientVars, collected, stopped, fileVars, status,
                   noticeVars, mainPc>>
vars == <<now, playoutVars, recordingVars>>

NoSegment == [number |-> 0, size |-> "none"]
FileNames == [number : 0..Len(Video), size : Range(Video)]
Statuses == {"ok", "error"}

Init ==
  /\ PlayoutInit
  /\ sources = FALSE
  /\ session = "joining" /\ link = "open"
  /\ tasks = <<>> /\ clientPc = "idle"
  /\ pulled = 0 /\ heard = <<>> /\ shown = 0
  /\ collected = <<>> /\ stopped = FALSE
  /\ audioFile = <<>> /\ segment = NoSegment
  /\ videoFiles = [f \in FileNames |-> <<>>]
  /\ status = "none"
  /\ joinNotified = FALSE /\ disconnectNotified = FALSE
  /\ mainPc = "waitJoined"

-----------------------------------------------------------------------------
(***************************************************************************)
(* WebRTC's threads.                                                       *)
(***************************************************************************)

\* Somebody speaks: until then the receiver has no sources.
SourceAppears ==
  /\ link = "open"
  /\ ~sources
  /\ sources' = TRUE
  /\ UNCHANGED <<now, playoutVars, pulled, heard, shown, clientVars, collected, stopped,
                 fileVars, status, noticeVars, mainPc>>

\* NeedMorePlayData decodes the next buffer, if there is one, and hands it to
\* the track's sink, ConferenceAudioTrack::OnData, which copies it into a task.
OnData ==
  /\ callback /\ link = "open"
  /\ pulled < MaxAudio
  /\ pulled' = pulled + 1
  /\ tasks' = Append(tasks, [kind |-> "audio", number |-> pulled + 1])

\* ProcessPlayData up to the return of NeedMorePlayData.
ProcessPlayData ==
  /\ FirstRun \/ Wake
  /\ OnData \/ UNCHANGED <<pulled, tasks>>
  /\ UNCHANGED <<sources, heard, shown, session, link, clientPc, collected, stopped,
                 fileVars, status, noticeVars, mainPc>>

\* The clock, and what WebRTC does with the device module: it registers its
\* callback first, and plays until its factory is destroyed.
Playout ==
  /\ mainPc # "exited"
  /\ \/ Tick \/ Reschedule
     \/ ~callback /\ RegisterAudioCallback(TRUE)
     \/ callback /\ link = "open" /\ StartPlayout
  /\ UNCHANGED recordingVars

\* ConferenceVideoTrack::OnFrame calls OnVideoFrame, which posts the buffer.
OnVideoFrame ==
  /\ link = "open"
  /\ shown < Len(Video)
  /\ shown' = shown + 1
  /\ collected' = Append(collected, [kind |-> "video", number |-> shown', size |-> Video[shown']])
  /\ UNCHANGED <<now, playoutVars, sources, pulled, heard, clientVars, stopped,
                 fileVars, status, noticeVars, mainPc>>

\* A session update on the network thread: joined, under the client's lock ...
OnJoined ==
  /\ link = "open"
  /\ session = "joining"
  /\ session' = "joined"
  /\ joinNotified' = TRUE
  /\ UNCHANGED <<now, playoutVars, trackVars, link, tasks, clientPc, collected, stopped,
                 fileVars, status, disconnectNotified, mainPc>>

\* ... or the end of the session or of the connection, posted.
EndSession(s) ==
  /\ link = "open"
  /\ \A i \in 1..Len(tasks) : tasks[i].kind # "disconnect"
  /\ tasks' = Append(tasks, [kind |-> "disconnect", status |-> s])
  /\ UNCHANGED <<now, playoutVars, trackVars, session, link, clientPc, collected, stopped,
                 fileVars, status, noticeVars, mainPc>>

-----------------------------------------------------------------------------
(***************************************************************************)
(* The client thread.                                                      *)
(***************************************************************************)
ClientTakes(kind) ==
  /\ clientPc = "idle"
  /\ tasks # <<>>
  /\ Head(tasks).kind = kind
  /\ tasks' = Tail(tasks)

\* The task asks the receiver for its sources as they are by now; without one
\* the frame is dropped.  OnAudioFrame copies the buffer and posts it.
RunAudio ==
  /\ ClientTakes("audio")
  /\ IF sources /\ link = "open"
     THEN /\ heard' = Append(heard, Head(tasks).number)
          /\ collected' = Append(collected, Head(tasks))
     ELSE UNCHANGED <<heard, collected>>
  /\ UNCHANGED <<now, playoutVars, sources, pulled, shown, session, link, clientPc,
                 stopped, fileVars, status, noticeVars, mainPc>>

\* Is alive_flag_ still up?
Alive == mainPc \notin {"closing", "stopping", "exited"}

\* MaybeDisconnect: once, it closes the connection and calls OnDisconnected,
\* which has the collector thread store the status, and waits for that.
RunDisconnect ==
  /\ ClientTakes("disconnect")
  /\ IF ~Alive \/ session = "disconnected"
     THEN UNCHANGED <<session, link, collected, clientPc>>
     ELSE /\ session' = "disconnected"
          /\ link' = "closed"
          /\ collected' = Append(collected, [kind |-> "status", status |-> Head(tasks).status])
          /\ clientPc' = "blocked"
  /\ UNCHANGED <<now, playoutVars, trackVars, stopped, fileVars, status, noticeVars, mainPc>>

\* The rest of OnDisconnected: both notifications are given by now.
NotifyDisconnected ==
  /\ clientPc = "notify"
  /\ clientPc' = "idle"
  /\ disconnectNotified' = TRUE
  /\ joinNotified' = TRUE
  /\ UNCHANGED <<now, playoutVars, trackVars, session, link, tasks, collected, stopped,
                 fileVars, status, mainPc>>

\* ~MediaApiClient's SetNotAlive, in its turn.
RunKill ==
  /\ ClientTakes("kill")
  /\ mainPc' = "closing"
  /\ UNCHANGED <<now, playoutVars, trackVars, session, link, clientPc, collected, stopped,
                 fileVars, status, noticeVars>>

ClientThread == RunAudio \/ RunDisconnect \/ NotifyDisconnected \/ RunKill

-----------------------------------------------------------------------------
(***************************************************************************)
(* The collector thread.                                                   *)
(***************************************************************************)
CollectorTakes(kind) ==
  /\ ~stopped
  /\ collected # <<>>
  /\ Head(collected).kind = kind
  /\ collected' = Tail(collected)

HandleAudioBuffer ==
  /\ CollectorTakes("audio")
  /\ audioFile' = Append(audioFile, Head(collected).number)
  /\ UNCHANGED <<now, playoutVars, trackVars, clientVars, stopped, videoFiles, segment,
                 status, noticeVars, mainPc>>

\* Mutant: the number does not go up with the segments.
SegmentOfSize(size) == [number |-> 0, size |-> size]

\* The segment a frame of this size goes to: a new one has the next number.
SegmentFor(size) ==
  IF segment.size = size THEN segment
  ELSE [number |-> IF segment = NoSegment THEN 0 ELSE segment.number + 1, size |-> size]

\* A new segment opens its file, which is truncated.
HandleVideoBuffer ==
  /\ CollectorTakes("video")
  /\ LET frame == Head(collected)
         next == SegmentFor(frame.size)
         before == IF next = segment THEN videoFiles[next] ELSE <<>>
     IN /\ segment' = next
        /\ videoFiles' = [videoFiles EXCEPT ![next] = Append(before, frame.number)]
  /\ UNCHANGED <<now, playoutVars, trackVars, clientVars, stopped, audioFile,
                 status, noticeVars, mainPc>>

\* The status is stored and the client thread goes on.
StoreStatus ==
  /\ CollectorTakes("status")
  /\ status' = Head(collected).status
  /\ clientPc' = "notify"
  /\ UNCHANGED <<now, playoutVars, trackVars, session, link, tasks, stopped, fileVars,
                 noticeVars, mainPc>>

\* main's BlockingCall of WaitForJoined: any stored status is the answer.
AnswerJoined ==
  /\ CollectorTakes("askJoined")
  /\ mainPc' = IF status \in {"none", "ok"} THEN "collecting" ELSE "returning"
  /\ UNCHANGED <<now, playoutVars, trackVars, clientVars, stopped, fileVars, status, noticeVars>>

\* main's BlockingCall of WaitForDisconnected; either exit destroys the locals.
AnswerDisconnected ==
  /\ CollectorTakes("askDisconnected")
  /\ mainPc' = "returning"
  /\ UNCHANGED <<now, playoutVars, trackVars, clientVars, stopped, fileVars, status, noticeVars>>

CollectorThread ==
  HandleAudioBuffer \/ HandleVideoBuffer \/ StoreStatus \/ AnswerJoined \/ AnswerDisconnected

-----------------------------------------------------------------------------
(***************************************************************************)
(* main.                                                                   *)
(***************************************************************************)

\* A notification or its timeout ends the wait; only the former asks.
Await(pc, notified, question) ==
  /\ mainPc = pc
  /\ \/ /\ notified
        /\ mainPc' = question
        /\ collected' = Append(collected, [kind |-> question])
     \/ mainPc' = "returning" /\ UNCHANGED collected
  /\ UNCHANGED <<now, playoutVars, trackVars, clientVars, stopped, fileVars, status, noticeVars>>

WaitForJoined == Await("waitJoined", joinNotified, "askJoined")
WaitForDisconnected == Await("waitDisconnected", disconnectNotified, "askDisconnected")

\* The collection is over: LeaveConference, an error once disconnected.  The
\* client has joined, so the server is asked and main waits.
Leave ==
  /\ mainPc = "collecting"
  /\ mainPc' = IF session = "disconnected" THEN "returning" ELSE "waitDisconnected"
  /\ UNCHANGED <<now, playoutVars, trackVars, clientVars, collected, stopped, fileVars,
                 status, noticeVars>>

\* Mutant: the locals are destroyed in the order of their declaration.
DestroyCollectorFirst ==
  /\ mainPc = "returning"
  /\ mainPc' = "killing"
  /\ tasks' = Append(tasks, [kind |-> "kill"])
  /\ collected' = <<>>
  /\ stopped' = TRUE
  /\ UNCHANGED <<now, playoutVars, trackVars, session, link, clientPc, fileVars,
                 status, noticeVars>>

\* main returns: ~MediaApiClient begins with a task it waits for ...
DestroyClient ==
  /\ mainPc = "returning"
  /\ mainPc' = "killing"
  /\ tasks' = Append(tasks, [kind |-> "kill"])
  /\ UNCHANGED <<now, playoutVars, trackVars, session, link, clientPc, collected, stopped,
                 fileVars, status, noticeVars>>

\* ... closes the connection, whose factory ends the playout, and drops what
\* the client thread has not run ...
CloseClient ==
  /\ mainPc = "closing"
  /\ clientPc = "idle"
  /\ \/ StopPlayout
     \/ playout = "none" /\ UNCHANGED <<now, playoutVars>>
  /\ mainPc' = "stopping"
  /\ link' = "closed"
  /\ tasks' = <<>>
  /\ UNCHANGED <<trackVars, session, clientPc, collected, stopped, fileVars, status, noticeVars>>

\* ... and ~SingleUserMediaCollector stops its thread, dropping its tasks.
DestroyCollector ==
  /\ mainPc = "stopping"
  /\ mainPc' = "exited"
  /\ stopped' = TRUE
  /\ collected' = <<>>
  /\ UNCHANGED <<now, playoutVars, trackVars, clientVars, fileVars, status, noticeVars>>

Main ==
  WaitForJoined \/ Leave \/ WaitForDisconnected \/ DestroyClient \/ CloseClient \/ DestroyCollector

Terminated == mainPc = "exited" /\ UNCHANGED vars

-----------------------------------------------------------------------------
Next ==
  \/ SourceAppears \/ ProcessPlayData \/ Playout
  \/ OnVideoFrame \/ OnJoined \/ \E s \in Statuses : EndSession(s)
  \/ ClientThread \/ CollectorThread \/ Main
  \/ Terminated

\* Threads with something to do get to do it, a call into WebRTC returns, and
\* main's sleep and timeouts end; WebRTC, the server and the frames are free.
Spec ==
  /\ Init /\ [][Next]_vars
  /\ WF_vars(ClientThread) /\ WF_vars(CollectorThread) /\ WF_vars(Main)
  /\ WF_vars(Reschedule /\ UNCHANGED recordingVars)

-----------------------------------------------------------------------------
(***************************************************************************)
(* Properties.                                                             *)
(***************************************************************************)

\* Does a file hold frame i of the given size, in its order?
Holds(file, i) ==
  \E k \in 1..Len(file) : file[k] = i /\ \A j \in 1..(k - 1) : file[j] < i

\* When the application learns of the disconnection, every frame the observer
\* was given is in its file, in order and under its own resolution: nothing is
\* still on the way through the collector thread, and no new segment has
\* truncated the file of an earlier one.
RecordingIsComplete ==
  disconnectNotified =>
    /\ audioFile = heard
    /\ \A i \in 1..shown :
         \E f \in FileNames : f.size = Video[i] /\ Holds(videoFiles[f], i)

\* main comes to its end: the client thread waiting for the collector thread in
\* OnDisconnected, main waiting for either, and the destructors waiting for
\* both never wait for each other in a circle.
MainReturns == <>(mainPc = "exited")

=============================================================================
