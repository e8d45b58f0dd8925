---------------------------- MODULE MediaApiClient ----------------------------
(***************************************************************************)
(* The C++ Meet Media API client (cpp/internal/media_api_client.{h,cc}),   *)
(* with the peer connection, data channels and media tracks it drives.     *)
(*                                                                         *)
(* Threads: the application's threads (Callers, and the one that destroys  *)
(* the client), the client thread (a FIFO of posted tasks), WebRTC's       *)
(* network thread (data channel messages) and its signaling and media      *)
(* threads (statistics, connection changes, frames).  A step is what a     *)
(* thread does between two points where another one can interfere: a lock, *)
(* a posted task, a blocking call, an observer callback.                   *)
(***************************************************************************)
EXTENDS Naturals, Sequences, FiniteSets

CONSTANTS
  Callers,            \* application threads that use the client
  Intervals,          \* upload intervals the server may configure; 0 disables
  MaxJoinedUpdates,   \* bound: updates with status joined the server sends
  MaxConfigs,         \* statistics configurations the server sends
  MaxExtras,          \* bound: configurations, other updates and audio buffers in all
  LinkMayFail         \* may the connection become kFailed?

ASSUME CallersAssumption == IsFiniteSet(Callers)
ASSUME IntervalsAssumption == Intervals \subseteq Nat
ASSUME BoundsAssumption ==
  /\ MaxJoinedUpdates \in Nat
  /\ MaxExtras \in Nat
\* HandleMessageFromServer: "Only 1 MediaStatsChannelToClient update is
\* expected from the server"; stats_config_ has no lock because of it.
ASSUME OneConfigAssumption == MaxConfigs \in {0, 1}
ASSUME LinkAssumption == LinkMayFail \in BOOLEAN

VARIABLES
  state,              \* state_
  mutex,              \* mutex_: "free", or "network" while OnJoined runs under it
  callerPc,           \* where each application thread is
  seen,               \* the state LeaveConference copied out of the lock
  queue,              \* tasks posted to client_thread_
  clientPc,           \* where the client thread is
  closing,            \* status of the disconnection under way on the client thread
  netPc,              \* where the network thread is
  netMsg,             \* the update the network thread is handling
  alive,              \* alive_flag_
  dtorPc,             \* where ~MediaApiClient is
  pc,                 \* the peer connection
  tracks,             \* media_tracks_ and the audio tracks' safety flags
  interval,           \* stats_config_.upload_interval
  statsPending,       \* GetStats calls not answered yet
  timers,             \* delayed CollectStats tasks
  server,             \* what the server last said of this session
  leaveSent,          \* a leave request has reached the server
  joinedUpdates, configs, others,  \* used up bounds; others: updates and buffers
  joinedCalls, disconnectedCalls, lastCall, lastStatus  \* observer callbacks

callVars == <<joinedCalls, disconnectedCalls, lastCall, lastStatus>>
appVars == <<callerPc, seen>>
clientVars == <<clientPc, closing>>
netVars == <<netPc, netMsg>>
dtorVars == <<alive, dtorPc>>
linkVars == <<pc, tracks>>
statsVars == <<interval, statsPending, timers>>
serverVars == <<server, leaveSent>>
boundVars == <<joinedUpdates, configs, others>>

vars == <<state, mutex, queue, callVars, appVars, clientVars, netVars, dtorVars,
          linkVars, statsVars, serverVars, boundVars>>

-----------------------------------------------------------------------------
States == {"ready", "connecting", "joining", "joined", "disconnected"}
Updates == {"joined", "disconnected", "stats", "other"}

\* The absl::Status values that tell disconnections apart.
Errors == {"connect_failed", "peer_closed", "leave_before_joined"}
Statuses == Errors \cup {"none", "ok"}

\* Mutant: the audio tracks' destructor task is wrapped as well.
ResetTracksGuardedToo == {"connect", "disconnect", "collect", "report", "resetTracks"}

\* Mutant: the report's task is posted without its wrapper.
ReportUnguarded == {"connect", "disconnect", "collect"}

\* Tasks wrapped in SafeTask(alive_flag_, ...): void once the flag is down.
GuardedKinds == {"connect", "disconnect", "collect", "report"}
\* The others: a track's own flag guards "audio"; the destructor waits for the rest.
TaskKinds == GuardedKinds \cup {"audio", "kill", "resetTracks"}
Tasks == [kind : TaskKinds, status : Statuses]

Task(k) == [kind |-> k, status |-> "none"]
DisconnectTask(s) == [kind |-> "disconnect", status |-> s]

ConnectSteps == {"setLocal", "http", "setRemote"}

TypeOK ==
  /\ state \in States
  /\ mutex \in {"free", "network"}
  /\ callerPc \in [Callers -> {"idle", "posting", "leaving"}]
  /\ seen \in [Callers -> States \cup {"none"}]
  /\ queue \in Seq(Tasks)
  /\ clientPc \in {"idle", "connected", "closing", "notifying", "sendStats"}
                    \cup ConnectSteps
  /\ closing \in Statuses
  /\ netPc \in {"idle", "handle", "onJoined"}
  /\ netMsg \in Updates \cup {"none"}
  /\ alive \in BOOLEAN
  /\ dtorPc \in {"none", "killing", "closing", "resetting", "destroying", "destroyed"}
  /\ pc \in {"new", "negotiated", "up", "failed", "closed"}
  /\ tracks \in {"none", "signaled", "reset"}
  /\ interval \in Intervals \cup {0}
  /\ statsPending \in Nat
  /\ timers \in Nat
  /\ server \in {"waiting", "joined", "disconnected"}
  /\ leaveSent \in BOOLEAN
  /\ joinedUpdates \in Nat
  /\ configs \in Nat
  /\ others \in Nat
  /\ joinedCalls \in Nat
  /\ disconnectedCalls \in Nat
  /\ lastCall \in {"none", "OnJoined", "OnDisconnected", "data"}
  /\ lastStatus \in Statuses

Init ==
  /\ state = "ready"
  /\ mutex = "free"
  /\ callerPc = [c \in Callers |-> "idle"]
  /\ seen = [c \in Callers |-> "none"]
  /\ queue = <<>>
  /\ clientPc = "idle"
  /\ closing = "none"
  /\ netPc = "idle"
  /\ netMsg = "none"
  /\ alive = TRUE
  /\ dtorPc = "none"
  /\ pc = "new"
  /\ tracks = "none"
  /\ interval = 0
  /\ statsPending = 0
  /\ timers = 0
  /\ server = "waiting"
  /\ leaveSent = FALSE
  /\ joinedUpdates = 0 /\ configs = 0 /\ others = 0
  /\ joinedCalls = 0 /\ disconnectedCalls = 0
  /\ lastCall = "none" /\ lastStatus = "none"

-----------------------------------------------------------------------------
(***************************************************************************)
(* Application threads.                                                    *)
(***************************************************************************)

\* Calls into a client are made before its destruction starts.
InUse == dtorPc = "none"

\* ConnectActiveConference: the state changes under the lock; in any other
\* state than ready the call returns an error and changes nothing.
ConnectActiveConference(c) ==
  /\ InUse
  /\ callerPc[c] = "idle"
  /\ mutex = "free"
  /\ state = "ready"
  /\ state' = "connecting"
  /\ callerPc' = [callerPc EXCEPT ![c] = "posting"]
  /\ UNCHANGED <<mutex, seen, queue, callVars, clientVars, netVars,
                 dtorVars, linkVars, statsVars, serverVars, boundVars>>

\* ... and the task is posted after the lock is released.
PostConnect(c) ==
  /\ callerPc[c] = "posting"
  /\ callerPc' = [callerPc EXCEPT ![c] = "idle"]
  /\ queue' = Append(queue, Task("connect"))
  /\ UNCHANGED <<state, mutex, seen, callVars, clientVars, netVars, dtorVars,
                 linkVars, statsVars, serverVars, boundVars>>

\* LeaveConference copies the state out of the lock (each caller leaves at
\* most once here); in the disconnected state it returns an error.
LeaveRead(c) ==
  /\ InUse
  /\ callerPc[c] = "idle"
  /\ seen[c] = "none"
  /\ mutex = "free"
  /\ seen' = [seen EXCEPT ![c] = state]
  /\ callerPc' = [callerPc EXCEPT ![c] =
                    IF state = "disconnected" THEN "idle" ELSE "leaving"]
  /\ UNCHANGED <<state, mutex, queue, callVars, clientVars, netVars,
                 dtorVars, linkVars, statsVars, serverVars, boundVars>>

\* Mutant: a leave of a joined session disconnects at once as well.
LeaveSendAlways(c) ==
  /\ callerPc[c] = "leaving"
  /\ callerPc' = [callerPc EXCEPT ![c] = "idle"]
  /\ leaveSent' = (leaveSent \/ pc = "up")
  /\ queue' = Append(queue, DisconnectTask("leave_before_joined"))
  /\ UNCHANGED <<state, mutex, seen, callVars, clientVars, netVars,
                 dtorVars, linkVars, statsVars, server, boundVars>>

\* Mutant: in the joining state the client waits for the server's answer.
LeaveSendWhileJoining(c) ==
  /\ callerPc[c] = "leaving"
  /\ callerPc' = [callerPc EXCEPT ![c] = "idle"]
  /\ leaveSent' = (leaveSent \/ pc = "up")
  /\ queue' = IF seen[c] \in {"joining", "joined"} THEN queue
              ELSE Append(queue, DisconnectTask("leave_before_joined"))
  /\ UNCHANGED <<state, mutex, seen, callVars, clientVars, netVars,
                 dtorVars, linkVars, statsVars, server, boundVars>>

\* ... sends the leave request, which an open channel takes to the server,
\* and judges by the copy whether to disconnect at once.
LeaveSend(c) ==
  /\ callerPc[c] = "leaving"
  /\ callerPc' = [callerPc EXCEPT ![c] = "idle"]
  /\ leaveSent' = (leaveSent \/ pc = "up")
  /\ queue' = IF seen[c] = "joined" THEN queue
              ELSE Append(queue, DisconnectTask("leave_before_joined"))
  /\ UNCHANGED <<state, mutex, seen, callVars, clientVars, netVars,
                 dtorVars, linkVars, statsVars, server, boundVars>>

-----------------------------------------------------------------------------
(***************************************************************************)
(* The client thread: runs the posted tasks one by one, in order.          *)
(***************************************************************************)

\* The task at the head of the queue is of kind k and is now run.
Takes(k) ==
  /\ clientPc = "idle"
  /\ queue # <<>>
  /\ Head(queue).kind = k
  /\ k \in GuardedKinds => alive
  /\ queue' = Tail(queue)

\* SafeTask: a task whose flag is down does nothing.
DropDeadTask ==
  /\ clientPc = "idle"
  /\ queue # <<>>
  /\ \/ Head(queue).kind \in GuardedKinds /\ ~alive
     \/ Head(queue).kind = "audio" /\ tracks = "reset"
  /\ queue' = Tail(queue)
  /\ UNCHANGED <<state, mutex, callVars, appVars, clientVars, netVars, dtorVars,
                 linkVars, statsVars, serverVars, boundVars>>

\* ConferencePeerConnection::Connect begins; nothing checks the state first.
RunConnect ==
  /\ Takes("connect")
  /\ clientPc' = "setLocal"
  /\ UNCHANGED <<state, mutex, closing, callVars, appVars, netVars, dtorVars,
                 linkVars, statsVars, serverVars, boundVars>>

\* The local description is set, then the HTTP request answered.
ConnectProgress ==
  /\ \/ clientPc = "setLocal" /\ clientPc' = "http"
     \/ clientPc = "http" /\ clientPc' = "setRemote"
  /\ UNCHANGED <<state, mutex, queue, closing, callVars, appVars, netVars, dtorVars,
                 linkVars, statsVars, serverVars, boundVars>>

\* The remote description is set; the tracks are signaled before Connect
\* returns, and from here on the connection may come up.  Should a closed peer
\* connection return OK here, it stays closed.
SetRemote ==
  /\ clientPc = "setRemote"
  /\ clientPc' = "connected"
  /\ IF pc = "closed" THEN UNCHANGED linkVars
     ELSE pc' = "negotiated" /\ tracks' = "signaled"
  /\ UNCHANGED <<state, mutex, queue, closing, callVars, appVars, netVars, dtorVars,
                 statsVars, serverVars, boundVars>>

\* Mutant: MaybeDisconnect does not look whether the client has disconnected.
DisconnectAlways(s) ==
  /\ mutex = "free"
  /\ state' = "disconnected"
  /\ clientPc' = "closing"
  /\ closing' = s

\* MaybeDisconnect(s) on the client thread, up to the release of the lock.
DisconnectWith(s) ==
  /\ mutex = "free"
  /\ IF state = "disconnected"
     THEN /\ clientPc' = "idle"
          /\ UNCHANGED <<state, closing>>
     ELSE /\ state' = "disconnected"
          /\ clientPc' = "closing"
          /\ closing' = s

\* Mutant: a connection error ends the task without MaybeDisconnect.
ConnectFailsSilently ==
  /\ clientPc \in ConnectSteps
  /\ clientPc' = "idle"
  /\ UNCHANGED <<state, mutex, queue, closing, callVars, appVars, netVars, dtorVars,
                 linkVars, statsVars, serverVars, boundVars>>

\* Connect returns an error at any of its steps.
ConnectFails ==
  /\ clientPc \in ConnectSteps
  /\ DisconnectWith("connect_failed")
  /\ UNCHANGED <<mutex, queue, callVars, appVars, netVars, dtorVars,
                 linkVars, statsVars, serverVars, boundVars>>

\* Connect returned OK: joining, unless the client left the connecting state.
StartJoining ==
  /\ clientPc = "connected"
  /\ mutex = "free"
  /\ clientPc' = "idle"
  /\ state' = IF state = "connecting" THEN "joining" ELSE state
  /\ UNCHANGED <<mutex, queue, closing, callVars, appVars, netVars, dtorVars,
                 linkVars, statsVars, serverVars, boundVars>>

\* A posted MaybeDisconnect.
RunDisconnect ==
  /\ Takes("disconnect")
  /\ DisconnectWith(Head(queue).status)
  /\ UNCHANGED <<mutex, callVars, appVars, netVars, dtorVars,
                 linkVars, statsVars, serverVars, boundVars>>

\* WebRTC may report kClosed when an open peer connection is closed, for which
\* OnConnectionChange posts another disconnect.
QueuesAfterClose ==
  IF pc = "closed" THEN {queue}
  ELSE {queue, Append(queue, DisconnectTask("peer_closed"))}

\* MaybeDisconnect: conference_peer_connection_->Close(), which waits for the
\* network thread ...
CloseConnection ==
  /\ clientPc = "closing"
  /\ netPc = "idle"
  /\ pc' = "closed"
  /\ queue' \in QueuesAfterClose
  /\ clientPc' = "notifying"
  /\ UNCHANGED <<state, mutex, closing, callVars, appVars, netVars, dtorVars,
                 tracks, statsVars, serverVars, boundVars>>

\* Mutant: OnDisconnected may be called before the connection is closed.
NotifyBeforeClose ==
  /\ clientPc \in {"closing", "notifying"}
  /\ clientPc' = "idle"
  /\ disconnectedCalls' = disconnectedCalls + 1
  /\ lastCall' = "OnDisconnected"
  /\ lastStatus' = closing
  /\ UNCHANGED <<state, mutex, queue, closing, joinedCalls, appVars, netVars, dtorVars,
                 linkVars, statsVars, serverVars, boundVars>>

\* ... and then observer_->OnDisconnected(status).
NotifyDisconnected ==
  /\ clientPc = "notifying"
  /\ clientPc' = "idle"
  /\ disconnectedCalls' = disconnectedCalls + 1
  /\ lastCall' = "OnDisconnected"
  /\ lastStatus' = closing
  /\ closing' = "none"
  /\ UNCHANGED <<state, mutex, queue, joinedCalls, appVars, netVars, dtorVars,
                 linkVars, statsVars, serverVars, boundVars>>

\* Mutant: the next collection is scheduled here as well as after the report.
CollectAndReschedule ==
  /\ Takes("collect")
  /\ statsPending' = IF interval = 0 THEN statsPending ELSE statsPending + 1
  /\ timers' = timers + 1
  /\ UNCHANGED <<state, mutex, callVars, appVars, clientVars, netVars, dtorVars,
                 linkVars, interval, serverVars, boundVars>>

\* CollectStats: an interval of 0 ends the collection.
RunCollectStats ==
  /\ Takes("collect")
  /\ statsPending' = IF interval = 0 THEN statsPending ELSE statsPending + 1
  /\ UNCHANGED <<state, mutex, callVars, appVars, clientVars, netVars, dtorVars,
                 linkVars, interval, timers, serverVars, boundVars>>

\* The posted report task reads the state under the lock ...
RunReport ==
  /\ Takes("report")
  /\ mutex = "free"
  /\ clientPc' = IF state = "disconnected" THEN "idle" ELSE "sendStats"
  /\ UNCHANGED <<state, mutex, closing, callVars, appVars, netVars, dtorVars,
                 linkVars, statsVars, serverVars, boundVars>>

\* ... then sends the request and posts the next collection with a delay.
SendStats ==
  /\ clientPc = "sendStats"
  /\ clientPc' = "idle"
  /\ timers' = timers + 1
  /\ UNCHANGED <<state, mutex, queue, closing, callVars, appVars, netVars, dtorVars,
                 linkVars, interval, statsPending, serverVars, boundVars>>

\* ConferenceAudioTrack's task: a closed connection's receiver has no
\* sources, and a buffer without sources reaches no callback.
RunAudio ==
  /\ Takes("audio")
  /\ tracks # "reset"
  /\ \/ pc # "closed" /\ lastCall' = "data"
     \/ UNCHANGED lastCall
  /\ UNCHANGED <<state, mutex, joinedCalls, disconnectedCalls, lastStatus, appVars,
                 clientVars, netVars, dtorVars, linkVars, statsVars, serverVars,
                 boundVars>>

\* ~MediaApiClient's blocking call takes the flag down on the client thread.
RunKill ==
  /\ Takes("kill")
  /\ alive' = FALSE
  /\ dtorPc' = "closing"
  /\ UNCHANGED <<state, mutex, callVars, appVars, clientVars, netVars,
                 linkVars, statsVars, serverVars, boundVars>>

\* ~ConferenceAudioTrack's blocking call takes the track's flag down.
RunResetTracks ==
  /\ Takes("resetTracks")
  /\ tracks' = "reset"
  /\ dtorPc' = "destroying"
  /\ UNCHANGED <<state, mutex, callVars, appVars, clientVars, netVars, alive, pc,
                 statsVars, serverVars, boundVars>>

ClientThread ==
  \/ DropDeadTask \/ RunConnect \/ ConnectProgress \/ SetRemote \/ ConnectFails
  \/ StartJoining \/ RunDisconnect \/ CloseConnection \/ NotifyDisconnected
  \/ RunCollectStats \/ RunReport \/ SendStats
  \/ RunAudio \/ RunKill \/ RunResetTracks

-----------------------------------------------------------------------------
(***************************************************************************)
(* The network thread: ConferenceDataChannel::OnMessage and                *)
(* HandleMessageFromServer.                                                *)
(***************************************************************************)

\* The server sends update m: a session status while the session lasts, one
\* statistics configuration, anything else.
Sends(m) ==
  /\ \/ /\ m = "joined"
        /\ server # "disconnected"
        /\ joinedUpdates < MaxJoinedUpdates
        /\ joinedUpdates' = joinedUpdates + 1
        /\ server' = "joined"
        /\ UNCHANGED <<configs, others>>
     \/ /\ m = "disconnected"
        /\ server # "disconnected"
        /\ server' = "disconnected"
        /\ UNCHANGED <<joinedUpdates, configs, others>>
     \/ /\ m = "stats"
        /\ configs < MaxConfigs
        /\ configs + others < MaxExtras
        /\ configs' = configs + 1
        /\ UNCHANGED <<server, joinedUpdates, others>>
     \/ /\ m = "other"
        /\ configs + others < MaxExtras
        /\ others' = others + 1
        /\ UNCHANGED <<server, joinedUpdates, configs>>
  /\ UNCHANGED leaveSent

\* An update arrives; the observer sees every one before it is looked into.
Deliver(m) ==
  /\ netPc = "idle"
  /\ pc = "up"
  /\ Sends(m)
  /\ netPc' = "handle"
  /\ netMsg' = m
  /\ lastCall' = "data"
  /\ UNCHANGED <<state, mutex, queue, joinedCalls, disconnectedCalls, lastStatus,
                 appVars, clientVars, dtorVars, linkVars, statsVars>>

\* Responses and resources the client itself does not act on.
HandleOther ==
  /\ netPc = "handle"
  /\ netMsg = "other"
  /\ netMsg' = "none"
  /\ netPc' = "idle"
  /\ UNCHANGED <<state, mutex, queue, callVars, appVars, clientVars, dtorVars,
                 linkVars, statsVars, serverVars, boundVars>>

\* Mutant: OnJoined is called after the lock is released.
HandleJoinedUnlocked ==
  /\ netPc = "handle"
  /\ netMsg = "joined"
  /\ netMsg' = "none"
  /\ mutex = "free"
  /\ IF state = "joining" THEN state' = "joined" /\ netPc' = "onJoined"
     ELSE netPc' = "idle" /\ UNCHANGED state
  /\ UNCHANGED <<mutex, queue, callVars, appVars, clientVars, dtorVars,
                 linkVars, statsVars, serverVars, boundVars>>

\* Status kJoined: the state changes in joining only, and OnJoined is called
\* with the lock held.
HandleJoined ==
  /\ netPc = "handle"
  /\ netMsg = "joined"
  /\ netMsg' = "none"
  /\ mutex = "free"
  /\ IF state = "joining"
     THEN state' = "joined" /\ mutex' = "network" /\ netPc' = "onJoined"
     ELSE netPc' = "idle" /\ UNCHANGED <<state, mutex>>
  /\ UNCHANGED <<queue, callVars, appVars, clientVars, dtorVars,
                 linkVars, statsVars, serverVars, boundVars>>

\* OnJoined runs and the lock is released (an observer that calls back into
\* the client would wait for that lock and never return).
OnJoined ==
  /\ netPc = "onJoined"
  /\ joinedCalls' = joinedCalls + 1
  /\ lastCall' = "OnJoined"
  /\ mutex' = "free"
  /\ netPc' = "idle"
  /\ UNCHANGED <<state, queue, netMsg, disconnectedCalls, lastStatus, appVars,
                 clientVars, dtorVars, linkVars, statsVars, serverVars, boundVars>>

\* Mutant: MaybeDisconnect goes on in the network thread, whose Close() waits
\* for the network thread.
DisconnectInline ==
  /\ netPc = "handle"
  /\ netMsg = "disconnected"
  /\ mutex = "free"
  /\ state # "disconnected"
  /\ state' = "disconnected"
  /\ UNCHANGED <<mutex, queue, netVars, callVars, appVars, clientVars, dtorVars,
                 linkVars, statsVars, serverVars, boundVars>>

\* Status kDisconnected: MaybeDisconnect(OK), posted to the client thread.
HandleDisconnected ==
  /\ netPc = "handle"
  /\ netMsg = "disconnected"
  /\ netMsg' = "none"
  /\ netPc' = "idle"
  /\ queue' = Append(queue, DisconnectTask("ok"))
  /\ UNCHANGED <<state, mutex, callVars, appVars, clientVars, dtorVars,
                 linkVars, statsVars, serverVars, boundVars>>

\* A statistics configuration: stored, and the collection is started.
HandleStats ==
  /\ netPc = "handle"
  /\ netMsg = "stats"
  /\ netMsg' = "none"
  /\ netPc' = "idle"
  /\ interval' \in Intervals
  /\ queue' = Append(queue, Task("collect"))
  /\ UNCHANGED <<state, mutex, callVars, appVars, clientVars, dtorVars,
                 linkVars, statsPending, timers, serverVars, boundVars>>

NetworkHandler ==
  HandleOther \/ HandleJoined \/ OnJoined \/ HandleDisconnected \/ HandleStats

-----------------------------------------------------------------------------
(***************************************************************************)
(* WebRTC's other threads.                                                 *)
(***************************************************************************)

\* ICE, DTLS and SCTP complete: updates and frames can arrive.
ConnectionUp ==
  /\ pc = "negotiated"
  /\ pc' = "up"
  /\ UNCHANGED <<state, mutex, queue, callVars, appVars, clientVars, netVars, dtorVars,
                 tracks, statsVars, serverVars, boundVars>>

\* kFailed: OnConnectionChange returns at once.
ConnectionFails ==
  /\ LinkMayFail
  /\ pc \in {"negotiated", "up"}
  /\ pc' = "failed"
  /\ UNCHANGED <<state, mutex, queue, callVars, appVars, clientVars, netVars, dtorVars,
                 tracks, statsVars, serverVars, boundVars>>

\* kClosed from outside the client: OnConnectionChange calls MaybeDisconnect.
ConnectionCloses ==
  /\ pc \in {"negotiated", "up", "failed"}
  /\ netPc = "idle"
  /\ pc' = "closed"
  /\ queue' = Append(queue, DisconnectTask("peer_closed"))
  /\ UNCHANGED <<state, mutex, callVars, appVars, clientVars, netVars, dtorVars,
                 tracks, statsVars, serverVars, boundVars>>

\* OnStatsDelivered posts the report to the client thread.
DeliverStats ==
  /\ statsPending > 0
  /\ statsPending' = statsPending - 1
  /\ queue' = Append(queue, Task("report"))
  /\ UNCHANGED <<state, mutex, callVars, appVars, clientVars, netVars, dtorVars,
                 linkVars, interval, timers, serverVars, boundVars>>

\* The delay of the next collection is over.
FireTimer ==
  /\ timers > 0
  /\ timers' = timers - 1
  /\ queue' = Append(queue, Task("collect"))
  /\ UNCHANGED <<state, mutex, callVars, appVars, clientVars, netVars, dtorVars,
                 linkVars, interval, statsPending, serverVars, boundVars>>

\* ConferenceAudioTrack::OnData copies the buffer and posts the task.
OnAudioData ==
  /\ pc = "up"
  /\ tracks = "signaled"
  /\ configs + others < MaxExtras
  /\ others' = others + 1
  /\ queue' = Append(queue, Task("audio"))
  /\ UNCHANGED <<state, mutex, callVars, appVars, clientVars, netVars, dtorVars,
                 linkVars, statsVars, serverVars, joinedUpdates, configs>>

\* ConferenceVideoTrack::OnFrame calls the observer from the media thread.
OnVideoFrame ==
  /\ pc = "up"
  /\ tracks = "signaled"
  /\ lastCall' = "data"
  /\ UNCHANGED <<state, mutex, queue, joinedCalls, disconnectedCalls, lastStatus,
                 appVars, clientVars, netVars, dtorVars, linkVars, statsVars,
                 serverVars, boundVars>>

-----------------------------------------------------------------------------
(***************************************************************************)
(* ~MediaApiClient, then its members in reverse order of declaration:      *)
(* media tracks, data channels, peer connection, client thread.            *)
(***************************************************************************)

\* No call into the client is in progress when it is destroyed.
BeginDestroy ==
  /\ InUse
  /\ \A c \in Callers : callerPc[c] = "idle"
  /\ dtorPc' = "killing"
  /\ queue' = Append(queue, Task("kill"))
  /\ UNCHANGED <<state, mutex, alive, callVars, appVars, clientVars, netVars,
                 linkVars, statsVars, serverVars, boundVars>>

\* Close(), then the audio tracks' destructors if there are any.
DestroyClose ==
  /\ dtorPc = "closing"
  /\ netPc = "idle"
  /\ pc' = "closed"
  /\ \E q \in QueuesAfterClose :
       IF tracks = "signaled"
       THEN dtorPc' = "resetting" /\ queue' = Append(q, Task("resetTracks"))
       ELSE dtorPc' = "destroying" /\ queue' = q
  /\ UNCHANGED <<state, mutex, alive, callVars, appVars, clientVars, netVars,
                 tracks, statsVars, serverVars, boundVars>>

\* Mutant: the client thread is destroyed before the peer connection.
DestroyThreadFirst ==
  /\ dtorPc = "destroying"
  /\ clientPc = "idle"
  /\ dtorPc' = "destroyed"
  /\ queue' = <<>>
  /\ timers' = 0
  /\ UNCHANGED <<state, mutex, alive, callVars, appVars, clientVars, netVars,
                 linkVars, interval, statsPending, serverVars, boundVars>>

\* Destroying the peer connection waits for its pending GetStats; stopping
\* the client thread, declared first and destroyed last, drops its tasks.
DestroyMembers ==
  /\ dtorPc = "destroying"
  /\ statsPending = 0
  /\ clientPc = "idle"
  /\ dtorPc' = "destroyed"
  /\ queue' = <<>>
  /\ timers' = 0
  /\ UNCHANGED <<state, mutex, alive, callVars, appVars, clientVars, netVars,
                 linkVars, interval, statsPending, serverVars, boundVars>>

\* The one legitimate end: the client is gone.
Terminated ==
  /\ dtorPc = "destroyed"
  /\ UNCHANGED vars

-----------------------------------------------------------------------------
Next ==
  \/ \E c \in Callers :
       ConnectActiveConference(c) \/ PostConnect(c) \/ LeaveRead(c) \/ LeaveSend(c)
  \/ ClientThread
  \/ \E m \in Updates : Deliver(m)
  \/ NetworkHandler
  \/ ConnectionUp \/ ConnectionFails \/ ConnectionCloses
  \/ DeliverStats \/ FireTimer
  \/ OnAudioData \/ OnVideoFrame
  \/ BeginDestroy \/ DestroyClose \/ DestroyMembers
  \/ Terminated

Spec == Init /\ [][Next]_vars

\* Threads that have something to do get to do it.  Connect ends because its
\* HTTP request has a timeout, and the server answers a leave request of a
\* joined session with the status kDisconnected; the application, the other
\* updates, the link and the frames are left free.
Fairness ==
  /\ WF_vars(ClientThread)
  /\ WF_vars(NetworkHandler)
  /\ WF_vars(DeliverStats)
  /\ WF_vars(FireTimer)
  /\ WF_vars(DestroyClose)
  /\ WF_vars(DestroyMembers)
  /\ WF_vars(leaveSent /\ server = "joined" /\ Deliver("disconnected"))
  /\ \A c \in Callers : WF_vars(PostConnect(c)) /\ WF_vars(LeaveSend(c))

FairSpec == Spec /\ Fairness

-----------------------------------------------------------------------------
(***************************************************************************)
(* Safety.                                                                 *)
(***************************************************************************)
Contract == INSTANCE ObserverContract
              WITH joinedCalls <- joinedCalls, disconnectedCalls <- disconnectedCalls,
                   lastCall <- lastCall

\* The client implements the observer's contract: OnJoined and OnDisconnected
\* at most once each, and no callback of any thread after OnDisconnected.
ImplementsContract == Contract!Spec

\* LeaveConference judges by a copy of the state taken out of the lock: a
\* caller that saw "joined" saw it after OnJoined had returned, because the
\* lock is held across that callback.
JoinedSeenAfterOnJoined ==
  \A c \in Callers : seen[c] = "joined" => joinedCalls = 1

\* When OnDisconnected has been called the peer connection is closed, no
\* update is being handled on the network thread and no disconnection is
\* under way: MaybeDisconnect closes before it notifies.
DisconnectedIsFinal ==
  disconnectedCalls > 0 =>
    /\ state = "disconnected"
    /\ pc = "closed"
    /\ netPc = "idle"
    /\ clientPc \notin {"closing", "notifying", "sendStats"}

\* However many disconnections race, the status of OnDisconnected names a cause
\* that there was: OK the server's end of the session, the error of an early
\* leave a thread that saw the client before it had joined.  (A leave between
\* the two, while the client is joining the conference, counts for either:
\* media_api_client_interface.h:187-196 calls it graceful, LeaveConference passes
\* an error.)
StatusNamesCause ==
  /\ lastStatus = "ok" =>
       server = "disconnected" \/ \E c \in Callers : seen[c] \in {"connecting", "joining"}
  /\ lastStatus = "leave_before_joined" =>
       \E c \in Callers : seen[c] \in {"ready", "connecting", "joining"}

Rank ==
  [s \in States |-> CASE s = "ready" -> 0 [] s = "connecting" -> 1 [] s = "joining" -> 2
                       [] s = "joined" -> 3 [] s = "disconnected" -> 4]

\* No race of a leave, a connection attempt and a session update takes the
\* client back to an earlier state, or out of the disconnected one.
StateOnlyAdvances == [][Rank[state'] >= Rank[state]]_vars

\* The tasks of kind k in queue q.
Count(q, k) == Cardinality({i \in 1..Len(q) : q[i].kind = k})

\* Where the statistics loop is: a collect task, a GetStats call, a report
\* task, a request being sent, a delayed task.
StatsLoops ==
  Count(queue, "collect") + statsPending + Count(queue, "report")
    + (IF clientPc = "sendStats" THEN 1 ELSE 0) + timers

\* There is one statistics loop: its stages follow each other, none is started
\* twice.
SingleStatsLoop == StatsLoops <= 1

\* No statistics request is sent by a client that has disconnected, though
\* GetStats answers late: the report task looks at the state again.
NoStatsAfterDisconnect ==
  [][clientPc = "sendStats" /\ clientPc' = "idle" => state # "disconnected"]_vars

\* Once SetNotAlive has run, no task touches the client: what the queue still
\* holds sends no request and reports no disconnection while the destructor
\* goes on.
DeadClientIsInert ==
  [][~alive => /\ clientPc' = "idle"
               /\ statsPending' <= statsPending
               /\ disconnectedCalls' = disconnectedCalls]_vars

\* After the destructor nothing is left that could call into the client: no
\* task, no timer, no pending GetStats, no update being handled, no open
\* connection and no audio track with its flag up.
DestroyedIsQuiet ==
  dtorPc = "destroyed" =>
    /\ queue = <<>> /\ timers = 0 /\ statsPending = 0
    /\ clientPc = "idle" /\ netPc = "idle"
    /\ pc = "closed" /\ tracks # "signaled"
    /\ \A c \in Callers : callerPc[c] = "idle"

-----------------------------------------------------------------------------
(***************************************************************************)
(* Liveness, under FairSpec.                                               *)
(***************************************************************************)
BeingDestroyed == dtorPc # "none"

\* A client that has entered the disconnected state reports it: closing the
\* peer connection from the client thread does not deadlock with a session
\* update handled on the network thread.
DisconnectReported ==
  state = "disconnected" ~> disconnectedCalls = 1 \/ BeingDestroyed

\* LeaveConference leads to OnDisconnected whatever state it was called in.  Only
\* a link that has failed loses the request, and nobody is told of the failure.
LeaveDisconnects ==
  \A c \in Callers :
    callerPc[c] = "leaving" ~> disconnectedCalls = 1 \/ pc = "failed" \/ BeingDestroyed

\* An accepted ConnectActiveConference does not stay in the connecting state.
ConnectResolves ==
  state = "connecting" ~> state # "connecting" \/ BeingDestroyed

\* The destructor's blocking calls on the client thread and the network
\* thread come to an end.
DestroyCompletes == dtorPc = "killing" ~> dtorPc = "destroyed"

-----------------------------------------------------------------------------
(***************************************************************************)
(* What media_api_client_interface.h says and the code does not do.        *)
(***************************************************************************)

\* "If the client successfully joins the conference, OnJoined will be called."
JoinReported ==
  server = "joined" ~> joinedCalls = 1 \/ state = "disconnected" \/ BeingDestroyed

=============================================================================
