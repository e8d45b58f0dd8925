# The Meet Media API samples in TLA+

This directory holds TLA+ specifications of the reference clients of
`src/` (a C++ client library with two sample programs, and a web client), the
TLC configurations that check them on small instances, and proofs of their most
important properties that TLAPS checks for every instance.

Contents: [1 Inventory](#1-inventory), [2 Plan](#2-plan),
[3 MediaApiClient](#3-mediaapiclient), [4 MultiUserMediaCollector](#4-multiusermediacollector),
[5 ResourceManager](#5-resourcemanager), [6 The data channels](#6-the-data-channels),
[7 SessionSetup](#7-sessionsetup), [8 SingleUserRecording](#8-singleuserrecording),
[9 WebResources](#9-webresources), [10 WebSession](#10-websession),
[11 Proofs](#11-proofs), [12 Findings](#12-findings),
[13 What is not modelled](#13-what-is-not-modelled),
[14 Running the checks](#14-running-the-checks).

The runs, in one table (states are distinct states; times are of two workers):

| Run | Module | Asks | States |
|---|---|---|---|
| `client_lifecycle` | `MediaApiClient` | the state, leaves, statuses, the observer's contract, statistics, destruction, and what must eventually happen | 456,319, 150 s |
| `client_joined_lost` | `MediaApiClient` | is a join always reported? (violated) | |
| `manager_lookups` | `ResourceManager` | owners, what is found, identifiers | 41,788 up to symmetry |
| `manager_csrcs_change` | `ResourceManager` | do the lookups point to owned objects? (violated) | |
| `collector_recording` | `MultiUserMediaCollector` | the files, the notifications, the waits | 1,623,362, 140 s |
| `collector_shared_file` | `MultiUserMediaCollector` | are temporary files distinct? (violated) | |
| `resource_channels` | `ResourceChannels` | do updates, responses, requests and uploads arrive as meant? | 104,342, two minutes |
| `session_setup` | `SessionSetup` | creation, connection and destruction with a failure anywhere | 26,520 |
| `single_recording` | `SingleUserRecording` | pace, completeness, termination | 544,475, 85 s |
| `web_resources` | `WebResources` | the maps, the lists, the spotlight and the layouts over three channels | 1,678,437, 56 s |
| `web_session` | `WebSession` | the end, the interval, the requests | 140,885, 25 s |
| `web_leave_pending` | `WebSession` | is every leave settled by the close? (violated) | |

## 1. Inventory

### The C++ client library (`src/cpp/api`, `src/cpp/internal`)

| Component | State | Operations | Hard behaviour | Correct when |
|---|---|---|---|---|
| `MediaApiClient` | `state_` under `mutex_`, `alive_flag_`, `stats_config_`, the tasks of `client_thread_` | `ConnectActiveConference`, `LeaveConference`, `SendRequest`, `HandleMessageFromServer`, `MaybeDisconnect`, `CollectStats`, the destructor | Callers, the network thread, the client thread and the destructor interleave; late statistics; blocking calls between threads | the state only advances; each lifecycle callback comes once and nothing follows `OnDisconnected`; every leave and disconnection is reported; one statistics loop; nothing runs after the destructor |
| `ConferencePeerConnection` | the WebRTC connection and its callbacks | `Connect`, `Close`, `OnConnectionChange`, `OnTrack`, `GetStats` | `Connect` takes several blocking steps while anything else goes on; `Close` waits for the network thread | a failure at any step is reported; `Close` does not deadlock |
| `ConferenceDataChannel` | the channel and its callback | `OnMessage`, `SendRequest` | messages come on the network thread | parsed updates are passed on in order |
| `ConferenceMediaTracks` | a safety flag per audio track | `OnData`, `OnFrame`, the destructor | audio goes through the client thread, video does not | no callback for a destroyed track |
| `MediaApiAudioDeviceModule` | playout queue, next run time | `StartPlayout`, `StopPlayout`, `RegisterAudioCallback`, `ProcessPlayData` | a callback or a wakeup that takes longer than the interval | never ahead of the sampling interval; no drift, no burst |
| `CurlConnector`, `CurlRequest` | none across calls | one blocking HTTP request, the reading of its response | a failure at any option or phase; a wait without a timeout; an error that says "OK" | every error is an error status; curl's objects are released; the wait ends |
| resource handlers, `StatsRequestFromReport` | none | JSON to struct and back; filtering by the allowlist | missing fields, zero values, one bad element of an update | what is understood is what was meant; what is refused leaves no trace; uploads have the listed values only |
| `MediaApiClientFactory` | none | checks and construction | a failure half way; who destroys what, on which thread | the client is complete; nothing is left after a failure |

### The C++ samples (`src/cpp/samples`)

| Component | State | Operations | Hard behaviour | Correct when |
|---|---|---|---|---|
| `MultiUserMediaCollector` | segments per source, two notifications, the disconnect status, the tasks of `collector_thread_` | the observer's callbacks, `WaitForJoined`, `WaitForDisconnected` | callbacks of three threads, a waiting application, the end of the recording | files are the unbroken stretches of each stream; a returned wait means what it says |
| `ResourceManager` | two owning maps, three maps of pointers into them | updates of participants and media entries, `GetOutputFileIdentifier` | deletions name an id only; objects are replaced while others point to them | no pointer outlives its object; a stream is filed under its owner |
| `SingleUserMediaCollector` | two writers, notifications | as above, with a blocking `OnDisconnected` | the client thread waits for the collector thread, `main` and the destructors for both | the files hold every frame when the wait returns; nothing waits in a circle |
| the sample programs | none | connect, wait, leave, wait | timeouts | they end |

### The web client (`src/web/internal`)

One JavaScript thread; concurrency is the interleaving of channel messages,
timers and what follows an `await`.

| Component | State | Hard behaviour |
|---|---|---|
| `MeetMediaApiClientImpl` | channels, subscribables | six awaits in `joinMeeting`, closing of some channels on disconnection |
| session control channel | session status, one pending leave | second leave, response, closing, a status that follows the end |
| participants and media entries channels | five maps shared by two channels, links in both directions | no order between the channels; objects are replaced |
| video assignment channel | layouts, pending requests | entries made by either channel |
| media statistics channel | interval, allowlist, pending requests | state used after an await |
| stream tracks | one frame reader per track | a media entry deleted during an await |

### How the parts interact

The application calls `MediaApiClient` from its threads.  The client posts work
to its client thread, which drives the peer connection.  WebRTC's network
thread brings data channel messages to `HandleMessageFromServer`, its signaling
thread statistics and connection changes, its media threads audio and video.
The client calls the application back through
`MediaApiClientObserverInterface`, from all these threads.  The collectors
implement that interface: each callback posts to a collector thread of their
own, which looks names up in the resource manager and writes files, while the
program's main thread waits on notifications.

## 2. Plan

The modules, in the order they were written; the most important behaviour of
the system came first.

1. `ObserverContract`: what the observer interface promises about the order of
   its callbacks.  It is the abstract specification that `MediaApiClient`
   implements, and the environment that the collector assumes.
2. `MediaApiClient`, with the connection, channels and tracks it drives;
   `MediaApiClientProofs`.
3. `ResourceManager`, `ResourceManagerProofs`.
4. `MultiUserMediaCollector`, `MultiUserMediaCollectorProofs`.
5. `WebResources`: the participants, media entries and video assignment channels
   of the web client over their shared maps, and the tracks' frame loops;
   `WebResourcesProofs`.
6. `WebSession`, `WebSessionProofs`: the web client around them.
7. `ResourceHandlers`, the C++ handlers as functions, and `ResourceChannels`,
   which composes them with the servers and the application end to end;
   `ResourceChannelsProofs`.
8. `SessionSetup`, `SessionSetupProofs`: factory, connection and HTTP request.
9. `AudioPlayout` and `SingleUserRecording`, which composes it with the tracks,
   the client thread, the collector and `main` of the single user sample;
   `SingleUserRecordingProofs`.

Every `MC` module instantiates the module of its name for TLC; `MediaApiClient`
needs none.

Every safety property and every action property of the passing runs is now a
theorem.  Left for the future, most valuable first: an abstract channel, a
sequence of updates read in order, implemented by `ResourceChannels`; an abstract
relation of media entries and participants implemented by both
`ResourceManager` and, up to the objects that were replaced, `WebResources`;
`ResourceManager` as the collector's `identifiers`.

## 3. MediaApiClient

`MediaApiClient.tla` models `src/cpp/internal/media_api_client.{h,cc}` and the
parts of `conference_peer_connection`, `conference_data_channel` and
`conference_media_tracks` it runs.

**State.** Variables carry the names of the members where there is one
(`state`, `mutex`, `alive`, `interval`).  `queue` is the FIFO of
`client_thread_`.  `callerPc`, `clientPc`, `netPc` and `dtorPc` say where each
application thread, the client thread, the network thread and the destructor
are.  `seen[c]` is the copy of `state_` that `LeaveConference` takes out of the
lock.  `pc` and `tracks` stand for the peer connection and the tracks' safety
flags.  `server` is what the server last said.  `statsPending` and `timers`
count the `GetStats` calls and delayed tasks under way.

**Steps.** A step is what a thread does between two points where another can
interfere: taking the lock, posting a task, blocking, calling the observer.

| Code | Actions |
|---|---|
| `ConnectActiveConference` | `ConnectActiveConference` (under the lock), `PostConnect` (after it) |
| its task and `ConferencePeerConnection::Connect` | `RunConnect`, `ConnectProgress`, `SetRemote`, `ConnectFails`, `StartJoining` |
| `LeaveConference` | `LeaveRead`, `LeaveSend` |
| `MaybeDisconnect` | `RunDisconnect` or `ConnectFails`, `CloseConnection`, `NotifyDisconnected` |
| `HandleMessageFromServer` | `Deliver` and one `Handle...` per kind of update; `OnJoined` runs under the lock |
| `CollectStats` | `RunCollectStats`, `DeliverStats`, `RunReport`, `SendStats`, `FireTimer` |
| tracks | `OnAudioData`, `RunAudio`, `OnVideoFrame` |
| `~MediaApiClient` | `BeginDestroy`, `RunKill`, `DestroyClose`, `RunResetTracks`, `DestroyMembers` |
| `SafeTask` | the guard of `Takes`, `DropDeadTask` |

`SendRequest` only hands a message to a channel and changes nothing this model
holds; [the data channels](#6-the-data-channels) have it.  What WebRTC does is
taken from how the code uses it: `Close` waits for the network thread, a closed
receiver has no sources (so an audio task queued before reaches no callback),
destroying the connection waits for pending statistics, `Connect` on a closed
connection may fail at any step or return OK.  An observer that leaves from a
callback *on the client thread itself* (where `MaybeDisconnect` runs inline) is
not modelled.

`client_lifecycle` asks all of it in one state space: the state, what a leaving
thread may conclude, statuses and the contract, statistics and destruction and,
under fairness, reports, leaves, connections and the destructor.

`JoinedSeenAfterOnJoined` is why `OnJoined` is called under the lock: a thread
whose leave saw the joined state relies on the server to end the session, so
its observer must have heard of the join.  `DisconnectedIsFinal` and
`ImplementsContract` depend on the order close-then-notify and on the state
being checked once under the lock, however many disconnections race.
`SingleStatsLoop` counts collect tasks, pending reports, report tasks,
requests being sent and timers.  `DeadClientIsInert` and `DestroyedIsQuiet`
are the two halves of a safe destruction: nothing has an effect once the flag
is down, and nothing is left when the destructor is done.  `StatusNamesCause`
says that the status of `OnDisconnected` is that of a cause there was, however
many race.  It takes no side on a leave while joining, for which the code passes
an error and the header promises OK ([12](#12-findings)).

**Bounds.** Two callers make every race of two calls (leave/leave,
connect/leave) and a third adds no new pair.  Each caller leaves at most once.
One configuration is the code's own assumption (`OneConfigAssumption`).
The loop of statistics has no bound: the number of a request is left out, so it
can turn for ever through finitely many states.  `MaxExtras` bounds together
what comes from outside and is not the session's status: the configuration,
another update, an audio buffer; with one, a run has a loop of statistics, or an
update after the end, or an audio task that outlives its track.  These meet in
the observer and the queue only, where each is one more task or callback.  The
link may fail.

**Fairness.** The client thread and the network thread run what they have;
`GetStats` answers and timers fire; the destructor goes on.  A connection
attempt ends because its HTTP request has a timeout (the samples set it;
`SessionSetup` has the detail), and the server answers the leave of a joined
session with `kDisconnected`, unless the link has failed: then the request is
lost and nobody is told, so `LeaveDisconnects` is about the other links.  Nothing
is assumed of the application, of other updates, of the link or of media.

## 4. MultiUserMediaCollector

`MultiUserMediaCollector.tla` models `src/cpp/samples/multi_user_media_collector.{h,cc}`
with the main function of `multi_user_media_sample.cc` as the application.

**Environment.** The callbacks are conjoined with the actions of
`ObserverContract`, so the collector is checked in exactly the environment
that `MediaApiClient` is proved to provide.

**State.** `audioSegments` and `videoSegments` are the maps of the class;
`queue` is `collector_thread_`; `identifiers` is what `GetOutputFileIdentifier`
answers for each source, changed by any update in any way (`ResourceManager`
has the detail); `joinNotified` and `disconnectNotified` count the calls of
`Notify`, which must not come twice; `finished` and `handled` record the files
closed and the frames handled, per medium and source: the order in which the
disconnect task closes the files of different sources, that of a hash map, is
left out.

**Steps.** Each callback is one step (it reads the clock and posts), each task
one step, except the disconnect task, which is cut where another thread may
see its effects: closing, first notification, check, second notification.
`WaitForJoined` and `WaitForDisconnected` are a wait, which may time out at any
moment before the notification, and a blocking call, which is a task like any
other.  `GivesUp` are the sample's other early exits.

**Runs.** `collector_recording` compares the files with `SegmentsAreStretches`,
a definition over the whole history of a source's frames that knows of no open
segment: each file holds a longest unbroken stretch of them, from its first to
its last, and each such stretch has one file.  Whether frames exactly the
threshold apart are still of one stretch the code and the header say differently
([12](#12-findings)); the property allows either, but one of them throughout.  The
run also checks the notifications, the completeness of the
recording when `WaitForDisconnected` returns, and under fairness of the
collector thread that a disconnection releases a waiter.
`collector_shared_file` shows a disagreement with a comment.

**Bounds.** Sources do not interact except through identifiers, so one source
is enough for segments and two for shared names.  With a gap of 2, times 0 to 3
and three frames every combination occurs: within the gap, exactly at it, beyond
it, another resolution, no identifier, an identifier lost and regained, and frames
on both sides of any task.

## 5. ResourceManager

`ResourceManager.tla` models `src/cpp/samples/resource_manager.{h,cc}`.  An
object is never changed after it is made, and a new object with the same content
takes over every pointer to the old one, so a pointer is represented by the
content of its object and dangles when its owner no longer holds that content.
Reading through a dangling pointer yields any object (`ReadEntry`,
`ReadParticipant`).  An update message is handled element by element; an action
is the handling of one.

`entries` and `participants` are what the server last described.  Of the server
only this is assumed: at any time an id, a session and a stream belong to one
resource.  A snapshot may give a resource another id or other streams, and with
that pointers do dangle.  `undefined` remembers that a deletion has read through
one, after which nothing can be promised.

`manager_lookups` shows what holds nevertheless: the owning maps are the server's
resources (`OwnersAreTheResources`), every resource is found, alive, under its
present id and streams (`ResourcesFound`), and a frame is filed under the owner of
its stream (`IdentifierNamesOwner`); a stream that no entry has any more may be
filed under a freed one.  The header's claim that the lookups point to owned
objects is what `manager_csrcs_change` refutes for a change of streams; a change
of an id leaves a pointer in `media_entries_by_id_` or `participants_by_id_` in
the same way.

Two sessions, keys, ids and names and two sources, one of them the "no stream"
source 0 that several entries share, are enough for one object to take another's
place in every map, and for an id or a source to pass from one to another.

## 6. The data channels

`ResourceHandlers.tla` has the five handlers of `src/cpp/internal/*_resource_handler.cc`
and `stats_request_from_report.cc` as functions, `ResourceChannels.tla` the
channels that use them (`conference_data_channel.cc`) between the servers and
the application.

**Data.** A JSON object is a function of its fields, so a field may be missing;
a member of a struct is read with the default of its initializer.  What does not
have the expected shape is `Malformed`; `ParseUpdate` of it is `Error`.  The
narrowing of a canvas's media entry id to 32 bits is kept, with `IdRange` for
2^32.

**State.** `resources` is what the servers hold, per channel; `down` and `up` the
messages under way, in order, for the channels are reliable and ordered.  A
message carries its text and, beside it, what the servers meant.  `replica` and
`heard` fold what the observer is given.

**Steps.** `ServerUpdate` makes a change and writes it in *any* of its ways: a
field that has its default may be left out, an OK status may be left out
(`Written` and the `...Texts` operators enumerate them).  `ServerGarbles` sends
binary, ill-formed or half ill-formed messages.  `OnMessage` is the client's whole
handling of one; `ClientAsks` is `SendRequest` with the handlers'
`StringifyRequest`, `CollectStats` the client's own request; `ServerAnswers` reads a
request and responds, possibly with the change.

**Run.** `resource_channels` checks that an application folding its updates holds
exactly what the servers held at the last message (`ReplicaIsTheServersPast`: no
update is half applied, and no default differs from the servers'), that responses
arrive with their request's id and code, in order, and only those under way are
missing (`AnswersReachTheirRequests`), that the servers read what the application
asked (`RequestsArriveAsAsked`), that statistics have exactly the listed values
(`UploadsAreAllowlisted`), and, under fairness of the network thread, that the
application comes to hold what the servers hold (`ReplicaCatchesUp`).

**Bounds.** Two ids, one of them the default 0, with an entity that is all
defaults and one that has none; each status and configuration in two values; two
updates, one garbled message and one request per behaviour.  Parsing is a
function of one message, so a longer channel adds no case to it; two updates are
enough for a change of what is there and for a deletion.  `Printed` has one field
that the servers may write although it has its default.  Every
channel has its callback (`Listened`).

Not promised by the code, and therefore not assumed: a media-stats response
without an id, a code or a message is refused, where the other handlers default
what is missing, so the servers of the model always write them there.  Its handler also
refuses an update whose array `resources` is empty, which the others read as none,
so the servers of the model write no empty array (`MessagesAssumption`).  The
proof that every update is read as it was meant asked for that assumption.

## 7. SessionSetup

`SessionSetup.tla` models `media_api_client_factory.cc`, the members of
`conference_peer_connection.h` and its `Connect`, `curl_connector.cc` and
`curl_request.cc`.

**State.** What C++ destroys by scope is a stack, `locals`: the last object made
is the first to go, and the wrapper of the peer connection leaves its `members` to
go in turn.  `live` are the objects that exist and `orphaned` those that were
destroyed after the thread their destructor runs on.  `call` is where `Connect`
is; `handle`, `list` and `options` are curl's.

**Steps.** One per call of `CreateMediaApiClient` (`Create`, or `Fail` for those
that return an error), `MakeClient`, one `Unwind` per object; one per callback or
blocking call of `Connect`, one per option of the HTTP request, each of which may
fail.  The response's body is any of `Answers`, whatever its HTTP code, for the
code is not looked at.

**Run.** `session_setup`: `ClientIsComplete` says what a returned client consists
of, `TeardownOnItsThread` that WebRTC's proxies go before their signaling thread,
both when a client is destroyed and when the scope of a failed
`CreateMediaApiClient` is left, `OkMeansConnected` that `Connect` returns OK
exactly when an answer was parsed and applied, `DestroyReturns` that the
destructor, which waits for the client thread, comes to its end if a request
timeout was given.  `TeardownOnItsThread` has one exception, which is the code's:
on the error paths after the connection was wrapped, the peer connection factory, a
local made before it (`media_api_client_factory.cc:257`, `263`), is released when
its signaling thread is gone.  Which tracks an answer signals is left out: nothing
counts them.

**Bounds.** Three audio streams, as in the code; 0, 1, 3 and 4 video streams of at
most 3, so the limit and its violation occur; timeouts absent, zero or set.

**Fairness.** The program's own steps, curl's timeout among them; the network owes
nothing.

## 8. SingleUserRecording

`AudioPlayout.tla` is the device module's clockwork: `ProcessPlayData` calls
WebRTC, then computes the next target and the delay apart from each other.  Time
may pass at any point, so calls and wakeups take any time.
`SingleUserRecording.tla` adds `conference_media_tracks.cc`, the client thread,
`single_user_media_collector.{h,cc}` and `main` of `single_user_media_sample.cc`
around it; every step of it is a step of `AudioPlayout` or leaves it alone.

**State.** `tasks` and `collected` are the queues of the client and the collector
thread; `clientPc` and `mainPc` say where the client thread (which blocks in
`OnDisconnected`) and `main` are, the destructors included.  `heard` and `shown`
are the frames the observer was given, `audioFile` and `videoFiles` what was
written.  `ideal` is where a call would be if all took no time.

**Run.** `single_recording`: `PlayoutIsPaced`, `RecordingIsComplete` (every frame
the observer was given is in a file of its resolution, in order, when the
disconnection is announced, and no segment has truncated an earlier one),
`MainReturns` (threads and destructors that wait for each other never do so in a
circle) and, deadlock being checked, that nothing but the end of `main` stops the
program.

**Bounds.** A clock up to 3 with an interval of 2 has calls that are early, exact
and late, and an overrun; two audio buffers and four frames (large, large, small,
large) have a segment continued, a change of resolution, and a resolution that
comes back.

**Fairness.** The threads run what they have, WebRTC's callback returns, and the
sleep and the waits of `main` end, for they have timeouts.  The server, the
link, the clock and the media owe nothing.

## 9. WebResources

`WebResources.tla` models the handlers of `media_entries_channel_handler.ts`,
`participants_channel_handler.ts` and `video_assignment_channel_handler.ts`, with
`createMediaEntry` of `utils.ts` and the loop of
`internal_meet_stream_track_impl.ts`.

**State.** The maps and delegates of `MeetMediaApiClientImpl` have their names.
Objects are numbered: `entry[e]` and `participant[p]` hold what the internal
objects hold, and stay when the maps lose them, as the objects do that something
still points to.  `lists` holds the `mediaEntries` delegates apart, because a
participant that replaces another takes over its delegate.  `job` is the frame of
the running handler: what is left of the message, the array it will publish.
`loops` is the bag of frame loops awaiting a frame.

**Steps.** A handler is run to its end before any other event, one action per
iteration of its loops; within an iteration one per stage:

| Code | Actions |
|---|---|
| media entries, deletions | `DeleteEntry`, `DeleteUnknownEntry`, `DeleteEntryThrows` |
| media entries, resources | `StoreEntry`, `KeepAudio` or `AssignAudio`, `AssignParticipant` or `CreateParticipant`, `SetRoles`; then `FinishEntries` |
| participants | `DeleteParticipant`, `PutParticipant`; then `FinishParticipants` |
| video assignment | `UpdateCanvas` or `AssignCanvas`, `AssignVideo`; then `FinishAssignment` |
| frame loops | `OnFrame`, `EndLoop` |

Messages are any: the three channels have no order between them, an entry may
come before its participant, a participant may come under a second id.  Assumed
of the server: a person's name and key do not change, no message names an id
twice, and an id belongs to one person.  Which sources a track carries at a
moment is free.  Left out: muted flags and `isLoudestSpeaker`, session names, the
key of a participant beyond its identity.

**Run.** `web_resources` checks `MapsAgree`: the type of the state, the two entry
maps, the three participant maps, and the links between media entries and
participants.  Of the links it says only what the code achieves: an entry is in
the list of the participant object it names, and the list of a present
participant has only present entries of that person.  An entry may be in the list
more than once (every update appends it again), and may name an object that an
update has replaced, contrary to a comment ([12](#12-findings)).
`ResourcesListed`: the published media entries are those of the maps, exactly,
and every present participant is published once; beside it the application may
see an object that an update of the same message has replaced.
`SpotlightPresent`: the presenter is a present entry (the screenshare is kept in
the same way).  `LayoutShowsEntry`: an entry's layout shows it.  The other direction
does not hold: when two layouts swap their entries, the second canvas takes away
the layout that the first has just given.  A handler that throws (`threw`) stops in
the middle of a message; the list of media entries and `LayoutShowsEntry` are
about sessions in which none has.

**Bounds.** Two people, one of them without a name, with two ids and a media entry
each: one may be found by id, by name and by key, and be replaced.  Two layouts,
one track of each kind and four messages are what a swap of layouts
needs.  A message has one resource or deletion: the handlers take the resources of
a message one by one, and four messages order them as one would.  Layouts are
interchangeable.

## 10. WebSession

`WebSession.tla` models `meetmediaapiclient_impl.ts`,
`session_control_channel_handler.ts`, `media_stats_channel_handler.ts`,
`subscribable_impl.ts` where the session's status is set, and the requests of
`video_assignment_channel_handler.ts`.

**State.** `channel` holds the ready state of the five channels; `join` the await
in which `joinMeeting` is.  `leaves`, `uploads` and `layouts` are the promises of
leaves, statistics and layouts in the order of the calls, and
`leaveSessionPromise`, `pendingUploads` and `pendingLayouts` what the handlers
hold of them.  `timers` are the intervals that run, `intervalId` the one the
handler knows.

**Steps.** One action per event handler, and per stretch between two awaits:
`Tick` is `sendMediaStats` up to its await, `StatsReady` what follows it.
`SetStatus` includes the subscription that closes three channels when the
session is disconnected.

Every status that the server sends over the open channel is taken and
published, as in the code, also one that repeats or follows STATE_DISCONNECTED;
`ended` remembers that the first DISCONNECTED has been published.

**Runs.** `web_session`: `SingleTimer` (the intervals that run are the one the
handler can clear), `RequestsSettled` (overlapping uploads have ids of their
own, and no upload and no layout waits on a closed channel), `EndIsFinal` (whatever
is said after the end, the channels that the client closed stay so, and when the
session channel has closed, DISCONNECTED is the last word),
`NoUploadAfterDisconnected` and, under fairness, `StatsStop`.
`web_leave_pending` refutes what the handler says of leaves: a second
`leaveMeeting` replaces the promise of the first, and neither the answer nor the
close settles the first one then.

**Bounds and fairness.** Two configurations replace one interval by another, two
uploads overlap; two leaves, in `web_leave_pending`, show what becomes of the
first promise, and one is enough elsewhere, for leaves change nothing but
themselves.  A channel being closed is closed some day and `getStats` answers, as
WebRTC promises; nothing is assumed of the server, of the application or of the
intervals.  `joinMeeting` is called once.

## 11. Proofs

All proofs hold for every value of the constants that satisfies the named
assumptions of the modules.

- `MediaApiClientProofs`: type correctness, then
  `Inv = TypeOK /\ JoinedInv /\ DisconnectInv /\ StatusInv /\ DestroyInv /\ StatsInv`.
  The properties are not inductive: that no callback follows `OnDisconnected`
  needs to know where the connection is while a disconnection is under way
  (`DisconnectInv`), that a status has a cause needs every task in the queue
  (`StatusInv`: an OK comes from the server, the error of an early leave from a
  thread that saw the client before it had joined), that there is one loop needs that the one
  configuration has not started one before (`StatsInv`).  Each part is kept
  by every action, by lemmas named after the part.  From `Inv` follow the
  safety and action properties the runs check and `Implements`: every step is
  a step of `ObserverContract` or a stutter.
- `ResourceManagerProofs`: `Inv = TypeOK /\ (~undefined => EntryInv /\
  ParticipantInv)`, under no assumption on the server beyond that ids, sessions
  and streams are not shared.  `EntryInv` and `ParticipantInv` follow the pointers
  from the resources: what a present resource has leads to it.  Of a pointer
  that no resource has any more they say just enough (under which key it is, and
  that a live one is a resource with that key) for a deletion to remove the right
  object or to be undefined.
- `MultiUserMediaCollectorProofs`: type correctness, `NotifiedOnce` and
  `RecordingComplete` from an invariant that follows a disconnection from the
  callback through the queue (where no frame comes after its task) to the
  notifications.  `SegmentsSafe`, that the files are the stretches, adds
  `StretchesInv`: of each source, the closed files are the stretches of its
  frames but the one that ends with the last frame and is the open segment.  That
  is not inductive alone: a file may be missing because its frame found no
  identifier, so there must be an open segment if and only if the last frame is
  in a file, until the disconnection closes it; and a video segment's size must be
  that of the last frame, for the code compares with the segment where the
  definition compares with the frame.  The lemmas say what one more frame does to
  the stretches of a history: it extends the last one, begins one, or leaves
  all as they are.
- `ResourceChannelsProofs`: `UpdatesRead` is about the handlers alone: of any
  update of any channel, in any way that the servers may write it, the handler
  reads what was meant.  It is why `ReplicaSafe` holds for every set of
  resources; of the state it needs that the messages under way lead, each from
  what the one before left, from what the application last heard of (`seen`) to what
  the servers hold (`DownInv`).  A message that is refused leads from a state to
  itself, so no update is half applied.  `AnswersInv` says the same of
  responses: those the servers gave are those heard and those under way, in order.
  `UpInv` keeps what each request under way was made from, and `ConfigurationInv`
  that the servers' statistics configuration is set once, without which an upload
  under way would be one of a former allowlist.
- `WebResourcesProofs`: `Inv = JobInv /\ EntryInv /\ ParticipantInv` has the
  maps.  `JobInv` says that what a handler has yet to do
  belongs to its channel, and that the object it works on is in the maps;
  `EntryInv` holds `EntryMapsAgree`, `SpotlightPresent` and `LayoutShowsEntry`,
  and `ParticipantInv` holds `ParticipantMapsAgree` with one addition: the ids of
  a participant are ids of its person.  It makes `Existing`, which looks by id,
  by name and by key, return what the search for the key alone would
  (`ExistingIs`), so that an update cannot leave a second participant behind.
  `FullInv` adds what the application sees.  `EntriesShown` and
  `ParticipantsShown` say that a delegate holds each present object once and,
  while its handler runs, that the array and the additions of the handler, which
  it will publish, split them between them.  `LinkInv` has both ends of the link of a
  media entry and its participant: a list of a present participant has present
  media entries of its person only, and no two present participants share one, so
  that a deletion, which filters the list of the entry's participant, leaves no
  trace in another.  The participant that an entry names may have been replaced;
  its list then is that of its successor.  The facts about what a filter of a
  sequence keeps are proved first.
- `WebSessionProofs`: `Inv` is `TypeOK /\ ChannelInv /\ SingleTimer /\
  UploadInv /\ LayoutInv /\ LeaveInv /\ EndIsFinal`, under no
  assumption but the types of the constants.  `UploadInv` ties each upload's
  stage to its id and to the pending requests: ids in use are distinct and below
  the next one, so an answer finds one request, and a request is pending exactly
  as long as it is unsettled, so that the closing settles it.  `ChannelInv` says
  that there is no status, and so no end, before the session channel opens, by
  which time every channel has been made: that is why each of the client's
  channels is being closed from the first DISCONNECTED on, which is the reason
  for `NoUploadAfterDisconnected`.  `LastLeaveSafe` is what is true of leaves, for
  any number of them.
- `SessionSetupProofs`: `SetupInv` says what the factory has made before its
  step `n`, for any number of streams (the sequence of steps is taken apart by
  `StepsAre`), and which prefix of the client's members, or of what the wrapper
  of the connection leaves, is still to be destroyed; the signaling thread lives
  as long as that prefix has an object that needs it.  `ConnectInv` follows the
  call: an OK status and an applied answer come in one step, and
  `ErrorsAre` says that no body of a response reads as OK.  `ScopeInv` is about the
  failing paths: what is in the scope, below the wrapper of the connection and
  above it, so that on leaving it only the factory can come after the thread.
  `CurlIsReleased`
  is inductive by itself.
- `SingleUserRecordingProofs`: `PlayoutInv` bounds the next target from both
  sides, by the clock and by `ideal`; from it follow `NeverAhead` and `NoDrift`
  for every interval.  `RecordingImplementsPlayout` shows that the composition
  implements `AudioPlayout`, which carries the property over to it.
  `RecordingComplete` has `RecordingInv`, which follows each frame on its way:
  audio through the client thread's queue (`TasksInv`) and the collector's
  (`AudioInv`) to its file, video through the collector's queue to the file of
  its segment (`VideoInv`), in order throughout, so that "in the file or in the
  queue" becomes "in the file" when the task of the disconnection status, which
  stands behind all frames (`StatusInv`), has been run.  That the file of a new
  segment truncates none needs that files beyond the current segment are empty.
  `QuestionsInv` and `EndInv` say that `main` asks one question at a time, and
  that no task outlives the client.

The three proofs about sequences of any length (a filter of a sequence, the
queue of a collector, the elements of an array) need induction over data, for
which no theorem of the library can be used.  They use the fact behind it: a set of
natural numbers that is not empty has a least element (`LeastNat`), from which
each conclusion about all prefixes of a sequence follows by looking at the first
one that would refute it.

The assumptions are those the modules name: the types and positive bounds of
constants, `OneConfigAssumption` (the servers send one statistics configuration,
as `media_api_client.cc` assumes), `NoneAssumption` (`std::nullopt` is no status),
`CsrcsAssumption` (a conference has finitely many sources), `SizesAssumption` (no
frame has the size "none"), those of `ResourceChannels` (`StructsAssumption`: structs have
the members that the headers give them and values that can be written;
`ListenedAssumption` and `RequestsAssumption`: types;
`MessagesAssumption`: a garbled message is one that is refused, and no empty array
is written; `MarkersAssumption`: the markers of the model are no values).

Only model-checked: liveness, since fairness and ENABLED are out of the prover's
reach.  That is `DisconnectReported`, `LeaveDisconnects`, `ConnectResolves`,
`DestroyCompletes`, `DisconnectReleasesWaiter`, `ReplicaCatchesUp`,
`DestroyReturns`, `MainReturns` and `StatsStop`; and that nothing but the end of a
program stops it, where a run checks for deadlock.

## 12. Findings

| Run | What it shows |
|---|---|
| `client_joined_lost` | `kJoined` handled before the client thread has entered joining is dropped, and `OnJoined` is never called |
| `collector_shared_file` | two video sources of one media entry write to one temporary file |
| `manager_csrcs_change` | a snapshot with other sources leaves a pointer to a freed entry |
| `web_leave_pending` | of two `leaveMeeting` calls before the answer, the first is never settled |

The lines and the sentences they disagree with are in `PROJECT.json`.

Three more disagreements with a comment concern what a passing run checks.  The
properties there are worded so that they take neither side, so a passing run
says nothing for the code or for the comment:

- A leave while joining disconnects with an error (`media_api_client.cc:144`);
  `media_api_client_interface.h:187` calls it graceful and graceful
  disconnections have an OK status.  `StatusNamesCause` admits both.
- A new segment begins when frames are the threshold apart
  (`multi_user_media_collector.cc:85` continues one below it only);
  `multi_user_media_collector.h:204` and `:242` say more than the threshold.
  `SegmentsAreStretches` admits both.
- Media entries of the web client keep pointing to a participant that its own
  channel has replaced (`participants_channel_handler.ts:168`), where a comment
  (lines 123 to 127) says that the relationship is maintained; the deletion of such a
  media entry then throws.  `WebResources` has the behaviour
  (`DeleteEntryThrows`); `MapsAgree` says nothing of which object an entry names.

Smaller disagreements met while modelling, which no run is kept for:

- A leave before `ConnectActiveConference` calls `OnDisconnected`, which
  `media_api_client_interface.h:179` excludes.
- A peer connection that fails without being closed is not reported, though
  `media_api_client_interface.h:192` names unreachable servers as a cause of
  `OnDisconnected`.
- `WaitForJoined` returns OK when the server has ended the session before it was
  joined; `multi_user_media_collector.h:170` reads a disconnect status as a
  failure to join.
- The same holds for the single user collector (`single_user_media_collector.h:116`)
  when the status was OK.
- The sources of an audio buffer are read when its task runs on the client
  thread (`conference_media_tracks.cc:79`), and are those of that moment;
  `media_api_client_interface.h:122` speaks of the frame's.
- A participant whose `anonymousUser` or `phoneUser` is an empty object has the
  type and not the user (`participants_resource_handler.cc`;
  `participants_resource.h:103` says that the type determines which is set).
- A canvas's `mediaEntryId` is 32 bits wide, the id of a media entry 64.
- A request that `SendAsync` refuses is logged (`conference_data_channel.cc:80`);
  `SendRequest` has returned OK and no response will come.
- `curl_slist_append` returning null loses the headers set before
  (`curl_request.cc:85`).
- Without a request timeout the client's destructor may wait for good.
- A disconnection closes every web channel but the participants' and the
  session's, and never the peer connection.
- Two media entries of the web client may claim one track, whose media entry
  `mediatypes.d.ts:206` calls one to one.
- Updates reach `OnMessageFromServer` before the joined state, which
  `media_api_client_interface.h:207` excludes.
- `OnJoined` runs with the client's lock held: an observer that uses the client
  in it never returns.
- `WaitForJoined` returns an error, "the client has failed to join", for a
  client that joined and was disconnected before the status is read.
- A source that changes hands within the gap threshold is recorded in the
  former participant's segment.
- A participant or a media entry that comes back under another id leaves a
  pointer to the freed object in `participants_by_id_` or `media_entries_by_id_`,
  as `manager_csrcs_change` shows for a source.

## 13. What is not modelled

- Formatting, logging, and the text of JSON, HTTP and SDP below the level of fields,
  options and bodies; the bytes of media and the values of statistics.
- WebRTC, curl and absl themselves: modelled from how the code uses them.
- The web client's subscribables, its logger and the HTTP request that answers
  `joinMeeting`'s offer: a few assignments each, without a state of their own
  beyond what `WebSession` and `WebResources` hold; the sample pages.
- The multi user sample's flags and its early exits beyond `GivesUp`; the output
  files and the conversion of frames of both samples.  A file that
  cannot be opened is out, too.
- In the C++ channels: a channel that closes by itself, of which the code only logs;
  codecs, header extensions and the ICE configuration in the factory; a
  failing `curl_slist_append`.
- A clock that goes back (`absl::Now`, `webrtc::TimeMicros`).
- The order of the elements within one update message, in the resource manager.
- In the web client, what a failure between two awaits of `joinMeeting` leaves
  behind, and an observer that calls the C++ client from within its callbacks.

## 14. Running the checks

    tlc -config client_lifecycle.cfg MediaApiClient.tla
    tlapm MediaApiClientProofs.tla

A run's module is the `MC` module of its component, if there is one, which adds the symmetry sets
of interchangeable constants where there are some.  Definitions whose comment begins with "Mutant"
are never part of a specification: each is a plausible mistake in the definition
after it, and some property fails when it takes that definition's place.
