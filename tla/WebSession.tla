------------------------------ MODULE WebSession ------------------------------
(***************************************************************************)
(* A session of the web client: joinMeeting, leaveMeeting and applyLayout  *)
(* of MeetMediaApiClientImpl, the session control and media statistics     *)
(* handlers, and the requests of the video assignment handler.             *)
(*                                                                         *)
(* An event handler, or a stretch of an async function between two awaits, *)
(* is one action.  joinMeeting is called once; a call that throws and      *)
(* changes nothing is no action.                                           *)
(***************************************************************************)
EXTENDS Integers, Sequences, FiniteSets

CONSTANTS
  EnableAudio,     \* enableAudioStreams
  EnableVideo,     \* numberOfVideoStreams > 0
  Sections,        \* types of statistics sections
  MaxConfigs,      \* bound: configurations of the statistics
  MaxUploads,      \* bound: calls of sendMediaStats
  MaxLayouts,      \* bound: calls of applyLayout
  MaxLeaves        \* bound: calls of leaveMeeting

ASSUME BoundsAssumption == {MaxConfigs, MaxUploads, MaxLayouts, MaxLeaves} \subseteq Nat
ASSUME ConfigurationAssumption == {EnableAudio, EnableVideo} \subseteq BOOLEAN

VARIABLES
  join,             \* where joinMeeting is
  channel,          \* readyState of each channel
  status,           \* sessionStatusDelegate: connectionState
  ended,            \* history: the delegate has been set to DISCONNECTED
  leaves,           \* the promises of leaveSession
  leaveSessionPromise, \* the one that the handler can resolve; 0: undefined
  allowlist, intervalId,
  timers,           \* the running intervals
  configs,          \* configurations so far; the last has made timer `configs'
  uploads,          \* the calls of sendMediaStats
  requestId, pendingUploads, \* of the statistics handler; pairs of an id and a call
  layouts,          \* the promises of sendRequests, by request id
  pendingLayouts,   \* pendingRequestResolveMap of the video assignment handler
  answered          \* uploads that the server has answered

sessionVars == <<join, channel, status, ended>>
leaveVars == <<leaves, leaveSessionPromise>>
timerVars == <<allowlist, intervalId, timers, configs>>
uploadVars == <<uploads, requestId, pendingUploads, answered>>
layoutVars == <<layouts, pendingLayouts>>
vars == <<sessionVars, leaveVars, timerVars, uploadVars, layoutVars>>

ConnectionStates == {"UNKNOWN", "WAITING", "JOINED", "DISCONNECTED"}
Channels == {"session", "stats", "video", "entries", "participants"}
ReadyStates == {"none", "connecting", "open", "closing", "closed"}
JoinStages == {"new", "offer", "setLocal", "offerVideo", "setLocalVideo", "connect",
               "setRemote", "joined", "failed"}

Created ==
  {"session", "stats"} \cup (IF EnableVideo THEN {"video"} ELSE {})
    \cup (IF EnableVideo \/ EnableAudio THEN {"entries", "participants"} ELSE {})

Init ==
  /\ join = "new"
  /\ channel = [c \in Channels |-> "none"]
  /\ status = "UNKNOWN"
  /\ ended = FALSE
  /\ leaves = <<>>
  /\ leaveSessionPromise = 0
  /\ allowlist = {}
  /\ intervalId = 0
  /\ timers = {}
  /\ configs = 0
  /\ uploads = <<>>
  /\ requestId = 1
  /\ pendingUploads = {}
  /\ layouts = <<>>
  /\ pendingLayouts = {}
  /\ answered = {}

-----------------------------------------------------------------------------
(***************************************************************************)
(* joinMeeting.                                                            *)
(***************************************************************************)
\* The channels and their handlers are made; the first offer is awaited.
JoinMeeting ==
  /\ join = "new"
  /\ join' = "offer"
  /\ channel' = [c \in Channels |-> IF c \in Created THEN "connecting" ELSE "none"]
  /\ UNCHANGED <<status, ended, leaveVars, timerVars, uploadVars, layoutVars>>

\* One await ends, the next begins.
JoinProgress ==
  /\ \/ join = "offer" /\ join' = "setLocal"
     \/ join = "setLocal" /\ join' = "offerVideo"
     \/ join = "offerVideo" /\ join' = "setLocalVideo"
     \/ join = "setLocalVideo" /\ join' = "connect"
     \/ join = "connect" /\ join' = "setRemote"
     \/ join = "setRemote" /\ join' = "joined"
  /\ UNCHANGED <<channel, status, ended, leaveVars, timerVars, uploadVars,
                 layoutVars>>

\* An await rejects, or the response has no answer.  Nothing is taken back.
JoinFails ==
  /\ join \notin {"new", "joined", "failed"}
  /\ join' = "failed"
  /\ UNCHANGED <<channel, status, ended, leaveVars, timerVars, uploadVars,
                 layoutVars>>

-----------------------------------------------------------------------------
(***************************************************************************)
(* The session's status and its end.                                       *)
(***************************************************************************)
\* onSessionControlOpened is the only onopen that changes anything.
ChannelOpens(c) ==
  /\ join = "joined"
  /\ channel[c] = "connecting"
  /\ channel' = [channel EXCEPT ![c] = "open"]
  /\ status' = IF c = "session" THEN "WAITING" ELSE status
  /\ UNCHANGED <<join, ended, leaveVars, timerVars, uploadVars, layoutVars>>

\* Mutant: the statistics channel is not closed.
ClosedByClientSome == {"video", "entries"}

ClosedByClient == {"stats", "video", "entries"}

\* What the subscription made in joinMeeting does to channels ch.
AfterDisconnect(ch) ==
  [c \in Channels |-> IF c \in ClosedByClient /\ ch[c] \in {"connecting", "open"}
                      THEN "closing" ELSE ch[c]]

\* The delegate is set to a state, and its subscribers run.
SetStatus(s, ch) ==
  /\ status' = s
  /\ ended' = (ended \/ s = "DISCONNECTED")
  /\ channel' = IF s = "DISCONNECTED" THEN AfterDisconnect(ch) ELSE ch

\* The promise that the handler knows, the last one, is resolved.
ResolveLeave ==
  /\ leaves' = [i \in DOMAIN leaves |->
                  IF i = leaveSessionPromise THEN "settled" ELSE leaves[i]]
  /\ UNCHANGED leaveSessionPromise

\* A message of the server: the answer to a leave, a status, or both.  Every
\* status is taken as it comes, also after STATE_DISCONNECTED.
OnSessionControlMessage ==
  /\ channel["session"] = "open"
  /\ \/ /\ leaves # <<>> /\ ResolveLeave
        /\ UNCHANGED <<status, ended, channel>>
     \/ \E s \in {"WAITING", "JOINED", "DISCONNECTED"} :
          /\ SetStatus(s, channel)
          /\ ResolveLeave \/ UNCHANGED leaveVars
  /\ UNCHANGED <<join, timerVars, uploadVars, layoutVars>>

Closes(c) == channel[c] \in {"connecting", "open", "closing"}
Closed(c) == [channel EXCEPT ![c] = "closed"]

\* Mutant: only a session that was joined is told of its end.
SessionClosesJoined ==
  /\ Closes("session")
  /\ ResolveLeave
  /\ IF status = "JOINED" THEN SetStatus("DISCONNECTED", Closed("session"))
     ELSE /\ channel' = Closed("session")
          /\ UNCHANGED <<status, ended>>
  /\ UNCHANGED <<join, timerVars, uploadVars, layoutVars>>

\* onSessionControlClosed.
SessionCloses ==
  /\ Closes("session")
  /\ ResolveLeave
  /\ IF status # "DISCONNECTED" THEN SetStatus("DISCONNECTED", Closed("session"))
     ELSE /\ channel' = Closed("session")
          /\ UNCHANGED <<status, ended>>
  /\ UNCHANGED <<join, timerVars, uploadVars, layoutVars>>

\* The other channels of which a close changes nothing but themselves.
PlainChannelCloses(c) ==
  /\ c \in {"entries", "participants"}
  /\ Closes(c)
  /\ channel' = Closed(c)
  /\ UNCHANGED <<join, status, ended, leaveVars, timerVars, uploadVars,
                 layoutVars>>

\* leaveSession: the new promise takes the place of the one before.
LeaveMeeting ==
  /\ Len(leaves) < MaxLeaves
  /\ channel["session"] = "open"
  /\ leaves' = Append(leaves, "pending")
  /\ leaveSessionPromise' = Len(leaves) + 1
  /\ UNCHANGED <<sessionVars, timerVars, uploadVars, layoutVars>>

-----------------------------------------------------------------------------
(***************************************************************************)
(* MediaStatsChannelHandler.                                               *)
(***************************************************************************)
\* Mutant: a running interval is not cleared first.
RestartKeeping(seconds) ==
  /\ timers' = IF seconds = 0 THEN timers \ {intervalId} ELSE timers \cup {configs + 1}
  /\ intervalId' = IF seconds = 0 THEN 0 ELSE configs + 1

\* The interval is stopped, and started anew unless it is zero.
Restart(seconds) ==
  /\ timers' = (timers \ {intervalId})
                 \cup (IF seconds = 0 THEN {} ELSE {configs + 1})
  /\ intervalId' = IF seconds = 0 THEN 0 ELSE configs + 1

\* The allowlist grows: what an earlier configuration allowed stays allowed.
OnMediaStatsResources ==
  /\ channel["stats"] = "open"
  /\ configs < MaxConfigs
  /\ \E seconds \in {0, 1} : Restart(seconds)
  /\ \E sections \in SUBSET Sections : allowlist' = allowlist \cup sections
  /\ configs' = configs + 1
  /\ UNCHANGED <<sessionVars, leaveVars, uploadVars, layoutVars>>

\* The interval calls sendMediaStats, which awaits getStats.
Tick ==
  /\ timers # {}
  /\ Len(uploads) < MaxUploads
  /\ uploads' = Append(uploads, [stage |-> "stats", id |-> 0])
  /\ UNCHANGED <<sessionVars, leaveVars, timerVars, requestId, pendingUploads,
                 answered, layoutVars>>

\* pendingRequestResolveMap.set(id, resolve)
Put(id, u) == {x \in pendingUploads : x[1] # id} \cup {<<id, u>>}

\* Mutant: the id is not counted up.
SendAgain(u) ==
  /\ uploads' = [uploads EXCEPT ![u] = [stage |-> "sent", id |-> requestId]]
  /\ pendingUploads' = Put(requestId, u)
  /\ UNCHANGED requestId

\* The request is sent and its promise stored under its id.
Send(u) ==
  /\ uploads' = [uploads EXCEPT ![u] = [stage |-> "sent", id |-> requestId]]
  /\ pendingUploads' = Put(requestId, u)
  /\ requestId' = requestId + 1

\* getStats has answered: the report's sections are filtered by the allowlist
\* of this moment, and the channel is looked at only now.
StatsReady(u) ==
  /\ uploads[u].stage = "stats"
  /\ \E report \in SUBSET Sections :
       IF report \cap allowlist # {} /\ channel["stats"] = "open"
       THEN Send(u) /\ UNCHANGED <<intervalId, timers>>
       ELSE /\ uploads' = [uploads EXCEPT ![u].stage = "unsent"]
            /\ IF report \cap allowlist = {} THEN UNCHANGED <<intervalId, timers>>
               ELSE intervalId' = 0 /\ timers' = timers \ {intervalId}
            /\ UNCHANGED <<requestId, pendingUploads>>
  /\ UNCHANGED <<sessionVars, leaveVars, allowlist, configs, answered, layoutVars>>

\* getStats rejects.
StatsFails(u) ==
  /\ uploads[u].stage = "stats"
  /\ uploads' = [uploads EXCEPT ![u].stage = "unsent"]
  /\ UNCHANGED <<sessionVars, leaveVars, timerVars, requestId, pendingUploads,
                 answered, layoutVars>>

\* The server answers upload u; the handler resolves what it knows by its id.
OnMediaStatsResponse(u) ==
  LET id == uploads[u].id
  IN  /\ channel["stats"] = "open"
      /\ id # 0 /\ u \notin answered
      /\ uploads' = [v \in DOMAIN uploads |->
                       IF <<id, v>> \in pendingUploads
                       THEN [uploads[v] EXCEPT !.stage = "answered"] ELSE uploads[v]]
      /\ pendingUploads' = {x \in pendingUploads : x[1] # id}
      /\ answered' = answered \cup {u}
      /\ UNCHANGED <<sessionVars, leaveVars, timerVars, requestId, layoutVars>>

\* Mutant: the interval is not cleared.
StatsClosesTicking ==
  /\ Closes("stats")
  /\ channel' = Closed("stats")
  /\ uploads' = [u \in DOMAIN uploads |->
                   IF \E x \in pendingUploads : x[2] = u
                   THEN [uploads[u] EXCEPT !.stage = "closed"] ELSE uploads[u]]
  /\ pendingUploads' = {}
  /\ UNCHANGED <<join, status, ended, leaveVars, timerVars, requestId,
                 answered, layoutVars>>

\* onclose.
StatsCloses ==
  /\ Closes("stats")
  /\ channel' = Closed("stats")
  /\ intervalId' = 0
  /\ timers' = timers \ {intervalId}
  /\ uploads' = [u \in DOMAIN uploads |->
                   IF \E x \in pendingUploads : x[2] = u
                   THEN [uploads[u] EXCEPT !.stage = "closed"] ELSE uploads[u]]
  /\ pendingUploads' = {}
  /\ UNCHANGED <<join, status, ended, leaveVars, allowlist, configs,
                 requestId, answered, layoutVars>>

-----------------------------------------------------------------------------
(***************************************************************************)
(* The requests of VideoAssignmentChannelHandler.                          *)
(***************************************************************************)
ApplyLayout ==
  /\ Len(layouts) < MaxLayouts
  /\ channel["video"] = "open"
  /\ layouts' = Append(layouts, "sent")
  /\ pendingLayouts' = pendingLayouts \cup {Len(layouts) + 1}
  /\ UNCHANGED <<sessionVars, leaveVars, timerVars, uploadVars>>

\* The answered request stays in the map.
OnVideoAssignmentResponse(i) ==
  /\ channel["video"] = "open"
  /\ i \in pendingLayouts /\ layouts[i] = "sent"
  /\ layouts' = [layouts EXCEPT ![i] = "answered"]
  /\ UNCHANGED <<sessionVars, leaveVars, timerVars, uploadVars, pendingLayouts>>

\* onclose: resolving an answered promise again does nothing.
VideoCloses ==
  /\ Closes("video")
  /\ channel' = Closed("video")
  /\ layouts' = [i \in DOMAIN layouts |->
                   IF i \in pendingLayouts /\ layouts[i] = "sent" THEN "closed"
                   ELSE layouts[i]]
  /\ pendingLayouts' = {}
  /\ UNCHANGED <<join, status, ended, leaveVars, timerVars, uploadVars>>

ChannelCloses(c) ==
  \/ c = "session" /\ SessionCloses
  \/ c = "stats" /\ StatsCloses
  \/ c = "video" /\ VideoCloses
  \/ PlainChannelCloses(c)

\* Nothing is left to happen, or joinMeeting has failed and nothing will.
Terminated ==
  /\ join = "failed" \/ \A c \in Created : channel[c] = "closed"
  /\ UNCHANGED vars

Next ==
  \/ JoinMeeting
  \/ JoinProgress
  \/ JoinFails
  \/ \E c \in Created : ChannelOpens(c)
  \/ join = "joined" /\ \E c \in Created : ChannelCloses(c)
  \/ OnSessionControlMessage
  \/ LeaveMeeting
  \/ OnMediaStatsResources
  \/ Tick
  \/ \E u \in DOMAIN uploads :
       StatsReady(u) \/ StatsFails(u) \/ OnMediaStatsResponse(u)
  \/ ApplyLayout
  \/ \E i \in DOMAIN layouts : OnVideoAssignmentResponse(i)
  \/ Terminated

Spec == Init /\ [][Next]_vars

\* A channel being closed is closed some day, and getStats answers.
FairSpec ==
  /\ Spec
  /\ \A c \in Channels : WF_vars(channel[c] = "closing" /\ ChannelCloses(c))
  /\ \A u \in 1..MaxUploads :
       WF_vars(u \in DOMAIN uploads /\ (StatsReady(u) \/ StatsFails(u)))

-----------------------------------------------------------------------------
UploadStages == {"stats", "sent", "answered", "closed", "unsent"}

TypeOK ==
  /\ join \in JoinStages
  /\ channel \in [Channels -> ReadyStates]
  /\ status \in ConnectionStates
  /\ ended \in BOOLEAN
  /\ leaves \in Seq({"pending", "settled"})
  /\ leaveSessionPromise \in 0..Len(leaves)
  /\ allowlist \subseteq Sections
  /\ intervalId \in 0..configs
  /\ timers \subseteq 1..configs
  /\ configs \in 0..MaxConfigs
  /\ uploads \in Seq([stage : UploadStages, id : Nat])
  /\ requestId \in Nat \ {0}
  /\ pendingUploads \subseteq (Nat \ {0}) \X (1..Len(uploads))
  /\ layouts \in Seq({"sent", "answered", "closed"})
  /\ pendingLayouts \subseteq 1..Len(layouts)
  /\ answered \subseteq 1..Len(uploads)

\* There is one interval at most, the one that the handler can clear, and none
\* once the channel has closed.
SingleTimer ==
  /\ timers = {intervalId} \ {0}
  /\ channel["stats"] = "closed" => timers = {}

\* However the uploads overlap, the answer to one settles that one.
AnsweredIsSettled == \A u \in answered : uploads[u].stage = "answered"

\* When a channel has closed, no upload and no layout sent over it is left
\* unsettled.
SettledAtClose ==
  /\ channel["stats"] = "closed" => \A u \in DOMAIN uploads : uploads[u].stage # "sent"
  /\ channel["video"] = "closed" => \A i \in DOMAIN layouts : layouts[i] # "sent"

\* Every upload and every layout that was sent finds its end: by its own answer,
\* or by the closing of its channel.
RequestsSettled == AnsweredIsSettled /\ SettledAtClose

\* When the session channel has closed, every leaveMeeting has come to its end:
\* "If the channel is closed, we should resolve the leave session promise."
LeavesSettled ==
  channel["session"] = "closed" => \A i \in DOMAIN leaves : leaves[i] = "settled"

\* The end is final, whatever the server says after it: the channels the client
\* has closed stay so, and when the session channel has closed, the last status
\* that the subscribers were told is DISCONNECTED.
EndIsFinal ==
  /\ ended => \A c \in ClosedByClient \cap Created : channel[c] \in {"closing", "closed"}
  /\ channel["session"] = "closed" => status = "DISCONNECTED"

\* No statistics are sent after the first DISCONNECTED, not even those that were
\* being read, whatever status follows.
NoUploadAfterDisconnected ==
  [][ended =>
       \A u \in DOMAIN uploads' :
         uploads'[u].stage = "sent" => u \in DOMAIN uploads /\ uploads[u].stage = "sent"]_vars

\* After the first DISCONNECTED the interval stops and every upload is settled.
StatsStop ==
  ended ~>
    /\ timers = {}
    /\ \A u \in DOMAIN uploads : uploads[u].stage \notin {"stats", "sent"}

=============================================================================
