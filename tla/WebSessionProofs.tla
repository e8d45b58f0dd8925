--------------------------- MODULE WebSessionProofs ---------------------------
(***************************************************************************)
(* Proofs about WebSession, for any configuration and any bounds: no       *)
(* upload and no layout is left on a closed channel, answers reach their   *)
(* requests, and the end is final.                                         *)
(***************************************************************************)
EXTENDS WebSession, TLAPS, SequenceTheorems

\* The channels are made by joinMeeting; before the session channel opens there
\* is no status, so no end.
ChannelInv ==
  /\ join = "new" => \A c \in Channels : channel[c] = "none"
  /\ join # "new" => \A c \in Created : channel[c] # "none"
  /\ channel["session"] # "closing"
  /\ channel["session"] \in {"none", "connecting"} => ~ended

\* The id, the pending request and the answer of upload u, for uploads us, the
\* next id r, the pending requests p, the answered uploads a and channels ch.
UploadState(u, us, r, p, a, ch) ==
  /\ us[u].stage \in {"stats", "unsent"} => us[u].id = 0
  /\ us[u].stage \in {"sent", "answered", "closed"} => us[u].id # 0 /\ us[u].id < r
  /\ us[u].stage = "sent" <=> <<us[u].id, u>> \in p
  /\ us[u].stage = "answered" <=> u \in a
  /\ us[u].stage = "closed" => ch["stats"] = "closed"
  /\ us[u].stage = "sent" => ch["stats"] # "closed"

UploadInv ==
  /\ \A u \in 1..Len(uploads) :
       UploadState(u, uploads, requestId, pendingUploads, answered, channel)
  /\ \A x \in pendingUploads : x[1] = uploads[x[2]].id
  /\ \A u, v \in 1..Len(uploads) :
       uploads[u].id = uploads[v].id /\ uploads[u].id # 0 => u = v

\* A request for a layout that waits is in the map, of a channel not closed.
LayoutInv ==
  \A i \in 1..Len(layouts) :
    layouts[i] = "sent" => i \in pendingLayouts /\ channel["video"] # "closed"

\* The handler knows the last leave, which a closed channel has settled.
LeaveInv ==
  /\ leaveSessionPromise = Len(leaves)
  /\ channel["session"] = "closed" /\ leaves # <<>> => leaves[Len(leaves)] = "settled"

Inv ==
  /\ TypeOK
  /\ ChannelInv
  /\ SingleTimer
  /\ UploadInv
  /\ LayoutInv
  /\ LeaveInv
  /\ EndIsFinal

-----------------------------------------------------------------------------
(***************************************************************************)
(* Type correctness.                                                       *)
(***************************************************************************)

\* A function on the places of a sequence is a sequence of the same length.
LEMMA Relabelled ==
  ASSUME NEW S, NEW n \in Nat, NEW f \in [1..n -> S]
  PROVE  f \in Seq(S) /\ Len(f) = n /\ DOMAIN f = 1..n
<1>1. f \in Seq(S)
  BY SeqDef
<1> QED
  BY <1>1, LenProperties

\* The places of the three sequences.
LEMMA Places ==
  ASSUME TypeOK
  PROVE  /\ Len(uploads) \in Nat /\ DOMAIN uploads = 1..Len(uploads)
         /\ Len(layouts) \in Nat /\ DOMAIN layouts = 1..Len(layouts)
         /\ Len(leaves) \in Nat /\ DOMAIN leaves = 1..Len(leaves)
BY LenProperties DEF TypeOK

\* What a stage change does to an upload.
UploadRecords == [stage : UploadStages, id : Nat]

LEMMA UploadTyped ==
  ASSUME TypeOK, NEW u \in DOMAIN uploads
  PROVE  /\ u \in 1..Len(uploads)
         /\ uploads[u] \in UploadRecords
         /\ \A s \in UploadStages : [uploads[u] EXCEPT !.stage = s] \in UploadRecords
<1>1. u \in 1..Len(uploads) /\ uploads[u] \in UploadRecords
  BY Places, ElementOfSeq DEF TypeOK, UploadRecords
<1> QED
  BY <1>1 DEF UploadRecords

\* Changing the stage of some uploads keeps them a sequence of uploads.
LEMMA StagesChanged ==
  ASSUME TypeOK, NEW V, NEW s \in UploadStages, NEW us,
         us = [u \in DOMAIN uploads |-> IF u \in V THEN [uploads[u] EXCEPT !.stage = s]
                                        ELSE uploads[u]]
  PROVE  us \in Seq(UploadRecords) /\ Len(us) = Len(uploads)
<1>1. ASSUME NEW u \in DOMAIN uploads
      PROVE  us[u] \in UploadRecords
  BY <1>1, UploadTyped
<1>2. us \in [1..Len(uploads) -> UploadRecords]
  BY <1>1, Places
<1> QED
  BY <1>2, Relabelled, Places

\* So does giving one upload a stage and an id.
LEMMA UploadChanged ==
  ASSUME TypeOK, NEW u \in DOMAIN uploads, NEW e \in UploadRecords
  PROVE  /\ [uploads EXCEPT ![u] = e] \in Seq(UploadRecords)
         /\ Len([uploads EXCEPT ![u] = e]) = Len(uploads)
<1>1. [uploads EXCEPT ![u] = e] \in [1..Len(uploads) -> UploadRecords]
  BY UploadTyped, Places
<1> QED
  BY <1>1, Relabelled, Places

\* The handlers that settle requests change their stages.
LEMMA ResponseTyped ==
  ASSUME TypeOK, NEW u \in DOMAIN uploads, OnMediaStatsResponse(u)
  PROVE  uploads' \in Seq(UploadRecords) /\ Len(uploads') = Len(uploads)
<1> DEFINE V == {v \in DOMAIN uploads : <<uploads[u].id, v>> \in pendingUploads}
<1>1. uploads' = [v \in DOMAIN uploads |->
                    IF v \in V THEN [uploads[v] EXCEPT !.stage = "answered"] ELSE uploads[v]]
  BY DEF OnMediaStatsResponse
<1>2. "answered" \in UploadStages
  BY DEF UploadStages
<1> HIDE DEF V
<1> QED
  BY <1>1, <1>2, StagesChanged

LEMMA StatsClosesTyped ==
  ASSUME TypeOK, StatsCloses
  PROVE  uploads' \in Seq(UploadRecords) /\ Len(uploads') = Len(uploads)
<1> DEFINE V == {u \in DOMAIN uploads : \E x \in pendingUploads : x[2] = u}
<1>1. uploads' = [u \in DOMAIN uploads |->
                    IF u \in V THEN [uploads[u] EXCEPT !.stage = "closed"] ELSE uploads[u]]
  BY DEF StatsCloses
<1>2. "closed" \in UploadStages
  BY DEF UploadStages
<1> HIDE DEF V
<1> QED
  BY <1>1, <1>2, StagesChanged

\* Setting the status gives the channels states.
LEMMA StatusTyped ==
  ASSUME TypeOK, NEW s \in ConnectionStates,
         NEW ch \in [Channels -> ReadyStates], SetStatus(s, ch)
  PROVE  /\ status' \in ConnectionStates
         /\ ended' \in BOOLEAN
         /\ channel' \in [Channels -> ReadyStates]
BY DEF TypeOK, SetStatus, AfterDisconnect, ReadyStates

\* Closing a channel, too.
LEMMA ClosedTyped ==
  ASSUME TypeOK, NEW c \in Channels
  PROVE  Closed(c) \in [Channels -> ReadyStates]
BY DEF TypeOK, Closed, ReadyStates

\* Settling the promise of the last leave.
LEMMA LeaveTyped ==
  ASSUME TypeOK, ResolveLeave
  PROVE  /\ leaves' \in Seq({"pending", "settled"}) /\ Len(leaves') = Len(leaves)
         /\ leaveSessionPromise' \in 0..Len(leaves')
<1>1. leaves' \in [1..Len(leaves) -> {"pending", "settled"}]
  BY Places, ElementOfSeq DEF TypeOK, ResolveLeave
<1> QED
  BY <1>1, Relabelled, Places DEF TypeOK, ResolveLeave

LEMMA TypeStep ==
  ASSUME TypeOK, [Next]_vars
  PROVE  TypeOK'
<1> USE BoundsAssumption DEF UploadRecords
<1>1. CASE JoinMeeting
  BY <1>1 DEF JoinMeeting, TypeOK, leaveVars, timerVars, uploadVars, layoutVars,
              JoinStages, ReadyStates
<1>2. CASE JoinProgress
  BY <1>2 DEF JoinProgress, TypeOK, leaveVars, timerVars, uploadVars, layoutVars, JoinStages
<1>3. CASE JoinFails
  BY <1>3 DEF JoinFails, TypeOK, leaveVars, timerVars, uploadVars, layoutVars, JoinStages
<1>4. ASSUME NEW c \in Created, ChannelOpens(c)
      PROVE  TypeOK'
  <2>1. channel' \in [Channels -> ReadyStates]
    BY <1>4 DEF ChannelOpens, TypeOK, ReadyStates
  <2> QED
    BY <1>4, <2>1 DEF ChannelOpens, TypeOK, leaveVars, timerVars, uploadVars, layoutVars,
                      ConnectionStates
<1>5. CASE SessionCloses
  <2>1. /\ status' \in ConnectionStates
        /\ ended' \in BOOLEAN
        /\ channel' \in [Channels -> ReadyStates]
    BY <1>5, ClosedTyped, StatusTyped DEF SessionCloses, TypeOK, ConnectionStates, Channels
  <2> QED
    BY <1>5, <2>1, LeaveTyped DEF SessionCloses, TypeOK, timerVars, uploadVars, layoutVars
<1>6. CASE StatsCloses
  <2>1. channel' \in [Channels -> ReadyStates]
    BY <1>6, ClosedTyped DEF StatsCloses, Channels
  <2>2. uploads' \in Seq(UploadRecords) /\ Len(uploads') = Len(uploads)
    BY <1>6, StatsClosesTyped
  <2> QED
    BY <1>6, <2>1, <2>2 DEF StatsCloses, TypeOK, leaveVars, layoutVars
<1>7. CASE VideoCloses
  <2>1. channel' \in [Channels -> ReadyStates]
    BY <1>7, ClosedTyped DEF VideoCloses, Channels
  <2>2. layouts' \in [1..Len(layouts) -> {"sent", "answered", "closed"}]
    BY <1>7, Places, ElementOfSeq DEF VideoCloses, TypeOK
  <2> QED
    BY <1>7, <2>1, <2>2, Relabelled, Places
       DEF VideoCloses, TypeOK, leaveVars, timerVars, uploadVars
<1>8. ASSUME NEW c \in Created, PlainChannelCloses(c)
      PROVE  TypeOK'
  <2>1. channel' \in [Channels -> ReadyStates]
    BY <1>8, ClosedTyped DEF PlainChannelCloses, Channels
  <2> QED
    BY <1>8, <2>1 DEF PlainChannelCloses, TypeOK, leaveVars, timerVars, uploadVars, layoutVars
<1>9. CASE OnSessionControlMessage
  <2>1. CASE leaves # <<>> /\ ResolveLeave /\ UNCHANGED <<status, ended, channel>>
    BY <1>9, <2>1, LeaveTyped
       DEF OnSessionControlMessage, TypeOK, timerVars, uploadVars, layoutVars
  <2>2. ASSUME NEW s \in {"WAITING", "JOINED", "DISCONNECTED"}, SetStatus(s, channel),
               ResolveLeave \/ UNCHANGED leaveVars
        PROVE  TypeOK'
    <3>1. /\ status' \in ConnectionStates
          /\ ended' \in BOOLEAN
          /\ channel' \in [Channels -> ReadyStates]
      BY <2>2, StatusTyped DEF TypeOK, ConnectionStates
    <3>2. /\ leaves' \in Seq({"pending", "settled"})
          /\ leaveSessionPromise' \in 0..Len(leaves')
      BY <2>2, LeaveTyped DEF TypeOK, leaveVars
    <3> QED
      BY <1>9, <3>1, <3>2 DEF OnSessionControlMessage, TypeOK, timerVars, uploadVars, layoutVars
  <2> QED
    BY <1>9, <2>1, <2>2 DEF OnSessionControlMessage
<1>10. CASE LeaveMeeting
  <2>1. /\ leaves' \in Seq({"pending", "settled"})
        /\ leaveSessionPromise' \in 0..Len(leaves')
    BY <1>10, AppendProperties, Places DEF LeaveMeeting, TypeOK
  <2> QED
    BY <1>10, <2>1 DEF LeaveMeeting, TypeOK, sessionVars, timerVars, uploadVars, layoutVars
<1>11. CASE OnMediaStatsResources
  <2>1. /\ configs' \in 0..MaxConfigs /\ configs' = configs + 1
        /\ timers' \subseteq 1..configs' /\ intervalId' \in 0..configs'
    <3>1. PICK seconds \in {0, 1} : Restart(seconds)
      BY <1>11 DEF OnMediaStatsResources
    <3>2. configs \in Nat /\ configs' = configs + 1 /\ configs < MaxConfigs
      BY <1>11 DEF OnMediaStatsResources, TypeOK
    <3>3. configs' \in 0..MaxConfigs
      BY <3>2
    <3>4. timers' \subseteq 1..configs'
      BY <3>1, <3>2 DEF Restart, TypeOK
    <3>5. intervalId' \in 0..configs'
      BY <3>1, <3>2 DEF Restart, TypeOK
    <3> QED
      BY <3>2, <3>3, <3>4, <3>5
  <2> QED
    BY <1>11, <2>1
       DEF OnMediaStatsResources, TypeOK, sessionVars, leaveVars, uploadVars, layoutVars
<1>12. CASE Tick
  <2>1. [stage |-> "stats", id |-> 0] \in UploadRecords
    BY DEF UploadStages
  <2>2. uploads' \in Seq(UploadRecords) /\ Len(uploads') = Len(uploads) + 1
    BY <1>12, <2>1, AppendProperties DEF Tick, TypeOK
  <2>3. 1..Len(uploads) \subseteq 1..Len(uploads')
    BY <2>2, Places
  <2>4. /\ pendingUploads' \subseteq (Nat \ {0}) \X (1..Len(uploads'))
        /\ answered' \subseteq 1..Len(uploads')
    BY <1>12, <2>3 DEF Tick, TypeOK
  <2> QED
    BY <1>12, <2>2, <2>4 DEF Tick, TypeOK, sessionVars, leaveVars, timerVars, layoutVars
<1>13. ASSUME NEW u \in DOMAIN uploads, StatsReady(u)
       PROVE  TypeOK'
  <2>1. CASE Send(u) /\ UNCHANGED <<intervalId, timers>>
    <3>1. [stage |-> "sent", id |-> requestId] \in UploadRecords
      BY DEF UploadStages, TypeOK
    <3>2. uploads' \in Seq(UploadRecords) /\ Len(uploads') = Len(uploads)
      BY <2>1, <3>1, UploadChanged DEF Send
    <3>3. /\ pendingUploads' \subseteq (Nat \ {0}) \X (1..Len(uploads'))
          /\ requestId' \in Nat \ {0}
      <4>1. requestId \in Nat \ {0} /\ requestId' = requestId + 1
        BY <2>1 DEF Send, TypeOK
      <4>2. pendingUploads' \subseteq pendingUploads \cup {<<requestId, u>>}
        BY <2>1 DEF Send, Put
      <4>3. pendingUploads \subseteq (Nat \ {0}) \X (1..Len(uploads'))
        BY <3>2 DEF TypeOK
      <4>4. <<requestId, u>> \in (Nat \ {0}) \X (1..Len(uploads'))
        BY <4>1, <3>2, UploadTyped
      <4>5. requestId' \in Nat \ {0}
        BY <4>1
      <4>6. pendingUploads' \subseteq (Nat \ {0}) \X (1..Len(uploads'))
        BY <4>2, <4>3, <4>4
      <4> QED
        BY <4>5, <4>6
    <3> QED
      BY <1>13, <2>1, <3>2, <3>3 DEF StatsReady, TypeOK, sessionVars, leaveVars, layoutVars
  <2>2. CASE /\ uploads' = [uploads EXCEPT ![u].stage = "unsent"]
             /\ intervalId' \in {0, intervalId} /\ timers' \subseteq timers
             /\ UNCHANGED <<requestId, pendingUploads>>
    <3>1. [uploads[u] EXCEPT !.stage = "unsent"] \in UploadRecords
      BY UploadTyped DEF UploadStages
    <3>2. uploads' \in Seq(UploadRecords) /\ Len(uploads') = Len(uploads)
      BY <2>2, <3>1, UploadChanged
    <3>3. UNCHANGED <<sessionVars, leaveVars, allowlist, configs, answered, layoutVars>>
      BY <1>13 DEF StatsReady
    <3>4. intervalId' \in 0..configs' /\ timers' \subseteq 1..configs'
      BY <2>2, <3>3 DEF TypeOK
    <3> QED
      BY <2>2, <3>2, <3>3, <3>4 DEF TypeOK, sessionVars, leaveVars, layoutVars
  <2> QED
    BY <1>13, <2>1, <2>2 DEF StatsReady
<1>14. ASSUME NEW u \in DOMAIN uploads, StatsFails(u)
       PROVE  TypeOK'
  <2>1. [uploads[u] EXCEPT !.stage = "unsent"] \in UploadRecords
    BY UploadTyped DEF UploadStages
  <2>2. uploads' \in Seq(UploadRecords) /\ Len(uploads') = Len(uploads)
    BY <1>14, <2>1, UploadChanged DEF StatsFails
  <2> QED
    BY <1>14, <2>2 DEF StatsFails, TypeOK, sessionVars, leaveVars, timerVars, layoutVars
<1>15. ASSUME NEW u \in DOMAIN uploads, OnMediaStatsResponse(u)
       PROVE  TypeOK'
  BY <1>15, ResponseTyped, UploadTyped
     DEF OnMediaStatsResponse, TypeOK, sessionVars, leaveVars, timerVars, layoutVars
<1>16. CASE ApplyLayout
  <2>1. /\ layouts' \in Seq({"sent", "answered", "closed"})
        /\ Len(layouts') = Len(layouts) + 1
    BY <1>16, AppendProperties DEF ApplyLayout, TypeOK
  <2>2. 1..Len(layouts) \subseteq 1..Len(layouts') /\ Len(layouts) + 1 \in 1..Len(layouts')
    BY <2>1, Places
  <2>3. pendingLayouts' \subseteq 1..Len(layouts')
    BY <1>16, <2>2 DEF ApplyLayout, TypeOK
  <2> QED
    BY <1>16, <2>1, <2>3 DEF ApplyLayout, TypeOK, sessionVars, leaveVars, timerVars, uploadVars
<1>17. ASSUME NEW i \in DOMAIN layouts, OnVideoAssignmentResponse(i)
       PROVE  TypeOK'
  <2>1. layouts' \in Seq({"sent", "answered", "closed"}) /\ Len(layouts') = Len(layouts)
    BY <1>17, ExceptSeq, Places DEF OnVideoAssignmentResponse, TypeOK
  <2> QED
    BY <1>17, <2>1
       DEF OnVideoAssignmentResponse, TypeOK, sessionVars, leaveVars, timerVars, uploadVars
<1>18. CASE UNCHANGED vars
  BY <1>18 DEF TypeOK, vars, sessionVars, leaveVars, timerVars, uploadVars, layoutVars
<1> QED
  BY <1>1, <1>2, <1>3, <1>4, <1>5, <1>6, <1>7, <1>8, <1>9, <1>10, <1>11, <1>12,
     <1>13, <1>14, <1>15, <1>16, <1>17, <1>18 DEF Next, ChannelCloses, Terminated

LEMMA TypeInit == Init => TypeOK
<1> SUFFICES ASSUME Init PROVE TypeOK
  OBVIOUS
<1>1. ended \in BOOLEAN
  BY DEF Init
<1>2. /\ join \in JoinStages /\ channel \in [Channels -> ReadyStates]
      /\ status \in ConnectionStates
  BY DEF Init, JoinStages, ReadyStates, ConnectionStates
<1>3. /\ leaves = <<>> /\ uploads = <<>> /\ layouts = <<>>
      /\ leaveSessionPromise = 0 /\ allowlist = {} /\ intervalId = 0 /\ timers = {}
      /\ configs = 0 /\ requestId = 1 /\ pendingUploads = {} /\ pendingLayouts = {}
      /\ answered = {}
  BY DEF Init
<1> QED
  BY <1>1, <1>2, <1>3, BoundsAssumption DEF TypeOK

\* The types of the session's state.
THEOREM TypeCorrect == Spec => []TypeOK
<1> QED
  BY TypeInit, TypeStep, PTL DEF Spec

-----------------------------------------------------------------------------
(***************************************************************************)
(* The end of the session, and the interval.                               *)
(***************************************************************************)

\* Setting the status keeps both invariants, for channels that do.
LEMMA StatusSet ==
  ASSUME TypeOK, EndIsFinal, join' # "new",
         NEW s \in ConnectionStates, NEW ch \in [Channels -> ReadyStates],
         \A c \in Created : ch[c] # "none",
         \A c \in Channels \ {"session"} : ch[c] = channel[c],
         ch["session"] \in {"open", "closed"},
         ch["session"] = "closed" => s = "DISCONNECTED",
         SetStatus(s, ch)
  PROVE  ChannelInv' /\ EndIsFinal'
<1>1. ClosedByClient \subseteq Channels \ {"session"} /\ Created \subseteq Channels
  BY DEF ClosedByClient, Created, Channels
<1>2. CASE s = "DISCONNECTED"
  <2>1. channel' = [c \in Channels |-> IF c \in ClosedByClient /\ ch[c] \in {"connecting", "open"}
                                     THEN "closing" ELSE ch[c]]
    BY <1>2 DEF SetStatus, AfterDisconnect
  <2>2. /\ channel'["session"] = ch["session"]
        /\ \A c \in Created : channel'[c] # "none"
        /\ \A c \in ClosedByClient \cap Created : channel'[c] \in {"closing", "closed"}
    BY <1>1, <2>1 DEF Channels, ReadyStates
  <2> QED
    BY <1>2, <2>2 DEF SetStatus, ChannelInv, EndIsFinal
<1>3. CASE s # "DISCONNECTED"
  <2>1. channel' = ch /\ ch["session"] = "open"
    BY <1>3 DEF SetStatus
  <2>2. ended' = (ended \/ s = "DISCONNECTED") /\ ended \in BOOLEAN
    BY DEF SetStatus, TypeOK
  <2>3. ended' = ended
    BY <1>3, <2>2
  <2>4. ended => \A c \in ClosedByClient \cap Created : ch[c] \in {"closing", "closed"}
    BY <1>1 DEF EndIsFinal
  <2> QED
    BY <2>1, <2>3, <2>4 DEF ChannelInv, EndIsFinal
<1> QED
  BY <1>2, <1>3

LEMMA SessionStep ==
  ASSUME TypeOK, ChannelInv, EndIsFinal, [Next]_vars
  PROVE  ChannelInv' /\ EndIsFinal'
<1> USE DEF Created, Channels
<1>1. CASE JoinMeeting
  <2>1. ~ended
    BY <1>1 DEF JoinMeeting, ChannelInv
  <2>2. /\ \A c \in Created : channel'[c] = "connecting"
        /\ channel'["session"] = "connecting" /\ join' = "offer" /\ ended' = ended
    BY <1>1 DEF JoinMeeting
  <2> QED
    BY <2>1, <2>2 DEF ChannelInv, EndIsFinal
<1>2. CASE JoinProgress \/ JoinFails
  BY <1>2 DEF JoinProgress, JoinFails, ChannelInv, EndIsFinal
<1>3. ASSUME NEW c \in Created, ChannelOpens(c)
      PROVE  ChannelInv' /\ EndIsFinal'
  <2>1. /\ join = "joined" /\ join' = join /\ ended' = ended
        /\ \A d \in Channels : channel'[d] = IF d = c THEN "open" ELSE channel[d]
        /\ channel[c] = "connecting"
        /\ channel'["session"] # "closed" \/ channel'["session"] = channel["session"]
    BY <1>3 DEF ChannelOpens, TypeOK
  <2>2. channel["session"] = "closed" => c # "session" /\ status' = status
    BY <1>3, <2>1 DEF ChannelOpens
  <2> QED
    BY <2>1, <2>2 DEF ChannelInv, EndIsFinal
<1>4. CASE join = "joined" /\ SessionCloses
  <2>1. /\ Closed("session") \in [Channels -> ReadyStates]
        /\ \A c \in Channels :
             Closed("session")[c] = IF c = "session" THEN "closed" ELSE channel[c]
    BY ClosedTyped DEF Closed, TypeOK
  <2>2. \A c \in Created : channel[c] # "none"
    BY <1>4 DEF ChannelInv
  <2>3. CASE status # "DISCONNECTED"
    <3>1. SetStatus("DISCONNECTED", Closed("session")) /\ join' # "new"
      BY <1>4, <2>3 DEF SessionCloses
    <3> QED
      BY <2>1, <2>2, <3>1, StatusSet DEF ConnectionStates
  <2>4. CASE status = "DISCONNECTED"
    <3>1. UNCHANGED <<join, status, ended>> /\ channel' = Closed("session")
      BY <1>4, <2>4 DEF SessionCloses
    <3> QED
      BY <1>4, <2>1, <2>2, <2>4, <3>1 DEF ChannelInv, EndIsFinal, ClosedByClient
  <2> QED
    BY <2>3, <2>4
<1>5. ASSUME NEW c \in Channels \ {"session"}, join = "joined", channel' = Closed(c),
             UNCHANGED <<join, status, ended>>
      PROVE  ChannelInv' /\ EndIsFinal'
  <2>1. \A d \in Channels : channel'[d] = IF d = c THEN "closed" ELSE channel[d]
    BY <1>5 DEF Closed, TypeOK
  <2> QED
    BY <1>5, <2>1 DEF ChannelInv, EndIsFinal
<1>6. CASE OnSessionControlMessage
  <2>1. /\ join # "new" /\ join' # "new" /\ channel["session"] = "open"
        /\ \A c \in Created : channel[c] # "none"
    BY <1>6 DEF OnSessionControlMessage, ChannelInv
  <2>2. CASE UNCHANGED <<status, ended, channel>>
    BY <1>6, <2>2 DEF OnSessionControlMessage, ChannelInv, EndIsFinal
  <2>3. ASSUME NEW s \in {"WAITING", "JOINED", "DISCONNECTED"}, SetStatus(s, channel)
        PROVE  ChannelInv' /\ EndIsFinal'
    <3>1. s \in ConnectionStates /\ channel \in [Channels -> ReadyStates]
      BY DEF TypeOK, ConnectionStates
    <3> QED
      BY <2>1, <2>3, <3>1, StatusSet
  <2> QED
    BY <1>6, <2>2, <2>3 DEF OnSessionControlMessage
<1>7. CASE UNCHANGED sessionVars
  BY <1>7 DEF sessionVars, ChannelInv, EndIsFinal
<1>8. ASSUME NEW c \in Created, join = "joined", ChannelCloses(c)
      PROVE  ChannelInv' /\ EndIsFinal'
  BY <1>4, <1>5, <1>8
     DEF ChannelCloses, StatsCloses, VideoCloses, PlainChannelCloses
<1> QED
  BY <1>1, <1>2, <1>3, <1>6, <1>7, <1>8
     DEF Next, LeaveMeeting, OnMediaStatsResources, Tick, StatsReady,
         StatsFails, OnMediaStatsResponse, ApplyLayout, OnVideoAssignmentResponse,
         Terminated, vars

\* No step but its own handler's closes a channel.
LEMMA OnlyItsHandler ==
  ASSUME TypeOK, [Next]_vars, NEW c \in Channels, channel'[c] = "closed"
  PROVE  channel[c] = "closed" \/ ChannelCloses(c)
<1>1. ASSUME NEW s, NEW ch \in [Channels -> ReadyStates], SetStatus(s, ch),
             ch[c] = channel[c]
      PROVE  channel[c] = "closed"
  BY <1>1 DEF SetStatus, AfterDisconnect
<1>2. CASE JoinMeeting
  BY <1>2 DEF JoinMeeting
<1>3. ASSUME NEW d \in Created, ChannelOpens(d)
      PROVE  channel[c] = "closed"
  BY <1>3 DEF ChannelOpens, TypeOK
<1>4. CASE c # "session" /\ SessionCloses
  <2>1. /\ Closed("session") \in [Channels -> ReadyStates]
        /\ Closed("session")[c] = channel[c]
    BY <1>4, ClosedTyped DEF Closed, TypeOK, Channels
  <2> QED
    BY <1>1, <1>4, <2>1 DEF SessionCloses
<1>5. ASSUME NEW d \in Channels \ {c}, channel' = Closed(d)
      PROVE  channel[c] = "closed"
  BY <1>5 DEF Closed, TypeOK
<1>6. CASE OnSessionControlMessage
  BY <1>1, <1>6 DEF OnSessionControlMessage, TypeOK
<1>7. ASSUME NEW d \in Created, ChannelCloses(d)
      PROVE  channel[c] = "closed" \/ ChannelCloses(c)
  <2>1. CASE d = c
    BY <1>7, <2>1
  <2>2. CASE d # c /\ d = "session"
    BY <1>4, <1>7, <2>2 DEF ChannelCloses, PlainChannelCloses
  <2>3. CASE d # c /\ d # "session"
    BY <1>5, <1>7, <2>3
       DEF ChannelCloses, StatsCloses, VideoCloses, PlainChannelCloses, Channels
  <2> QED
    BY <2>1, <2>2, <2>3
<1>8. CASE UNCHANGED channel
  BY <1>8
<1> QED
  BY <1>2, <1>3, <1>6, <1>7, <1>8
     DEF Next, JoinProgress, JoinFails, LeaveMeeting, OnMediaStatsResources,
         Tick, StatsReady, StatsFails, OnMediaStatsResponse, ApplyLayout,
         OnVideoAssignmentResponse, Terminated, vars, sessionVars

\* A closed channel stays closed.
LEMMA ClosedStays ==
  ASSUME TypeOK, ChannelInv, [Next]_vars, NEW c \in Channels, channel[c] = "closed"
  PROVE  channel'[c] = "closed"
<1>1. ASSUME NEW s, NEW ch \in [Channels -> ReadyStates], SetStatus(s, ch),
             ch[c] = "closed"
      PROVE  channel'[c] = "closed"
  BY <1>1 DEF SetStatus, AfterDisconnect
<1>2. ASSUME NEW d \in Channels
      PROVE  Closed(d) \in [Channels -> ReadyStates] /\ Closed(d)[c] = "closed"
  BY <1>2, ClosedTyped DEF Closed, TypeOK
<1>3. ~JoinMeeting
  BY DEF JoinMeeting, ChannelInv
<1>4. ASSUME NEW d \in Created, ChannelOpens(d)
      PROVE  channel'[c] = "closed"
  BY <1>4 DEF ChannelOpens, TypeOK
<1>5. CASE SessionCloses
  BY <1>1, <1>2, <1>5 DEF SessionCloses, Channels
<1>6. CASE OnSessionControlMessage
  BY <1>1, <1>6 DEF OnSessionControlMessage, TypeOK
<1>7. ASSUME NEW d \in Created, ChannelCloses(d)
      PROVE  channel'[c] = "closed"
  BY <1>2, <1>5, <1>7
     DEF ChannelCloses, StatsCloses, VideoCloses, PlainChannelCloses, Channels
<1>8. CASE UNCHANGED channel
  BY <1>8
<1> QED
  BY <1>3, <1>4, <1>6, <1>7, <1>8
     DEF Next, JoinProgress, JoinFails, LeaveMeeting, OnMediaStatsResources,
         Tick, StatsReady, StatsFails, OnMediaStatsResponse, ApplyLayout,
         OnVideoAssignmentResponse, Terminated, vars, sessionVars

LEMMA TimerStep ==
  ASSUME TypeOK, SingleTimer, [Next]_vars
  PROVE  SingleTimer'
<1>1. CASE OnMediaStatsResources
  <2>1. PICK seconds \in {0, 1} : Restart(seconds)
    BY <1>1 DEF OnMediaStatsResources
  <2>2. configs \in Nat /\ channel["stats"] = "open" /\ UNCHANGED channel
    BY <1>1 DEF OnMediaStatsResources, TypeOK, sessionVars
  <2>3. CASE seconds = 0
    BY <2>1, <2>2, <2>3 DEF Restart, SingleTimer
  <2>4. CASE seconds = 1
    BY <2>1, <2>2, <2>4 DEF Restart, SingleTimer
  <2> QED
    BY <2>3, <2>4
<1>2. CASE StatsCloses
  BY <1>2 DEF StatsCloses, SingleTimer
<1>3. ASSUME NEW u \in DOMAIN uploads, StatsReady(u)
      PROVE  SingleTimer'
  BY <1>3 DEF StatsReady, SingleTimer, sessionVars
<1>4. CASE UNCHANGED timerVars /\ ~StatsCloses
  <2>1. channel'["stats"] = "closed" => channel["stats"] = "closed"
    BY <1>4, OnlyItsHandler DEF Channels, ChannelCloses, PlainChannelCloses
  <2> QED
    BY <1>4, <2>1 DEF timerVars, SingleTimer
<1> QED
  BY <1>1, <1>2, <1>3, <1>4
     DEF Next, JoinMeeting, JoinProgress, JoinFails, ChannelOpens, ChannelCloses, SessionCloses,
         VideoCloses, PlainChannelCloses, OnSessionControlMessage, LeaveMeeting,
         Tick, StatsFails, OnMediaStatsResponse, ApplyLayout, OnVideoAssignmentResponse,
         Terminated, vars

-----------------------------------------------------------------------------
(***************************************************************************)
(* The requests for layouts, and the leaves.                               *)
(***************************************************************************)

LEMMA LayoutStep ==
  ASSUME TypeOK, LayoutInv, [Next]_vars
  PROVE  LayoutInv'
<1>1. CASE ApplyLayout
  <2>1. /\ Len(layouts') = Len(layouts) + 1
        /\ \A i \in 1..Len(layouts) : layouts'[i] = layouts[i]
    BY <1>1, AppendProperties DEF ApplyLayout, TypeOK
  <2>2. /\ \A i \in 1..Len(layouts') : i \in 1..Len(layouts) \/ i = Len(layouts) + 1
        /\ channel["video"] = "open" /\ UNCHANGED channel
    BY <1>1, <2>1, Places DEF ApplyLayout, sessionVars
  <2> QED
    BY <1>1, <2>1, <2>2 DEF ApplyLayout, LayoutInv
<1>2. ASSUME NEW i \in DOMAIN layouts, OnVideoAssignmentResponse(i)
      PROVE  LayoutInv'
  <2>1. /\ Len(layouts') = Len(layouts)
        /\ \A j \in 1..Len(layouts) :
             layouts'[j] = IF j = i THEN "answered" ELSE layouts[j]
    BY <1>2, ExceptSeq, Places DEF OnVideoAssignmentResponse, TypeOK
  <2> QED
    BY <1>2, <2>1 DEF OnVideoAssignmentResponse, LayoutInv, sessionVars
<1>3. CASE VideoCloses
  <2>1. layouts' \in [1..Len(layouts) -> {"sent", "answered", "closed"}]
    BY <1>3, Places, ElementOfSeq DEF VideoCloses, TypeOK
  <2>2. Len(layouts') = Len(layouts)
    BY <2>1, Relabelled, Places
  <2>3. \A i \in 1..Len(layouts) : layouts'[i] # "sent"
    BY <1>3, Places DEF VideoCloses, LayoutInv
  <2> QED
    BY <2>2, <2>3 DEF LayoutInv
<1>4. CASE UNCHANGED layoutVars /\ ~VideoCloses
  <2>1. channel'["video"] = "closed" => channel["video"] = "closed"
    BY <1>4, OnlyItsHandler DEF Channels, ChannelCloses, PlainChannelCloses
  <2> QED
    BY <1>4, <2>1 DEF layoutVars, LayoutInv
<1> QED
  BY <1>1, <1>2, <1>3, <1>4
     DEF Next, JoinMeeting, JoinProgress, JoinFails, ChannelOpens, ChannelCloses, SessionCloses,
         StatsCloses, PlainChannelCloses, OnSessionControlMessage, LeaveMeeting,
         OnMediaStatsResources, Tick, StatsReady, StatsFails, OnMediaStatsResponse, Terminated,
         vars

\* Settling keeps the number of leaves, and settles the one it knows.
LEMMA LeaveResolved ==
  ASSUME TypeOK, LeaveInv, ResolveLeave
  PROVE  /\ leaveSessionPromise' = Len(leaves')
         /\ leaves' # <<>> => leaves'[Len(leaves')] = "settled"
<1>1. Len(leaves') = Len(leaves) /\ leaves' \in Seq({"pending", "settled"})
  BY LeaveTyped
<1>2. leaves' # <<>> => Len(leaves) \in DOMAIN leaves
  BY <1>1, EmptySeq, Places DEF TypeOK
<1> QED
  BY <1>1, <1>2 DEF ResolveLeave, LeaveInv

LEMMA LeaveStep ==
  ASSUME TypeOK, LeaveInv, [Next]_vars
  PROVE  LeaveInv'
<1>1. CASE ResolveLeave
  BY <1>1, LeaveResolved DEF LeaveInv
<1>2. CASE LeaveMeeting
  BY <1>2, AppendProperties DEF LeaveMeeting, LeaveInv, TypeOK, sessionVars
<1>3. CASE UNCHANGED leaveVars /\ ~SessionCloses
  <2>1. channel'["session"] = "closed" => channel["session"] = "closed"
    BY <1>3, OnlyItsHandler DEF Channels, ChannelCloses, PlainChannelCloses
  <2> QED
    BY <1>3, <2>1 DEF leaveVars, LeaveInv
<1>4. SessionCloses => ResolveLeave
  BY DEF SessionCloses
<1>5. OnSessionControlMessage => ResolveLeave \/ UNCHANGED leaveVars
  BY DEF OnSessionControlMessage
<1> QED
  BY <1>1, <1>2, <1>3, <1>4, <1>5
     DEF Next, JoinMeeting, JoinProgress, JoinFails, ChannelOpens, ChannelCloses, StatsCloses,
         VideoCloses, PlainChannelCloses, OnMediaStatsResources, Tick, StatsReady, StatsFails,
         OnMediaStatsResponse, ApplyLayout, OnVideoAssignmentResponse, Terminated, vars

-----------------------------------------------------------------------------
(***************************************************************************)
(* The uploads and their answers.                                          *)
(***************************************************************************)

\* A call that is still reading its report ends without having sent one.
LEMMA UploadUnsent ==
  ASSUME TypeOK, UploadInv, NEW u \in DOMAIN uploads, uploads[u].stage = "stats",
         uploads' = [uploads EXCEPT ![u].stage = "unsent"],
         UNCHANGED <<requestId, pendingUploads, answered, channel>>
  PROVE  UploadInv'
<1>1. u \in 1..Len(uploads) /\ [uploads[u] EXCEPT !.stage = "unsent"] \in UploadRecords
  BY UploadTyped DEF UploadStages
<1>2. Len(uploads') = Len(uploads)
  BY <1>1, UploadChanged
<1>3. \A v \in 1..Len(uploads) :
        /\ uploads'[v].id = uploads[v].id
        /\ uploads'[v].stage = IF v = u THEN "unsent" ELSE uploads[v].stage
  BY <1>1, UploadTyped, Places DEF UploadRecords
<1>4. \A v \in 1..Len(uploads') :
        UploadState(v, uploads', requestId', pendingUploads', answered', channel')
  BY <1>1, <1>2, <1>3 DEF UploadInv, UploadState
<1>5. \A x \in pendingUploads' : x[1] = uploads'[x[2]].id
  BY <1>3 DEF UploadInv, TypeOK
<1>6. ASSUME NEW v \in 1..Len(uploads), NEW w \in 1..Len(uploads),
             uploads'[v].id = uploads'[w].id, uploads'[v].id # 0
      PROVE  v = w
  BY <1>3, <1>6 DEF UploadInv
<1> QED
  BY <1>2, <1>4, <1>5, <1>6 DEF UploadInv

LEMMA UploadSent ==
  ASSUME TypeOK, UploadInv, NEW u \in DOMAIN uploads, uploads[u].stage = "stats",
         channel["stats"] = "open", Send(u), UNCHANGED <<answered, channel>>
  PROVE  UploadInv'
<1>1. /\ u \in 1..Len(uploads) /\ requestId \in Nat \ {0}
      /\ [stage |-> "sent", id |-> requestId] \in UploadRecords
  BY UploadTyped DEF UploadStages, UploadRecords, TypeOK
<1>2. Len(uploads') = Len(uploads)
  BY <1>1, UploadChanged DEF Send
<1>3. \A v \in 1..Len(uploads) :
        /\ uploads'[v].id = IF v = u THEN requestId ELSE uploads[v].id
        /\ uploads'[v].stage = IF v = u THEN "sent" ELSE uploads[v].stage
  BY <1>1, Places DEF Send
<1>4. \A v \in 1..Len(uploads) : uploads[v].id \in Nat /\ uploads[v].id < requestId
  <2>1. ASSUME NEW v \in 1..Len(uploads)
        PROVE  uploads[v].id \in Nat /\ uploads[v].id < requestId
    <3>1. uploads[v].id \in Nat /\ uploads[v].stage \in UploadStages
      BY UploadTyped, Places DEF UploadRecords
    <3>2. uploads[v].id = 0 \/ uploads[v].id < requestId
      BY <3>1 DEF UploadInv, UploadState, UploadStages
    <3> QED
      BY <1>1, <3>1, <3>2
  <2> QED
    BY <2>1
<1>5. pendingUploads' = pendingUploads \cup {<<requestId, u>>}
  <2>1. \A x \in pendingUploads : x[1] # requestId
    BY <1>4 DEF UploadInv, TypeOK
  <2> QED
    BY <2>1 DEF Send, Put
<1>6. ASSUME NEW v \in 1..Len(uploads)
      PROVE  UploadState(v, uploads', requestId', pendingUploads', answered', channel')
  <2>1. requestId' = requestId + 1
    BY DEF Send
  <2>2. CASE v = u
    <3>1. uploads'[u].id = requestId /\ uploads'[u].stage = "sent"
      BY <1>1, <1>3
    <3>2. requestId # 0 /\ requestId < requestId'
      BY <1>1, <2>1
    <3>3. u \notin answered
      BY <1>1 DEF UploadInv, UploadState
    <3> QED
      BY <1>5, <2>2, <3>1, <3>2, <3>3 DEF UploadState
  <2>3. CASE v # u
    <3>1. uploads'[v].id = uploads[v].id /\ uploads'[v].stage = uploads[v].stage
      BY <1>3, <2>3
    <3>2. <<uploads[v].id, v>> \in pendingUploads' <=> <<uploads[v].id, v>> \in pendingUploads
      BY <1>5, <2>3
    <3>3. uploads[v].id < requestId'
      BY <1>1, <1>4, <2>1
    <3> QED
      BY <3>1, <3>2, <3>3 DEF UploadInv, UploadState
  <2> QED
    BY <2>2, <2>3
<1>7. ASSUME NEW x \in pendingUploads'
      PROVE  x[1] = uploads'[x[2]].id
  <2>1. CASE x = <<requestId, u>>
    BY <1>1, <1>3, <2>1
  <2>2. CASE x \in pendingUploads
    <3>1. x[2] \in 1..Len(uploads) /\ x = <<x[1], x[2]>> /\ x[1] = uploads[x[2]].id
      BY <2>2 DEF TypeOK, UploadInv
    <3>2. x[2] # u
      BY <1>1, <2>2, <3>1 DEF UploadInv, UploadState
    <3> QED
      BY <1>3, <3>1, <3>2
  <2> QED
    BY <1>5, <2>1, <2>2
<1>8. ASSUME NEW v \in 1..Len(uploads), NEW w \in 1..Len(uploads),
             uploads'[v].id = uploads'[w].id, uploads'[v].id # 0
      PROVE  v = w
  BY <1>1, <1>3, <1>4, <1>8 DEF UploadInv
<1> QED
  BY <1>2, <1>6, <1>7, <1>8 DEF UploadInv

\* The answer finds exactly the request of its id.
LEMMA UploadAnswered ==
  ASSUME TypeOK, UploadInv, NEW u \in DOMAIN uploads, OnMediaStatsResponse(u)
  PROVE  UploadInv'
<1> DEFINE id == uploads[u].id
<1>1. u \in 1..Len(uploads) /\ id # 0 /\ u \notin answered /\ channel["stats"] = "open"
  BY UploadTyped DEF OnMediaStatsResponse
<1>2. uploads[u].stage = "sent" /\ <<id, u>> \in pendingUploads
  BY <1>1, UploadTyped DEF UploadInv, UploadState, UploadRecords, UploadStages
<1>3. \A v \in 1..Len(uploads) : <<id, v>> \in pendingUploads => v = u
  BY <1>1 DEF UploadInv
<1>4. \A v \in 1..Len(uploads) :
        /\ uploads'[v].id = uploads[v].id
        /\ uploads'[v].stage = IF v = u THEN "answered" ELSE uploads[v].stage
  BY <1>1, <1>2, <1>3, UploadTyped, Places DEF OnMediaStatsResponse, UploadRecords
<1>5. Len(uploads') = Len(uploads)
  BY ResponseTyped
<1>6. /\ UNCHANGED <<requestId, channel>>
      /\ answered' = answered \cup {u}
      /\ pendingUploads' = {x \in pendingUploads : x[1] # id}
  BY DEF OnMediaStatsResponse, sessionVars
<1>7. ASSUME NEW v \in 1..Len(uploads)
      PROVE  UploadState(v, uploads', requestId', pendingUploads', answered', channel')
  <2>1. CASE v = u
    BY <1>1, <1>2, <1>4, <1>6, <2>1 DEF UploadInv, UploadState
  <2>2. CASE v # u
    <3>1. uploads[v].id = id => <<uploads[v].id, v>> \notin pendingUploads
      BY <1>3, <2>2
    <3>2. <<uploads[v].id, v>> \in pendingUploads' <=> <<uploads[v].id, v>> \in pendingUploads
      BY <1>6, <3>1
    <3> QED
      BY <1>4, <1>6, <2>2, <3>2 DEF UploadInv, UploadState
  <2> QED
    BY <2>1, <2>2
<1>8. \A x \in pendingUploads' : x[1] = uploads'[x[2]].id
  BY <1>4, <1>6 DEF UploadInv, TypeOK
<1> QED
  BY <1>4, <1>5, <1>7, <1>8 DEF UploadInv

\* The closing channel settles every request.
LEMMA UploadsClosed ==
  ASSUME TypeOK, UploadInv, StatsCloses
  PROVE  UploadInv'
<1> DEFINE V == {u \in DOMAIN uploads : \E x \in pendingUploads : x[2] = u}
<1>1. uploads' = [u \in DOMAIN uploads |->
                    IF u \in V THEN [uploads[u] EXCEPT !.stage = "closed"] ELSE uploads[u]]
  BY DEF StatsCloses
<1>2. Len(uploads') = Len(uploads)
  BY StatsClosesTyped
<1>3. \A u \in 1..Len(uploads) : u \in V <=> uploads[u].stage = "sent"
  <2>1. ASSUME NEW u \in 1..Len(uploads), NEW x \in pendingUploads, x[2] = u
        PROVE  x = <<uploads[u].id, u>>
    BY <2>1 DEF UploadInv, TypeOK
  <2> QED
    BY <2>1, Places DEF UploadInv, UploadState
<1>4. \A u \in 1..Len(uploads) :
        /\ uploads'[u].id = uploads[u].id
        /\ uploads'[u].stage = IF uploads[u].stage = "sent" THEN "closed" ELSE uploads[u].stage
  BY <1>1, <1>3, UploadTyped, Places DEF UploadRecords
<1>5. /\ UNCHANGED <<requestId, answered>>
      /\ pendingUploads' = {} /\ channel'["stats"] = "closed"
  BY DEF StatsCloses, Closed, TypeOK, Channels
<1>6. \A u \in 1..Len(uploads) :
        UploadState(u, uploads', requestId', pendingUploads', answered', channel')
  BY <1>4, <1>5 DEF UploadInv, UploadState
<1> QED
  BY <1>2, <1>4, <1>5, <1>6 DEF UploadInv

LEMMA UploadStep ==
  ASSUME TypeOK, ChannelInv, UploadInv, [Next]_vars
  PROVE  UploadInv'
<1>1. CASE Tick
  <2>1. /\ Len(uploads') = Len(uploads) + 1
        /\ \A u \in 1..Len(uploads) : uploads'[u] = uploads[u]
        /\ uploads'[Len(uploads) + 1] = [stage |-> "stats", id |-> 0]
    BY <1>1, AppendProperties DEF Tick, TypeOK
  <2>2. \A u \in 1..Len(uploads') : u \in 1..Len(uploads) \/ u = Len(uploads) + 1
    BY <2>1, Places
  <2>3. UNCHANGED <<requestId, pendingUploads, answered, channel>>
    BY <1>1 DEF Tick, sessionVars
  <2>4. /\ \A x \in pendingUploads : x[2] # Len(uploads) + 1
        /\ Len(uploads) + 1 \notin answered
    BY Places DEF TypeOK
  <2>5. ASSUME NEW u \in 1..Len(uploads')
        PROVE  UploadState(u, uploads', requestId', pendingUploads', answered', channel')
    BY <2>1, <2>2, <2>3, <2>4 DEF UploadInv, UploadState
  <2>6. \A x \in pendingUploads' : x[1] = uploads'[x[2]].id
    BY <2>1, <2>3 DEF UploadInv, TypeOK
  <2>7. \A u, v \in 1..Len(uploads') :
          uploads'[u].id = uploads'[v].id /\ uploads'[u].id # 0 => u = v
    BY <2>1, <2>2 DEF UploadInv
  <2> QED
    BY <2>5, <2>6, <2>7 DEF UploadInv
<1>2. ASSUME NEW u \in DOMAIN uploads, StatsReady(u) \/ StatsFails(u)
      PROVE  UploadInv'
  BY <1>2, UploadSent, UploadUnsent DEF StatsReady, StatsFails, sessionVars
<1>3. ASSUME NEW u \in DOMAIN uploads, OnMediaStatsResponse(u)
      PROVE  UploadInv'
  BY <1>3, UploadAnswered
<1>4. CASE StatsCloses
  BY <1>4, UploadsClosed
<1>5. CASE UNCHANGED uploadVars /\ ~StatsCloses
  <2>1. channel'["stats"] = "closed" <=> channel["stats"] = "closed"
    BY <1>5, OnlyItsHandler, ClosedStays DEF Channels, ChannelCloses, PlainChannelCloses
  <2> QED
    BY <1>5, <2>1 DEF uploadVars, UploadInv, UploadState
<1> QED
  BY <1>1, <1>2, <1>3, <1>4, <1>5
     DEF Next, JoinMeeting, JoinProgress, JoinFails, ChannelOpens, ChannelCloses, SessionCloses,
         VideoCloses, PlainChannelCloses, OnSessionControlMessage, LeaveMeeting,
         OnMediaStatsResources, ApplyLayout, OnVideoAssignmentResponse, Terminated, vars

-----------------------------------------------------------------------------
(***************************************************************************)
(* The theorems.                                                           *)
(***************************************************************************)

LEMMA InvInit == Init => Inv
<1> SUFFICES ASSUME Init PROVE Inv
  OBVIOUS
<1>1. /\ TypeOK
      /\ Len(uploads) = 0 /\ Len(layouts) = 0 /\ Len(leaves) = 0
      /\ leaves = <<>>
  BY TypeInit, EmptySeq DEF Init
<1>2. ChannelInv /\ EndIsFinal /\ SingleTimer
  BY DEF Init, ChannelInv, EndIsFinal, SingleTimer, Channels
<1>3. UploadInv
  BY <1>1 DEF Init, UploadInv
<1>4. LayoutInv /\ LeaveInv
  BY <1>1 DEF Init, LayoutInv, LeaveInv
<1> QED
  BY <1>1, <1>2, <1>3, <1>4 DEF Inv

LEMMA InvStep == Inv /\ [Next]_vars => Inv'
BY TypeStep, SessionStep, TimerStep, UploadStep, LayoutStep, LeaveStep DEF Inv

LEMMA Invariance == Spec => []Inv
BY InvInit, InvStep, PTL DEF Spec

\* However many configurations come, and whenever the channel closes, no
\* interval runs but the one that clearInterval can stop.
THEOREM TimerSafe == Spec => []SingleTimer
<1>1. Inv => SingleTimer
  BY DEF Inv
<1> QED
  BY <1>1, Invariance, PTL

\* Any number of overlapping uploads are told apart by their ids: the answer to
\* one settles that one.
THEOREM AnswersSafe == Spec => []AnsweredIsSettled
<1>1. Inv => AnsweredIsSettled
  BY DEF Inv, TypeOK, UploadInv, UploadState, AnsweredIsSettled
<1> QED
  BY <1>1, Invariance, PTL

\* No upload and no layout is left waiting on a channel that has closed.
THEOREM CloseSafe == Spec => []SettledAtClose
<1>1. Inv => SettledAtClose
  BY Places DEF Inv, UploadInv, UploadState, LayoutInv, SettledAtClose
<1> QED
  BY <1>1, Invariance, PTL

\* Every upload and every layout of a session is settled by its own answer or by
\* the close of its channel.
THEOREM RequestsSafe == Spec => []RequestsSettled
<1>1. AnsweredIsSettled /\ SettledAtClose => RequestsSettled
  BY DEF RequestsSettled
<1> QED
  BY <1>1, AnswersSafe, CloseSafe, PTL

\* What the handler achieves for leaves: the last one is settled by the close.
\* (LeavesSettled asks it of every one, and does not hold.)
LastLeaveSettled ==
  channel["session"] = "closed" /\ leaves # <<>> => leaves[Len(leaves)] = "settled"

THEOREM LastLeaveSafe == Spec => []LastLeaveSettled
<1>1. Inv => LastLeaveSettled
  BY DEF Inv, LeaveInv, LastLeaveSettled
<1> QED
  BY <1>1, Invariance, PTL

\* Whatever statuses the server sends and in whatever order, also after the end,
\* the client's channels stay closed and the session ends as DISCONNECTED.
THEOREM EndSafe == Spec => []EndIsFinal
<1>1. Inv => EndIsFinal
  BY DEF Inv
<1> QED
  BY <1>1, Invariance, PTL

\* No upload is sent after the first DISCONNECTED, by the channel's state at the moment of
\* sending, whenever its report was asked for.
THEOREM NoUploadSafe == Spec => NoUploadAfterDisconnected
<1> DEFINE NoUpload ==
      ended =>
        \A u \in DOMAIN uploads' :
          uploads'[u].stage = "sent" => u \in DOMAIN uploads /\ uploads[u].stage = "sent"
<1>1. ASSUME Inv, [Next]_vars
      PROVE  NoUpload
  <2> SUFFICES ASSUME ended, NEW u \in DOMAIN uploads',
                      uploads'[u].stage = "sent"
               PROVE  u \in DOMAIN uploads /\ uploads[u].stage = "sent"
    OBVIOUS
  <2>1. channel["stats"] # "open"
    BY <1>1 DEF Inv, EndIsFinal, ClosedByClient, Created
  <2>2. CASE Tick
    <3>1. /\ DOMAIN uploads' = 1..(Len(uploads) + 1)
          /\ \A v \in 1..Len(uploads) : uploads'[v] = uploads[v]
          /\ uploads'[Len(uploads) + 1].stage = "stats"
      BY <1>1, <2>2, AppendProperties DEF Tick, Inv, TypeOK
    <3> QED
      BY <1>1, <3>1, Places DEF Inv
  <2>3. ASSUME NEW v \in DOMAIN uploads, StatsReady(v) \/ StatsFails(v)
        PROVE  u \in DOMAIN uploads /\ uploads[u].stage = "sent"
    <3>1. uploads' = [uploads EXCEPT ![v].stage = "unsent"]
      BY <2>1, <2>3 DEF StatsReady, StatsFails
    <3> QED
      BY <1>1, <3>1, UploadTyped DEF UploadRecords, Inv
  <2>4. CASE StatsCloses
    BY <1>1, <2>4, UploadTyped DEF StatsCloses, UploadRecords, Inv
  <2>5. CASE UNCHANGED uploads
    BY <2>5
  <2>6. \A v \in DOMAIN uploads : ~OnMediaStatsResponse(v)
    BY <2>1 DEF OnMediaStatsResponse
  <2> QED
    BY <1>1, <2>2, <2>3, <2>4, <2>5, <2>6
       DEF Next, JoinMeeting, JoinProgress, JoinFails, ChannelOpens, ChannelCloses,
           SessionCloses, VideoCloses, PlainChannelCloses, OnSessionControlMessage,
           LeaveMeeting, OnMediaStatsResources, ApplyLayout,
           OnVideoAssignmentResponse, Terminated, vars, uploadVars
<1>2. Inv /\ [Next]_vars => [NoUpload]_vars
  BY <1>1
<1> QED
  BY <1>2, Invariance, PTL DEF Spec, NoUploadAfterDisconnected
=============================================================================
