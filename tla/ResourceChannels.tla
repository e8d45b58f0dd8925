--------------------------- MODULE ResourceChannels ---------------------------
(***************************************************************************)
(* The five data channels of a session, end to end: the resources that     *)
(* Meet's servers keep, the JSON they send of every change of theirs       *)
(* (ConferenceDataChannel::OnMessage), the requests of the application and *)
(* the client's own statistics (ConferenceDataChannel::SendRequest).  The  *)
(* application that folds the updates it is given is the observer: the     *)
(* module says that it holds what the servers held.                        *)
(*                                                                         *)
(* A message carries, beside its text, what the servers meant by it: the   *)
(* resources after the change (after) and the response in it (answer).     *)
(***************************************************************************)
EXTENDS ResourceHandlers, SequencesExt

CONSTANTS
  Ids,             \* ids of media entries and participants
  Entries,         \* media entries, as MediaEntryDefaults has them
  Persons,         \* participants, as ParseParticipant returns them
  Sessions,        \* session statuses
  Configurations,  \* configurations of the media statistics
  Assignments,     \* video assignments
  Requests,        \* what the application may ask: [channel, requestId, payload]
  Reports,         \* WebRTC's statistics, as StatsRequestFromReport reads them
  Garbled,         \* [channel, binary, text]: messages that are no update
  Printed,         \* fields the servers may write although they have their default
  Listened,        \* the channels whose callback is set
  MaxUpdates, MaxGarbled, MaxRequests, MaxSteps   \* bounds, apart and together

Channels == {"media-entries", "participants", "session-control", "media-stats",
             "video-assignment"}
Asking == {"session-control", "media-stats", "video-assignment"}
Collections == {"media-entries", "participants"}

VARIABLES
  resources,   \* per channel, what the servers hold
  down,        \* per channel, the messages under way to the client
  replica,     \* per channel, the updates given to the application, folded
  seen,        \* per channel, the resources the last message was about
  told,        \* per channel, the responses the servers sent
  heard,       \* per channel, the responses given to the application
  up,          \* per channel, the requests under way to the servers, as JSON
  asked,       \* per channel, the same requests as the client meant them
  requestId,   \* StatsConfig::stats_request_id
  updates, garbled, requests   \* counters of what the bounds limit

vars == <<resources, down, replica, seen, told, heard, up, asked, requestId,
          updates, garbled, requests>>

-----------------------------------------------------------------------------
(* What an update means.                                                   *)

\* Nothing yet: no entity of a collection, no value of a single resource.
Nothing(c) == IF c \in Collections THEN Empty ELSE None

ContentOf(c) == IF c = "media-entries" THEN "mediaEntry" ELSE "participant"

ApplyCollection(c, state, update) ==
  LET set  == {update.resources[i].id : i \in DOMAIN update.resources}
      gone == {update.deletedResources[i].id : i \in DOMAIN update.deletedResources}
  IN  [id \in (DOMAIN state \cup set) \ gone |->
         IF id \in set
         THEN (CHOOSE r \in Range(update.resources) : r.id = id)[ContentOf(c)]
         ELSE state[id]]

Apply(c, state, update) ==
  IF c \in Collections THEN ApplyCollection(c, state, update)
  ELSE IF update.resources = <<>> THEN state ELSE update.resources[1]

\* A change sets one entity, deletes one, or does both.
SnapshotOf(c, i, x) == [f \in {"id", ContentOf(c)} |-> IF f = "id" THEN i ELSE x]

CollectionChanges(c, contents) ==
  {u \in [resources : {<<>>} \cup {<<SnapshotOf(c, i, x)>> : i \in Ids, x \in contents},
          deletedResources : {<<>>} \cup {<<SnapshotOf(c, i, None)>> : i \in Ids}] :
     u.resources # <<>> \/ u.deletedResources # <<>>}

\* The values that a single resource may take.
ValuesOf(c) == CASE c = "session-control"  -> Sessions
                 [] c = "media-stats"      -> Configurations
                 [] c = "video-assignment" -> Assignments

\* What an update without a response may mean.
Changes(c) ==
  CASE c = "media-entries" -> CollectionChanges(c, Entries)
    [] c = "participants"  -> CollectionChanges(c, Persons)
    [] OTHER -> {[response |-> None, resources |-> <<v>>] : v \in ValuesOf(c)}

\* What a response may mean: a refusal, or an acceptance alone or with its change.
Responses(c, id) ==
  {[response |-> [requestId |-> id, status |-> "kOk"], resources |-> r] :
     r \in {<<>>} \cup (IF c = "media-stats" THEN {} ELSE {<<v>> : v \in ValuesOf(c)})}
  \cup {[response |-> [requestId |-> id, status |-> "kInvalidArgument"], resources |-> <<>>]}

-----------------------------------------------------------------------------
(* How the servers write it: a field that differs from the default is      *)
(* always there, one that has the default only if it is among Printed.     *)

Written(struct, defaults) ==
  LET needed == {f \in DOMAIN struct : struct[f] # defaults[f]}
      free   == {f \in DOMAIN struct \ needed : struct[f] # None} \cap Printed
  IN  {[f \in needed \cup extra |-> struct[f]] : extra \in SUBSET free}

\* An array whose elements are written in one of their ways each.
Arrays(ways) == {a \in [DOMAIN ways -> UNION Range(ways)] : \A i \in DOMAIN ways : a[i] \in ways[i]}

\* An optional member, written in one of its ways.
Optional(value, ways) == IF value = None THEN {None} ELSE ways

PersonTexts(p) ==
  LET plain == [f \in DOMAIN ParticipantDefaults |-> p[f]]
  IN  {Present([f \in DOMAIN w \cup {"signedInUser", "anonymousUser", "phoneUser"} |->
                  IF f \in DOMAIN w THEN w[f]
                  ELSE IF f = "signedInUser" THEN user ELSE p[f]]) :
         w \in Written(plain, ParticipantDefaults),
         user \in Optional(p.signedInUser, Written(p.signedInUser, UserDefaults))}

ContentTexts(c, x) ==
  IF c = "media-entries" THEN Written(x, MediaEntryDefaults) ELSE PersonTexts(x)

SnapshotTexts(c, snapshot) ==
  LET content == snapshot[ContentOf(c)]
  IN  UNION {Written([snapshot EXCEPT ![ContentOf(c)] = x], SnapshotDefaults(ContentOf(c))) :
               x \in Optional(content, ContentTexts(c, content))}

CollectionTexts(c, update) ==
  UNION {Written([resources |-> r, deletedResources |-> d], CollectionDefaults) :
           r \in Arrays([i \in DOMAIN update.resources |->
                           SnapshotTexts(c, update.resources[i])]),
           d \in Arrays([i \in DOMAIN update.deletedResources |->
                           Written(update.deletedResources[i], SnapshotDefaults(ContentOf(c)))])}

\* The handler of the media statistics wants a code and a message of a status;
\* the servers leave the status out only if it is OK.
ResponseTexts(response) ==
  LET status == [code |-> response.status, message |-> "text"]
  IN  {[requestId |-> response.requestId, status |-> status]}
      \cup (IF response.status = "kOk" THEN {[requestId |-> response.requestId]} ELSE {})

NameOf(names, value) == CHOOSE name \in DOMAIN names : names[name] = value

SessionTexts(status) ==
  {[sessionStatus |->
     Present([connectionState |-> NameOf(ConnectionStates, status.connectionState),
              disconnectReason |-> IF status.disconnectReason = None THEN None
                                   ELSE NameOf(DisconnectReasons, status.disconnectReason)])]}

ConfigurationTexts(configuration) ==
  {[configuration |->
     [configuration EXCEPT !.allowlist =
        [section \in DOMAIN @ |-> [keys |-> SetToSeq(@[section])]]]]}

CanvasTexts(canvases) ==
  Arrays([i \in DOMAIN canvases |-> Written(canvases[i], CanvasDefaults)])

AssignmentDefaults == [label |-> "", canvases |-> <<>>]

AssignmentTexts(assignment) ==
  {[videoAssignment |-> w] : w \in
     UNION {Written([assignment EXCEPT !.canvases = a], AssignmentDefaults) :
              a \in CanvasTexts(assignment.canvases)}}

ValueTexts(c, value) == CASE c = "session-control"  -> SessionTexts(value)
                          [] c = "media-stats"      -> ConfigurationTexts(value)
                          [] c = "video-assignment" -> AssignmentTexts(value)

SingleDefaults == [response |-> None, resources |-> <<>>]

SingleTexts(c, update) ==
  UNION {Written([response |-> a, resources |-> r], SingleDefaults) :
           a \in Optional(update.response, ResponseTexts(update.response)),
           r \in Arrays([i \in DOMAIN update.resources |-> ValueTexts(c, update.resources[i])])}

Texts(c, update) ==
  IF c \in Collections THEN CollectionTexts(c, update) ELSE SingleTexts(c, update)

-----------------------------------------------------------------------------
(* How the servers read a request.                                         *)

ReadCanvas(canvas) ==
  [id |-> canvas.id, dimensions |-> canvas.dimensions,
   assignmentProtocol |-> IF "direct" \in DOMAIN canvas THEN "kDirect" ELSE "kRelevant"]

ReadAssignment(json) ==
  LET canvases == Field(json.layoutModel, "canvases", <<>>)
  IN  [label |-> json.layoutModel.label,
       canvases |-> [i \in DOMAIN canvases |-> ReadCanvas(canvases[i])],
       videoResolution |-> json.maxVideoResolution]

ReadSection(json) ==
  LET type == CHOOSE f \in DOMAIN json : f # "id"
  IN  [type |-> type, id |-> json.id, values |-> json[type]]

\* An upload without sections comes without the field.
ReadUpload(json) ==
  IF "uploadMediaStats" \notin DOMAIN json THEN <<>>
  ELSE [i \in DOMAIN json.uploadMediaStats.sections |->
          ReadSection(json.uploadMediaStats.sections[i])]

ReadRequest(c, json) ==
  [channel |-> c, requestId |-> json.request.requestId,
   payload |-> CASE c = "session-control"  -> Field(json.request, "leave", None)
                 [] c = "video-assignment" ->
                      IF "setAssignment" \in DOMAIN json.request
                      THEN ReadAssignment(json.request.setAssignment) ELSE None
                 [] c = "media-stats"      -> ReadUpload(json.request)]

-----------------------------------------------------------------------------
(* What the constants are.                                                 *)

\* The ids a request may have: the application's, and the counter of the statistics.
AskedIds == {request.requestId : request \in Requests} \cup 1..MaxRequests

\* What an update of a channel may mean.
Meanings(c) == Changes(c) \cup IF c \in Asking
                                THEN UNION {Responses(c, id) : id \in AskedIds} ELSE {}

\* The structs have the members that the headers give them, and values that the
\* servers have a way to write.
ASSUME StructsAssumption ==
  /\ IdRange \in Nat \ {0} /\ MaxRequests \in Nat
  /\ \A x \in Entries : x = [f \in DOMAIN MediaEntryDefaults |-> x[f]]
  /\ \A p \in Persons :
       /\ p = [participantId |-> p.participantId, name |-> p.name,
               participantKey |-> p.participantKey, type |-> p.type,
               signedInUser |-> p.signedInUser, anonymousUser |-> p.anonymousUser,
               phoneUser |-> p.phoneUser]
       /\ p.signedInUser # None =>
            p.signedInUser = [f \in DOMAIN UserDefaults |-> p.signedInUser[f]]
       /\ \A kind \in {"anonymousUser", "phoneUser"} :
            p[kind] # None => p[kind] = [displayName |-> p[kind].displayName]
       /\ p.type = IF p.phoneUser # None THEN "kPhoneUser"
                   ELSE IF p.anonymousUser # None THEN "kAnonymousUser" ELSE "kSignedInUser"
  /\ Sessions \subseteq
       [connectionState : {"kWaiting", "kJoined", "kDisconnected"},
        disconnectReason : {None, "kClientLeft", "kUserStopped", "kConferenceEnded",
                            "kSessionUnhealthy"}]
  /\ \A k \in Configurations :
       /\ k = [uploadIntervalSeconds |-> k.uploadIntervalSeconds,
               allowlist |-> [section \in DOMAIN k.allowlist |-> k.allowlist[section]]]
       /\ \A section \in DOMAIN k.allowlist : IsFiniteSet(k.allowlist[section])
  /\ Assignments \subseteq
       [label : STRING, canvases : Seq([canvasId : Nat, ssrc : Nat, mediaEntryId : 0..(IdRange - 1)])]

\* Only channels have a callback.
ASSUME ListenedAssumption == Listened \subseteq Channels

\* Requests and reports; no type of a statistic is called "id".
ASSUME RequestsAssumption ==
  /\ \A r \in Requests :
       /\ r.channel \in Asking
       /\ r.channel = "session-control" =>
            r \in [channel : {"session-control"}, requestId : Nat, payload : {None, Empty}]
       /\ r.channel = "video-assignment" =>
            r \in [channel : {"video-assignment"}, requestId : Nat, payload : {None} \cup
                   [label : STRING, videoResolution : Nat, canvases :
                    Seq([id : Nat, dimensions : Nat,
                         assignmentProtocol : {"kDirect", "kRelevant"}])]]
  /\ \A report \in Reports :
       /\ report \in Seq(Range(report))
       /\ \A s \in Range(report) :
            s = [type |-> s.type, id |-> s.id, values |-> s.values] /\ s.type # "id"

\* Garbled messages are refused, and the servers do not write an array of
\* resources that has none: the handler of the statistics would refuse it.
ASSUME MessagesAssumption ==
  /\ \A g \in Garbled :
       /\ g.channel \in Channels /\ g.binary \in BOOLEAN
       /\ g.binary \/ ParseUpdate(g.channel, g.text) = Error
  /\ "resources" \notin Printed

\* The markers are no values and no texts.
ASSUME MarkersAssumption ==
  /\ None \notin Nat /\ None # Empty /\ Malformed # Empty
  /\ None \notin DOMAIN ConnectionStates \cup DOMAIN DisconnectReasons
  /\ \A x \in Entries : x.videoCsrcs # Malformed /\ None \notin Written(x, MediaEntryDefaults)
  /\ \A p \in Persons :
       /\ p.participantId # None /\ None \notin PersonTexts(p)
       /\ p.signedInUser # None => None \notin Written(p.signedInUser, UserDefaults)
  /\ \A k \in Configurations :
       k # None /\ \A section \in DOMAIN k.allowlist : SetToSeq(k.allowlist[section]) # Malformed
  /\ \A a \in Assignments :
       Malformed \notin CanvasTexts(a.canvases)
  /\ \A c \in Asking : \A id \in AskedIds : \A u \in Responses(c, id) :
       u.response # None /\ None \notin ResponseTexts(u.response)
  /\ \A c \in Channels : \A u \in Meanings(c) :
       /\ u # Error
       /\ \A text \in Texts(c, u) :
            text # Malformed /\ \A f \in DOMAIN text : text[f] # Malformed
  /\ \A r \in Requests : r.channel = "video-assignment" /\ r.payload # None =>
       None \notin {r.payload.label, StringifyAssignment(r.payload),
                    [i \in DOMAIN r.payload.canvases |-> StringifyCanvas(r.payload.canvases[i])]}
  /\ \A report \in Reports, k \in Configurations :
       LET payload == StatsRequestFromReport(report, 1, k.allowlist).payload
       IN  None \notin {payload, [sections |-> [i \in DOMAIN payload |->
                                                StringifySection(payload[i])]]}

-----------------------------------------------------------------------------
(* The servers.                                                            *)

Init ==
  /\ resources = [c \in Channels |-> Nothing(c)]
  /\ down = [c \in Channels |-> <<>>]
  /\ replica = [c \in Channels |-> Nothing(c)]
  /\ seen = [c \in Channels |-> Nothing(c)]
  /\ told = [c \in Asking |-> <<>>]
  /\ heard = [c \in Asking |-> <<>>]
  /\ up = [c \in Asking |-> <<>>]
  /\ asked = [c \in Asking |-> <<>>]
  /\ requestId = 1
  /\ updates = 0 /\ garbled = 0 /\ requests = 0

Within == updates + garbled + requests < MaxSteps

\* The update is applied to what the servers hold and written to the channel.
Push(c, update) ==
  \E text \in Texts(c, update) :
    LET after == Apply(c, resources[c], update)
    IN  /\ resources' = [resources EXCEPT ![c] = after]
        /\ down' = [down EXCEPT ![c] = Append(@,
                      [binary |-> FALSE, text |-> text, after |-> after,
                       answer |-> IF c \in Asking THEN update.response ELSE None])]

\* A resource changes; the configuration of the statistics is sent once.
ServerUpdate(c) ==
  /\ updates < MaxUpdates /\ Within
  /\ c = "media-stats" => resources[c] = None
  /\ \E update \in Changes(c) : Push(c, update)
  /\ updates' = updates + 1
  /\ UNCHANGED <<replica, seen, told, heard, up, asked, requestId, garbled, requests>>

\* A request is answered, and what it changes comes with the answer.
ServerAnswers(c) ==
  /\ up[c] # <<>>
  /\ \E response \in Responses(c, ReadRequest(c, Head(up[c])).requestId) :
       /\ Push(c, response)
       /\ told' = [told EXCEPT ![c] = Append(@, response.response)]
  /\ up' = [up EXCEPT ![c] = Tail(@)]
  /\ asked' = [asked EXCEPT ![c] = Tail(@)]
  /\ UNCHANGED <<replica, seen, heard, requestId, updates, garbled, requests>>

\* Something arrives that no handler can read; it is about no change.
ServerGarbles(c) ==
  /\ garbled < MaxGarbled /\ Within
  /\ \E g \in {x \in Garbled : x.channel = c} :
       down' = [down EXCEPT ![c] = Append(@,
                  [binary |-> g.binary, text |-> g.text, after |-> resources[c],
                   answer |-> None])]
  /\ garbled' = garbled + 1
  /\ UNCHANGED <<resources, replica, seen, told, heard, up, asked, requestId,
                 updates, requests>>

-----------------------------------------------------------------------------
(* The client.                                                             *)

\* Mutant of OnMessage: a message that cannot be read is not taken from the channel.
ParsedMessage(c) ==
  /\ down[c] # <<>>
  /\ LET message == Head(down[c])
         update  == IF c \notin Listened \/ message.binary THEN Error
                    ELSE ParseUpdate(c, message.text)
     IN  /\ update # Error
         /\ replica' = [replica EXCEPT ![c] =
                          IF update = Error THEN @ ELSE Apply(c, @, update)]
         /\ heard' = IF c \in Asking /\ update # Error /\ update.response # None
                     THEN [heard EXCEPT ![c] = Append(@, update.response)] ELSE heard
         /\ seen' = [seen EXCEPT ![c] = message.after]
  /\ down' = [down EXCEPT ![c] = Tail(@)]
  /\ UNCHANGED <<resources, told, up, asked, requestId, updates, garbled, requests>>

\* A message that is parsed is given to the callback, whole; any other is dropped.
OnMessage(c) ==
  /\ down[c] # <<>>
  /\ LET message == Head(down[c])
         update  == IF c \notin Listened \/ message.binary THEN Error
                    ELSE ParseUpdate(c, message.text)
     IN  /\ replica' = [replica EXCEPT ![c] =
                          IF update = Error THEN @ ELSE Apply(c, @, update)]
         /\ heard' = IF c \in Asking /\ update # Error /\ update.response # None
                     THEN [heard EXCEPT ![c] = Append(@, update.response)] ELSE heard
         /\ seen' = [seen EXCEPT ![c] = message.after]
  /\ down' = [down EXCEPT ![c] = Tail(@)]
  /\ UNCHANGED <<resources, told, up, asked, requestId, updates, garbled, requests>>

\* SendRequest returns what StringifyRequest says; SendAsync may fail later, and
\* then nothing but the log tells.
SendRequest(c, request, meant) ==
  LET json == StringifyRequest(c, request)
  IN  \/ /\ json # Error
         /\ up' = [up EXCEPT ![c] = Append(@, json)]
         /\ asked' = [asked EXCEPT ![c] = Append(@, meant)]
      \/ UNCHANGED <<up, asked>>

\* MediaApiClient::SendRequest: the channel is that of the request's variant,
\* and statistics are not for the application to send.
ClientAsks ==
  /\ requests < MaxRequests /\ Within
  /\ \E request \in Requests :
       IF request.channel = "media-stats" THEN UNCHANGED <<up, asked>>
       ELSE SendRequest(request.channel, request, request)
  /\ requests' = requests + 1
  /\ UNCHANGED <<resources, down, replica, seen, told, heard, requestId, updates, garbled>>

\* MediaApiClient::CollectStats, with the configuration it was given; meant is
\* the report before the allowlist.
CollectStats ==
  LET configuration == replica["media-stats"]
  IN  /\ requests < MaxRequests /\ Within
      /\ configuration # None
      /\ configuration.uploadIntervalSeconds # 0
      /\ \E report \in Reports :
           SendRequest("media-stats",
             StatsRequestFromReport(report, requestId, configuration.allowlist),
             [channel |-> "media-stats", requestId |-> requestId, payload |-> report])
      /\ requestId' = requestId + 1
      /\ requests' = requests + 1
      /\ UNCHANGED <<resources, down, replica, seen, told, heard, updates, garbled>>

Next ==
  \/ \E c \in Channels : ServerUpdate(c) \/ ServerGarbles(c) \/ OnMessage(c)
  \/ \E c \in Asking : ServerAnswers(c)
  \/ ClientAsks
  \/ CollectStats

\* The network thread delivers what has arrived.
Spec == Init /\ [][Next]_vars /\ \A c \in Channels : WF_vars(OnMessage(c))

-----------------------------------------------------------------------------
(* Properties.                                                             *)

\* Whatever fields the servers leave out, and whatever garbled messages come in
\* between, the application that folds its updates holds exactly the resources
\* the servers held when they wrote the last message it was reached by.
ReplicaIsTheServersPast == \A c \in Listened : replica[c] = seen[c]

\* The responses given to the application are those the servers sent, in order,
\* with the request's id and code, and only those under way are missing.
Answers(messages) ==
  LET upTo[n \in 0..Len(messages)] ==
        IF n = 0 THEN <<>>
        ELSE IF messages[n].answer # None THEN Append(upTo[n - 1], messages[n].answer)
             ELSE upTo[n - 1]
  IN  upTo[Len(messages)]
InFlight(c) == Answers(down[c])
AnswersReachTheirRequests ==
  \A c \in Asking \cap Listened : told[c] = heard[c] \o InFlight(c)

\* What the servers read of a request under way is what the application asked.
RequestsArriveAsAsked ==
  \A c \in Asking \ {"media-stats"} :
    \A i \in DOMAIN up[c] : ReadRequest(c, up[c][i]) = asked[c][i]

\* An upload of statistics has, section by section, exactly the values of the
\* report that the servers' own configuration lists; without a configuration, or
\* with an interval of zero, there is none.
ValuesOfSections(sections) ==
  UNION {{<<sections[i].type, sections[i].id, a, sections[i].values[a]>> :
            a \in DOMAIN sections[i].values} : i \in DOMAIN sections}
UploadsAreAllowlisted ==
  \A i \in DOMAIN up["media-stats"] :
    LET configuration == resources["media-stats"]
        upload == ReadRequest("media-stats", up["media-stats"][i])
        report == asked["media-stats"][i]
    IN  /\ configuration # None
        /\ configuration.uploadIntervalSeconds # 0
        /\ upload.requestId = report.requestId
        /\ ValuesOfSections(upload.payload) =
             {v \in ValuesOfSections(report.payload) :
                v[1] \in DOMAIN configuration.allowlist /\ v[3] \in configuration.allowlist[v[1]]}

\* Once the servers change nothing more, the application comes to hold what they
\* hold, also behind messages that cannot be read.
ReplicaCatchesUp == \A c \in Listened : []<>(replica[c] = resources[c])

=============================================================================
