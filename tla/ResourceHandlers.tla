--------------------------- MODULE ResourceHandlers ---------------------------
(***************************************************************************)
(* The resource handlers of the five data channels (cpp/internal/          *)
(* *_resource_handler.cc) and the structs they fill (cpp/api/              *)
(* *_resource.h): ParseUpdate reads a JSON update of the server,           *)
(* StringifyRequest writes a request, StatsRequestFromReport filters a     *)
(* report of WebRTC's statistics.                                          *)
(*                                                                         *)
(* A JSON object is a function from the names of its fields; an array is a *)
(* sequence; Malformed is text that does not parse, or a value that is no  *)
(* array or object where one is due.  A member of a struct has the name of *)
(* the JSON field it is read from; an unset std::optional is None.         *)
(***************************************************************************)
EXTENDS Naturals, Sequences

CONSTANTS
  None,        \* std::nullopt
  Malformed,   \* what is_object() or is_array() refuses
  Error,       \* a status that is not OK
  IdRange      \* 2^32: how many values an int32_t has

Empty == <<>>   \* the JSON object and array without members

\* FindOrNull: a field's value, or the value of the struct's initializer.
Field(json, name, default) == IF name \in DOMAIN json THEN json[name] ELSE default

\* Every member of a struct is read in this way from the field of its name.
Fields(json, defaults) == [f \in DOMAIN defaults |-> Field(json, f, defaults[f])]

\* An object with the members that are set.
Present(struct) == [f \in {g \in DOMAIN struct : struct[g] # None} |-> struct[f]]

-----------------------------------------------------------------------------
(* Media entries.                                                          *)

MediaEntryDefaults ==
  [participant |-> None, participantKey |-> None, session |-> None,
   sessionName |-> None, audioCsrc |-> 0, videoCsrcs |-> <<>>,
   presenter |-> FALSE, screenshare |-> FALSE,
   audioMuted |-> FALSE, videoMuted |-> FALSE]

SnapshotDefaults(content) == [f \in {"id", content} |-> IF f = "id" THEN 0 ELSE None]

CollectionDefaults == [resources |-> <<>>, deletedResources |-> <<>>]

ParseMediaEntrySnapshot(resource) ==
  LET snapshot == Fields(resource, SnapshotDefaults("mediaEntry"))
  IN  IF snapshot.mediaEntry = None THEN snapshot
      ELSE [snapshot EXCEPT !.mediaEntry = Fields(@, MediaEntryDefaults)]

ParseDeletedMediaEntry(deleted) == Fields(deleted, SnapshotDefaults("mediaEntry"))

IllFormedMediaEntry(resource) ==
  /\ "mediaEntry" \in DOMAIN resource
  /\ Field(resource.mediaEntry, "videoCsrcs", <<>>) = Malformed

ParseMediaEntries(json) ==
  LET update == Fields(json, CollectionDefaults)
  IN  IF \/ update.resources = Malformed
         \/ update.deletedResources = Malformed
         \/ \E i \in DOMAIN update.resources : IllFormedMediaEntry(update.resources[i])
      THEN Error
      ELSE [resources |-> [i \in DOMAIN update.resources |->
                             ParseMediaEntrySnapshot(update.resources[i])],
            deletedResources |-> [i \in DOMAIN update.deletedResources |->
                             ParseDeletedMediaEntry(update.deletedResources[i])]]

-----------------------------------------------------------------------------
(* Participants.                                                           *)

ParticipantDefaults == [participantId |-> 0, name |-> None, participantKey |-> None]
UserDefaults == [user |-> "", displayName |-> ""]

\* The last kind of user that is present names the type; without one the
\* participant counts as signed in.
ParticipantType(json) ==
  IF "phoneUser" \in DOMAIN json THEN "kPhoneUser"
  ELSE IF "anonymousUser" \in DOMAIN json THEN "kAnonymousUser"
  ELSE "kSignedInUser"

\* Mutant of SignedInUser: set, like the other kinds, only with a display name.
NamedSignedInUser(json) ==
  IF "signedInUser" \in DOMAIN json /\ "displayName" \in DOMAIN json.signedInUser
  THEN Fields(json.signedInUser, UserDefaults) ELSE None

SignedInUser(json) ==
  IF "signedInUser" \in DOMAIN json THEN Fields(json.signedInUser, UserDefaults) ELSE None

\* An anonymous or a phone user is set only when it has a display name.
NamedUser(json, kind) ==
  IF kind \in DOMAIN json /\ "displayName" \in DOMAIN json[kind]
  THEN [displayName |-> json[kind].displayName] ELSE None

ParseParticipant(json) ==
  [participantId  |-> Field(json, "participantId", 0),
   name           |-> Field(json, "name", None),
   participantKey |-> Field(json, "participantKey", None),
   type           |-> ParticipantType(json),
   signedInUser   |-> SignedInUser(json),
   anonymousUser  |-> NamedUser(json, "anonymousUser"),
   phoneUser      |-> NamedUser(json, "phoneUser")]

ParseParticipantSnapshot(resource) ==
  LET snapshot == Fields(resource, SnapshotDefaults("participant"))
  IN  IF snapshot.participant = None THEN snapshot
      ELSE [snapshot EXCEPT !.participant = ParseParticipant(@)]

ParseDeletedParticipant(deleted) == Fields(deleted, SnapshotDefaults("participant"))

ParseParticipants(json) ==
  LET update == Fields(json, CollectionDefaults)
  IN  IF Malformed \in {update.resources, update.deletedResources} THEN Error
      ELSE [resources |-> [i \in DOMAIN update.resources |->
                             ParseParticipantSnapshot(update.resources[i])],
            deletedResources |-> [i \in DOMAIN update.deletedResources |->
                             ParseDeletedParticipant(update.deletedResources[i])]]

-----------------------------------------------------------------------------
(* Session control, media statistics and video assignment: responses and   *)
(* one resource.  Of an absl::Status the code is kept; without a status    *)
(* field it is "kOk", and a status field without code is "kUnknown".       *)

\* Mutant of StatusOf: the code is not read.
StatusWithoutCode(response) == IF "status" \in DOMAIN response THEN "kUnknown" ELSE "kOk"

StatusOf(response) ==
  IF "status" \in DOMAIN response THEN Field(response.status, "code", "kUnknown") ELSE "kOk"

ParseResponse(json) ==
  IF "response" \notin DOMAIN json THEN None
  ELSE [requestId |-> Field(json.response, "requestId", 0),
        status    |-> StatusOf(json.response)]

ConnectionStates ==
  [STATE_WAITING |-> "kWaiting", STATE_JOINED |-> "kJoined",
   STATE_DISCONNECTED |-> "kDisconnected"]

DisconnectReasons ==
  [REASON_CLIENT_LEFT |-> "kClientLeft", REASON_USER_STOPPED |-> "kUserStopped",
   REASON_CONFERENCE_ENDED |-> "kConferenceEnded",
   REASON_SESSION_UNHEALTHY |-> "kSessionUnhealthy"]

StringToMeetingConnectionState(state) == Field(ConnectionStates, state, "kUnknown")
StringToMeetingDisconnectReason(reason) == Field(DisconnectReasons, reason, None)

ParseSessionStatus(resource) ==
  LET status == Field(resource, "sessionStatus", Empty)
  IN  [connectionState |-> StringToMeetingConnectionState(Field(status, "connectionState", "")),
       disconnectReason |-> StringToMeetingDisconnectReason(Field(status, "disconnectReason", ""))]

ParseSessionControl(json) ==
  LET resources == Field(json, "resources", <<>>)
  IN  IF resources = Malformed THEN Error
      ELSE [response |-> ParseResponse(json),
            resources |-> [i \in DOMAIN resources |-> ParseSessionStatus(resources[i])]]

\* The other handlers default what is missing; this one refuses the update.
IncompleteStatsResponse(response) ==
  \/ "requestId" \notin DOMAIN response
  \/ /\ "status" \in DOMAIN response
     /\ ~({"code", "message"} \subseteq DOMAIN response.status)

IncompleteConfiguration(resource) ==
  \/ "configuration" \notin DOMAIN resource
  \/ ~({"uploadIntervalSeconds", "allowlist"} \subseteq DOMAIN resource.configuration)
  \/ \E section \in DOMAIN resource.configuration.allowlist :
       Field(resource.configuration.allowlist[section], "keys", Malformed) = Malformed

\* The keys of a section, a flat_hash_set of strings.
KeysOf(section) == {section.keys[i] : i \in DOMAIN section.keys}

ParseConfiguration(resource) ==
  [uploadIntervalSeconds |-> resource.configuration.uploadIntervalSeconds,
   allowlist |-> [s \in DOMAIN resource.configuration.allowlist |->
                    KeysOf(resource.configuration.allowlist[s])]]

ParseMediaStats(json) ==
  LET resources == Field(json, "resources", <<>>)
  IN  IF \/ "response" \in DOMAIN json /\ IncompleteStatsResponse(json.response)
         \/ resources = Malformed
         \/ "resources" \in DOMAIN json /\ Len(resources) # 1
         \/ "resources" \in DOMAIN json /\ IncompleteConfiguration(resources[1])
      THEN Error
      ELSE [response |-> ParseResponse(json),
            resources |-> [i \in DOMAIN resources |-> ParseConfiguration(resources[i])]]

CanvasDefaults == [canvasId |-> 0, ssrc |-> 0, mediaEntryId |-> 0]

\* media_entry_id is an int32_t, the resource id it names an int64_t.
ParseCanvas(json) ==
  [Fields(json, CanvasDefaults) EXCEPT !.mediaEntryId = @ % IdRange]

ParseVideoAssignment(json) ==
  LET canvases == Field(json, "canvases", <<>>)
  IN  [label |-> Field(json, "label", ""),
       canvases |-> [i \in DOMAIN canvases |-> ParseCanvas(canvases[i])]]

ParseAssignmentSnapshot(resource) ==
  IF "videoAssignment" \notin DOMAIN resource THEN None
  ELSE ParseVideoAssignment(resource.videoAssignment)

IllFormedAssignment(resource) ==
  /\ "videoAssignment" \in DOMAIN resource
  /\ Field(resource.videoAssignment, "canvases", <<>>) = Malformed

ParseVideoAssignments(json) ==
  LET resources == Field(json, "resources", <<>>)
  IN  IF \/ resources = Malformed
         \/ \E i \in DOMAIN resources : IllFormedAssignment(resources[i])
      THEN Error
      ELSE [response |-> ParseResponse(json),
            resources |-> [i \in DOMAIN resources |-> ParseAssignmentSnapshot(resources[i])]]

\* ResourceHandlerInterface::ParseUpdate of a channel's handler.
ParseUpdate(channel, json) ==
  IF json = Malformed THEN Error
  ELSE CASE channel = "media-entries"    -> ParseMediaEntries(json)
         [] channel = "participants"     -> ParseParticipants(json)
         [] channel = "session-control"  -> ParseSessionControl(json)
         [] channel = "media-stats"      -> ParseMediaStats(json)
         [] channel = "video-assignment" -> ParseVideoAssignments(json)

-----------------------------------------------------------------------------
(* Requests.  A request is [channel, requestId, payload]: the variant it   *)
(* is held in, its id and the optional request in it.                      *)

\* json["request"] with the id and, when there is one, the payload's field.
RequestJson(request, field, value) ==
  [request |-> Present([f \in {"requestId", field} |->
                          IF f = "requestId" THEN request.requestId ELSE value])]

\* The variant is the handler's own and the id is set.
Acceptable(channel, request) == request.channel = channel /\ request.requestId # 0

StringifySessionControl(request) ==
  RequestJson(request, "leave", IF request.payload = None THEN None ELSE Empty)

\* Mutant of StringifyCanvas: every canvas is written as relevant.
StringifyRelevantCanvas(canvas) ==
  [f \in {"id", "dimensions", "relevant"} |-> IF f = "relevant" THEN Empty ELSE canvas[f]]

StringifyCanvas(canvas) ==
  LET protocol == IF canvas.assignmentProtocol = "kDirect" THEN "direct" ELSE "relevant"
  IN  [f \in {"id", "dimensions", protocol} |->
         IF f = protocol THEN Empty ELSE canvas[f]]

\* push_back makes the array: without an element there is no field.
ArrayField(elements) == IF elements = <<>> THEN None ELSE elements

StringifyAssignment(assignment) ==
  [layoutModel |-> Present([label |-> assignment.label,
                            canvases |-> ArrayField([i \in DOMAIN assignment.canvases |->
                                           StringifyCanvas(assignment.canvases[i])])]),
   maxVideoResolution |-> assignment.videoResolution]

StringifyVideoAssignment(request) ==
  IF request.payload = None THEN RequestJson(request, "setAssignment", None)
  ELSE IF \E i \in DOMAIN request.payload.canvases : request.payload.canvases[i].id = 0
  THEN Error
  ELSE RequestJson(request, "setAssignment", StringifyAssignment(request.payload))

\* The object of the type is made by its first value.
StringifySection(section) ==
  [f \in {"id"} \cup (IF DOMAIN section.values = {} THEN {} ELSE {section.type}) |->
     IF f = "id" THEN section.id ELSE section.values]

StringifyMediaStats(request) ==
  LET sections == IF request.payload = None THEN <<>> ELSE request.payload
  IN  RequestJson(request, "uploadMediaStats",
        IF sections = <<>> THEN None
        ELSE [sections |-> [i \in DOMAIN sections |-> StringifySection(sections[i])]])

StringifyRequest(channel, request) ==
  IF ~Acceptable(channel, request) THEN Error
  ELSE CASE channel = "session-control"  -> StringifySessionControl(request)
         [] channel = "video-assignment" -> StringifyVideoAssignment(request)
         [] channel = "media-stats"      -> StringifyMediaStats(request)
         [] OTHER -> Error

-----------------------------------------------------------------------------
(* StatsRequestFromReport.  A report is a sequence of [type, id, values]   *)
(* whose values are those of the attributes that have one.                 *)

\* Mutant of AllowedSection: a listed section is uploaded with all its values.
WholeSection(section, allowlist) == section

AllowedSection(section, allowlist) ==
  [section EXCEPT !.values =
     [a \in DOMAIN @ \cap allowlist[section.type] |-> section.values[a]]]

\* A section is uploaded when its type is listed and a value of it remains.
Uploaded(section, allowlist) ==
  /\ section.type \in DOMAIN allowlist
  /\ DOMAIN section.values \cap allowlist[section.type] # {}

StatsRequestFromReport(report, requestId, allowlist) ==
  LET upTo[n \in 0..Len(report)] ==
        IF n = 0 THEN <<>>
        ELSE IF Uploaded(report[n], allowlist)
             THEN Append(upTo[n - 1], AllowedSection(report[n], allowlist)) ELSE upTo[n - 1]
  IN  [channel |-> "media-stats", requestId |-> requestId, payload |-> upTo[Len(report)]]

=============================================================================
