----------------------------- MODULE SessionSetup -----------------------------
(***************************************************************************)
(* From a configuration to a conference: CreateMediaApiClient builds the   *)
(* threads, the WebRTC objects and the data channels and hands them to the *)
(* client (media_api_client_factory.cc); Connect exchanges descriptions    *)
(* with the servers (conference_peer_connection.cc) through one HTTP       *)
(* request (curl_connector.cc, curl_request.cc); destroying the client     *)
(* takes all of it apart.  What C++ destroys by scope is a stack here: the *)
(* last object declared is the first destroyed.                            *)
(***************************************************************************)
EXTENDS Naturals, Sequences, SequencesExt

CONSTANTS
  Configurations,   \* [audio, video, connectTimeout, requestTimeout, caCert]
  None,             \* std::nullopt
  AudioStreams,     \* kReceivingAudioStreamCount
  MaxVideoStreams,  \* kMaxReceivingVideoStreamCount
  Answers           \* what the servers may answer, a set of response bodies

ASSUME CountsAssumption == AudioStreams \in Nat /\ MaxVideoStreams \in Nat
ASSUME ConfigurationsAssumption ==
  \A c \in Configurations :
    /\ c.audio \in BOOLEAN /\ c.video \in Nat
    /\ c.connectTimeout \in Nat \cup {None} /\ c.requestTimeout \in Nat \cup {None}

Labels == <<"media-entries", "media-stats", "participants", "session-control",
            "video-assignment">>

VARIABLES
  configuration,
  phase,      \* of the client: creating, failed, ready, closing, destroying
  next,       \* the step of CreateMediaApiClient that is next
  locals,     \* the objects owned by the scope being left or filled, in order
  members,    \* the members of ConferencePeerConnection, in order
  live,       \* the objects that exist
  orphaned,   \* those that were destroyed after the thread they run on
  streams,    \* the transceivers of the peer connection
  call,       \* where Connect is
  handle, list,   \* of curl: none, held, or how often it was released
  options,    \* the options set on the handle, in order
  performed,  \* the options the request was performed with
  body,       \* the response's body
  result,     \* what Connect returned
  remote      \* the remote description has been set

create  == <<next, locals, members, live, orphaned, streams>>
request == <<handle, list, options, performed, body>>
vars == <<configuration, phase, create, call, request, result, remote>>

-----------------------------------------------------------------------------
(* MediaApiClientFactory::CreateMediaApiClient.                            *)

Streams == (IF configuration.audio THEN AudioStreams ELSE 0) + configuration.video

\* Mutant of Steps: the loop over the streams runs once too often.
StepsOffByOne == <<"count", "clientThread", "signalingThread", "factory", "connection", "peer">>
                 \o [i \in 1..(Streams + 1) |-> "transceiver"] \o Labels \o <<"client">>

\* The steps in order; a transceiver per stream, then a channel per label.
Steps == <<"count", "clientThread", "signalingThread", "factory", "connection", "peer">>
         \o [i \in 1..Streams |-> "transceiver"] \o Labels \o <<"client">>

\* The steps that return an error when the call they make fails.
MayFail == {"clientThread", "signalingThread", "peer", "transceiver"} \cup Range(Labels)

Fail ==
  /\ phase = "creating"
  /\ \/ Steps[next] \in MayFail
     \/ Steps[next] = "count" /\ configuration.video > MaxVideoStreams
  /\ phase' = "failed"
  /\ UNCHANGED <<configuration, create, call, request, result, remote>>

\* What a step that succeeds leaves in the scope.  The wrapper of the connection
\* takes the signaling thread, the second of the locals.
Create ==
  /\ phase = "creating"
  /\ Steps[next] # "client"
  /\ LET step == Steps[next] IN
     /\ step = "count" => configuration.video <= MaxVideoStreams
     /\ streams' = IF step = "transceiver" THEN streams + 1 ELSE streams
     /\ live' = CASE step \in {"count", "transceiver"} -> live
                  [] step = "connection" -> live \cup {"connector", "connection"}
                  [] OTHER -> live \cup {step}
     /\ locals' = CASE step \in {"count", "transceiver"} -> locals
                    [] step = "connection" -> Append(RemoveAt(locals, 2), step)
                    [] OTHER -> Append(locals, step)
     /\ members' = IF step = "connection" THEN <<"signalingThread", "connector">> ELSE members
  /\ next' = next + 1
  /\ UNCHANGED <<configuration, phase, orphaned, call, request, result, remote>>

\* Mutant of ClientMembers: the channels are declared before the connection.
ChannelsFirst == <<"clientThread">> \o Labels \o <<"connection">>

\* The members that the client takes from the scope, in its order.
ClientMembers == <<"clientThread", "connection">> \o Labels

\* The peer connection goes to its wrapper, the rest but the factory to the
\* client; leaving the scope releases the factory.
MakeClient ==
  /\ phase = "creating"
  /\ Steps[next] = "client"
  /\ phase' = "ready"
  /\ members' = Append(members, "peer")
  /\ locals' = ClientMembers
  /\ live' = live \ {"factory"}
  /\ orphaned' = IF "signalingThread" \in live THEN orphaned ELSE orphaned \cup {"factory"}
  /\ UNCHANGED <<configuration, next, streams, call, request, result, remote>>

\* WebRTC's objects are proxies: their destructors run on the signaling thread.
OnSignalingThread == {"factory", "peer"} \cup Range(Labels)

\* The last object of the scope is destroyed; the wrapper of the peer connection
\* leaves its members to be destroyed in turn.
Unwind ==
  /\ phase \in {"failed", "destroying"}
  /\ locals # <<>>
  /\ LET last == Last(locals) IN
     /\ locals' = IF last = "connection" THEN Front(locals) \o members ELSE Front(locals)
     /\ live' = live \ {last}
     /\ orphaned' = IF last \in OnSignalingThread /\ "signalingThread" \notin live
                    THEN orphaned \cup {last} ELSE orphaned
  /\ UNCHANGED <<configuration, phase, next, members, streams, call, request, result,
                 remote>>

\* ~MediaApiClient waits for the client thread, on which Connect runs, before
\* the members go.
Destroy ==
  /\ phase = "ready"
  /\ phase' = "closing"
  /\ UNCHANGED <<configuration, create, call, request, result, remote>>

ClientThreadIdle ==
  /\ phase = "closing"
  /\ call \in {"none", "returned"}
  /\ phase' = "destroying"
  /\ UNCHANGED <<configuration, create, call, request, result, remote>>

-----------------------------------------------------------------------------
(* ConferencePeerConnection::Connect, on the client thread.                *)

Return(status) == call' = "returned" /\ result' = status
Goto(c) == call' = c /\ UNCHANGED result

Connect ==
  /\ phase = "ready"
  /\ call = "none"
  /\ Goto("offer")
  /\ UNCHANGED <<configuration, phase, create, request, remote>>

\* SetLocalDescription is answered from the signaling thread.
LocalDescription ==
  /\ call = "offer"
  /\ Goto("init") \/ Return("kInternal")
  /\ UNCHANGED <<configuration, phase, create, request, remote>>

-----------------------------------------------------------------------------
(* CurlRequest::Send, with the parameters CurlConnector sets.              *)

\* A timeout that is zero or not given sets no option.
Positive(timeout) == timeout # None /\ timeout > 0

\* Mutant of OptionsInOrder: the request's timeout is set with the connection's.
OptionsTogether ==
  <<"HTTPHEADER", "POST", "URL", "POSTFIELDS", "WRITEFUNCTION", "WRITEDATA">>
  \o (IF configuration.caCert THEN <<"CAINFO">> ELSE <<>>)
  \o (IF Positive(configuration.connectTimeout)
      THEN <<"CONNECTTIMEOUT_MS">>
           \o (IF Positive(configuration.requestTimeout) THEN <<"TIMEOUT_MS">> ELSE <<>>)
      ELSE <<>>)

OptionsInOrder ==
  <<"HTTPHEADER", "POST", "URL", "POSTFIELDS", "WRITEFUNCTION", "WRITEDATA">>
  \o (IF configuration.caCert THEN <<"CAINFO">> ELSE <<>>)
  \o (IF Positive(configuration.connectTimeout) THEN <<"CONNECTTIMEOUT_MS">> ELSE <<>>)
  \o (IF Positive(configuration.requestTimeout) THEN <<"TIMEOUT_MS">> ELSE <<>>)

EasyInit ==
  /\ call = "init"
  /\ \/ /\ handle' = "held" /\ list' = "held"
        /\ Goto("options")
     \/ /\ UNCHANGED <<handle, list>>
        /\ Return("kInternal")
  /\ UNCHANGED <<configuration, phase, create, options, performed, body, remote>>

\* absl::Cleanup: leaving Send frees the header list and then the handle.
Cleanup == handle' = "released" /\ list' = "released"

SetOption ==
  /\ call = "options"
  /\ Len(options) < Len(OptionsInOrder)
  /\ \/ /\ options' = Append(options, OptionsInOrder[Len(options) + 1])
        /\ UNCHANGED <<handle, list, call, result>>
     \/ /\ UNCHANGED options
        /\ Cleanup
        /\ Return("kInternal")
  /\ UNCHANGED <<configuration, phase, create, performed, body, remote>>

EasyPerform ==
  /\ call = "options"
  /\ Len(options) = Len(OptionsInOrder)
  /\ performed' = Range(options)
  /\ Goto("connecting")
  /\ UNCHANGED <<configuration, phase, create, handle, list, options, body, remote>>

\* The network: the connection is made, the answer comes; neither need happen.
Connected ==
  /\ call = "connecting"
  /\ Goto("transferring")
  /\ UNCHANGED <<configuration, phase, create, request, remote>>

Answered ==
  /\ call = "transferring"
  /\ body' \in Answers
  /\ Cleanup
  /\ Goto("parse")
  /\ UNCHANGED <<configuration, phase, create, options, performed, remote>>

PerformFails ==
  /\ call \in {"connecting", "transferring"}
  /\ Cleanup
  /\ Return("kInternal")
  /\ UNCHANGED <<configuration, phase, create, options, performed, body, remote>>

\* libcurl limits the connection to five minutes by itself, the transfer only
\* when it is told to.
TimedOut ==
  /\ call = "connecting" \/ "TIMEOUT_MS" \in performed
  /\ PerformFails

-----------------------------------------------------------------------------
(* CurlConnector::ConnectActiveConference, the response, and the rest of   *)
(* Connect.  A body is a function of its fields, or None if it is no JSON. *)

StatusNames ==
  [OK |-> "kOk", CANCELLED |-> "kCancelled", UNKNOWN |-> "kUnknown",
   INVALID_ARGUMENT |-> "kInvalidArgument", DEADLINE_EXCEEDED |-> "kDeadlineExceeded",
   NOT_FOUND |-> "kNotFound", ALREADY_EXISTS |-> "kAlreadyExists",
   PERMISSION_DENIED |-> "kPermissionDenied", UNAUTHENTICATED |-> "kUnauthenticated",
   RESOURCE_EXHAUSTED |-> "kResourceExhausted",
   FAILED_PRECONDITION |-> "kFailedPrecondition", ABORTED |-> "kAborted",
   OUT_OF_RANGE |-> "kOutOfRange", UNIMPLEMENTED |-> "kUnimplemented",
   INTERNAL |-> "kInternal", UNAVAILABLE |-> "kUnavailable", DATA_LOSS |-> "kDataLoss"]

ASSUME NoneAssumption == None \notin Range(StatusNames) \cup {"kInternal"}

GetStatusCodeFromString(name) ==
  IF name \in DOMAIN StatusNames THEN StatusNames[name] ELSE "kUnknown"

\* Mutant of StatusOr: the code is taken as it is.
AnyStatus(code) == code

\* An absl::StatusOr made of an OK status becomes an internal error.
StatusOr(code) == IF code = "kOk" THEN "kInternal" ELSE code

ErrorOf(response) ==
  IF response = None \/ "error" \notin DOMAIN response THEN "kUnknown"
  ELSE IF "status" \notin DOMAIN response.error THEN "kUnknown"
  ELSE StatusOr(GetStatusCodeFromString(response.error.status))

HasAnswer(response) == response # None /\ "answer" \in DOMAIN response

\* An answer that is no session description ends the call as well.
ParseResponse ==
  /\ call = "parse"
  /\ \/ HasAnswer(body) /\ Goto("remote")
     \/ HasAnswer(body) /\ Return("kInternal")
     \/ ~HasAnswer(body) /\ Return(ErrorOf(body))
  /\ UNCHANGED <<configuration, phase, create, request, remote>>

\* SetRemoteDescription on the signaling thread; its error is Connect's.  (Which
\* tracks it signals on the way is up to the answer, and nobody counts them.)
RemoteDescription ==
  /\ call = "remote"
  /\ \/ remote' = TRUE /\ Return("kOk")
     \/ UNCHANGED remote /\ Return("kInternal")
  /\ UNCHANGED <<configuration, phase, create, request>>

-----------------------------------------------------------------------------

Init ==
  /\ configuration \in Configurations
  /\ phase = "creating" /\ next = 1
  /\ locals = <<>> /\ members = <<>> /\ live = {} /\ orphaned = {} /\ streams = 0
  /\ call = "none" /\ result = None /\ remote = FALSE
  /\ handle = "none" /\ list = "none"
  /\ options = <<>> /\ performed = {} /\ body = None

\* The steps the program takes by itself.
Program ==
  \/ Fail \/ Create \/ MakeClient \/ Unwind \/ ClientThreadIdle
  \/ LocalDescription \/ EasyInit \/ SetOption \/ EasyPerform \/ TimedOut
  \/ ParseResponse \/ RemoteDescription

Next == Program \/ Connect \/ Destroy \/ Connected \/ Answered \/ PerformFails

\* Threads run and timers fire; the application and the network owe nothing.
Spec == Init /\ [][Next]_vars /\ WF_vars(Program)

-----------------------------------------------------------------------------
(* Properties.                                                             *)

Objects == {"clientThread", "signalingThread", "connector", "connection", "peer"}
           \cup Range(Labels)

\* The client that is returned has all that its configuration asks for, within
\* the limits, and nothing else of the factory's survives.
ClientIsComplete ==
  phase \in {"ready", "closing"} =>
    /\ live = Objects
    /\ streams = Streams
    /\ configuration.video <= MaxVideoStreams

\* Destroying a client, or the half of one that was made when creating it failed,
\* destroys the peer connection and its channels while their thread runs.  Only
\* the factory comes after it, on the failing paths: there the scope releases it
\* after the wrapper, which has the thread.
TeardownOnItsThread ==
  orphaned \subseteq (IF phase = "failed" THEN {"factory"} ELSE {})

\* Connect says OK exactly when an answer of the servers is applied; an error,
\* "OK" in the response's body included, never passes for an answer.
OkMeansConnected ==
  /\ result = "kOk" <=> remote
  /\ remote => HasAnswer(body)
  /\ call = "returned" => result # None

\* curl's handle and header list are held exactly while Send needs them, on
\* every path through its early returns.
CurlIsReleased ==
  LET sending == call \in {"options", "connecting", "transferring"}
  IN  (handle = "held" <=> sending) /\ (list = "held" <=> sending)

\* With a request timeout the destructor, which waits for the client thread,
\* comes to its end, whatever the network does.
DestroyReturns ==
  (phase = "closing" /\ Positive(configuration.requestTimeout))
    ~> (phase = "destroying" /\ locals = <<>>)

=============================================================================
