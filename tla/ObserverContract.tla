--------------------------- MODULE ObserverContract ---------------------------
(***************************************************************************)
(* What MediaApiClientObserverInterface promises an application about the  *)
(* order of its callbacks (cpp/api/media_api_client_interface.h): OnJoined *)
(* at most once, OnDisconnected at most once, and nothing once             *)
(* OnDisconnected has been invoked.  MediaApiClient implements it; the     *)
(* collectors of cpp/samples rely on it.                                   *)
(***************************************************************************)
EXTENDS Naturals

VARIABLES
  joinedCalls,         \* how often OnJoined has been invoked
  disconnectedCalls,   \* how often OnDisconnected has been invoked
  lastCall             \* the callback invoked last, or "data"

contractVars == <<joinedCalls, disconnectedCalls, lastCall>>

Init ==
  /\ joinedCalls = 0
  /\ disconnectedCalls = 0
  /\ lastCall = "none"

Joined ==
  /\ joinedCalls = 0
  /\ disconnectedCalls = 0
  /\ joinedCalls' = 1
  /\ lastCall' = "OnJoined"
  /\ UNCHANGED disconnectedCalls

Disconnected ==
  /\ disconnectedCalls = 0
  /\ disconnectedCalls' = 1
  /\ lastCall' = "OnDisconnected"
  /\ UNCHANGED joinedCalls

\* OnMessageFromServer, OnAudioFrame and OnVideoFrame carry data from the
\* conference.
Data ==
  /\ disconnectedCalls = 0
  /\ lastCall' = "data"
  /\ UNCHANGED <<joinedCalls, disconnectedCalls>>

Next ==
  \/ Joined
  \/ Disconnected
  \/ Data

Spec == Init /\ [][Next]_contractVars

=============================================================================
