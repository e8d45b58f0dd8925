---------------------------- MODULE MCSessionSetup ----------------------------
(* Small instances of SessionSetup for TLC.                                *)
EXTENDS SessionSetup

MCConfigurations ==
  [audio : BOOLEAN, video : {0, 1, 3, 4}, connectTimeout : {None, 5},
   requestTimeout : {None, 0, 5}, caCert : BOOLEAN]

MCAnswers ==
  {None, <<>>, [answer |-> "sdp"], [error |-> <<>>]}
  \cup {[error |-> [status |-> s]] : s \in {"OK", "PERMISSION_DENIED", "SOMETHING"}}

=============================================================================
