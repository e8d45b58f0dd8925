-------------------------- MODULE MCResourceChannels --------------------------
(* Small instances of ResourceChannels for TLC.                            *)
EXTENDS ResourceChannels

MCEntries ==
  {MediaEntryDefaults,
   [MediaEntryDefaults EXCEPT !.session = "s1", !.audioCsrc = 7, !.videoCsrcs = <<8>>,
                              !.audioMuted = TRUE]}

MCPersons ==
  LET nobody == [participantId |-> 1, name |-> None, participantKey |-> "k",
                 type |-> "kSignedInUser", signedInUser |-> None,
                 anonymousUser |-> None, phoneUser |-> None]
  IN  {nobody,
       [nobody EXCEPT !.signedInUser = [user |-> "users/1", displayName |-> ""]],
       [nobody EXCEPT !.type = "kPhoneUser", !.phoneUser = [displayName |-> "A"]]}

MCSessions ==
  {[connectionState |-> "kWaiting", disconnectReason |-> None],
   [connectionState |-> "kDisconnected", disconnectReason |-> "kClientLeft"]}

MCConfigurations ==
  {[uploadIntervalSeconds |-> n, allowlist |-> [codec |-> {"mimeType", "id2"}, empty |-> {}]] :
     n \in {0, 10}}

MCAssignments ==
  {[label |-> "", canvases |-> <<>>],
   [label |-> "l", canvases |-> <<[canvasId |-> 1, ssrc |-> 0, mediaEntryId |-> 1]>>]}

MCRequests ==
  {[channel |-> "session-control", requestId |-> 1, payload |-> Empty],
   [channel |-> "session-control", requestId |-> 0, payload |-> Empty],
   [channel |-> "media-stats", requestId |-> 3, payload |-> <<>>]}
  \cup {[channel |-> "video-assignment", requestId |-> 2,
         payload |-> [label |-> "l", videoResolution |-> 480, canvases |->
                        <<[id |-> 1, dimensions |-> 4, assignmentProtocol |-> "kDirect"],
                          [id |-> n, dimensions |-> 2, assignmentProtocol |-> "kRelevant"]>>]] :
          n \in {0, 2}}

MCReports ==
  {<<>>,
   <<[type |-> "codec", id |-> "c1", values |-> [mimeType |-> "opus", payloadType |-> "1"]],
     [type |-> "codec", id |-> "c2", values |-> [payloadType |-> "2"]],
     [type |-> "transport", id |-> "t", values |-> [mimeType |-> "x"]]>>}

Of(c, binary, text) == [channel |-> c, binary |-> binary, text |-> text]
MCGarbled ==
  {Of("session-control", FALSE, Malformed),
   Of("participants", TRUE, Empty),
   Of("media-entries", FALSE, [resources |->
        <<[id |-> 1, mediaEntry |-> Empty],
          [id |-> 2, mediaEntry |-> [videoCsrcs |-> Malformed]]>>]),
   Of("media-stats", FALSE, [resources |->
        <<[configuration |-> [uploadIntervalSeconds |-> 10]]>>]),
   Of("video-assignment", FALSE, [resources |->
        <<[videoAssignment |-> [canvases |-> Malformed]]>>])}

=============================================================================
