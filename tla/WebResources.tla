----------------------------- MODULE WebResources -----------------------------
(***************************************************************************)
(* The resources of the web client: the media entries, participants and    *)
(* video assignment handlers of src/web/internal/channel_handlers over the *)
(* maps they share, and the frame loops of InternalMeetStreamTrackImpl.    *)
(*                                                                         *)
(* An object is named by its place in `entry' or `participant', which only *)
(* grow: the application may hold an object that the maps no longer have.  *)
(* A delegate that two objects may share has its own place in `lists'.  0  *)
(* stands for undefined.                                                   *)
(*                                                                         *)
(* A handler runs to its end before the next begins (`job' is its frame),  *)
(* one action per iteration of its loops; the order of resources in a      *)
(* message is free.  A handler that throws ends there: `threw'.            *)
(***************************************************************************)
EXTENDS Integers, Sequences, FiniteSets, Bags

CONSTANTS
  Persons,          \* participants of the meeting, each with its key
  Named,            \* those whose resources carry a name as well
  IdsPerPerson,     \* resource ids of a person: an update may come as a new one
  EntriesPerPerson, \* media entries of a person
  Roles,            \* a subset of {"presenter", "screenshare"}
  Audio,            \* what an entry may say of its audio: see AudioKinds
  Layouts,          \* media layouts, all made by createMediaLayout before
  Ssrcs,            \* video SSRCs
  AudioTracks,      \* number of audio tracks
  VideoTracks,      \* number of video tracks
  MaxMessages,      \* bound: messages of the server
  MaxBatch,         \* bound: resources and deletions of a message
  None

\* No csrc; a csrc, but muted; a csrc and not muted.
AudioKinds == {"none", "muted", "live"}

ASSUME SetsAssumption ==
  /\ Named \subseteq Persons
  /\ Roles \subseteq {"presenter", "screenshare"}
  /\ Audio \subseteq AudioKinds
  /\ None \notin Layouts
ASSUME NumbersAssumption ==
  /\ {IdsPerPerson, EntriesPerPerson} \subseteq Nat \ {0}
  /\ {AudioTracks, VideoTracks} \subseteq Nat
  /\ Ssrcs \subseteq Nat \ {0}
  /\ {MaxMessages, MaxBatch} \subseteq Nat

VARIABLES
  entry,                  \* media entry objects
  participant,            \* participant objects
  lists,                  \* the mediaEntries delegates of participants
  idMediaEntryMap, internalMediaEntryMap,
  idParticipantMap, nameParticipantMap, internalParticipantMap,
  mediaEntries, participants,  \* the delegates the application sees
  spotlight,              \* the presenter and screenshare delegates
  layout,                 \* a layout's mediaEntry delegate
  track,                  \* a track's mediaEntry delegate and video SSRC
  loops,                  \* bag: maybeAssignMediaEntryOnFrame awaiting frames
  job, messages, threw

participantVars == <<participant, idParticipantMap, nameParticipantMap,
                     internalParticipantMap, participants>>
entryMapVars == <<idMediaEntryMap, internalMediaEntryMap>>
videoVars == <<layout, track, loops>>
boundVars == <<messages, threw>>
vars == <<entry, lists, mediaEntries, spotlight, job, participantVars,
          entryMapVars, videoVars, boundVars>>

Ids == Persons \X (1..IdsPerPerson)
EntryIds == Persons \X (1..EntriesPerPerson)
Person(id) == id[1]

\* Audio tracks come first.
Tracks == 1..(AudioTracks + VideoTracks)
AudioTrack(t) == t <= AudioTracks

Idle == [channel |-> "none", stage |-> "next", deleted |-> {}, resources |-> {},
         array |-> <<>>, added |-> <<>>, resource |-> None, entry |-> 0]

Init ==
  /\ entry = <<>>
  /\ participant = <<>>
  /\ lists = <<>>
  /\ idMediaEntryMap = [id \in EntryIds |-> 0]
  /\ internalMediaEntryMap = {}
  /\ idParticipantMap = [id \in Ids |-> 0]
  /\ nameParticipantMap = [n \in Named |-> 0]
  /\ internalParticipantMap = {}
  /\ mediaEntries = <<>>
  /\ participants = <<>>
  /\ spotlight = [r \in Roles |-> 0]
  /\ layout = [l \in Layouts |-> 0]
  /\ track = [t \in Tracks |-> [entry |-> 0, ssrc |-> 0]]
  /\ loops = EmptyBag
  /\ job = Idle
  /\ messages = 0
  /\ threw = FALSE

\* s.filter((y) => y !== x)
Without(s, x) ==
  LET kept[n \in 0..Len(s)] ==
        IF n = 0 THEN <<>>
        ELSE IF s[n] = x THEN kept[n - 1] ELSE Append(kept[n - 1], s[n])
  IN  kept[Len(s)]

-----------------------------------------------------------------------------
(***************************************************************************)
(* Messages.  No two resources of one message have one id.                 *)
(***************************************************************************)
\* withId: the deprecated participantId is there, and is the person's first id.
EntryResources ==
  [id : EntryIds, withId : BOOLEAN, audio : Audio, roles : SUBSET Roles]
Canvases == [canvas : Layouts, id : EntryIds, ssrc : Ssrcs \cup {0}]

OneEach(S, Key(_)) == \A x, y \in S : Key(x) = Key(y) => x = y

\* No handler runs: a message may be taken from a channel.
Waiting == job = Idle /\ messages < MaxMessages

\* The handler reads the array that it will replace.
Begin(channel, deleted, resources, array) ==
  /\ Cardinality(deleted) + Cardinality(resources) \in 1..MaxBatch
  /\ job' = [Idle EXCEPT !.channel = channel, !.deleted = deleted,
                         !.resources = resources, !.array = array]
  /\ messages' = messages + 1
  /\ UNCHANGED <<entry, lists, mediaEntries, spotlight, participantVars,
                 entryMapVars, videoVars, threw>>

\* At most MaxBatch members of S.
Few(S) == {{}} \cup {{f[i] : i \in 1..MaxBatch} : f \in [1..MaxBatch -> S]}

OnMediaEntriesMessage ==
  Waiting /\ \E d \in SUBSET EntryIds, r \in Few(EntryResources) :
    /\ OneEach(r, LAMBDA x : x.id)
    /\ \A x \in r : x.id \notin d
    /\ Begin("entries", d, r, mediaEntries)

OnParticipantsMessage ==
  Waiting /\ \E d, r \in SUBSET Ids :
    /\ d \cap r = {}
    /\ Begin("participants", d, r, participants)

OnVideoAssignmentMessage ==
  Waiting /\ \E r \in Few(Canvases) :
    /\ OneEach(r, LAMBDA x : x.canvas)
    /\ Begin("video", {}, r, <<>>)

-----------------------------------------------------------------------------
(***************************************************************************)
(* MediaEntriesChannelHandler.                                             *)
(***************************************************************************)
NewEntry(id) ==
  [id |-> id, participant |-> 0, layout |-> None, audio |-> 0, video |-> 0,
   audioCsrc |-> FALSE, ssrc |-> 0]

Deletes(channel, id) == job.channel = channel /\ id \in job.deleted

DeleteUnknownEntry(id) ==
  /\ Deletes("entries", id)
  /\ idMediaEntryMap[id] = 0
  /\ job' = [job EXCEPT !.deleted = @ \ {id}]
  /\ UNCHANGED <<entry, lists, mediaEntries, spotlight, participantVars,
                 entryMapVars, videoVars, boundVars>>

\* The entry's layout and tracks lose it.
Unlink(e) ==
  /\ layout' = [l \in Layouts |-> IF l = entry[e].layout THEN 0 ELSE layout[l]]
  /\ track' = [t \in Tracks |->
                 IF t \in {entry[e].audio, entry[e].video}
                 THEN [track[t] EXCEPT !.entry = 0] ELSE track[t]]
  /\ UNCHANGED loops

\* Both maps lose the entry.
Forget(id, e) ==
  /\ idMediaEntryMap' = [idMediaEntryMap EXCEPT ![id] = 0]
  /\ internalMediaEntryMap' = internalMediaEntryMap \ {e}

\* Mutant: a deleted presenter is kept.
DimNothing(e) == UNCHANGED spotlight

Dim(e) == spotlight' = [r \in Roles |-> IF spotlight[r] = e THEN 0 ELSE spotlight[r]]

\* The entry's participant is no more in internalParticipantMap, so that
\* internalParticipant!.mediaEntries is a TypeError.
DeleteEntryThrows(id) ==
  LET e == idMediaEntryMap[id]
  IN  /\ Deletes("entries", id)
      /\ e # 0
      /\ entry[e].participant \notin internalParticipantMap \cup {0}
      /\ Unlink(e)
      /\ job' = Idle
      /\ threw' = TRUE
      /\ UNCHANGED <<entry, lists, mediaEntries, spotlight, participantVars,
                     entryMapVars, messages>>

DeleteEntry(id) ==
  LET e == idMediaEntryMap[id]
      p == entry[e].participant
  IN  /\ Deletes("entries", id)
      /\ e # 0
      /\ p \in internalParticipantMap \cup {0}
      /\ Unlink(e)
      /\ IF p = 0 THEN UNCHANGED <<entry, lists>>
         ELSE /\ lists' = [lists EXCEPT ![participant[p].list] = Without(@, e)]
              /\ entry' = [entry EXCEPT ![e].participant = 0]
      /\ Forget(id, e)
      /\ Dim(e)
      /\ job' = [job EXCEPT !.deleted = @ \ {id}, !.array = Without(@, e)]
      /\ UNCHANGED <<mediaEntries, participantVars, boundVars>>

\* A resource is stored in the object of its id, or in a new one ...
StoreEntry(r) ==
  LET e == idMediaEntryMap[r.id]
      new == Len(entry) + 1
      csrc == r.audio # "none"
  IN  /\ job.channel = "entries" /\ job.stage = "next"
      /\ job.deleted = {}
      /\ r \in job.resources
      /\ IF e # 0
         THEN /\ entry' = [entry EXCEPT ![e].audioCsrc = csrc]
              /\ job' = [job EXCEPT !.stage = "audio", !.resource = r, !.entry = e]
              /\ UNCHANGED entryMapVars
         ELSE /\ entry' = Append(entry, [NewEntry(r.id) EXCEPT !.audioCsrc = csrc])
              /\ idMediaEntryMap' = [idMediaEntryMap EXCEPT ![r.id] = new]
              /\ internalMediaEntryMap' = internalMediaEntryMap \cup {new}
              /\ job' = [job EXCEPT !.stage = "audio", !.resource = r,
                                    !.entry = new, !.added = Append(@, new)]
      /\ UNCHANGED <<lists, mediaEntries, spotlight, participantVars, videoVars,
                     boundVars>>

Audible == job.resource.audio = "live"

\* One more loop for the entry on each of the tracks.
Await(S, e) == loops (+) SetToBag(S \X {e})

\* ... left with the audio track on which its csrc is still heard ...
KeepAudio ==
  /\ job.stage = "audio"
  /\ Audible => entry[job.entry].audio # 0
  /\ job' = [job EXCEPT !.stage = "participant"]
  /\ UNCHANGED <<entry, lists, mediaEntries, spotlight, participantVars,
                 entryMapVars, videoVars, boundVars>>

\* ... or given the first on which it is; those before it wait for frames.
\* Tracks + 1 is none of them.
AssignAudio ==
  /\ job.stage = "audio"
  /\ Audible
  /\ \E t \in 1..(AudioTracks + 1) :
       /\ t # entry[job.entry].audio
       /\ IF t = AudioTracks + 1
          THEN /\ entry' = [entry EXCEPT ![job.entry].audio = 0]
               /\ UNCHANGED track
          ELSE /\ entry' = [entry EXCEPT ![job.entry].audio = t]
               /\ track' = [track EXCEPT ![t].entry = job.entry]
       /\ loops' = Await(1..(t - 1), job.entry)
  /\ job' = [job EXCEPT !.stage = "participant"]
  /\ UNCHANGED <<lists, mediaEntries, spotlight, participantVars, entryMapVars,
                 layout, boundVars>>

\* The first of a set of objects in the order of the map; 0 if it is empty.
First(S) == IF S = {} THEN 0 ELSE CHOOSE x \in S : \A y \in S : x <= y

\* internalParticipantMap searched for a key.
WithKey(person) == First({p \in internalParticipantMap : participant[p].person = person})

\* Its participant is found by name or key: it is appended to the list ...
AssignParticipant ==
  LET e == job.entry
      person == Person(job.resource.id)
      p == IF person \in Named THEN nameParticipantMap[person] ELSE WithKey(person)
  IN  /\ job.stage = "participant"
      /\ p # 0
      /\ IF p \in internalParticipantMap
         THEN lists' = [lists EXCEPT ![participant[p].list] = Append(@, e)]
         ELSE UNCHANGED lists
      /\ entry' = [entry EXCEPT ![e].participant = p]
      /\ job' = [job EXCEPT !.stage = "roles"]
      /\ UNCHANGED <<mediaEntries, spotlight, participantVars, entryMapVars,
                     videoVars, boundVars>>

\* ... or made, at once visible in the participants.
CreateParticipant ==
  LET e == job.entry
      person == Person(job.resource.id)
      ids == IF job.resource.withId THEN {<<person, 1>>} ELSE {}
      new == Len(participant) + 1
  IN  /\ job.stage = "participant"
      /\ 0 = IF person \in Named THEN nameParticipantMap[person] ELSE WithKey(person)
      /\ lists' = Append(lists, <<e>>)
      /\ participant' = Append(participant,
                               [person |-> person, ids |-> ids, list |-> Len(lists) + 1])
      /\ nameParticipantMap' = [n \in Named |-> IF n = person THEN new
                                                ELSE nameParticipantMap[n]]
      /\ idParticipantMap' = [id \in Ids |-> IF id \in ids THEN new
                                             ELSE idParticipantMap[id]]
      /\ internalParticipantMap' = internalParticipantMap \cup {new}
      /\ participants' = Append(participants, new)
      /\ entry' = [entry EXCEPT ![e].participant = new]
      /\ job' = [job EXCEPT !.stage = "roles"]
      /\ UNCHANGED <<mediaEntries, spotlight, entryMapVars, videoVars, boundVars>>

SetRoles ==
  /\ job.stage = "roles"
  /\ spotlight' = [r \in Roles |->
                    CASE r \in job.resource.roles -> job.entry
                      [] r \notin job.resource.roles /\ spotlight[r] = job.entry -> 0
                      [] OTHER -> spotlight[r]]
  /\ job' = [job EXCEPT !.stage = "next", !.resources = @ \ {job.resource},
                        !.resource = None, !.entry = 0]
  /\ UNCHANGED <<entry, lists, mediaEntries, participantVars, entryMapVars,
                 videoVars, boundVars>>

Ends(channel) ==
  /\ job.channel = channel
  /\ job.deleted = {}
  /\ job.resources = {}
  /\ job' = Idle

\* Mutant: what was filtered is not published.
FinishEntriesUnfiltered ==
  /\ Ends("entries")
  /\ mediaEntries' = mediaEntries \o job.added
  /\ UNCHANGED <<entry, lists, spotlight, participantVars, entryMapVars, videoVars,
                 boundVars>>

FinishEntries ==
  /\ Ends("entries")
  /\ mediaEntries' = job.array \o job.added
  /\ UNCHANGED <<entry, lists, spotlight, participantVars, entryMapVars, videoVars,
                 boundVars>>

-----------------------------------------------------------------------------
(***************************************************************************)
(* ParticipantsChannelHandler.                                             *)
(***************************************************************************)
DeleteParticipant(id) ==
  LET p == idParticipantMap[id]
      last == participant[p].ids \subseteq {id}
  IN  /\ Deletes("participants", id)
      /\ idParticipantMap' = [idParticipantMap EXCEPT ![id] = 0]
      /\ IF p \notin internalParticipantMap THEN UNCHANGED participant
         ELSE participant' = [participant EXCEPT ![p].ids = @ \ {id}]
      /\ IF p \in internalParticipantMap /\ last
         THEN /\ nameParticipantMap' = [n \in Named |->
                                          IF n = participant[p].person THEN 0
                                          ELSE nameParticipantMap[n]]
              /\ internalParticipantMap' = internalParticipantMap \ {p}
              /\ entry' = [e \in DOMAIN entry |->
                             IF /\ e \in internalMediaEntryMap
                                /\ \E i \in DOMAIN lists[participant[p].list] :
                                     lists[participant[p].list][i] = e
                             THEN [entry[e] EXCEPT !.participant = 0]
                             ELSE entry[e]]
              /\ job' = [job EXCEPT !.deleted = @ \ {id}, !.array = Without(@, p)]
         ELSE /\ job' = [job EXCEPT !.deleted = @ \ {id}]
              /\ UNCHANGED <<nameParticipantMap, internalParticipantMap, entry>>
      /\ UNCHANGED <<lists, mediaEntries, spotlight, participants, entryMapVars,
                     videoVars, boundVars>>

\* Mutant: the participant that the media entries made is not looked for.
ExistingById(id) == idParticipantMap[id]

\* The participant that a resource updates: by id, by name, by key.
Existing(id) ==
  IF idParticipantMap[id] # 0 THEN idParticipantMap[id]
  ELSE IF Person(id) \in Named /\ nameParticipantMap[Person(id)] # 0
       THEN nameParticipantMap[Person(id)]
       ELSE WithKey(Person(id))

\* A new object takes the ids and the list of the existing one, which leaves
\* the maps; the media entries are not told.
PutParticipant(id) ==
  LET old == Existing(id)
      kept == old \in internalParticipantMap
      ids == (IF kept THEN participant[old].ids ELSE {}) \cup {id}
      new == Len(participant) + 1
      list == IF kept THEN participant[old].list ELSE Len(lists) + 1
  IN  /\ job.channel = "participants"
      /\ job.deleted = {}
      /\ id \in job.resources
      /\ participant' = Append(participant,
                               [person |-> Person(id), ids |-> ids, list |-> list])
      /\ lists' = IF kept THEN lists ELSE Append(lists, <<>>)
      /\ idParticipantMap' = [i \in Ids |-> IF i \in ids THEN new
                                            ELSE idParticipantMap[i]]
      /\ nameParticipantMap' = [n \in Named |->
                                  CASE n = Person(id) -> new
                                    [] n # Person(id) /\ old # 0
                                         /\ n = participant[old].person -> 0
                                    [] OTHER -> nameParticipantMap[n]]
      /\ internalParticipantMap' = (internalParticipantMap \ {old}) \cup {new}
      /\ job' = [job EXCEPT !.resources = @ \ {id}, !.array = Without(@, old),
                            !.added = Append(@, new)]
      /\ UNCHANGED <<entry, mediaEntries, spotlight, participants, entryMapVars,
                     videoVars, boundVars>>

FinishParticipants ==
  /\ Ends("participants")
  /\ participants' = job.array \o job.added
  /\ UNCHANGED <<entry, lists, mediaEntries, spotlight, participant,
                 idParticipantMap, nameParticipantMap, internalParticipantMap,
                 entryMapVars, videoVars, boundVars>>

-----------------------------------------------------------------------------
(***************************************************************************)
(* VideoAssignmentChannelHandler: the canvases of a resource.              *)
(***************************************************************************)
\* The layout shows the entry already: only the SSRC may be new.
UpdateCanvas(c) ==
  LET e == layout[c.canvas]
  IN  /\ job.channel = "video" /\ job.stage = "next"
      /\ c \in job.resources
      /\ e \in internalMediaEntryMap /\ entry[e].id = c.id
      /\ entry' = [entry EXCEPT ![e].ssrc = c.ssrc]
      /\ job' = [job EXCEPT !.stage = "track", !.resource = c, !.entry = e]
      /\ UNCHANGED <<lists, mediaEntries, spotlight, participantVars,
                     entryMapVars, videoVars, boundVars>>

\* Mutant: the former entry keeps its layout.
ReleasedNone(l) == entry

\* The former entry of the layout loses it, whatever layout it has by now.
Released(l) ==
  [e \in DOMAIN entry |-> IF e = layout[l] /\ e \in internalMediaEntryMap
                          THEN [entry[e] EXCEPT !.layout = None] ELSE entry[e]]

\* The layout gets another entry, which is made if no channel made it before.
AssignCanvas(c) ==
  LET a == layout[c.canvas]
      e == idMediaEntryMap[c.id]
      new == Len(entry) + 1
      other == Released(c.canvas)
  IN  /\ job.channel = "video" /\ job.stage = "next"
      /\ c \in job.resources
      /\ ~(a \in internalMediaEntryMap /\ entry[a].id = c.id)
      /\ IF e # 0
         THEN /\ entry' = [other EXCEPT ![e].ssrc = c.ssrc, ![e].layout = c.canvas]
              /\ layout' = [layout EXCEPT ![c.canvas] = e]
              /\ job' = [job EXCEPT !.stage = "track", !.resource = c, !.entry = e]
              /\ UNCHANGED <<entryMapVars, mediaEntries>>
         ELSE /\ entry' = Append(other, [NewEntry(c.id) EXCEPT !.ssrc = c.ssrc,
                                                               !.layout = c.canvas])
              /\ layout' = [layout EXCEPT ![c.canvas] = new]
              /\ idMediaEntryMap' = [idMediaEntryMap EXCEPT ![c.id] = new]
              /\ internalMediaEntryMap' = internalMediaEntryMap \cup {new}
              /\ mediaEntries' = Append(mediaEntries, new)
              /\ job' = [job EXCEPT !.stage = "track", !.resource = c, !.entry = new]
      /\ UNCHANGED <<lists, spotlight, participantVars, track, loops, boundVars>>

\* An entry on the track of its SSRC stays there; else it leaves its track, and
\* if it has an SSRC every video track waits for its frames.
AssignVideo ==
  LET e == job.entry
      t == entry[e].video
      ended == [job EXCEPT !.stage = "next", !.resources = @ \ {job.resource},
                           !.resource = None, !.entry = 0]
  IN  /\ job.stage = "track"
      /\ IF t # 0 /\ track[t].ssrc = entry[e].ssrc
         THEN UNCHANGED <<entry, track, loops>>
         ELSE /\ entry' = [entry EXCEPT ![e].video = 0]
              /\ track' = [u \in Tracks |->
                             IF u = t THEN [track[u] EXCEPT !.entry = 0] ELSE track[u]]
              /\ loops' = IF entry[e].ssrc = 0 THEN loops
                          ELSE Await({u \in Tracks : ~AudioTrack(u)}, e)
      /\ job' = ended
      /\ UNCHANGED <<lists, mediaEntries, spotlight, participantVars,
                     entryMapVars, layout, boundVars>>

FinishAssignment ==
  /\ Ends("video")
  /\ UNCHANGED <<entry, lists, mediaEntries, spotlight, participantVars,
                 entryMapVars, videoVars, boundVars>>

-----------------------------------------------------------------------------
(***************************************************************************)
(* maybeAssignMediaEntryOnFrame: the loop of track t for entry e.          *)
(***************************************************************************)
\* A frame of track t carries the entry's csrc or SSRC.  Whether the entry has
\* found another track meanwhile is not asked again.
OnFrame(t, e) ==
  /\ BagIn(<<t, e>>, loops)
  /\ job = Idle
  /\ e \in internalMediaEntryMap
  /\ IF AudioTrack(t)
     THEN /\ entry[e].audioCsrc
          /\ entry' = [entry EXCEPT ![e].audio = t]
          /\ track' = [track EXCEPT ![t].entry = e]
     ELSE /\ entry[e].ssrc # 0
          /\ entry' = [entry EXCEPT ![e].video = t]
          /\ track' = [track EXCEPT ![t] = [entry |-> e, ssrc |-> entry[e].ssrc]]
  /\ loops' = loops (-) SetToBag({<<t, e>>})
  /\ UNCHANGED <<lists, mediaEntries, spotlight, job, participantVars,
                 entryMapVars, layout, boundVars>>

\* The track ends, the entry has found another, or it has been deleted and the
\* frame's handler throws.
EndLoop(t, e) ==
  /\ BagIn(<<t, e>>, loops)
  /\ job = Idle
  /\ loops' = loops (-) SetToBag({<<t, e>>})
  /\ UNCHANGED <<entry, lists, mediaEntries, spotlight, job, participantVars,
                 entryMapVars, layout, track, boundVars>>

Terminated == job = Idle /\ messages = MaxMessages /\ UNCHANGED vars

EntriesStep ==
  \/ \E id \in job.deleted : \/ DeleteUnknownEntry(id)
                            \/ DeleteEntryThrows(id)
                            \/ DeleteEntry(id)
  \/ \E r \in job.resources : StoreEntry(r)
  \/ KeepAudio
  \/ AssignAudio
  \/ AssignParticipant
  \/ CreateParticipant
  \/ SetRoles
  \/ FinishEntries

ParticipantsStep ==
  \/ \E id \in job.deleted : DeleteParticipant(id)
  \/ \E id \in job.resources : PutParticipant(id)
  \/ FinishParticipants

VideoStep ==
  \/ \E c \in job.resources : UpdateCanvas(c) \/ AssignCanvas(c)
  \/ AssignVideo
  \/ FinishAssignment

Next ==
  \/ OnMediaEntriesMessage
  \/ OnParticipantsMessage
  \/ OnVideoAssignmentMessage
  \/ EntriesStep
  \/ ParticipantsStep
  \/ VideoStep
  \/ \E t \in Tracks, e \in 1..Len(entry) : OnFrame(t, e) \/ EndLoop(t, e)
  \/ Terminated

Spec == Init /\ [][Next]_vars

-----------------------------------------------------------------------------
EntryObjects == 1..Len(entry)
ParticipantObjects == 1..Len(participant)

EntryRecords ==
  [id : EntryIds, participant : Nat, layout : Layouts \cup {None},
   audio : Nat, video : Nat, audioCsrc : BOOLEAN, ssrc : Ssrcs \cup {0}]

TypeOK ==
  /\ entry \in Seq(EntryRecords)
  /\ participant \in Seq([person : Persons, ids : SUBSET Ids, list : Nat])
  /\ lists \in Seq(Seq(Nat))
  /\ idMediaEntryMap \in [EntryIds -> EntryObjects \cup {0}]
  /\ internalMediaEntryMap \subseteq EntryObjects
  /\ idParticipantMap \in [Ids -> ParticipantObjects \cup {0}]
  /\ nameParticipantMap \in [Named -> ParticipantObjects \cup {0}]
  /\ internalParticipantMap \subseteq ParticipantObjects
  /\ mediaEntries \in Seq(EntryObjects)
  /\ participants \in Seq(ParticipantObjects)
  /\ spotlight \in [Roles -> EntryObjects \cup {0}]
  /\ layout \in [Layouts -> EntryObjects \cup {0}]
  /\ track \in [Tracks -> [entry : EntryObjects \cup {0}, ssrc : Ssrcs \cup {0}]]
  /\ IsABag(loops) /\ BagToSet(loops) \subseteq Tracks \X EntryObjects
  /\ job.channel \in {"none", "entries", "participants", "video"}
  /\ job.stage \in {"next", "audio", "participant", "roles", "track"}
  /\ job.array \in Seq(Nat) /\ job.added \in Seq(Nat)
  /\ job.entry \in EntryObjects \cup {0}
  /\ messages \in 0..MaxMessages
  /\ threw \in BOOLEAN

Occurs(s, x) == {i \in DOMAIN s : s[i] = x}

\* The two maps of media entries hold the same objects whichever channel made
\* them and however a handler ended: each object under its own id.
EntryMapsAgree ==
  /\ \A id \in EntryIds :
       idMediaEntryMap[id] # 0 => /\ idMediaEntryMap[id] \in internalMediaEntryMap
                                 /\ entry[idMediaEntryMap[id]].id = id
  /\ \A e \in internalMediaEntryMap : idMediaEntryMap[entry[e].id] = e

\* A person has at most one participant, which all its ids and its name find.
ParticipantMapsAgree ==
  /\ \A p, q \in internalParticipantMap :
       participant[p].person = participant[q].person => p = q
  /\ \A id \in Ids :
       LET p == idParticipantMap[id]
       IN  p # 0 => p \in internalParticipantMap /\ id \in participant[p].ids
  /\ \A p \in internalParticipantMap :
       \A id \in participant[p].ids : idParticipantMap[id] = p
  /\ \A n \in Named :
       nameParticipantMap[n] = WithKey(n)

\* A media entry is in the list of the participant object it refers to, and the
\* list of a present participant has only present media entries of that person,
\* and none whose link was taken away.  An entry may be in the list more than
\* once, and may refer to a participant object that an update has replaced: the
\* two ends of a link agree on the person, not on the object.
LinksAgree ==
  /\ \A e \in internalMediaEntryMap :
       LET p == entry[e].participant
       IN  p # 0 => Occurs(lists[participant[p].list], e) # {}
  /\ \A p \in internalParticipantMap :
       \A i \in DOMAIN lists[participant[p].list] :
         LET e == lists[participant[p].list][i]
         IN  /\ e \in internalMediaEntryMap
             /\ Person(entry[e].id) = participant[p].person
             /\ entry[e].participant # 0

\* The indices of media entries and of participants are well formed and describe
\* the same objects, and the links between the two are within one person.
MapsAgree == TypeOK /\ EntryMapsAgree /\ ParticipantMapsAgree /\ LinksAgree

\* Between messages the application sees each present media entry once and no
\* other, until a handler throws.
EntriesListed ==
  job = Idle /\ ~threw =>
    /\ \A e \in internalMediaEntryMap : Cardinality(Occurs(mediaEntries, e)) = 1
    /\ Len(mediaEntries) = Cardinality(internalMediaEntryMap)

\* ... and each present participant once.  (An object that was replaced within
\* the message that brought it stays listed with its successor.)
ParticipantsListed ==
  job = Idle =>
    \A p \in internalParticipantMap : Cardinality(Occurs(participants, p)) = 1

\* The lists the application subscribes to have what the maps hold: exactly that
\* of media entries, at least that of participants.
ResourcesListed == EntriesListed /\ ParticipantsListed

\* The presenter and the screenshare are present media entries.
SpotlightPresent ==
  \A r \in Roles : spotlight[r] \in internalMediaEntryMap \cup {0}

\* A media entry's layout shows that entry, until a handler throws.
LayoutShowsEntry ==
  ~threw => \A e \in internalMediaEntryMap :
    entry[e].layout # None => layout[entry[e].layout] = e

=============================================================================
