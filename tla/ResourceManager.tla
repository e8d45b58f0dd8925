---------------------------- MODULE ResourceManager ----------------------------
(***************************************************************************)
(* ResourceManager (cpp/samples/resource_manager.{h,cc}): the participants *)
(* and media entries of the conference, as the multi user collector looks  *)
(* them up for each media frame.                                           *)
(*                                                                         *)
(* Two maps own the objects, by participant key and by session name; three *)
(* more point into them.  An object is never changed after it is made, and *)
(* a new one with the same content takes over every pointer to the old, so *)
(* a pointer is represented by the content of its object: it dangles when  *)
(* its owner no longer holds that content.  Reading through a dangling     *)
(* pointer is undefined: it yields any object, and undefined remembers it. *)
(*                                                                         *)
(* All calls come from the collector thread.  An update is handled element *)
(* by element; an action is the handling of one, and resources a handler   *)
(* skips (no content, malformed name) change nothing.                      *)
(***************************************************************************)
EXTENDS Naturals

CONSTANTS
  Sessions,     \* session names of media entries
  Keys,         \* participant keys
  Ids,          \* resource ids
  Csrcs,        \* contributing sources
  NoStream,     \* the csrc of an entry that provides no audio stream
  Names,        \* display names
  None          \* no object: a key that is not in a map

\* A media entry's audio and video csrcs are looked up in one map.
MediaEntries ==
  [session : Sessions, key : Keys, id : Ids, csrcs : SUBSET Csrcs \ {{}}]
Participants == [key : Keys, id : Ids, name : Names]

ASSUME NoneAssumption == None \notin MediaEntries \cup Participants

VARIABLES
  entries,            \* media entries as the server last described them
  participants,       \* participants as the server last described them
  bySession,          \* media_entries_by_session_name_, an owner
  byCsrc,             \* media_entries_by_csrc_
  byEntryId,          \* media_entries_by_id_
  byKey,              \* participants_by_key_, an owner
  byParticipantId,    \* participants_by_id_
  undefined           \* has a handler read through a dangling pointer?

entryVars == <<entries, bySession, byCsrc, byEntryId>>
participantVars == <<participants, byKey, byParticipantId>>
vars == <<entryVars, participantVars, undefined>>

TypeOK ==
  /\ entries \subseteq MediaEntries
  /\ participants \subseteq Participants
  /\ bySession \in [Sessions -> MediaEntries \cup {None}]
  /\ byCsrc \in [Csrcs -> MediaEntries \cup {None}]
  /\ byEntryId \in [Ids -> MediaEntries \cup {None}]
  /\ byKey \in [Keys -> Participants \cup {None}]
  /\ byParticipantId \in [Ids -> Participants \cup {None}]
  /\ undefined \in BOOLEAN

Init ==
  /\ entries = {}
  /\ participants = {}
  /\ bySession = [s \in Sessions |-> None]
  /\ byCsrc = [c \in Csrcs |-> None]
  /\ byEntryId = [i \in Ids |-> None]
  /\ byKey = [k \in Keys |-> None]
  /\ byParticipantId = [i \in Ids |-> None]
  /\ undefined = FALSE

-----------------------------------------------------------------------------
(***************************************************************************)
(* The server: at any time an id, a session and a stream belong to one     *)
(* resource.  A snapshot may give a resource another id or other streams.  *)
(***************************************************************************)
EntryMayBecome(e) ==
  \A x \in entries :
    x.session # e.session => x.id # e.id /\ x.csrcs \cap e.csrcs \subseteq {NoStream}

ParticipantMayBecome(p) == \A x \in participants : x.key # p.key => x.id # p.id

-----------------------------------------------------------------------------

\* Mutant: the csrcs of the replaced object are erased, but after those of the
\* new one have been entered.
UpdateEntryErasesLast(e) ==
  /\ EntryMayBecome(e)
  /\ entries' = {x \in entries : x.session # e.session} \cup {e}
  /\ byCsrc' = [c \in Csrcs |->
       IF bySession[e.session] # None /\ c \in bySession[e.session].csrcs THEN None
       ELSE IF c \in e.csrcs THEN e ELSE byCsrc[c]]
  /\ byEntryId' = [byEntryId EXCEPT ![e.id] = e]
  /\ bySession' = [bySession EXCEPT ![e.session] = e]
  /\ UNCHANGED <<participantVars, undefined>>

\* OnMediaEntriesResourceUpdate, a snapshot: the lookups are pointed at the
\* new object, then it replaces (and frees) the session's old one.
UpdateEntry(e) ==
  /\ EntryMayBecome(e)
  /\ entries' = {x \in entries : x.session # e.session} \cup {e}
  /\ byCsrc' = [c \in Csrcs |-> IF c \in e.csrcs THEN e ELSE byCsrc[c]]
  /\ byEntryId' = [byEntryId EXCEPT ![e.id] = e]
  /\ bySession' = [bySession EXCEPT ![e.session] = e]
  /\ UNCHANGED <<participantVars, undefined>>

\* Does the object a pointer was made for still exist?
EntryLives(e) == bySession[e.session] = e
ParticipantLives(p) == byKey[p.key] = p

\* What reading through a pointer yields: a freed object may hold anything.
ReadEntry(e) == IF EntryLives(e) THEN {e} ELSE MediaEntries
ReadParticipant(p) == IF ParticipantLives(p) THEN {p} ELSE Participants

\* Mutant: the lookups are cleared and the owner is forgotten.
DeleteEntryKeepsOwner(i) ==
  /\ entries' = {x \in entries : x.id # i}
  /\ byEntryId' = [byEntryId EXCEPT ![i] = None]
  /\ IF byEntryId[i] = None
     THEN UNCHANGED <<byCsrc, undefined>>
     ELSE /\ \E e \in ReadEntry(byEntryId[i]) :
               byCsrc' = [c \in Csrcs |-> IF c \in e.csrcs THEN None ELSE byCsrc[c]]
          /\ undefined' = ~EntryLives(byEntryId[i])
  /\ UNCHANGED <<bySession, participantVars>>

\* OnMediaEntriesResourceUpdate, a deletion: only an id is given.
DeleteEntry(i) ==
  /\ entries' = {x \in entries : x.id # i}
  /\ byEntryId' = [byEntryId EXCEPT ![i] = None]
  /\ IF byEntryId[i] = None
     THEN UNCHANGED <<byCsrc, bySession, undefined>>
     ELSE /\ \E e \in ReadEntry(byEntryId[i]) :
               /\ byCsrc' = [c \in Csrcs |-> IF c \in e.csrcs THEN None ELSE byCsrc[c]]
               /\ bySession' = [bySession EXCEPT ![e.session] = None]
          /\ undefined' = ~EntryLives(byEntryId[i])
  /\ UNCHANGED participantVars

\* Mutant: a participant that is known already keeps its object.
UpdateParticipantIfNew(p) ==
  /\ ParticipantMayBecome(p)
  /\ participants' = {x \in participants : x.key # p.key} \cup {p}
  /\ byParticipantId' = [byParticipantId EXCEPT ![p.id] = p]
  /\ byKey' = [byKey EXCEPT ![p.key] = IF byKey[p.key] = None THEN p ELSE byKey[p.key]]
  /\ UNCHANGED <<entryVars, undefined>>

\* OnParticipantResourceUpdate, a snapshot.
UpdateParticipant(p) ==
  /\ ParticipantMayBecome(p)
  /\ participants' = {x \in participants : x.key # p.key} \cup {p}
  /\ byParticipantId' = [byParticipantId EXCEPT ![p.id] = p]
  /\ byKey' = [byKey EXCEPT ![p.key] = p]
  /\ UNCHANGED <<entryVars, undefined>>

\* OnParticipantResourceUpdate, a deletion.
DeleteParticipant(i) ==
  /\ participants' = {x \in participants : x.id # i}
  /\ byParticipantId' = [byParticipantId EXCEPT ![i] = None]
  /\ IF byParticipantId[i] = None
     THEN UNCHANGED <<byKey, undefined>>
     ELSE /\ \E p \in ReadParticipant(byParticipantId[i]) :
               byKey' = [byKey EXCEPT ![p.key] = None]
          /\ undefined' = ~ParticipantLives(byParticipantId[i])
  /\ UNCHANGED entryVars

\* Nothing is modelled after undefined behaviour.
Next ==
  /\ ~undefined
  /\ \/ \E e \in MediaEntries : UpdateEntry(e)
     \/ \E p \in Participants : UpdateParticipant(p)
     \/ \E i \in Ids : DeleteEntry(i) \/ DeleteParticipant(i)

Spec == Init /\ [][Next]_vars

-----------------------------------------------------------------------------
\* The identifier of participant p's media in entry e:
\* <display_name>_<participant_key>_<participant_session_name>.
FileIdentifier(p, e) == [name |-> p.name, key |-> p.key, session |-> e.session]

IdentifierOf(e) ==
  IF byKey[e.key] = None THEN None ELSE FileIdentifier(byKey[e.key], e)

\* GetOutputFileIdentifier, called with the csrc of a frame: what it may
\* return.  None stands for its NotFoundError.
GetOutputFileIdentifier(c) ==
  IF byCsrc[c] = None THEN {None}
  ELSE {IdentifierOf(e) : e \in ReadEntry(byCsrc[c])}

(***************************************************************************)
(* Properties.  After undefined behaviour nothing can be promised.         *)
(***************************************************************************)

\* The owning maps hold what the server last described, no more and no less:
\* a deletion, which names only an id, has removed the right object.
OwnersAreTheResources ==
  ~undefined =>
    /\ \A s \in Sessions : bySession[s] # None => bySession[s] \in entries
    /\ \A e \in entries : bySession[e.session] = e
    /\ \A k \in Keys : byKey[k] # None => byKey[k] \in participants
    /\ \A p \in participants : byKey[p.key] = p

\* "The following lookup maps point to the objects in these maps": no pointer
\* to a media entry outlives its object.
MediaEntryLookupsOwned ==
  ~undefined =>
    /\ \A c \in Csrcs : byCsrc[c] # None => EntryLives(byCsrc[c])
    /\ \A i \in Ids : byEntryId[i] # None => EntryLives(byEntryId[i])

\* Whatever ids and streams the snapshots have exchanged between resources, a
\* resource is found, alive, under its present id and each of its streams: a
\* pointer can dangle only under an id or a stream no resource has any more.
ResourcesFound ==
  ~undefined =>
    /\ \A e \in entries :
         /\ byEntryId[e.id] = e /\ EntryLives(e)
         /\ \A c \in e.csrcs \ {NoStream} : byCsrc[c] = e
    /\ \A p \in participants : byParticipantId[p.id] = p /\ ParticipantLives(p)

\* A frame is filed under the identifier of the entry its stream belongs to
\* and of that entry's participant as last named, or under none if that
\* participant is not known; a stream no entry has is filed under none, unless
\* its lookup dangles.
IdentifierNamesOwner ==
  ~undefined =>
    \A c \in Csrcs \ {NoStream} :
      /\ \A e \in entries : c \in e.csrcs =>
           IF \E p \in participants : p.key = e.key
           THEN \A p \in participants : p.key = e.key =>
                  GetOutputFileIdentifier(c) = {FileIdentifier(p, e)}
           ELSE GetOutputFileIdentifier(c) = {None}
      /\ (\A e \in entries : c \notin e.csrcs) =>
           GetOutputFileIdentifier(c) = {None} \/ ~EntryLives(byCsrc[c])

=============================================================================
