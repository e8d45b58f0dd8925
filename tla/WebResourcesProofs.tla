-------------------------- MODULE WebResourcesProofs --------------------------
(***************************************************************************)
(* Proofs about WebResources, for any people, ids, layouts and tracks and  *)
(* any messages: the indices of media entries and of participants, the     *)
(* presenter, the entry that a layout shows; then the links between media  *)
(* entries and participants and the lists that the application sees.       *)
(*                                                                         *)
(* The first part does not look into the lists that a handler filters.     *)
(* The second does: what a filter keeps of a sequence is shown by          *)
(* induction, as the least place at which it would be wrong, and the       *)
(* lists are described by which objects they have once.                    *)
(***************************************************************************)
EXTENDS WebResources, TLAPS, SequenceTheorems, FiniteSetTheorems, WellFoundedInduction

\* What a handler has yet to do is of its channel, and in the midst of a
\* resource it has the object of that resource, which the maps have too.
JobInv ==
  /\ job = [channel |-> job.channel, stage |-> job.stage, deleted |-> job.deleted,
            resources |-> job.resources, array |-> job.array, added |-> job.added,
            resource |-> job.resource, entry |-> job.entry]
  /\ job.channel = "entries" =>
       job.deleted \subseteq EntryIds /\ job.resources \subseteq EntryResources
  /\ job.channel = "participants" =>
       job.deleted \subseteq Ids /\ job.resources \subseteq Ids
  /\ job.channel = "video" => job.deleted = {} /\ job.resources \subseteq Canvases
  /\ job.stage \in {"next", "audio", "participant", "roles", "track"}
  /\ job.stage \in {"audio", "participant", "roles"} =>
       job.channel = "entries" /\ job.resource \in EntryResources
  /\ job.stage = "track" => job.channel = "video" /\ job.resource \in Canvases
  /\ job.stage # "next" => job.deleted = {} /\ job.entry \in internalMediaEntryMap

EntryInv ==
  /\ entry \in Seq(EntryRecords)
  /\ idMediaEntryMap \in [EntryIds -> Nat]
  /\ internalMediaEntryMap \subseteq 1..Len(entry)
  /\ layout \in [Layouts -> Nat]
  /\ EntryMapsAgree
  /\ SpotlightPresent
  /\ LayoutShowsEntry

\* The ids of a participant are ids of its person.
ParticipantInv ==
  /\ participant \in Seq([person : Persons, ids : SUBSET Ids, list : Nat])
  /\ \E S : lists \in Seq(S)
  /\ idParticipantMap \in [Ids -> Nat]
  /\ nameParticipantMap \in [Named -> Nat]
  /\ internalParticipantMap \subseteq 1..Len(participant)
  /\ \A p \in internalParticipantMap :
       \A id \in participant[p].ids : Person(id) = participant[p].person
  /\ ParticipantMapsAgree

Inv == JobInv /\ EntryInv /\ ParticipantInv

-----------------------------------------------------------------------------
(***************************************************************************)
(* Sequences.                                                              *)
(***************************************************************************)

\* A function on the places of a sequence is a sequence of the same length.
LEMMA Places ==
  ASSUME NEW S, NEW n \in Nat, NEW f \in [1..n -> S]
  PROVE  f \in Seq(S) /\ Len(f) = n /\ DOMAIN f = 1..n
<1>1. f \in Seq(S)
  BY SeqDef
<1> QED
  BY <1>1, LenProperties

\* The sequence of delegates stays one when a delegate is replaced or added.
LEMMA ListsReplaced ==
  ASSUME \E S : lists \in Seq(S), NEW k, NEW v
  PROVE  /\ Len(lists) \in Nat
         /\ \E S : [lists EXCEPT ![k] = v] \in Seq(S)
         /\ \E S : Append(lists, v) \in Seq(S)
<1>1. PICK S : lists \in Seq(S)
  OBVIOUS
<1>2. Len(lists) \in Nat /\ DOMAIN lists = 1..Len(lists)
  BY <1>1, LenProperties
<1>3. lists \in [1..Len(lists) -> S]
  BY <1>1, LenProperties
<1>4. [lists EXCEPT ![k] = v] \in [1..Len(lists) -> S \cup {v}]
  BY <1>2, <1>3
<1>5. lists \in Seq(S \cup {v})
  <2>1. lists \in [1..Len(lists) -> S \cup {v}]
    BY <1>3
  <2> QED
    BY <2>1, <1>2, Places
<1>6. Append(lists, v) \in Seq(S \cup {v})
  BY <1>5, AppendProperties
<1> QED
  BY <1>2, <1>4, <1>6, Places

\* The objects of media entries.
LEMMA EntryFacts ==
  ASSUME EntryInv
  PROVE  /\ Len(entry) \in Nat /\ DOMAIN entry = 1..Len(entry)
         /\ \A e \in 1..Len(entry) :
              /\ entry[e] \in EntryRecords
              /\ entry[e].id \in EntryIds
              /\ entry[e].layout \in Layouts \cup {None}
<1>1. Len(entry) \in Nat /\ DOMAIN entry = 1..Len(entry)
  BY LenProperties DEF EntryInv
<1>2. ASSUME NEW e \in 1..Len(entry) PROVE entry[e] \in EntryRecords
  BY <1>1, ElementOfSeq DEF EntryInv
<1> QED
  BY <1>1, <1>2 DEF EntryRecords

\* A step that keeps the ids and layouts of all the objects, and the maps.
LEMMA SameEntries ==
  ASSUME EntryInv, NEW f \in [1..Len(entry) -> EntryRecords], entry' = f,
         \A e \in 1..Len(entry) : f[e].id = entry[e].id /\ f[e].layout = entry[e].layout,
         UNCHANGED <<idMediaEntryMap, internalMediaEntryMap, layout, threw>>,
         SpotlightPresent'
  PROVE  EntryInv'
<1>1. entry' \in Seq(EntryRecords) /\ Len(entry') = Len(entry)
  BY EntryFacts, Places
<1>2. EntryMapsAgree'
  BY DEF EntryInv, EntryMapsAgree
<1>3. LayoutShowsEntry'
  BY DEF EntryInv, LayoutShowsEntry
<1> QED
  BY <1>1, <1>2, <1>3 DEF EntryInv

\* An object with another participant, track, csrc or SSRC is one all the same.
LEMMA EntryField ==
  ASSUME EntryInv, NEW e \in 1..Len(entry)
  PROVE  /\ \A p \in Nat : [entry[e] EXCEPT !.participant = p] \in EntryRecords
         /\ \A t \in Nat : [entry[e] EXCEPT !.audio = t] \in EntryRecords
         /\ \A t \in Nat : [entry[e] EXCEPT !.video = t] \in EntryRecords
         /\ \A c \in BOOLEAN : [entry[e] EXCEPT !.audioCsrc = c] \in EntryRecords
         /\ \A s \in Ssrcs \cup {0} : [entry[e] EXCEPT !.ssrc = s] \in EntryRecords
         /\ [entry[e] EXCEPT !.layout = None] \in EntryRecords
BY EntryFacts DEF EntryRecords

\* A stage of a handler that changes one field of its object, not id or layout.
LEMMA FieldChanged ==
  ASSUME EntryInv, NEW e \in 1..Len(entry), NEW r \in EntryRecords,
         r.id = entry[e].id, r.layout = entry[e].layout,
         entry' = [entry EXCEPT ![e] = r],
         UNCHANGED <<idMediaEntryMap, internalMediaEntryMap, layout, threw>>,
         SpotlightPresent'
  PROVE  EntryInv'
<1> DEFINE f == [entry EXCEPT ![e] = r]
<1>1. f \in [1..Len(entry) -> EntryRecords]
  BY EntryFacts
<1>2. \A x \in 1..Len(entry) : f[x].id = entry[x].id /\ f[x].layout = entry[x].layout
  BY EntryFacts
<1> HIDE DEF f
<1>3. entry' = f
  BY DEF f
<1> QED
  BY <1>1, <1>2, <1>3, SameEntries

\* A step that leaves the media entries alone, the spotlight too.
LEMMA EntriesUnchanged ==
  ASSUME EntryInv, UNCHANGED <<entry, entryMapVars, layout, spotlight, threw>>
  PROVE  EntryInv'
BY DEF EntryInv, entryMapVars, EntryMapsAgree, SpotlightPresent, LayoutShowsEntry

\* A step that leaves the participants alone.
LEMMA ParticipantsUnchanged ==
  ASSUME ParticipantInv, UNCHANGED <<lists, participantVars>>
  PROVE  ParticipantInv'
BY DEF ParticipantInv, participantVars, ParticipantMapsAgree, WithKey, First

\* Only delegates change: of a participant's entries, or the participants shown.
LEMMA ParticipantsRelisted ==
  ASSUME ParticipantInv, \E S : lists' \in Seq(S),
         UNCHANGED <<participant, idParticipantMap, nameParticipantMap,
                     internalParticipantMap>>
  PROVE  ParticipantInv'
<1>1. ASSUME NEW x PROVE WithKey(x)' = WithKey(x)
  BY DEF WithKey, First
<1>2. ParticipantMapsAgree'
  BY <1>1 DEF ParticipantInv, ParticipantMapsAgree
<1> QED
  BY <1>2 DEF ParticipantInv

\* The initial state.
LEMMA InitInv == Init => Inv
<1> SUFFICES ASSUME Init PROVE Inv
  OBVIOUS
<1>1. JobInv
  BY DEF Init, JobInv, Idle
<1>2. EntryInv
  <2>1. entry \in Seq(EntryRecords)
    BY EmptySeq DEF Init
  <2>2. layout \in [Layouts -> Nat] /\ idMediaEntryMap \in [EntryIds -> Nat]
    BY DEF Init
  <2>3. EntryMapsAgree /\ SpotlightPresent /\ LayoutShowsEntry
    BY DEF Init, EntryMapsAgree, SpotlightPresent, LayoutShowsEntry
  <2> QED
    BY <2>1, <2>2, <2>3 DEF Init, EntryInv
<1>3. ParticipantInv
  <2>1. participant \in Seq([person : Persons, ids : SUBSET Ids, list : Nat])
    BY EmptySeq DEF Init
  <2>2. \E S : lists \in Seq(S)
    BY EmptySeq DEF Init
  <2>3. idParticipantMap \in [Ids -> Nat] /\ nameParticipantMap \in [Named -> Nat]
    BY DEF Init
  <2>4. ParticipantMapsAgree
    <3>1. \A n \in Named : WithKey(n) = 0
      BY DEF Init, WithKey, First
    <3> QED
      BY <3>1 DEF Init, ParticipantMapsAgree
  <2> QED
    BY <2>1, <2>2, <2>3, <2>4 DEF Init, ParticipantInv
<1> QED
  BY <1>1, <1>2, <1>3 DEF Inv

-----------------------------------------------------------------------------
(***************************************************************************)
(* Messages, and the end of a handler.                                     *)
(***************************************************************************)

\* A message has resources of its channel.
LEMMA FewIn ==
  ASSUME NEW S, NEW r \in Few(S)
  PROVE  r \subseteq S
<1>1. CASE r = {}
  BY <1>1
<1>2. CASE r # {}
  <2>1. PICK f \in [1..MaxBatch -> S] : r = {f[i] : i \in 1..MaxBatch}
    BY <1>2 DEF Few
  <2> QED
    BY <2>1
<1> QED
  BY <1>1, <1>2

\* No handler runs after one has ended.
LEMMA IdleInv ==
  ASSUME job' = Idle
  PROVE  JobInv'
BY DEF JobInv, Idle

LEMMA BeginInv ==
  ASSUME Inv, NEW channel \in {"entries", "participants", "video"},
         NEW d, NEW r, NEW a, Begin(channel, d, r, a),
         channel = "entries" => d \subseteq EntryIds /\ r \subseteq EntryResources,
         channel = "participants" => d \subseteq Ids /\ r \subseteq Ids,
         channel = "video" => d = {} /\ r \subseteq Canvases
  PROVE  Inv'
<1>1. job' = [channel |-> channel, stage |-> "next", deleted |-> d, resources |-> r,
              array |-> a, added |-> <<>>, resource |-> None, entry |-> 0]
  BY DEF Begin, Idle
<1>2. JobInv'
  BY <1>1 DEF JobInv
<1>3. EntryInv'
  BY EntriesUnchanged DEF Inv, Begin, videoVars
<1>4. ParticipantInv'
  BY ParticipantsUnchanged DEF Inv, Begin
<1> QED
  BY <1>2, <1>3, <1>4 DEF Inv

LEMMA MessageInv ==
  ASSUME Inv, \/ OnMediaEntriesMessage \/ OnParticipantsMessage
              \/ OnVideoAssignmentMessage
  PROVE  Inv'
<1>1. CASE OnMediaEntriesMessage
  <2>1. PICK d \in SUBSET EntryIds, r \in Few(EntryResources) :
          Begin("entries", d, r, mediaEntries)
    BY <1>1 DEF OnMediaEntriesMessage
  <2>2. r \subseteq EntryResources
    BY FewIn
  <2> QED
    BY <2>1, <2>2, BeginInv
<1>2. CASE OnParticipantsMessage
  <2>1. PICK d, r \in SUBSET Ids : Begin("participants", d, r, participants)
    BY <1>2 DEF OnParticipantsMessage
  <2> QED
    BY <2>1, BeginInv
<1>3. CASE OnVideoAssignmentMessage
  <2>1. PICK r \in Few(Canvases) : Begin("video", {}, r, <<>>)
    BY <1>3 DEF OnVideoAssignmentMessage
  <2>2. r \subseteq Canvases
    BY FewIn
  <2> QED
    BY <2>1, <2>2, BeginInv
<1> QED
  BY <1>1, <1>2, <1>3

LEMMA FinishInv ==
  ASSUME Inv, FinishEntries \/ FinishParticipants \/ FinishAssignment
  PROVE  Inv'
<1>1. JobInv'
  BY IdleInv DEF FinishEntries, FinishParticipants, FinishAssignment, Ends
<1>2. EntryInv'
  BY EntriesUnchanged DEF Inv, FinishEntries, FinishParticipants, FinishAssignment,
     videoVars, boundVars
<1>3. ParticipantInv'
  <2>1. \E S : lists' \in Seq(S)
    BY DEF Inv, ParticipantInv, FinishEntries, FinishParticipants, FinishAssignment
  <2> QED
    BY <2>1, ParticipantsRelisted DEF Inv, FinishEntries, FinishParticipants,
       FinishAssignment, participantVars
<1> QED
  BY <1>1, <1>2, <1>3 DEF Inv

-----------------------------------------------------------------------------
(***************************************************************************)
(* The handler of media entries.                                           *)
(***************************************************************************)

LEMMA DeleteUnknownEntryInv ==
  ASSUME Inv, NEW id \in job.deleted, DeleteUnknownEntry(id)
  PROVE  Inv'
<1>1. JobInv'
  BY DEF Inv, JobInv, DeleteUnknownEntry, entryMapVars
<1>2. EntryInv'
  BY EntriesUnchanged DEF Inv, DeleteUnknownEntry, videoVars, boundVars
<1>3. ParticipantInv'
  BY ParticipantsUnchanged DEF Inv, DeleteUnknownEntry
<1> QED
  BY <1>1, <1>2, <1>3 DEF Inv

\* A deletion sets layouts to undefined, which stays one of the values.
LEMMA UnlinkTyped ==
  ASSUME EntryInv, NEW e, Unlink(e)
  PROVE  layout' \in [Layouts -> Nat]
BY DEF EntryInv, Unlink

LEMMA DeleteEntryThrowsInv ==
  ASSUME Inv, NEW id \in job.deleted, DeleteEntryThrows(id)
  PROVE  Inv'
<1>1. JobInv'
  BY IdleInv DEF DeleteEntryThrows
<1>2. EntryInv'
  <2>1. layout' \in [Layouts -> Nat]
    BY UnlinkTyped DEF Inv, DeleteEntryThrows
  <2>2. LayoutShowsEntry'
    BY DEF LayoutShowsEntry, DeleteEntryThrows
  <2> QED
    BY <2>1, <2>2 DEF Inv, EntryInv, DeleteEntryThrows, entryMapVars, EntryMapsAgree,
       SpotlightPresent
<1>3. ParticipantInv'
  BY ParticipantsUnchanged DEF Inv, DeleteEntryThrows
<1> QED
  BY <1>1, <1>2, <1>3 DEF Inv

LEMMA DeleteEntryInv ==
  ASSUME Inv, NEW id \in job.deleted, DeleteEntry(id)
  PROVE  Inv'
<1> DEFINE e == idMediaEntryMap[id]
           p == entry[e].participant
<1>1. /\ id \in EntryIds /\ e # 0 /\ e \in internalMediaEntryMap
      /\ e \in 1..Len(entry) /\ entry[e].id = id
      /\ job.channel = "entries" /\ job.stage = "next"
  BY DEF Inv, JobInv, EntryInv, EntryMapsAgree, DeleteEntry, Deletes
<1>2. /\ idMediaEntryMap' = [idMediaEntryMap EXCEPT ![id] = 0]
      /\ internalMediaEntryMap' = internalMediaEntryMap \ {e}
      /\ layout' = [l \in Layouts |-> IF l = entry[e].layout THEN 0 ELSE layout[l]]
      /\ spotlight' = [r \in Roles |-> IF spotlight[r] = e THEN 0 ELSE spotlight[r]]
      /\ threw' = threw
      /\ job' = [job EXCEPT !.deleted = @ \ {id}, !.array = Without(@, e)]
      /\ UNCHANGED participantVars
  BY DEF DeleteEntry, Unlink, Forget, Dim, boundVars
<1>3. \/ p = 0 /\ UNCHANGED <<entry, lists>>
      \/ /\ lists' = [lists EXCEPT ![participant[p].list] = Without(@, e)]
         /\ entry' = [entry EXCEPT ![e].participant = 0]
  BY DEF DeleteEntry
<1> HIDE DEF e, p
<1>4. JobInv'
  BY <1>1, <1>2 DEF Inv, JobInv
<1>5. /\ entry' \in Seq(EntryRecords) /\ Len(entry') = Len(entry)
      /\ \A x \in 1..Len(entry) :
           entry'[x].id = entry[x].id /\ entry'[x].layout = entry[x].layout
  <2>1. CASE UNCHANGED entry
    BY <2>1 DEF Inv, EntryInv
  <2>2. CASE entry' = [entry EXCEPT ![e].participant = 0]
    <3>1. [entry[e] EXCEPT !.participant = 0] \in EntryRecords
      BY <1>1, EntryField DEF Inv
    <3>2. entry' \in [1..Len(entry) -> EntryRecords]
      BY <2>2, <3>1, EntryFacts DEF Inv
    <3>3. \A x \in 1..Len(entry) :
            entry'[x].id = entry[x].id /\ entry'[x].layout = entry[x].layout
      BY <2>2, EntryFacts DEF Inv, EntryRecords
    <3> QED
      BY <3>2, <3>3, EntryFacts, Places DEF Inv
  <2> QED
    BY <1>3, <2>1, <2>2
<1>6. EntryMapsAgree'
  <2>1. /\ \A x \in EntryIds :
             idMediaEntryMap[x] # 0 => /\ idMediaEntryMap[x] \in internalMediaEntryMap
                                       /\ entry[idMediaEntryMap[x]].id = x
        /\ \A x \in internalMediaEntryMap : idMediaEntryMap[entry[x].id] = x
        /\ internalMediaEntryMap \subseteq 1..Len(entry)
        /\ idMediaEntryMap \in [EntryIds -> Nat]
    BY DEF Inv, EntryInv, EntryMapsAgree
  <2>2. ASSUME NEW x \in EntryIds, idMediaEntryMap'[x] # 0
        PROVE  /\ idMediaEntryMap'[x] \in internalMediaEntryMap'
               /\ entry'[idMediaEntryMap'[x]].id = x
    BY <1>1, <1>2, <1>5, <2>1, <2>2
  <2>3. ASSUME NEW x \in internalMediaEntryMap'
        PROVE  idMediaEntryMap'[entry'[x].id] = x
    BY <1>1, <1>2, <1>5, <2>1, EntryFacts DEF Inv
  <2> QED
    BY <2>2, <2>3 DEF EntryMapsAgree
<1>7. SpotlightPresent'
  BY <1>2 DEF Inv, EntryInv, SpotlightPresent
<1>8. LayoutShowsEntry'
  BY <1>1, <1>2, <1>5, EntryFacts, SetsAssumption DEF Inv, EntryInv, LayoutShowsEntry
<1>9. idMediaEntryMap' \in [EntryIds -> Nat] /\ layout' \in [Layouts -> Nat]
  BY <1>1, <1>2 DEF Inv, EntryInv
<1>10. EntryInv'
  BY <1>2, <1>5, <1>6, <1>7, <1>8, <1>9 DEF Inv, EntryInv
<1>11. ParticipantInv'
  <2>1. \E S : lists' \in Seq(S)
    <3>1. CASE UNCHANGED lists
      BY <3>1 DEF Inv, ParticipantInv
    <3>2. CASE lists' = [lists EXCEPT ![participant[p].list] = Without(@, e)]
      BY <3>2, ListsReplaced DEF Inv, ParticipantInv
    <3> QED
      BY <1>3, <3>1, <3>2
  <2> QED
    BY <1>2, <2>1, ParticipantsRelisted DEF Inv, participantVars
<1> QED
  BY <1>4, <1>10, <1>11 DEF Inv

\* An object added to the maps under an id that had none, with a layout l that
\* no other present object says it has: f is what the other objects become.
LEMMA EntryAdded ==
  ASSUME EntryInv, NEW id \in EntryIds, idMediaEntryMap[id] = 0,
         NEW f \in [1..Len(entry) -> EntryRecords],
         \A x \in 1..Len(entry) : f[x].id = entry[x].id,
         NEW r \in EntryRecords, r.id = id,
         entry' = Append(f, r),
         idMediaEntryMap' = [idMediaEntryMap EXCEPT ![id] = Len(entry) + 1],
         internalMediaEntryMap' = internalMediaEntryMap \cup {Len(entry) + 1},
         layout' \in [Layouts -> Nat],
         ~threw' => /\ r.layout # None => layout'[r.layout] = Len(entry) + 1
                    /\ \A x \in internalMediaEntryMap :
                         f[x].layout # None => layout'[f[x].layout] = x,
         UNCHANGED spotlight
  PROVE  EntryInv'
<1> DEFINE new == Len(entry) + 1
<1>1. Len(entry) \in Nat /\ new \in Nat /\ new # 0 /\ new \notin 1..Len(entry)
  BY EntryFacts
<1>2. f \in Seq(EntryRecords) /\ Len(f) = Len(entry)
  BY <1>1, Places
<1>3. /\ entry' \in Seq(EntryRecords) /\ Len(entry') = new
      /\ entry'[new] = r /\ \A x \in 1..Len(entry) : entry'[x] = f[x]
  BY <1>2, AppendProperties
<1> HIDE DEF new
<1>4. internalMediaEntryMap \subseteq 1..Len(entry) /\ new = Len(entry) + 1
  BY DEF EntryInv, new
<1>5. internalMediaEntryMap' \subseteq 1..Len(entry')
  <2>1. internalMediaEntryMap' = internalMediaEntryMap \cup {new}
    BY <1>4
  <2>2. 1..Len(entry) \subseteq 1..new /\ new \in 1..new
    BY <1>1, <1>4
  <2> QED
    BY <1>3, <1>4, <2>1, <2>2
<1>6. idMediaEntryMap' \in [EntryIds -> Nat]
  BY <1>1, <1>4 DEF EntryInv
<1>7. EntryMapsAgree'
  <2>1. /\ \A x \in EntryIds :
             idMediaEntryMap[x] # 0 => /\ idMediaEntryMap[x] \in internalMediaEntryMap
                                       /\ entry[idMediaEntryMap[x]].id = x
        /\ \A x \in internalMediaEntryMap : idMediaEntryMap[entry[x].id] = x
        /\ idMediaEntryMap \in [EntryIds -> Nat]
    BY DEF EntryInv, EntryMapsAgree
  <2>2. idMediaEntryMap' = [idMediaEntryMap EXCEPT ![id] = new]
        /\ internalMediaEntryMap' = internalMediaEntryMap \cup {new}
    BY <1>4
  <2>3. ASSUME NEW x \in EntryIds, idMediaEntryMap'[x] # 0
        PROVE  /\ idMediaEntryMap'[x] \in internalMediaEntryMap'
               /\ entry'[idMediaEntryMap'[x]].id = x
    BY <1>3, <1>4, <2>1, <2>2, <2>3
  <2>4. ASSUME NEW x \in internalMediaEntryMap'
        PROVE  idMediaEntryMap'[entry'[x].id] = x
    <3>1. CASE x = new
      BY <1>3, <2>1, <2>2, <3>1
    <3>2. CASE x # new
      <4>1. x \in internalMediaEntryMap /\ entry'[x].id = entry[x].id
            /\ entry[x].id \in EntryIds /\ x # 0
        BY <1>3, <1>4, <2>2, <3>2, <2>4, EntryFacts
      <4>2. idMediaEntryMap[entry[x].id] = x
        BY <4>1, <2>1
      <4>3. entry[x].id # id
        BY <4>1, <4>2
      <4> QED
        BY <4>1, <4>2, <4>3, <2>1, <2>2
    <3> QED
      BY <3>1, <3>2
  <2> QED
    BY <2>3, <2>4 DEF EntryMapsAgree
<1>8. SpotlightPresent'
  BY DEF EntryInv, SpotlightPresent
<1>9. LayoutShowsEntry'
  BY <1>3, <1>4 DEF LayoutShowsEntry
<1> QED
  BY <1>3, <1>5, <1>6, <1>7, <1>8, <1>9 DEF EntryInv

LEMMA StoreEntryInv ==
  ASSUME Inv, NEW r \in job.resources, StoreEntry(r)
  PROVE  Inv'
<1> DEFINE e == idMediaEntryMap[r.id]
           csrc == r.audio # "none"
           new == Len(entry) + 1
<1>1. /\ r \in EntryResources /\ r.id \in EntryIds /\ job.channel = "entries"
      /\ job.deleted = {} /\ job.resources \subseteq EntryResources
  BY DEF Inv, JobInv, StoreEntry, EntryResources
<1>2. ParticipantInv'
  BY ParticipantsUnchanged DEF Inv, StoreEntry
<1>3. UNCHANGED <<spotlight, layout, threw>>
  BY DEF StoreEntry, videoVars, boundVars
<1>4. CASE e # 0
  <2>1. /\ entry' = [entry EXCEPT ![e].audioCsrc = csrc]
        /\ job' = [job EXCEPT !.stage = "audio", !.resource = r, !.entry = e]
        /\ UNCHANGED <<idMediaEntryMap, internalMediaEntryMap>>
    BY <1>4 DEF StoreEntry, entryMapVars
  <2>2. e \in internalMediaEntryMap /\ e \in 1..Len(entry)
    BY <1>1, <1>4 DEF Inv, EntryInv, EntryMapsAgree
  <2> HIDE DEF e
  <2>3. JobInv'
    BY <1>1, <2>1, <2>2 DEF Inv, JobInv
  <2>4. EntryInv'
    <3> DEFINE x == [entry[e] EXCEPT !.audioCsrc = csrc]
    <3>1. x \in EntryRecords /\ x.id = entry[e].id /\ x.layout = entry[e].layout
      <4>1. csrc \in BOOLEAN
        OBVIOUS
      <4>2. entry[e] \in EntryRecords
        BY <2>2, EntryFacts DEF Inv
      <4> HIDE DEF csrc
      <4> QED
        BY <4>1, <4>2 DEF EntryRecords
    <3>2. entry' = [entry EXCEPT ![e] = x]
      BY <2>1
    <3>3. SpotlightPresent'
      BY <1>3, <2>1 DEF Inv, EntryInv, SpotlightPresent
    <3> HIDE DEF x
    <3> QED
      BY <1>3, <2>1, <2>2, <3>1, <3>2, <3>3, FieldChanged DEF Inv
  <2> QED
    BY <1>2, <2>3, <2>4 DEF Inv
<1>5. CASE e = 0
  <2>1. /\ entry' = Append(entry, [NewEntry(r.id) EXCEPT !.audioCsrc = csrc])
        /\ idMediaEntryMap' = [idMediaEntryMap EXCEPT ![r.id] = new]
        /\ internalMediaEntryMap' = internalMediaEntryMap \cup {new}
        /\ job' = [job EXCEPT !.stage = "audio", !.resource = r,
                              !.entry = new, !.added = Append(@, new)]
    BY <1>5 DEF StoreEntry
  <2>2. JobInv'
    <3> HIDE DEF new
    <3> QED
      BY <1>1, <2>1 DEF Inv, JobInv
  <2>3. EntryInv'
    <3> DEFINE x == [NewEntry(r.id) EXCEPT !.audioCsrc = csrc]
    <3>1. x \in EntryRecords /\ x.id = r.id /\ x.layout = None
      BY <1>1 DEF NewEntry, EntryRecords
    <3>2. entry \in [1..Len(entry) -> EntryRecords]
      BY EntryFacts DEF Inv, EntryInv
    <3>3. layout' \in [Layouts -> Nat]
      BY <1>3 DEF Inv, EntryInv
    <3>4. ~threw' => \A y \in internalMediaEntryMap :
                       entry[y].layout # None => layout'[entry[y].layout] = y
      BY <1>3 DEF Inv, EntryInv, LayoutShowsEntry
    <3>5. entry' = Append(entry, x)
      BY <2>1
    <3> HIDE DEF x
    <3> QED
      BY <1>1, <1>3, <1>5, <2>1, <3>1, <3>2, <3>3, <3>4, <3>5, EntryAdded DEF Inv
  <2> QED
    BY <1>2, <2>2, <2>3 DEF Inv
<1> QED
  BY <1>4, <1>5

\* In the midst of a resource the object is present.
LEMMA Midst ==
  ASSUME Inv, job.stage # "next"
  PROVE  job.entry \in internalMediaEntryMap /\ job.entry \in 1..Len(entry)
BY DEF Inv, JobInv, EntryInv

LEMMA KeepAudioInv ==
  ASSUME Inv, KeepAudio
  PROVE  Inv'
<1>1. JobInv'
  BY DEF Inv, JobInv, KeepAudio, entryMapVars
<1>2. EntryInv'
  BY EntriesUnchanged DEF Inv, KeepAudio, videoVars, boundVars
<1>3. ParticipantInv'
  BY ParticipantsUnchanged DEF Inv, KeepAudio
<1> QED
  BY <1>1, <1>2, <1>3 DEF Inv

LEMMA AssignAudioInv ==
  ASSUME Inv, AssignAudio
  PROVE  Inv'
<1>1. JobInv'
  BY DEF Inv, JobInv, AssignAudio, entryMapVars
<1>2. EntryInv'
  <2>1. PICK t \in Nat : entry' = [entry EXCEPT ![job.entry].audio = t]
    <3>1. PICK t \in 1..(AudioTracks + 1) :
            IF t = AudioTracks + 1
            THEN entry' = [entry EXCEPT ![job.entry].audio = 0]
            ELSE entry' = [entry EXCEPT ![job.entry].audio = t]
      BY DEF AssignAudio
    <3>2. 0 \in Nat /\ t \in Nat
      BY NumbersAssumption
    <3> QED
      BY <3>1, <3>2
  <2> DEFINE e == job.entry
             x == [entry[e] EXCEPT !.audio = t]
  <2>2. e \in 1..Len(entry)
    BY Midst DEF AssignAudio
  <2>3. x \in EntryRecords /\ x.id = entry[e].id /\ x.layout = entry[e].layout
    BY <2>2, EntryField, EntryFacts DEF Inv, EntryRecords
  <2>4. entry' = [entry EXCEPT ![e] = x]
    BY <2>1
  <2>5. UNCHANGED <<idMediaEntryMap, internalMediaEntryMap, layout, threw, spotlight>>
    BY DEF AssignAudio, entryMapVars, boundVars
  <2>6. SpotlightPresent'
    BY <2>5 DEF Inv, EntryInv, SpotlightPresent
  <2> HIDE DEF e, x
  <2> QED
    BY <2>2, <2>3, <2>4, <2>5, <2>6, FieldChanged DEF Inv
<1>3. ParticipantInv'
  BY ParticipantsUnchanged DEF Inv, AssignAudio
<1> QED
  BY <1>1, <1>2, <1>3 DEF Inv

\* The object of the resource gets a participant.
LEMMA ParticipantAssigned ==
  ASSUME Inv, job.stage = "participant", NEW p \in Nat,
         entry' = [entry EXCEPT ![job.entry].participant = p],
         job' = [job EXCEPT !.stage = "roles"],
         UNCHANGED <<spotlight, entryMapVars, videoVars, boundVars>>
  PROVE  JobInv' /\ EntryInv'
<1>1. JobInv'
  BY DEF Inv, JobInv, entryMapVars
<1>2. EntryInv'
  <2> DEFINE e == job.entry
             x == [entry[e] EXCEPT !.participant = p]
  <2>2. e \in 1..Len(entry)
    BY Midst
  <2>3. x \in EntryRecords /\ x.id = entry[e].id /\ x.layout = entry[e].layout
    BY <2>2, EntryField, EntryFacts DEF Inv, EntryRecords
  <2>4. entry' = [entry EXCEPT ![e] = x]
    OBVIOUS
  <2>5. UNCHANGED <<idMediaEntryMap, internalMediaEntryMap, layout, threw, spotlight>>
    BY DEF entryMapVars, videoVars, boundVars
  <2>6. SpotlightPresent'
    BY <2>5 DEF Inv, EntryInv, SpotlightPresent
  <2> HIDE DEF e, x
  <2> QED
    BY <2>2, <2>3, <2>4, <2>5, <2>6, FieldChanged DEF Inv
<1> QED
  BY <1>1, <1>2

LEMMA SetRolesInv ==
  ASSUME Inv, SetRoles
  PROVE  Inv'
<1>1. JobInv'
  BY DEF Inv, JobInv, SetRoles, entryMapVars
<1>2. EntryInv'
  <2>1. SpotlightPresent'
    BY Midst DEF Inv, EntryInv, SpotlightPresent, SetRoles, entryMapVars
  <2> QED
    BY <2>1 DEF Inv, EntryInv, SetRoles, entryMapVars, videoVars, boundVars,
       EntryMapsAgree, LayoutShowsEntry
<1>3. ParticipantInv'
  BY ParticipantsUnchanged DEF Inv, SetRoles
<1> QED
  BY <1>1, <1>2, <1>3 DEF Inv

-----------------------------------------------------------------------------
(***************************************************************************)
(* The handler of video assignments, and the frame loops.                  *)
(***************************************************************************)

LEMMA UpdateCanvasInv ==
  ASSUME Inv, NEW c \in job.resources, UpdateCanvas(c)
  PROVE  Inv'
<1> DEFINE e == layout[c.canvas]
           x == [entry[e] EXCEPT !.ssrc = c.ssrc]
<1>1. /\ c \in Canvases /\ c.ssrc \in Ssrcs \cup {0} /\ job.deleted = {}
      /\ job.channel = "video" /\ e \in internalMediaEntryMap /\ e \in 1..Len(entry)
      /\ job' = [job EXCEPT !.stage = "track", !.resource = c, !.entry = e]
      /\ entry' = [entry EXCEPT ![e] = x]
      /\ UNCHANGED <<idMediaEntryMap, internalMediaEntryMap, layout, threw, spotlight,
                     lists, participantVars>>
  BY DEF Inv, JobInv, EntryInv, UpdateCanvas, Canvases, entryMapVars, videoVars,
     boundVars
<1>2. x \in EntryRecords /\ x.id = entry[e].id /\ x.layout = entry[e].layout
  BY <1>1, EntryField, EntryFacts DEF Inv, EntryRecords
<1> HIDE DEF e, x
<1>3. JobInv'
  BY <1>1 DEF Inv, JobInv
<1>4. SpotlightPresent'
  BY <1>1 DEF Inv, EntryInv, SpotlightPresent
<1>5. EntryInv'
  BY <1>1, <1>2, <1>4, FieldChanged DEF Inv
<1>6. ParticipantInv'
  BY <1>1, ParticipantsUnchanged DEF Inv
<1> QED
  BY <1>3, <1>5, <1>6 DEF Inv

\* What the release of a layout leaves: no present object says it has it.
LEMMA ReleasedFacts ==
  ASSUME EntryInv, NEW l \in Layouts
  PROVE  /\ Released(l) \in [1..Len(entry) -> EntryRecords]
         /\ \A x \in 1..Len(entry) : Released(l)[x].id = entry[x].id
         /\ ~threw => \A x \in internalMediaEntryMap :
                        Released(l)[x].layout # None =>
                          /\ Released(l)[x].layout \in Layouts \ {l}
                          /\ layout[Released(l)[x].layout] = x
<1> DEFINE f == Released(l)
<1>1. ASSUME NEW x \in 1..Len(entry)
      PROVE  /\ f[x] \in EntryRecords /\ f[x].id = entry[x].id
             /\ f[x].layout = IF x = layout[l] /\ x \in internalMediaEntryMap
                              THEN None ELSE entry[x].layout
  BY EntryFacts, EntryField DEF Released, EntryRecords
<1>2. f = [x \in 1..Len(entry) |-> f[x]]
  BY EntryFacts DEF Released
<1>3. ASSUME ~threw, NEW x \in internalMediaEntryMap, f[x].layout # None
      PROVE  f[x].layout \in Layouts \ {l} /\ layout[f[x].layout] = x
  <2>1. x \in 1..Len(entry)
    BY DEF EntryInv
  <2>2. f[x].layout = entry[x].layout /\ x # layout[l]
    BY <1>1, <1>3, <2>1
  <2> QED
    BY <1>3, <2>1, <2>2, EntryFacts DEF EntryInv, LayoutShowsEntry
<1> HIDE DEF f
<1>4. f \in [1..Len(entry) -> EntryRecords]
  BY <1>1, <1>2
<1> QED
  BY <1>1, <1>3, <1>4 DEF f

LEMMA AssignCanvasInv ==
  ASSUME Inv, NEW c \in job.resources, AssignCanvas(c)
  PROVE  Inv'
<1> DEFINE l == c.canvas
           e == idMediaEntryMap[c.id]
           new == Len(entry) + 1
           f == Released(c.canvas)
<1>1. /\ c \in Canvases /\ c.ssrc \in Ssrcs \cup {0} /\ l \in Layouts
      /\ c.id \in EntryIds /\ job.deleted = {} /\ job.channel = "video"
      /\ UNCHANGED <<threw, spotlight, lists, participantVars>>
  BY DEF Inv, JobInv, AssignCanvas, Canvases, boundVars
<1>2. ParticipantInv'
  BY <1>1, ParticipantsUnchanged DEF Inv
<1>3. /\ f \in [1..Len(entry) -> EntryRecords]
      /\ \A x \in 1..Len(entry) : f[x].id = entry[x].id
      /\ ~threw => \A x \in internalMediaEntryMap :
                     f[x].layout # None =>
                       f[x].layout \in Layouts \ {l} /\ layout[f[x].layout] = x
  BY <1>1, ReleasedFacts DEF Inv
<1>4. None \notin Layouts
  BY SetsAssumption
<1>5. CASE e # 0
  <2>1. /\ entry' = [f EXCEPT ![e].ssrc = c.ssrc, ![e].layout = l]
        /\ layout' = [layout EXCEPT ![l] = e]
        /\ job' = [job EXCEPT !.stage = "track", !.resource = c, !.entry = e]
        /\ UNCHANGED <<idMediaEntryMap, internalMediaEntryMap>>
    BY <1>5 DEF AssignCanvas, entryMapVars
  <2>2. e \in internalMediaEntryMap /\ e \in 1..Len(entry) /\ e \in Nat
    BY <1>1, <1>5 DEF Inv, EntryInv, EntryMapsAgree
  <2> HIDE DEF e, f, l
  <2>3. JobInv'
    BY <1>1, <2>1, <2>2 DEF Inv, JobInv
  <2>4. layout' \in [Layouts -> Nat]
    BY <1>1, <2>1, <2>2 DEF Inv, EntryInv
  <2> DEFINE r == [f[e] EXCEPT !.ssrc = c.ssrc, !.layout = l]
  <2>5. r \in EntryRecords /\ r.id = entry[e].id /\ r.layout = l
    <3>1. f[e] \in EntryRecords /\ f[e].id = entry[e].id
      BY <1>3, <2>2
    <3>2. l \in Layouts /\ c.ssrc \in Ssrcs \cup {0}
      BY <1>1
    <3> QED
      BY <3>1, <3>2 DEF EntryRecords
  <2>6. entry' = [f EXCEPT ![e] = r]
    BY <1>3, <2>1, <2>2
  <2> HIDE DEF r
  <2>7. /\ entry' \in [1..Len(entry) -> EntryRecords] /\ entry'[e] = r
        /\ \A x \in 1..Len(entry) : x # e => entry'[x] = f[x]
    BY <1>3, <2>2, <2>5, <2>6
  <2>8. entry' \in Seq(EntryRecords) /\ Len(entry') = Len(entry)
    BY <2>7, EntryFacts, Places DEF Inv
  <2>9. \A x \in 1..Len(entry) : entry'[x].id = entry[x].id
    BY <1>3, <2>5, <2>7
  <2>10. EntryMapsAgree'
    BY <2>1, <2>9 DEF Inv, EntryInv, EntryMapsAgree
  <2>11. SpotlightPresent'
    BY <1>1, <2>1 DEF Inv, EntryInv, SpotlightPresent
  <2>12. ASSUME ~threw', NEW x \in internalMediaEntryMap', entry'[x].layout # None
         PROVE  layout'[entry'[x].layout] = x
    <3>1. x \in internalMediaEntryMap /\ x \in 1..Len(entry) /\ ~threw
      BY <1>1, <2>1, <2>12 DEF Inv, EntryInv
    <3>2. layout \in [Layouts -> Nat]
      BY DEF Inv, EntryInv
    <3>3. CASE x = e
      BY <1>1, <2>1, <2>5, <2>7, <3>2, <3>3
    <3>4. CASE x # e
      BY <1>1, <1>3, <2>1, <2>7, <2>12, <3>1, <3>2, <3>4
    <3> QED
      BY <3>3, <3>4
  <2>13. EntryInv'
    BY <2>1, <2>4, <2>8, <2>10, <2>11, <2>12 DEF Inv, EntryInv, LayoutShowsEntry
  <2> QED
    BY <1>2, <2>3, <2>13 DEF Inv
<1>6. CASE e = 0
  <2> DEFINE r == [NewEntry(c.id) EXCEPT !.ssrc = c.ssrc, !.layout = l]
  <2>1. /\ entry' = Append(f, r)
        /\ layout' = [layout EXCEPT ![l] = new]
        /\ idMediaEntryMap' = [idMediaEntryMap EXCEPT ![c.id] = new]
        /\ internalMediaEntryMap' = internalMediaEntryMap \cup {new}
        /\ job' = [job EXCEPT !.stage = "track", !.resource = c, !.entry = new]
    BY <1>6 DEF AssignCanvas
  <2>2. r \in EntryRecords /\ r.id = c.id /\ r.layout = l
    BY <1>1 DEF NewEntry, EntryRecords
  <2>3. JobInv'
    <3> HIDE DEF new
    <3> QED
      BY <1>1, <2>1 DEF Inv, JobInv
  <2>4. new \in Nat /\ layout \in [Layouts -> Nat]
    BY EntryFacts DEF Inv, EntryInv
  <2> HIDE DEF r, f, l
  <2>5. layout' \in [Layouts -> Nat] /\ layout'[l] = new
    BY <1>1, <2>1, <2>4
  <2>6. ~threw' => /\ r.layout # None => layout'[r.layout] = new
                   /\ \A x \in internalMediaEntryMap :
                        f[x].layout # None => layout'[f[x].layout] = x
    BY <1>1, <1>3, <2>1, <2>2, <2>4, <2>5
  <2>7. EntryInv'
    BY <1>1, <1>3, <1>6, <2>1, <2>2, <2>5, <2>6, EntryAdded DEF Inv
  <2> QED
    BY <1>2, <2>3, <2>7 DEF Inv
<1> QED
  BY <1>5, <1>6

LEMMA AssignVideoInv ==
  ASSUME Inv, AssignVideo
  PROVE  Inv'
<1> DEFINE e == job.entry
           x == [entry[e] EXCEPT !.video = 0]
<1>1. JobInv'
  BY DEF Inv, JobInv, AssignVideo, entryMapVars
<1>2. UNCHANGED <<idMediaEntryMap, internalMediaEntryMap, layout, threw, spotlight>>
  BY DEF AssignVideo, entryMapVars, boundVars
<1>3. EntryInv'
  <2>1. CASE UNCHANGED entry
    BY <1>2, <2>1, EntriesUnchanged DEF Inv, entryMapVars
  <2>2. CASE entry' = [entry EXCEPT ![e] = x]
    <3>1. e \in 1..Len(entry)
      BY Midst DEF AssignVideo
    <3>2. x \in EntryRecords /\ x.id = entry[e].id /\ x.layout = entry[e].layout
      BY <3>1, EntryField, EntryFacts DEF Inv, EntryRecords
    <3>3. SpotlightPresent'
      BY <1>2 DEF Inv, EntryInv, SpotlightPresent
    <3> HIDE DEF e, x
    <3> QED
      BY <1>2, <2>2, <3>1, <3>2, <3>3, FieldChanged DEF Inv
  <2> QED
    BY <2>1, <2>2 DEF AssignVideo
<1>4. ParticipantInv'
  BY ParticipantsUnchanged DEF Inv, AssignVideo
<1> QED
  BY <1>1, <1>3, <1>4 DEF Inv

LEMMA OnFrameInv ==
  ASSUME Inv, NEW t \in Tracks, NEW e \in 1..Len(entry), OnFrame(t, e)
  PROVE  Inv'
<1>1. UNCHANGED <<idMediaEntryMap, internalMediaEntryMap, layout, threw, spotlight, job>>
  BY DEF OnFrame, entryMapVars, boundVars
<1>2. JobInv'
  BY <1>1 DEF Inv, JobInv
<1>3. t \in Nat
  BY NumbersAssumption DEF Tracks
<1>4. PICK x \in {[entry[e] EXCEPT !.audio = t], [entry[e] EXCEPT !.video = t]} :
        entry' = [entry EXCEPT ![e] = x]
  BY DEF OnFrame
<1>5. x \in EntryRecords /\ x.id = entry[e].id /\ x.layout = entry[e].layout
  BY <1>3, <1>4, EntryField, EntryFacts DEF Inv, EntryRecords
<1>6. SpotlightPresent'
  BY <1>1 DEF Inv, EntryInv, SpotlightPresent
<1>7. EntryInv'
  BY <1>1, <1>4, <1>5, <1>6, FieldChanged DEF Inv
<1>8. ParticipantInv'
  BY ParticipantsUnchanged DEF Inv, OnFrame
<1> QED
  BY <1>2, <1>7, <1>8 DEF Inv

LEMMA EndLoopInv ==
  ASSUME Inv, NEW t, NEW e, EndLoop(t, e)
  PROVE  Inv'
<1>1. JobInv'
  BY DEF Inv, JobInv, EndLoop, entryMapVars
<1>2. EntryInv'
  BY EntriesUnchanged DEF Inv, EndLoop, boundVars
<1>3. ParticipantInv'
  BY ParticipantsUnchanged DEF Inv, EndLoop
<1> QED
  BY <1>1, <1>2, <1>3 DEF Inv

-----------------------------------------------------------------------------
(***************************************************************************)
(* Participants.                                                           *)
(***************************************************************************)

\* The objects of participants.
LEMMA ParticipantFacts ==
  ASSUME ParticipantInv
  PROVE  /\ Len(participant) \in Nat /\ DOMAIN participant = 1..Len(participant)
         /\ \A p \in 1..Len(participant) :
              /\ participant[p] \in [person : Persons, ids : SUBSET Ids, list : Nat]
              /\ participant[p].person \in Persons
              /\ participant[p].ids \subseteq Ids
              /\ participant[p].list \in Nat
         /\ \A p \in internalParticipantMap : p \in 1..Len(participant) /\ p # 0
<1>1. Len(participant) \in Nat /\ DOMAIN participant = 1..Len(participant)
  BY LenProperties DEF ParticipantInv
<1>2. ASSUME NEW p \in 1..Len(participant)
      PROVE  participant[p] \in [person : Persons, ids : SUBSET Ids, list : Nat]
  BY <1>1, ElementOfSeq DEF ParticipantInv
<1>3. internalParticipantMap \subseteq 1..Len(participant)
  BY DEF ParticipantInv
<1> QED
  BY <1>1, <1>2, <1>3

\* A person has at most one participant in a map m of objects pt.
OnePerPerson(m, pt) == \A p, q \in m : pt[p].person = pt[q].person => p = q

\* The search for a key finds the one object that has it ...
LEMMA WithKeyFinds ==
  ASSUME OnePerPerson(internalParticipantMap, participant),
         NEW p \in internalParticipantMap, internalParticipantMap \subseteq Nat
  PROVE  WithKey(participant[p].person) = p
<1>1. {q \in internalParticipantMap : participant[q].person = participant[p].person} = {p}
  BY DEF OnePerPerson
<1>2. First({p}) = p
  <2>1. p \in {p} /\ \A y \in {p} : p <= y
    OBVIOUS
  <2> QED
    BY <2>1 DEF First
<1> QED
  BY <1>1, <1>2 DEF WithKey

\* ... or nothing.
LEMMA WithKeyFails ==
  ASSUME NEW x, \A q \in internalParticipantMap : participant[q].person # x
  PROVE  WithKey(x) = 0
BY DEF WithKey, First

\* What the search returns, then.
LEMMA WithKeyIs ==
  ASSUME ParticipantInv, NEW x
  PROVE  /\ WithKey(x) = 0 => \A q \in internalParticipantMap : participant[q].person # x
         /\ WithKey(x) # 0 => /\ WithKey(x) \in internalParticipantMap
                              /\ participant[WithKey(x)].person = x
         /\ WithKey(x) \in Nat
<1>1. OnePerPerson(internalParticipantMap, participant)
  BY DEF ParticipantInv, ParticipantMapsAgree, OnePerPerson
<1>2. internalParticipantMap \subseteq Nat
  BY ParticipantFacts
<1>3. CASE \E q \in internalParticipantMap : participant[q].person = x
  BY <1>1, <1>2, <1>3, WithKeyFinds, ParticipantFacts
<1>4. CASE \A q \in internalParticipantMap : participant[q].person # x
  BY <1>4, WithKeyFails
<1> QED
  BY <1>3, <1>4

\* After a step a name agrees with the search when it has the person's only
\* participant, or nothing because there is none.
LEMMA NamesAgree ==
  ASSUME OnePerPerson(internalParticipantMap, participant)',
         (internalParticipantMap \subseteq Nat)',
         NEW n,
         \/ /\ nameParticipantMap'[n] \in internalParticipantMap'
            /\ participant'[nameParticipantMap'[n]].person = n
         \/ /\ nameParticipantMap'[n] = 0
            /\ \A q \in internalParticipantMap' : participant'[q].person # n
  PROVE  nameParticipantMap'[n] = WithKey(n)'
<1> DEFINE S == {q \in internalParticipantMap' : participant'[q].person = n}
<1>1. WithKey(n)' = First(S)
  BY DEF WithKey, First
<1>2. CASE nameParticipantMap'[n] = 0
           /\ \A q \in internalParticipantMap' : participant'[q].person # n
  BY <1>1, <1>2 DEF First
<1>3. CASE /\ nameParticipantMap'[n] \in internalParticipantMap'
           /\ participant'[nameParticipantMap'[n]].person = n
  <2> DEFINE p == nameParticipantMap'[n]
  <2>1. S = {p}
    BY <1>3 DEF OnePerPerson
  <2>2. p \in Nat
    BY <1>3
  <2> HIDE DEF p
  <2>3. First({p}) = p
    <3>1. p \in {p} /\ \A y \in {p} : p <= y
      BY <2>2
    <3> QED
      BY <3>1 DEF First
  <2> QED
    BY <1>1, <2>1, <2>3 DEF p
<1> QED
  BY <1>2, <1>3

\* A new object takes the place of the person's old one, if there was one.
LEMMA ParticipantAdded ==
  ASSUME ParticipantInv, NEW old \in Nat, NEW who \in Persons,
         NEW ids \in SUBSET Ids, NEW list \in Nat,
         \A id \in ids : Person(id) = who,
         old # 0 => /\ old \in internalParticipantMap
                    /\ participant[old].person = who
                    /\ participant[old].ids \subseteq ids,
         old = 0 => \A q \in internalParticipantMap : participant[q].person # who,
         participant' = Append(participant, [person |-> who, ids |-> ids, list |-> list]),
         \E S : lists' \in Seq(S),
         idParticipantMap' = [i \in Ids |-> IF i \in ids THEN Len(participant) + 1
                                            ELSE idParticipantMap[i]],
         nameParticipantMap' = [n \in Named |-> IF n = who THEN Len(participant) + 1
                                                ELSE nameParticipantMap[n]],
         internalParticipantMap' =
           (internalParticipantMap \ {old}) \cup {Len(participant) + 1}
  PROVE  ParticipantInv'
<1> DEFINE new == Len(participant) + 1
           PR == [person : Persons, ids : SUBSET Ids, list : Nat]
           r == [person |-> who, ids |-> ids, list |-> list]
           others == internalParticipantMap \ {old}
<1>1. Len(participant) \in Nat /\ new \in Nat /\ new # 0 /\ new \notin 1..Len(participant)
  BY ParticipantFacts
<1>2. r \in PR /\ r.person = who /\ r.ids = ids
  OBVIOUS
<1>3. /\ participant' \in Seq(PR) /\ Len(participant') = new /\ participant'[new] = r
      /\ \A q \in 1..Len(participant) : participant'[q] = participant[q]
  BY <1>2, AppendProperties DEF ParticipantInv
<1>4. 1..Len(participant) \subseteq 1..new /\ new \in 1..new
  BY <1>1
<1>5. /\ idParticipantMap' = [i \in Ids |-> IF i \in ids THEN new ELSE idParticipantMap[i]]
      /\ nameParticipantMap' = [n \in Named |-> IF n = who THEN new
                                                ELSE nameParticipantMap[n]]
      /\ internalParticipantMap' = others \cup {new}
  OBVIOUS
<1> HIDE DEF new, r
<1>6. /\ \A q \in others : q \in internalParticipantMap /\ q # new /\ q # old
                           /\ participant'[q] = participant[q]
      /\ internalParticipantMap' \subseteq 1..new
  BY <1>1, <1>3, <1>4, <1>5, ParticipantFacts
<1>7. /\ \A p, q \in internalParticipantMap :
           participant[p].person = participant[q].person => p = q
      /\ \A id \in Ids : idParticipantMap[id] # 0 =>
           /\ idParticipantMap[id] \in internalParticipantMap
           /\ id \in participant[idParticipantMap[id]].ids
      /\ \A p \in internalParticipantMap :
           \A id \in participant[p].ids :
             idParticipantMap[id] = p /\ Person(id) = participant[p].person
      /\ idParticipantMap \in [Ids -> Nat] /\ nameParticipantMap \in [Named -> Nat]
  BY DEF ParticipantInv, ParticipantMapsAgree
<1>8. \A q \in others : participant[q].person # who
  BY <1>7
<1>9. OnePerPerson(internalParticipantMap', participant')
  <2>1. /\ internalParticipantMap' = others \cup {new}
        /\ participant'[new].person = who
        /\ \A q \in others : participant'[q].person = participant[q].person
    BY <1>2, <1>3, <1>5, <1>6
  <2>2. \A p, q \in others : participant[p].person = participant[q].person => p = q
    BY <1>7
  <2> HIDE DEF others
  <2>3. ASSUME NEW p \in others \cup {new}, NEW q \in others \cup {new},
               participant'[p].person = participant'[q].person
        PROVE  p = q
    <3>1. CASE p \in others /\ q \in others
      BY <2>1, <2>2, <2>3, <3>1
    <3>2. CASE p \in others /\ q = new
      BY <1>8, <2>1, <2>3, <3>2
    <3>3. CASE p = new /\ q \in others
      BY <1>8, <2>1, <2>3, <3>3
    <3> QED
      BY <2>3, <3>1, <3>2, <3>3
  <2> QED
    BY <2>1, <2>3 DEF OnePerPerson
<1>10. idParticipantMap' \in [Ids -> Nat] /\ nameParticipantMap' \in [Named -> Nat]
  BY <1>1, <1>5, <1>7
<1>11. ASSUME NEW id \in Ids, idParticipantMap'[id] # 0
       PROVE  /\ idParticipantMap'[id] \in internalParticipantMap'
              /\ id \in participant'[idParticipantMap'[id]].ids
  <2>1. CASE id \in ids
    BY <1>2, <1>3, <1>5, <2>1
  <2>2. CASE id \notin ids
    <3> DEFINE p == idParticipantMap[id]
    <3>1. idParticipantMap'[id] = p /\ p # 0
      BY <1>5, <1>11, <2>2
    <3>2. p \in internalParticipantMap /\ id \in participant[p].ids
      BY <1>7, <3>1
    <3>3. p # old
      BY <2>2, <3>1, <3>2
    <3> QED
      BY <1>5, <1>6, <3>1, <3>2, <3>3
  <2> QED
    BY <2>1, <2>2
<1>12. ASSUME NEW p \in internalParticipantMap', NEW id \in participant'[p].ids
       PROVE  idParticipantMap'[id] = p /\ Person(id) = participant'[p].person
  <2>1. CASE p = new
    BY <1>2, <1>3, <1>5, <2>1
  <2>2. CASE p # new
    <3>1. p \in others /\ id \in participant[p].ids
      BY <1>5, <1>6, <1>12, <2>2
    <3>2. idParticipantMap[id] = p /\ Person(id) = participant[p].person
      BY <1>7, <3>1
    <3>3. id \in Ids /\ id \notin ids
      BY <1>8, <3>1, <3>2, ParticipantFacts
    <3> QED
      BY <1>5, <1>6, <3>1, <3>2, <3>3
  <2> QED
    BY <2>1, <2>2
<1>13. ASSUME NEW n \in Named
       PROVE  nameParticipantMap'[n] = WithKey(n)'
  <2>1. internalParticipantMap' \subseteq Nat
    BY <1>1, <1>6
  <2>2. CASE n = who
    <3>1. nameParticipantMap'[n] = new
      BY <1>5, <2>2
    <3>2. new \in internalParticipantMap' /\ participant'[new].person = n
      BY <1>2, <1>3, <1>5, <2>2
    <3> QED
      BY <1>9, <2>1, <3>1, <3>2, NamesAgree
  <2>3. CASE n # who
    <3>1. nameParticipantMap'[n] = WithKey(n)
      BY <1>5, <2>3 DEF ParticipantInv, ParticipantMapsAgree
    <3>2. CASE WithKey(n) = 0
      <4>1. \A q \in internalParticipantMap : participant[q].person # n
        BY <3>2, WithKeyIs
      <4>2. \A q \in internalParticipantMap' : participant'[q].person # n
        BY <1>2, <1>3, <1>5, <1>6, <2>3, <4>1
      <4> QED
        BY <1>9, <2>1, <3>1, <3>2, <4>2, NamesAgree
    <3>3. CASE WithKey(n) # 0
      <4>1. WithKey(n) \in internalParticipantMap /\ participant[WithKey(n)].person = n
        BY <3>3, WithKeyIs
      <4>2. WithKey(n) \in others
        BY <1>1, <2>3, <3>3, <4>1
      <4>3. WithKey(n) \in internalParticipantMap' /\ participant'[WithKey(n)].person = n
        BY <1>5, <1>6, <4>1, <4>2
      <4> QED
        BY <1>9, <2>1, <3>1, <4>3, NamesAgree
    <3> QED
      BY <3>2, <3>3
  <2> QED
    BY <2>2, <2>3
<1>14. ParticipantMapsAgree'
  <2>1. \A p, q \in internalParticipantMap' :
          participant'[p].person = participant'[q].person => p = q
    BY <1>9 DEF OnePerPerson
  <2>2. \A id \in Ids :
          idParticipantMap'[id] # 0 => /\ idParticipantMap'[id] \in internalParticipantMap'
                                       /\ id \in participant'[idParticipantMap'[id]].ids
    BY <1>11
  <2>3. \A p \in internalParticipantMap' :
          \A id \in participant'[p].ids : idParticipantMap'[id] = p
    BY <1>12
  <2>4. \A n \in Named : nameParticipantMap'[n] = WithKey(n)'
    BY <1>13
  <2> QED
    BY <2>1, <2>2, <2>3, <2>4 DEF ParticipantMapsAgree
<1> QED
  BY <1>3, <1>6, <1>10, <1>12, <1>14 DEF ParticipantInv

\* A resource of a media entry finds its person's participant, if there is one.
LEMMA Lookup ==
  ASSUME ParticipantInv, NEW who \in Persons, NEW p,
         p = IF who \in Named THEN nameParticipantMap[who] ELSE WithKey(who)
  PROVE  p = WithKey(who) /\ p \in Nat
BY WithKeyIs DEF ParticipantInv, ParticipantMapsAgree

LEMMA AssignParticipantInv ==
  ASSUME Inv, AssignParticipant
  PROVE  Inv'
<1> DEFINE person == Person(job.resource.id)
           p == IF person \in Named THEN nameParticipantMap[person] ELSE WithKey(person)
<1>1. person \in Persons
  BY DEF Inv, JobInv, AssignParticipant, EntryResources, EntryIds, Person
<1>2. p \in Nat
  BY <1>1, Lookup DEF Inv
<1>3. /\ job.stage = "participant"
      /\ entry' = [entry EXCEPT ![job.entry].participant = p]
      /\ job' = [job EXCEPT !.stage = "roles"]
      /\ UNCHANGED <<spotlight, entryMapVars, videoVars, boundVars, participantVars>>
  BY DEF AssignParticipant
<1>4. UNCHANGED lists
      \/ lists' = [lists EXCEPT ![participant[p].list] = Append(@, job.entry)]
  BY DEF AssignParticipant
<1> HIDE DEF person, p
<1>5. JobInv' /\ EntryInv'
  BY <1>2, <1>3, ParticipantAssigned
<1>6. \E S : lists' \in Seq(S)
  <2>1. CASE UNCHANGED lists
    BY <2>1 DEF Inv, ParticipantInv
  <2>2. CASE lists' = [lists EXCEPT ![participant[p].list] = Append(@, job.entry)]
    BY <2>2, ListsReplaced DEF Inv, ParticipantInv
  <2> QED
    BY <1>4, <2>1, <2>2
<1>7. ParticipantInv'
  BY <1>3, <1>6, ParticipantsRelisted DEF Inv, participantVars
<1> QED
  BY <1>5, <1>7 DEF Inv

LEMMA CreateParticipantInv ==
  ASSUME Inv, CreateParticipant
  PROVE  Inv'
<1> DEFINE who == Person(job.resource.id)
           ids == IF job.resource.withId THEN {<<who, 1>>} ELSE {}
           new == Len(participant) + 1
<1>1. who \in Persons /\ job.stage = "participant"
  BY DEF Inv, JobInv, CreateParticipant, EntryResources, EntryIds, Person
<1>2. /\ 0 = IF who \in Named THEN nameParticipantMap[who] ELSE WithKey(who)
      /\ entry' = [entry EXCEPT ![job.entry].participant = new]
      /\ job' = [job EXCEPT !.stage = "roles"]
      /\ lists' = Append(lists, <<job.entry>>)
      /\ participant' = Append(participant,
                               [person |-> who, ids |-> ids, list |-> Len(lists) + 1])
      /\ nameParticipantMap' = [n \in Named |-> IF n = who THEN new
                                                ELSE nameParticipantMap[n]]
      /\ idParticipantMap' = [id \in Ids |-> IF id \in ids THEN new
                                             ELSE idParticipantMap[id]]
      /\ internalParticipantMap' = internalParticipantMap \cup {new}
      /\ UNCHANGED <<spotlight, entryMapVars, videoVars, boundVars>>
  BY DEF CreateParticipant
<1>3. ids \subseteq Ids /\ \A id \in ids : Person(id) = who
  BY <1>1, NumbersAssumption DEF Ids, Person
<1>4. Len(lists) + 1 \in Nat /\ \E S : lists' \in Seq(S)
  <2>1. \E S : lists \in Seq(S)
    BY DEF Inv, ParticipantInv
  <2>2. lists' = Append(lists, <<job.entry>>)
    BY <1>2
  <2>3. Len(lists) \in Nat /\ \E S : Append(lists, <<job.entry>>) \in Seq(S)
    BY <2>1, ListsReplaced
  <2> QED
    BY <2>2, <2>3
<1>5. new \in Nat
  BY ParticipantFacts DEF Inv
<1>6. \A q \in internalParticipantMap : participant[q].person # who
  BY <1>1, <1>2, Lookup, WithKeyIs DEF Inv
<1>7. internalParticipantMap' = (internalParticipantMap \ {0}) \cup {new}
  BY <1>2, ParticipantFacts DEF Inv
<1>8. JobInv' /\ EntryInv'
  <2> HIDE DEF new
  <2> QED
    BY <1>1, <1>2, <1>5, ParticipantAssigned
<1> HIDE DEF who, ids
<1>9. ParticipantInv'
  <2> DEFINE list == Len(lists) + 1
  <2>1. list \in Nat /\ 0 \in Nat /\ ids \in SUBSET Ids /\ ParticipantInv
    BY <1>3, <1>4 DEF Inv
  <2>2. participant' = Append(participant, [person |-> who, ids |-> ids, list |-> list])
    BY <1>2
  <2>3. PICK old \in Nat : old = 0
    OBVIOUS
  <2>4. internalParticipantMap' = (internalParticipantMap \ {old}) \cup {new}
    BY <1>7, <2>3
  <2>5. /\ nameParticipantMap' = [n \in Named |-> IF n = who THEN new
                                                ELSE nameParticipantMap[n]]
        /\ idParticipantMap' = [id \in Ids |-> IF id \in ids THEN new
                                               ELSE idParticipantMap[id]]
    BY <1>2
  <2> HIDE DEF list
  <2> QED
    BY <1>1, <1>3, <1>4, <1>6, <2>1, <2>2, <2>3, <2>4, <2>5, ParticipantAdded
<1> QED
  BY <1>8, <1>9 DEF Inv

\* The existing participant is the one the search for the key finds.
LEMMA ExistingIs ==
  ASSUME ParticipantInv, NEW id \in Ids
  PROVE  Existing(id) = WithKey(Person(id))
<1> DEFINE p == idParticipantMap[id]
<1>1. CASE p # 0
  <2>1. p \in internalParticipantMap /\ id \in participant[p].ids
    BY <1>1 DEF ParticipantInv, ParticipantMapsAgree
  <2>2. Person(id) = participant[p].person
    BY <2>1 DEF ParticipantInv
  <2>3. OnePerPerson(internalParticipantMap, participant)
    BY DEF ParticipantInv, ParticipantMapsAgree, OnePerPerson
  <2>4. internalParticipantMap \subseteq Nat
    BY ParticipantFacts
  <2> QED
    BY <1>1, <2>1, <2>2, <2>3, <2>4, WithKeyFinds DEF Existing
<1>2. CASE p = 0
  BY <1>2 DEF Existing, ParticipantInv, ParticipantMapsAgree
<1> QED
  BY <1>1, <1>2

LEMMA PutParticipantInv ==
  ASSUME Inv, NEW id \in job.resources, PutParticipant(id)
  PROVE  Inv'
<1> DEFINE old == Existing(id)
           who == Person(id)
           kept == old \in internalParticipantMap
           ids == (IF kept THEN participant[old].ids ELSE {}) \cup {id}
           new == Len(participant) + 1
           list == IF kept THEN participant[old].list ELSE Len(lists) + 1
<1>1. id \in Ids /\ who \in Persons
  BY DEF Inv, JobInv, PutParticipant, Ids, Person
<1>2. /\ participant' = Append(participant, [person |-> who, ids |-> ids, list |-> list])
      /\ lists' = IF kept THEN lists ELSE Append(lists, <<>>)
      /\ idParticipantMap' = [i \in Ids |-> IF i \in ids THEN new
                                            ELSE idParticipantMap[i]]
      /\ nameParticipantMap' = [n \in Named |->
                                  CASE n = who -> new
                                    [] n # who /\ old # 0 /\ n = participant[old].person -> 0
                                    [] OTHER -> nameParticipantMap[n]]
      /\ internalParticipantMap' = (internalParticipantMap \ {old}) \cup {new}
      /\ job' = [job EXCEPT !.resources = @ \ {id}, !.array = Without(@, old),
                            !.added = Append(@, new)]
      /\ UNCHANGED <<entry, entryMapVars, videoVars, boundVars, spotlight>>
  BY DEF PutParticipant
<1>3. old = WithKey(who) /\ old \in Nat
  BY <1>1, ExistingIs, WithKeyIs DEF Inv
<1>4. old # 0 => old \in internalParticipantMap /\ participant[old].person = who
  BY <1>3, WithKeyIs DEF Inv
<1>5. old = 0 => \A q \in internalParticipantMap : participant[q].person # who
  BY <1>3, WithKeyIs DEF Inv
<1>6. JobInv'
  <2> HIDE DEF old, new
  <2> QED
    BY <1>2 DEF Inv, JobInv, entryMapVars
<1>7. EntryInv'
  BY <1>2, EntriesUnchanged DEF Inv, videoVars, boundVars
<1> HIDE DEF old
<1>8. Len(lists) \in Nat /\ \E S : lists' \in Seq(S)
  BY <1>2, ListsReplaced DEF Inv, ParticipantInv
<1>9. list \in Nat
  BY <1>8, ParticipantFacts DEF Inv
<1>10. ids \subseteq Ids /\ \A i \in ids : Person(i) = who
  BY <1>1, <1>4, ParticipantFacts DEF Inv, ParticipantInv
<1>11. old # 0 => participant[old].ids \subseteq ids
  BY <1>4
<1>12. nameParticipantMap' = [n \in Named |-> IF n = who THEN new
                                              ELSE nameParticipantMap[n]]
  BY <1>2, <1>4
<1> HIDE DEF who, ids, list
<1>13. ParticipantInv'
  BY <1>1, <1>2, <1>3, <1>4, <1>5, <1>8, <1>9, <1>10, <1>11, <1>12, ParticipantAdded
     DEF Inv
<1> QED
  BY <1>6, <1>7, <1>13 DEF Inv

\* An id without a participant, and one of several ids, only leave the maps.
LEMMA IdDeleted ==
  ASSUME ParticipantInv, NEW id \in Ids, NEW p, p = idParticipantMap[id],
         idParticipantMap' = [idParticipantMap EXCEPT ![id] = 0],
         participant' = IF p \notin internalParticipantMap THEN participant
                        ELSE [participant EXCEPT ![p].ids = @ \ {id}],
         UNCHANGED <<lists, nameParticipantMap, internalParticipantMap>>
  PROVE  ParticipantInv'
<1> DEFINE PR == [person : Persons, ids : SUBSET Ids, list : Nat]
<1>1. /\ \A x \in Ids : idParticipantMap[x] # 0 =>
           /\ idParticipantMap[x] \in internalParticipantMap
           /\ x \in participant[idParticipantMap[x]].ids
      /\ \A q \in internalParticipantMap :
           \A x \in participant[q].ids :
             idParticipantMap[x] = q /\ Person(x) = participant[q].person
      /\ idParticipantMap \in [Ids -> Nat]
      /\ internalParticipantMap \subseteq 1..Len(participant)
  BY DEF ParticipantInv, ParticipantMapsAgree
<1>2. idParticipantMap' \in [Ids -> Nat]
      /\ \A x \in Ids : idParticipantMap'[x] = IF x = id THEN 0 ELSE idParticipantMap[x]
  BY <1>1
<1>3. /\ participant' \in Seq(PR) /\ Len(participant') = Len(participant)
      /\ \A q \in 1..Len(participant) :
           /\ participant'[q].person = participant[q].person
           /\ participant'[q].ids = IF q = p THEN participant[q].ids \ {id}
                                    ELSE participant[q].ids
  <2>1. CASE p \notin internalParticipantMap
    <3>1. p = 0 /\ 0 \notin 1..Len(participant)
      BY <1>1, <2>1
    <3> QED
      BY <2>1, <3>1 DEF ParticipantInv
  <2>2. CASE p \in internalParticipantMap
    <3>1. p \in 1..Len(participant)
      BY <1>1, <2>2
    <3>2. [participant[p] EXCEPT !.ids = @ \ {id}] \in PR
      BY <3>1, ParticipantFacts
    <3>3. participant' \in [1..Len(participant) -> PR]
      BY <2>2, <3>1, <3>2, ParticipantFacts
    <3>4. \A q \in 1..Len(participant) :
            /\ participant'[q].person = participant[q].person
            /\ participant'[q].ids = IF q = p THEN participant[q].ids \ {id}
                                     ELSE participant[q].ids
      BY <2>2, <3>1, ParticipantFacts
    <3>5. Len(participant) \in Nat
      BY ParticipantFacts
    <3> HIDE DEF PR
    <3>6. \A f \in [1..Len(participant) -> PR] :
            f \in Seq(PR) /\ Len(f) = Len(participant)
      BY <3>5, Places
    <3>7. participant' \in Seq(PR) /\ Len(participant') = Len(participant)
      BY <3>3, <3>6
    <3> QED
      BY <3>4, <3>7
  <2> QED
    BY <2>1, <2>2
<1>4. /\ \A q \in internalParticipantMap : q \in 1..Len(participant)
      /\ internalParticipantMap \subseteq Nat
  BY ParticipantFacts
<1>5. \A q, r \in internalParticipantMap :
        participant'[q].person = participant'[r].person => q = r
  BY <1>3, <1>4 DEF ParticipantInv, ParticipantMapsAgree
<1>6. ASSUME NEW x \in Ids, idParticipantMap'[x] # 0
      PROVE  /\ idParticipantMap'[x] \in internalParticipantMap
             /\ x \in participant'[idParticipantMap'[x]].ids
  BY <1>1, <1>2, <1>3, <1>6
<1>7. ASSUME NEW q \in internalParticipantMap, NEW x \in participant'[q].ids
      PROVE  idParticipantMap'[x] = q /\ Person(x) = participant'[q].person
  <2>1. q \in 1..Len(participant) /\ x \in participant[q].ids /\ x \in Ids
    BY <1>3, <1>4, <1>7, ParticipantFacts
  <2>2. idParticipantMap[x] = q
    BY <1>1, <2>1
  <2>3. x # id
    BY <1>3, <1>7, <2>1, <2>2
  <2> QED
    BY <1>1, <1>2, <1>3, <2>1, <2>2, <2>3
<1>8. ASSUME NEW n \in Named
      PROVE  nameParticipantMap'[n] = WithKey(n)'
  <2>1. nameParticipantMap'[n] = WithKey(n)
    BY DEF ParticipantInv, ParticipantMapsAgree
  <2>2. OnePerPerson(internalParticipantMap, participant)'
    BY <1>5 DEF OnePerPerson
  <2>3. \/ /\ WithKey(n) \in internalParticipantMap'
           /\ participant'[WithKey(n)].person = n
        \/ /\ WithKey(n) = 0
           /\ \A q \in internalParticipantMap' : participant'[q].person # n
    BY <1>3, <1>4, WithKeyIs
  <2> QED
    BY <1>4, <2>1, <2>2, <2>3, NamesAgree
<1>9. ParticipantMapsAgree'
  <2>1. \A x \in Ids :
          idParticipantMap'[x] # 0 => /\ idParticipantMap'[x] \in internalParticipantMap'
                                      /\ x \in participant'[idParticipantMap'[x]].ids
    BY <1>6
  <2>2. \A q \in internalParticipantMap' :
          \A x \in participant'[q].ids : idParticipantMap'[x] = q
    BY <1>7
  <2>3. \A n \in Named : nameParticipantMap'[n] = WithKey(n)'
    BY <1>8
  <2> QED
    BY <1>5, <2>1, <2>2, <2>3 DEF ParticipantMapsAgree
<1> QED
  BY <1>1, <1>2, <1>3, <1>7, <1>9 DEF ParticipantInv

\* With its last id a participant leaves the maps.
LEMMA LastIdDeleted ==
  ASSUME ParticipantInv, NEW id \in Ids, NEW p \in internalParticipantMap,
         p = idParticipantMap[id], participant[p].ids \subseteq {id},
         idParticipantMap' = [idParticipantMap EXCEPT ![id] = 0],
         participant' = [participant EXCEPT ![p].ids = @ \ {id}],
         nameParticipantMap' = [n \in Named |-> IF n = participant[p].person THEN 0
                                                ELSE nameParticipantMap[n]],
         internalParticipantMap' = internalParticipantMap \ {p},
         UNCHANGED lists
  PROVE  ParticipantInv'
<1> DEFINE PR == [person : Persons, ids : SUBSET Ids, list : Nat]
<1>1. /\ \A x \in Ids : idParticipantMap[x] # 0 =>
           /\ idParticipantMap[x] \in internalParticipantMap
           /\ x \in participant[idParticipantMap[x]].ids
      /\ \A q \in internalParticipantMap :
           \A x \in participant[q].ids :
             idParticipantMap[x] = q /\ Person(x) = participant[q].person
      /\ \A q, r \in internalParticipantMap :
           participant[q].person = participant[r].person => q = r
      /\ idParticipantMap \in [Ids -> Nat] /\ nameParticipantMap \in [Named -> Nat]
      /\ internalParticipantMap \subseteq 1..Len(participant)
  BY DEF ParticipantInv, ParticipantMapsAgree
<1>2. /\ idParticipantMap' \in [Ids -> Nat]
      /\ \A x \in Ids : idParticipantMap'[x] = IF x = id THEN 0 ELSE idParticipantMap[x]
      /\ nameParticipantMap' \in [Named -> Nat]
  BY <1>1
<1>3. p \in 1..Len(participant)
  BY <1>1
<1>4. participant' \in Seq(PR) /\ Len(participant') = Len(participant)
  <2>1. [participant[p] EXCEPT !.ids = @ \ {id}] \in PR
    BY <1>3, ParticipantFacts
  <2>2. participant' \in [1..Len(participant) -> PR]
    BY <1>3, <2>1, ParticipantFacts
  <2>3. Len(participant) \in Nat
    BY ParticipantFacts
  <2> HIDE DEF PR
  <2>4. \A f \in [1..Len(participant) -> PR] :
          f \in Seq(PR) /\ Len(f) = Len(participant)
    BY <2>3, Places
  <2> QED
    BY <2>2, <2>4
<1>5. \A q \in internalParticipantMap' :
        /\ q \in internalParticipantMap /\ q # p /\ q \in 1..Len(participant) /\ q \in Nat
        /\ participant'[q] = participant[q]
  BY <1>1, <1>3, ParticipantFacts
<1>6. \A q, r \in internalParticipantMap' :
        participant'[q].person = participant'[r].person => q = r
  BY <1>1, <1>5
<1>7. ASSUME NEW x \in Ids, idParticipantMap'[x] # 0
      PROVE  /\ idParticipantMap'[x] \in internalParticipantMap'
             /\ x \in participant'[idParticipantMap'[x]].ids
  <2>1. x # id /\ idParticipantMap'[x] = idParticipantMap[x]
    BY <1>2, <1>7
  <2>2. idParticipantMap[x] \in internalParticipantMap
        /\ x \in participant[idParticipantMap[x]].ids
    BY <1>1, <1>7, <2>1
  <2>3. idParticipantMap[x] # p
    BY <2>1, <2>2
  <2> QED
    BY <1>5, <2>1, <2>2, <2>3
<1>8. ASSUME NEW q \in internalParticipantMap', NEW x \in participant'[q].ids
      PROVE  idParticipantMap'[x] = q /\ Person(x) = participant'[q].person
  <2>1. x \in Ids /\ x \in participant[q].ids
    BY <1>5, <1>8, ParticipantFacts
  <2>2. idParticipantMap[x] = q /\ Person(x) = participant[q].person
    BY <1>1, <1>5, <2>1
  <2>3. x # id
    BY <1>5, <2>2
  <2> QED
    BY <1>2, <1>5, <2>1, <2>2, <2>3
<1>9. ASSUME NEW n \in Named
      PROVE  nameParticipantMap'[n] = WithKey(n)'
  <2>1. OnePerPerson(internalParticipantMap, participant)'
    BY <1>6 DEF OnePerPerson
  <2>2. internalParticipantMap' \subseteq Nat
    BY <1>5
  <2>3. CASE n = participant[p].person
    <3>1. nameParticipantMap'[n] = 0
      BY <2>3
    <3>2. \A q \in internalParticipantMap' : participant'[q].person # n
      BY <1>1, <1>5, <2>3
    <3> QED
      BY <2>1, <2>2, <3>1, <3>2, NamesAgree
  <2>4. CASE n # participant[p].person
    <3>1. nameParticipantMap'[n] = WithKey(n)
      BY <2>4 DEF ParticipantInv, ParticipantMapsAgree
    <3>2. \/ /\ WithKey(n) \in internalParticipantMap'
             /\ participant'[WithKey(n)].person = n
          \/ /\ WithKey(n) = 0
             /\ \A q \in internalParticipantMap' : participant'[q].person # n
      BY <1>5, <2>4, WithKeyIs
    <3> QED
      BY <2>1, <2>2, <3>1, <3>2, NamesAgree
  <2> QED
    BY <2>3, <2>4
<1>10. ParticipantMapsAgree'
  <2>1. \A x \in Ids :
          idParticipantMap'[x] # 0 => /\ idParticipantMap'[x] \in internalParticipantMap'
                                      /\ x \in participant'[idParticipantMap'[x]].ids
    BY <1>7
  <2>2. \A q \in internalParticipantMap' :
          \A x \in participant'[q].ids : idParticipantMap'[x] = q
    BY <1>8
  <2>3. \A n \in Named : nameParticipantMap'[n] = WithKey(n)'
    BY <1>9
  <2> QED
    BY <1>6, <2>1, <2>2, <2>3 DEF ParticipantMapsAgree
<1>11. internalParticipantMap' \subseteq 1..Len(participant')
  BY <1>4, <1>5
<1> QED
  BY <1>2, <1>4, <1>8, <1>10, <1>11 DEF ParticipantInv

LEMMA DeleteParticipantInv ==
  ASSUME Inv, NEW id \in job.deleted, DeleteParticipant(id)
  PROVE  Inv'
<1> DEFINE p == idParticipantMap[id]
           last == participant[p].ids \subseteq {id}
           gone == p \in internalParticipantMap /\ last
<1>1. /\ id \in Ids /\ job.channel = "participants" /\ job.stage = "next"
      /\ idParticipantMap' = [idParticipantMap EXCEPT ![id] = 0]
      /\ participant' = IF p \notin internalParticipantMap THEN participant
                        ELSE [participant EXCEPT ![p].ids = @ \ {id}]
      /\ UNCHANGED <<lists, spotlight, idMediaEntryMap, internalMediaEntryMap, layout,
                     threw>>
  BY DEF Inv, JobInv, DeleteParticipant, Deletes, entryMapVars, videoVars, boundVars
<1>2. SpotlightPresent'
  BY <1>1 DEF Inv, EntryInv, SpotlightPresent
<1>3. CASE gone
  <2> DEFINE S == {e \in DOMAIN entry :
                     /\ e \in internalMediaEntryMap
                     /\ \E i \in DOMAIN lists[participant[p].list] :
                          lists[participant[p].list][i] = e}
             f == [e \in DOMAIN entry |->
                     IF e \in S THEN [entry[e] EXCEPT !.participant = 0] ELSE entry[e]]
  <2>1. /\ nameParticipantMap' = [n \in Named |-> IF n = participant[p].person THEN 0
                                                  ELSE nameParticipantMap[n]]
        /\ internalParticipantMap' = internalParticipantMap \ {p}
        /\ job' = [job EXCEPT !.deleted = @ \ {id}, !.array = Without(@, p)]
    BY <1>3 DEF DeleteParticipant
  <2>2. entry' = f
    BY <1>3 DEF DeleteParticipant
  <2> HIDE DEF S
  <2>3. /\ f \in [1..Len(entry) -> EntryRecords]
        /\ \A e \in 1..Len(entry) : f[e].id = entry[e].id /\ f[e].layout = entry[e].layout
    BY EntryFacts, EntryField DEF Inv, EntryRecords
  <2> HIDE DEF f
  <2>4. EntryInv'
    BY <1>1, <1>2, <2>2, <2>3, SameEntries DEF Inv
  <2>5. ParticipantInv'
    BY <1>1, <1>3, <2>1, LastIdDeleted DEF Inv
  <2> HIDE DEF p
  <2>6. JobInv'
    BY <1>1, <2>1 DEF Inv, JobInv
  <2> QED
    BY <2>4, <2>5, <2>6 DEF Inv
<1>4. CASE ~gone
  <2>1. /\ job' = [job EXCEPT !.deleted = @ \ {id}]
        /\ UNCHANGED <<nameParticipantMap, internalParticipantMap, entry>>
    BY <1>4 DEF DeleteParticipant
  <2>2. JobInv'
    BY <1>1, <2>1 DEF Inv, JobInv
  <2>3. EntryInv'
    BY <1>1, <2>1, EntriesUnchanged DEF Inv, entryMapVars
  <2>4. ParticipantInv'
    BY <1>1, <2>1, IdDeleted DEF Inv
  <2> QED
    BY <2>2, <2>3, <2>4 DEF Inv
<1> QED
  BY <1>3, <1>4

-----------------------------------------------------------------------------
(***************************************************************************)
(* The invariant.                                                          *)
(***************************************************************************)

LEMMA NextInv ==
  ASSUME Inv, [Next]_vars
  PROVE  Inv'
<1>1. CASE UNCHANGED vars
  <2>1. UNCHANGED <<job, internalMediaEntryMap, lists, participantVars, entry,
                    entryMapVars, layout, spotlight, threw>>
    BY <1>1 DEF vars, entryMapVars, participantVars, videoVars, boundVars
  <2>2. JobInv'
    BY <2>1 DEF Inv, JobInv
  <2> QED
    BY <2>1, <2>2, EntriesUnchanged, ParticipantsUnchanged DEF Inv
<1>2. CASE OnMediaEntriesMessage \/ OnParticipantsMessage \/ OnVideoAssignmentMessage
  BY <1>2, MessageInv
<1>3. CASE EntriesStep
  BY <1>3, DeleteUnknownEntryInv, DeleteEntryThrowsInv, DeleteEntryInv, StoreEntryInv,
     KeepAudioInv, AssignAudioInv, AssignParticipantInv, CreateParticipantInv,
     SetRolesInv, FinishInv DEF EntriesStep
<1>4. CASE ParticipantsStep
  BY <1>4, DeleteParticipantInv, PutParticipantInv, FinishInv DEF ParticipantsStep
<1>5. CASE VideoStep
  BY <1>5, UpdateCanvasInv, AssignCanvasInv, AssignVideoInv, FinishInv DEF VideoStep
<1>6. CASE \E t \in Tracks, e \in 1..Len(entry) : OnFrame(t, e) \/ EndLoop(t, e)
  BY <1>6, OnFrameInv, EndLoopInv
<1>7. CASE Terminated
  BY <1>1, <1>7 DEF Terminated
<1> QED
  BY <1>1, <1>2, <1>3, <1>4, <1>5, <1>6, <1>7 DEF Next

THEOREM InvHolds == Spec => []Inv
<1>1. Init => Inv
  BY InitInv
<1>2. Inv /\ [Next]_vars => Inv'
  BY NextInv
<1> QED
  BY <1>1, <1>2, PTL DEF Spec

\* However the handlers of the three channels follow each other, and whether one
\* throws, the two maps of media entries hold the same objects, each under its
\* id, and no person has two participants: its ids, its name and its key find
\* one.  The handlers create, replace and delete these in six places.
THEOREM IndicesAgree == Spec => [](EntryMapsAgree /\ ParticipantMapsAgree)
<1>1. Inv => EntryMapsAgree /\ ParticipantMapsAgree
  BY DEF Inv, EntryInv, ParticipantInv
<1> QED
  BY <1>1, InvHolds, PTL

\* The presenter and the screenshare that the application is shown are media
\* entries of the maps: the deletion of one, and a resource that has the role no
\* more, take it from the delegates.
THEOREM PresenterSafe == Spec => []SpotlightPresent
<1>1. Inv => SpotlightPresent
  BY DEF Inv, EntryInv
<1> QED
  BY <1>1, InvHolds, PTL

\* Until a handler throws, the layout that a present media entry names shows
\* that entry: an assignment takes the layout from the entry that had it.
THEOREM LayoutSafe == Spec => []LayoutShowsEntry
<1>1. Inv => LayoutShowsEntry
  BY DEF Inv, EntryInv
<1> QED
  BY <1>1, InvHolds, PTL

-----------------------------------------------------------------------------
(***************************************************************************)
(* Filters.  What Without computes is shown by induction: for the least    *)
(* place at which it would be wrong.                                       *)
(***************************************************************************)

\* A set of numbers has a least one.
LEMMA LeastNat ==
  ASSUME NEW T, T \subseteq Nat, T # {}
  PROVE  \E n \in T : \A m \in T : n <= m
<1> DEFINE R == {p \in Nat \X Nat : p[1] < p[2]}
<1>1. IsWellFoundedOn(R, Nat)
  BY NatLessThanWellFounded DEF OpToRel
<1> HIDE DEF R
<1>2. PICK n \in T : \A m \in T : <<m, n>> \notin R
  BY <1>1, WFMin
<1>3. \A m \in T : <<m, n>> \in Nat \X Nat
  OBVIOUS
<1>4. \A m \in T : ~(m < n)
  BY <1>2, <1>3 DEF R
<1> QED
  BY <1>4

\* Let a set of numbers hold 0 and with n also n + 1, below a bound: then it
\* holds all below the bound.
LEMMA UpTo ==
  ASSUME NEW b \in Nat, NEW T, 0 \in T, \A n \in Nat : n < b /\ n \in T => n + 1 \in T
  PROVE  \A n \in 0..b : n \in T
<1> DEFINE B == {n \in 0..b : n \notin T}
<1> SUFFICES ASSUME B # {} PROVE FALSE
  OBVIOUS
<1>1. B \subseteq Nat
  OBVIOUS
<1> HIDE DEF B
<1>2. PICK n \in B : \A m \in B : n <= m
  BY <1>1, LeastNat
<1>3. n \in 0..b /\ n \notin T /\ n # 0
  BY <1>2 DEF B
<1>4. n - 1 \in 0..b /\ n - 1 \in Nat /\ n - 1 < b /\ (n - 1) + 1 = n
  BY <1>3
<1>5. n - 1 \in T
  BY <1>2, <1>4 DEF B
<1> QED
  BY <1>3, <1>4, <1>5

\* One step of the filter, and the filter of each beginning of s.
Keep(before, y, x) == IF y = x THEN before ELSE Append(before, y)
Filters(k, s, x) == k = [n \in 0..Len(s) |-> IF n = 0 THEN <<>> ELSE Keep(k[n - 1], s[n], x)]

LEMMA FilterExists ==
  ASSUME NEW S, NEW s \in Seq(S), NEW x
  PROVE  \E k : Filters(k, s, x)
<1> DEFINE P(g, b) == g = [n \in 0..b |-> IF n = 0 THEN <<>> ELSE Keep(g[n - 1], s[n], x)]
           T == {b \in Nat : \E g : P(g, b)}
<1>1. 0 \in T
  <2>1. P([n \in 0..0 |-> <<>>], 0)
    OBVIOUS
  <2> QED
    BY <2>1
<1>2. ASSUME NEW b \in Nat, b \in T PROVE b + 1 \in T
  <2>1. PICK g : P(g, b)
    BY <1>2
  <2> DEFINE h == [n \in 0..(b + 1) |-> IF n <= b THEN g[n] ELSE Keep(g[b], s[b + 1], x)]
  <2>2. ASSUME NEW n \in 0..(b + 1)
        PROVE  h[n] = IF n = 0 THEN <<>> ELSE Keep(h[n - 1], s[n], x)
    <3>1. CASE n <= b
      <4>1. n \in 0..b /\ h[n] = g[n]
        BY <3>1
      <4>2. g[n] = IF n = 0 THEN <<>> ELSE Keep(g[n - 1], s[n], x)
        BY <2>1, <4>1
      <4>3. n # 0 => h[n - 1] = g[n - 1]
        BY <4>1
      <4> QED
        BY <4>1, <4>2, <4>3
    <3>2. CASE n = b + 1
      <4>1. h[n] = Keep(g[b], s[b + 1], x) /\ h[n - 1] = g[b]
        BY <3>2
      <4> QED
        BY <3>2, <4>1
    <3> QED
      BY <3>1, <3>2
  <2>3. P(h, b + 1)
    <3> DEFINE r == [n \in 0..(b + 1) |-> IF n = 0 THEN <<>> ELSE Keep(h[n - 1], s[n], x)]
    <3>1. \A n \in 0..(b + 1) : h[n] = r[n]
      BY <2>2
    <3>2. h = [n \in 0..(b + 1) |-> h[n]] /\ r = [n \in 0..(b + 1) |-> r[n]]
      OBVIOUS
    <3> HIDE DEF h, r
    <3>3. h = r
      BY <3>1, <3>2
    <3> QED
      BY <3>3 DEF r
  <2> HIDE DEF h, P
  <2> QED
    BY <2>3
<1>3. Len(s) \in Nat
  BY LenProperties
<1> HIDE DEF T
<1>4. Len(s) \in T
  <2>1. \A n \in 0..Len(s) : n \in T
    BY <1>1, <1>2, <1>3, UpTo
  <2> QED
    BY <1>3, <2>1
<1> QED
  BY <1>4 DEF T, Filters

LEMMA WithoutFilters ==
  ASSUME NEW S, NEW s \in Seq(S), NEW x
  PROVE  \E k : Filters(k, s, x) /\ Without(s, x) = k[Len(s)]
<1> DEFINE k == CHOOSE k : Filters(k, s, x)
<1>1. Filters(k, s, x)
  BY FilterExists
<1>2. Without(s, x) = k[Len(s)]
  BY DEF Without, Filters, Keep
<1> QED
  BY <1>1, <1>2

\* x occurs once in s, or not at all; so in its first n elements.
Once(s, x) == \E i \in 1..Len(s) : \A j \in 1..Len(s) : s[j] = x <=> j = i
Absent(s, x) == \A i \in 1..Len(s) : s[i] # x
OnceIn(s, n, x) == \E i \in 1..n : \A j \in 1..n : s[j] = x <=> j = i
AbsentIn(s, n, x) == \A i \in 1..n : s[i] # x

\* What an element at the end of a sequence changes.
LEMMA CountAppend ==
  ASSUME NEW S, NEW s \in Seq(S), NEW y \in S
  PROVE  /\ Append(s, y) \in Seq(S)
         /\ \A x : x # y /\ Once(s, x) => Once(Append(s, y), x)
         /\ \A x : x # y /\ Absent(s, x) => Absent(Append(s, y), x)
         /\ Absent(s, y) => Once(Append(s, y), y)
         /\ ~Absent(Append(s, y), y)
         /\ \A x : ~Absent(s, x) => ~Absent(Append(s, y), x)
         /\ \A x : ~Absent(Append(s, y), x) => ~Absent(s, x) \/ x = y
<1> DEFINE r == Append(s, y)
<1>1. /\ r \in Seq(S) /\ Len(s) \in Nat /\ Len(r) = Len(s) + 1
      /\ \A i \in 1..Len(s) : r[i] = s[i]
      /\ r[Len(s) + 1] = y
  BY AppendProperties, LenProperties
<1> HIDE DEF r
<1>2. /\ \A i \in 1..Len(r) : i \in 1..Len(s) \/ i = Len(s) + 1
      /\ \A i \in 1..Len(s) : i \in 1..Len(r) /\ i # Len(s) + 1
      /\ Len(s) + 1 \in 1..Len(r)
  BY <1>1
<1>3. \A x : x # y /\ Absent(s, x) => Absent(r, x)
  BY <1>1, <1>2 DEF Absent
<1>4. ASSUME NEW x, x # y, Once(s, x) PROVE Once(r, x)
  <2>1. PICK i \in 1..Len(s) : \A j \in 1..Len(s) : s[j] = x <=> j = i
    BY <1>4 DEF Once
  <2>2. \A j \in 1..Len(r) : r[j] = x <=> j = i
    BY <1>1, <1>2, <1>4, <2>1
  <2> QED
    BY <1>2, <2>1, <2>2 DEF Once
<1>5. ASSUME Absent(s, y) PROVE Once(r, y)
  <2>1. \A j \in 1..Len(r) : r[j] = y <=> j = Len(s) + 1
    BY <1>1, <1>2, <1>5 DEF Absent
  <2> QED
    BY <1>2, <2>1 DEF Once
<1>6. /\ ~Absent(r, y)
      /\ \A x : ~Absent(s, x) => ~Absent(r, x)
      /\ \A x : ~Absent(r, x) => ~Absent(s, x) \/ x = y
  BY <1>1, <1>2 DEF Absent
<1> QED
  BY <1>1, <1>3, <1>4, <1>5, <1>6 DEF r

\* s.filter((y) => y !== x) has no x, and what else s has, as often.
LEMMA WithoutProperties ==
  ASSUME NEW S, NEW s \in Seq(S), NEW x
  PROVE  /\ Without(s, x) \in Seq(S)
         /\ Absent(Without(s, x), x)
         /\ \A z : z # x /\ Once(s, z) => Once(Without(s, x), z)
         /\ \A z : Absent(s, z) => Absent(Without(s, x), z)
         /\ \A z : z # x /\ ~Absent(s, z) => ~Absent(Without(s, x), z)
<1>1. PICK k : Filters(k, s, x) /\ Without(s, x) = k[Len(s)]
  BY WithoutFilters
<1>2. Len(s) \in Nat /\ \A n \in 1..Len(s) : s[n] \in S
  BY LenProperties, ElementOfSeq
<1> DEFINE Right(n) == /\ k[n] \in Seq(S)
                       /\ Absent(k[n], x)
                       /\ \A z : z # x /\ OnceIn(s, n, z) => Once(k[n], z)
                       /\ \A z : AbsentIn(s, n, z) => Absent(k[n], z)
                       /\ \A z : z # x /\ ~AbsentIn(s, n, z) => ~Absent(k[n], z)
           T == {n \in 0..Len(s) : Right(n)}
<1>3. /\ k[0] = <<>>
      /\ \A n \in 1..Len(s) : k[n] = Keep(k[n - 1], s[n], x)
  BY <1>1, <1>2 DEF Filters
<1>4. 0 \in T
  <2>1. <<>> \in Seq(S) /\ Len(<<>>) = 0
    BY EmptySeq
  <2>2. Right(0)
    BY <1>3, <2>1 DEF Absent, OnceIn, AbsentIn
  <2> QED
    BY <1>2, <2>2
<1>5. ASSUME NEW n \in Nat, n < Len(s), n \in T PROVE n + 1 \in T
  <2>1. /\ n + 1 \in 1..Len(s) /\ n + 1 \in 0..Len(s) /\ Right(n)
        /\ k[n + 1] = Keep(k[n], s[n + 1], x)
    BY <1>2, <1>3, <1>5
  <2>2. /\ \A i \in 1..(n + 1) : i \in 1..n \/ i = n + 1
        /\ \A i \in 1..n : i \in 1..(n + 1) /\ i # n + 1
        /\ n + 1 \in 1..(n + 1)
    BY <1>5
  <2>3. /\ \A z : AbsentIn(s, n + 1, z) <=> AbsentIn(s, n, z) /\ s[n + 1] # z
    BY <2>2 DEF AbsentIn
  <2>4. ASSUME NEW z, OnceIn(s, n + 1, z)
        PROVE  \/ s[n + 1] # z /\ OnceIn(s, n, z)
               \/ s[n + 1] = z /\ AbsentIn(s, n, z)
    <3>1. PICK i \in 1..(n + 1) : \A j \in 1..(n + 1) : s[j] = z <=> j = i
      BY <2>4 DEF OnceIn
    <3>2. CASE i = n + 1
      BY <2>2, <3>1, <3>2 DEF AbsentIn
    <3>3. CASE i \in 1..n
      BY <2>2, <3>1, <3>3 DEF OnceIn
    <3> QED
      BY <2>2, <3>2, <3>3
  <2>5. Right(n)
    BY <2>1
  <2> HIDE DEF T
  <2>6. CASE s[n + 1] = x
    <3>1. k[n + 1] = k[n]
      BY <2>1, <2>6 DEF Keep
    <3>2. Right(n + 1)
      BY <2>3, <2>4, <2>5, <2>6, <3>1
    <3> QED
      BY <2>1, <3>2 DEF T
  <2>7. CASE s[n + 1] # x
    <3> DEFINE y == s[n + 1]
    <3>1. k[n + 1] = Append(k[n], y) /\ y \in S /\ k[n] \in Seq(S)
      BY <1>2, <2>1, <2>7 DEF Keep
    <3>2. /\ Append(k[n], y) \in Seq(S)
          /\ \A z : z # y /\ Once(k[n], z) => Once(Append(k[n], y), z)
          /\ \A z : z # y /\ Absent(k[n], z) => Absent(Append(k[n], y), z)
          /\ Absent(k[n], y) => Once(Append(k[n], y), y)
          /\ ~Absent(Append(k[n], y), y)
          /\ \A z : ~Absent(k[n], z) => ~Absent(Append(k[n], y), z)
      BY <3>1, CountAppend
    <3> HIDE DEF y
    <3>3. s[n + 1] = y /\ y # x
      BY <2>7 DEF y
    <3>4. Right(n + 1)
      BY <2>3, <2>4, <2>5, <3>1, <3>2, <3>3
    <3> QED
      BY <2>1, <3>4 DEF T
  <2> QED
    BY <2>6, <2>7
<1> HIDE DEF T
<1>6. Len(s) \in T
  <2>1. \A n \in 0..Len(s) : n \in T
    BY <1>2, <1>4, <1>5, UpTo
  <2> QED
    BY <1>2, <2>1
<1>7. Right(Len(s))
  BY <1>6 DEF T
<1>8. /\ \A z : OnceIn(s, Len(s), z) <=> Once(s, z)
      /\ \A z : AbsentIn(s, Len(s), z) <=> Absent(s, z)
  BY DEF OnceIn, Once, AbsentIn, Absent
<1> QED
  BY <1>1, <1>7, <1>8

\* What is in two sequences, one after the other.
LEMMA CountConcat ==
  ASSUME NEW S, NEW a \in Seq(S), NEW b \in Seq(S)
  PROVE  /\ a \o b \in Seq(S)
         /\ \A x : Once(a, x) /\ Absent(b, x) => Once(a \o b, x)
         /\ \A x : Absent(a, x) /\ Once(b, x) => Once(a \o b, x)
         /\ \A x : Absent(a, x) /\ Absent(b, x) => Absent(a \o b, x)
<1> DEFINE r == a \o b
           m == Len(a)
           n == Len(b)
<1>1. /\ r \in Seq(S) /\ m \in Nat /\ n \in Nat /\ Len(r) = m + n
      /\ \A i \in 1..Len(r) : r[i] = IF i <= m THEN a[i] ELSE b[i - m]
  BY ConcatProperties, LenProperties
<1> HIDE DEF r, m, n
<1>2. /\ \A i \in 1..m : i \in 1..Len(r) /\ r[i] = a[i]
      /\ \A j \in 1..n : m + j \in 1..Len(r) /\ r[m + j] = b[j]
  BY <1>1
<1>3. \A i \in 1..Len(r) : i \in 1..m \/ (i - m \in 1..n /\ i = m + (i - m))
  BY <1>1
<1>4. \A i \in 1..m : i \in Nat /\ i <= m
  BY <1>1
<1>5. ASSUME NEW x, Once(a, x), Absent(b, x) PROVE Once(r, x)
  <2>1. PICK i \in 1..m : \A j \in 1..m : a[j] = x <=> j = i
    BY <1>5 DEF Once, m
  <2>2. \A j \in 1..n : b[j] # x
    BY <1>5 DEF Absent, n
  <2>3. \A j \in 1..Len(r) : r[j] = x <=> j = i
    <3> TAKE j \in 1..Len(r)
    <3>1. CASE j \in 1..m
      BY <1>2, <2>1, <3>1
    <3>2. CASE j - m \in 1..n /\ j = m + (j - m)
      <4>1. r[j] = b[j - m]
        BY <1>2, <3>2
      <4>2. j # i
        BY <1>1, <1>4, <3>2
      <4> QED
        BY <2>2, <3>2, <4>1, <4>2
    <3> QED
      BY <1>3, <3>1, <3>2
  <2> QED
    BY <1>2, <2>1, <2>3 DEF Once
<1>6. ASSUME NEW x, Absent(a, x), Once(b, x) PROVE Once(r, x)
  <2>1. PICK i \in 1..n : \A j \in 1..n : b[j] = x <=> j = i
    BY <1>6 DEF Once, n
  <2>2. \A j \in 1..m : a[j] # x
    BY <1>6 DEF Absent, m
  <2>3. \A j \in 1..Len(r) : r[j] = x <=> j = m + i
    <3> TAKE j \in 1..Len(r)
    <3>1. CASE j \in 1..m
      <4>1. j # m + i
        BY <1>1, <1>4, <3>1
      <4> QED
        BY <1>2, <2>2, <3>1, <4>1
    <3>2. CASE j - m \in 1..n /\ j = m + (j - m)
      <4>1. r[j] = b[j - m]
        BY <1>2, <3>2
      <4>2. j = m + i <=> j - m = i
        BY <1>1, <3>2
      <4> QED
        BY <2>1, <3>2, <4>1, <4>2
    <3> QED
      BY <1>3, <3>1, <3>2
  <2> QED
    BY <1>2, <2>1, <2>3 DEF Once
<1>7. ASSUME NEW x, Absent(a, x), Absent(b, x) PROVE Absent(r, x)
  <2>1. /\ \A j \in 1..m : a[j] # x
        /\ \A j \in 1..n : b[j] # x
    BY <1>7 DEF Absent, m, n
  <2> QED
    BY <1>2, <1>3, <2>1 DEF Absent
<1> QED
  BY <1>1, <1>5, <1>6, <1>7 DEF r

\* Once, as the cardinality of where it occurs.
LEMMA OnceOccurs ==
  ASSUME NEW S, NEW s \in Seq(S), NEW x, Once(s, x)
  PROVE  Cardinality(Occurs(s, x)) = 1
<1>1. PICK i \in 1..Len(s) : \A j \in 1..Len(s) : s[j] = x <=> j = i
  BY DEF Once
<1>2. DOMAIN s = 1..Len(s)
  BY LenProperties
<1>3. Occurs(s, x) = {i}
  BY <1>1, <1>2 DEF Occurs
<1> QED
  BY <1>3, FS_Singleton

\* A sequence that has each member of a set once, and nothing else, is as long
\* as the set has members.
LEMMA OnceEachLen ==
  ASSUME NEW S, NEW s \in Seq(S), NEW T,
         \A x \in T : Once(s, x), \A x : x \notin T => Absent(s, x)
  PROVE  Len(s) = Cardinality(T)
<1>1. Len(s) \in Nat /\ s \in [1..Len(s) -> S]
  BY LenProperties
<1>2. \A i \in 1..Len(s) : s[i] \in T
  BY DEF Absent
<1>3. s \in [1..Len(s) -> T]
  BY <1>1, <1>2
<1>4. \A i, j \in 1..Len(s) : s[i] = s[j] => i = j
  BY <1>2 DEF Once
<1>5. \A x \in T : \E i \in 1..Len(s) : s[i] = x
  BY DEF Once
<1>6. s \in Bijection(1..Len(s), T)
  BY <1>3, <1>4, <1>5 DEF Bijection, Injection, Surjection, IsInjective
<1> QED
  BY <1>1, <1>6, FS_CountingElements DEF ExistsBijection

-----------------------------------------------------------------------------
(***************************************************************************)
(* The objects only grow: a step keeps what names them, and makes media    *)
(* entries without a participant.                                          *)
(***************************************************************************)

EntriesGrow ==
  /\ Len(entry) \in Nat /\ Len(entry') \in Nat /\ Len(entry) <= Len(entry')
  /\ \A e \in 1..Len(entry) : e \in 1..Len(entry') /\ entry'[e].id = entry[e].id
  /\ \A e \in 1..Len(entry') : e \notin 1..Len(entry) => entry'[e].participant = 0

ParticipantsGrow ==
  /\ Len(participant) \in Nat /\ Len(participant') \in Nat
  /\ Len(participant) <= Len(participant')
  /\ \A p \in 1..Len(participant) :
       /\ p \in 1..Len(participant')
       /\ participant'[p].list = participant[p].list
       /\ participant'[p].person = participant[p].person

LEMMA SameLength ==
  ASSUME NEW m \in Nat, NEW n \in Nat, 1..m = 1..n
  PROVE  m = n
<1>1. m = 0 \/ m \in 1..m
  OBVIOUS
<1>2. n = 0 \/ n \in 1..n
  OBVIOUS
<1>3. m <= n
  BY <1>1
<1>4. n <= m
  BY <1>2
<1> QED
  BY <1>3, <1>4

\* One object changes, or each in its place, or one is added.
LEMMA EntriesGrowIf ==
  ASSUME Inv, Inv'
  PROVE  /\ UNCHANGED entry => EntriesGrow
         /\ \A e, r : entry' = [entry EXCEPT ![e] = r] /\ (e \in DOMAIN entry => r.id = entry[e].id)
                      => EntriesGrow
         /\ \A r : entry' = Append(entry, r) /\ r.participant = 0 => EntriesGrow
<1>1. Len(entry) \in Nat /\ DOMAIN entry = 1..Len(entry)
      /\ entry \in Seq(EntryRecords)
  BY EntryFacts DEF Inv, EntryInv
<1>2. Len(entry') \in Nat /\ DOMAIN entry' = 1..Len(entry')
      /\ entry' \in Seq(EntryRecords)
  BY LenProperties DEF Inv, EntryInv
<1>3. ASSUME UNCHANGED entry PROVE EntriesGrow
  BY <1>1, <1>3 DEF EntriesGrow
<1>4. ASSUME NEW e, NEW r, entry' = [entry EXCEPT ![e] = r], e \in DOMAIN entry => r.id = entry[e].id
      PROVE  EntriesGrow
  <2>1. DOMAIN entry' = DOMAIN entry
    BY <1>4
  <2>2. Len(entry') = Len(entry)
    BY <1>1, <1>2, <2>1, SameLength
  <2>3. \A x \in 1..Len(entry) : entry'[x].id = entry[x].id
    BY <1>1, <1>4
  <2> QED
    BY <1>1, <2>2, <2>3 DEF EntriesGrow
<1>5. ASSUME NEW r, entry' = Append(entry, r), r.participant = 0
      PROVE  EntriesGrow
  <2>1. /\ Len(entry') = Len(entry) + 1
        /\ \A x \in 1..Len(entry) : entry'[x] = entry[x]
        /\ entry'[Len(entry) + 1] = r
    <3>1. entry \in Seq(EntryRecords \cup {r})
      BY <1>1, SeqDef
    <3> QED
      BY <1>5, <3>1, AppendProperties
  <2>2. \A x \in 1..Len(entry') : x \in 1..Len(entry) \/ x = Len(entry) + 1
    BY <1>1, <2>1
  <2> QED
    BY <1>1, <1>5, <2>1, <2>2 DEF EntriesGrow
<1> QED
  BY <1>3, <1>4, <1>5

LEMMA CanvasGrows ==
  ASSUME Inv, Inv', NEW c \in job.resources, AssignCanvas(c)
  PROVE  /\ EntriesGrow
         /\ \A x \in 1..Len(entry) : entry'[x].participant = entry[x].participant
<1> DEFINE f == Released(c.canvas)
           e == idMediaEntryMap[c.id]
<1>1. Len(entry) \in Nat /\ DOMAIN entry = 1..Len(entry)
  BY EntryFacts DEF Inv, EntryInv
<1>2. Len(entry') \in Nat /\ DOMAIN entry' = 1..Len(entry')
  BY LenProperties DEF Inv, EntryInv
<1>3. c \in Canvases /\ c.canvas \in Layouts
  BY DEF Inv, JobInv, AssignCanvas, Canvases
<1>4. /\ f \in [1..Len(entry) -> EntryRecords]
      /\ \A x \in 1..Len(entry) : f[x].id = entry[x].id
  BY <1>3, ReleasedFacts DEF Inv
<1>5. \A x \in 1..Len(entry) : f[x].participant = entry[x].participant
  <2>1. \A x \in 1..Len(entry) : entry[x] \in EntryRecords
    BY EntryFacts DEF Inv
  <2> QED
    BY <1>1, <2>1 DEF Released, EntryRecords
<1>6. CASE e # 0
  <2>1. entry' = [f EXCEPT ![e].ssrc = c.ssrc, ![e].layout = c.canvas]
    BY <1>6 DEF AssignCanvas
  <2> HIDE DEF f
  <2>2. DOMAIN entry' = DOMAIN entry
    BY <1>1, <1>4, <2>1
  <2>3. Len(entry') = Len(entry)
    BY <1>1, <1>2, <2>2, SameLength
  <2>4. \A x \in 1..Len(entry) :
          entry'[x].id = f[x].id /\ entry'[x].participant = f[x].participant
    BY <1>4, <2>1 DEF EntryRecords
  <2> QED
    BY <1>1, <1>4, <1>5, <2>3, <2>4 DEF EntriesGrow
<1>7. CASE e = 0
  <2> DEFINE r == [NewEntry(c.id) EXCEPT !.ssrc = c.ssrc, !.layout = c.canvas]
  <2>1. entry' = Append(f, r) /\ r.participant = 0
    BY <1>7 DEF AssignCanvas, NewEntry
  <2> HIDE DEF f, r
  <2>2. f \in Seq(EntryRecords \cup {r}) /\ Len(f) = Len(entry)
    <3>1. f \in [1..Len(entry) -> EntryRecords \cup {r}]
      BY <1>4
    <3> QED
      BY <1>1, <3>1, Places
  <2>3. /\ Len(entry') = Len(entry) + 1
        /\ \A x \in 1..Len(entry) : entry'[x] = f[x]
        /\ entry'[Len(entry) + 1] = r
    BY <2>1, <2>2, AppendProperties
  <2>4. \A x \in 1..Len(entry') : x \in 1..Len(entry) \/ x = Len(entry) + 1
    BY <1>1, <2>3
  <2> QED
    BY <1>1, <1>4, <1>5, <2>1, <2>3, <2>4 DEF EntriesGrow
<1> QED
  BY <1>6, <1>7

LEMMA NextEntries ==
  ASSUME Inv, Inv', [Next]_vars
  PROVE  EntriesGrow
<1>1. ASSUME NEW e, NEW r,
             entry' = [entry EXCEPT ![e] = r], e \in DOMAIN entry => r.id = entry[e].id
      PROVE  EntriesGrow
  BY <1>1, EntriesGrowIf
<1>2. \A e \in DOMAIN entry : entry[e] \in EntryRecords
  BY EntryFacts DEF Inv
<1>3. ASSUME UNCHANGED entry PROVE EntriesGrow
  BY <1>3, EntriesGrowIf
<1>4. CASE \/ UNCHANGED vars \/ Terminated \/ OnMediaEntriesMessage \/ OnParticipantsMessage
           \/ OnVideoAssignmentMessage
  BY <1>3, <1>4 DEF vars, Terminated, OnMediaEntriesMessage, OnParticipantsMessage,
                    OnVideoAssignmentMessage, Begin
<1>5. CASE EntriesStep
  <2>1. ASSUME NEW id \in job.deleted, DeleteUnknownEntry(id) \/ DeleteEntryThrows(id)
        PROVE  UNCHANGED entry
    BY <2>1 DEF DeleteUnknownEntry, DeleteEntryThrows
  <2>2. ASSUME NEW id \in job.deleted, DeleteEntry(id) PROVE EntriesGrow
    <3> DEFINE e == idMediaEntryMap[id]
               r == [entry[e] EXCEPT !.participant = 0]
    <3>1. CASE entry' = [entry EXCEPT ![e] = r]
      <4>1. e \in DOMAIN entry => r.id = entry[e].id
        BY <1>2 DEF EntryRecords
      <4> HIDE DEF e, r
      <4> QED
        BY <1>1, <3>1, <4>1
    <3> QED
      BY <1>3, <2>2, <3>1 DEF DeleteEntry
  <2>3. ASSUME NEW r \in job.resources, StoreEntry(r) PROVE EntriesGrow
    <3> DEFINE e == idMediaEntryMap[r.id]
               x == [entry[e] EXCEPT !.audioCsrc = (r.audio # "none")]
               y == [NewEntry(r.id) EXCEPT !.audioCsrc = (r.audio # "none")]
    <3>1. CASE entry' = [entry EXCEPT ![e] = x]
      <4>1. e \in DOMAIN entry => x.id = entry[e].id
        BY <1>2 DEF EntryRecords
      <4> HIDE DEF e, x
      <4> QED
        BY <1>1, <3>1, <4>1
    <3>2. CASE entry' = Append(entry, y)
      <4>1. y.participant = 0
        BY DEF NewEntry
      <4> HIDE DEF y
      <4> QED
        BY <3>2, <4>1, EntriesGrowIf
    <3> QED
      BY <2>3, <3>1, <3>2 DEF StoreEntry
  <2>4. CASE KeepAudio \/ SetRoles \/ FinishEntries
    BY <1>3, <2>4 DEF KeepAudio, SetRoles, FinishEntries
  <2>5. CASE AssignAudio
    <3>1. PICK t : entry' = [entry EXCEPT ![job.entry].audio = t]
      BY <2>5 DEF AssignAudio
    <3> DEFINE e == job.entry
               x == [entry[e] EXCEPT !.audio = t]
    <3>2. entry' = [entry EXCEPT ![e] = x] /\ (e \in DOMAIN entry => x.id = entry[e].id)
      BY <1>2, <3>1 DEF EntryRecords
    <3> HIDE DEF e, x
    <3> QED
      BY <1>1, <3>2
  <2>6. CASE AssignParticipant \/ CreateParticipant
    <3>1. PICK p : entry' = [entry EXCEPT ![job.entry].participant = p]
      BY <2>6 DEF AssignParticipant, CreateParticipant
    <3> DEFINE e == job.entry
               x == [entry[e] EXCEPT !.participant = p]
    <3>2. entry' = [entry EXCEPT ![e] = x] /\ (e \in DOMAIN entry => x.id = entry[e].id)
      BY <1>2, <3>1 DEF EntryRecords
    <3> HIDE DEF e, x
    <3> QED
      BY <1>1, <3>2
  <2> QED
    BY <1>3, <1>5, <2>1, <2>2, <2>3, <2>4, <2>5, <2>6 DEF EntriesStep
<1>6. CASE ParticipantsStep
  <2>1. CASE FinishParticipants \/ \E id \in job.resources : PutParticipant(id)
    BY <1>3, <2>1 DEF FinishParticipants, PutParticipant
  <2>2. ASSUME NEW id \in job.deleted, DeleteParticipant(id) PROVE EntriesGrow
    <3>1. CASE UNCHANGED entry
      BY <1>3, <3>1
    <3>2. CASE ~UNCHANGED entry
      <4>1. /\ DOMAIN entry' = DOMAIN entry
            /\ \A e \in DOMAIN entry : \/ entry'[e] = entry[e]
                                       \/ entry'[e] = [entry[e] EXCEPT !.participant = 0]
        BY <2>2, <3>2 DEF DeleteParticipant
      <4>2. \A e \in DOMAIN entry : entry'[e].id = entry[e].id
        BY <1>2, <4>1 DEF EntryRecords
      <4>3. /\ Len(entry) \in Nat /\ DOMAIN entry = 1..Len(entry)
            /\ Len(entry') \in Nat /\ DOMAIN entry' = 1..Len(entry')
        BY LenProperties DEF Inv, EntryInv
      <4>4. Len(entry') = Len(entry)
        BY <4>1, <4>3, SameLength
      <4> QED
        BY <4>2, <4>3, <4>4 DEF EntriesGrow
    <3> QED
      BY <3>1, <3>2
  <2> QED
    BY <1>6, <2>1, <2>2 DEF ParticipantsStep
<1>7. CASE VideoStep
  <2>1. ASSUME NEW c \in job.resources, UpdateCanvas(c) PROVE EntriesGrow
    <3> DEFINE e == layout[c.canvas]
               x == [entry[e] EXCEPT !.ssrc = c.ssrc]
    <3>1. entry' = [entry EXCEPT ![e] = x] /\ (e \in DOMAIN entry => x.id = entry[e].id)
      BY <1>2, <2>1 DEF UpdateCanvas, EntryRecords
    <3> HIDE DEF e, x
    <3> QED
      BY <1>1, <3>1
  <2>2. CASE AssignVideo
    <3> DEFINE e == job.entry
               x == [entry[e] EXCEPT !.video = 0]
    <3>1. CASE entry' = [entry EXCEPT ![e] = x]
      <4>1. e \in DOMAIN entry => x.id = entry[e].id
        BY <1>2 DEF EntryRecords
      <4> HIDE DEF e, x
      <4> QED
        BY <1>1, <3>1, <4>1
    <3> QED
      BY <1>3, <2>2, <3>1 DEF AssignVideo
  <2>3. CASE FinishAssignment
    BY <1>3, <2>3 DEF FinishAssignment
  <2> QED
    BY <1>7, <2>1, <2>2, <2>3, CanvasGrows DEF VideoStep
<1>8. ASSUME NEW t \in Tracks, NEW e \in 1..Len(entry), OnFrame(t, e) \/ EndLoop(t, e)
      PROVE  EntriesGrow
  <2>1. CASE EndLoop(t, e)
    BY <1>3, <2>1 DEF EndLoop
  <2>2. CASE OnFrame(t, e)
    <3>1. PICK x \in {[entry[e] EXCEPT !.audio = t], [entry[e] EXCEPT !.video = t]} :
            entry' = [entry EXCEPT ![e] = x]
      BY <2>2 DEF OnFrame
    <3>2. e \in DOMAIN entry => x.id = entry[e].id
      BY <1>2, <3>1 DEF EntryRecords
    <3> QED
      BY <1>1, <3>1, <3>2
  <2> QED
    BY <1>8, <2>1, <2>2
<1> QED
  BY <1>4, <1>5, <1>6, <1>7, <1>8 DEF Next

LEMMA NextParticipants ==
  ASSUME Inv, Inv', [Next]_vars
  PROVE  ParticipantsGrow
<1> DEFINE PR == [person : Persons, ids : SUBSET Ids, list : Nat]
<1>1. Len(participant) \in Nat /\ DOMAIN participant = 1..Len(participant)
      /\ participant \in Seq(PR)
      /\ \A p \in 1..Len(participant) : participant[p] \in PR
  BY ParticipantFacts DEF Inv, ParticipantInv
<1>2. Len(participant') \in Nat /\ DOMAIN participant' = 1..Len(participant')
      /\ participant' \in Seq(PR)
  BY LenProperties DEF Inv, ParticipantInv
<1>3. ASSUME UNCHANGED participant PROVE ParticipantsGrow
  BY <1>1, <1>3 DEF ParticipantsGrow
<1>4. ASSUME NEW r, participant' = Append(participant, r) PROVE ParticipantsGrow
  <2>1. /\ Len(participant') = Len(participant) + 1
        /\ \A x \in 1..Len(participant) : participant'[x] = participant[x]
    <3>1. participant \in Seq(PR \cup {r})
      BY <1>1, SeqDef
    <3> QED
      BY <1>4, <3>1, AppendProperties
  <2> QED
    BY <1>1, <2>1 DEF ParticipantsGrow
<1>5. CASE \/ UNCHANGED vars \/ Terminated \/ OnMediaEntriesMessage \/ OnParticipantsMessage
           \/ OnVideoAssignmentMessage
  BY <1>3, <1>5 DEF vars, Terminated, OnMediaEntriesMessage, OnParticipantsMessage,
                    OnVideoAssignmentMessage, Begin, participantVars
<1>6. CASE EntriesStep
  <2>1. CASE CreateParticipant
    BY <1>4, <2>1 DEF CreateParticipant
  <2>2. CASE ~CreateParticipant
    BY <1>3, <1>6, <2>2 DEF EntriesStep, DeleteUnknownEntry, DeleteEntryThrows, DeleteEntry,
       StoreEntry, KeepAudio, AssignAudio, AssignParticipant, SetRoles, FinishEntries,
       participantVars
  <2> QED
    BY <2>1, <2>2
<1>7. CASE ParticipantsStep
  <2>1. CASE FinishParticipants
    BY <1>3, <2>1 DEF FinishParticipants
  <2>2. CASE \E id \in job.resources : PutParticipant(id)
    BY <1>4, <2>2 DEF PutParticipant
  <2>3. ASSUME NEW id \in job.deleted, DeleteParticipant(id) PROVE ParticipantsGrow
    <3> DEFINE p == idParticipantMap[id]
               r == [participant[p] EXCEPT !.ids = @ \ {id}]
    <3>1. CASE participant' = [participant EXCEPT ![p] = r]
      <4>1. p \in DOMAIN participant =>
              r.list = participant[p].list /\ r.person = participant[p].person
        BY <1>1
      <4> HIDE DEF r, p
      <4>2. DOMAIN participant' = DOMAIN participant
        BY <3>1
      <4>3. Len(participant') = Len(participant)
        BY <1>1, <1>2, <4>2, SameLength
      <4>4. \A x \in 1..Len(participant) : participant'[x].list = participant[x].list
                                        /\ participant'[x].person = participant[x].person
        BY <1>1, <3>1, <4>1
      <4> QED
        BY <1>1, <4>3, <4>4 DEF ParticipantsGrow
    <3>2. participant' = [participant EXCEPT ![p] = r] \/ UNCHANGED participant
      BY <2>3 DEF DeleteParticipant
    <3> QED
      BY <1>3, <3>1, <3>2
  <2> QED
    BY <1>7, <2>1, <2>2, <2>3 DEF ParticipantsStep
<1>8. CASE VideoStep
  BY <1>3, <1>8 DEF VideoStep, UpdateCanvas, AssignCanvas, AssignVideo, FinishAssignment,
                    participantVars
<1>9. CASE \E t \in Tracks, e \in 1..Len(entry) : OnFrame(t, e) \/ EndLoop(t, e)
  BY <1>3, <1>9 DEF OnFrame, EndLoop, participantVars
<1> QED
  BY <1>5, <1>6, <1>7, <1>8, <1>9 DEF Next

-----------------------------------------------------------------------------
(***************************************************************************)
(* The tracks, the layouts and the frame loops name objects.               *)
(***************************************************************************)

ObjectOrNone == 0..Len(entry)

TracksInv ==
  /\ layout \in [Layouts -> ObjectOrNone]
  /\ track \in [Tracks -> [entry : ObjectOrNone, ssrc : Ssrcs \cup {0}]]
  /\ IsABag(loops) /\ DOMAIN loops \subseteq Tracks \X (1..Len(entry))

\* The job, the bounds and the spotlight.
ShapeInv ==
  /\ spotlight \in [Roles -> Nat]
  /\ job.channel \in {"none", "entries", "participants", "video"}
  /\ job.channel \in {"none", "video"} => job.array = <<>> /\ job.added = <<>>
  /\ job.entry \in ObjectOrNone
  /\ messages \in 0..MaxMessages
  /\ threw \in BOOLEAN

\* Loops that begin, and one that ends.
LEMMA BagsKept ==
  ASSUME NEW B, IsABag(B), NEW S
  PROVE  /\ IsABag(B (+) SetToBag(S)) /\ DOMAIN (B (+) SetToBag(S)) = DOMAIN B \cup S
         /\ IsABag(B (-) SetToBag(S)) /\ DOMAIN (B (-) SetToBag(S)) \subseteq DOMAIN B
<1> DEFINE Pos == {n \in Nat : n > 0}
           C == SetToBag(S)
<1>1. /\ B \in [DOMAIN B -> Pos]
      /\ DOMAIN C = S /\ \A x \in S : C[x] = 1
  BY DEF IsABag, SetToBag
<1> HIDE DEF C
<1>2. /\ B (+) C \in [DOMAIN B \cup S -> Pos]
      /\ DOMAIN (B (+) C) = DOMAIN B \cup S
  <2> DEFINE sum(x) == (IF x \in DOMAIN B THEN B[x] ELSE 0) + (IF x \in DOMAIN C THEN C[x] ELSE 0)
  <2>1. ASSUME NEW x \in DOMAIN B \cup S PROVE sum(x) \in Pos
    <3>1. CASE x \in DOMAIN B /\ x \in S
      BY <1>1, <3>1
    <3>2. CASE x \in DOMAIN B /\ x \notin S
      BY <1>1, <3>2
    <3>3. CASE x \notin DOMAIN B /\ x \in S
      BY <1>1, <3>3
    <3> QED
      BY <2>1, <3>1, <3>2, <3>3
  <2>2. B (+) C = [x \in DOMAIN B \cup S |-> sum(x)]
    BY <1>1 DEF (+)
  <2> HIDE DEF sum, Pos
  <2> QED
    BY <2>1, <2>2
<1>3. /\ B (-) C \in [DOMAIN (B (-) C) -> Pos]
      /\ DOMAIN (B (-) C) \subseteq DOMAIN B
  <2> DEFINE D == [x \in DOMAIN B |-> IF x \in DOMAIN C THEN B[x] - C[x] ELSE B[x]]
             L == {x \in DOMAIN D : D[x] > 0}
  <2>1. B (-) C = [x \in L |-> D[x]]
    BY DEF (-)
  <2>2. ASSUME NEW x \in L PROVE D[x] \in Pos /\ x \in DOMAIN B
    BY <1>1
  <2> HIDE DEF D, L, Pos
  <2> QED
    BY <2>1, <2>2
<1> QED
  BY <1>2, <1>3 DEF IsABag, C

\* What named an object still does when there are more.
LEMMA TracksGrow ==
  ASSUME Inv, TracksInv, EntriesGrow
  PROVE  /\ UNCHANGED videoVars => TracksInv'
         /\ /\ layout' \in [Layouts -> 0..Len(entry')]
            /\ UNCHANGED <<track, loops>>
            => TracksInv'
         /\ /\ UNCHANGED <<layout, loops>>
            /\ track' \in [Tracks -> [entry : 0..Len(entry'), ssrc : Ssrcs \cup {0}]]
            => TracksInv'
         /\ \A S \in SUBSET (Tracks \X (1..Len(entry'))) :
              /\ UNCHANGED layout
              /\ loops' = loops (+) SetToBag(S) \/ loops' = loops (-) SetToBag(S)
              /\ track' \in [Tracks -> [entry : 0..Len(entry'), ssrc : Ssrcs \cup {0}]]
              => TracksInv'
<1>1. Len(entry) \in Nat /\ Len(entry') \in Nat /\ Len(entry) <= Len(entry')
  BY DEF EntriesGrow
<1>2. 0..Len(entry) \subseteq 0..Len(entry') /\ 1..Len(entry) \subseteq 1..Len(entry')
  BY <1>1
<1>3. layout \in [Layouts -> 0..Len(entry')]
  BY <1>2 DEF TracksInv, ObjectOrNone
<1>4. track \in [Tracks -> [entry : 0..Len(entry'), ssrc : Ssrcs \cup {0}]]
  BY <1>2 DEF TracksInv, ObjectOrNone
<1>5. IsABag(loops) /\ DOMAIN loops \subseteq Tracks \X (1..Len(entry'))
  BY <1>2 DEF TracksInv
<1>6. ASSUME NEW S \in SUBSET (Tracks \X (1..Len(entry'))),
             loops' = loops (+) SetToBag(S) \/ loops' = loops (-) SetToBag(S)
      PROVE  IsABag(loops') /\ DOMAIN loops' \subseteq Tracks \X (1..Len(entry'))
  <2>1. /\ IsABag(loops (+) SetToBag(S)) /\ DOMAIN (loops (+) SetToBag(S)) = DOMAIN loops \cup S
        /\ IsABag(loops (-) SetToBag(S)) /\ DOMAIN (loops (-) SetToBag(S)) \subseteq DOMAIN loops
    BY <1>5, BagsKept
  <2>2. CASE loops' = loops (+) SetToBag(S)
    BY <1>5, <2>1, <2>2
  <2>3. CASE loops' = loops (-) SetToBag(S)
    BY <1>5, <2>1, <2>3
  <2> QED
    BY <1>6, <2>2, <2>3
<1> QED
  BY <1>3, <1>4, <1>5, <1>6 DEF TracksInv, ObjectOrNone, videoVars

-----------------------------------------------------------------------------
(***************************************************************************)
(* The invariant about the lists and the links.                            *)
(***************************************************************************)

\* The sequence s has each member of T once, and nothing else of the objects U.
Holds(s, T, U) ==
  /\ s \in Seq(U)
  /\ \A x \in U : IF x \in T THEN Once(s, x) ELSE Absent(s, x)

\* ... and so have the sequences s and t together.
Splits(s, t, T, U) ==
  \A x \in U : IF x \in T
              THEN \/ Once(s, x) /\ Absent(t, x)
                   \/ Absent(s, x) /\ Once(t, x)
              ELSE Absent(s, x) /\ Absent(t, x)

\* The delegate is what the map holds, except while the handler that will
\* replace it has an array and additions that are.
EntriesShown ==
  /\ mediaEntries \in Seq(EntryObjects)
  /\ job.channel = "entries" =>
       /\ job.array \in Seq(EntryObjects) /\ job.added \in Seq(EntryObjects)
       /\ job.deleted # {} => job.added = <<>>
       /\ ~threw => Splits(job.array, job.added, internalMediaEntryMap, EntryObjects)
  /\ job.channel # "entries" /\ ~threw =>
       Holds(mediaEntries, internalMediaEntryMap, EntryObjects)

\* A replaced participant may be among the additions with the one that replaced
\* it: only of the present ones is it said how often they are there.
ParticipantsShown ==
  /\ participants \in Seq(ParticipantObjects)
  /\ job.channel = "participants" =>
       /\ job.array \in Seq(ParticipantObjects) /\ job.added \in Seq(ParticipantObjects)
       /\ job.deleted # {} => job.added = <<>>
       /\ Splits(job.array, job.added, internalParticipantMap, internalParticipantMap)
  /\ job.channel # "participants" =>
       \A x \in internalParticipantMap : Once(participants, x)

\* The list of a participant object.
List(p) == lists[participant[p].list]

LinkTypes ==
  /\ lists \in Seq(Seq(Nat))
  /\ \A p \in ParticipantObjects : participant[p].list \in 1..Len(lists)
  /\ \A e \in EntryObjects : entry[e].participant \in 0..Len(participant)

\* A media entry is in the list of the participant that it names.
EntriesLinked ==
  \A e \in internalMediaEntryMap :
    entry[e].participant # 0 => ~Absent(List(entry[e].participant), e)

\* What is in the list of a present participant is a present media entry of its
\* person, which names an object with that list.
Belongs(p, e) ==
  /\ e \in internalMediaEntryMap
  /\ entry[e].participant # 0
  /\ participant[entry[e].participant].list = participant[p].list
  /\ Person(entry[e].id) = participant[p].person

ListsPresent ==
  \A p \in internalParticipantMap : \A i \in 1..Len(List(p)) : Belongs(p, List(p)[i])

\* No two present participants have one list.
ListsDistinct ==
  \A p, q \in internalParticipantMap :
    participant[p].list = participant[q].list => p = q

\* The object that a handler fills is that of its resource.
JobOfResource ==
  job.stage \in {"audio", "participant", "roles"} =>
    entry[job.entry].id = job.resource.id

LinkInv == LinkTypes /\ EntriesLinked /\ ListsPresent /\ ListsDistinct /\ JobOfResource

LEMMA InitTracks == Init => TracksInv /\ ShapeInv
<1> SUFFICES ASSUME Init PROVE TracksInv /\ ShapeInv
  OBVIOUS
<1>1. /\ entry = <<>> /\ layout = [l \in Layouts |-> 0]
      /\ track = [t \in Tracks |-> [entry |-> 0, ssrc |-> 0]]
      /\ spotlight = [r \in Roles |-> 0]
      /\ job.channel = "none" /\ job.array = <<>> /\ job.added = <<>>
      /\ job.entry = 0 /\ messages = 0 /\ threw = FALSE
      /\ loops = EmptyBag
  BY DEF Init, Idle
<1>2. Len(entry) = 0 /\ MaxMessages \in Nat
  BY <1>1, EmptySeq, NumbersAssumption
<1>3. IsABag(loops) /\ DOMAIN loops = {}
  BY <1>1 DEF EmptyBag, SetToBag, IsABag
<1>4. 0 \in 0..Len(entry) /\ 0 \in 0..MaxMessages
  BY <1>2
<1>5. layout \in [Layouts -> 0..Len(entry)] /\ spotlight \in [Roles -> Nat]
  BY <1>1, <1>4
<1>6. track \in [Tracks -> [entry : 0..Len(entry), ssrc : Ssrcs \cup {0}]]
  BY <1>1, <1>4
<1> QED
  BY <1>1, <1>3, <1>4, <1>5, <1>6 DEF TracksInv, ShapeInv, ObjectOrNone

LEMMA UnlinkTracks ==
  ASSUME TracksInv, Len(entry) \in Nat, NEW e, Unlink(e)
  PROVE  /\ layout' \in [Layouts -> ObjectOrNone]
         /\ track' \in [Tracks -> [entry : ObjectOrNone, ssrc : Ssrcs \cup {0}]]
         /\ UNCHANGED loops
<1>1. 0 \in ObjectOrNone
  BY DEF ObjectOrNone
<1> HIDE DEF ObjectOrNone
<1>2. layout' \in [Layouts -> ObjectOrNone]
  BY <1>1 DEF TracksInv, Unlink
<1>3. track' \in [Tracks -> [entry : ObjectOrNone, ssrc : Ssrcs \cup {0}]]
  <2>1. ASSUME NEW t \in Tracks
        PROVE  [track[t] EXCEPT !.entry = 0] \in [entry : ObjectOrNone, ssrc : Ssrcs \cup {0}]
    BY <1>1 DEF TracksInv
  <2> QED
    BY <2>1 DEF TracksInv, Unlink
<1> QED
  BY <1>2, <1>3 DEF Unlink

LEMMA NextShape ==
  ASSUME Inv, Inv', ShapeInv, [Next]_vars
  PROVE  ShapeInv'
<1>1. /\ Len(entry) \in Nat /\ Len(entry') \in Nat /\ Len(entry) <= Len(entry')
      /\ \A e \in ObjectOrNone : e \in 0..Len(entry')
      /\ internalMediaEntryMap' \subseteq 0..Len(entry')
  BY NextEntries, EntryFacts DEF EntriesGrow, Inv, EntryInv, ObjectOrNone
<1>2. /\ messages \in 0..MaxMessages /\ MaxMessages \in Nat
      /\ messages < MaxMessages => messages + 1 \in 0..MaxMessages
  BY NumbersAssumption DEF ShapeInv
<1>3. Inv /\ ShapeInv /\ 0 \in 0..Len(entry')
  BY <1>1
<1> HIDE DEF ObjectOrNone
<1>4. ASSUME UNCHANGED <<spotlight, boundVars>>,
             \/ job' = job
             \/ job' = Idle
             \/ /\ job'.channel = job.channel /\ job.channel \notin {"none", "video"}
                /\ job'.entry \in 0..Len(entry')
             \/ /\ job'.channel = job.channel /\ job'.array = job.array /\ job'.added = job.added
                /\ job'.entry \in 0..Len(entry')
      PROVE  ShapeInv'
  <2>1. /\ spotlight' \in [Roles -> Nat] /\ messages' \in 0..MaxMessages /\ threw' \in BOOLEAN
        /\ job.entry \in 0..Len(entry')
    BY <1>1, <1>4 DEF ShapeInv, boundVars
  <2>2. CASE job' = Idle
    BY <1>3, <2>1, <2>2 DEF ShapeInv, Idle, ObjectOrNone
  <2> QED
    BY <1>4, <2>1, <2>2 DEF ShapeInv, ObjectOrNone
<1>5. CASE UNCHANGED vars \/ Terminated
  BY <1>4, <1>5 DEF vars, Terminated, boundVars
<1>6. CASE OnMediaEntriesMessage \/ OnParticipantsMessage \/ OnVideoAssignmentMessage
  <2>1. /\ job'.channel \in {"entries", "participants", "video"}
        /\ job'.channel = "video" => job'.array = <<>>
        /\ job'.added = <<>> /\ job'.entry = 0
        /\ messages' = messages + 1 /\ messages < MaxMessages
        /\ UNCHANGED <<spotlight, threw>>
    BY <1>6 DEF OnMediaEntriesMessage, OnParticipantsMessage, OnVideoAssignmentMessage, Begin,
                Waiting, Idle
  <2> QED
    BY <1>1, <1>2, <1>3, <2>1 DEF ShapeInv, ObjectOrNone
<1>7. CASE EntriesStep
  <2>1. ASSUME NEW id \in job.deleted, DeleteUnknownEntry(id) PROVE ShapeInv'
    <3>1. /\ job'.channel = job.channel /\ job'.array = job.array /\ job'.added = job.added
          /\ job'.entry = job.entry
          /\ UNCHANGED <<spotlight, boundVars>>
      BY <1>3, <2>1 DEF DeleteUnknownEntry, Inv, JobInv
    <3> QED
      BY <1>1, <1>4, <3>1 DEF ShapeInv
  <2>2. ASSUME NEW id \in job.deleted, DeleteEntryThrows(id) PROVE ShapeInv'
    <3>1. job' = Idle /\ threw' = TRUE /\ UNCHANGED <<spotlight, messages>>
      BY <2>2 DEF DeleteEntryThrows
    <3> QED
      BY <1>3, <3>1 DEF ShapeInv, Idle, ObjectOrNone
  <2>3. ASSUME NEW id \in job.deleted, DeleteEntry(id) PROVE ShapeInv'
    <3>1. /\ job.channel = "entries" /\ job'.channel = job.channel /\ job'.entry = job.entry
          /\ UNCHANGED boundVars
      BY <1>3, <2>3 DEF DeleteEntry, Deletes, Inv, JobInv
    <3>2. spotlight' \in [Roles -> Nat]
      BY <1>3, <2>3 DEF DeleteEntry, Dim, ShapeInv
    <3> QED
      BY <1>1, <1>3, <3>1, <3>2 DEF ShapeInv, boundVars, ObjectOrNone
  <2>4. ASSUME NEW r \in job.resources, StoreEntry(r) PROVE ShapeInv'
    <3>1. /\ job.channel = "entries" /\ job'.channel = job.channel
          /\ UNCHANGED <<spotlight, boundVars>>
      BY <1>3, <2>4 DEF StoreEntry, Inv, JobInv
    <3>2. job'.stage = "audio" /\ job'.entry \in internalMediaEntryMap'
      BY <1>3, <2>4 DEF StoreEntry, Inv, JobInv
    <3> QED
      BY <1>1, <1>4, <3>1, <3>2
  <2>5. CASE KeepAudio \/ AssignAudio \/ AssignParticipant \/ CreateParticipant
    <3>1. /\ job'.channel = job.channel /\ job'.array = job.array /\ job'.added = job.added
          /\ job'.entry = job.entry
          /\ UNCHANGED <<spotlight, boundVars>>
      BY <1>3, <2>5 DEF KeepAudio, AssignAudio, AssignParticipant, CreateParticipant, Inv, JobInv
    <3> QED
      BY <1>1, <1>4, <3>1 DEF ShapeInv
  <2>6. CASE SetRoles
    <3>1. /\ job'.channel = job.channel /\ job'.array = job.array /\ job'.added = job.added
          /\ job'.entry = 0 /\ UNCHANGED boundVars
      BY <1>3, <2>6 DEF SetRoles, Inv, JobInv
    <3>2. job.entry \in Nat
      BY <1>1 DEF ShapeInv, ObjectOrNone
    <3>3. spotlight' \in [Roles -> Nat]
      BY <1>3, <2>6, <3>2 DEF SetRoles, ShapeInv
    <3> QED
      BY <1>1, <1>3, <3>1, <3>3 DEF ShapeInv, boundVars, ObjectOrNone
  <2>7. CASE FinishEntries
    BY <1>4, <2>7 DEF FinishEntries, Ends
  <2> QED
    BY <1>7, <2>1, <2>2, <2>3, <2>4, <2>5, <2>6, <2>7 DEF EntriesStep
<1>8. CASE ParticipantsStep
  <2>1. ASSUME NEW id \in job.deleted, DeleteParticipant(id) PROVE ShapeInv'
    <3>1. /\ job.channel = "participants" /\ job'.channel = job.channel
          /\ job'.entry = job.entry
          /\ UNCHANGED <<spotlight, boundVars>>
      BY <1>3, <2>1 DEF DeleteParticipant, Deletes, Inv, JobInv
    <3> QED
      BY <1>1, <1>4, <3>1 DEF ShapeInv
  <2>2. ASSUME NEW id \in job.resources, PutParticipant(id) PROVE ShapeInv'
    <3>1. /\ job.channel = "participants" /\ job'.channel = job.channel
          /\ job'.entry = job.entry
          /\ UNCHANGED <<spotlight, boundVars>>
      BY <1>3, <2>2 DEF PutParticipant, Inv, JobInv
    <3> QED
      BY <1>1, <1>4, <3>1 DEF ShapeInv
  <2>3. CASE FinishParticipants
    BY <1>4, <2>3 DEF FinishParticipants, Ends
  <2> QED
    BY <1>8, <2>1, <2>2, <2>3 DEF ParticipantsStep
<1>9. CASE VideoStep
  <2>1. ASSUME NEW c \in job.resources, UpdateCanvas(c) \/ AssignCanvas(c) PROVE ShapeInv'
    <3>1. /\ job'.channel = job.channel /\ job'.array = job.array /\ job'.added = job.added
          /\ job'.stage = "track"
          /\ UNCHANGED <<spotlight, boundVars>>
      BY <1>3, <2>1 DEF UpdateCanvas, AssignCanvas, Inv, JobInv
    <3>2. job'.entry \in internalMediaEntryMap'
      BY <3>1 DEF Inv, JobInv
    <3> QED
      BY <1>1, <1>4, <3>1, <3>2
  <2>2. CASE AssignVideo
    <3>1. /\ job'.channel = job.channel /\ job'.array = job.array /\ job'.added = job.added
          /\ job'.entry = 0
          /\ UNCHANGED <<spotlight, boundVars>>
      BY <1>3, <2>2 DEF AssignVideo, Inv, JobInv
    <3> QED
      BY <1>3, <1>4, <3>1
  <2>3. CASE FinishAssignment
    BY <1>4, <2>3 DEF FinishAssignment, Ends
  <2> QED
    BY <1>9, <2>1, <2>2, <2>3 DEF VideoStep
<1>10. CASE \E t \in Tracks, e \in 1..Len(entry) : OnFrame(t, e) \/ EndLoop(t, e)
  BY <1>4, <1>10 DEF OnFrame, EndLoop
<1> QED
  BY <1>5, <1>6, <1>7, <1>8, <1>9, <1>10 DEF Next

LEMMA NextTracks ==
  ASSUME Inv, Inv', TracksInv, ShapeInv, [Next]_vars
  PROVE  TracksInv'
<1> DEFINE TR == [entry : 0..Len(entry'), ssrc : Ssrcs \cup {0}]
<1>1. /\ Len(entry) \in Nat /\ Len(entry') \in Nat /\ Len(entry) <= Len(entry')
      /\ EntriesGrow
  BY NextEntries, EntryFacts DEF EntriesGrow, Inv, EntryInv
<1>2. /\ 0..Len(entry) \subseteq 0..Len(entry') /\ 1..Len(entry) \subseteq 1..Len(entry')
      /\ 0 \in 0..Len(entry')
  BY <1>1
<1>3. UNCHANGED videoVars => TracksInv'
  BY <1>1, TracksGrow
<1>4. layout' \in [Layouts -> 0..Len(entry')] /\ UNCHANGED <<track, loops>> => TracksInv'
  BY <1>1, TracksGrow
<1>5. track \in [Tracks -> TR] /\ layout \in [Layouts -> 0..Len(entry')]
  BY <1>2 DEF TracksInv, ObjectOrNone
<1>6. ASSUME NEW S \in SUBSET (Tracks \X (1..Len(entry'))), UNCHANGED layout,
             loops' = loops (+) SetToBag(S) \/ loops' = loops (-) SetToBag(S),
             track' \in [Tracks -> TR]
      PROVE  TracksInv'
  BY <1>1, <1>6, TracksGrow
<1>7. UNCHANGED <<layout, loops>> /\ track' \in [Tracks -> TR] => TracksInv'
  BY <1>1, TracksGrow
<1>8. CASE \/ UNCHANGED vars \/ Terminated \/ OnMediaEntriesMessage \/ OnParticipantsMessage
           \/ OnVideoAssignmentMessage
  BY <1>3, <1>8 DEF vars, Terminated, OnMediaEntriesMessage, OnParticipantsMessage,
                    OnVideoAssignmentMessage, Begin
<1>9. CASE EntriesStep
  <2>1. ASSUME NEW id \in job.deleted, DeleteEntryThrows(id) \/ DeleteEntry(id) PROVE TracksInv'
    <3>1. Unlink(idMediaEntryMap[id])
      BY <2>1 DEF DeleteEntryThrows, DeleteEntry
    <3>2. /\ layout' \in [Layouts -> ObjectOrNone]
          /\ track' \in [Tracks -> [entry : ObjectOrNone, ssrc : Ssrcs \cup {0}]]
          /\ UNCHANGED loops
      BY <1>1, <3>1, UnlinkTracks
    <3>3. layout' \in [Layouts -> 0..Len(entry')] /\ track' \in [Tracks -> TR]
      BY <1>2, <3>2 DEF ObjectOrNone
    <3>4. IsABag(loops') /\ DOMAIN loops' \subseteq Tracks \X (1..Len(entry'))
      BY <1>2, <3>2 DEF TracksInv
    <3> QED
      BY <3>3, <3>4 DEF TracksInv, ObjectOrNone
  <2>2. CASE AssignAudio
    <3>1. PICK t \in 1..(AudioTracks + 1) :
            /\ IF t = AudioTracks + 1
               THEN UNCHANGED track
               ELSE track' = [track EXCEPT ![t].entry = job.entry]
            /\ loops' = Await(1..(t - 1), job.entry)
            /\ UNCHANGED layout
      BY <2>2 DEF AssignAudio
    <3> DEFINE S == (1..(t - 1)) \X {job.entry}
    <3>2. AudioTracks \in Nat /\ VideoTracks \in Nat
      BY NumbersAssumption
    <3>3. job.entry \in 1..Len(entry')
      BY <1>2, <2>2, Midst DEF AssignAudio
    <3>4. 1..(t - 1) \subseteq Tracks
      BY <3>1, <3>2 DEF Tracks
    <3>5. S \in SUBSET (Tracks \X (1..Len(entry')))
      BY <3>3, <3>4
    <3>6. loops' = loops (+) SetToBag(S)
      BY <3>1 DEF Await
    <3>7. track' \in [Tracks -> TR]
      <4>1. CASE track' = [track EXCEPT ![t].entry = job.entry]
        <5>1. job.entry \in 0..Len(entry')
          BY <3>3
        <5>2. \A u \in Tracks : [track[u] EXCEPT !.entry = job.entry] \in TR
          BY <1>5, <5>1
        <5> HIDE DEF TR
        <5> QED
          BY <1>5, <4>1, <5>2
      <4> QED
        BY <1>5, <3>1, <4>1
    <3> HIDE DEF S
    <3> QED
      BY <1>6, <3>1, <3>5, <3>6, <3>7
  <2> QED
    BY <1>3, <1>9, <2>1, <2>2 DEF EntriesStep, DeleteUnknownEntry, StoreEntry, KeepAudio,
       AssignParticipant, CreateParticipant, SetRoles, FinishEntries
<1>10. CASE ParticipantsStep
  BY <1>3, <1>10 DEF ParticipantsStep, DeleteParticipant, PutParticipant, FinishParticipants
<1>11. CASE VideoStep
  <2>1. ASSUME NEW c \in job.resources, AssignCanvas(c) PROVE TracksInv'
    <3>1. c.canvas \in Layouts /\ UNCHANGED <<track, loops>>
      BY <2>1 DEF Inv, JobInv, AssignCanvas, Canvases
    <3>2. job'.entry \in 1..Len(entry') /\ layout' = [layout EXCEPT ![c.canvas] = job'.entry]
      <4>1. job'.stage = "track" /\ layout' = [layout EXCEPT ![c.canvas] = job'.entry]
        BY <2>1 DEF AssignCanvas, Inv, JobInv
      <4> QED
        BY <4>1 DEF Inv, JobInv, EntryInv
    <3>3. layout' \in [Layouts -> 0..Len(entry')]
      BY <1>5, <3>1, <3>2
    <3> QED
      BY <1>4, <3>1, <3>3
  <2>2. CASE AssignVideo
    <3> DEFINE e == job.entry
               t == entry[e].video
               S == {u \in Tracks : ~AudioTrack(u)} \X {e}
    <3>1. CASE UNCHANGED <<entry, track, loops>>
      BY <1>3, <2>2, <3>1 DEF AssignVideo, videoVars
    <3>2. CASE ~UNCHANGED <<entry, track, loops>>
      <4>1. /\ track' = [u \in Tracks |->
                           IF u = t THEN [track[u] EXCEPT !.entry = 0] ELSE track[u]]
            /\ loops' = loops \/ loops' = loops (+) SetToBag(S)
            /\ UNCHANGED layout
        BY <2>2, <3>2 DEF AssignVideo, Await
      <4>2. e \in 1..Len(entry')
        BY <1>2, <2>2, Midst DEF AssignVideo
      <4>3. S \in SUBSET (Tracks \X (1..Len(entry')))
        BY <4>2
      <4>4. \A u \in Tracks : [track[u] EXCEPT !.entry = 0] \in TR
        BY <1>2, <1>5
      <4> HIDE DEF TR, S, t
      <4>5. track' \in [Tracks -> TR]
        BY <1>5, <4>1, <4>4
      <4> QED
        BY <1>6, <1>7, <4>1, <4>3, <4>5
    <3> QED
      BY <3>1, <3>2
  <2> QED
    BY <1>3, <1>11, <2>1, <2>2 DEF VideoStep, UpdateCanvas, FinishAssignment
<1>12. ASSUME NEW t \in Tracks, NEW e \in 1..Len(entry), OnFrame(t, e) \/ EndLoop(t, e)
       PROVE  TracksInv'
  <2> DEFINE S == {<<t, e>>}
  <2>1. S \in SUBSET (Tracks \X (1..Len(entry')))
    BY <1>2
  <2>2. loops' = loops (-) SetToBag(S) /\ UNCHANGED layout
    BY <1>12 DEF OnFrame, EndLoop
  <2>3. track' \in [Tracks -> TR]
    <3>1. CASE EndLoop(t, e)
      BY <1>5, <3>1 DEF EndLoop
    <3>2. CASE OnFrame(t, e)
      <4>1. e \in 0..Len(entry') /\ entry[e].ssrc \in Ssrcs \cup {0}
        BY <1>2, EntryFacts DEF Inv, EntryRecords
      <4>2. \A u \in Tracks : /\ [track[u] EXCEPT !.entry = e] \in TR
                             /\ [entry |-> e, ssrc |-> entry[e].ssrc] \in TR
        BY <1>5, <4>1
      <4>3. \/ track' = [track EXCEPT ![t] = [entry |-> e, ssrc |-> entry[e].ssrc]]
            \/ track' = [track EXCEPT ![t].entry = e]
        BY <3>2 DEF OnFrame
      <4> HIDE DEF TR
      <4> QED
        BY <1>5, <4>2, <4>3
    <3> QED
      BY <1>12, <3>1, <3>2
  <2> HIDE DEF S
  <2> QED
    BY <1>6, <2>1, <2>2, <2>3
<1> QED
  BY <1>8, <1>9, <1>10, <1>11, <1>12 DEF Next

-----------------------------------------------------------------------------
(***************************************************************************)
(* The delegates hold what the maps hold.                                  *)
(***************************************************************************)

\* More objects, none of which the sequences have yet.
LEMMA MoreObjects ==
  ASSUME NEW m \in Nat, NEW n \in Nat, m <= n, NEW T, T \subseteq 1..m
  PROVE  /\ \A s \in Seq(1..m) : s \in Seq(1..n) /\ \A x : x \notin 1..m => Absent(s, x)
         /\ \A s : Holds(s, T, 1..m) => Holds(s, T, 1..n)
         /\ \A s, t \in Seq(1..m) : Splits(s, t, T, 1..m) => Splits(s, t, T, 1..n)
<1>1. 1..m \subseteq 1..n
  OBVIOUS
<1>2. ASSUME NEW s \in Seq(1..m)
      PROVE  s \in Seq(1..n) /\ \A x : x \notin 1..m => Absent(s, x)
  <2>1. Len(s) \in Nat /\ s \in [1..Len(s) -> 1..m]
    BY LenProperties
  <2>2. s \in [1..Len(s) -> 1..n]
    BY <1>1, <2>1
  <2>3. s \in Seq(1..n)
    BY <2>1, <2>2, Places
  <2>4. \A x : x \notin 1..m => Absent(s, x)
    BY <2>1 DEF Absent
  <2> QED
    BY <2>3, <2>4
<1>3. ASSUME NEW s, Holds(s, T, 1..m) PROVE Holds(s, T, 1..n)
  <2>1. s \in Seq(1..m)
    BY <1>3 DEF Holds
  <2>2. s \in Seq(1..n) /\ \A x : x \notin 1..m => Absent(s, x)
    BY <1>2, <2>1
  <2>3. ASSUME NEW x \in 1..n PROVE IF x \in T THEN Once(s, x) ELSE Absent(s, x)
    <3>1. CASE x \in 1..m
      BY <1>3, <3>1 DEF Holds
    <3>2. CASE x \notin 1..m
      BY <2>2, <3>2
    <3> QED
      BY <3>1, <3>2
  <2> QED
    BY <2>2, <2>3 DEF Holds
<1>4. ASSUME NEW s \in Seq(1..m), NEW t \in Seq(1..m), Splits(s, t, T, 1..m)
      PROVE  Splits(s, t, T, 1..n)
  <2>1. \A x : x \notin 1..m => Absent(s, x) /\ Absent(t, x)
    BY <1>2
  <2>2. ASSUME NEW x \in 1..n
        PROVE  IF x \in T
               THEN \/ Once(s, x) /\ Absent(t, x)
                    \/ Absent(s, x) /\ Once(t, x)
               ELSE Absent(s, x) /\ Absent(t, x)
    <3>1. CASE x \in 1..m
      BY <1>4, <3>1 DEF Splits
    <3>2. CASE x \notin 1..m
      BY <2>1, <3>2
    <3> QED
      BY <3>1, <3>2
  <2> QED
    BY <2>2 DEF Splits
<1> QED
  BY <1>2, <1>3, <1>4

\* A new object at the end of the one sequence, or of the second of two.
LEMMA NewObject ==
  ASSUME NEW n \in Nat, NEW T, T \subseteq 1..n, NEW y, y = n + 1
  PROVE  /\ \A s : Holds(s, T, 1..n) => Holds(Append(s, y), T \cup {y}, 1..y)
         /\ \A s, t \in Seq(1..n) : Splits(s, t, T, 1..n) =>
              Splits(s, Append(t, y), T \cup {y}, 1..y) /\ Append(t, y) \in Seq(1..y)
<1>1. /\ y \in Nat /\ n <= y /\ y \in 1..y /\ y \notin 1..n /\ y \notin T
  OBVIOUS
<1>2. ASSUME NEW s, Holds(s, T, 1..n) PROVE Holds(Append(s, y), T \cup {y}, 1..y)
  <2>1. s \in Seq(1..n)
    BY <1>2 DEF Holds
  <2>2. /\ s \in Seq(1..y) /\ Absent(s, y)
        /\ Holds(s, T, 1..y)
    BY <1>1, <1>2, <2>1, MoreObjects
  <2>3. /\ Append(s, y) \in Seq(1..y)
        /\ \A x : x # y /\ Once(s, x) => Once(Append(s, y), x)
        /\ \A x : x # y /\ Absent(s, x) => Absent(Append(s, y), x)
        /\ Once(Append(s, y), y)
    BY <1>1, <2>2, CountAppend
  <2> QED
    BY <2>2, <2>3 DEF Holds
<1>3. ASSUME NEW s \in Seq(1..n), NEW t \in Seq(1..n), Splits(s, t, T, 1..n)
      PROVE  Splits(s, Append(t, y), T \cup {y}, 1..y) /\ Append(t, y) \in Seq(1..y)
  <2>1. /\ t \in Seq(1..y) /\ Absent(t, y) /\ Absent(s, y)
        /\ Splits(s, t, T, 1..y)
    BY <1>1, <1>3, MoreObjects
  <2>2. /\ Append(t, y) \in Seq(1..y)
        /\ \A x : x # y /\ Once(t, x) => Once(Append(t, y), x)
        /\ \A x : x # y /\ Absent(t, x) => Absent(Append(t, y), x)
        /\ Once(Append(t, y), y)
    BY <1>1, <2>1, CountAppend
  <2> QED
    BY <2>1, <2>2 DEF Splits
<1> QED
  BY <1>2, <1>3

\* Nothing is in the empty sequence.
LEMMA NothingThere == \A U, x : <<>> \in Seq(U) /\ Absent(<<>>, x)
<1>1. Len(<<>>) = 0
  BY EmptySeq
<1>2. \A U : <<>> \in Seq(U)
  BY EmptySeq
<1> QED
  BY <1>1, <1>2 DEF Absent

\* An object leaves.
LEMMA ObjectGone ==
  ASSUME NEW U, NEW s \in Seq(U), NEW T, NEW y, Splits(s, <<>>, T, U)
  PROVE  Without(s, y) \in Seq(U) /\ Splits(Without(s, y), <<>>, T \ {y}, U)
<1>1. /\ Without(s, y) \in Seq(U)
      /\ Absent(Without(s, y), y)
      /\ \A z : z # y /\ Once(s, z) => Once(Without(s, y), z)
      /\ \A z : Absent(s, z) => Absent(Without(s, y), z)
  BY WithoutProperties
<1>2. \A x : Absent(<<>>, x)
  BY NothingThere
<1>3. ASSUME NEW x PROVE ~(Once(<<>>, x) /\ Absent(<<>>, x))
  BY DEF Once, Absent
<1> QED
  BY <1>1, <1>2, <1>3 DEF Splits

\* The two make one.
LEMMA SplitsJoin ==
  ASSUME NEW U, NEW s \in Seq(U), NEW t \in Seq(U), NEW T, Splits(s, t, T, U)
  PROVE  Holds(s \o t, T, U)
<1>1. /\ s \o t \in Seq(U)
      /\ \A x : Once(s, x) /\ Absent(t, x) => Once(s \o t, x)
      /\ \A x : Absent(s, x) /\ Once(t, x) => Once(s \o t, x)
      /\ \A x : Absent(s, x) /\ Absent(t, x) => Absent(s \o t, x)
  BY CountConcat
<1> QED
  BY <1>1 DEF Holds, Splits

LEMMA HoldsSplits ==
  ASSUME NEW U, NEW s, NEW T, Holds(s, T, U)
  PROVE  Splits(s, <<>>, T, U)
BY NothingThere DEF Holds, Splits

\* A step that leaves the map and the lists of media entries alone.
LEMMA SameShown ==
  ASSUME EntryInv, EntriesShown, EntriesGrow,
         UNCHANGED <<mediaEntries, internalMediaEntryMap, threw>>,
         \/ /\ job'.channel = job.channel /\ job'.array = job.array /\ job'.added = job.added
            /\ job'.deleted \subseteq job.deleted
         \/ job.channel # "entries" /\ job'.channel # "entries"
  PROVE  EntriesShown'
<1> DEFINE m == Len(entry)
           n == Len(entry')
           T == internalMediaEntryMap
<1>1. m \in Nat /\ n \in Nat /\ m <= n /\ T \subseteq 1..m
  BY DEF EntriesGrow, EntryInv
<1>2. /\ \A s \in Seq(1..m) : s \in Seq(1..n)
      /\ \A s : Holds(s, T, 1..m) => Holds(s, T, 1..n)
      /\ \A s, t \in Seq(1..m) : Splits(s, t, T, 1..m) => Splits(s, t, T, 1..n)
  BY <1>1, MoreObjects
<1>3. EntryObjects = 1..m /\ EntryObjects' = 1..n
  BY DEF EntryObjects
<1> HIDE DEF m, n
<1>4. mediaEntries' \in Seq(1..n)
  BY <1>2, <1>3 DEF EntriesShown
<1>5. CASE job'.channel # "entries"
  BY <1>2, <1>3, <1>4, <1>5 DEF EntriesShown
<1>6. CASE job'.channel = "entries"
  <2>1. /\ job.channel = "entries" /\ job'.array = job.array /\ job'.added = job.added
        /\ job'.deleted \subseteq job.deleted
    BY <1>6
  <2>2. /\ job'.array \in Seq(1..n) /\ job'.added \in Seq(1..n)
        /\ job'.deleted # {} => job'.added = <<>>
    BY <1>2, <1>3, <2>1 DEF EntriesShown
  <2>3. ~threw => Splits(job'.array, job'.added, T, 1..n)
    BY <1>2, <1>3, <2>1 DEF EntriesShown
  <2> QED
    BY <1>3, <1>4, <1>6, <2>2, <2>3 DEF EntriesShown
<1> QED
  BY <1>5, <1>6

LEMMA NextEntriesShown ==
  ASSUME Inv, Inv', EntriesShown, [Next]_vars
  PROVE  EntriesShown'
<1> DEFINE m == Len(entry)
           n == Len(entry')
           T == internalMediaEntryMap
<1>1. /\ m \in Nat /\ n \in Nat /\ m <= n /\ T \subseteq 1..m /\ T' \subseteq 1..n
      /\ EntriesGrow /\ EntryInv
      /\ EntryObjects = 1..m /\ EntryObjects' = 1..n
  BY NextEntries DEF EntriesGrow, Inv, EntryInv, EntryObjects
<1>2. \A s \in Seq(1..m) : s \in Seq(1..n)
  BY <1>1, MoreObjects
<1>3. ASSUME UNCHANGED <<mediaEntries, internalMediaEntryMap, threw>>,
             \/ /\ job'.channel = job.channel /\ job'.array = job.array /\ job'.added = job.added
                /\ job'.deleted \subseteq job.deleted
             \/ job.channel # "entries" /\ job'.channel # "entries"
      PROVE  EntriesShown'
  BY <1>1, <1>3, SameShown
<1> HIDE DEF m, n
<1>4. CASE UNCHANGED vars \/ Terminated
  BY <1>3, <1>4 DEF vars, Terminated, entryMapVars, boundVars
<1>5. CASE OnParticipantsMessage \/ OnVideoAssignmentMessage
  <2>1. /\ job.channel # "entries" /\ job'.channel # "entries"
        /\ UNCHANGED <<mediaEntries, internalMediaEntryMap, threw>>
    <3>1. CASE OnParticipantsMessage
      BY <3>1 DEF OnParticipantsMessage, Begin, Waiting, Idle, entryMapVars
    <3>2. CASE OnVideoAssignmentMessage
      <4>1. PICK r : Begin("video", {}, r, <<>>)
        BY <3>2 DEF OnVideoAssignmentMessage
      <4>2. job = Idle
        BY <3>2 DEF OnVideoAssignmentMessage, Waiting
      <4> QED
        BY <4>1, <4>2 DEF Begin, Idle, entryMapVars
    <3> QED
      BY <1>5, <3>1, <3>2
  <2> QED
    BY <1>3, <2>1
<1>6. CASE OnMediaEntriesMessage
  <2>1. /\ job.channel # "entries" /\ job'.channel = "entries"
        /\ job'.array = mediaEntries /\ job'.added = <<>>
        /\ UNCHANGED <<entry, mediaEntries, internalMediaEntryMap, threw>>
    BY <1>6 DEF OnMediaEntriesMessage, Begin, Waiting, Idle, entryMapVars
  <2>2. ~threw => Splits(mediaEntries, <<>>, T, EntryObjects)
    BY <2>1, HoldsSplits DEF EntriesShown
  <2>3. <<>> \in Seq(EntryObjects)
    BY NothingThere
  <2>4. UNCHANGED EntryObjects
    BY <2>1 DEF EntryObjects
  <2> QED
    BY <2>1, <2>2, <2>3, <2>4 DEF EntriesShown
<1>7. CASE EntriesStep
  <2>1. ASSUME NEW id \in job.deleted, DeleteUnknownEntry(id) PROVE EntriesShown'
    <3>1. /\ job'.channel = job.channel /\ job'.array = job.array /\ job'.added = job.added
          /\ job'.deleted \subseteq job.deleted
          /\ UNCHANGED <<mediaEntries, internalMediaEntryMap, threw>>
      BY <2>1 DEF DeleteUnknownEntry, Inv, JobInv, entryMapVars, boundVars
    <3> QED
      BY <1>3, <3>1
  <2>2. ASSUME NEW id \in job.deleted, DeleteEntryThrows(id) PROVE EntriesShown'
    <3>1. job' = Idle /\ threw' = TRUE /\ UNCHANGED mediaEntries
      BY <2>2 DEF DeleteEntryThrows
    <3>2. job'.channel # "entries"
      BY <3>1 DEF Idle
    <3> QED
      BY <1>1, <1>2, <3>1, <3>2 DEF EntriesShown
  <2>3. ASSUME NEW id \in job.deleted, DeleteEntry(id) PROVE EntriesShown'
    <3> DEFINE e == idMediaEntryMap[id]
    <3>1. /\ job.channel = "entries" /\ job.added = <<>>
          /\ job.array \in Seq(1..m)
          /\ ~threw => Splits(job.array, <<>>, T, 1..m)
      BY <1>1, <2>3 DEF DeleteEntry, Deletes, EntriesShown
    <3>2. /\ job'.channel = job.channel /\ job'.array = Without(job.array, e)
          /\ job'.added = job.added /\ T' = T \ {e}
          /\ UNCHANGED <<mediaEntries, threw>>
      BY <2>3 DEF DeleteEntry, Forget, Inv, JobInv, boundVars
    <3>3. UNCHANGED EntryObjects
      <4>1. DOMAIN entry' = DOMAIN entry
        BY <2>3 DEF DeleteEntry
      <4> QED
        BY <4>1, LenProperties DEF Inv, EntryInv, EntryObjects
    <3> HIDE DEF e
    <3>4. /\ Without(job.array, e) \in Seq(1..m)
          /\ ~threw => Splits(Without(job.array, e), <<>>, T \ {e}, 1..m)
      BY <3>1, ObjectGone, WithoutProperties
    <3> QED
      BY <1>1, <3>1, <3>2, <3>3, <3>4 DEF EntriesShown
  <2>4. ASSUME NEW r \in job.resources, StoreEntry(r) PROVE EntriesShown'
    <3>1. CASE idMediaEntryMap[r.id] # 0
      <4>1. /\ job'.channel = job.channel /\ job'.array = job.array /\ job'.added = job.added
            /\ job'.deleted = job.deleted
            /\ UNCHANGED <<mediaEntries, internalMediaEntryMap, threw>>
        BY <2>4, <3>1 DEF StoreEntry, Inv, JobInv, entryMapVars, boundVars
      <4> QED
        BY <1>3, <4>1
    <3>2. CASE idMediaEntryMap[r.id] = 0
      <4> DEFINE y == m + 1
      <4>1. /\ job.channel = "entries" /\ job'.channel = job.channel /\ job'.array = job.array
            /\ job'.deleted = {} /\ UNCHANGED <<mediaEntries, threw>>
        BY <2>4, <3>2 DEF StoreEntry, Inv, JobInv, boundVars
      <4>2. job'.added = Append(job.added, y) /\ T' = T \cup {y}
        BY <2>4, <3>2 DEF StoreEntry, Inv, JobInv, m
      <4>3. n = y
        <5>1. PICK x : entry' = Append(entry, x)
          BY <2>4, <3>2 DEF StoreEntry
        <5>2. entry \in Seq(EntryRecords \cup {x})
          BY SeqDef DEF Inv, EntryInv
        <5> QED
          BY <5>1, <5>2, AppendProperties DEF m, n
      <4>4. /\ job.array \in Seq(1..m) /\ job.added \in Seq(1..m)
            /\ ~threw => Splits(job.array, job.added, T, 1..m)
        BY <1>1, <4>1 DEF EntriesShown
      <4>5. /\ ~threw => Splits(job.array, Append(job.added, y), T \cup {y}, 1..y)
        BY <1>1, <4>4, NewObject
      <4>6. Append(job.added, y) \in Seq(1..n)
        <5>1. job.added \in Seq(1..n) /\ y \in 1..n
          BY <1>1, <1>2, <4>3, <4>4
        <5> QED
          BY <5>1, AppendProperties
      <4>7. job.array \in Seq(1..n) /\ mediaEntries \in Seq(1..n)
        BY <1>1, <1>2, <4>4 DEF EntriesShown
      <4> HIDE DEF y
      <4> QED
        BY <1>1, <4>1, <4>2, <4>3, <4>5, <4>6, <4>7 DEF EntriesShown
    <3> QED
      BY <3>1, <3>2
  <2>5. CASE KeepAudio \/ AssignAudio \/ AssignParticipant \/ CreateParticipant \/ SetRoles
    <3>1. /\ job'.channel = job.channel /\ job'.array = job.array /\ job'.added = job.added
          /\ job'.deleted = job.deleted
          /\ UNCHANGED <<mediaEntries, internalMediaEntryMap, threw>>
      BY <2>5 DEF KeepAudio, AssignAudio, AssignParticipant, CreateParticipant, SetRoles,
                  Inv, JobInv, entryMapVars, boundVars
    <3> QED
      BY <1>3, <3>1
  <2>6. CASE FinishEntries
    <3>1. /\ job.channel = "entries" /\ job'.channel # "entries"
          /\ mediaEntries' = job.array \o job.added
          /\ UNCHANGED <<entry, internalMediaEntryMap, threw>>
      BY <2>6 DEF FinishEntries, Ends, Idle, entryMapVars, boundVars
    <3>2. /\ job.array \in Seq(1..m) /\ job.added \in Seq(1..m)
          /\ ~threw => Splits(job.array, job.added, T, 1..m)
      BY <1>1, <3>1 DEF EntriesShown
    <3>3. /\ job.array \o job.added \in Seq(1..m)
          /\ ~threw => Holds(job.array \o job.added, T, 1..m)
      BY <3>2, CountConcat, SplitsJoin
    <3>4. UNCHANGED EntryObjects
      BY <3>1 DEF EntryObjects
    <3> QED
      BY <1>1, <3>1, <3>3, <3>4 DEF EntriesShown
  <2> QED
    BY <1>7, <2>1, <2>2, <2>3, <2>4, <2>5, <2>6 DEF EntriesStep
<1>8. CASE ParticipantsStep
  <2>1. /\ job.channel = "participants" /\ job'.channel # "entries"
        /\ UNCHANGED <<mediaEntries, internalMediaEntryMap, threw>>
    <3>1. ASSUME NEW id \in job.deleted, DeleteParticipant(id)
          PROVE  job.channel = "participants" /\ job'.channel = job.channel
                 /\ UNCHANGED <<mediaEntries, internalMediaEntryMap, threw>>
      BY <3>1 DEF DeleteParticipant, Deletes, Inv, JobInv, entryMapVars, boundVars
    <3>2. ASSUME NEW id \in job.resources, PutParticipant(id)
          PROVE  job.channel = "participants" /\ job'.channel = job.channel
                 /\ UNCHANGED <<mediaEntries, internalMediaEntryMap, threw>>
      BY <3>2 DEF PutParticipant, Inv, JobInv, entryMapVars, boundVars
    <3>3. CASE FinishParticipants
      BY <3>3 DEF FinishParticipants, Ends, Idle, entryMapVars, boundVars
    <3> QED
      BY <1>8, <3>1, <3>2, <3>3 DEF ParticipantsStep
  <2> QED
    BY <1>3, <2>1
<1>9. CASE VideoStep
  <2>1. ASSUME NEW c \in job.resources, AssignCanvas(c), idMediaEntryMap[c.id] = 0
        PROVE  EntriesShown'
    <3> DEFINE y == m + 1
    <3>1. /\ job.channel = "video" /\ job'.channel = job.channel
          /\ mediaEntries' = Append(mediaEntries, y) /\ T' = T \cup {y} /\ UNCHANGED threw
      BY <2>1 DEF AssignCanvas, Inv, JobInv, boundVars, m
    <3>2. n = y
      <4> DEFINE f == Released(c.canvas)
      <4>1. PICK x : entry' = Append(f, x)
        BY <2>1 DEF AssignCanvas
      <4>2. c.canvas \in Layouts
        BY <2>1 DEF Inv, JobInv, AssignCanvas, Canvases
      <4>3. f \in [1..m -> EntryRecords]
        BY <4>2, ReleasedFacts DEF Inv, m
      <4> HIDE DEF f
      <4>4. f \in [1..m -> EntryRecords \cup {x}]
        BY <4>3
      <4>5. f \in Seq(EntryRecords \cup {x}) /\ Len(f) = m
        BY <1>1, <4>4, Places
      <4> QED
        BY <4>1, <4>5, AppendProperties DEF n
    <3>3. mediaEntries \in Seq(1..n) /\ y \in 1..n
      BY <1>1, <1>2, <3>2 DEF EntriesShown
    <3>4. mediaEntries' \in Seq(1..n)
      BY <3>1, <3>3, AppendProperties
    <3>5. ~threw => Holds(mediaEntries', T', 1..n)
      BY <1>1, <3>1, <3>2, NewObject DEF EntriesShown
    <3> QED
      BY <1>1, <3>1, <3>4, <3>5 DEF EntriesShown
  <2>2. ASSUME NEW c \in job.resources, AssignCanvas(c), idMediaEntryMap[c.id] # 0
        PROVE  EntriesShown'
    <3>1. /\ job.channel = "video" /\ job'.channel = job.channel
          /\ UNCHANGED <<mediaEntries, internalMediaEntryMap, threw>>
      BY <2>2 DEF AssignCanvas, Inv, JobInv, entryMapVars, boundVars
    <3> QED
      BY <1>3, <3>1
  <2>3. ASSUME NEW c \in job.resources, UpdateCanvas(c) PROVE EntriesShown'
    <3>1. /\ job.channel = "video" /\ job'.channel = job.channel
          /\ UNCHANGED <<mediaEntries, internalMediaEntryMap, threw>>
      BY <2>3 DEF UpdateCanvas, Inv, JobInv, entryMapVars, boundVars
    <3> QED
      BY <1>3, <3>1
  <2>4. CASE AssignVideo
    <3>1. /\ job'.channel = job.channel /\ job'.array = job.array /\ job'.added = job.added
          /\ job'.deleted = job.deleted
          /\ UNCHANGED <<mediaEntries, internalMediaEntryMap, threw>>
      BY <2>4 DEF AssignVideo, Inv, JobInv, entryMapVars, boundVars
    <3> QED
      BY <1>3, <3>1
  <2>5. CASE FinishAssignment
    <3>1. /\ job.channel # "entries" /\ job'.channel # "entries"
          /\ UNCHANGED <<mediaEntries, internalMediaEntryMap, threw>>
      BY <2>5 DEF FinishAssignment, Ends, Idle, entryMapVars, boundVars
    <3> QED
      BY <1>3, <3>1
  <2> QED
    BY <1>9, <2>1, <2>2, <2>3, <2>4, <2>5 DEF VideoStep
<1>10. CASE \E t \in Tracks, e \in 1..Len(entry) : OnFrame(t, e) \/ EndLoop(t, e)
  BY <1>3, <1>10 DEF OnFrame, EndLoop, entryMapVars, boundVars
<1> QED
  BY <1>4, <1>5, <1>6, <1>7, <1>8, <1>9, <1>10 DEF Next

LEMMA NextParticipantsShown ==
  ASSUME Inv, Inv', ParticipantsShown, [Next]_vars
  PROVE  ParticipantsShown'
<1> DEFINE m == Len(participant)
           n == Len(participant')
           T == internalParticipantMap
<1>1. /\ m \in Nat /\ n \in Nat /\ m <= n /\ T \subseteq 1..m /\ T' \subseteq 1..n
      /\ ParticipantObjects = 1..m /\ ParticipantObjects' = 1..n
  BY NextParticipants DEF ParticipantsGrow, Inv, ParticipantInv, ParticipantObjects
<1>2. \A s \in Seq(1..m) : s \in Seq(1..n) /\ \A x : x \notin 1..m => Absent(s, x)
  BY <1>1, MoreObjects
<1>3. /\ participants \in Seq(1..n)
      /\ job.channel = "participants" => job.array \in Seq(1..n) /\ job.added \in Seq(1..n)
  BY <1>1, <1>2 DEF ParticipantsShown
<1> HIDE DEF m, n
<1>4. ASSUME UNCHANGED <<participants, internalParticipantMap>>,
             \/ /\ job'.channel = job.channel /\ job'.array = job.array /\ job'.added = job.added
                /\ job'.deleted \subseteq job.deleted
             \/ job.channel # "participants" /\ job'.channel # "participants"
      PROVE  ParticipantsShown'
  <2>1. CASE job'.channel # "participants"
    BY <1>1, <1>3, <1>4, <2>1 DEF ParticipantsShown
  <2>2. CASE job'.channel = "participants"
    <3>1. /\ job.channel = "participants" /\ job'.array = job.array /\ job'.added = job.added
          /\ job'.deleted \subseteq job.deleted
      BY <1>4, <2>2
    <3>2. job'.deleted # {} => job'.added = <<>>
      BY <3>1 DEF ParticipantsShown
    <3>3. Splits(job'.array, job'.added, T', T')
      BY <1>4, <3>1 DEF ParticipantsShown
    <3> QED
      BY <1>1, <1>3, <1>4, <2>2, <3>1, <3>2, <3>3 DEF ParticipantsShown
  <2> QED
    BY <2>1, <2>2
<1>5. CASE UNCHANGED vars \/ Terminated
  BY <1>4, <1>5 DEF vars, Terminated, participantVars
<1>6. CASE OnMediaEntriesMessage
  <2>1. job.channel # "participants" /\ job'.channel # "participants"
        /\ UNCHANGED <<participants, internalParticipantMap>>
    BY <1>6 DEF OnMediaEntriesMessage, Begin, Waiting, Idle, participantVars
  <2> QED
    BY <1>4, <2>1
<1>7. CASE OnVideoAssignmentMessage
  <2>1. PICK r : Begin("video", {}, r, <<>>)
    BY <1>7 DEF OnVideoAssignmentMessage
  <2>2. job = Idle
    BY <1>7 DEF OnVideoAssignmentMessage, Waiting
  <2>3. job.channel # "participants" /\ job'.channel # "participants"
        /\ UNCHANGED <<participants, internalParticipantMap>>
    BY <2>1, <2>2 DEF Begin, Idle, participantVars
  <2> QED
    BY <1>4, <2>3
<1>8. CASE OnParticipantsMessage
  <2>1. /\ job.channel # "participants" /\ job'.channel = "participants"
        /\ job'.array = participants /\ job'.added = <<>>
        /\ UNCHANGED <<participants, internalParticipantMap>>
    BY <1>8 DEF OnParticipantsMessage, Begin, Waiting, Idle, participantVars
  <2>2. <<>> \in Seq(1..n) /\ \A x : Absent(<<>>, x)
    BY NothingThere
  <2>3. Splits(participants, <<>>, T, T)
    BY <2>1, <2>2 DEF ParticipantsShown, Splits
  <2> QED
    BY <1>1, <1>3, <2>1, <2>2, <2>3 DEF ParticipantsShown
<1>9. CASE EntriesStep
  <2>1. CASE CreateParticipant
    <3> DEFINE y == m + 1
    <3>1. /\ job.channel = "entries" /\ job'.channel = job.channel
          /\ participants' = Append(participants, y) /\ T' = T \cup {y}
      BY <2>1 DEF CreateParticipant, Inv, JobInv, m
    <3>2. participants \in Seq(1..n) /\ y \in 1..n
      BY <1>1, <1>3, <3>1
    <3>3. Absent(participants, y) /\ y \notin T
      <4>1. y \notin 1..m
        BY <1>1
      <4> QED
        BY <1>1, <1>2, <4>1 DEF ParticipantsShown
    <3>4. \A x \in T : Once(participants, x)
      BY <3>1 DEF ParticipantsShown
    <3>5. /\ participants' \in Seq(1..n) /\ Once(participants', y)
          /\ \A x \in T : Once(participants', x)
      BY <3>1, <3>2, <3>3, <3>4, CountAppend
    <3> HIDE DEF y
    <3> QED
      BY <1>1, <3>1, <3>5 DEF ParticipantsShown
  <2>2. ASSUME NEW id \in job.deleted, DeleteUnknownEntry(id) \/ DeleteEntry(id)
        PROVE  ParticipantsShown'
    <3>1. /\ job.channel = "entries" /\ job'.channel = job.channel
          /\ UNCHANGED <<participants, internalParticipantMap>>
      BY <2>2 DEF DeleteUnknownEntry, DeleteEntry, Deletes, Inv, JobInv, participantVars
    <3> QED
      BY <1>4, <3>1
  <2>3. ASSUME NEW id \in job.deleted, DeleteEntryThrows(id) PROVE ParticipantsShown'
    <3>1. /\ job.channel = "entries" /\ job'.channel # "participants"
          /\ UNCHANGED <<participants, internalParticipantMap>>
      BY <2>3 DEF DeleteEntryThrows, Deletes, Idle, participantVars
    <3> QED
      BY <1>4, <3>1
  <2>4. ASSUME NEW r \in job.resources, StoreEntry(r) PROVE ParticipantsShown'
    <3>1. /\ job.channel = "entries" /\ job'.channel = job.channel
          /\ UNCHANGED <<participants, internalParticipantMap>>
      BY <2>4 DEF StoreEntry, Inv, JobInv, participantVars
    <3> QED
      BY <1>4, <3>1
  <2>5. CASE KeepAudio \/ AssignAudio \/ AssignParticipant \/ SetRoles
    <3>1. /\ job'.channel = job.channel /\ job'.array = job.array /\ job'.added = job.added
          /\ job'.deleted = job.deleted
          /\ UNCHANGED <<participants, internalParticipantMap>>
      BY <2>5 DEF KeepAudio, AssignAudio, AssignParticipant, SetRoles, Inv, JobInv,
                  participantVars
    <3> QED
      BY <1>4, <3>1
  <2>6. CASE FinishEntries
    <3>1. /\ job.channel = "entries" /\ job'.channel # "participants"
          /\ UNCHANGED <<participants, internalParticipantMap>>
      BY <2>6 DEF FinishEntries, Ends, Idle, participantVars
    <3> QED
      BY <1>4, <3>1
  <2> QED
    BY <1>9, <2>1, <2>2, <2>3, <2>4, <2>5, <2>6 DEF EntriesStep
<1>10. CASE ParticipantsStep
  <2>1. ASSUME NEW id \in job.deleted, DeleteParticipant(id) PROVE ParticipantsShown'
    <3> DEFINE p == idParticipantMap[id]
    <3>1. /\ job.channel = "participants" /\ job'.channel = job.channel
          /\ job'.added = job.added /\ job'.deleted \subseteq job.deleted
          /\ UNCHANGED participants
      BY <2>1 DEF DeleteParticipant, Deletes, Inv, JobInv
    <3>2. \/ job'.array = job.array /\ T' = T
          \/ job'.array = Without(job.array, p) /\ T' = T \ {p}
      BY <2>1 DEF DeleteParticipant, Inv, JobInv
    <3>3. CASE job'.array = job.array /\ T' = T
      BY <1>4, <3>1, <3>3
    <3>4. CASE job'.array = Without(job.array, p) /\ T' = T \ {p}
      <4> HIDE DEF p
      <4>1. /\ job.array \in Seq(1..n) /\ job.added = <<>>
            /\ \A x \in T : \/ Once(job.array, x) /\ Absent(<<>>, x)
                            \/ Absent(job.array, x) /\ Once(<<>>, x)
        <5>1. job.array \in Seq(1..n) /\ job.added = <<>> /\ Splits(job.array, job.added, T, T)
          BY <1>3, <2>1, <3>1 DEF ParticipantsShown
        <5>2. Splits(job.array, <<>>, T, T)
          BY <5>1
        <5> QED
          BY <5>1, <5>2 DEF Splits
      <4>2. <<>> \in Seq(1..n) /\ \A x : Absent(<<>>, x) /\ ~Once(<<>>, x)
        BY NothingThere DEF Once, Absent
      <4>3. /\ job'.array \in Seq(1..n)
            /\ \A x \in T \ {p} : Once(job'.array, x)
        BY <3>4, <4>1, <4>2, WithoutProperties
      <4>4. Splits(job'.array, job'.added, T', T')
        BY <3>1, <3>4, <4>1, <4>2, <4>3 DEF Splits
      <4> QED
        BY <1>1, <1>3, <3>1, <4>1, <4>2, <4>3, <4>4 DEF ParticipantsShown
    <3> QED
      BY <3>2, <3>3, <3>4
  <2>2. ASSUME NEW id \in job.resources, PutParticipant(id) PROVE ParticipantsShown'
    <3> DEFINE y == m + 1
               old == Existing(id)
    <3>1. /\ job.channel = "participants" /\ job'.channel = job.channel /\ job'.deleted = {}
          /\ job'.array = Without(job.array, old) /\ job'.added = Append(job.added, y)
          /\ T' = (T \ {old}) \cup {y}
          /\ UNCHANGED participants
      BY <2>2 DEF PutParticipant, Inv, JobInv, m
    <3> HIDE DEF old
    <3>2. y \in 1..n /\ y \notin 1..m
      BY <1>1, <3>1
    <3>3. /\ job.array \in Seq(1..n) /\ job.added \in Seq(1..n)
          /\ Absent(job.array, y) /\ Absent(job.added, y)
      BY <1>1, <1>2, <1>3, <3>1, <3>2 DEF ParticipantsShown
    <3> HIDE DEF y
    <3>4. /\ job'.array \in Seq(1..n) /\ Absent(job'.array, y)
          /\ \A x : x # old /\ Once(job.array, x) => Once(job'.array, x)
          /\ \A x : Absent(job.array, x) => Absent(job'.array, x)
      BY <3>1, <3>3, WithoutProperties
    <3>5. /\ job'.added \in Seq(1..n) /\ Once(job'.added, y)
          /\ \A x : x # y /\ Once(job.added, x) => Once(job'.added, x)
          /\ \A x : x # y /\ Absent(job.added, x) => Absent(job'.added, x)
      <4> DEFINE a == job.added
                 t == Append(a, y)
      <4>1. a \in Seq(1..n) /\ Absent(a, y)
        BY <3>3
      <4> HIDE DEF a
      <4>2. /\ t \in Seq(1..n) /\ Once(t, y)
            /\ \A x : x # y /\ Once(a, x) => Once(t, x)
            /\ \A x : x # y /\ Absent(a, x) => Absent(t, x)
        BY <3>2, <4>1, CountAppend
      <4>3. job'.added = t
        BY <3>1 DEF a
      <4> HIDE DEF t
      <4> QED
        BY <4>3, <4>2 DEF a
    <3>6. \A x \in T : /\ x # y
                       /\ \/ Once(job.array, x) /\ Absent(job.added, x)
                          \/ Absent(job.array, x) /\ Once(job.added, x)
      BY <1>1, <3>1, <3>2 DEF ParticipantsShown, Splits
    <3>7. Splits(job'.array, job'.added, T', T')
      BY <3>1, <3>4, <3>5, <3>6 DEF Splits
    <3> QED
      BY <1>1, <1>3, <3>1, <3>4, <3>5, <3>7 DEF ParticipantsShown
  <2>3. CASE FinishParticipants
    <3>1. /\ job.channel = "participants" /\ job'.channel # "participants"
          /\ participants' = job.array \o job.added
          /\ UNCHANGED internalParticipantMap
      BY <2>3 DEF FinishParticipants, Ends, Idle
    <3>2. /\ job.array \in Seq(1..n) /\ job.added \in Seq(1..n)
          /\ Splits(job.array, job.added, T, T)
      BY <1>3, <3>1 DEF ParticipantsShown
    <3>3. participants' \in Seq(1..n) /\ \A x \in T : Once(participants', x)
      BY <3>1, <3>2, CountConcat DEF Splits
    <3> QED
      BY <1>1, <3>1, <3>3 DEF ParticipantsShown
  <2> QED
    BY <1>10, <2>1, <2>2, <2>3 DEF ParticipantsStep
<1>11. CASE VideoStep
  <2>1. ASSUME NEW c \in job.resources, UpdateCanvas(c) \/ AssignCanvas(c)
        PROVE  ParticipantsShown'
    <3>1. /\ job'.channel = job.channel /\ job'.array = job.array /\ job'.added = job.added
          /\ job'.deleted = job.deleted
          /\ UNCHANGED <<participants, internalParticipantMap>>
      BY <2>1 DEF UpdateCanvas, AssignCanvas, Inv, JobInv, participantVars
    <3> QED
      BY <1>4, <3>1
  <2>2. CASE AssignVideo
    <3>1. /\ job'.channel = job.channel /\ job'.array = job.array /\ job'.added = job.added
          /\ job'.deleted = job.deleted
          /\ UNCHANGED <<participants, internalParticipantMap>>
      BY <2>2 DEF AssignVideo, Inv, JobInv, participantVars
    <3> QED
      BY <1>4, <3>1
  <2>3. CASE FinishAssignment
    <3>1. /\ job.channel # "participants" /\ job'.channel # "participants"
          /\ UNCHANGED <<participants, internalParticipantMap>>
      BY <2>3 DEF FinishAssignment, Ends, Idle, participantVars
    <3> QED
      BY <1>4, <3>1
  <2> QED
    BY <1>11, <2>1, <2>2, <2>3 DEF VideoStep
<1>12. CASE \E t \in Tracks, e \in 1..Len(entry) : OnFrame(t, e) \/ EndLoop(t, e)
  BY <1>4, <1>12 DEF OnFrame, EndLoop, participantVars
<1> QED
  BY <1>5, <1>6, <1>7, <1>8, <1>9, <1>10, <1>11, <1>12 DEF Next

-----------------------------------------------------------------------------
(***************************************************************************)
(* The links between media entries and participants.                       *)
(***************************************************************************)

LEMMA NextJobOfResource ==
  ASSUME Inv, Inv', JobOfResource, [Next]_vars
  PROVE  JobOfResource'
<1>1. EntriesGrow
  BY NextEntries
<1>2. \A e \in internalMediaEntryMap : entry'[e].id = entry[e].id
  BY <1>1 DEF EntriesGrow, Inv, EntryInv
<1>3. ASSUME job'.stage = job.stage \/ job.stage # "next", job'.entry = job.entry,
             job'.resource = job.resource,
             job'.stage \in {"audio", "participant", "roles"} =>
               job.stage \in {"audio", "participant", "roles"}
      PROVE  JobOfResource'
  <2> SUFFICES ASSUME job'.stage \in {"audio", "participant", "roles"}
               PROVE  entry'[job.entry].id = job.resource.id
    BY <1>3 DEF JobOfResource
  <2>1. job.entry \in internalMediaEntryMap /\ entry[job.entry].id = job.resource.id
    BY <1>3 DEF JobOfResource, Inv, JobInv
  <2> QED
    BY <1>2, <2>1
<1>4. job'.stage \in {"next", "track"} => JobOfResource'
  BY DEF JobOfResource
<1>5. CASE \/ UNCHANGED vars \/ Terminated
           \/ \E t \in Tracks, e \in 1..Len(entry) : OnFrame(t, e) \/ EndLoop(t, e)
  BY <1>3, <1>5 DEF vars, Terminated, OnFrame, EndLoop
<1>6. CASE OnMediaEntriesMessage \/ OnParticipantsMessage \/ OnVideoAssignmentMessage
  BY <1>4, <1>6 DEF OnMediaEntriesMessage, OnParticipantsMessage, OnVideoAssignmentMessage,
                    Begin, Idle
<1>7. job.deleted # {} => job.stage = "next"
  BY DEF Inv, JobInv
<1>8. CASE EntriesStep
  <2>1. ASSUME NEW id \in job.deleted, DeleteUnknownEntry(id) \/ DeleteEntry(id)
        PROVE  JobOfResource'
    <3>1. job'.stage = job.stage
      BY <2>1 DEF DeleteUnknownEntry, DeleteEntry, Inv, JobInv
    <3> QED
      BY <1>4, <1>7, <2>1, <3>1
  <2>2. ASSUME NEW id \in job.deleted, DeleteEntryThrows(id) PROVE JobOfResource'
    BY <1>4, <2>2 DEF DeleteEntryThrows, Idle
  <2>3. ASSUME NEW r \in job.resources, StoreEntry(r) PROVE JobOfResource'
    <3>1. r.id \in EntryIds /\ job'.resource = r
      BY <2>3 DEF StoreEntry, Inv, JobInv, EntryResources
    <3>2. CASE idMediaEntryMap[r.id] # 0
      <4>1. job'.entry = idMediaEntryMap[r.id]
        BY <2>3, <3>2 DEF StoreEntry, Inv, JobInv
      <4>2. /\ job'.entry \in internalMediaEntryMap
            /\ entry[job'.entry].id = r.id
        BY <3>1, <3>2, <4>1 DEF Inv, EntryInv, EntryMapsAgree
      <4> QED
        BY <1>2, <3>1, <4>2 DEF JobOfResource
    <3>3. CASE idMediaEntryMap[r.id] = 0
      <4>1. job'.entry = Len(entry) + 1 /\ idMediaEntryMap'[r.id] = Len(entry) + 1
        BY <2>3, <3>1, <3>3 DEF StoreEntry, Inv, JobInv, EntryInv
      <4>2. Len(entry) + 1 # 0
        BY EntryFacts DEF Inv
      <4>3. entry'[job'.entry].id = r.id
        BY <3>1, <4>1, <4>2 DEF Inv, EntryInv, EntryMapsAgree
      <4> QED
        BY <3>1, <4>3 DEF JobOfResource
    <3> QED
      BY <3>2, <3>3
  <2>4. CASE KeepAudio \/ AssignAudio \/ AssignParticipant \/ CreateParticipant
    <3>1. /\ job'.entry = job.entry /\ job'.resource = job.resource
          /\ job.stage \in {"audio", "participant"}
      BY <2>4 DEF KeepAudio, AssignAudio, AssignParticipant, CreateParticipant, Inv, JobInv
    <3> QED
      BY <1>3, <3>1
  <2>5. CASE SetRoles
    BY <1>4, <2>5 DEF SetRoles, Inv, JobInv
  <2>6. CASE FinishEntries
    BY <1>4, <2>6 DEF FinishEntries, Ends, Idle
  <2> QED
    BY <1>8, <2>1, <2>2, <2>3, <2>4, <2>5, <2>6 DEF EntriesStep
<1>9. CASE ParticipantsStep
  <2>1. ASSUME NEW id \in job.deleted, DeleteParticipant(id) PROVE JobOfResource'
    <3>1. job'.stage = job.stage
      BY <2>1 DEF DeleteParticipant, Inv, JobInv
    <3> QED
      BY <1>4, <1>7, <2>1, <3>1
  <2>2. ASSUME NEW id \in job.resources, PutParticipant(id) PROVE JobOfResource'
    <3>1. job'.stage = job.stage /\ job.stage \in {"next", "track"}
      BY <2>2 DEF PutParticipant, Inv, JobInv
    <3> QED
      BY <1>4, <3>1
  <2>3. CASE FinishParticipants
    BY <1>4, <2>3 DEF FinishParticipants, Ends, Idle
  <2> QED
    BY <1>9, <2>1, <2>2, <2>3 DEF ParticipantsStep
<1>10. CASE VideoStep
  <2>1. ASSUME NEW c \in job.resources, UpdateCanvas(c) \/ AssignCanvas(c)
        PROVE  JobOfResource'
    <3>1. job'.stage = "track"
      BY <2>1 DEF UpdateCanvas, AssignCanvas, Inv, JobInv
    <3> QED
      BY <1>4, <3>1
  <2>2. CASE AssignVideo
    BY <1>4, <2>2 DEF AssignVideo, Inv, JobInv
  <2>3. CASE FinishAssignment
    BY <1>4, <2>3 DEF FinishAssignment, Ends, Idle
  <2> QED
    BY <1>10, <2>1, <2>2, <2>3 DEF VideoStep
<1> QED
  BY <1>5, <1>6, <1>8, <1>9, <1>10 DEF Next

\* The members of the lists, and what is to be shown of them after a step.
LEMMA MembersBelong ==
  /\ ListsPresent => \A p \in internalParticipantMap : \A x :
                       ~Absent(List(p), x) => Belongs(p, x)
  /\ (\A p \in internalParticipantMap' : \A x :
         ~Absent(lists'[participant'[p].list], x) => Belongs(p, x)') => ListsPresent'
<1>1. ASSUME ListsPresent, NEW p \in internalParticipantMap, NEW x, ~Absent(List(p), x)
      PROVE  Belongs(p, x)
  <2>1. PICK i \in 1..Len(List(p)) : List(p)[i] = x
    BY <1>1 DEF Absent
  <2>2. Belongs(p, List(p)[i])
    BY <1>1, <2>1 DEF ListsPresent
  <2> QED
    BY <2>1, <2>2
<1>2. ASSUME \A p \in internalParticipantMap' : \A x :
               ~Absent(lists'[participant'[p].list], x) => Belongs(p, x)'
      PROVE  ListsPresent'
  <2>1. ASSUME NEW p \in internalParticipantMap', NEW i \in 1..Len(List(p)')
        PROVE  Belongs(p, List(p)[i])'
    <3> DEFINE s == lists'[participant'[p].list]
    <3>1. List(p)' = s
      BY DEF List
    <3>2. PICK x : x = s[i]
      OBVIOUS
    <3>3. ~Absent(s, x)
      BY <3>1, <3>2 DEF Absent
    <3>4. Belongs(p, x)'
      BY <1>2, <3>3
    <3> HIDE DEF s
    <3> QED
      BY <3>1, <3>2, <3>4 DEF Belongs
  <2> QED
    BY <2>1 DEF ListsPresent
<1> QED
  BY <1>1, <1>2

\* A step that leaves the lists, and the participants of the media entries it
\* finds, as they are.
LEMMA SameLinks ==
  ASSUME Inv, Inv', LinkInv, JobOfResource', EntriesGrow, ParticipantsGrow,
         UNCHANGED <<lists, internalParticipantMap>>, Len(participant') = Len(participant),
         internalMediaEntryMap' \cap (1..Len(entry)) = internalMediaEntryMap,
         \A x \in 1..Len(entry) : entry'[x].participant = entry[x].participant
  PROVE  LinkInv'
<1>1. /\ internalMediaEntryMap \subseteq 1..Len(entry)
      /\ internalMediaEntryMap' \subseteq 1..Len(entry')
      /\ internalParticipantMap \subseteq 1..Len(participant)
      /\ internalMediaEntryMap \subseteq internalMediaEntryMap'
  BY DEF Inv, EntryInv, ParticipantInv
<1>2. \A x \in 1..Len(entry') :
        \/ x \in 1..Len(entry) /\ entry'[x].participant = entry[x].participant
                             /\ entry'[x].id = entry[x].id
        \/ x \notin 1..Len(entry) /\ entry'[x].participant = 0
  BY DEF EntriesGrow
<1>3. \A x \in 1..Len(entry) : entry[x].participant = 0 \/ entry[x].participant \in 1..Len(participant)
  BY DEF LinkInv, LinkTypes, EntryObjects, ParticipantsGrow
<1>4. LinkTypes'
  <2>1. \A p \in 1..Len(participant') : participant'[p].list \in 1..Len(lists)
    BY DEF LinkInv, LinkTypes, ParticipantObjects, ParticipantsGrow
  <2>2. \A x \in 1..Len(entry') : entry'[x].participant \in 0..Len(participant')
    <3>1. Len(participant') \in Nat /\ 0 \in 0..Len(participant')
      BY DEF ParticipantsGrow
    <3> QED
      BY <1>2, <3>1 DEF LinkInv, LinkTypes, EntryObjects
  <2> QED
    BY <2>1, <2>2 DEF LinkInv, LinkTypes, EntryObjects, ParticipantObjects
<1>5. EntriesLinked'
  <2> SUFFICES ASSUME NEW x \in internalMediaEntryMap', entry'[x].participant # 0
               PROVE  ~Absent(lists'[participant'[entry'[x].participant].list], x)
    BY DEF EntriesLinked, List
  <2>1. /\ x \in 1..Len(entry) /\ entry'[x].participant = entry[x].participant
        /\ x \in internalMediaEntryMap
    BY <1>1, <1>2
  <2>2. ~Absent(lists[participant[entry[x].participant].list], x)
    BY <2>1 DEF LinkInv, EntriesLinked, List
  <2> QED
    BY <1>3, <2>1, <2>2 DEF ParticipantsGrow
<1>6. ListsPresent'
  <2> SUFFICES ASSUME NEW p \in internalParticipantMap, NEW x,
                      ~Absent(lists[participant'[p].list], x)
               PROVE  Belongs(p, x)'
    BY MembersBelong
  <2>1. participant'[p].list = participant[p].list /\ participant'[p].person = participant[p].person
    BY <1>1 DEF ParticipantsGrow
  <2>2. Belongs(p, x)
    BY <2>1, MembersBelong DEF LinkInv, List
  <2>3. /\ x \in internalMediaEntryMap /\ x \in 1..Len(entry)
        /\ entry[x].participant \in 1..Len(participant)
        /\ participant[entry[x].participant].list = participant[p].list
        /\ Person(entry[x].id) = participant[p].person
    BY <1>1, <1>3, <2>2 DEF Belongs
  <2>4. /\ x \in internalMediaEntryMap' /\ entry'[x].participant = entry[x].participant
        /\ entry'[x].id = entry[x].id
    BY <1>1, <1>2, <2>3
  <2>5. 0 \notin 1..Len(participant)
    OBVIOUS
  <2> QED
    BY <2>1, <2>3, <2>4, <2>5 DEF Belongs, ParticipantsGrow
<1>7. ListsDistinct'
  BY <1>1 DEF LinkInv, ListsDistinct, ParticipantsGrow
<1> QED
  BY <1>4, <1>5, <1>6, <1>7 DEF LinkInv

\* A list is replaced, or added.
LEMMA ListAt ==
  ASSUME LinkTypes, NEW k, NEW v \in Seq(Nat)
  PROVE  /\ Len(lists) \in Nat /\ \A j \in 1..Len(lists) : lists[j] \in Seq(Nat)
         /\ [lists EXCEPT ![k] = v] \in Seq(Seq(Nat))
         /\ Len([lists EXCEPT ![k] = v]) = Len(lists)
         /\ \A j \in 1..Len(lists) :
              [lists EXCEPT ![k] = v][j] = IF j = k THEN v ELSE lists[j]
         /\ Append(lists, v) \in Seq(Seq(Nat))
         /\ Len(Append(lists, v)) = Len(lists) + 1
         /\ \A j \in 1..Len(lists) : Append(lists, v)[j] = lists[j]
         /\ Append(lists, v)[Len(lists) + 1] = v
<1>1. lists \in Seq(Seq(Nat))
  BY DEF LinkTypes
<1>2. Len(lists) \in Nat /\ DOMAIN lists = 1..Len(lists) /\ lists \in [1..Len(lists) -> Seq(Nat)]
  BY <1>1, LenProperties
<1>3. [lists EXCEPT ![k] = v] \in [1..Len(lists) -> Seq(Nat)]
  BY <1>2
<1>4. /\ [lists EXCEPT ![k] = v] \in Seq(Seq(Nat))
      /\ Len([lists EXCEPT ![k] = v]) = Len(lists)
  BY <1>2, <1>3, Places
<1>5. /\ Append(lists, v) \in Seq(Seq(Nat))
      /\ Len(Append(lists, v)) = Len(lists) + 1
      /\ \A j \in 1..Len(lists) : Append(lists, v)[j] = lists[j]
      /\ Append(lists, v)[Len(lists) + 1] = v
  BY <1>1, AppendProperties
<1> QED
  BY <1>2, <1>3, <1>4, <1>5

\* The objects that the links name.
LEMMA LinkFacts ==
  ASSUME Inv, LinkInv
  PROVE  /\ Len(entry) \in Nat /\ DOMAIN entry = 1..Len(entry)
         /\ Len(participant) \in Nat /\ DOMAIN participant = 1..Len(participant)
         /\ internalMediaEntryMap \subseteq 1..Len(entry)
         /\ internalParticipantMap \subseteq 1..Len(participant)
         /\ \A x \in 1..Len(entry) :
              entry[x].participant = 0 \/ entry[x].participant \in 1..Len(participant)
         /\ \A q \in 1..Len(participant) : participant[q].list \in 1..Len(lists)
         /\ \A q \in internalParticipantMap : \A x : ~Absent(List(q), x) => Belongs(q, x)
         /\ 0 \notin 1..Len(participant) /\ 0 \notin 1..Len(entry)
<1>1. /\ Len(entry) \in Nat /\ DOMAIN entry = 1..Len(entry)
      /\ Len(participant) \in Nat /\ DOMAIN participant = 1..Len(participant)
      /\ internalMediaEntryMap \subseteq 1..Len(entry)
      /\ internalParticipantMap \subseteq 1..Len(participant)
  BY EntryFacts, ParticipantFacts DEF Inv, EntryInv, ParticipantInv
<1>2. \A q \in 1..Len(participant) : participant[q].list \in 1..Len(lists)
  BY DEF LinkInv, LinkTypes, ParticipantObjects
<1>3. \A x \in 1..Len(entry) :
        entry[x].participant = 0 \/ entry[x].participant \in 1..Len(participant)
  BY <1>1 DEF LinkInv, LinkTypes, EntryObjects
<1>4. \A q \in internalParticipantMap : \A x : ~Absent(List(q), x) => Belongs(q, x)
  BY MembersBelong DEF LinkInv
<1> QED
  BY <1>1, <1>2, <1>3, <1>4

LEMMA DeleteEntryLinks ==
  ASSUME Inv, Inv', LinkInv, JobOfResource', NEW id \in job.deleted, DeleteEntry(id)
  PROVE  LinkInv'
<1> DEFINE e == idMediaEntryMap[id]
           p == entry[e].participant
           k == participant[p].list
<1>1. /\ Len(entry) \in Nat /\ DOMAIN entry = 1..Len(entry)
      /\ Len(participant) \in Nat /\ DOMAIN participant = 1..Len(participant)
      /\ internalMediaEntryMap \subseteq 1..Len(entry)
      /\ internalParticipantMap \subseteq 1..Len(participant)
      /\ \A x \in 1..Len(entry) :
           entry[x].participant = 0 \/ entry[x].participant \in 1..Len(participant)
      /\ \A q \in 1..Len(participant) : participant[q].list \in 1..Len(lists)
      /\ 0 \notin 1..Len(participant)
  BY LinkFacts
<1>2. \A q \in internalParticipantMap : \A x : ~Absent(List(q), x) => Belongs(q, x)
  BY LinkFacts
<1>3. /\ id \in EntryIds /\ e # 0 /\ e \in internalMediaEntryMap
      /\ p \in internalParticipantMap \cup {0}
      /\ internalMediaEntryMap' = internalMediaEntryMap \ {e}
      /\ UNCHANGED <<participant, internalParticipantMap>>
  BY DEF DeleteEntry, Deletes, Forget, participantVars, Inv, JobInv, EntryInv, EntryMapsAgree
<1>4. /\ DOMAIN entry' = DOMAIN entry
      /\ \A x \in 1..Len(entry) : x # e => entry'[x] = entry[x]
      /\ entry'[e].participant = 0
      /\ Len(entry') = Len(entry)
  <2>1. CASE p = 0
    BY <2>1 DEF DeleteEntry
  <2>2. CASE p # 0
    <3>1. entry' = [entry EXCEPT ![e].participant = 0]
      BY <2>2 DEF DeleteEntry
    <3>2. entry[e] \in EntryRecords
      BY <1>1, <1>3, EntryFacts DEF Inv
    <3>3. DOMAIN entry' = DOMAIN entry
      BY <3>1
    <3>4. DOMAIN entry' = 1..Len(entry') /\ Len(entry') \in Nat
      BY LenProperties DEF Inv, EntryInv
    <3>5. Len(entry') = Len(entry)
      BY <1>1, <3>3, <3>4, SameLength
    <3> QED
      BY <1>1, <1>3, <3>1, <3>2, <3>3, <3>5 DEF EntryRecords
  <2> QED
    BY <2>1, <2>2
<1>5. /\ lists' \in Seq(Seq(Nat)) /\ Len(lists') = Len(lists)
      /\ \A j \in 1..Len(lists) :
           /\ \A x : x # e /\ ~Absent(lists[j], x) => ~Absent(lists'[j], x)
           /\ \A x : ~Absent(lists'[j], x) => ~Absent(lists[j], x)
           /\ p # 0 /\ j = k => Absent(lists'[j], e)
  <2>1. CASE p = 0
    BY <2>1 DEF DeleteEntry, LinkInv, LinkTypes
  <2>2. CASE p # 0
    <3> DEFINE v == Without(lists[k], e)
    <3>1. lists' = [lists EXCEPT ![k] = v]
      BY <2>2 DEF DeleteEntry
    <3>2. k \in 1..Len(lists)
      BY <1>1, <1>3, <2>2
    <3> HIDE DEF e, p, k
    <3>3. lists[k] \in Seq(Nat)
      BY <3>2, ListAt, NothingThere DEF LinkInv
    <3>4. /\ v \in Seq(Nat) /\ Absent(v, e)
          /\ \A x : x # e /\ ~Absent(lists[k], x) => ~Absent(v, x)
          /\ \A x : ~Absent(v, x) => ~Absent(lists[k], x)
      BY <3>3, WithoutProperties
    <3> HIDE DEF v
    <3>5. /\ lists' \in Seq(Seq(Nat)) /\ Len(lists') = Len(lists)
          /\ \A j \in 1..Len(lists) : lists'[j] = IF j = k THEN v ELSE lists[j]
      BY <3>1, <3>4, ListAt DEF LinkInv
    <3> QED
      BY <3>4, <3>5
  <2> QED
    BY <2>1, <2>2
<1> HIDE DEF e
<1>6. LinkTypes'
  <2>1. \A x \in 1..Len(entry) : entry'[x].participant \in 0..Len(participant)
    <3>1. \A x \in 1..Len(entry) : entry'[x].participant = 0 \/ entry'[x].participant = entry[x].participant
      BY <1>4
    <3> QED
      BY <1>1, <3>1
  <2> QED
    BY <1>1, <1>3, <1>4, <1>5, <2>1 DEF LinkTypes, EntryObjects, ParticipantObjects
<1>7. EntriesLinked'
  <2> SUFFICES ASSUME NEW x \in internalMediaEntryMap', entry'[x].participant # 0
               PROVE  ~Absent(lists'[participant[entry'[x].participant].list], x)
    BY <1>3 DEF EntriesLinked, List
  <2>1. /\ x \in internalMediaEntryMap /\ x # e /\ x \in 1..Len(entry)
        /\ entry'[x].participant = entry[x].participant
    BY <1>1, <1>3, <1>4
  <2>2. ~Absent(lists[participant[entry[x].participant].list], x)
    BY <2>1 DEF LinkInv, EntriesLinked, List
  <2>3. participant[entry[x].participant].list \in 1..Len(lists)
    BY <1>1, <2>1
  <2> QED
    BY <1>5, <2>1, <2>2, <2>3
<1>8. ListsPresent'
  <2> SUFFICES ASSUME NEW q \in internalParticipantMap, NEW x,
                      ~Absent(lists'[participant[q].list], x)
               PROVE  Belongs(q, x)'
    BY <1>3, MembersBelong
  <2>1. participant[q].list \in 1..Len(lists)
    BY <1>1
  <2>2. ~Absent(lists[participant[q].list], x)
    BY <1>5, <2>1
  <2>3. Belongs(q, x)
    BY <1>2, <2>2 DEF List
  <2>4. x # e
    <3> SUFFICES ASSUME x = e PROVE FALSE
      OBVIOUS
    <3>1. p # 0 /\ k = participant[q].list
      BY <2>3 DEF Belongs
    <3> QED
      BY <1>5, <2>1, <3>1
  <2>5. x \in 1..Len(entry) /\ x \in internalMediaEntryMap' /\ entry'[x] = entry[x]
    BY <1>1, <1>3, <1>4, <2>3, <2>4 DEF Belongs
  <2> QED
    BY <1>3, <2>3, <2>5 DEF Belongs
<1>9. ListsDistinct'
  BY <1>3 DEF LinkInv, ListsDistinct
<1> QED
  BY <1>6, <1>7, <1>8, <1>9 DEF LinkInv

\* A media entry gets a participant.
LEMMA ParticipantSet ==
  ASSUME Inv, Inv', NEW e \in 1..Len(entry), NEW p,
         entry' = [entry EXCEPT ![e].participant = p]
  PROVE  /\ Len(entry') = Len(entry)
         /\ \A x \in 1..Len(entry) :
              /\ entry'[x].id = entry[x].id
              /\ x # e => entry'[x].participant = entry[x].participant
         /\ entry'[e].participant = p
<1>1. Len(entry) \in Nat /\ DOMAIN entry = 1..Len(entry)
      /\ \A x \in 1..Len(entry) : entry[x] \in EntryRecords
  BY EntryFacts DEF Inv
<1>2. Len(entry') \in Nat /\ DOMAIN entry' = 1..Len(entry')
  BY LenProperties DEF Inv, EntryInv
<1>3. DOMAIN entry' = DOMAIN entry
  OBVIOUS
<1>4. Len(entry') = Len(entry)
  BY <1>1, <1>2, <1>3, SameLength
<1> QED
  BY <1>1, <1>4 DEF EntryRecords

\* A participant object is made.
LEMMA ParticipantMade ==
  ASSUME Inv, NEW r, participant' = Append(participant, r)
  PROVE  /\ Len(participant) \in Nat /\ Len(participant') = Len(participant) + 1
         /\ \A q \in 1..Len(participant) : participant'[q] = participant[q]
         /\ participant'[Len(participant) + 1] = r
         /\ \A q \in 1..Len(participant') : q \in 1..Len(participant) \/ q = Len(participant) + 1
<1> DEFINE PR == [person : Persons, ids : SUBSET Ids, list : Nat]
<1>1. participant \in Seq(PR \cup {r}) /\ Len(participant) \in Nat
  <2>1. participant \in Seq(PR) /\ Len(participant) \in Nat
    BY ParticipantFacts DEF Inv, ParticipantInv
  <2>2. participant \in [1..Len(participant) -> PR]
    BY <2>1, LenProperties
  <2> HIDE DEF PR
  <2>3. participant \in [1..Len(participant) -> PR \cup {r}]
    BY <2>2
  <2> QED
    BY <2>1, <2>3, Places
<1> HIDE DEF PR
<1>2. /\ Len(participant') = Len(participant) + 1
      /\ \A q \in 1..Len(participant) : participant'[q] = participant[q]
      /\ participant'[Len(participant) + 1] = r
  BY <1>1, AppendProperties
<1> QED
  BY <1>1, <1>2

LEMMA AssignParticipantLinks ==
  ASSUME Inv, Inv', LinkInv, JobOfResource', AssignParticipant
  PROVE  LinkInv'
<1> DEFINE e == job.entry
           who == Person(job.resource.id)
           p == IF who \in Named THEN nameParticipantMap[who] ELSE WithKey(who)
           k == participant[p].list
<1>1. /\ Len(entry) \in Nat /\ DOMAIN entry = 1..Len(entry)
      /\ internalMediaEntryMap \subseteq 1..Len(entry)
      /\ internalParticipantMap \subseteq 1..Len(participant)
      /\ \A x \in 1..Len(entry) :
           entry[x].participant = 0 \/ entry[x].participant \in 1..Len(participant)
      /\ \A q \in 1..Len(participant) : participant[q].list \in 1..Len(lists)
      /\ 0 \notin 1..Len(participant)
  BY LinkFacts
<1>2. \A q \in internalParticipantMap : \A x : ~Absent(List(q), x) => Belongs(q, x)
  BY LinkFacts
<1>3. /\ p \in internalParticipantMap /\ participant[p].person = who /\ p # 0
  <2>1. who \in Persons
    BY DEF Inv, JobInv, AssignParticipant, EntryResources, EntryIds, Person
  <2>2. p # 0
    BY DEF AssignParticipant
  <2> QED
    BY <2>1, <2>2, Lookup, WithKeyIs DEF Inv
<1>4. /\ e \in internalMediaEntryMap /\ e \in 1..Len(entry) /\ Person(entry[e].id) = who
  BY Midst DEF AssignParticipant, LinkInv, JobOfResource
<1>5. /\ entry' = [entry EXCEPT ![e].participant = p]
      /\ lists' = [lists EXCEPT ![k] = Append(@, e)]
      /\ UNCHANGED <<participant, internalParticipantMap, internalMediaEntryMap>>
  BY <1>3 DEF AssignParticipant, participantVars, entryMapVars
<1> HIDE DEF e, who, p
<1>6. /\ Len(entry') = Len(entry)
      /\ \A x \in 1..Len(entry) :
           /\ entry'[x].id = entry[x].id
           /\ x # e => entry'[x].participant = entry[x].participant
      /\ entry'[e].participant = p
  BY <1>4, <1>5, ParticipantSet
<1>7. /\ lists' \in Seq(Seq(Nat)) /\ Len(lists') = Len(lists)
      /\ \A j \in 1..Len(lists) :
           /\ \A x : ~Absent(lists[j], x) => ~Absent(lists'[j], x)
           /\ \A x : x # e /\ ~Absent(lists'[j], x) => ~Absent(lists[j], x)
           /\ j # k /\ ~Absent(lists'[j], e) => ~Absent(lists[j], e)
      /\ k \in 1..Len(lists) /\ ~Absent(lists'[k], e)
  <2> DEFINE v == Append(lists[k], e)
  <2>1. lists' = [lists EXCEPT ![k] = v]
    BY <1>5
  <2>2. k \in 1..Len(lists)
    BY <1>1, <1>3
  <2> HIDE DEF k
  <2>3. lists[k] \in Seq(Nat) /\ e \in Nat
    <3>1. <<>> \in Seq(Nat) /\ LinkTypes
      BY NothingThere DEF LinkInv
    <3>2. lists[k] \in Seq(Nat)
      BY <2>2, <3>1, ListAt
    <3> QED
      BY <1>1, <1>4, <3>2
  <2>4. /\ v \in Seq(Nat) /\ ~Absent(v, e)
        /\ \A x : x # e /\ ~Absent(v, x) => ~Absent(lists[k], x)
    BY <2>3, CountAppend
  <2>5. \A x : ~Absent(lists[k], x) => ~Absent(v, x)
    <3>1. /\ Len(v) = Len(lists[k]) + 1 /\ Len(lists[k]) \in Nat
          /\ \A i \in 1..Len(lists[k]) : v[i] = lists[k][i]
      BY <2>3, AppendProperties
    <3> HIDE DEF v
    <3> QED
      BY <3>1 DEF Absent
  <2> HIDE DEF v
  <2>6. /\ lists' \in Seq(Seq(Nat)) /\ Len(lists') = Len(lists)
        /\ \A j \in 1..Len(lists) : lists'[j] = IF j = k THEN v ELSE lists[j]
    <3>1. v \in Seq(Nat) /\ LinkTypes
      BY <2>4 DEF LinkInv
    <3> QED
      BY <2>1, <3>1, ListAt
  <2> QED
    BY <2>2, <2>4, <2>5, <2>6
<1>8. LinkTypes'
  <2>1. \A x \in 1..Len(entry) : entry'[x].participant \in 0..Len(participant)
    <3>1. p \in 1..Len(participant)
      BY <1>1, <1>3
    <3>2. \A x \in 1..Len(entry) : \/ entry'[x].participant = p
                                \/ entry'[x].participant = entry[x].participant
      BY <1>6
    <3> QED
      BY <1>1, <3>1, <3>2 DEF LinkInv, LinkTypes, EntryObjects
  <2> QED
    BY <1>1, <1>5, <1>6, <1>7, <2>1 DEF LinkTypes, EntryObjects, ParticipantObjects
<1>9. EntriesLinked'
  <2> SUFFICES ASSUME NEW x \in internalMediaEntryMap, entry'[x].participant # 0
               PROVE  ~Absent(lists'[participant[entry'[x].participant].list], x)
    BY <1>5 DEF EntriesLinked, List
  <2>1. CASE x = e
    BY <1>6, <1>7, <2>1
  <2>2. CASE x # e
    <3>1. x \in 1..Len(entry) /\ entry'[x].participant = entry[x].participant
      BY <1>1, <1>6, <2>2
    <3>2. ~Absent(lists[participant[entry[x].participant].list], x)
      BY <3>1 DEF LinkInv, EntriesLinked, List
    <3>3. participant[entry[x].participant].list \in 1..Len(lists)
      BY <1>1, <3>1
    <3> QED
      BY <1>7, <3>1, <3>2, <3>3
  <2> QED
    BY <2>1, <2>2
<1>10. ListsPresent'
  <2> SUFFICES ASSUME NEW q \in internalParticipantMap, NEW x,
                      ~Absent(lists'[participant[q].list], x)
               PROVE  Belongs(q, x)'
    BY <1>5, MembersBelong
  <2>1. participant[q].list \in 1..Len(lists)
    BY <1>1
  <2>2. CASE x # e
    <3>1. Belongs(q, x)
      BY <1>2, <1>7, <2>1, <2>2 DEF List
    <3>2. /\ x \in 1..Len(entry) /\ entry'[x].id = entry[x].id
          /\ entry'[x].participant = entry[x].participant
      BY <1>1, <1>6, <2>2, <3>1 DEF Belongs
    <3> QED
      BY <1>5, <3>1, <3>2 DEF Belongs
  <2>3. CASE x = e
    <3>1. CASE participant[q].list = k
      <4>1. q = p
        BY <1>3, <3>1 DEF LinkInv, ListsDistinct
      <4> QED
        BY <1>3, <1>4, <1>5, <1>6, <2>3, <4>1 DEF Belongs
    <3>2. CASE participant[q].list # k
      <4>1. Belongs(q, e)
        BY <1>2, <1>7, <2>1, <2>3, <3>2 DEF List
      <4>2. q = p
        BY <1>3, <1>4, <4>1 DEF Belongs, Inv, ParticipantInv, ParticipantMapsAgree
      <4> QED
        BY <3>2, <4>2
    <3> QED
      BY <3>1, <3>2
  <2> QED
    BY <2>2, <2>3
<1>11. ListsDistinct'
  BY <1>5 DEF LinkInv, ListsDistinct
<1> QED
  BY <1>8, <1>9, <1>10, <1>11 DEF LinkInv

LEMMA CreateParticipantLinks ==
  ASSUME Inv, Inv', LinkInv, JobOfResource', CreateParticipant
  PROVE  LinkInv'
<1> DEFINE e == job.entry
           who == Person(job.resource.id)
           new == Len(participant) + 1
           k == Len(lists) + 1
<1>1. /\ Len(entry) \in Nat /\ DOMAIN entry = 1..Len(entry)
      /\ internalMediaEntryMap \subseteq 1..Len(entry)
      /\ internalParticipantMap \subseteq 1..Len(participant)
      /\ \A x \in 1..Len(entry) :
           entry[x].participant = 0 \/ entry[x].participant \in 1..Len(participant)
      /\ \A q \in 1..Len(participant) : participant[q].list \in 1..Len(lists)
      /\ 0 \notin 1..Len(participant)
  BY LinkFacts
<1>2. \A q \in internalParticipantMap : \A x : ~Absent(List(q), x) => Belongs(q, x)
  BY LinkFacts
<1>3. \A q \in internalParticipantMap : participant[q].person # who
  <2>1. who \in Persons
    BY DEF Inv, JobInv, CreateParticipant, EntryResources, EntryIds, Person
  <2>2. 0 = IF who \in Named THEN nameParticipantMap[who] ELSE WithKey(who)
    BY DEF CreateParticipant
  <2> QED
    BY <2>1, <2>2, Lookup, WithKeyIs DEF Inv
<1>4. /\ e \in internalMediaEntryMap /\ e \in 1..Len(entry) /\ Person(entry[e].id) = who
  BY Midst DEF CreateParticipant, LinkInv, JobOfResource
<1>5. /\ entry' = [entry EXCEPT ![e].participant = new]
      /\ lists' = Append(lists, <<e>>)
      /\ internalParticipantMap' = internalParticipantMap \cup {new}
      /\ UNCHANGED internalMediaEntryMap
  BY DEF CreateParticipant, entryMapVars
<1>6. PICK r : /\ participant' = Append(participant, r)
               /\ r.person = who /\ r.list = k
  BY DEF CreateParticipant
<1> HIDE DEF e, who, k
<1>7. /\ Len(participant) \in Nat /\ Len(participant') = new
      /\ \A q \in 1..Len(participant) : participant'[q] = participant[q]
      /\ participant'[new].person = who /\ participant'[new].list = k
      /\ \A q \in 1..Len(participant') : q \in 1..Len(participant) \/ q = new
      /\ new \notin 1..Len(participant) /\ new # 0
  BY <1>6, ParticipantMade
<1>8. /\ Len(entry') = Len(entry)
      /\ \A x \in 1..Len(entry) :
           /\ entry'[x].id = entry[x].id
           /\ x # e => entry'[x].participant = entry[x].participant
      /\ entry'[e].participant = new
  BY <1>4, <1>5, ParticipantSet
<1>9. /\ Len(lists) \in Nat /\ lists' \in Seq(Seq(Nat)) /\ Len(lists') = k
      /\ \A j \in 1..Len(lists) : lists'[j] = lists[j]
      /\ lists'[k] = <<e>>
  <2>1. <<e>> \in Seq(Nat)
    BY <1>1, <1>4
  <2> QED
    BY <1>5, <2>1, ListAt DEF LinkInv, k
<1>10. /\ k \in 1..Len(lists') /\ k \notin 1..Len(lists)
       /\ \A j \in 1..Len(lists) : j \in 1..Len(lists')
  BY <1>9 DEF k
<1>11. \A x : ~Absent(<<e>>, x) <=> x = e
  <2>1. Len(<<e>>) = 1 /\ <<e>>[1] = e
    OBVIOUS
  <2>2. \A i \in 1..1 : i = 1
    OBVIOUS
  <2> QED
    BY <2>1, <2>2 DEF Absent
<1> HIDE DEF new
<1>12. LinkTypes'
  <2>1. \A x \in 1..Len(entry) : entry'[x].participant \in 0..Len(participant')
    <3>1. \A x \in 1..Len(entry) : \/ entry'[x].participant = new
                                \/ entry'[x].participant = entry[x].participant
      BY <1>8
    <3>2. \A q \in 1..Len(participant) : q \in 0..Len(participant')
      BY <1>7 DEF new
    <3>3. new \in 0..Len(participant') /\ 0 \in 0..Len(participant')
      BY <1>7 DEF new
    <3> QED
      BY <1>1, <3>1, <3>2, <3>3
  <2>2. \A q \in 1..Len(participant') : participant'[q].list \in 1..Len(lists')
    BY <1>1, <1>7, <1>10
  <2> QED
    BY <1>8, <1>9, <2>1, <2>2 DEF LinkTypes, EntryObjects, ParticipantObjects
<1>13. EntriesLinked'
  <2> SUFFICES ASSUME NEW x \in internalMediaEntryMap, entry'[x].participant # 0
               PROVE  ~Absent(lists'[participant'[entry'[x].participant].list], x)
    BY <1>5 DEF EntriesLinked, List
  <2>1. CASE x = e
    <3>1. lists'[participant'[entry'[e].participant].list] = <<e>>
      BY <1>7, <1>8, <1>9
    <3>2. ~Absent(<<e>>, e)
      BY <1>11
    <3> QED
      BY <2>1, <3>1, <3>2
  <2>2. CASE x # e
    <3>1. x \in 1..Len(entry) /\ entry'[x].participant = entry[x].participant
      BY <1>1, <1>8, <2>2
    <3>2. ~Absent(lists[participant[entry[x].participant].list], x)
      BY <3>1 DEF LinkInv, EntriesLinked, List
    <3>3. /\ participant'[entry[x].participant] = participant[entry[x].participant]
          /\ participant[entry[x].participant].list \in 1..Len(lists)
      BY <1>1, <1>7, <3>1
    <3> QED
      BY <1>9, <3>1, <3>2, <3>3
  <2> QED
    BY <2>1, <2>2
<1>14. ListsPresent'
  <2> SUFFICES ASSUME NEW q \in internalParticipantMap', NEW x,
                      ~Absent(lists'[participant'[q].list], x)
               PROVE  Belongs(q, x)'
    BY MembersBelong
  <2>1. CASE q = new
    <3>1. x = e
      BY <1>7, <1>9, <1>11, <2>1
    <3> QED
      BY <1>4, <1>5, <1>7, <1>8, <2>1, <3>1 DEF Belongs
  <2>2. CASE q # new
    <3>1. /\ q \in internalParticipantMap /\ q \in 1..Len(participant)
          /\ participant'[q] = participant[q]
          /\ participant[q].list \in 1..Len(lists)
      BY <1>1, <1>5, <1>7, <2>2
    <3>2. Belongs(q, x)
      BY <1>2, <1>9, <3>1 DEF List
    <3>3. x # e
      BY <1>3, <1>4, <3>1, <3>2 DEF Belongs
    <3>4. /\ x \in 1..Len(entry) /\ entry'[x].id = entry[x].id
          /\ entry'[x].participant = entry[x].participant
          /\ entry[x].participant \in 1..Len(participant)
      BY <1>1, <1>8, <3>2, <3>3 DEF Belongs
    <3> QED
      BY <1>5, <1>7, <3>1, <3>2, <3>4 DEF Belongs
  <2> QED
    BY <2>1, <2>2
<1>15. ListsDistinct'
  <2>1. \A q \in internalParticipantMap :
          participant'[q].list = participant[q].list /\ participant'[q].list # k
    BY <1>1, <1>7, <1>10
  <2> QED
    BY <1>5, <1>7, <2>1 DEF LinkInv, ListsDistinct
<1> QED
  BY <1>12, <1>13, <1>14, <1>15 DEF LinkInv

LEMMA PutParticipantLinks ==
  ASSUME Inv, Inv', LinkInv, JobOfResource', NEW id \in job.resources, PutParticipant(id)
  PROVE  LinkInv'
<1> DEFINE who == Person(id)
           old == Existing(id)
           new == Len(participant) + 1
           k == IF old \in internalParticipantMap THEN participant[old].list
                ELSE Len(lists) + 1
<1>1. /\ Len(entry) \in Nat /\ DOMAIN entry = 1..Len(entry)
      /\ internalMediaEntryMap \subseteq 1..Len(entry)
      /\ internalParticipantMap \subseteq 1..Len(participant)
      /\ \A x \in 1..Len(entry) :
           entry[x].participant = 0 \/ entry[x].participant \in 1..Len(participant)
      /\ \A q \in 1..Len(participant) : participant[q].list \in 1..Len(lists)
      /\ 0 \notin 1..Len(participant)
  BY LinkFacts
<1>2. \A q \in internalParticipantMap : \A x : ~Absent(List(q), x) => Belongs(q, x)
  BY LinkFacts
<1>3. old \in internalParticipantMap => participant[old].person = who
  <2>1. id \in Ids /\ who \in Persons
    BY DEF Inv, JobInv, PutParticipant, Ids, Person
  <2>2. old = WithKey(who)
    BY <2>1, ExistingIs DEF Inv
  <2> QED
    BY <1>1, <2>2, WithKeyIs DEF Inv
<1>4. /\ internalParticipantMap' = (internalParticipantMap \ {old}) \cup {new}
      /\ lists' = IF old \in internalParticipantMap THEN lists ELSE Append(lists, <<>>)
      /\ UNCHANGED <<entry, internalMediaEntryMap>>
  BY DEF PutParticipant, entryMapVars
<1>5. PICK r : /\ participant' = Append(participant, r)
               /\ r.person = who /\ r.list = k
  BY DEF PutParticipant
<1> HIDE DEF who, old
<1>6. /\ Len(participant) \in Nat /\ Len(participant') = new
      /\ \A q \in 1..Len(participant) : participant'[q] = participant[q]
      /\ participant'[new].person = who /\ participant'[new].list = k
      /\ \A q \in 1..Len(participant') : q \in 1..Len(participant) \/ q = new
      /\ new \notin 1..Len(participant) /\ new # 0
  BY <1>5, ParticipantMade
<1>7. /\ lists' \in Seq(Seq(Nat)) /\ k \in 1..Len(lists')
      /\ \A j \in 1..Len(lists) : j \in 1..Len(lists') /\ lists'[j] = lists[j]
      /\ old \notin internalParticipantMap => lists'[k] = <<>> /\ k \notin 1..Len(lists)
  <2>1. CASE old \in internalParticipantMap
    BY <1>1, <1>4, <2>1 DEF LinkInv, LinkTypes
  <2>2. CASE old \notin internalParticipantMap
    <3>1. <<>> \in Seq(Nat) /\ LinkTypes
      BY NothingThere DEF LinkInv
    <3>2. lists' = Append(lists, <<>>) /\ k = Len(lists) + 1
      BY <1>4, <2>2
    <3>3. /\ Len(lists) \in Nat /\ lists' \in Seq(Seq(Nat)) /\ Len(lists') = Len(lists) + 1
          /\ \A j \in 1..Len(lists) : lists'[j] = lists[j]
          /\ lists'[Len(lists) + 1] = <<>>
      BY <3>1, <3>2, ListAt
    <3> HIDE DEF k
    <3> QED
      BY <3>2, <3>3
  <2> QED
    BY <2>1, <2>2
<1>8. \A q \in internalParticipantMap : q # old =>
        /\ participant'[q] = participant[q]
        /\ participant[q].list \in 1..Len(lists)
        /\ participant[q].list # k
  <2>1. ASSUME NEW q \in internalParticipantMap, q # old PROVE participant[q].list # k
    <3>1. CASE old \in internalParticipantMap
      BY <2>1, <3>1 DEF LinkInv, ListsDistinct
    <3>2. CASE old \notin internalParticipantMap
      BY <1>1, <1>7, <3>2
    <3> QED
      BY <3>1, <3>2
  <2> QED
    BY <1>1, <1>6, <2>1
<1>9. \A x \in 1..Len(entry) : entry[x].participant # 0 =>
        /\ participant'[entry[x].participant] = participant[entry[x].participant]
        /\ participant[entry[x].participant].list \in 1..Len(lists)
  BY <1>1, <1>6
<1>10. LinkTypes'
  <2>1. \A q \in 1..Len(participant') : participant'[q].list \in 1..Len(lists')
    BY <1>1, <1>6, <1>7
  <2>2. \A x \in 1..Len(entry) : entry[x].participant \in 0..Len(participant')
    <3>1. \A q \in 1..Len(participant) : q \in 0..Len(participant')
      BY <1>6
    <3>2. 0 \in 0..Len(participant')
      BY <1>6
    <3> QED
      BY <1>1, <3>1, <3>2
  <2> QED
    BY <1>4, <1>7, <2>1, <2>2 DEF LinkTypes, EntryObjects, ParticipantObjects
<1> HIDE DEF new, k
<1>11. EntriesLinked'
  <2> SUFFICES ASSUME NEW x \in internalMediaEntryMap, entry[x].participant # 0
               PROVE  ~Absent(lists'[participant'[entry[x].participant].list], x)
    BY <1>4 DEF EntriesLinked, List
  <2>1. ~Absent(lists[participant[entry[x].participant].list], x)
    BY DEF LinkInv, EntriesLinked, List
  <2> QED
    BY <1>1, <1>7, <1>9, <2>1
<1>12. ListsPresent'
  <2> SUFFICES ASSUME NEW q \in internalParticipantMap', NEW x,
                      ~Absent(lists'[participant'[q].list], x)
               PROVE  Belongs(q, x)'
    BY MembersBelong
  <2>1. PICK p \in internalParticipantMap :
          /\ ~Absent(List(p), x)
          /\ participant[p].list = participant'[q].list
          /\ participant[p].person = participant'[q].person
    <3>1. CASE q = new /\ old \in internalParticipantMap
      <4>1. participant[old].list = k /\ k \in 1..Len(lists)
        BY <1>1, <3>1 DEF k
      <4> QED
        BY <1>3, <1>6, <1>7, <3>1, <4>1 DEF List
    <3>2. CASE q = new /\ old \notin internalParticipantMap
      BY <1>6, <1>7, <3>2, NothingThere
    <3>3. CASE q # new
      BY <1>4, <1>7, <1>8, <3>3 DEF List
    <3> QED
      BY <3>1, <3>2, <3>3
  <2>2. Belongs(p, x)
    BY <1>2, <2>1
  <2> QED
    BY <1>1, <1>4, <1>9, <2>1, <2>2 DEF Belongs
<1>13. ListsDistinct'
  BY <1>4, <1>6, <1>8 DEF LinkInv, ListsDistinct
<1> QED
  BY <1>10, <1>11, <1>12, <1>13 DEF LinkInv

LEMMA DeleteParticipantLinks ==
  ASSUME Inv, Inv', LinkInv, JobOfResource', NEW id \in job.deleted, DeleteParticipant(id)
  PROVE  LinkInv'
<1> DEFINE p == idParticipantMap[id]
           gone == p \in internalParticipantMap /\ participant[p].ids \subseteq {id}
<1>1. EntriesGrow /\ ParticipantsGrow
  <2>1. [Next]_vars
    BY DEF Next, ParticipantsStep
  <2> QED
    BY <2>1, NextEntries, NextParticipants
<1>2. /\ Len(entry) \in Nat /\ DOMAIN entry = 1..Len(entry)
      /\ internalMediaEntryMap \subseteq 1..Len(entry)
      /\ internalParticipantMap \subseteq 1..Len(participant)
      /\ \A x \in 1..Len(entry) :
           entry[x].participant = 0 \/ entry[x].participant \in 1..Len(participant)
      /\ \A q \in 1..Len(participant) : participant[q].list \in 1..Len(lists)
      /\ 0 \notin 1..Len(participant)
  BY LinkFacts
<1>3. Len(participant') = Len(participant)
  <2>1. DOMAIN participant' = DOMAIN participant
    BY DEF DeleteParticipant
  <2>2. /\ Len(participant) \in Nat /\ DOMAIN participant = 1..Len(participant)
        /\ Len(participant') \in Nat /\ DOMAIN participant' = 1..Len(participant')
    BY LenProperties DEF Inv, ParticipantInv
  <2> QED
    BY <2>1, <2>2, SameLength
<1>4. UNCHANGED <<lists, internalMediaEntryMap>>
  BY DEF DeleteParticipant, entryMapVars
<1>5. CASE ~gone
  <2>1. UNCHANGED <<entry, internalParticipantMap>>
    BY <1>5 DEF DeleteParticipant
  <2> HIDE DEF gone
  <2> QED
    BY <1>1, <1>2, <1>3, <1>4, <2>1, SameLinks
<1>6. CASE gone
  <2>1. \A q \in internalParticipantMap : \A x : ~Absent(List(q), x) => Belongs(q, x)
    BY LinkFacts
  <2>2. internalParticipantMap' = internalParticipantMap \ {p}
    BY <1>6 DEF DeleteParticipant
  <2>3. /\ DOMAIN entry' = DOMAIN entry
        /\ \A x \in DOMAIN entry : (~Absent(List(p), x) /\ x \in internalMediaEntryMap) \/ entry'[x] = entry[x]
        /\ \A x \in DOMAIN entry : entry'[x].participant = 0 \/ entry'[x] = entry[x]
    <3> DEFINE s == lists[participant[p].list]
    <3>1. entry' = [e \in DOMAIN entry |->
                      IF /\ e \in internalMediaEntryMap
                         /\ \E i \in DOMAIN s : s[i] = e
                      THEN [entry[e] EXCEPT !.participant = 0]
                      ELSE entry[e]]
      BY <1>6 DEF DeleteParticipant
    <3>2. DOMAIN s = 1..Len(s)
      <4>1. participant[p].list \in 1..Len(lists)
        BY <1>2, <1>6
      <4>2. <<>> \in Seq(Nat) /\ LinkTypes
        BY NothingThere DEF LinkInv
      <4> HIDE DEF p
      <4>3. s \in Seq(Nat)
        BY <4>1, <4>2, ListAt
      <4> HIDE DEF s
      <4> QED
        BY <4>3, LenProperties
    <3>3. \A x \in DOMAIN entry : entry[x] \in EntryRecords
      BY EntryFacts DEF Inv
    <3>4. List(p) = s
      BY DEF List
    <3> HIDE DEF s, p
    <3> QED
      BY <3>1, <3>2, <3>3, <3>4 DEF Absent, EntryRecords
  <2>4. Len(entry') = Len(entry)
    <3>1. DOMAIN entry' = 1..Len(entry') /\ Len(entry') \in Nat
      BY LenProperties DEF Inv, EntryInv
    <3> QED
      BY <1>2, <2>3, <3>1, SameLength
  <2> HIDE DEF p
  <2>5. LinkTypes'
    <3>1. \A x \in 1..Len(entry) : entry'[x].participant \in 0..Len(participant)
      <4>1. Len(participant) \in Nat /\ 0 \in 0..Len(participant)
        BY <1>1 DEF ParticipantsGrow
      <4> QED
        BY <1>2, <2>3, <4>1
    <3>2. \A q \in 1..Len(participant) : participant'[q].list = participant[q].list
      BY <1>1 DEF ParticipantsGrow
    <3> QED
      BY <1>2, <1>3, <1>4, <2>4, <3>1, <3>2
         DEF LinkInv, LinkTypes, EntryObjects, ParticipantObjects
  <2>6. EntriesLinked'
    <3> SUFFICES ASSUME NEW x \in internalMediaEntryMap, entry'[x].participant # 0
                 PROVE  ~Absent(lists[participant'[entry'[x].participant].list], x)
      BY <1>4 DEF EntriesLinked, List
    <3>1. x \in 1..Len(entry) /\ entry'[x] = entry[x]
      BY <1>2, <2>3
    <3>2. ~Absent(lists[participant[entry[x].participant].list], x)
      BY <3>1 DEF LinkInv, EntriesLinked, List
    <3>3. participant'[entry[x].participant].list = participant[entry[x].participant].list
      BY <1>1, <1>2, <3>1 DEF ParticipantsGrow
    <3> QED
      BY <3>1, <3>2, <3>3
  <2>7. ListsPresent'
    <3> SUFFICES ASSUME NEW q \in internalParticipantMap', NEW x,
                        ~Absent(lists[participant'[q].list], x)
                 PROVE  Belongs(q, x)'
      BY <1>4, MembersBelong
    <3>1. /\ q \in internalParticipantMap /\ q # p
          /\ participant'[q].list = participant[q].list
          /\ participant'[q].person = participant[q].person
      BY <1>1, <1>2, <2>2 DEF ParticipantsGrow
    <3>2. Belongs(q, x) /\ x \in 1..Len(entry)
      BY <1>2, <2>1, <3>1 DEF List, Belongs
    <3>3. Absent(List(p), x)
      BY <1>6, <2>1, <3>1, <3>2 DEF Belongs, LinkInv, ListsDistinct, p
    <3>4. entry'[x] = entry[x]
      BY <1>2, <2>3, <3>2, <3>3
    <3>5. participant'[entry[x].participant].list = participant[entry[x].participant].list
      BY <1>1, <1>2, <3>2 DEF Belongs, ParticipantsGrow
    <3> QED
      BY <1>4, <3>1, <3>2, <3>4, <3>5 DEF Belongs
  <2>8. ListsDistinct'
    BY <1>1, <1>2, <2>2 DEF LinkInv, ListsDistinct, ParticipantsGrow
  <2> QED
    BY <2>5, <2>6, <2>7, <2>8 DEF LinkInv
<1> QED
  BY <1>5, <1>6

LEMMA NextLinks ==
  ASSUME Inv, Inv', LinkInv, [Next]_vars
  PROVE  LinkInv'
<1>1. JobOfResource' /\ EntriesGrow /\ ParticipantsGrow
  BY NextJobOfResource, NextEntries, NextParticipants DEF LinkInv
<1>2. /\ Len(entry) \in Nat /\ DOMAIN entry = 1..Len(entry)
      /\ internalMediaEntryMap \subseteq 1..Len(entry)
      /\ \A x \in 1..Len(entry) : entry[x] \in EntryRecords
  BY LinkFacts, EntryFacts DEF Inv
<1>3. internalMediaEntryMap \cap (1..Len(entry)) = internalMediaEntryMap
      /\ (internalMediaEntryMap \cup {Len(entry) + 1}) \cap (1..Len(entry)) = internalMediaEntryMap
  <2>1. Len(entry) + 1 \notin 1..Len(entry)
    BY <1>2
  <2> QED
    BY <1>2, <2>1
<1>4. ASSUME UNCHANGED <<lists, participant, internalParticipantMap>>,
             \/ UNCHANGED internalMediaEntryMap
             \/ internalMediaEntryMap' = internalMediaEntryMap \cup {Len(entry) + 1},
             \A x \in 1..Len(entry) : entry'[x].participant = entry[x].participant
      PROVE  LinkInv'
  BY <1>1, <1>3, <1>4, SameLinks
<1>5. ASSUME NEW x, NEW r, entry' = [entry EXCEPT ![x] = r],
             x \in DOMAIN entry => r.participant = entry[x].participant,
             UNCHANGED <<lists, participant, internalParticipantMap, internalMediaEntryMap>>
      PROVE  LinkInv'
  <2>1. \A y \in 1..Len(entry) : entry'[y].participant = entry[y].participant
    BY <1>2, <1>5
  <2> QED
    BY <1>4, <1>5, <2>1
<1>6. CASE \/ UNCHANGED vars \/ Terminated \/ OnMediaEntriesMessage \/ OnParticipantsMessage
           \/ OnVideoAssignmentMessage
  BY <1>4, <1>6 DEF vars, Terminated, OnMediaEntriesMessage, OnParticipantsMessage,
     OnVideoAssignmentMessage, Begin, participantVars, entryMapVars
<1>7. CASE EntriesStep
  <2>1. ASSUME NEW id \in job.deleted, DeleteUnknownEntry(id) \/ DeleteEntryThrows(id)
        PROVE  LinkInv'
    BY <1>4, <2>1 DEF DeleteUnknownEntry, DeleteEntryThrows, participantVars, entryMapVars
  <2>2. ASSUME NEW r \in job.resources, StoreEntry(r) PROVE LinkInv'
    <3> DEFINE x == idMediaEntryMap[r.id]
               y == [entry[x] EXCEPT !.audioCsrc = (r.audio # "none")]
               z == [NewEntry(r.id) EXCEPT !.audioCsrc = (r.audio # "none")]
    <3>1. UNCHANGED <<lists, participant, internalParticipantMap>>
      BY <2>2 DEF StoreEntry, participantVars
    <3>2. CASE x # 0
      <4>1. entry' = [entry EXCEPT ![x] = y] /\ UNCHANGED internalMediaEntryMap
        BY <2>2, <3>2 DEF StoreEntry, entryMapVars
      <4>2. x \in DOMAIN entry => y.participant = entry[x].participant
        BY <1>2 DEF EntryRecords
      <4> HIDE DEF x, y
      <4> QED
        BY <1>5, <3>1, <4>1, <4>2
    <3>3. CASE x = 0
      <4>1. /\ entry' = Append(entry, z)
            /\ internalMediaEntryMap' = internalMediaEntryMap \cup {Len(entry) + 1}
        BY <2>2, <3>3 DEF StoreEntry
      <4> HIDE DEF z
      <4>2. entry \in Seq(EntryRecords \cup {z})
        BY SeqDef DEF Inv, EntryInv
      <4>3. \A y1 \in 1..Len(entry) : entry'[y1] = entry[y1]
        BY <4>1, <4>2, AppendProperties
      <4> QED
        BY <1>4, <3>1, <4>1, <4>3
    <3> QED
      BY <3>2, <3>3
  <2>3. CASE KeepAudio \/ SetRoles \/ FinishEntries
    BY <1>4, <2>3 DEF KeepAudio, SetRoles, FinishEntries, participantVars, entryMapVars
  <2>4. CASE AssignAudio
    <3>1. PICK t : entry' = [entry EXCEPT ![job.entry].audio = t]
      BY <2>4 DEF AssignAudio
    <3> DEFINE x == job.entry
               y == [entry[x] EXCEPT !.audio = t]
    <3>2. /\ entry' = [entry EXCEPT ![x] = y]
          /\ x \in DOMAIN entry => y.participant = entry[x].participant
      BY <1>2, <3>1 DEF EntryRecords
    <3>3. UNCHANGED <<lists, participant, internalParticipantMap, internalMediaEntryMap>>
      BY <2>4 DEF AssignAudio, participantVars, entryMapVars
    <3> HIDE DEF x, y
    <3> QED
      BY <1>5, <3>2, <3>3
  <2> QED
    BY <1>1, <1>7, <2>1, <2>2, <2>3, <2>4, DeleteEntryLinks, AssignParticipantLinks,
       CreateParticipantLinks DEF EntriesStep
<1>8. CASE ParticipantsStep
  <2>1. CASE FinishParticipants
    BY <1>4, <2>1 DEF FinishParticipants, entryMapVars
  <2> QED
    BY <1>1, <1>8, <2>1, PutParticipantLinks, DeleteParticipantLinks DEF ParticipantsStep
<1>9. CASE VideoStep
  <2>1. ASSUME NEW c \in job.resources, UpdateCanvas(c) PROVE LinkInv'
    <3> DEFINE x == layout[c.canvas]
               y == [entry[x] EXCEPT !.ssrc = c.ssrc]
    <3>1. /\ entry' = [entry EXCEPT ![x] = y]
          /\ x \in DOMAIN entry => y.participant = entry[x].participant
          /\ UNCHANGED <<lists, participant, internalParticipantMap, internalMediaEntryMap>>
      BY <1>2, <2>1 DEF UpdateCanvas, EntryRecords, participantVars, entryMapVars
    <3> HIDE DEF x, y
    <3> QED
      BY <1>5, <3>1
  <2>2. ASSUME NEW c \in job.resources, AssignCanvas(c) PROVE LinkInv'
    <3>1. \A x \in 1..Len(entry) : entry'[x].participant = entry[x].participant
      BY <2>2, CanvasGrows
    <3>2. /\ UNCHANGED <<lists, participant, internalParticipantMap>>
          /\ \/ UNCHANGED internalMediaEntryMap
             \/ internalMediaEntryMap' = internalMediaEntryMap \cup {Len(entry) + 1}
      BY <2>2 DEF AssignCanvas, participantVars, entryMapVars
    <3> QED
      BY <1>4, <3>1, <3>2
  <2>3. CASE AssignVideo
    <3> DEFINE x == job.entry
               y == [entry[x] EXCEPT !.video = 0]
    <3>1. UNCHANGED <<lists, participant, internalParticipantMap, internalMediaEntryMap>>
      BY <2>3 DEF AssignVideo, participantVars, entryMapVars
    <3>2. CASE entry' = [entry EXCEPT ![x] = y]
      <4>1. x \in DOMAIN entry => y.participant = entry[x].participant
        BY <1>2 DEF EntryRecords
      <4> HIDE DEF x, y
      <4> QED
        BY <1>5, <3>1, <3>2, <4>1
    <3>3. CASE UNCHANGED entry
      BY <1>4, <3>1, <3>3
    <3> QED
      BY <2>3, <3>2, <3>3 DEF AssignVideo
  <2>4. CASE FinishAssignment
    BY <1>4, <2>4 DEF FinishAssignment, participantVars, entryMapVars
  <2> QED
    BY <1>9, <2>1, <2>2, <2>3, <2>4 DEF VideoStep
<1>10. ASSUME NEW t \in Tracks, NEW x \in 1..Len(entry), OnFrame(t, x) \/ EndLoop(t, x)
       PROVE  LinkInv'
  <2>1. UNCHANGED <<lists, participant, internalParticipantMap, internalMediaEntryMap>>
    BY <1>10 DEF OnFrame, EndLoop, participantVars, entryMapVars
  <2>2. CASE EndLoop(t, x)
    BY <1>4, <2>1, <2>2 DEF EndLoop
  <2>3. CASE OnFrame(t, x)
    <3>1. PICK y \in {[entry[x] EXCEPT !.audio = t], [entry[x] EXCEPT !.video = t]} :
            entry' = [entry EXCEPT ![x] = y]
      BY <2>3 DEF OnFrame
    <3>2. x \in DOMAIN entry => y.participant = entry[x].participant
      BY <1>2, <3>1 DEF EntryRecords
    <3> QED
      BY <1>5, <2>1, <3>1, <3>2
  <2> QED
    BY <1>10, <2>2, <2>3
<1> QED
  BY <1>6, <1>7, <1>8, <1>9, <1>10 DEF Next

-----------------------------------------------------------------------------
(***************************************************************************)
(* The maps, the links and the lists.                                      *)
(***************************************************************************)

FullInv ==
  Inv /\ TracksInv /\ ShapeInv /\ EntriesShown /\ ParticipantsShown /\ LinkInv

LEMMA InitFullInv == Init => FullInv
<1> SUFFICES ASSUME Init PROVE FullInv
  OBVIOUS
<1>1. Inv /\ TracksInv /\ ShapeInv
  BY InitInv, InitTracks
<1>2. /\ entry = <<>> /\ participant = <<>> /\ lists = <<>>
      /\ internalMediaEntryMap = {} /\ internalParticipantMap = {}
      /\ mediaEntries = <<>> /\ participants = <<>>
      /\ job.channel = "none" /\ job.stage = "next"
  BY DEF Init, Idle
<1>3. /\ Len(entry) = 0 /\ Len(participant) = 0 /\ Len(lists) = 0
      /\ \A U : <<>> \in Seq(U)
  BY <1>2, EmptySeq, NothingThere
<1>4. EntriesShown
  BY <1>2, <1>3 DEF EntriesShown, Holds, Absent, EntryObjects
<1>5. ParticipantsShown
  BY <1>2, <1>3 DEF ParticipantsShown
<1>6. 1..0 = {}
  OBVIOUS
<1>7. LinkInv
  BY <1>2, <1>3, <1>6 DEF LinkInv, LinkTypes, EntriesLinked, ListsPresent, ListsDistinct,
     JobOfResource, EntryObjects, ParticipantObjects
<1> QED
  BY <1>1, <1>4, <1>5, <1>7 DEF FullInv

THEOREM FullInvHolds == Spec => []FullInv
<1>1. Init => FullInv
  BY InitFullInv
<1>2. FullInv /\ [Next]_vars => FullInv'
  BY NextInv, NextTracks, NextShape, NextEntriesShown, NextParticipantsShown, NextLinks
     DEF FullInv
<1> QED
  BY <1>1, <1>2, PTL DEF Spec

LEMMA FullInvTypes ==
  ASSUME FullInv
  PROVE  TypeOK
<1>1. Inv /\ TracksInv /\ ShapeInv /\ EntriesShown /\ ParticipantsShown /\ LinkInv
  BY DEF FullInv
<1>2. /\ Len(entry) \in Nat /\ Len(participant) \in Nat
      /\ EntryObjects = 1..Len(entry) /\ ParticipantObjects = 1..Len(participant)
      /\ ObjectOrNone = EntryObjects \cup {0}
  BY <1>1, LinkFacts DEF EntryObjects, ParticipantObjects, ObjectOrNone
<1>3. /\ entry \in Seq(EntryRecords)
      /\ participant \in Seq([person : Persons, ids : SUBSET Ids, list : Nat])
      /\ internalMediaEntryMap \subseteq EntryObjects
      /\ internalParticipantMap \subseteq ParticipantObjects
      /\ lists \in Seq(Seq(Nat))
  BY <1>1, <1>2 DEF Inv, EntryInv, ParticipantInv, LinkInv, LinkTypes
<1>4. idMediaEntryMap \in [EntryIds -> EntryObjects \cup {0}]
  BY <1>1, <1>3 DEF Inv, EntryInv, EntryMapsAgree
<1>5. idParticipantMap \in [Ids -> ParticipantObjects \cup {0}]
  BY <1>1, <1>3 DEF Inv, ParticipantInv, ParticipantMapsAgree
<1>6. nameParticipantMap \in [Named -> ParticipantObjects \cup {0}]
  <2>1. \A n \in Named : nameParticipantMap[n] = WithKey(n)
    BY <1>1 DEF Inv, ParticipantInv, ParticipantMapsAgree
  <2>2. \A n : WithKey(n) \in ParticipantObjects \cup {0}
    BY <1>1, <1>3, WithKeyIs DEF Inv
  <2> QED
    BY <1>1, <2>1, <2>2 DEF Inv, ParticipantInv
<1>7. spotlight \in [Roles -> EntryObjects \cup {0}]
  BY <1>1, <1>3 DEF Inv, EntryInv, SpotlightPresent, ShapeInv
<1>8. /\ layout \in [Layouts -> EntryObjects \cup {0}]
      /\ track \in [Tracks -> [entry : EntryObjects \cup {0}, ssrc : Ssrcs \cup {0}]]
      /\ IsABag(loops) /\ BagToSet(loops) \subseteq Tracks \X EntryObjects
  BY <1>1, <1>2 DEF TracksInv, BagToSet
<1>9. job.array \in Seq(Nat) /\ job.added \in Seq(Nat)
  <2>1. \A n \in Nat : \A s \in Seq(1..n) : s \in Seq(Nat)
    <3> SUFFICES ASSUME NEW n \in Nat, NEW s \in Seq(1..n) PROVE s \in Seq(Nat)
      OBVIOUS
    <3>1. Len(s) \in Nat /\ s \in [1..Len(s) -> Nat]
      BY LenProperties
    <3> QED
      BY <3>1, Places
  <2>2. CASE job.channel = "entries"
    BY <1>1, <1>2, <2>1, <2>2 DEF EntriesShown
  <2>3. CASE job.channel = "participants"
    BY <1>1, <1>2, <2>1, <2>3 DEF ParticipantsShown
  <2>4. CASE job.channel \in {"none", "video"}
    BY <1>1, <2>4, NothingThere DEF ShapeInv
  <2> QED
    BY <1>1, <2>2, <2>3, <2>4 DEF ShapeInv
<1>10. /\ job.channel \in {"none", "entries", "participants", "video"}
       /\ job.stage \in {"next", "audio", "participant", "roles", "track"}
       /\ job.entry \in EntryObjects \cup {0}
       /\ messages \in 0..MaxMessages /\ threw \in BOOLEAN
       /\ mediaEntries \in Seq(EntryObjects) /\ participants \in Seq(ParticipantObjects)
  BY <1>1, <1>2 DEF ShapeInv, Inv, JobInv, EntriesShown, ParticipantsShown
<1> QED
  BY <1>3, <1>4, <1>5, <1>6, <1>7, <1>8, <1>9, <1>10 DEF TypeOK

LEMMA FullInvLinks ==
  ASSUME FullInv
  PROVE  LinksAgree
<1>1. Inv /\ LinkInv
  BY DEF FullInv
<1>2. /\ internalMediaEntryMap \subseteq 1..Len(entry)
      /\ internalParticipantMap \subseteq 1..Len(participant)
      /\ \A x \in 1..Len(entry) :
           entry[x].participant = 0 \/ entry[x].participant \in 1..Len(participant)
      /\ \A q \in 1..Len(participant) : participant[q].list \in 1..Len(lists)
  BY <1>1, LinkFacts
<1>3. \A q \in 1..Len(participant) : DOMAIN List(q) = 1..Len(List(q))
  <2> SUFFICES ASSUME NEW q \in 1..Len(participant) PROVE DOMAIN List(q) = 1..Len(List(q))
    OBVIOUS
  <2>1. participant[q].list \in 1..Len(lists) /\ LinkTypes /\ <<>> \in Seq(Nat)
    BY <1>1, <1>2, NothingThere DEF LinkInv
  <2>2. List(q) \in Seq(Nat)
    BY <2>1, ListAt DEF List
  <2> QED
    BY <2>2, LenProperties
<1>4. ASSUME NEW e \in internalMediaEntryMap, entry[e].participant # 0
      PROVE  Occurs(lists[participant[entry[e].participant].list], e) # {}
  <2>1. ~Absent(List(entry[e].participant), e)
    BY <1>1, <1>4 DEF LinkInv, EntriesLinked
  <2> QED
    BY <1>2, <1>3, <1>4, <2>1 DEF Absent, Occurs, List
<1>5. ASSUME NEW p \in internalParticipantMap, NEW i \in DOMAIN List(p)
      PROVE  Belongs(p, List(p)[i])
  BY <1>1, <1>2, <1>3, <1>5 DEF LinkInv, ListsPresent
<1> QED
  BY <1>4, <1>5 DEF LinksAgree, Belongs, List

LEMMA FullInvLists ==
  ASSUME FullInv
  PROVE  ResourcesListed
<1>1. Inv /\ EntriesShown /\ ParticipantsShown /\ LinkInv
  BY DEF FullInv
<1>2. job = Idle => job.channel = "none"
  BY DEF Idle
<1>3. EntriesListed
  <2> SUFFICES ASSUME job = Idle, ~threw
               PROVE  /\ \A e \in internalMediaEntryMap : Cardinality(Occurs(mediaEntries, e)) = 1
                      /\ Len(mediaEntries) = Cardinality(internalMediaEntryMap)
    BY DEF EntriesListed
  <2> DEFINE T == internalMediaEntryMap
  <2>1. /\ Len(entry) \in Nat /\ T \subseteq 1..Len(entry)
        /\ Holds(mediaEntries, T, 1..Len(entry))
    BY <1>1, <1>2, LinkFacts DEF EntriesShown, EntryObjects
  <2>2. mediaEntries \in Seq(1..Len(entry))
    BY <2>1 DEF Holds
  <2>3. \A x \in T : Once(mediaEntries, x)
    BY <2>1 DEF Holds
  <2>4. \A x : x \notin T => Absent(mediaEntries, x)
    <3>1. \A x : x \notin 1..Len(entry) => Absent(mediaEntries, x)
      BY <2>2, LenProperties DEF Absent
    <3> QED
      BY <2>1, <3>1 DEF Holds
  <2>5. Len(mediaEntries) = Cardinality(T)
    BY <2>2, <2>3, <2>4, OnceEachLen
  <2> QED
    BY <2>2, <2>3, <2>5, OnceOccurs
<1>4. ParticipantsListed
  BY <1>1, <1>2, OnceOccurs DEF ParticipantsListed, ParticipantsShown
<1> QED
  BY <1>3, <1>4 DEF ResourcesListed

\* Whatever the messages of the three channels and their order, the indices of
\* media entries and participants describe the same objects, a media entry is in
\* the list of the participant object that it names, and the list of a present
\* participant has only present entries of that person, which have a participant:
\* neither the deletion of an entry, nor that of a participant's last id, nor a
\* participant found first by its media entry and then replaced leaves an entry
\* that is gone, or another person's, in a list.
THEOREM MapsSafe == Spec => []MapsAgree
<1>1. FullInv => MapsAgree
  BY FullInvTypes, FullInvLinks DEF MapsAgree, FullInv, Inv, EntryInv, ParticipantInv
<1> QED
  BY <1>1, FullInvHolds, PTL

\* Between messages the lists that the application subscribes to have each
\* present participant once, and, until a handler throws, each present media
\* entry once and no other: a list is replaced at the end of a message by what
\* its handler filtered and added meanwhile, and the handlers of the other two
\* channels add to it as well.
THEOREM ListsSafe == Spec => []ResourcesListed
<1>1. FullInv => ResourcesListed
  BY FullInvLists
<1> QED
  BY <1>1, FullInvHolds, PTL

=============================================================================
