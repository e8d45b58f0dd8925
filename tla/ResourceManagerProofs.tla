------------------------- MODULE ResourceManagerProofs -------------------------
(***************************************************************************)
(* Proofs about ResourceManager for any number of sessions, keys, ids and  *)
(* csrcs, whatever ids and csrcs a resource has from snapshot to snapshot, *)
(* up to the first read through a dangling pointer.                        *)
(***************************************************************************)
EXTENDS ResourceManager, TLAPS

\* No two media entries share a session, an id or a stream.  The owner holds
\* the entries the server last described, each of them is found under its id
\* and its streams, and what a lookup once pointed to was an object of its key.
EntryInv ==
  /\ \A x, y \in entries :
       x # y => /\ x.session # y.session
                /\ x.id # y.id
                /\ x.csrcs \cap y.csrcs \subseteq {NoStream}
  /\ \A s \in Sessions :
       bySession[s] # None => bySession[s] \in entries /\ bySession[s].session = s
  /\ \A e \in entries : bySession[e.session] = e /\ byEntryId[e.id] = e
  /\ \A e \in entries : \A c \in e.csrcs : c # NoStream => byCsrc[c] = e
  /\ \A c \in Csrcs : byCsrc[c] # None => c \in byCsrc[c].csrcs
  /\ \A i \in Ids : byEntryId[i] # None => byEntryId[i].id = i

\* The same of the participants.
ParticipantInv ==
  /\ \A x, y \in participants : x # y => x.key # y.key /\ x.id # y.id
  /\ \A k \in Keys : byKey[k] # None => byKey[k] \in participants /\ byKey[k].key = k
  /\ \A p \in participants : byKey[p.key] = p /\ byParticipantId[p.id] = p
  /\ \A i \in Ids : byParticipantId[i] # None => byParticipantId[i].id = i

\* The inductive invariant.
Inv == TypeOK /\ (~undefined => EntryInv /\ ParticipantInv)

-----------------------------------------------------------------------------
(***************************************************************************)
(* The type invariant.                                                     *)
(***************************************************************************)

\* No handler stores anything but an object or nothing under a key.
LEMMA TypeStep == TypeOK /\ [Next]_vars => TypeOK'
<1> SUFFICES ASSUME TypeOK, [Next]_vars PROVE TypeOK'
  OBVIOUS
<1>1. ASSUME NEW e \in MediaEntries, UpdateEntry(e) PROVE TypeOK'
  <2>1. e.session \in Sessions /\ e.id \in Ids /\ e.csrcs \subseteq Csrcs
    BY DEF MediaEntries
  <2>2. byCsrc' \in [Csrcs -> MediaEntries \cup {None}]
    BY <1>1, <2>1 DEF UpdateEntry, TypeOK
  <2> QED
    BY <1>1, <2>1, <2>2 DEF UpdateEntry, TypeOK, participantVars
<1>2. ASSUME NEW p \in Participants, UpdateParticipant(p) PROVE TypeOK'
  <2>1. p.key \in Keys /\ p.id \in Ids
    BY DEF Participants
  <2> QED
    BY <1>2, <2>1 DEF UpdateParticipant, TypeOK, entryVars
<1>3. ASSUME NEW i \in Ids, DeleteEntry(i) PROVE TypeOK'
  <2>1. /\ entries' \subseteq MediaEntries
        /\ byEntryId' \in [Ids -> MediaEntries \cup {None}]
        /\ undefined' \in BOOLEAN
    BY <1>3 DEF DeleteEntry, TypeOK, EntryLives
  <2>2. CASE byEntryId[i] = None
    BY <1>3, <2>1, <2>2 DEF DeleteEntry, TypeOK, participantVars
  <2>3. CASE byEntryId[i] # None
    <3>1. PICK e \in ReadEntry(byEntryId[i]) :
            /\ byCsrc' = [c \in Csrcs |-> IF c \in e.csrcs THEN None ELSE byCsrc[c]]
            /\ bySession' = [bySession EXCEPT ![e.session] = None]
      BY <1>3, <2>3 DEF DeleteEntry
    <3>2. byCsrc' \in [Csrcs -> MediaEntries \cup {None}]
      BY <3>1 DEF TypeOK
    <3>3. bySession' \in [Sessions -> MediaEntries \cup {None}]
      BY <3>1 DEF TypeOK
    <3> QED
      BY <1>3, <2>1, <3>2, <3>3 DEF DeleteEntry, TypeOK, participantVars
  <2> QED
    BY <2>2, <2>3
<1>4. ASSUME NEW i \in Ids, DeleteParticipant(i) PROVE TypeOK'
  <2>1. /\ participants' \subseteq Participants
        /\ byParticipantId' \in [Ids -> Participants \cup {None}]
        /\ undefined' \in BOOLEAN
    BY <1>4 DEF DeleteParticipant, TypeOK, ParticipantLives
  <2>2. byKey' \in [Keys -> Participants \cup {None}]
    BY <1>4 DEF DeleteParticipant, TypeOK
  <2> QED
    BY <1>4, <2>1, <2>2 DEF DeleteParticipant, TypeOK, entryVars
<1>5. CASE UNCHANGED vars
  BY <1>5 DEF vars, entryVars, participantVars, TypeOK
<1> QED
  BY <1>1, <1>2, <1>3, <1>4, <1>5 DEF Next

\* The maps hold objects of their kind, for any server.
THEOREM TypeCorrect == Spec => []TypeOK
<1>1. Init => TypeOK
  BY DEF Init, TypeOK
<1> QED
  BY <1>1, TypeStep, PTL DEF Spec

-----------------------------------------------------------------------------
(***************************************************************************)
(* The lookups.                                                            *)
(***************************************************************************)

\* A snapshot of a media entry replaces the object of its session; the other
\* entries have neither its id nor its streams, so their lookups stay.
LEMMA UpdateEntryStep ==
  ASSUME TypeOK, EntryInv, NEW e \in MediaEntries, UpdateEntry(e)
  PROVE  EntryInv'
<1>0. e.session \in Sessions /\ e.id \in Ids /\ e.csrcs \subseteq Csrcs /\ e # None
  BY NoneAssumption DEF MediaEntries
<1>1. \A x \in entries :
        /\ x \in MediaEntries /\ x # None
        /\ x.session \in Sessions /\ x.id \in Ids /\ x.csrcs \subseteq Csrcs
  BY NoneAssumption DEF TypeOK, MediaEntries
<1>2. \A x \in entries :
        x.session # e.session => x.id # e.id /\ x.csrcs \cap e.csrcs \subseteq {NoStream}
  BY DEF UpdateEntry, EntryMayBecome
<1>3. \A x : x \in entries' <=> x = e \/ (x \in entries /\ x.session # e.session)
  BY DEF UpdateEntry
<1>4. \A s \in Sessions : bySession'[s] = IF s = e.session THEN e ELSE bySession[s]
  BY <1>0 DEF UpdateEntry, TypeOK
<1>5. \A i \in Ids : byEntryId'[i] = IF i = e.id THEN e ELSE byEntryId[i]
  BY <1>0 DEF UpdateEntry, TypeOK
<1>6. \A c \in Csrcs : byCsrc'[c] = IF c \in e.csrcs THEN e ELSE byCsrc[c]
  BY DEF UpdateEntry
<1>7. \A x, y \in entries' :
        x # y => /\ x.session # y.session
                 /\ x.id # y.id
                 /\ x.csrcs \cap y.csrcs \subseteq {NoStream}
  BY <1>2, <1>3 DEF EntryInv
<1>8. \A s \in Sessions :
        bySession'[s] # None => bySession'[s] \in entries' /\ bySession'[s].session = s
  BY <1>3, <1>4 DEF EntryInv
<1>9. \A x \in entries' : bySession'[x.session] = x /\ byEntryId'[x.id] = x
  BY <1>0, <1>1, <1>2, <1>3, <1>4, <1>5 DEF EntryInv
<1>10. \A x \in entries' : \A c \in x.csrcs : c # NoStream => byCsrc'[c] = x
  BY <1>0, <1>1, <1>2, <1>3, <1>6 DEF EntryInv
<1>11. \A c \in Csrcs : byCsrc'[c] # None => c \in byCsrc'[c].csrcs
  BY <1>6 DEF EntryInv
<1>12. \A i \in Ids : byEntryId'[i] # None => byEntryId'[i].id = i
  BY <1>5 DEF EntryInv
<1> QED
  BY <1>7, <1>8, <1>9, <1>10, <1>11, <1>12 DEF EntryInv

\* A deletion that finds a live object finds that of its id, and takes it out
\* of every map.
LEMMA DeleteEntryStep ==
  ASSUME TypeOK, EntryInv, NEW i \in Ids, DeleteEntry(i), ~undefined'
  PROVE  EntryInv'
<1>1. \A x \in entries :
        /\ x \in MediaEntries /\ x # None
        /\ x.session \in Sessions /\ x.id \in Ids /\ x.csrcs \subseteq Csrcs
  BY NoneAssumption DEF TypeOK, MediaEntries
<1>2. \A x : x \in entries' <=> x \in entries /\ x.id # i
  BY DEF DeleteEntry
<1>3. \A j \in Ids : byEntryId'[j] = IF j = i THEN None ELSE byEntryId[j]
  BY DEF DeleteEntry, TypeOK
<1>4. \A x, y \in entries' :
        x # y => /\ x.session # y.session
                 /\ x.id # y.id
                 /\ x.csrcs \cap y.csrcs \subseteq {NoStream}
  BY <1>2 DEF EntryInv
<1>5. \A j \in Ids :
        byEntryId'[j] # None => byEntryId'[j].id = j
  BY <1>3 DEF EntryInv
<1>6. CASE byEntryId[i] = None
  <2>1. \A x : x \in entries' <=> x \in entries
    BY <1>1, <1>2, <1>6 DEF EntryInv
  <2>2. byCsrc' = byCsrc /\ bySession' = bySession
    BY <1>6 DEF DeleteEntry
  <2>3. \A x \in entries' : byEntryId'[x.id] = x
    BY <1>1, <1>2, <1>3 DEF EntryInv
  <2> QED
    BY <1>4, <1>5, <2>1, <2>2, <2>3 DEF EntryInv
<1>7. CASE byEntryId[i] # None
  <2> DEFINE e == byEntryId[i]
  <2>0. EntryLives(e) /\ e \in MediaEntries /\ e # None
    BY <1>7 DEF DeleteEntry, TypeOK
  <2>1. e \in entries /\ e.id = i /\ bySession[e.session] = e
    BY <1>7, <2>0 DEF EntryInv, EntryLives, MediaEntries
  <2>2. ReadEntry(e) = {e}
    BY <2>0 DEF ReadEntry
  <2>3. /\ byCsrc' = [c \in Csrcs |-> IF c \in e.csrcs THEN None ELSE byCsrc[c]]
        /\ bySession' = [bySession EXCEPT ![e.session] = None]
    BY <1>7, <2>2 DEF DeleteEntry
  <2>4. e.session \in Sessions /\ e.csrcs \subseteq Csrcs
    BY <1>1, <2>1
  <2> HIDE DEF e
  <2>5. \A s \in Sessions : bySession'[s] = IF s = e.session THEN None ELSE bySession[s]
    BY <2>3, <2>4 DEF TypeOK
  <2>6. \A c \in Csrcs : byCsrc'[c] = IF c \in e.csrcs THEN None ELSE byCsrc[c]
    BY <2>3
  <2>7. \A x : x \in entries' <=> x \in entries /\ x # e
    BY <1>2, <2>1 DEF EntryInv
  <2>8. \A s \in Sessions :
          bySession'[s] # None => bySession'[s] \in entries' /\ bySession'[s].session = s
    BY <2>5, <2>7 DEF EntryInv
  <2>9. \A x \in entries' : bySession'[x.session] = x /\ byEntryId'[x.id] = x
    BY <1>1, <1>2, <1>3, <2>1, <2>5, <2>7 DEF EntryInv
  <2>10. \A x \in entries' : \A c \in x.csrcs : c # NoStream => byCsrc'[c] = x
    <3> SUFFICES ASSUME NEW x \in entries', NEW c \in x.csrcs, c # NoStream
                 PROVE  byCsrc'[c] = x
      OBVIOUS
    <3>1. x \in entries /\ x # e /\ c \in Csrcs
      BY <1>1, <2>7
    <3>2. c \notin e.csrcs
      BY <2>1, <3>1 DEF EntryInv
    <3> QED
      BY <2>6, <3>1, <3>2 DEF EntryInv
  <2>11. \A c \in Csrcs :
           byCsrc'[c] # None => c \in byCsrc'[c].csrcs
    BY <2>6 DEF EntryInv
  <2> QED
    BY <1>4, <1>5, <2>8, <2>9, <2>10, <2>11 DEF EntryInv
<1> QED
  BY <1>6, <1>7

\* A snapshot of a participant replaces the object of its key.
LEMMA UpdateParticipantStep ==
  ASSUME TypeOK, ParticipantInv, NEW p \in Participants, UpdateParticipant(p)
  PROVE  ParticipantInv'
<1>0. p.key \in Keys /\ p.id \in Ids /\ p # None
  BY NoneAssumption DEF Participants
<1>1. \A x \in participants : x # None /\ x.key \in Keys /\ x.id \in Ids
  BY NoneAssumption DEF TypeOK, Participants
<1>2. \A x \in participants : x.key # p.key => x.id # p.id
  BY DEF UpdateParticipant, ParticipantMayBecome
<1>3. \A x : x \in participants' <=> x = p \/ (x \in participants /\ x.key # p.key)
  BY DEF UpdateParticipant
<1>4. \A k \in Keys : byKey'[k] = IF k = p.key THEN p ELSE byKey[k]
  BY <1>0 DEF UpdateParticipant, TypeOK
<1>5. \A i \in Ids : byParticipantId'[i] = IF i = p.id THEN p ELSE byParticipantId[i]
  BY <1>0 DEF UpdateParticipant, TypeOK
<1>6. \A x, y \in participants' : x # y => x.key # y.key /\ x.id # y.id
  BY <1>2, <1>3 DEF ParticipantInv
<1>7. \A k \in Keys :
        byKey'[k] # None => byKey'[k] \in participants' /\ byKey'[k].key = k
  BY <1>3, <1>4 DEF ParticipantInv
<1>8. \A x \in participants' : byKey'[x.key] = x /\ byParticipantId'[x.id] = x
  BY <1>0, <1>1, <1>2, <1>3, <1>4, <1>5 DEF ParticipantInv
<1>9. \A i \in Ids : byParticipantId'[i] # None => byParticipantId'[i].id = i
  BY <1>5 DEF ParticipantInv
<1> QED
  BY <1>6, <1>7, <1>8, <1>9 DEF ParticipantInv

\* A deletion of a participant that finds a live object finds that of its id.
LEMMA DeleteParticipantStep ==
  ASSUME TypeOK, ParticipantInv, NEW i \in Ids, DeleteParticipant(i), ~undefined'
  PROVE  ParticipantInv'
<1>1. \A x \in participants : x # None /\ x.key \in Keys /\ x.id \in Ids
  BY NoneAssumption DEF TypeOK, Participants
<1>2. \A x : x \in participants' <=> x \in participants /\ x.id # i
  BY DEF DeleteParticipant
<1>3. \A j \in Ids : byParticipantId'[j] = IF j = i THEN None ELSE byParticipantId[j]
  BY DEF DeleteParticipant, TypeOK
<1>4. \A x, y \in participants' : x # y => x.key # y.key /\ x.id # y.id
  BY <1>2 DEF ParticipantInv
<1>5. \A j \in Ids :
        byParticipantId'[j] # None => byParticipantId'[j].id = j
  BY <1>3 DEF ParticipantInv
<1>6. CASE byParticipantId[i] = None
  <2>1. \A x : x \in participants' <=> x \in participants
    BY <1>1, <1>2, <1>6 DEF ParticipantInv
  <2>2. byKey' = byKey
    BY <1>6 DEF DeleteParticipant
  <2>3. \A x \in participants' : byParticipantId'[x.id] = x
    BY <1>1, <1>2, <1>3 DEF ParticipantInv
  <2> QED
    BY <1>4, <1>5, <2>1, <2>2, <2>3 DEF ParticipantInv
<1>7. CASE byParticipantId[i] # None
  <2> DEFINE p == byParticipantId[i]
  <2>0. ParticipantLives(p) /\ p \in Participants /\ p # None
    BY <1>7 DEF DeleteParticipant, TypeOK
  <2>1. p \in participants /\ p.id = i /\ byKey[p.key] = p
    BY <1>7, <2>0 DEF ParticipantInv, ParticipantLives, Participants
  <2>2. ReadParticipant(p) = {p}
    BY <2>0 DEF ReadParticipant
  <2>3. byKey' = [byKey EXCEPT ![p.key] = None]
    BY <1>7, <2>2 DEF DeleteParticipant
  <2>4. p.key \in Keys
    BY <1>1, <2>1
  <2> HIDE DEF p
  <2>5. \A k \in Keys : byKey'[k] = IF k = p.key THEN None ELSE byKey[k]
    BY <2>3, <2>4 DEF TypeOK
  <2>6. \A x : x \in participants' <=> x \in participants /\ x # p
    BY <1>2, <2>1 DEF ParticipantInv
  <2>7. \A k \in Keys :
          byKey'[k] # None => byKey'[k] \in participants' /\ byKey'[k].key = k
    BY <2>5, <2>6 DEF ParticipantInv
  <2>8. \A x \in participants' : byKey'[x.key] = x /\ byParticipantId'[x.id] = x
    BY <1>1, <1>2, <1>3, <2>1, <2>5, <2>6 DEF ParticipantInv
  <2> QED
    BY <1>4, <1>5, <2>7, <2>8 DEF ParticipantInv
<1> QED
  BY <1>6, <1>7

\* The invariant is inductive: a deletion that finds a freed object ends what
\* is promised.
LEMMA InvStep == Inv /\ [Next]_vars => Inv'
<1> SUFFICES ASSUME Inv, [Next]_vars PROVE Inv'
  OBVIOUS
<1>1. TypeOK'
  BY TypeStep DEF Inv
<1>2. CASE UNCHANGED vars
  <2>1. UNCHANGED <<entries, bySession, byCsrc, byEntryId, undefined>>
    BY <1>2 DEF vars, entryVars
  <2>2. UNCHANGED <<participants, byKey, byParticipantId, undefined>>
    BY <1>2 DEF vars, participantVars
  <2>3. ~undefined' => EntryInv'
    BY <2>1 DEF Inv, EntryInv
  <2>4. ~undefined' => ParticipantInv'
    BY <2>2 DEF Inv, ParticipantInv
  <2> QED
    BY <1>1, <2>3, <2>4 DEF Inv
<1>3. CASE Next
  <2>1. TypeOK /\ EntryInv /\ ParticipantInv
    BY <1>3 DEF Inv, Next
  <2>2. ASSUME NEW e \in MediaEntries, UpdateEntry(e) PROVE EntryInv' /\ ParticipantInv'
    <3>1. ParticipantInv'
      BY <2>1, <2>2 DEF UpdateEntry, participantVars, ParticipantInv
    <3> QED
      BY <2>1, <2>2, <3>1, UpdateEntryStep
  <2>3. ASSUME NEW p \in Participants, UpdateParticipant(p)
        PROVE  EntryInv' /\ ParticipantInv'
    <3>1. EntryInv'
      BY <2>1, <2>3 DEF UpdateParticipant, entryVars, EntryInv
    <3> QED
      BY <2>1, <2>3, <3>1, UpdateParticipantStep
  <2>4. ASSUME NEW i \in Ids, DeleteEntry(i), ~undefined'
        PROVE  EntryInv' /\ ParticipantInv'
    <3>1. ParticipantInv'
      BY <2>1, <2>4 DEF DeleteEntry, participantVars, ParticipantInv
    <3> QED
      BY <2>1, <2>4, <3>1, DeleteEntryStep
  <2>5. ASSUME NEW i \in Ids, DeleteParticipant(i), ~undefined'
        PROVE  EntryInv' /\ ParticipantInv'
    <3>1. EntryInv'
      BY <2>1, <2>5 DEF DeleteParticipant, entryVars, EntryInv
    <3> QED
      BY <2>1, <2>5, <3>1, DeleteParticipantStep
  <2> QED
    BY <1>1, <1>3, <2>2, <2>3, <2>4, <2>5 DEF Next, Inv
<1> QED
  BY <1>2, <1>3

\* The invariant always holds.
THEOREM Invariance == Spec => []Inv
<1>1. Init => Inv
  BY DEF Init, Inv, TypeOK, EntryInv, ParticipantInv
<1> QED
  BY <1>1, InvStep, PTL DEF Spec

\* The owning maps hold what the server last described: until a deletion reads
\* a freed object, every deletion removes the object it means.
THEOREM OwnersSafe == Spec => []OwnersAreTheResources
<1>1. Inv => OwnersAreTheResources
  BY DEF Inv, EntryInv, ParticipantInv, OwnersAreTheResources
<1> QED
  BY <1>1, Invariance, PTL

\* Every resource is found, alive, under its present id and streams, whatever
\* it had before.
THEOREM FoundSafe == Spec => []ResourcesFound
<1>1. Inv => ResourcesFound
  <2> SUFFICES ASSUME Inv, ~undefined
               PROVE  /\ \A e \in entries :
                           /\ byEntryId[e.id] = e /\ EntryLives(e)
                           /\ \A c \in e.csrcs \ {NoStream} : byCsrc[c] = e
                      /\ \A p \in participants :
                           byParticipantId[p.id] = p /\ ParticipantLives(p)
    BY DEF ResourcesFound
  <2>1. EntryInv /\ ParticipantInv
    BY DEF Inv
  <2> QED
    BY <2>1 DEF EntryInv, ParticipantInv, EntryLives, ParticipantLives
<1> QED
  BY <1>1, Invariance, PTL

\* A frame is filed under the names of its stream's owner.
THEOREM IdentifierSafe == Spec => []IdentifierNamesOwner
<1>1. ASSUME Inv, ~undefined, NEW c \in Csrcs \ {NoStream}, NEW e \in entries, c \in e.csrcs
      PROVE  GetOutputFileIdentifier(c) = {IdentifierOf(e)}
  <2>1. byCsrc[c] = e /\ EntryLives(e)
    BY <1>1 DEF Inv, EntryInv, EntryLives
  <2>2. e # None
    BY <1>1, NoneAssumption DEF Inv, TypeOK
  <2>3. ReadEntry(e) = {e}
    BY <2>1 DEF ReadEntry
  <2> QED
    BY <2>1, <2>2, <2>3 DEF GetOutputFileIdentifier
<1>2. ASSUME Inv, ~undefined, NEW e \in entries
      PROVE  /\ \A p \in participants : p.key = e.key => IdentifierOf(e) = FileIdentifier(p, e)
             /\ (\A p \in participants : p.key # e.key) => IdentifierOf(e) = None
  <2>1. e.key \in Keys
    BY <1>2 DEF Inv, TypeOK, MediaEntries
  <2>2. ASSUME NEW p \in participants, p.key = e.key
        PROVE  IdentifierOf(e) = FileIdentifier(p, e)
    <3>1. byKey[e.key] = p
      BY <1>2, <2>2 DEF Inv, ParticipantInv
    <3>2. p # None
      BY <1>2, NoneAssumption DEF Inv, TypeOK
    <3> QED
      BY <3>1, <3>2 DEF IdentifierOf
  <2>3. ASSUME \A p \in participants : p.key # e.key
        PROVE  IdentifierOf(e) = None
    <3>1. byKey[e.key] = None
      BY <1>2, <2>1, <2>3 DEF Inv, ParticipantInv
    <3> QED
      BY <3>1 DEF IdentifierOf
  <2> QED
    BY <2>2, <2>3
<1>3. ASSUME Inv, ~undefined, NEW c \in Csrcs, \A e \in entries : c \notin e.csrcs
      PROVE  GetOutputFileIdentifier(c) = {None} \/ ~EntryLives(byCsrc[c])
  <2>1. CASE byCsrc[c] = None
    BY <2>1 DEF GetOutputFileIdentifier
  <2>2. CASE byCsrc[c] # None
    <3> DEFINE e == byCsrc[c]
    <3>1. c \in e.csrcs /\ e.session \in Sessions /\ e # None
      BY <1>3, <2>2 DEF Inv, EntryInv, TypeOK, MediaEntries
    <3>2. EntryLives(e) => e \in entries
      BY <1>3, <3>1 DEF Inv, EntryInv, EntryLives
    <3> QED
      BY <1>3, <3>1, <3>2
  <2> QED
    BY <2>1, <2>2
<1>4. Inv => IdentifierNamesOwner
  <2> SUFFICES ASSUME Inv, ~undefined, NEW c \in Csrcs \ {NoStream}
               PROVE  /\ \A e \in entries : c \in e.csrcs =>
                           IF \E p \in participants : p.key = e.key
                           THEN \A p \in participants : p.key = e.key =>
                                  GetOutputFileIdentifier(c) = {FileIdentifier(p, e)}
                           ELSE GetOutputFileIdentifier(c) = {None}
                      /\ (\A e \in entries : c \notin e.csrcs) =>
                           GetOutputFileIdentifier(c) = {None} \/ ~EntryLives(byCsrc[c])
    BY DEF IdentifierNamesOwner
  <2> QED
    BY <1>1, <1>2, <1>3
<1> QED
  BY <1>4, Invariance, PTL

=============================================================================
