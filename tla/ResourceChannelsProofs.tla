------------------------ MODULE ResourceChannelsProofs ------------------------
(***************************************************************************)
(* Proofs about ResourceChannels, in two parts.  The first is about texts: *)
(* whatever optional fields the servers leave out of a JSON update, the    *)
(* handler's ParseUpdate reads what they meant (UpdatesRead), and what     *)
(* StringifyRequest and StatsRequestFromReport write is read as it was     *)
(* asked (RequestRead, UploadRead, UploadAllowed).  The second is about    *)
(* the channels: the messages under way form a chain from what the         *)
(* application holds to what the servers hold (Inv).                       *)
(***************************************************************************)
EXTENDS ResourceChannels, TLAPS, SequenceTheorems, FiniteSetTheorems, WellFoundedInduction

LEMMA FunctionIs ==
  ASSUME NEW f, NEW g, NEW D, g = [i \in D |-> g[i]], f = g
  PROVE  f = [i \in D |-> f[i]]
  OBVIOUS

\* What the servers leave out is what the reader assumes: reading a text of a
\* struct with its defaults gives the struct.
LEMMA WrittenRead ==
  ASSUME NEW defaults, NEW struct, DOMAIN struct = DOMAIN defaults,
         struct = [f \in DOMAIN struct |-> struct[f]],
         NEW text \in Written(struct, defaults)
  PROVE  /\ Fields(text, defaults) = struct
         /\ \A f \in DOMAIN text : f \in DOMAIN struct /\ text[f] = struct[f]
         /\ \A f \in DOMAIN struct \ DOMAIN text : struct[f] = defaults[f]
         /\ \A f \in DOMAIN struct : Field(text, f, defaults[f]) = struct[f]
         /\ \A f \in DOMAIN text : struct[f] # defaults[f] \/ (struct[f] # None /\ f \in Printed)
<1> DEFINE needed == {f \in DOMAIN struct : struct[f] # defaults[f]}
           free == {f \in DOMAIN struct \ needed : struct[f] # None} \cap Printed
<1>1. PICK extra \in SUBSET free : text = [f \in needed \cup extra |-> struct[f]]
  BY DEF Written
<1>2. DOMAIN text = needed \cup extra /\ \A f \in DOMAIN text : text[f] = struct[f]
  BY <1>1
<1>3. \A f \in DOMAIN text : f \in DOMAIN struct
  BY <1>2
<1>4. \A f \in DOMAIN struct \ DOMAIN text : struct[f] = defaults[f]
  BY <1>2
<1>5. \A f \in DOMAIN struct : Field(text, f, defaults[f]) = struct[f]
  BY <1>2, <1>4 DEF Field
<1>6. Fields(text, defaults) = struct
  BY <1>5 DEF Fields
<1> QED
  BY <1>2, <1>3, <1>4, <1>5, <1>6

\* The defaults of the members that are read one by one.
LEMMA FieldsAre ==
  ASSUME NEW json
  PROVE  /\ \A content : DOMAIN SnapshotDefaults(content) = {"id", content}
         /\ DOMAIN CollectionDefaults = {"resources", "deletedResources"}
         /\ Fields(json, CollectionDefaults).resources = Field(json, "resources", <<>>)
         /\ Fields(json, CollectionDefaults).deletedResources = Field(json, "deletedResources", <<>>)
  BY DEF Fields, SnapshotDefaults, CollectionDefaults

LEMMA ContentIs ==
  ASSUME NEW c \in Collections
  PROVE  /\ ContentOf(c) \in {"mediaEntry", "participant"}
         /\ c = "media-entries" => ContentOf(c) = "mediaEntry"
         /\ c = "participants" => ContentOf(c) = "participant"
  BY DEF ContentOf, Collections

\* A snapshot with a content, and one without, are read as they are written.
LEMMA SnapshotRead ==
  ASSUME NEW content \in {"mediaEntry", "participant"}, NEW i, NEW x,
         NEW text \in Written([f \in {"id", content} |-> IF f = "id" THEN i ELSE x],
                              SnapshotDefaults(content))
  PROVE  /\ Fields(text, SnapshotDefaults(content))
              = [f \in {"id", content} |-> IF f = "id" THEN i ELSE x]
         /\ content \in DOMAIN text => text[content] = x /\ x # None
<1> DEFINE s == [f \in {"id", content} |-> IF f = "id" THEN i ELSE x]
<1>1. DOMAIN s = DOMAIN SnapshotDefaults(content)
  BY FieldsAre
<1>2. s = [f \in DOMAIN s |-> s[f]]
  OBVIOUS
<1>3. s[content] = x /\ SnapshotDefaults(content)[content] = None
  BY DEF SnapshotDefaults
<1> HIDE DEF s
<1>4. text \in Written(s, SnapshotDefaults(content))
  BY DEF s
<1>5. Fields(text, SnapshotDefaults(content)) = s
  BY <1>1, <1>2, <1>4, WrittenRead
<1>6. ASSUME content \in DOMAIN text PROVE text[content] = x /\ x # None
  BY <1>1, <1>2, <1>3, <1>4, <1>6, WrittenRead
<1> QED
  BY <1>5, <1>6 DEF s

\* A change of a collection has at most one snapshot and one deletion.
LEMMA ChangeShape ==
  ASSUME NEW c, NEW contents, NEW u \in CollectionChanges(c, contents)
  PROVE  /\ u = [resources |-> u.resources, deletedResources |-> u.deletedResources]
         /\ u.resources = <<>> \/ \E i \in Ids, x \in contents : u.resources = <<SnapshotOf(c, i, x)>>
         /\ u.deletedResources = <<>> \/ \E i \in Ids : u.deletedResources = <<SnapshotOf(c, i, None)>>
<1> DEFINE R == {<<>>} \cup {<<SnapshotOf(c, i, x)>> : i \in Ids, x \in contents}
           D == {<<>>} \cup {<<SnapshotOf(c, i, None)>> : i \in Ids}
<1>1. u \in [resources : R, deletedResources : D]
  BY DEF CollectionChanges
<1>2. u.resources \in R /\ u.deletedResources \in D
  BY <1>1
<1>3. u = [resources |-> u.resources, deletedResources |-> u.deletedResources]
  <2> HIDE DEF R, D
  <2> QED
    BY <1>1
<1> QED
  BY <1>2, <1>3

LEMMA OneElement ==
  ASSUME NEW a
  PROVE  <<a>> = [i \in 1..1 |-> a] /\ DOMAIN <<a>> = {1} /\ <<a>>[1] = a /\ Len(<<a>>) = 1
         /\ <<a>> # <<>> /\ 1..1 = {1}
  OBVIOUS

LEMMA NoElement == DOMAIN <<>> = {} /\ <<>> = [i \in {} |-> i] /\ Len(<<>>) = 0
<1>1. <<>> \in Seq({}) /\ Len(<<>>) = 0
  OBVIOUS
<1>2. DOMAIN <<>> = {}
  BY <1>1
<1>3. <<>> = [i \in 1..0 |-> i]
  BY <1>2
<1> QED
  BY <1>1, <1>2, <1>3

\* The arrays of a text: one text for each element.
LEMMA CollectionText ==
  ASSUME NEW c, NEW u, NEW text \in CollectionTexts(c, u)
  PROVE  /\ \A i \in DOMAIN u.resources :
              Field(text, "resources", <<>>)[i] \in SnapshotTexts(c, u.resources[i])
         /\ \A i \in DOMAIN u.deletedResources :
              Field(text, "deletedResources", <<>>)[i]
                \in Written(u.deletedResources[i], SnapshotDefaults(ContentOf(c)))
         /\ DOMAIN Field(text, "resources", <<>>) = DOMAIN u.resources
         /\ DOMAIN Field(text, "deletedResources", <<>>) = DOMAIN u.deletedResources
         /\ \A f \in {"resources", "deletedResources"} :
              f \in DOMAIN text => text[f] = Field(text, f, <<>>)
<1>1. PICK r \in Arrays([i \in DOMAIN u.resources |-> SnapshotTexts(c, u.resources[i])]),
           d \in Arrays([i \in DOMAIN u.deletedResources |->
                           Written(u.deletedResources[i], SnapshotDefaults(ContentOf(c)))]) :
        text \in Written([resources |-> r, deletedResources |-> d], CollectionDefaults)
  BY DEF CollectionTexts
<1>2. DOMAIN r = DOMAIN u.resources /\ \A i \in DOMAIN u.resources : r[i] \in SnapshotTexts(c, u.resources[i])
  BY <1>1 DEF Arrays
<1>3. /\ DOMAIN d = DOMAIN u.deletedResources
      /\ \A i \in DOMAIN u.deletedResources :
           d[i] \in Written(u.deletedResources[i], SnapshotDefaults(ContentOf(c)))
  BY <1>1 DEF Arrays
<1>4. /\ Field(text, "resources", CollectionDefaults["resources"]) = r
      /\ Field(text, "deletedResources", CollectionDefaults["deletedResources"]) = d
  <2> DEFINE s == [resources |-> r, deletedResources |-> d]
  <2>1. DOMAIN s = DOMAIN CollectionDefaults /\ s = [f \in DOMAIN s |-> s[f]]
    BY FieldsAre
  <2>2. "resources" \in DOMAIN s /\ "deletedResources" \in DOMAIN s /\ s["resources"] = r /\ s["deletedResources"] = d
    OBVIOUS
  <2>3. text \in Written(s, CollectionDefaults)
    BY <1>1
  <2> HIDE DEF s
  <2> QED
    BY <2>1, <2>2, <2>3, WrittenRead
<1>5. CollectionDefaults["resources"] = <<>> /\ CollectionDefaults["deletedResources"] = <<>>
  BY DEF CollectionDefaults
<1> QED
  BY <1>2, <1>3, <1>4, <1>5 DEF Field

LEMMA SnapshotText ==
  ASSUME NEW c \in Collections, NEW i, NEW x, NEW text \in SnapshotTexts(c, SnapshotOf(c, i, x))
  PROVE  \E w \in Optional(x, ContentTexts(c, x)) :
           /\ Fields(text, SnapshotDefaults(ContentOf(c))) = SnapshotOf(c, i, w)
           /\ ContentOf(c) \in DOMAIN text => text[ContentOf(c)] = w /\ w # None
<1> DEFINE content == ContentOf(c)
<1>1. content \in {"mediaEntry", "participant"} /\ content # "id"
  BY ContentIs
<1>2. SnapshotOf(c, i, x)[content] = x
  BY <1>1 DEF SnapshotOf
<1>3. PICK w \in Optional(x, ContentTexts(c, x)) :
        text \in Written([SnapshotOf(c, i, x) EXCEPT ![content] = w], SnapshotDefaults(content))
  BY <1>2 DEF SnapshotTexts
<1>4. [SnapshotOf(c, i, x) EXCEPT ![content] = w] = [f \in {"id", content} |-> IF f = "id" THEN i ELSE w]
  BY <1>1 DEF SnapshotOf
<1>5. text \in Written([f \in {"id", content} |-> IF f = "id" THEN i ELSE w], SnapshotDefaults(content))
  BY <1>3, <1>4
<1>6. SnapshotOf(c, i, w) = [f \in {"id", content} |-> IF f = "id" THEN i ELSE w]
  BY DEF SnapshotOf
<1> HIDE DEF content
<1>7. Fields(text, SnapshotDefaults(content)) = SnapshotOf(c, i, w)
      /\ (content \in DOMAIN text => text[content] = w /\ w # None)
  BY <1>1, <1>5, <1>6, SnapshotRead
<1> QED
  BY <1>7, <1>3 DEF content

\* A media entry is read as it is written.
LEMMA EntryRead ==
  ASSUME NEW x \in Entries, NEW text \in Written(x, MediaEntryDefaults)
  PROVE  /\ Fields(text, MediaEntryDefaults) = x
         /\ text # None
         /\ Field(text, "videoCsrcs", <<>>) # Malformed
<1>1. x = [f \in DOMAIN MediaEntryDefaults |-> x[f]]
  BY StructsAssumption
<1>2. DOMAIN x = DOMAIN MediaEntryDefaults
  BY <1>1
<1>3. x = [f \in DOMAIN x |-> x[f]]
  BY <1>1, <1>2
<1>4. text # None /\ x.videoCsrcs # Malformed
  BY MarkersAssumption
<1>5. "videoCsrcs" \in DOMAIN x /\ MediaEntryDefaults["videoCsrcs"] = <<>>
  BY <1>2 DEF MediaEntryDefaults
<1>6. Field(text, "videoCsrcs", MediaEntryDefaults["videoCsrcs"]) = x["videoCsrcs"]
  BY <1>2, <1>3, <1>5, WrittenRead
<1>7. Fields(text, MediaEntryDefaults) = x
  BY <1>2, <1>3, WrittenRead
<1> QED
  BY <1>4, <1>5, <1>6, <1>7

\* The entries of an update are read as they are written.
LEMMA EntrySnapshotRead ==
  ASSUME NEW i, NEW x \in Entries,
         NEW text \in SnapshotTexts("media-entries", SnapshotOf("media-entries", i, x))
  PROVE  /\ ParseMediaEntrySnapshot(text) = SnapshotOf("media-entries", i, x)
         /\ ~IllFormedMediaEntry(text)
<1> DEFINE c == "media-entries"
<1>1. c \in Collections /\ ContentOf(c) = "mediaEntry"
  BY DEF Collections, ContentOf
<1>2. PICK w \in Optional(x, ContentTexts(c, x)) :
        /\ Fields(text, SnapshotDefaults("mediaEntry")) = SnapshotOf(c, i, w)
        /\ "mediaEntry" \in DOMAIN text => text["mediaEntry"] = w /\ w # None
  BY <1>1, SnapshotText
<1>3. SnapshotOf(c, i, w) = [f \in {"id", "mediaEntry"} |-> IF f = "id" THEN i ELSE w]
      /\ SnapshotOf(c, i, x) = [f \in {"id", "mediaEntry"} |-> IF f = "id" THEN i ELSE x]
  BY <1>1 DEF SnapshotOf
<1>4. CASE x = None
  <2>1. w = None
    BY <1>2, <1>4 DEF Optional
  <2> QED
    BY <1>2, <1>3, <1>4, <2>1 DEF ParseMediaEntrySnapshot, IllFormedMediaEntry
<1>5. CASE x # None
  <2>1. w \in Written(x, MediaEntryDefaults)
    BY <1>2, <1>5 DEF Optional, ContentTexts
  <2>2. Fields(w, MediaEntryDefaults) = x /\ w # None /\ Field(w, "videoCsrcs", <<>>) # Malformed
    BY <2>1, EntryRead
  <2>3. ~IllFormedMediaEntry(text)
    BY <1>2, <2>2 DEF IllFormedMediaEntry
  <2>4. ParseMediaEntrySnapshot(text) = [SnapshotOf(c, i, w) EXCEPT !.mediaEntry = Fields(@, MediaEntryDefaults)]
    BY <1>2, <1>3, <2>2 DEF ParseMediaEntrySnapshot
  <2>5. [SnapshotOf(c, i, w) EXCEPT !.mediaEntry = Fields(@, MediaEntryDefaults)] = SnapshotOf(c, i, x)
    BY <1>3, <2>2
  <2> QED
    BY <2>3, <2>4, <2>5
<1> QED
  BY <1>4, <1>5

LEMMA DeletionRead ==
  ASSUME NEW c \in Collections, NEW i,
         NEW text \in Written(SnapshotOf(c, i, None), SnapshotDefaults(ContentOf(c)))
  PROVE  Fields(text, SnapshotDefaults(ContentOf(c))) = SnapshotOf(c, i, None)
<1>1. ContentOf(c) \in {"mediaEntry", "participant"}
  BY ContentIs
<1> QED
  BY <1>1, SnapshotRead DEF SnapshotOf

LEMMA ChangeElements ==
  ASSUME NEW c, NEW contents, NEW u \in CollectionChanges(c, contents)
  PROVE  /\ u = [resources |-> u.resources, deletedResources |-> u.deletedResources]
         /\ u.resources = [i \in DOMAIN u.resources |-> u.resources[i]]
         /\ u.deletedResources = [i \in DOMAIN u.deletedResources |-> u.deletedResources[i]]
         /\ \A i \in DOMAIN u.resources :
              \E id \in Ids, x \in contents : u.resources[i] = SnapshotOf(c, id, x)
         /\ \A i \in DOMAIN u.deletedResources :
              \E id \in Ids : u.deletedResources[i] = SnapshotOf(c, id, None)
<1>1. u = [resources |-> u.resources, deletedResources |-> u.deletedResources]
  BY ChangeShape
<1>2. /\ u.resources = [i \in DOMAIN u.resources |-> u.resources[i]]
      /\ \A i \in DOMAIN u.resources :
              \E id \in Ids, x \in contents : u.resources[i] = SnapshotOf(c, id, x)
  <2>1. CASE u.resources = <<>>
    BY <2>1, NoElement
  <2>2. CASE \E i \in Ids, x \in contents : u.resources = <<SnapshotOf(c, i, x)>>
    BY <2>2, OneElement
  <2> QED
    BY <2>1, <2>2, ChangeShape
<1>3. /\ u.deletedResources = [i \in DOMAIN u.deletedResources |-> u.deletedResources[i]]
      /\ \A i \in DOMAIN u.deletedResources :
              \E id \in Ids : u.deletedResources[i] = SnapshotOf(c, id, None)
  <2>1. CASE u.deletedResources = <<>>
    BY <2>1, NoElement
  <2>2. CASE \E i \in Ids : u.deletedResources = <<SnapshotOf(c, i, None)>>
    BY <2>2, OneElement
  <2> QED
    BY <2>1, <2>2, ChangeShape
<1> QED
  BY <1>1, <1>2, <1>3

\* The markers are among no meanings and no texts.
LEMMA TextMarkers ==
  ASSUME NEW c \in Channels, NEW u \in Meanings(c), NEW text \in Texts(c, u)
  PROVE  /\ u # Error /\ text # Malformed
         /\ \A f \in DOMAIN text : text[f] # Malformed
         /\ \A f : Field(text, f, <<>>) # Malformed
  BY MarkersAssumption DEF Field, Empty

\* An update of the media entries is read as it was meant.
LEMMA EntriesRead ==
  ASSUME NEW u \in Changes("media-entries"), NEW text \in Texts("media-entries", u)
  PROVE  ParseUpdate("media-entries", text) = u
<1> DEFINE c == "media-entries"
           r == Field(text, "resources", <<>>)
           d == Field(text, "deletedResources", <<>>)
<1>1. c \in Collections /\ c \in Channels /\ ContentOf(c) = "mediaEntry"
  BY DEF Collections, Channels, ContentOf
<1>2. u \in CollectionChanges(c, Entries) /\ text \in CollectionTexts(c, u) /\ u \in Meanings(c)
  BY <1>1 DEF Changes, Texts, Meanings
<1>3. u # Error /\ text # Malformed /\ r # Malformed /\ d # Malformed
  BY <1>1, <1>2, TextMarkers
<1>4. /\ u = [resources |-> u.resources, deletedResources |-> u.deletedResources]
      /\ u.resources = [i \in DOMAIN u.resources |-> u.resources[i]]
      /\ u.deletedResources = [i \in DOMAIN u.deletedResources |-> u.deletedResources[i]]
      /\ \A i \in DOMAIN u.resources :
           \E id \in Ids, x \in Entries : u.resources[i] = SnapshotOf(c, id, x)
      /\ \A i \in DOMAIN u.deletedResources :
           \E id \in Ids : u.deletedResources[i] = SnapshotOf(c, id, None)
  BY <1>2, ChangeElements
<1>5. /\ DOMAIN r = DOMAIN u.resources /\ DOMAIN d = DOMAIN u.deletedResources
      /\ \A i \in DOMAIN u.resources : r[i] \in SnapshotTexts(c, u.resources[i])
      /\ \A i \in DOMAIN u.deletedResources :
           d[i] \in Written(u.deletedResources[i], SnapshotDefaults(ContentOf(c)))
  BY <1>2, CollectionText
<1> HIDE DEF r, d
<1>6. \A i \in DOMAIN r : ParseMediaEntrySnapshot(r[i]) = u.resources[i] /\ ~IllFormedMediaEntry(r[i])
  <2> TAKE i \in DOMAIN r
  <2>1. PICK id \in Ids, x \in Entries : u.resources[i] = SnapshotOf(c, id, x)
    BY <1>2, <1>4, <1>5
  <2>2. r[i] \in SnapshotTexts(c, SnapshotOf(c, id, x))
    BY <1>5, <2>1
  <2> QED
    BY <2>1, <2>2, EntrySnapshotRead
<1>7. \A i \in DOMAIN d : ParseDeletedMediaEntry(d[i]) = u.deletedResources[i]
  <2> TAKE i \in DOMAIN d
  <2>1. PICK id \in Ids : u.deletedResources[i] = SnapshotOf(c, id, None)
    BY <1>2, <1>4, <1>5
  <2>2. d[i] \in Written(SnapshotOf(c, id, None), SnapshotDefaults(ContentOf(c)))
    BY <1>5, <2>1
  <2> QED
    BY <1>1, <2>1, <2>2, DeletionRead DEF ParseDeletedMediaEntry
<1>8. ParseMediaEntries(text) = [resources |-> [i \in DOMAIN r |-> ParseMediaEntrySnapshot(r[i])],
                                 deletedResources |-> [i \in DOMAIN d |-> ParseDeletedMediaEntry(d[i])]]
  <2>1. Fields(text, CollectionDefaults).resources = r
        /\ Fields(text, CollectionDefaults).deletedResources = d
    BY FieldsAre DEF r, d
  <2> QED
    BY <1>3, <1>6, <2>1 DEF ParseMediaEntries
<1>9. [i \in DOMAIN r |-> ParseMediaEntrySnapshot(r[i])] = [i \in DOMAIN u.resources |-> u.resources[i]]
  BY <1>5, <1>6
<1>10. [i \in DOMAIN d |-> ParseDeletedMediaEntry(d[i])] = [i \in DOMAIN u.deletedResources |-> u.deletedResources[i]]
  BY <1>5, <1>7
<1>11. ParseMediaEntries(text) = u
  BY <1>2, <1>8, <1>9, <1>10, <1>4
<1> QED
  BY <1>3, <1>11 DEF ParseUpdate

\* What is written of a participant: of its own members those that have not
\* their default, and the kinds of user that it has.
LEMMA PersonText ==
  ASSUME NEW p \in Persons, NEW text \in PersonTexts(p)
  PROVE  \E user \in Optional(p.signedInUser, Written(p.signedInUser, UserDefaults)) :
           /\ Field(text, "participantId", 0) = p.participantId
           /\ Field(text, "name", None) = p.name
           /\ Field(text, "participantKey", None) = p.participantKey
           /\ "signedInUser" \in DOMAIN text <=> user # None
           /\ "signedInUser" \in DOMAIN text => text["signedInUser"] = user
           /\ \A kind \in {"anonymousUser", "phoneUser"} :
                /\ kind \in DOMAIN text <=> p[kind] # None
                /\ kind \in DOMAIN text => text[kind] = p[kind]
<1> DEFINE own == {"participantId", "name", "participantKey"}
           kinds == {"signedInUser", "anonymousUser", "phoneUser"}
           plain == [f \in DOMAIN ParticipantDefaults |-> p[f]]
           V(w, user) == [f \in DOMAIN w \cup kinds |->
                            IF f \in DOMAIN w THEN w[f]
                            ELSE IF f = "signedInUser" THEN user ELSE p[f]]
<1>1. PICK w \in Written(plain, ParticipantDefaults),
           user \in Optional(p.signedInUser, Written(p.signedInUser, UserDefaults)) :
             text = Present(V(w, user))
  BY DEF PersonTexts
<1>2. DOMAIN ParticipantDefaults = own
  BY DEF ParticipantDefaults
<1>3. DOMAIN plain = DOMAIN ParticipantDefaults /\ plain = [f \in DOMAIN plain |-> plain[f]]
      /\ \A f \in own : plain[f] = p[f]
  BY <1>2
<1>4. /\ ParticipantDefaults["participantId"] = 0
      /\ ParticipantDefaults["name"] = None /\ ParticipantDefaults["participantKey"] = None
  BY DEF ParticipantDefaults
<1> HIDE DEF plain
<1>5. /\ DOMAIN w \subseteq own /\ \A f \in DOMAIN w : w[f] = p[f]
      /\ \A f \in own \ DOMAIN w : p[f] = ParticipantDefaults[f]
  BY <1>1, <1>2, <1>3, WrittenRead
<1> DEFINE v == V(w, user)
<1>6. /\ DOMAIN v = DOMAIN w \cup kinds
      /\ \A f \in DOMAIN w : v[f] = p[f]
      /\ v["signedInUser"] = user
      /\ v["anonymousUser"] = p["anonymousUser"] /\ v["phoneUser"] = p["phoneUser"]
  BY <1>5
<1> HIDE DEF v
<1>7. /\ DOMAIN text = {f \in DOMAIN v : v[f] # None}
      /\ \A f \in DOMAIN text : text[f] = v[f]
  BY <1>1 DEF Present, v
<1>8. p["participantId"] # None
  BY MarkersAssumption
<1>9. \A f \in own : f \in DOMAIN text <=> f \in DOMAIN w /\ p[f] # None
  BY <1>6, <1>7
<1>10. Field(text, "participantId", 0) = p["participantId"]
  BY <1>4, <1>5, <1>6, <1>7, <1>8, <1>9 DEF Field
<1>11. Field(text, "name", None) = p["name"] /\ Field(text, "participantKey", None) = p["participantKey"]
  BY <1>4, <1>5, <1>6, <1>7, <1>9 DEF Field
<1>12. \A kind \in {"anonymousUser", "phoneUser"} :
         /\ kind \in DOMAIN text <=> p[kind] # None
         /\ kind \in DOMAIN text => text[kind] = p[kind]
  BY <1>6, <1>7
<1>13. /\ "signedInUser" \in DOMAIN text <=> user # None
       /\ "signedInUser" \in DOMAIN text => text["signedInUser"] = user
  BY <1>6, <1>7
<1> QED
  BY <1>1, <1>10, <1>11, <1>12, <1>13

\* A participant is read as it is written.
LEMMA PersonRead ==
  ASSUME NEW p \in Persons, NEW text \in PersonTexts(p)
  PROVE  ParseParticipant(text) = p /\ text # None
<1>1. /\ p = [participantId |-> p.participantId, name |-> p.name,
              participantKey |-> p.participantKey, type |-> p.type,
              signedInUser |-> p.signedInUser, anonymousUser |-> p.anonymousUser,
              phoneUser |-> p.phoneUser]
      /\ p.signedInUser # None =>
           p.signedInUser = [f \in DOMAIN UserDefaults |-> p.signedInUser[f]]
      /\ \A kind \in {"anonymousUser", "phoneUser"} :
           p[kind] # None => p[kind] = [displayName |-> p[kind].displayName]
      /\ p.type = IF p.phoneUser # None THEN "kPhoneUser"
                  ELSE IF p.anonymousUser # None THEN "kAnonymousUser" ELSE "kSignedInUser"
  BY StructsAssumption
<1>2. /\ text # None
      /\ p.signedInUser # None => None \notin Written(p.signedInUser, UserDefaults)
  BY MarkersAssumption
<1>3. PICK user \in Optional(p.signedInUser, Written(p.signedInUser, UserDefaults)) :
           /\ Field(text, "participantId", 0) = p.participantId
           /\ Field(text, "name", None) = p.name
           /\ Field(text, "participantKey", None) = p.participantKey
           /\ "signedInUser" \in DOMAIN text <=> user # None
           /\ "signedInUser" \in DOMAIN text => text["signedInUser"] = user
           /\ \A kind \in {"anonymousUser", "phoneUser"} :
                /\ kind \in DOMAIN text <=> p[kind] # None
                /\ kind \in DOMAIN text => text[kind] = p[kind]
  BY PersonText
<1>4. SignedInUser(text) = p.signedInUser
  <2>1. CASE p.signedInUser = None
    BY <1>3, <2>1 DEF SignedInUser, Optional
  <2>2. CASE p.signedInUser # None
    <3>1. user \in Written(p.signedInUser, UserDefaults) /\ user # None
      BY <1>2, <1>3, <2>2 DEF Optional
    <3>2. DOMAIN p.signedInUser = DOMAIN UserDefaults
      BY <1>1, <2>2
    <3>3. p.signedInUser = [f \in DOMAIN p.signedInUser |-> p.signedInUser[f]]
      BY <1>1, <2>2, <3>2
    <3>4. Fields(user, UserDefaults) = p.signedInUser
      BY <3>1, <3>2, <3>3, WrittenRead
    <3> QED
      BY <1>3, <3>1, <3>4 DEF SignedInUser
  <2> QED
    BY <2>1, <2>2
<1>5. \A kind \in {"anonymousUser", "phoneUser"} : NamedUser(text, kind) = p[kind]
  <2> TAKE kind \in {"anonymousUser", "phoneUser"}
  <2>1. CASE p[kind] = None
    BY <1>3, <2>1 DEF NamedUser
  <2>2. CASE p[kind] # None
    <3>1. kind \in DOMAIN text /\ text[kind] = p[kind] /\ p[kind] = [displayName |-> p[kind].displayName]
      BY <1>1, <1>3, <2>2
    <3>2. "displayName" \in DOMAIN text[kind]
      BY <3>1
    <3> QED
      BY <3>1, <3>2 DEF NamedUser
  <2> QED
    BY <2>1, <2>2
<1>6. ParticipantType(text) = p.type
  BY <1>1, <1>3 DEF ParticipantType
<1>7. NamedUser(text, "anonymousUser") = p.anonymousUser /\ NamedUser(text, "phoneUser") = p.phoneUser
  BY <1>5
<1> QED
  BY <1>1, <1>2, <1>3, <1>4, <1>6, <1>7 DEF ParseParticipant

LEMMA ParticipantSnapshotRead ==
  ASSUME NEW i, NEW x \in Persons,
         NEW text \in SnapshotTexts("participants", SnapshotOf("participants", i, x))
  PROVE  ParseParticipantSnapshot(text) = SnapshotOf("participants", i, x)
<1> DEFINE c == "participants"
<1>1. c \in Collections /\ ContentOf(c) = "participant"
  BY DEF Collections, ContentOf
<1>2. PICK w \in Optional(x, ContentTexts(c, x)) :
        Fields(text, SnapshotDefaults("participant")) = SnapshotOf(c, i, w)
  BY <1>1, SnapshotText
<1>3. SnapshotOf(c, i, w) = [f \in {"id", "participant"} |-> IF f = "id" THEN i ELSE w]
      /\ SnapshotOf(c, i, x) = [f \in {"id", "participant"} |-> IF f = "id" THEN i ELSE x]
  BY <1>1 DEF SnapshotOf
<1>4. CASE x = None
  <2>1. w = None
    BY <1>2, <1>4 DEF Optional
  <2> QED
    BY <1>2, <1>3, <1>4, <2>1 DEF ParseParticipantSnapshot
<1>5. CASE x # None
  <2>1. w \in PersonTexts(x)
    BY <1>2, <1>5 DEF Optional, ContentTexts
  <2>2. ParseParticipant(w) = x /\ w # None
    BY <2>1, PersonRead
  <2>3. ParseParticipantSnapshot(text) = [SnapshotOf(c, i, w) EXCEPT !.participant = ParseParticipant(@)]
    BY <1>2, <1>3, <2>2 DEF ParseParticipantSnapshot
  <2>4. [SnapshotOf(c, i, w) EXCEPT !.participant = ParseParticipant(@)] = SnapshotOf(c, i, x)
    BY <1>3, <2>2
  <2> QED
    BY <2>3, <2>4
<1> QED
  BY <1>4, <1>5

\* An update of the participants is read as it was meant.
LEMMA ParticipantsRead ==
  ASSUME NEW u \in Changes("participants"), NEW text \in Texts("participants", u)
  PROVE  ParseUpdate("participants", text) = u
<1> DEFINE c == "participants"
           r == Field(text, "resources", <<>>)
           d == Field(text, "deletedResources", <<>>)
<1>1. c \in Collections /\ c \in Channels /\ ContentOf(c) = "participant"
  BY DEF Collections, Channels, ContentOf
<1>2. u \in CollectionChanges(c, Persons) /\ text \in CollectionTexts(c, u) /\ u \in Meanings(c)
  BY <1>1 DEF Changes, Texts, Meanings
<1>3. u # Error /\ text # Malformed /\ r # Malformed /\ d # Malformed
  BY <1>1, <1>2, TextMarkers
<1>4. /\ u = [resources |-> u.resources, deletedResources |-> u.deletedResources]
      /\ u.resources = [i \in DOMAIN u.resources |-> u.resources[i]]
      /\ u.deletedResources = [i \in DOMAIN u.deletedResources |-> u.deletedResources[i]]
      /\ \A i \in DOMAIN u.resources :
           \E id \in Ids, x \in Persons : u.resources[i] = SnapshotOf(c, id, x)
      /\ \A i \in DOMAIN u.deletedResources :
           \E id \in Ids : u.deletedResources[i] = SnapshotOf(c, id, None)
  BY <1>2, ChangeElements
<1>5. /\ DOMAIN r = DOMAIN u.resources /\ DOMAIN d = DOMAIN u.deletedResources
      /\ \A i \in DOMAIN u.resources : r[i] \in SnapshotTexts(c, u.resources[i])
      /\ \A i \in DOMAIN u.deletedResources :
           d[i] \in Written(u.deletedResources[i], SnapshotDefaults(ContentOf(c)))
  BY <1>2, CollectionText
<1> HIDE DEF r, d
<1>6. \A i \in DOMAIN r : ParseParticipantSnapshot(r[i]) = u.resources[i]
  <2> TAKE i \in DOMAIN r
  <2>1. PICK id \in Ids, x \in Persons : u.resources[i] = SnapshotOf(c, id, x)
    BY <1>4, <1>5
  <2>2. r[i] \in SnapshotTexts(c, SnapshotOf(c, id, x))
    BY <1>5, <2>1
  <2> QED
    BY <2>1, <2>2, ParticipantSnapshotRead
<1>7. \A i \in DOMAIN d : ParseDeletedParticipant(d[i]) = u.deletedResources[i]
  <2> TAKE i \in DOMAIN d
  <2>1. PICK id \in Ids : u.deletedResources[i] = SnapshotOf(c, id, None)
    BY <1>4, <1>5
  <2>2. d[i] \in Written(SnapshotOf(c, id, None), SnapshotDefaults(ContentOf(c)))
    BY <1>5, <2>1
  <2> QED
    BY <1>1, <2>1, <2>2, DeletionRead DEF ParseDeletedParticipant
<1>8. ParseParticipants(text) = [resources |-> [i \in DOMAIN r |-> ParseParticipantSnapshot(r[i])],
                                 deletedResources |-> [i \in DOMAIN d |-> ParseDeletedParticipant(d[i])]]
  <2>1. Fields(text, CollectionDefaults).resources = r
        /\ Fields(text, CollectionDefaults).deletedResources = d
    BY FieldsAre DEF r, d
  <2> QED
    BY <1>3, <2>1 DEF ParseParticipants
<1>9. [i \in DOMAIN r |-> ParseParticipantSnapshot(r[i])] = [i \in DOMAIN u.resources |-> u.resources[i]]
  BY <1>5, <1>6
<1>10. [i \in DOMAIN d |-> ParseDeletedParticipant(d[i])] = [i \in DOMAIN u.deletedResources |-> u.deletedResources[i]]
  BY <1>5, <1>7
<1>11. ParseParticipants(text) = u
  BY <1>4, <1>8, <1>9, <1>10
<1> QED
  BY <1>3, <1>11 DEF ParseUpdate

-----------------------------------------------------------------------------
(***************************************************************************)
(* Responses, and the channels of one resource.                            *)
(***************************************************************************)

\* What is meant on a channel that is asked: a response or none, a value or none.
LEMMA SingleShape ==
  ASSUME NEW c \in Asking, NEW u \in Meanings(c)
  PROVE  /\ u = [response |-> u.response, resources |-> u.resources]
         /\ u.resources = <<>> \/ \E v \in ValuesOf(c) : u.resources = <<v>>
         /\ u.response # None =>
              /\ u.response = [requestId |-> u.response.requestId, status |-> u.response.status]
              /\ None \notin ResponseTexts(u.response)
<1>1. c \notin Collections /\ c \notin {"media-entries", "participants"}
  BY DEF Asking, Collections
<1>2. CASE u \in Changes(c)
  <2>1. PICK v \in ValuesOf(c) : u = [response |-> None, resources |-> <<v>>]
    BY <1>1, <1>2 DEF Changes
  <2> QED
    BY <2>1
<1>3. CASE \E id \in AskedIds : u \in Responses(c, id)
  <2>1. PICK id \in AskedIds : u \in Responses(c, id)
    BY <1>3
  <2>2. u.response # None /\ None \notin ResponseTexts(u.response)
    BY <2>1, MarkersAssumption
  <2>3. CASE u = [response |-> [requestId |-> id, status |-> "kInvalidArgument"], resources |-> <<>>]
    BY <2>2, <2>3
  <2>4. CASE \E r \in {<<>>} \cup (IF c = "media-stats" THEN {} ELSE {<<v>> : v \in ValuesOf(c)}) :
               u = [response |-> [requestId |-> id, status |-> "kOk"], resources |-> r]
    <3>1. PICK r \in {<<>>} \cup (IF c = "media-stats" THEN {} ELSE {<<v>> : v \in ValuesOf(c)}) :
               u = [response |-> [requestId |-> id, status |-> "kOk"], resources |-> r]
      BY <2>4
    <3>2. r = <<>> \/ \E v \in ValuesOf(c) : r = <<v>>
      BY <3>1
    <3>3. u.resources = r /\ u.response = [requestId |-> id, status |-> "kOk"]
      BY <3>1
    <3> QED
      BY <2>2, <3>1, <3>2, <3>3
  <2> QED
    BY <2>1, <2>3, <2>4 DEF Responses
<1> QED
  BY <1>2, <1>3 DEF Meanings

LEMMA SingleText ==
  ASSUME NEW c \in Asking, NEW u, NEW text \in Texts(c, u)
  PROVE  /\ \E a \in Optional(u.response, ResponseTexts(u.response)) :
              /\ "response" \in DOMAIN text => text["response"] = a /\ a # None
              /\ "response" \notin DOMAIN text => a = None
         /\ \A i \in DOMAIN u.resources :
              Field(text, "resources", <<>>)[i] \in ValueTexts(c, u.resources[i])
         /\ DOMAIN Field(text, "resources", <<>>) = DOMAIN u.resources
         /\ Field(text, "resources", <<>>)
              = [i \in DOMAIN u.resources |-> Field(text, "resources", <<>>)[i]]
         /\ "resources" \in DOMAIN text => /\ Field(text, "resources", <<>>) # <<>>
                                           /\ text["resources"] = Field(text, "resources", <<>>)
<1>1. c \notin Collections
  BY DEF Asking, Collections
<1>2. PICK a \in Optional(u.response, ResponseTexts(u.response)),
           r \in Arrays([i \in DOMAIN u.resources |-> ValueTexts(c, u.resources[i])]) :
        text \in Written([response |-> a, resources |-> r], SingleDefaults)
  BY <1>1 DEF Texts, SingleTexts
<1>3. /\ DOMAIN r = DOMAIN u.resources
      /\ \A i \in DOMAIN u.resources : r[i] \in ValueTexts(c, u.resources[i])
      /\ r = [i \in DOMAIN u.resources |-> r[i]]
  BY <1>2 DEF Arrays
<1> DEFINE s == [response |-> a, resources |-> r]
<1>4. DOMAIN s = DOMAIN SingleDefaults /\ s = [f \in DOMAIN s |-> s[f]]
      /\ s["response"] = a /\ s["resources"] = r /\ DOMAIN s = {"response", "resources"}
  BY DEF SingleDefaults
<1>5. SingleDefaults["response"] = None /\ SingleDefaults["resources"] = <<>>
  BY DEF SingleDefaults
<1>6. text \in Written(s, SingleDefaults)
  BY <1>2
<1> HIDE DEF s
<1>7. /\ \A f \in DOMAIN text : text[f] = s[f]
      /\ \A f \in DOMAIN s \ DOMAIN text : s[f] = SingleDefaults[f]
      /\ \A f \in DOMAIN text : s[f] # SingleDefaults[f] \/ (s[f] # None /\ f \in Printed)
  <2>1. DOMAIN s = DOMAIN SingleDefaults /\ s = [f \in DOMAIN s |-> s[f]]
    BY <1>4
  <2> QED
    BY <2>1, <1>6, WrittenRead
<1>8. Field(text, "resources", <<>>) = r
  BY <1>4, <1>5, <1>7 DEF Field
<1>9. "resources" \in DOMAIN text => r # <<>> /\ text["resources"] = r
  BY <1>4, <1>5, <1>7, MessagesAssumption
<1>10. /\ "response" \in DOMAIN text => text["response"] = a /\ a # None
       /\ "response" \notin DOMAIN text => a = None
  BY <1>4, <1>5, <1>7
<1>11. Field(text, "resources", <<>>)
         = [i \in DOMAIN u.resources |-> Field(text, "resources", <<>>)[i]]
  BY <1>3, <1>8, FunctionIs
<1>12. /\ DOMAIN Field(text, "resources", <<>>) = DOMAIN u.resources
       /\ \A i \in DOMAIN u.resources :
            Field(text, "resources", <<>>)[i] \in ValueTexts(c, u.resources[i])
  BY <1>3, <1>8
<1> QED
  BY <1>2, <1>8, <1>9, <1>10, <1>11, <1>12

\* A response is read as it is written, and complete.
LEMMA ResponseRead ==
  ASSUME NEW c \in Asking, NEW u \in Meanings(c), NEW text \in Texts(c, u)
  PROVE  /\ ParseResponse(text) = u.response
         /\ "response" \in DOMAIN text => ~IncompleteStatsResponse(text["response"])
<1>1. PICK a \in Optional(u.response, ResponseTexts(u.response)) :
        /\ "response" \in DOMAIN text => text["response"] = a /\ a # None
        /\ "response" \notin DOMAIN text => a = None
  BY SingleText
<1>2. CASE u.response = None
  <2>1. a = None
    BY <1>1, <1>2 DEF Optional
  <2> QED
    BY <1>1, <1>2, <2>1 DEF ParseResponse
<1>3. CASE u.response # None
  <2>1. /\ u.response = [requestId |-> u.response.requestId, status |-> u.response.status]
        /\ a \in ResponseTexts(u.response) /\ a # None
    BY <1>1, <1>3, SingleShape DEF Optional
  <2>2. "response" \in DOMAIN text /\ text["response"] = a
    BY <1>1, <2>1
  <2>3. CASE a = [requestId |-> u.response.requestId,
                  status |-> [code |-> u.response.status, message |-> "text"]]
    BY <2>1, <2>2, <2>3 DEF ParseResponse, StatusOf, IncompleteStatsResponse, Field
  <2>4. CASE a = [requestId |-> u.response.requestId] /\ u.response.status = "kOk"
    BY <2>1, <2>2, <2>4 DEF ParseResponse, StatusOf, IncompleteStatsResponse, Field
  <2> QED
    BY <2>1, <2>3, <2>4 DEF ResponseTexts
<1> QED
  BY <1>2, <1>3

\* The values of an update, one by one.
LEMMA SingleElements ==
  ASSUME NEW c \in Asking, NEW u \in Meanings(c), NEW text \in Texts(c, u)
  PROVE  LET r == Field(text, "resources", <<>>)
         IN  /\ DOMAIN r = DOMAIN u.resources
             /\ u.resources = [i \in DOMAIN u.resources |-> u.resources[i]]
             /\ \A i \in DOMAIN r :
                  \E v \in ValuesOf(c) : u.resources[i] = v /\ r[i] \in ValueTexts(c, v)
<1>1. u.resources = <<>> \/ \E v \in ValuesOf(c) : u.resources = <<v>>
  BY SingleShape
<1>2. CASE u.resources = <<>>
  <2>1. DOMAIN u.resources = {} /\ u.resources = [i \in DOMAIN u.resources |-> u.resources[i]]
    BY <1>2, NoElement
  <2> QED
    BY <2>1, SingleText
<1>3. CASE \E v \in ValuesOf(c) : u.resources = <<v>>
  <2>1. PICK v \in ValuesOf(c) : u.resources = <<v>>
    BY <1>3
  <2>2. /\ u.resources = [i \in DOMAIN u.resources |-> u.resources[i]]
        /\ \A i \in DOMAIN u.resources : u.resources[i] = v
    BY <2>1, OneElement
  <2> QED
    BY <2>2, SingleText
<1> QED
  BY <1>1, <1>2, <1>3

\* The name of a value is read as the value.
LEMMA NameRead ==
  ASSUME NEW names, NEW v, \E name \in DOMAIN names : names[name] = v
  PROVE  NameOf(names, v) \in DOMAIN names /\ names[NameOf(names, v)] = v
  BY DEF NameOf

LEMMA SessionRead ==
  ASSUME NEW v \in Sessions, NEW text \in SessionTexts(v)
  PROVE  ParseSessionStatus(text) = v
<1> DEFINE state == NameOf(ConnectionStates, v.connectionState)
           reason == IF v.disconnectReason = None THEN None
                     ELSE NameOf(DisconnectReasons, v.disconnectReason)
           status == [connectionState |-> state, disconnectReason |-> reason]
<1>1. /\ v = [connectionState |-> v.connectionState, disconnectReason |-> v.disconnectReason]
      /\ v.connectionState \in {"kWaiting", "kJoined", "kDisconnected"}
      /\ v.disconnectReason \in {None, "kClientLeft", "kUserStopped", "kConferenceEnded",
                                 "kSessionUnhealthy"}
  BY StructsAssumption
<1>2. state \in DOMAIN ConnectionStates /\ ConnectionStates[state] = v.connectionState
  <2>1. \E name \in DOMAIN ConnectionStates : ConnectionStates[name] = v.connectionState
    <3>1. /\ ConnectionStates["STATE_WAITING"] = "kWaiting"
          /\ ConnectionStates["STATE_JOINED"] = "kJoined"
          /\ ConnectionStates["STATE_DISCONNECTED"] = "kDisconnected"
          /\ {"STATE_WAITING", "STATE_JOINED", "STATE_DISCONNECTED"} \subseteq DOMAIN ConnectionStates
      BY DEF ConnectionStates
    <3> QED
      BY <1>1, <3>1
  <2> QED
    BY <2>1, NameRead
<1>3. ASSUME v.disconnectReason # None
      PROVE  reason \in DOMAIN DisconnectReasons /\ DisconnectReasons[reason] = v.disconnectReason
  <2>1. \E name \in DOMAIN DisconnectReasons : DisconnectReasons[name] = v.disconnectReason
    <3>1. /\ DisconnectReasons["REASON_CLIENT_LEFT"] = "kClientLeft"
          /\ DisconnectReasons["REASON_USER_STOPPED"] = "kUserStopped"
          /\ DisconnectReasons["REASON_CONFERENCE_ENDED"] = "kConferenceEnded"
          /\ DisconnectReasons["REASON_SESSION_UNHEALTHY"] = "kSessionUnhealthy"
          /\ {"REASON_CLIENT_LEFT", "REASON_USER_STOPPED", "REASON_CONFERENCE_ENDED",
              "REASON_SESSION_UNHEALTHY"} \subseteq DOMAIN DisconnectReasons
      BY DEF DisconnectReasons
    <3> QED
      BY <1>1, <1>3, <3>1
  <2> QED
    BY <1>3, <2>1, NameRead
<1>4. "" \notin DOMAIN DisconnectReasons
  BY DEF DisconnectReasons
<1>5. None \notin DOMAIN ConnectionStates /\ None \notin DOMAIN DisconnectReasons
  BY MarkersAssumption
<1>6. text = [sessionStatus |-> Present(status)]
  BY DEF SessionTexts
<1>7. status.connectionState = state /\ status.disconnectReason = reason
      /\ DOMAIN status = {"connectionState", "disconnectReason"}
  OBVIOUS
<1>8. state # None
  BY <1>2, <1>4, <1>5
<1> HIDE DEF state, reason, status
<1>9. /\ Field(Present(status), "connectionState", "") = state
      /\ Field(Present(status), "disconnectReason", "") = IF reason = None THEN "" ELSE reason
  BY <1>7, <1>8 DEF Present, Field
<1>10. StringToMeetingConnectionState(state) = v.connectionState
  BY <1>2 DEF StringToMeetingConnectionState, Field
<1>11. StringToMeetingDisconnectReason(IF reason = None THEN "" ELSE reason) = v.disconnectReason
  <2>1. CASE v.disconnectReason = None
    <3>1. reason = None
      BY <2>1 DEF reason
    <3> QED
      BY <2>1, <3>1, <1>4 DEF StringToMeetingDisconnectReason, Field
  <2>2. CASE v.disconnectReason # None
    <3>1. reason # None
      BY <1>3, <1>4, <1>5, <2>2
    <3> QED
      BY <1>3, <2>2, <3>1 DEF StringToMeetingDisconnectReason, Field
  <2> QED
    BY <2>1, <2>2
<1>12. Field(text, "sessionStatus", Empty) = Present(status)
  BY <1>6 DEF Field
<1> QED
  BY <1>1, <1>9, <1>10, <1>11, <1>12 DEF ParseSessionStatus

\* An update of the session is read as it was meant.
LEMMA SessionControlRead ==
  ASSUME NEW u \in Meanings("session-control"), NEW text \in Texts("session-control", u)
  PROVE  ParseUpdate("session-control", text) = u
<1> DEFINE c == "session-control"
           r == Field(text, "resources", <<>>)
<1>1. c \in Asking /\ c \in Channels
  BY DEF Asking, Channels
<1>2. text # Malformed /\ r # Malformed
  BY <1>1, TextMarkers
<1>3. /\ DOMAIN r = DOMAIN u.resources
      /\ u.resources = [i \in DOMAIN u.resources |-> u.resources[i]]
      /\ \A i \in DOMAIN r :
           \E v \in ValuesOf(c) : u.resources[i] = v /\ r[i] \in ValueTexts(c, v)
  BY <1>1, SingleElements
<1>4. u = [response |-> u.response, resources |-> u.resources]
  BY <1>1, SingleShape
<1>5. ParseResponse(text) = u.response
  BY <1>1, ResponseRead
<1>6. ParseUpdate(c, text) = [response |-> ParseResponse(text),
                              resources |-> [i \in DOMAIN r |-> ParseSessionStatus(r[i])]]
  BY <1>2 DEF ParseUpdate, ParseSessionControl
<1> HIDE DEF r
<1>7. \A i \in DOMAIN r : ParseSessionStatus(r[i]) = u.resources[i]
  BY <1>3, SessionRead DEF ValuesOf, ValueTexts
<1>8. [i \in DOMAIN r |-> ParseSessionStatus(r[i])] = [i \in DOMAIN u.resources |-> u.resources[i]]
  BY <1>3, <1>7
<1> QED
  BY <1>3, <1>4, <1>5, <1>6, <1>8

\* A set written as an array is read as the set.
LEMMA SetRead ==
  ASSUME NEW S, IsFiniteSet(S)
  PROVE  {SetToSeq(S)[i] : i \in DOMAIN SetToSeq(S)} = S
<1> DEFINE n == Cardinality(S)
           f == SetToSeq(S)
<1>1. n \in Nat /\ ExistsBijection(1..n, S)
  BY FS_CardinalityType
<1>2. PICK g \in [1..n -> S] : IsInjective(g)
  BY <1>1 DEF ExistsBijection, Bijection, Injection
<1>3. f \in [1..n -> S] /\ IsInjective(f)
  BY <1>2 DEF SetToSeq
<1>4. f \in Injection(1..n, S)
  BY <1>3 DEF Injection
<1>5. IsFiniteSet(1..n) /\ Cardinality(1..n) = n
  BY <1>1, FS_Interval
<1>6. f \in Surjection(1..n, S)
  BY <1>4, <1>5, FS_Injection
<1> HIDE DEF f
<1>7. \A x \in S : \E i \in 1..n : f[i] = x
  BY <1>6 DEF Surjection
<1>8. {f[i] : i \in DOMAIN f} = S
  BY <1>3, <1>7
<1> QED
  BY <1>8 DEF f

\* A configuration is read as it is written, and complete.
LEMMA ConfigurationRead ==
  ASSUME NEW k \in Configurations, NEW text \in ConfigurationTexts(k)
  PROVE  ParseConfiguration(text) = k /\ ~IncompleteConfiguration(text)
<1> DEFINE sections == DOMAIN k.allowlist
           list == [s \in sections |-> [keys |-> SetToSeq(k.allowlist[s])]]
           written == [uploadIntervalSeconds |-> k.uploadIntervalSeconds, allowlist |-> list]
<1>1. /\ k = [uploadIntervalSeconds |-> k.uploadIntervalSeconds,
              allowlist |-> [s \in sections |-> k.allowlist[s]]]
      /\ \A s \in sections : IsFiniteSet(k.allowlist[s])
  BY StructsAssumption
<1>2. \A s \in sections : SetToSeq(k.allowlist[s]) # Malformed
  BY MarkersAssumption
<1>3. text = [configuration |->
                [k EXCEPT !.allowlist = [s \in DOMAIN @ |-> [keys |-> SetToSeq(@[s])]]]]
  BY DEF ConfigurationTexts
<1>4. [k EXCEPT !.allowlist = [s \in DOMAIN @ |-> [keys |-> SetToSeq(@[s])]]] = written
  BY <1>1
<1>5. text.configuration = written /\ "configuration" \in DOMAIN text
  BY <1>3, <1>4
<1>6. \A s \in sections : list[s].keys = SetToSeq(k.allowlist[s]) /\ "keys" \in DOMAIN list[s]
  OBVIOUS
<1>7. written.uploadIntervalSeconds = k.uploadIntervalSeconds /\ written.allowlist = list
      /\ DOMAIN list = sections /\ DOMAIN written = {"uploadIntervalSeconds", "allowlist"}
  OBVIOUS
<1> HIDE DEF list, written
<1>8. \A s \in sections : KeysOf(list[s]) = k.allowlist[s]
  <2> TAKE s \in sections
  <2>1. {SetToSeq(k.allowlist[s])[i] : i \in DOMAIN SetToSeq(k.allowlist[s])} = k.allowlist[s]
    BY <1>1, SetRead
  <2>2. list[s].keys = SetToSeq(k.allowlist[s])
    BY <1>6
  <2> QED
    BY <2>1, <2>2 DEF KeysOf
<1>9. \A s \in sections : Field(list[s], "keys", Malformed) # Malformed
  <2> TAKE s \in sections
  <2>1. Field(list[s], "keys", Malformed) = list[s].keys
    BY <1>6 DEF Field
  <2> QED
    BY <1>2, <1>6, <2>1
<1>10. ~IncompleteConfiguration(text)
  BY <1>5, <1>7, <1>9 DEF IncompleteConfiguration
<1>11. ParseConfiguration(text) = [uploadIntervalSeconds |-> k.uploadIntervalSeconds,
                                   allowlist |-> [s \in sections |-> KeysOf(list[s])]]
  BY <1>5, <1>7 DEF ParseConfiguration
<1>12. [s \in sections |-> KeysOf(list[s])] = [s \in sections |-> k.allowlist[s]]
  BY <1>8
<1> QED
  BY <1>1, <1>10, <1>11, <1>12

\* An update of the statistics' configuration is read as it was meant.
LEMMA StatsRead ==
  ASSUME NEW u \in Meanings("media-stats"), NEW text \in Texts("media-stats", u)
  PROVE  ParseUpdate("media-stats", text) = u
<1> DEFINE c == "media-stats"
           r == Field(text, "resources", <<>>)
<1>1. c \in Asking /\ c \in Channels
  BY DEF Asking, Channels
<1>2. text # Malformed /\ r # Malformed
  BY <1>1, TextMarkers
<1>3. /\ DOMAIN r = DOMAIN u.resources
      /\ u.resources = [i \in DOMAIN u.resources |-> u.resources[i]]
      /\ \A i \in DOMAIN r :
           \E v \in ValuesOf(c) : u.resources[i] = v /\ r[i] \in ValueTexts(c, v)
  BY <1>1, SingleElements
<1>4. /\ u = [response |-> u.response, resources |-> u.resources]
      /\ u.resources = <<>> \/ \E v \in ValuesOf(c) : u.resources = <<v>>
  BY <1>1, SingleShape
<1>5. /\ ParseResponse(text) = u.response
      /\ "response" \in DOMAIN text => ~IncompleteStatsResponse(text["response"])
  BY <1>1, ResponseRead
<1>6. /\ r = [i \in DOMAIN u.resources |-> r[i]]
      /\ "resources" \in DOMAIN text => r # <<>> /\ text["resources"] = r
  BY <1>1, SingleText
<1>7. \A i \in DOMAIN r : ParseConfiguration(r[i]) = u.resources[i] /\ ~IncompleteConfiguration(r[i])
  BY <1>3, ConfigurationRead DEF ValuesOf, ValueTexts
<1>8. "resources" \in DOMAIN text => Len(r) = 1 /\ 1 \in DOMAIN r
  <2> SUFFICES ASSUME "resources" \in DOMAIN text PROVE Len(r) = 1 /\ 1 \in DOMAIN r
    OBVIOUS
  <2> HIDE DEF r
  <2>1. u.resources # <<>>
    <3> SUFFICES ASSUME u.resources = <<>> PROVE r = <<>>
      BY <1>6
    <3>1. DOMAIN u.resources = {}
      BY NoElement
    <3> QED
      BY <3>1, <1>6, NoElement
  <2>2. DOMAIN u.resources = 1..1
    BY <1>4, <2>1, OneElement
  <2>3. r \in Seq(Range(r)) /\ Len(r) = 1
    BY <1>6, <2>2 DEF Range
  <2> QED
    BY <1>3, <2>2, <2>3
<1>9. ParseMediaStats(text) = [response |-> ParseResponse(text),
                               resources |-> [i \in DOMAIN r |-> ParseConfiguration(r[i])]]
  BY <1>2, <1>5, <1>7, <1>8 DEF ParseMediaStats
<1>10. ParseUpdate(c, text) = ParseMediaStats(text)
  BY <1>2 DEF ParseUpdate
<1> HIDE DEF r
<1>11. [i \in DOMAIN r |-> ParseConfiguration(r[i])] = [i \in DOMAIN u.resources |-> u.resources[i]]
  BY <1>3, <1>7
<1> QED
  BY <1>3, <1>4, <1>5, <1>9, <1>10, <1>11

LEMMA CanvasRead ==
  ASSUME NEW x \in [canvasId : Nat, ssrc : Nat, mediaEntryId : 0..(IdRange - 1)],
         NEW text \in Written(x, CanvasDefaults)
  PROVE  ParseCanvas(text) = x
<1>1. x = [canvasId |-> x.canvasId, ssrc |-> x.ssrc, mediaEntryId |-> x.mediaEntryId]
  OBVIOUS
<1>2. DOMAIN x = DOMAIN CanvasDefaults /\ x = [f \in DOMAIN x |-> x[f]]
  BY <1>1 DEF CanvasDefaults
<1>3. Fields(text, CanvasDefaults) = x
  BY <1>2, WrittenRead
<1>4. x.mediaEntryId % IdRange = x.mediaEntryId
  <2>1. IdRange \in Nat \ {0} /\ x.mediaEntryId \in 0..(IdRange - 1)
    BY StructsAssumption
  <2> HIDE DEF ParseCanvas
  <2> QED
    BY <2>1
<1>5. ParseCanvas(text) = [x EXCEPT !.mediaEntryId = @ % IdRange]
  BY <1>3 DEF ParseCanvas
<1> QED
  BY <1>1, <1>4, <1>5

\* An assignment is read as it is written.
LEMMA AssignmentRead ==
  ASSUME NEW v \in Assignments, NEW text \in AssignmentTexts(v)
  PROVE  ParseAssignmentSnapshot(text) = v /\ ~IllFormedAssignment(text)
<1>1. /\ v = [label |-> v.label, canvases |-> v.canvases]
      /\ v.canvases \in Seq([canvasId : Nat, ssrc : Nat, mediaEntryId : 0..(IdRange - 1)])
  BY StructsAssumption
<1>2. PICK a \in CanvasTexts(v.canvases) :
        \E w \in Written([v EXCEPT !.canvases = a], AssignmentDefaults) :
          text = [videoAssignment |-> w]
  BY DEF AssignmentTexts
<1>3. PICK w \in Written([v EXCEPT !.canvases = a], AssignmentDefaults) :
        text = [videoAssignment |-> w]
  BY <1>2
<1>4. /\ DOMAIN a = DOMAIN v.canvases
      /\ \A i \in DOMAIN v.canvases : a[i] \in Written(v.canvases[i], CanvasDefaults)
  BY DEF CanvasTexts, Arrays
<1>5. a # Malformed
  BY MarkersAssumption
<1> DEFINE s == [label |-> v.label, canvases |-> a]
<1>6. [v EXCEPT !.canvases = a] = s
  BY <1>1
<1>7. /\ DOMAIN s = DOMAIN AssignmentDefaults /\ s = [f \in DOMAIN s |-> s[f]]
      /\ "label" \in DOMAIN s /\ "canvases" \in DOMAIN s
      /\ s["label"] = v.label /\ s["canvases"] = a
      /\ AssignmentDefaults["label"] = "" /\ AssignmentDefaults["canvases"] = <<>>
  BY DEF AssignmentDefaults
<1> HIDE DEF s
<1>8. w \in Written(s, AssignmentDefaults)
  BY <1>3, <1>6
<1>9. \A f \in DOMAIN s : Field(w, f, AssignmentDefaults[f]) = s[f]
  <2>1. DOMAIN s = DOMAIN AssignmentDefaults /\ s = [f \in DOMAIN s |-> s[f]]
    BY <1>7
  <2> QED
    BY <1>8, <2>1, WrittenRead
<1>10. Field(w, "label", "") = v.label /\ Field(w, "canvases", <<>>) = a
  BY <1>7, <1>9
<1>11. "videoAssignment" \in DOMAIN text /\ text.videoAssignment = w
  BY <1>3
<1>12. \A i \in DOMAIN a : ParseCanvas(a[i]) = v.canvases[i]
  <2> TAKE i \in DOMAIN a
  <2>1. v.canvases[i] \in [canvasId : Nat, ssrc : Nat, mediaEntryId : 0..(IdRange - 1)]
    <3> DEFINE S == [canvasId : Nat, ssrc : Nat, mediaEntryId : 0..(IdRange - 1)]
               q == v.canvases
    <3>1. q \in Seq(S) /\ i \in DOMAIN q
      BY <1>1, <1>4
    <3> HIDE DEF S, q
    <3>2. q[i] \in S
      BY <3>1
    <3> QED
      BY <3>2 DEF S, q
  <2> QED
    BY <1>4, <2>1, CanvasRead
<1>13. [i \in DOMAIN a |-> ParseCanvas(a[i])] = v.canvases
  <2>1. v.canvases = [i \in DOMAIN v.canvases |-> v.canvases[i]]
    BY <1>1
  <2>2. [i \in DOMAIN a |-> ParseCanvas(a[i])] = [i \in DOMAIN v.canvases |-> v.canvases[i]]
    BY <1>4, <1>12
  <2> QED
    BY <2>1, <2>2
<1>14. ParseVideoAssignment(w) = [label |-> v.label, canvases |-> [i \in DOMAIN a |-> ParseCanvas(a[i])]]
  BY <1>10 DEF ParseVideoAssignment
<1>15. ~IllFormedAssignment(text)
  BY <1>5, <1>10, <1>11 DEF IllFormedAssignment
<1> QED
  BY <1>1, <1>11, <1>13, <1>14, <1>15 DEF ParseAssignmentSnapshot

\* An update of the video assignment is read as it was meant.
LEMMA AssignmentsRead ==
  ASSUME NEW u \in Meanings("video-assignment"), NEW text \in Texts("video-assignment", u)
  PROVE  ParseUpdate("video-assignment", text) = u
<1> DEFINE c == "video-assignment"
           r == Field(text, "resources", <<>>)
<1>1. c \in Asking /\ c \in Channels
  BY DEF Asking, Channels
<1>2. text # Malformed /\ r # Malformed
  BY <1>1, TextMarkers
<1>3. /\ DOMAIN r = DOMAIN u.resources
      /\ u.resources = [i \in DOMAIN u.resources |-> u.resources[i]]
      /\ \A i \in DOMAIN r :
           \E v \in ValuesOf(c) : u.resources[i] = v /\ r[i] \in ValueTexts(c, v)
  BY <1>1, SingleElements
<1>4. u = [response |-> u.response, resources |-> u.resources]
  BY <1>1, SingleShape
<1>5. ParseResponse(text) = u.response
  BY <1>1, ResponseRead
<1>6. \A i \in DOMAIN r : ParseAssignmentSnapshot(r[i]) = u.resources[i] /\ ~IllFormedAssignment(r[i])
  BY <1>3, AssignmentRead DEF ValuesOf, ValueTexts
<1>7. ParseVideoAssignments(text) = [response |-> ParseResponse(text),
                                     resources |-> [i \in DOMAIN r |-> ParseAssignmentSnapshot(r[i])]]
  BY <1>2, <1>6 DEF ParseVideoAssignments
<1>8. ParseUpdate(c, text) = ParseVideoAssignments(text)
  BY <1>2 DEF ParseUpdate
<1> HIDE DEF r
<1>9. [i \in DOMAIN r |-> ParseAssignmentSnapshot(r[i])] = [i \in DOMAIN u.resources |-> u.resources[i]]
  BY <1>3, <1>6
<1> QED
  BY <1>3, <1>4, <1>5, <1>7, <1>8, <1>9

\* Whatever a channel's update means, and however it is written, the handler of
\* the channel reads what was meant.
THEOREM UpdatesRead ==
  \A c \in Channels : \A u \in Meanings(c) : \A text \in Texts(c, u) :
    ParseUpdate(c, text) = u /\ u # Error
<1> TAKE c \in Channels
<1> TAKE u \in Meanings(c)
<1> TAKE text \in Texts(c, u)
<1>1. u # Error
  BY TextMarkers
<1>2. CASE c \in Collections
  <2>1. u \in Changes(c)
    BY <1>2 DEF Meanings, Collections, Asking
  <2> QED
    BY <1>1, <1>2, <2>1, EntriesRead, ParticipantsRead DEF Collections
<1>3. CASE c \notin Collections
  BY <1>1, <1>3, SessionControlRead, StatsRead, AssignmentsRead DEF Channels, Collections
<1> QED
  BY <1>2, <1>3

-----------------------------------------------------------------------------
(***************************************************************************)
(* Requests.                                                               *)
(***************************************************************************)

\* The id of a request is read back, and its optional field when it is set.
LEMMA RequestField ==
  ASSUME NEW request, request.requestId # None, NEW field, field # "requestId", NEW value
  PROVE  LET json == RequestJson(request, field, value)
         IN  /\ json.request.requestId = request.requestId
             /\ field \in DOMAIN json.request <=> value # None
             /\ field \in DOMAIN json.request => json.request[field] = value
  BY DEF RequestJson, Present

LEMMA CanvasAsAsked ==
  ASSUME NEW x \in [id : Nat, dimensions : Nat, assignmentProtocol : {"kDirect", "kRelevant"}]
  PROVE  ReadCanvas(StringifyCanvas(x)) = x
<1> DEFINE protocol == IF x.assignmentProtocol = "kDirect" THEN "direct" ELSE "relevant"
           text == [f \in {"id", "dimensions", protocol} |-> IF f = protocol THEN Empty ELSE x[f]]
<1>1. x = [id |-> x.id, dimensions |-> x.dimensions, assignmentProtocol |-> x.assignmentProtocol]
      /\ x.assignmentProtocol \in {"kDirect", "kRelevant"}
  OBVIOUS
<1>2. StringifyCanvas(x) = text
  BY DEF StringifyCanvas
<1>3. protocol # "id" /\ protocol # "dimensions" /\ protocol \in {"direct", "relevant"}
  OBVIOUS
<1>4. "direct" \in DOMAIN text <=> x.assignmentProtocol = "kDirect"
  OBVIOUS
<1>5. text.id = x.id /\ text.dimensions = x.dimensions
  BY <1>3
<1> HIDE DEF text, protocol
<1> QED
  BY <1>1, <1>2, <1>4, <1>5 DEF ReadCanvas

\* The assignment that the servers read is the one that was asked for.
LEMMA AssignmentAsAsked ==
  ASSUME NEW p \in [label : STRING, videoResolution : Nat, canvases :
                    Seq([id : Nat, dimensions : Nat,
                         assignmentProtocol : {"kDirect", "kRelevant"}])],
         p.label # None,
         [i \in DOMAIN p.canvases |-> StringifyCanvas(p.canvases[i])] # None
  PROVE  ReadAssignment(StringifyAssignment(p)) = p
<1> DEFINE S == [id : Nat, dimensions : Nat, assignmentProtocol : {"kDirect", "kRelevant"}]
           q == p.canvases
           texts == [i \in DOMAIN q |-> StringifyCanvas(q[i])]
           model == [label |-> p.label, canvases |-> ArrayField(texts)]
<1>1. p = [label |-> p.label, canvases |-> p.canvases, videoResolution |-> p.videoResolution]
      /\ q \in Seq(S)
  OBVIOUS
<1>2. StringifyAssignment(p) = [layoutModel |-> Present(model), maxVideoResolution |-> p.videoResolution]
  BY DEF StringifyAssignment
<1>3. texts # None
  OBVIOUS
<1>4. model.label = p.label /\ model.canvases = ArrayField(texts) /\ DOMAIN model = {"label", "canvases"}
  OBVIOUS
<1> HIDE DEF model
<1>5. Present(model).label = p.label
      /\ Field(Present(model), "canvases", <<>>)
           = IF ArrayField(texts) = None THEN <<>> ELSE ArrayField(texts)
  BY <1>4 DEF Present, Field
<1>6. Field(Present(model), "canvases", <<>>) = texts
  BY <1>3, <1>5 DEF ArrayField
<1>7. \A i \in DOMAIN q : ReadCanvas(StringifyCanvas(q[i])) = q[i]
  <2> HIDE DEF q, S
  <2> TAKE i \in DOMAIN q
  <2>1. q[i] \in S
    BY <1>1
  <2> QED
    BY <2>1, CanvasAsAsked DEF S
<1>8. [i \in DOMAIN texts |-> ReadCanvas(texts[i])] = q
  <2>1. q = [i \in DOMAIN q |-> q[i]]
    BY <1>1
  <2>2. [i \in DOMAIN texts |-> ReadCanvas(texts[i])] = [i \in DOMAIN q |-> q[i]]
    BY <1>7
  <2> QED
    BY <2>1, <2>2
<1> HIDE DEF texts, q
<1>9. ReadAssignment(StringifyAssignment(p))
        = [label |-> p.label, canvases |-> [i \in DOMAIN texts |-> ReadCanvas(texts[i])],
           videoResolution |-> p.videoResolution]
  BY <1>2, <1>5, <1>6 DEF ReadAssignment
<1> QED
  BY <1>1, <1>8, <1>9 DEF q

\* A request of the application is read as it was asked.
LEMMA RequestRead ==
  ASSUME NEW r \in Requests, r.channel # "media-stats",
         StringifyRequest(r.channel, r) # Error
  PROVE  ReadRequest(r.channel, StringifyRequest(r.channel, r)) = r
<1>1. r.channel \in {"session-control", "video-assignment"}
  BY RequestsAssumption DEF Asking
<1>2. CASE r.channel = "session-control"
  <2> DEFINE value == IF r.payload = None THEN None ELSE Empty
             json == RequestJson(r, "leave", value)
  <2>1. r = [channel |-> r.channel, requestId |-> r.requestId, payload |-> r.payload]
        /\ r.requestId \in Nat /\ r.payload \in {None, Empty}
    BY <1>2, RequestsAssumption
  <2>2. r.requestId # None /\ None # Empty
    BY <2>1, MarkersAssumption
  <2>3. StringifyRequest(r.channel, r) = json
    BY <1>2 DEF StringifyRequest, StringifySessionControl
  <2>4. /\ json.request.requestId = r.requestId
        /\ "leave" \in DOMAIN json.request <=> value # None
        /\ "leave" \in DOMAIN json.request => json.request["leave"] = value
    BY <2>2, RequestField
  <2>5. Field(json.request, "leave", None) = r.payload
    <3> HIDE DEF json
    <3> QED
      BY <2>1, <2>2, <2>4 DEF Field
  <2> HIDE DEF json
  <2>6. ReadRequest("session-control", json)
          = [channel |-> "session-control", requestId |-> r.requestId, payload |-> r.payload]
    BY <2>4, <2>5 DEF ReadRequest
  <2> QED
    BY <1>2, <2>1, <2>3, <2>6
<1>3. CASE r.channel = "video-assignment"
  <2> DEFINE value == IF r.payload = None THEN None ELSE StringifyAssignment(r.payload)
             json == RequestJson(r, "setAssignment", value)
             P == [label : STRING, videoResolution : Nat, canvases :
                   Seq([id : Nat, dimensions : Nat,
                        assignmentProtocol : {"kDirect", "kRelevant"}])]
  <2>1. r \in [channel : {"video-assignment"}, requestId : Nat, payload : {None} \cup P]
    BY <1>3, RequestsAssumption
  <2> HIDE DEF P
  <2>2. r = [channel |-> r.channel, requestId |-> r.requestId, payload |-> r.payload]
        /\ r.requestId \in Nat /\ r.payload \in {None} \cup P
    BY <2>1
  <2>3. r.requestId # None
    BY <2>2, MarkersAssumption
  <2>4. StringifyRequest(r.channel, r) = json
    BY <1>3 DEF StringifyRequest, StringifyVideoAssignment
  <2>5. /\ json.request.requestId = r.requestId
        /\ "setAssignment" \in DOMAIN json.request <=> value # None
        /\ "setAssignment" \in DOMAIN json.request => json.request["setAssignment"] = value
    BY <2>3, RequestField
  <2> HIDE DEF json
  <2>6. (IF "setAssignment" \in DOMAIN json.request
         THEN ReadAssignment(json.request.setAssignment) ELSE None) = r.payload
    <3>1. CASE r.payload = None
      BY <2>5, <3>1
    <3>2. CASE r.payload # None
      <4>1. r.payload \in P
        BY <2>2, <3>2
      <4>2. None \notin {r.payload.label, StringifyAssignment(r.payload),
                    [i \in DOMAIN r.payload.canvases |-> StringifyCanvas(r.payload.canvases[i])]}
        BY <1>3, <3>2, MarkersAssumption
      <4>3. ReadAssignment(StringifyAssignment(r.payload)) = r.payload
        BY <4>1, <4>2, AssignmentAsAsked DEF P
      <4> QED
        BY <2>5, <3>2, <4>2, <4>3
    <3> QED
      BY <3>1, <3>2
  <2>7. ReadRequest("video-assignment", json)
          = [channel |-> "video-assignment", requestId |-> r.requestId, payload |-> r.payload]
    BY <2>5, <2>6 DEF ReadRequest
  <2> QED
    BY <1>3, <2>2, <2>4, <2>7
<1> QED
  BY <1>1, <1>2, <1>3

-----------------------------------------------------------------------------
(***************************************************************************)
(* What is collected of a sequence, by induction over its length.          *)
(***************************************************************************)

\* Every set of numbers that is not empty has a least one.
LEMMA LeastNat ==
  ASSUME NEW T, T \subseteq Nat, T # {}
  PROVE  \E n \in T : \A m \in T : n <= m
<1> DEFINE R == {p \in Nat \X Nat : p[1] < p[2]}
<1>1. IsWellFoundedOn(R, Nat)
  BY NatLessThanWellFounded DEF OpToRel
<1> HIDE DEF R
<1>2. PICK n \in T : \A m \in T : <<m, n>> \notin R
  BY <1>1, WFMin
<1>3. \A m \in T : <<m, n>> \in Nat \X Nat
  OBVIOUS
<1>4. \A m \in T : ~(m < n)
  BY <1>2, <1>3 DEF R
<1> QED
  BY <1>4

\* Let a set of numbers hold 0 and with n also n + 1, below a bound: then it
\* holds all below the bound.
LEMMA UpTo ==
  ASSUME NEW b \in Nat, NEW T, 0 \in T, \A n \in Nat : n < b /\ n \in T => n + 1 \in T
  PROVE  \A n \in 0..b : n \in T
<1> DEFINE B == {n \in 0..b : n \notin T}
<1> SUFFICES ASSUME B # {} PROVE FALSE
  OBVIOUS
<1>1. B \subseteq Nat
  OBVIOUS
<1> HIDE DEF B
<1>2. PICK n \in B : \A m \in B : n <= m
  BY <1>1, LeastNat
<1>3. n \in 0..b /\ n \notin T /\ n # 0
  BY <1>2 DEF B
<1>4. n - 1 \in 0..b /\ n - 1 \in Nat /\ n - 1 < b /\ (n - 1) + 1 = n
  BY <1>3
<1>5. n - 1 \in T
  BY <1>2, <1>4 DEF B
<1> QED
  BY <1>3, <1>4, <1>5


\* What is collected of the first n places: the values at the places to keep.
Step(k, keep, val, n) ==
  IF n = 0 THEN <<>> ELSE IF n \in keep THEN Append(k[n - 1], val[n]) ELSE k[n - 1]
Collects(k, b, keep, val) == k = [n \in 0..b |-> Step(k, keep, val, n)]

LEMMA CollectExists ==
  ASSUME NEW len \in Nat, NEW keep, NEW val
  PROVE  \E k : Collects(k, len, keep, val)
<1> DEFINE T == {b \in Nat : \E g : Collects(g, b, keep, val)}
<1>1. 0 \in T
  <2>1. Collects([n \in 0..0 |-> <<>>], 0, keep, val)
    BY DEF Collects, Step
  <2> QED
    BY <2>1
<1>2. ASSUME NEW b \in Nat, b \in T PROVE b + 1 \in T
  <2>1. PICK g : Collects(g, b, keep, val)
    BY <1>2
  <2> DEFINE last == IF b + 1 \in keep THEN Append(g[b], val[b + 1]) ELSE g[b]
             h == [n \in 0..(b + 1) |-> IF n <= b THEN g[n] ELSE last]
  <2>2. ASSUME NEW n \in 0..(b + 1) PROVE h[n] = Step(h, keep, val, n)
    <3>1. CASE n <= b
      <4>1. n \in 0..b /\ h[n] = g[n]
        BY <3>1
      <4>2. g[n] = Step(g, keep, val, n)
        BY <2>1, <4>1 DEF Collects
      <4>3. n # 0 => h[n - 1] = g[n - 1]
        BY <4>1
      <4> QED
        BY <4>1, <4>2, <4>3 DEF Step
    <3>2. CASE n = b + 1
      <4>1. h[n] = last /\ h[n - 1] = g[b]
        BY <3>2
      <4> QED
        BY <3>2, <4>1 DEF Step
    <3> QED
      BY <3>1, <3>2
  <2>3. Collects(h, b + 1, keep, val)
    <3> DEFINE r == [n \in 0..(b + 1) |-> Step(h, keep, val, n)]
    <3>1. \A n \in 0..(b + 1) : h[n] = r[n]
      BY <2>2
    <3>2. h = [n \in 0..(b + 1) |-> h[n]] /\ r = [n \in 0..(b + 1) |-> r[n]]
      OBVIOUS
    <3> HIDE DEF h, r
    <3>3. h = r
      BY <3>1, <3>2
    <3> QED
      BY <3>3 DEF r, Collects
  <2> HIDE DEF h
  <2> QED
    BY <2>3
<1> HIDE DEF T
<1>3. len \in T
  <2>1. \A n \in 0..len : n \in T
    BY <1>1, <1>2, UpTo
  <2> QED
    BY <2>1
<1> QED
  BY <1>3 DEF T

LEMMA CollectValues ==
  ASSUME NEW b \in Nat, NEW keep, NEW val, NEW k, Collects(k, b, keep, val)
  PROVE  /\ k[0] = <<>>
         /\ \A n \in Nat : n < b => k[n + 1] = IF n + 1 \in keep THEN Append(k[n], val[n + 1]) ELSE k[n]
<1>1. \A n \in 0..b : k[n] = Step(k, keep, val, n)
  BY DEF Collects
<1>2. k[0] = <<>>
  BY <1>1 DEF Step
<1>3. ASSUME NEW n \in Nat, n < b
      PROVE  k[n + 1] = IF n + 1 \in keep THEN Append(k[n], val[n + 1]) ELSE k[n]
  <2>1. n + 1 \in 0..b /\ n + 1 # 0 /\ (n + 1) - 1 = n
    BY <1>3
  <2> QED
    BY <1>1, <2>1 DEF Step
<1> QED
  BY <1>2, <1>3

\* The values collected are those at the places to keep.
LEMMA CollectRange ==
  ASSUME NEW b \in Nat, NEW keep, NEW val, NEW k, Collects(k, b, keep, val),
         NEW V, \A n \in 1..b : n \in keep => val[n] \in V
  PROVE  /\ k[b] \in Seq(V)
         /\ \A i \in DOMAIN k[b] : \E n \in 1..b : n \in keep /\ k[b][i] = val[n]
         /\ \A n \in 1..b : n \in keep => \E i \in DOMAIN k[b] : k[b][i] = val[n]
<1> DEFINE Right(m) == /\ k[m] \in Seq(V)
                       /\ \A i \in DOMAIN k[m] : \E n \in 1..m : n \in keep /\ k[m][i] = val[n]
                       /\ \A n \in 1..m : n \in keep => \E i \in DOMAIN k[m] : k[m][i] = val[n]
           T == {m \in 0..b : Right(m)}
<1>1. /\ k[0] = <<>>
      /\ \A n \in Nat : n < b => k[n + 1] = IF n + 1 \in keep THEN Append(k[n], val[n + 1]) ELSE k[n]
  BY CollectValues
<1>2. 0 \in T
  <2>1. k[0] \in Seq(V) /\ DOMAIN k[0] = {}
    BY <1>1, NoElement
  <2> QED
    BY <2>1
<1>3. ASSUME NEW m \in Nat, m < b, m \in T PROVE m + 1 \in T
  <2>1. /\ m + 1 \in 0..b /\ m + 1 \in 1..b
        /\ \A n \in 1..(m + 1) : n \in 1..m \/ n = m + 1
        /\ \A n \in 1..m : n \in 1..(m + 1)
        /\ m + 1 \in 1..(m + 1)
    BY <1>3
  <2>2. Right(m)
    BY <1>3
  <2> SUFFICES Right(m + 1)
    BY <2>1
  <2> HIDE DEF T
  <2>3. CASE m + 1 \notin keep
    <3>1. k[m + 1] = k[m]
      BY <1>1, <1>3, <2>3
    <3> QED
      BY <2>1, <2>2, <2>3, <3>1
  <2>4. CASE m + 1 \in keep
    <3> DEFINE v == val[m + 1]
               q == k[m]
               r == k[m + 1]
    <3>1. r = Append(q, v) /\ v \in V /\ q \in Seq(V)
      BY <1>1, <1>3, <2>1, <2>2, <2>4
    <3>2. /\ r \in Seq(V) /\ DOMAIN q = 1..Len(q) /\ DOMAIN r = 1..(Len(q) + 1) /\ Len(q) \in Nat
          /\ \A i \in 1..Len(q) : r[i] = q[i]
          /\ r[Len(q) + 1] = v
      <4> HIDE DEF q, r, v
      <4> QED
        BY <3>1
    <3>3. /\ \A i \in DOMAIN q : \E n \in 1..m : n \in keep /\ q[i] = val[n]
          /\ \A n \in 1..m : n \in keep => \E i \in DOMAIN q : q[i] = val[n]
      BY <2>2
    <3> HIDE DEF q, r
    <3>4. ASSUME NEW i \in DOMAIN r PROVE \E n \in 1..(m + 1) : n \in keep /\ r[i] = val[n]
      <4>1. CASE i \in DOMAIN q
        BY <2>1, <3>2, <3>3, <4>1
      <4>2. CASE i = Len(q) + 1
        BY <2>1, <2>4, <3>2, <4>2
      <4> QED
        BY <3>2, <4>1, <4>2
    <3>5. ASSUME NEW n \in 1..(m + 1), n \in keep PROVE \E i \in DOMAIN r : r[i] = val[n]
      <4>1. CASE n \in 1..m
        <5>1. PICK i \in DOMAIN q : q[i] = val[n]
          BY <3>3, <3>5, <4>1
        <5> QED
          BY <3>2, <5>1
      <4>2. CASE n = m + 1
        BY <3>2, <4>2
      <4> QED
        BY <2>1, <4>1, <4>2
    <3> QED
      BY <3>2, <3>4, <3>5 DEF r
  <2> QED
    BY <2>3, <2>4
<1> HIDE DEF T
<1>4. b \in T
  <2>1. \A n \in 0..b : n \in T
    BY <1>2, <1>3, UpTo
  <2> QED
    BY <2>1
<1> QED
  BY <1>4 DEF T

-----------------------------------------------------------------------------
(***************************************************************************)
(* The upload of statistics.                                               *)
(***************************************************************************)

\* The sections uploaded are the allowed parts of those that have an allowed part.
Parts(report, allowlist) ==
  {AllowedSection(s, allowlist) : s \in {t \in Range(report) : Uploaded(t, allowlist)}}
PartsOf(sections, report, allowlist) ==
  /\ sections \in Seq(Parts(report, allowlist))
  /\ \A i \in DOMAIN sections : \E n \in DOMAIN report :
       /\ Uploaded(report[n], allowlist)
       /\ sections[i] = AllowedSection(report[n], allowlist)
  /\ \A n \in DOMAIN report : Uploaded(report[n], allowlist) =>
       \E i \in DOMAIN sections : sections[i] = AllowedSection(report[n], allowlist)

LEMMA UploadedSections ==
  ASSUME NEW report \in Reports, NEW id, NEW allowlist
  PROVE  \E sections :
           /\ StatsRequestFromReport(report, id, allowlist)
                = [channel |-> "media-stats", requestId |-> id, payload |-> sections]
           /\ PartsOf(sections, report, allowlist)
<1> DEFINE upload == StatsRequestFromReport(report, id, allowlist)
           keep == {n \in DOMAIN report : Uploaded(report[n], allowlist)}
           val == [n \in DOMAIN report |-> AllowedSection(report[n], allowlist)]
           V == Parts(report, allowlist)
           Body(g) == [n \in 0..Len(report) |->
                         IF n = 0 THEN <<>>
                         ELSE IF Uploaded(report[n], allowlist)
                              THEN Append(g[n - 1], AllowedSection(report[n], allowlist))
                              ELSE g[n - 1]]
           k == CHOOSE g : g = Body(g)
<1>1. report \in Seq(Range(report))
  BY RequestsAssumption
<1>2. Len(report) \in Nat /\ DOMAIN report = 1..Len(report)
  BY <1>1
<1>3. ASSUME NEW g PROVE Body(g) = [n \in 0..Len(report) |-> Step(g, keep, val, n)]
  <2>1. ASSUME NEW n \in 0..Len(report)
        PROVE  Step(g, keep, val, n)
                 = IF n = 0 THEN <<>>
                   ELSE IF Uploaded(report[n], allowlist)
                        THEN Append(g[n - 1], AllowedSection(report[n], allowlist))
                        ELSE g[n - 1]
    <3>1. n # 0 => n \in DOMAIN report
      BY <1>2
    <3> QED
      BY <3>1 DEF Step
  <2> QED
    BY <2>1
<1>4. upload = [channel |-> "media-stats", requestId |-> id, payload |-> k[Len(report)]]
  BY DEF StatsRequestFromReport
<1> HIDE DEF Body, keep, val, upload
<1>5. \E g : g = Body(g)
  <2>1. PICK g : Collects(g, Len(report), keep, val)
    BY <1>2, CollectExists
  <2>2. g = Body(g)
    BY <2>1, <1>3 DEF Collects
  <2> QED
    BY <2>2
<1>6. k = Body(k)
  BY <1>5
<1> HIDE DEF k
<1>7. Collects(k, Len(report), keep, val)
  BY <1>3, <1>6 DEF Collects
<1>8. \A n \in 1..Len(report) : n \in keep => val[n] \in V
  BY <1>2 DEF keep, val, Range, Parts
<1> HIDE DEF V
<1>9. /\ k[Len(report)] \in Seq(V)
      /\ \A i \in DOMAIN k[Len(report)] :
           \E n \in 1..Len(report) : n \in keep /\ k[Len(report)][i] = val[n]
      /\ \A n \in 1..Len(report) : n \in keep =>
           \E i \in DOMAIN k[Len(report)] : k[Len(report)][i] = val[n]
  <2> DEFINE b == Len(report)
  <2>1. b \in Nat /\ Collects(k, b, keep, val) /\ \A n \in 1..b : n \in keep => val[n] \in V
    BY <1>2, <1>7, <1>8
  <2> HIDE DEF b
  <2>2. /\ k[b] \in Seq(V)
        /\ \A i \in DOMAIN k[b] : \E n \in 1..b : n \in keep /\ k[b][i] = val[n]
        /\ \A n \in 1..b : n \in keep => \E i \in DOMAIN k[b] : k[b][i] = val[n]
    BY <2>1, CollectRange
  <2> QED
    BY <2>2 DEF b
<1> DEFINE sections == k[Len(report)]
<1> HIDE DEF sections
<1>10. \A n \in DOMAIN report : /\ val[n] = AllowedSection(report[n], allowlist)
                                /\ n \in keep <=> Uploaded(report[n], allowlist)
  BY DEF val, keep
<1>11. \A i \in DOMAIN sections : \E n \in DOMAIN report :
         /\ Uploaded(report[n], allowlist)
         /\ sections[i] = AllowedSection(report[n], allowlist)
  <2> TAKE i \in DOMAIN sections
  <2>1. PICK n \in 1..Len(report) : n \in keep /\ sections[i] = val[n]
    BY <1>9 DEF sections
  <2>2. n \in DOMAIN report
    BY <1>2, <2>1
  <2> QED
    BY <1>10, <2>1, <2>2
<1>12. \A n \in DOMAIN report : Uploaded(report[n], allowlist) =>
         \E i \in DOMAIN sections : sections[i] = AllowedSection(report[n], allowlist)
  BY <1>2, <1>9, <1>10 DEF sections
<1>13. PartsOf(sections, report, allowlist)
  BY <1>9, <1>11, <1>12 DEF PartsOf, V, sections
<1> QED
  BY <1>4, <1>13 DEF upload, sections

LEMMA SectionRead ==
  ASSUME NEW s, s = [type |-> s.type, id |-> s.id, values |-> s.values],
         s.type # "id", DOMAIN s.values # {}
  PROVE  ReadSection(StringifySection(s)) = s
<1> DEFINE json == StringifySection(s)
<1>1. DOMAIN json = {"id", s.type} /\ json["id"] = s.id /\ json[s.type] = s.values
  BY DEF StringifySection
<1> HIDE DEF json
<1>2. (CHOOSE f \in DOMAIN json : f # "id") = s.type
  BY <1>1
<1>3. ReadSection(json) = [type |-> s.type, id |-> s.id, values |-> s.values]
  BY <1>1, <1>2 DEF ReadSection
<1> QED
  BY <1>3 DEF json

\* An allowed part of a section of a report is a section that is not empty.
LEMMA AllowedIs ==
  ASSUME NEW report \in Reports, NEW n \in DOMAIN report, NEW allowlist,
         Uploaded(report[n], allowlist)
  PROVE  LET s == AllowedSection(report[n], allowlist)
             t == report[n]
         IN  /\ s = [type |-> s.type, id |-> s.id, values |-> s.values]
             /\ s.type = t.type /\ s.id = t.id /\ s.type # "id"
             /\ DOMAIN s.values = DOMAIN t.values \cap allowlist[t.type]
             /\ DOMAIN s.values # {}
             /\ \A a \in DOMAIN s.values : s.values[a] = t.values[a]
<1>1. report[n] \in Range(report)
  BY DEF Range
<1>2. report[n] = [type |-> report[n].type, id |-> report[n].id, values |-> report[n].values]
      /\ report[n].type # "id"
  BY <1>1, RequestsAssumption
<1> DEFINE t == report[n]
<1> HIDE DEF t
<1>3. t = [type |-> t.type, id |-> t.id, values |-> t.values] /\ t.type # "id"
      /\ DOMAIN t.values \cap allowlist[t.type] # {}
  BY <1>2 DEF t, Uploaded
<1>4. AllowedSection(t, allowlist)
        = [type |-> t.type, id |-> t.id, values |->
             [a \in DOMAIN t.values \cap allowlist[t.type] |-> t.values[a]]]
  BY <1>3 DEF AllowedSection
<1> QED
  BY <1>3, <1>4 DEF t

\* What the servers read of an upload are the sections that the client meant.
LEMMA UploadRead ==
  ASSUME NEW report \in Reports, NEW k \in Configurations, NEW id \in Nat
  PROVE  LET upload == StatsRequestFromReport(report, id, k.allowlist)
         IN  ReadRequest("media-stats", StringifyMediaStats(upload)) = upload
<1> DEFINE allowlist == k.allowlist
           upload == StatsRequestFromReport(report, id, allowlist)
           sections == upload.payload
           texts == [i \in DOMAIN sections |-> StringifySection(sections[i])]
           value == IF sections = <<>> THEN None ELSE [sections |-> texts]
           json == RequestJson(upload, "uploadMediaStats", value)
<1>1. /\ upload = [channel |-> "media-stats", requestId |-> id, payload |-> sections]
      /\ PartsOf(sections, report, allowlist)
  <2>1. PICK q : /\ upload = [channel |-> "media-stats", requestId |-> id, payload |-> q]
                 /\ PartsOf(q, report, allowlist)
    BY UploadedSections
  <2> QED
    BY <2>1
<1>2. sections # None /\ [sections |-> texts] # None
  <2> DEFINE payload == StatsRequestFromReport(report, 1, k.allowlist).payload
  <2>1. None \notin {payload, [sections |-> [i \in DOMAIN payload |-> StringifySection(payload[i])]]}
    BY MarkersAssumption
  <2>2. payload = sections
    BY DEF StatsRequestFromReport
  <2> HIDE DEF payload, sections
  <2> QED
    BY <2>1, <2>2
<1>3. \A i \in DOMAIN sections : ReadSection(StringifySection(sections[i])) = sections[i]
  <2> TAKE i \in DOMAIN sections
  <2>1. PICK n \in DOMAIN report :
          /\ Uploaded(report[n], allowlist)
          /\ sections[i] = AllowedSection(report[n], allowlist)
    <3> HIDE DEF sections
    <3> QED
      BY <1>1 DEF PartsOf
  <2> DEFINE s == sections[i]
  <2>2. /\ s = [type |-> s.type, id |-> s.id, values |-> s.values]
        /\ s.type # "id" /\ DOMAIN s.values # {}
    BY <2>1, AllowedIs
  <2> HIDE DEF s
  <2>3. ReadSection(StringifySection(s)) = s
    BY <2>2, SectionRead
  <2> QED
    BY <2>3 DEF s
<1> HIDE DEF upload, sections
<1>4. upload.requestId = id /\ upload.payload = sections /\ id # None
  BY <1>1, MarkersAssumption
<1>5. StringifyMediaStats(upload) = json
  BY <1>2, <1>4 DEF StringifyMediaStats
<1>6. /\ json.request.requestId = upload.requestId
      /\ "uploadMediaStats" \in DOMAIN json.request <=> value # None
      /\ "uploadMediaStats" \in DOMAIN json.request => json.request["uploadMediaStats"] = value
  <2> HIDE DEF value
  <2> QED
    BY <1>4, RequestField
<1> HIDE DEF json
<1>7. sections = [i \in DOMAIN sections |-> sections[i]]
  BY <1>1 DEF PartsOf
<1>8. ReadUpload(json.request) = sections
  <2>1. CASE sections = <<>>
    BY <1>6, <2>1 DEF ReadUpload
  <2>2. CASE sections # <<>>
    <3>1. value = [sections |-> texts]
      BY <2>2
    <3>2. json.request.uploadMediaStats.sections = texts /\ "uploadMediaStats" \in DOMAIN json.request
      BY <1>2, <1>6, <3>1
    <3>3. ReadUpload(json.request) = [i \in DOMAIN texts |-> ReadSection(texts[i])]
      <4> HIDE DEF texts
      <4> QED
        BY <3>2 DEF ReadUpload
    <3>4. [i \in DOMAIN texts |-> ReadSection(texts[i])] = [i \in DOMAIN sections |-> sections[i]]
      BY <1>3
    <3> QED
      BY <1>7, <3>3, <3>4
  <2> QED
    BY <2>1, <2>2
<1>9. ReadRequest("media-stats", json)
        = [channel |-> "media-stats", requestId |-> id, payload |-> sections]
  BY <1>4, <1>6, <1>8 DEF ReadRequest
<1> QED
  BY <1>1, <1>5, <1>9 DEF upload, sections

\* Of a report an upload has the listed values, all of them and no others.
LEMMA UploadAllowed ==
  ASSUME NEW report \in Reports, NEW id, NEW allowlist
  PROVE  ValuesOfSections(StatsRequestFromReport(report, id, allowlist).payload)
           = {v \in ValuesOfSections(report) : v[1] \in DOMAIN allowlist /\ v[3] \in allowlist[v[1]]}
<1> DEFINE p == StatsRequestFromReport(report, id, allowlist).payload
           Of(s, a) == <<s.type, s.id, a, s.values[a]>>
<1>1. /\ \A i \in DOMAIN p : \E n \in DOMAIN report :
           /\ Uploaded(report[n], allowlist)
           /\ p[i] = AllowedSection(report[n], allowlist)
      /\ \A n \in DOMAIN report : Uploaded(report[n], allowlist) =>
           \E i \in DOMAIN p : p[i] = AllowedSection(report[n], allowlist)
  <2>1. PICK q :
          /\ StatsRequestFromReport(report, id, allowlist)
               = [channel |-> "media-stats", requestId |-> id, payload |-> q]
          /\ PartsOf(q, report, allowlist)
    BY UploadedSections
  <2>2. p = q
    BY <2>1
  <2> HIDE DEF p
  <2> QED
    BY <2>1, <2>2 DEF PartsOf
<1>2. \A n \in DOMAIN report : Uploaded(report[n], allowlist) =>
        LET s == AllowedSection(report[n], allowlist)
        IN  /\ s.type = report[n].type /\ s.id = report[n].id
            /\ DOMAIN s.values = DOMAIN report[n].values \cap allowlist[report[n].type]
            /\ \A a \in DOMAIN s.values : s.values[a] = report[n].values[a]
  BY AllowedIs
<1> HIDE DEF p
<1>3. \A q, v : v \in ValuesOfSections(q) <=> \E i \in DOMAIN q : \E a \in DOMAIN q[i].values : v = Of(q[i], a)
  BY DEF ValuesOfSections
<1>4. ASSUME NEW v \in ValuesOfSections(p)
      PROVE  v \in ValuesOfSections(report) /\ v[1] \in DOMAIN allowlist /\ v[3] \in allowlist[v[1]]
  <2>1. PICK i \in DOMAIN p : \E a \in DOMAIN p[i].values : v = Of(p[i], a)
    BY <1>3, <1>4
  <2>2. PICK a \in DOMAIN p[i].values : v = Of(p[i], a)
    BY <2>1
  <2>3. PICK n \in DOMAIN report : Uploaded(report[n], allowlist) /\ p[i] = AllowedSection(report[n], allowlist)
    BY <1>1, <2>1
  <2>4. /\ p[i].type = report[n].type /\ p[i].id = report[n].id
        /\ a \in DOMAIN report[n].values /\ a \in allowlist[report[n].type]
        /\ p[i].values[a] = report[n].values[a]
    BY <1>2, <2>2, <2>3
  <2>5. v = Of(report[n], a)
    BY <2>2, <2>4
  <2>6. report[n].type \in DOMAIN allowlist
    BY <2>3 DEF Uploaded
  <2>7. v[1] = report[n].type /\ v[3] = a
    BY <2>5
  <2> QED
    BY <1>3, <2>4, <2>5, <2>6, <2>7
<1>5. ASSUME NEW v \in ValuesOfSections(report), v[1] \in DOMAIN allowlist, v[3] \in allowlist[v[1]]
      PROVE  v \in ValuesOfSections(p)
  <2>1. PICK n \in DOMAIN report : \E a \in DOMAIN report[n].values : v = Of(report[n], a)
    BY <1>3, <1>5
  <2>2. PICK a \in DOMAIN report[n].values : v = Of(report[n], a)
    BY <2>1
  <2>3. v[1] = report[n].type /\ v[3] = a
    BY <2>2
  <2>4. Uploaded(report[n], allowlist)
    BY <1>5, <2>2, <2>3 DEF Uploaded
  <2>5. PICK i \in DOMAIN p : p[i] = AllowedSection(report[n], allowlist)
    BY <1>1, <2>4
  <2>6. /\ p[i].type = report[n].type /\ p[i].id = report[n].id /\ a \in DOMAIN p[i].values
        /\ p[i].values[a] = report[n].values[a]
    BY <1>2, <1>5, <2>2, <2>3, <2>4, <2>5
  <2>7. v = Of(p[i], a)
    BY <2>2, <2>6
  <2> QED
    BY <1>3, <2>6, <2>7
<1> QED
  BY <1>4, <1>5 DEF p

-----------------------------------------------------------------------------
(***************************************************************************)
(* The answers under way.                                                  *)
(***************************************************************************)

\* The places of the messages that have an answer, and their answers.
Answering(messages) == {n \in DOMAIN messages : messages[n].answer # None}
AnswerOf(messages) == [n \in DOMAIN messages |-> messages[n].answer]

LEMMA AnswersCollect ==
  ASSUME NEW S, NEW messages \in Seq(S)
  PROVE  \E k : /\ Collects(k, Len(messages), Answering(messages), AnswerOf(messages))
                /\ Answers(messages) = k[Len(messages)]
<1> DEFINE keep == Answering(messages)
           val == AnswerOf(messages)
           Body(g) == [n \in 0..Len(messages) |->
                         IF n = 0 THEN <<>>
                         ELSE IF messages[n].answer # None THEN Append(g[n - 1], messages[n].answer)
                              ELSE g[n - 1]]
           k == CHOOSE g : g = Body(g)
<1>1. Len(messages) \in Nat /\ DOMAIN messages = 1..Len(messages)
  OBVIOUS
<1>2. ASSUME NEW g PROVE Body(g) = [n \in 0..Len(messages) |-> Step(g, keep, val, n)]
  <2>1. ASSUME NEW n \in 0..Len(messages)
        PROVE  Step(g, keep, val, n)
                 = IF n = 0 THEN <<>>
                   ELSE IF messages[n].answer # None THEN Append(g[n - 1], messages[n].answer)
                        ELSE g[n - 1]
    <3>1. n # 0 => n \in DOMAIN messages
      BY <1>1
    <3> QED
      BY <3>1 DEF Step, Answering, AnswerOf
  <2> QED
    BY <2>1
<1>3. Answers(messages) = k[Len(messages)]
  BY DEF Answers
<1> HIDE DEF Body, keep, val
<1>4. \E g : g = Body(g)
  <2>1. PICK g : Collects(g, Len(messages), keep, val)
    BY <1>1, CollectExists
  <2>2. g = Body(g)
    BY <2>1, <1>2 DEF Collects
  <2> QED
    BY <2>2
<1>5. k = Body(k)
  BY <1>4
<1> HIDE DEF k
<1>6. Collects(k, Len(messages), keep, val)
  BY <1>2, <1>5 DEF Collects
<1> QED
  BY <1>3, <1>6 DEF keep, val

\* What is collected depends on the places collected from.
LEMMA CollectSame ==
  ASSUME NEW b \in Nat, NEW b2 \in Nat, b <= b2, NEW keep, NEW keep2, NEW val, NEW val2,
         NEW k, Collects(k, b, keep, val), NEW k2, Collects(k2, b2, keep2, val2),
         \A n \in 1..b : /\ n \in keep <=> n \in keep2
                         /\ n \in keep => val[n] = val2[n]
  PROVE  k[b] = k2[b]
<1> DEFINE T == {n \in 0..b : k[n] = k2[n]}
<1>1. /\ k[0] = <<>>
      /\ \A n \in Nat : n < b => k[n + 1] = IF n + 1 \in keep THEN Append(k[n], val[n + 1]) ELSE k[n]
  BY CollectValues
<1>2. /\ k2[0] = <<>>
      /\ \A n \in Nat : n < b2 => k2[n + 1] = IF n + 1 \in keep2 THEN Append(k2[n], val2[n + 1]) ELSE k2[n]
  BY CollectValues
<1>3. 0 \in T
  BY <1>1, <1>2
<1>4. ASSUME NEW n \in Nat, n < b, n \in T PROVE n + 1 \in T
  <2>1. n < b2 /\ n + 1 \in 1..b /\ n + 1 \in 0..b /\ k[n] = k2[n]
    BY <1>4
  <2>2. k[n + 1] = k2[n + 1]
    BY <1>1, <1>2, <1>4, <2>1
  <2> QED
    BY <2>1, <2>2
<1> HIDE DEF T
<1>5. b \in T
  <2>1. \A n \in 0..b : n \in T
    BY <1>3, <1>4, UpTo
  <2> QED
    BY <2>1
<1> QED
  BY <1>5 DEF T

\* The places of the second are those of the first but one.
Shifted(b, keep, keep2, val, val2, V) ==
  /\ \A n \in 1..(b + 1) : n \in keep => val[n] \in V
  /\ \A n \in 1..b : /\ n \in keep2 <=> n + 1 \in keep
                     /\ n \in keep2 => val2[n] = val[n + 1]
FirstOf(keep, val) == IF 1 \in keep THEN <<val[1]>> ELSE <<>>
Joined(all, first, rest) == all = first \o rest

\* What is collected is that of the first place, then that of the others.
LEMMA CollectShift ==
  ASSUME NEW b \in Nat, NEW keep, NEW keep2, NEW val, NEW val2,
         NEW k, Collects(k, b + 1, keep, val), NEW k2, Collects(k2, b, keep2, val2),
         NEW V, Shifted(b, keep, keep2, val, val2, V)
  PROVE  Joined(k[b + 1], FirstOf(keep, val), k2[b])
<1> DEFINE first == FirstOf(keep, val)
<1>1. first = IF 1 \in keep THEN <<val[1]>> ELSE <<>>
  BY DEF FirstOf
<1>2. /\ \A n \in 1..(b + 1) : n \in keep => val[n] \in V
      /\ \A n \in 1..b : /\ n \in keep2 <=> n + 1 \in keep
                         /\ n \in keep2 => val2[n] = val[n + 1]
  BY DEF Shifted
<1> HIDE DEF first
<1> DEFINE T == {n \in 0..b : k2[n] \in Seq(V) /\ k[n + 1] = first \o k2[n]}
<1> DEFINE b1 == b + 1
<1>3. b1 \in Nat /\ Collects(k, b1, keep, val)
  OBVIOUS
<1> HIDE DEF b1
<1>4. /\ k[0] = <<>>
      /\ \A n \in Nat : n < b1 => k[n + 1] = IF n + 1 \in keep THEN Append(k[n], val[n + 1]) ELSE k[n]
  BY <1>3, CollectValues
<1>5. /\ k2[0] = <<>>
      /\ \A n \in Nat : n < b => k2[n + 1] = IF n + 1 \in keep2 THEN Append(k2[n], val2[n + 1]) ELSE k2[n]
  BY CollectValues
<1>6. first \in Seq(V)
  <2>1. 1 \in 1..(b + 1)
    OBVIOUS
  <2>2. 1 \in keep => val[1] \in V
    BY <2>1, <1>2
  <2> QED
    BY <2>2, <1>1
<1>7. 0 \in T
  <2>1. k[1] = first
    <3>1. k[0 + 1] = IF 0 + 1 \in keep THEN Append(k[0], val[0 + 1]) ELSE k[0]
      <4>1. 0 \in Nat /\ 0 < b1
        BY DEF b1
      <4> QED
        BY <1>4, <4>1
    <3>2. k[1] = IF 1 \in keep THEN Append(<<>>, val[1]) ELSE <<>>
      BY <1>4, <3>1
    <3>3. Append(<<>>, val[1]) = <<val[1]>>
      OBVIOUS
    <3> QED
      BY <3>2, <3>3, <1>1
  <2>2. <<>> \in Seq(V) /\ first \o <<>> = first
    BY <1>6
  <2>3. 0 \in 0..b /\ 0 + 1 = 1
    OBVIOUS
  <2>4. k2[0] \in Seq(V) /\ k[0 + 1] = first \o k2[0]
    BY <1>5, <2>1, <2>2, <2>3
  <2> QED
    BY <2>3, <2>4
<1>8. ASSUME NEW n \in Nat, n < b, n \in T PROVE n + 1 \in T
  <2>1. /\ n + 1 < b + 1 /\ n + 1 \in 1..b /\ n + 1 \in 0..b /\ n + 1 \in Nat
        /\ n + 1 < b1 /\ (n + 1) + 1 \in 1..(b + 1)
    BY <1>8 DEF b1
  <2>5. k2[n] \in Seq(V) /\ k[n + 1] = first \o k2[n]
    BY <1>8
  <2> HIDE DEF T
  <2>2. k[(n + 1) + 1] = IF (n + 1) + 1 \in keep THEN Append(k[n + 1], val[(n + 1) + 1]) ELSE k[n + 1]
    BY <1>4, <2>1
  <2>3. CASE n + 1 \notin keep2
    <3>1. k2[n + 1] = k2[n] /\ k[(n + 1) + 1] = k[n + 1]
      BY <1>2, <1>5, <1>8, <2>1, <2>2, <2>3
    <3> QED
      BY <2>1, <2>5, <3>1 DEF T
  <2>4. CASE n + 1 \in keep2
    <3> DEFINE v == val2[n + 1]
               q == k2[n]
    <3>1. k2[n + 1] = Append(q, v) /\ k[(n + 1) + 1] = Append(first \o q, v) /\ v \in V
      <4>1. (n + 1) + 1 \in keep /\ val2[n + 1] = val[(n + 1) + 1]
        <5>1. PICK m \in 1..b : m = n + 1
          BY <2>1
        <5>2. m + 1 \in keep /\ val2[m] = val[m + 1]
          BY <1>2, <2>4, <5>1
        <5> QED
          BY <5>1, <5>2
      <4>2. v \in V
        BY <1>2, <2>1, <4>1
      <4>3. k2[n + 1] = Append(q, v)
        BY <1>5, <1>8, <2>4
      <4>4. k[(n + 1) + 1] = Append(first \o q, v)
        BY <2>2, <2>5, <4>1
      <4> QED
        BY <4>2, <4>3, <4>4
    <3>2. Append(first \o q, v) = first \o Append(q, v) /\ Append(q, v) \in Seq(V)
      <4>1. q \in Seq(V)
        BY <2>5
      <4> HIDE DEF q, v
      <4>2. Append(q, v) \in Seq(V) /\ v \in V
        BY <3>1, <4>1
      <4>3. first \in Seq(V) /\ <<v>> \in Seq(V) /\ first \o q \in Seq(V)
        BY <1>6, <4>1, <4>2
      <4>4. Append(q, v) = q \o <<v>> /\ Append(first \o q, v) = (first \o q) \o <<v>>
        BY <4>1, <4>2, <4>3, AppendIsConcat
      <4>5. (first \o q) \o <<v>> = first \o (q \o <<v>>)
        BY <4>1, <4>3, ConcatAssociative
      <4>6. Append(first \o q, v) = first \o Append(q, v)
        BY <4>4, <4>5
      <4> QED
        BY <4>2, <4>6
    <3> QED
      BY <2>1, <3>1, <3>2 DEF T
  <2> QED
    BY <2>3, <2>4
<1> HIDE DEF T
<1>9. b \in T
  <2>1. \A n \in 0..b : n \in T
    BY <1>7, <1>8, UpTo
  <2> QED
    BY <2>1
<1> QED
  BY <1>9 DEF T, first, Joined

LEMMA AnswersTyped ==
  ASSUME NEW S, NEW messages \in Seq(S), NEW V, \A n \in DOMAIN messages : messages[n].answer \in V
  PROVE  Answers(messages) \in Seq(V)
<1> DEFINE keep == Answering(messages)
           val == AnswerOf(messages)
           b == Len(messages)
<1>1. b \in Nat /\ DOMAIN messages = 1..b
  OBVIOUS
<1>2. \A n \in 1..b : n \in keep => val[n] \in V
  BY <1>1 DEF AnswerOf
<1>3. PICK k : Collects(k, b, keep, val) /\ Answers(messages) = k[b]
  BY AnswersCollect
<1> HIDE DEF keep, val, b
<1>4. k[b] \in Seq(V)
  BY <1>1, <1>2, <1>3, CollectRange
<1> QED
  BY <1>3, <1>4

LEMMA AnswersOfNone == Answers(<<>>) = <<>>
<1>1. <<>> \in Seq({}) /\ Len(<<>>) = 0
  BY NoElement
<1>2. PICK k : Collects(k, 0, Answering(<<>>), AnswerOf(<<>>)) /\ Answers(<<>>) = k[0]
  BY <1>1, AnswersCollect
<1>3. k[0] = <<>>
  BY <1>2, CollectValues
<1> QED
  BY <1>2, <1>3

\* The answer of a new message comes last.
LEMMA AnswersAppend ==
  ASSUME NEW S, NEW messages \in Seq(S), NEW m \in S
  PROVE  Answers(Append(messages, m))
           = IF m.answer # None THEN Append(Answers(messages), m.answer) ELSE Answers(messages)
<1> DEFINE more == Append(messages, m)
           b == Len(messages)
<1>1. /\ b \in Nat /\ more \in Seq(S) /\ Len(more) = b + 1
      /\ DOMAIN messages = 1..b /\ DOMAIN more = 1..(b + 1)
      /\ \A n \in 1..b : more[n] = messages[n]
      /\ more[b + 1] = m
  OBVIOUS
<1>2. PICK k : Collects(k, b, Answering(messages), AnswerOf(messages)) /\ Answers(messages) = k[b]
  BY AnswersCollect
<1> HIDE DEF more, b
<1>3. PICK k2 : Collects(k2, b + 1, Answering(more), AnswerOf(more)) /\ Answers(more) = k2[b + 1]
  BY <1>1, AnswersCollect
<1>4. /\ \A n \in 1..b : /\ n \in Answering(messages) <=> n \in Answering(more)
                         /\ AnswerOf(messages)[n] = AnswerOf(more)[n]
      /\ b + 1 \in Answering(more) <=> m.answer # None
      /\ AnswerOf(more)[b + 1] = m.answer
  BY <1>1 DEF Answering, AnswerOf
<1>5. /\ b + 1 \in Nat /\ b <= b + 1 /\ b < b + 1
  BY <1>1
<1>6. k2[b] = k[b]
  BY <1>1, <1>2, <1>3, <1>4, <1>5, CollectSame
<1>7. k2[b + 1] = IF b + 1 \in Answering(more) THEN Append(k2[b], AnswerOf(more)[b + 1]) ELSE k2[b]
  <2> DEFINE b1 == b + 1
  <2>1. b1 \in Nat /\ Collects(k2, b1, Answering(more), AnswerOf(more))
    BY <1>3, <1>5
  <2> HIDE DEF b1
  <2>2. \A n \in Nat : n < b1 =>
          k2[n + 1] = IF n + 1 \in Answering(more) THEN Append(k2[n], AnswerOf(more)[n + 1]) ELSE k2[n]
    BY <2>1, CollectValues
  <2>3. b < b1
    BY <1>5 DEF b1
  <2> QED
    BY <1>1, <2>2, <2>3
<1>8. Answers(more) = IF m.answer # None THEN Append(Answers(messages), m.answer) ELSE Answers(messages)
  BY <1>2, <1>3, <1>4, <1>6, <1>7
<1> QED
  BY <1>8 DEF more

\* The answer of the first message comes first.
LEMMA AnswersTail ==
  ASSUME NEW S, NEW messages \in Seq(S), messages # <<>>
  PROVE  Answers(messages)
           = (IF Head(messages).answer # None THEN <<Head(messages).answer>> ELSE <<>>)
               \o Answers(Tail(messages))
<1> DEFINE less == Tail(messages)
           m == Head(messages)
           b == Len(less)
<1>1. /\ b \in Nat /\ less \in Seq(S) /\ Len(messages) = b + 1
      /\ DOMAIN less = 1..b /\ DOMAIN messages = 1..(b + 1)
      /\ \A n \in 1..b : messages[n + 1] = less[n]
      /\ messages[1] = m
  OBVIOUS
<1> HIDE DEF less, m, b
<1>2. PICK k : Collects(k, b + 1, Answering(messages), AnswerOf(messages)) /\ Answers(messages) = k[b + 1]
  BY <1>1, AnswersCollect
<1>3. PICK k2 : Collects(k2, b, Answering(less), AnswerOf(less)) /\ Answers(less) = k2[b]
  BY <1>1, AnswersCollect DEF b
<1> DEFINE V == Range(AnswerOf(messages))
<1>4. \A n \in 1..b : n \in 1..(b + 1) /\ n + 1 \in 1..(b + 1)
  BY <1>1
<1>5. \A n \in 1..b : /\ n \in Answering(less) <=> n + 1 \in Answering(messages)
                      /\ n \in Answering(less) => AnswerOf(less)[n] = AnswerOf(messages)[n + 1]
  BY <1>1, <1>4 DEF Answering, AnswerOf
<1>6. /\ 1 \in Answering(messages) <=> m.answer # None
      /\ AnswerOf(messages)[1] = m.answer
  <2>1. 1 \in DOMAIN messages
    BY <1>1
  <2> QED
    BY <1>1, <2>1 DEF Answering, AnswerOf
<1>7. Shifted(b, Answering(messages), Answering(less), AnswerOf(messages), AnswerOf(less), V)
  <2>1. \A n \in 1..(b + 1) : n \in Answering(messages) => AnswerOf(messages)[n] \in V
    BY <1>1 DEF AnswerOf, Range
  <2> HIDE DEF V
  <2> QED
    BY <1>5, <2>1 DEF Shifted
<1> HIDE DEF V
<1>8. k[b + 1] = FirstOf(Answering(messages), AnswerOf(messages)) \o k2[b]
  <2> DEFINE keep == Answering(messages)
             keep2 == Answering(less)
             val == AnswerOf(messages)
             val2 == AnswerOf(less)
  <2>1. b \in Nat
    BY <1>1
  <2>2. Collects(k, b + 1, keep, val)
    BY <1>2
  <2>3. Collects(k2, b, keep2, val2)
    BY <1>3
  <2>4. Shifted(b, keep, keep2, val, val2, V)
    BY <1>7
  <2> HIDE DEF keep, keep2, val, val2
  <2>5. Joined(k[b + 1], FirstOf(keep, val), k2[b])
    BY <2>1, <2>2, <2>3, <2>4, CollectShift
  <2> QED
    BY <2>5 DEF keep, val, Joined
<1>9. Answers(messages) = (IF m.answer # None THEN <<m.answer>> ELSE <<>>) \o Answers(less)
  BY <1>2, <1>3, <1>6, <1>8 DEF FirstOf
<1> QED
  BY <1>9 DEF less, m

-----------------------------------------------------------------------------
(***************************************************************************)
(* The inductive invariant.                                                *)
(***************************************************************************)

IsMap(f, D) == f = [x \in D |-> f[x]]
SeqMap(f, D) == \E S : f \in [D -> Seq(S)]

TypeInv ==
  /\ IsMap(resources, Channels) /\ IsMap(replica, Channels) /\ IsMap(seen, Channels)
  /\ SeqMap(down, Channels)
  /\ SeqMap(told, Asking) /\ SeqMap(heard, Asking)
  /\ SeqMap(up, Asking) /\ SeqMap(asked, Asking)

CountersInv ==
  /\ requestId \in Nat /\ requests \in Nat
  /\ 1 <= requestId /\ requestId <= requests + 1 /\ requests <= MaxRequests

\* What the handler makes of a message, if the channel is listened to.
Reading(c, m) == IF m.binary THEN Error ELSE ParseUpdate(c, m.text)

\* A message takes what the servers held before it to what they held after it.
Tells(c, m, before) ==
  /\ m.binary \in BOOLEAN
  /\ m.after = IF Reading(c, m) = Error THEN before ELSE Apply(c, before, Reading(c, m))
  /\ m.answer = IF c \in Asking /\ Reading(c, m) # Error THEN Reading(c, m).response ELSE None

\* The messages under way lead, one after the other, from what the application
\* holds to what the servers hold.
Before(messages, first, i) == IF i = 1 THEN first ELSE messages[i - 1].after
Chain(c, messages, first, last) ==
  /\ \A i \in 1..Len(messages) : Tells(c, messages[i], Before(messages, first, i))
  /\ last = IF messages = <<>> THEN first ELSE messages[Len(messages)].after
DownInv ==
  \A c \in Channels :
    /\ Chain(c, down[c], seen[c], resources[c])
    /\ replica[c] = IF c \in Listened THEN seen[c] ELSE Nothing(c)

\* The configuration of the statistics is set once: what is under way and what
\* the application holds is that configuration or none.
OneConfiguration(last, first, messages) ==
  /\ last \in {None} \cup Configurations
  /\ first \in {None, last}
  /\ \A i \in 1..Len(messages) : messages[i].after \in {None, last}
ConfigurationInv ==
  OneConfiguration(resources["media-stats"], seen["media-stats"], down["media-stats"])

\* A request under way is the text of one that was asked.
Asks(c, json, meant) ==
  /\ meant \in Requests /\ meant.channel = c
  /\ json = StringifyRequest(c, meant) /\ json # Error
Uploads(json, meant, id, configuration) ==
  /\ configuration \in Configurations /\ configuration.uploadIntervalSeconds # 0
  /\ \E report \in Reports, i \in 1..(id - 1) :
       /\ meant = [channel |-> "media-stats", requestId |-> i, payload |-> report]
       /\ json = StringifyMediaStats(StatsRequestFromReport(report, i, configuration.allowlist))
UpInv ==
  \A c \in Asking :
    /\ Len(up[c]) = Len(asked[c])
    /\ \A i \in 1..Len(up[c]) :
         IF c = "media-stats"
         THEN Uploads(up[c][i], asked[c][i], requestId, resources["media-stats"])
         ELSE Asks(c, up[c][i], asked[c][i])

AnswersInv == \A c \in Asking \cap Listened : told[c] = heard[c] \o Answers(down[c])

Inv == TypeInv /\ CountersInv /\ DownInv /\ ConfigurationInv /\ UpInv /\ AnswersInv

-----------------------------------------------------------------------------
(* How the parts of the invariant grow and shrink with the messages.       *)

LEMMA SeqWider ==
  ASSUME NEW S, NEW T, S \subseteq T, NEW s \in Seq(S)
  PROVE  s \in Seq(T)
<1>1. Len(s) \in Nat /\ DOMAIN s = 1..Len(s) /\ \A i \in 1..Len(s) : s[i] \in T
  BY ElementOfSeq
<1>2. s = [i \in 1..Len(s) |-> s[i]]
  OBVIOUS
<1> QED
  BY <1>1, <1>2

LEMMA AppendIs ==
  ASSUME NEW S, NEW s \in Seq(S), NEW m
  PROVE  /\ Len(Append(s, m)) = Len(s) + 1 /\ Len(s) \in Nat /\ Append(s, m) # <<>>
         /\ Append(s, m)[Len(s) + 1] = m
         /\ \A i \in 1..Len(s) : Append(s, m)[i] = s[i]
<1> DEFINE T == S \cup {m}
<1>1. s \in Seq(T) /\ m \in T
  BY SeqWider
<1> HIDE DEF T
<1>2. Append(s, m) \in Seq(T) /\ Len(Append(s, m)) = Len(s) + 1 /\ Len(s) \in Nat
  BY <1>1
<1>3. \A i \in 1..Len(s) : Append(s, m)[i] = s[i]
  BY <1>1
<1>4. Append(s, m)[Len(s) + 1] = m
  BY <1>1
<1>5. Append(s, m) # <<>>
  BY <1>2, NoElement
<1> QED
  BY <1>2, <1>3, <1>4, <1>5

LEMMA TailIs ==
  ASSUME NEW S, NEW s \in Seq(S), s # <<>>
  PROVE  /\ Len(Tail(s)) \in Nat /\ Len(s) = Len(Tail(s)) + 1 /\ Head(s) = s[1]
         /\ \A i \in 1..Len(Tail(s)) : Tail(s)[i] = s[i + 1]
         /\ Tail(s) = <<>> => Len(Tail(s)) = 0
         /\ Len(Tail(s)) = 0 => Tail(s) = <<>>
<1>1. Tail(s) \in Seq(S)
  OBVIOUS
<1>2. Tail(s) = <<>> => Len(Tail(s)) = 0
  BY NoElement
<1>3. Len(Tail(s)) = 0 => Tail(s) = <<>>
  BY <1>1, EmptySeq
<1> QED
  BY <1>1, <1>2, <1>3

LEMMA SeqMapAppend ==
  ASSUME NEW f, NEW D, SeqMap(f, D), NEW c \in D, NEW m
  PROVE  SeqMap([f EXCEPT ![c] = Append(@, m)], D)
<1>1. PICK S : f \in [D -> Seq(S)]
  BY DEF SeqMap
<1> DEFINE T == S \cup {m}
<1>2. \A d \in D : f[d] \in Seq(T)
  BY <1>1, SeqWider
<1>3. Append(f[c], m) \in Seq(T)
  BY <1>2
<1>4. [f EXCEPT ![c] = Append(@, m)] \in [D -> Seq(T)]
  <2> HIDE DEF T
  <2> QED
    BY <1>1, <1>2, <1>3
<1> QED
  BY <1>4 DEF SeqMap

LEMMA SeqMapTail ==
  ASSUME NEW f, NEW D, SeqMap(f, D), NEW c \in D, f[c] # <<>>
  PROVE  SeqMap([f EXCEPT ![c] = Tail(@)], D)
<1>1. PICK S : f \in [D -> Seq(S)]
  BY DEF SeqMap
<1>2. Tail(f[c]) \in Seq(S)
  BY <1>1
<1>3. [f EXCEPT ![c] = Tail(@)] \in [D -> Seq(S)]
  BY <1>1, <1>2
<1> QED
  BY <1>3 DEF SeqMap

LEMMA SeqMapAt ==
  ASSUME NEW f, NEW D, SeqMap(f, D)
  PROVE  /\ f = [x \in D |-> f[x]]
         /\ \A c \in D : \E S : f[c] \in Seq(S)
  BY DEF SeqMap

LEMMA ChainAppend ==
  ASSUME NEW c, NEW S, NEW messages \in Seq(S), NEW first, NEW last,
         Chain(c, messages, first, last), NEW m, Tells(c, m, last)
  PROVE  Chain(c, Append(messages, m), first, m.after)
<1> DEFINE more == Append(messages, m)
           b == Len(messages)
<1>1. /\ Len(more) = b + 1 /\ b \in Nat /\ more # <<>>
      /\ more[b + 1] = m /\ \A i \in 1..b : more[i] = messages[i]
  BY AppendIs
<1>2. ASSUME NEW i \in 1..b
      PROVE  Tells(c, more[i], Before(more, first, i))
  <2>1. Before(more, first, i) = Before(messages, first, i)
    BY <1>1, <1>2 DEF Before
  <2> QED
    BY <1>1, <1>2, <2>1 DEF Chain
<1>3. Before(more, first, b + 1) = last
  BY <1>1 DEF Before, Chain
<1>4. \A i \in 1..Len(more) : i \in 1..b \/ i = b + 1
  BY <1>1
<1> HIDE DEF more, b
<1>5. \A i \in 1..Len(more) : Tells(c, more[i], Before(more, first, i))
  BY <1>1, <1>2, <1>3, <1>4
<1>6. m.after = IF more = <<>> THEN first ELSE more[Len(more)].after
  BY <1>1
<1> QED
  BY <1>5, <1>6 DEF Chain, more

LEMMA ChainTail ==
  ASSUME NEW c, NEW S, NEW messages \in Seq(S), NEW first, NEW last,
         Chain(c, messages, first, last), messages # <<>>
  PROVE  /\ Tells(c, Head(messages), first)
         /\ Chain(c, Tail(messages), Head(messages).after, last)
<1> DEFINE less == Tail(messages)
           head == Head(messages)
           b == Len(less)
<1>1. /\ b \in Nat /\ Len(messages) = b + 1 /\ head = messages[1]
      /\ \A i \in 1..b : less[i] = messages[i + 1]
      /\ less = <<>> <=> b = 0
  BY TailIs
<1>2. Tells(c, head, first)
  BY <1>1 DEF Chain, Before
<1>3. ASSUME NEW i \in 1..b
      PROVE  Tells(c, less[i], Before(less, head.after, i))
  <2>1. i + 1 \in 1..Len(messages) /\ i + 1 # 1 /\ (i + 1) - 1 = i
    BY <1>1
  <2>2. Tells(c, messages[i + 1], Before(messages, first, i + 1))
    BY <2>1 DEF Chain
  <2>3. Before(messages, first, i + 1) = messages[i].after
    BY <2>1 DEF Before
  <2>4. Before(less, head.after, i) = messages[i].after
    <3>1. CASE i = 1
      BY <3>1, <1>1 DEF Before
    <3>2. CASE i # 1
      <4>1. i - 1 \in 1..b /\ (i - 1) + 1 = i
        BY <3>2, <1>1
      <4> QED
        BY <4>1, <3>2, <1>1 DEF Before
    <3> QED
      BY <3>1, <3>2
  <2> QED
    BY <2>2, <2>3, <2>4, <1>1
<1>4. last = IF less = <<>> THEN head.after ELSE less[b].after
  <2>1. last = messages[b + 1].after
    BY <1>1 DEF Chain
  <2> QED
    BY <2>1, <1>1
<1> HIDE DEF less, head
<1>5. Chain(c, less, head.after, last)
  BY <1>3, <1>4 DEF Chain
<1> QED
  BY <1>2, <1>5 DEF less, head

LEMMA OneConfigurationAppend ==
  ASSUME NEW S, NEW messages \in Seq(S), NEW first, NEW last, NEW next, NEW m,
         OneConfiguration(last, first, messages), last \in {None, next},
         next \in {None} \cup Configurations, m.after = next
  PROVE  OneConfiguration(next, first, Append(messages, m))
<1> DEFINE more == Append(messages, m)
           b == Len(messages)
<1>1. /\ Len(more) = b + 1 /\ b \in Nat
      /\ more[b + 1] = m /\ \A i \in 1..b : more[i] = messages[i]
  BY AppendIs
<1>2. \A i \in 1..Len(more) : i \in 1..b \/ i = b + 1
  BY <1>1
<1> HIDE DEF more
<1> QED
  BY <1>1, <1>2 DEF OneConfiguration, more

LEMMA OneConfigurationTail ==
  ASSUME NEW S, NEW messages \in Seq(S), NEW first, NEW last,
         OneConfiguration(last, first, messages), messages # <<>>
  PROVE  OneConfiguration(last, Head(messages).after, Tail(messages))
<1> DEFINE less == Tail(messages)
           b == Len(less)
<1>1. /\ b \in Nat /\ Len(messages) = b + 1 /\ Head(messages) = messages[1]
      /\ \A i \in 1..b : less[i] = messages[i + 1]
  OBVIOUS
<1>2. \A i \in 1..b : i + 1 \in 1..Len(messages)
  BY <1>1
<1>3. 1 \in 1..Len(messages)
  BY <1>1
<1> HIDE DEF less
<1> QED
  BY <1>1, <1>2, <1>3 DEF OneConfiguration, less

-----------------------------------------------------------------------------
(* The servers send: what a message on channel c does to the invariant.    *)

Sends(c, m) ==
  /\ down' = [down EXCEPT ![c] = Append(@, m)]
  /\ resources' = [resources EXCEPT ![c] = m.after]
  /\ Tells(c, m, resources[c])
  /\ c = "media-stats" =>
       m.after \in {None} \cup Configurations /\ resources[c] \in {None, m.after}
  /\ UNCHANGED <<replica, seen, heard, requestId>>

LEMMA Sending ==
  ASSUME Inv, NEW c \in Channels, NEW m, Sends(c, m)
  PROVE  /\ IsMap(resources, Channels)' /\ SeqMap(down, Channels)'
         /\ DownInv' /\ ConfigurationInv'
         /\ \A d \in Channels : d # c => down'[d] = down[d] /\ resources'[d] = resources[d]
         /\ down'[c] = Append(down[c], m) /\ resources'[c] = m.after
<1>1. /\ resources = [x \in Channels |-> resources[x]] /\ SeqMap(down, Channels)
      /\ down = [x \in Channels |-> down[x]]
  BY SeqMapAt DEF Inv, TypeInv, IsMap
<1>2. IsMap(resources, Channels)'
  BY <1>1 DEF IsMap, Sends
<1>3. SeqMap(down, Channels)'
  BY <1>1, SeqMapAppend DEF Sends
<1>4. \A d \in Channels : d # c => down'[d] = down[d] /\ resources'[d] = resources[d]
  BY <1>1 DEF Sends
<1>5. down'[c] = Append(down[c], m) /\ resources'[c] = m.after
  BY <1>1 DEF Sends
<1>6. PICK S : down[c] \in Seq(S)
  BY <1>1, SeqMapAt
<1>7. Chain(c, down'[c], seen[c], resources'[c])
  <2>1. Chain(c, down[c], seen[c], resources[c]) /\ Tells(c, m, resources[c])
    BY DEF Inv, DownInv, Sends
  <2> QED
    BY <2>1, <1>5, <1>6, ChainAppend
<1>8. DownInv'
  <2>1. ASSUME NEW d \in Channels
        PROVE  Chain(d, down'[d], seen[d], resources'[d])
    BY <1>4, <1>7 DEF Inv, DownInv
  <2>2. seen' = seen /\ replica' = replica
    BY DEF Sends
  <2> QED
    BY <2>1, <2>2 DEF Inv, DownInv
<1>9. ConfigurationInv'
  <2>1. "media-stats" \in Channels /\ seen' = seen
    BY DEF Channels, Sends
  <2>2. CASE c # "media-stats"
    BY <2>1, <2>2, <1>4 DEF Inv, ConfigurationInv
  <2>3. CASE c = "media-stats"
    <3>1. OneConfiguration(resources[c], seen[c], down[c])
      BY <2>3 DEF Inv, ConfigurationInv
    <3>2. OneConfiguration(m.after, seen[c], Append(down[c], m))
      BY <2>3, <3>1, <1>6, OneConfigurationAppend DEF Sends
    <3> QED
      BY <2>1, <2>3, <3>2, <1>5 DEF ConfigurationInv
  <2> QED
    BY <2>2, <2>3
<1> QED
  BY <1>2, <1>3, <1>4, <1>5, <1>8, <1>9

\* A configuration is no marker.
LEMMA NoneIsNoConfiguration == None \notin Configurations
  BY MarkersAssumption

\* Uploads under way have the configuration, so that it does not change under them.
LEMMA UploadsKeepTheirs ==
  ASSUME UpInv, UNCHANGED <<up, asked, requestId>>,
         resources["media-stats"] \in {None, resources'["media-stats"]}
  PROVE  UpInv'
<1>1. ASSUME NEW c \in Asking, NEW i \in 1..Len(up[c])
      PROVE  IF c = "media-stats"
             THEN Uploads(up[c][i], asked[c][i], requestId, resources'["media-stats"])
             ELSE Asks(c, up[c][i], asked[c][i])
  <2>1. CASE c # "media-stats"
    BY <1>1, <2>1 DEF UpInv
  <2>2. CASE c = "media-stats"
    <3>1. Uploads(up[c][i], asked[c][i], requestId, resources["media-stats"])
      BY <1>1, <2>2 DEF UpInv
    <3>2. resources["media-stats"] \in Configurations
      BY <3>1 DEF Uploads
    <3>3. resources["media-stats"] = resources'["media-stats"]
      BY <3>2, NoneIsNoConfiguration
    <3> QED
      BY <3>1, <3>3, <2>2
  <2> QED
    BY <2>1, <2>2
<1> QED
  BY <1>1 DEF UpInv

\* A message without an answer.
LEMMA SilentMessage ==
  ASSUME Inv, NEW c \in Channels, NEW m, m.answer = None,
         down' = [down EXCEPT ![c] = Append(@, m)], UNCHANGED <<told, heard>>
  PROVE  AnswersInv'
<1>1. down = [x \in Channels |-> down[x]] /\ SeqMap(down, Channels) /\ Asking \subseteq Channels
  BY SeqMapAt DEF Inv, TypeInv, Asking, Channels
<1>2. PICK S : down[c] \in Seq(S)
  BY <1>1, SeqMapAt
<1> DEFINE T == S \cup {m}
<1>3. down[c] \in Seq(T) /\ m \in T
  BY <1>2, SeqWider
<1> HIDE DEF T
<1>4. Answers(Append(down[c], m)) = Answers(down[c])
  BY <1>3, AnswersAppend
<1>5. \A d \in Channels : Answers(down'[d]) = Answers(down[d])
  BY <1>1, <1>4
<1> QED
  BY <1>1, <1>5 DEF Inv, AnswersInv

MessageOf(c, text, after, u) ==
  [binary |-> FALSE, text |-> text, after |-> after,
   answer |-> IF c \in Asking THEN u.response ELSE None]

\* What the servers write is what they mean.
LEMMA MessageTells ==
  ASSUME NEW c \in Channels, NEW u \in Meanings(c), NEW text \in Texts(c, u), NEW before
  PROVE  LET m == MessageOf(c, text, Apply(c, before, u), u)
         IN  /\ Tells(c, m, before)
             /\ m.answer = (IF c \in Asking THEN u.response ELSE None)
             /\ m.after = Apply(c, before, u)
<1>1. ParseUpdate(c, text) = u /\ u # Error
  BY UpdatesRead
<1> QED
  BY <1>1 DEF MessageOf, Tells, Reading

LEMMA ServerUpdateKeeps ==
  ASSUME Inv, NEW c \in Channels, ServerUpdate(c)
  PROVE  Inv'
<1>1. PICK u \in Changes(c) : Push(c, u)
  BY DEF ServerUpdate
<1>2. PICK text \in Texts(c, u) :
        /\ resources' = [resources EXCEPT ![c] = Apply(c, resources[c], u)]
        /\ down' = [down EXCEPT ![c] = Append(@, MessageOf(c, text, Apply(c, resources[c], u), u))]
  BY <1>1 DEF Push, MessageOf
<1> DEFINE m == MessageOf(c, text, Apply(c, resources[c], u), u)
<1>3. UNCHANGED <<replica, seen, told, heard, up, asked, requestId, garbled, requests>>
  BY DEF ServerUpdate
<1>4. u \in Meanings(c)
  BY DEF Meanings
<1>5. /\ Tells(c, m, resources[c]) /\ m.after = Apply(c, resources[c], u)
      /\ m.answer = (IF c \in Asking THEN u.response ELSE None)
  BY <1>4, MessageTells
<1>6. c \in Asking => u.response = None
  BY DEF Changes, Asking
<1>7. m.answer = None
  BY <1>5, <1>6
<1>8. c = "media-stats" => m.after \in Configurations /\ resources[c] = None
  <2> HAVE c = "media-stats"
  <2>1. PICK v \in Configurations : u = [response |-> None, resources |-> <<v>>]
    BY DEF Changes, ValuesOf
  <2>2. Apply(c, resources[c], u) = v
    BY <2>1 DEF Apply, Collections
  <2> QED
    BY <2>2, <1>5 DEF ServerUpdate
<1> HIDE DEF m
<1>9. Sends(c, m)
  BY <1>2, <1>3, <1>5, <1>8 DEF Sends, m
<1>10. /\ IsMap(resources, Channels)' /\ SeqMap(down, Channels)'
       /\ DownInv' /\ ConfigurationInv'
       /\ \A d \in Channels : d # c => resources'[d] = resources[d]
       /\ resources'[c] = m.after
  BY <1>9, Sending
<1>11. TypeInv'
  BY <1>3, <1>10 DEF Inv, TypeInv
<1>12. CountersInv'
  BY <1>3 DEF Inv, CountersInv
<1>13. UpInv'
  <2>1. resources["media-stats"] \in {None, resources'["media-stats"]}
    BY <1>8, <1>10 DEF Channels
  <2> QED
    BY <2>1, <1>3, UploadsKeepTheirs DEF Inv
<1>14. AnswersInv'
  BY <1>3, <1>7, <1>9, SilentMessage DEF Sends
<1> QED
  BY <1>10, <1>11, <1>12, <1>13, <1>14 DEF Inv

LEMMA ServerGarblesKeeps ==
  ASSUME Inv, NEW c \in Channels, ServerGarbles(c)
  PROVE  Inv'
<1>1. PICK g \in Garbled :
        /\ g.channel = c
        /\ down' = [down EXCEPT ![c] = Append(@,
                      [binary |-> g.binary, text |-> g.text, after |-> resources[c],
                       answer |-> None])]
  BY DEF ServerGarbles
<1> DEFINE m == [binary |-> g.binary, text |-> g.text, after |-> resources[c], answer |-> None]
<1>2. UNCHANGED <<resources, replica, seen, told, heard, up, asked, requestId, updates, requests>>
  BY DEF ServerGarbles
<1>3. g.binary \in BOOLEAN /\ (g.binary \/ ParseUpdate(c, g.text) = Error)
  BY <1>1, MessagesAssumption
<1>4. Tells(c, m, resources[c])
  BY <1>3 DEF Tells, Reading
<1>5. m.after = resources[c] /\ m.answer = None
  OBVIOUS
<1>6. c = "media-stats" => m.after \in {None} \cup Configurations
  BY <1>5 DEF Inv, ConfigurationInv, OneConfiguration
<1>7. resources' = [resources EXCEPT ![c] = m.after]
  BY <1>2, <1>5 DEF Inv, TypeInv, IsMap
<1> HIDE DEF m
<1>8. Sends(c, m)
  BY <1>1, <1>2, <1>4, <1>5, <1>6, <1>7 DEF Sends, m
<1>9. SeqMap(down, Channels)' /\ DownInv' /\ ConfigurationInv'
  BY <1>8, Sending
<1>10. TypeInv'
  BY <1>2, <1>9 DEF Inv, TypeInv, IsMap
<1>11. CountersInv'
  BY <1>2 DEF Inv, CountersInv
<1>12. UpInv'
  BY <1>2 DEF Inv, UpInv
<1>13. AnswersInv'
  BY <1>2, <1>5, <1>8, SilentMessage DEF Sends
<1> QED
  BY <1>9, <1>10, <1>11, <1>12, <1>13 DEF Inv

\* The servers find in a request an id it may have.
LEMMA IdsOfRequests ==
  ASSUME Inv, NEW c \in Asking, NEW i \in 1..Len(up[c])
  PROVE  ReadRequest(c, up[c][i]).requestId \in AskedIds
<1>1. CASE c # "media-stats"
  <2>1. Asks(c, up[c][i], asked[c][i])
    BY <1>1 DEF Inv, UpInv
  <2>2. asked[c][i] \in Requests /\ ReadRequest(c, up[c][i]) = asked[c][i]
    BY <1>1, <2>1, RequestRead DEF Asks
  <2> QED
    BY <2>2 DEF AskedIds
<1>2. CASE c = "media-stats"
  <2>1. Uploads(up[c][i], asked[c][i], requestId, resources["media-stats"])
    BY <1>2 DEF Inv, UpInv
  <2> DEFINE k == resources["media-stats"]
  <2>2. PICK report \in Reports, n \in 1..(requestId - 1) :
          up[c][i] = StringifyMediaStats(StatsRequestFromReport(report, n, k.allowlist))
    BY <2>1 DEF Uploads
  <2>3. k \in Configurations
    BY <2>1 DEF Uploads
  <2>4. requestId \in Nat /\ requestId <= requests + 1 /\ requests <= MaxRequests /\ requests \in Nat
    BY DEF Inv, CountersInv
  <2>5. n \in Nat /\ n \in 1..MaxRequests
    BY <2>4, StructsAssumption
  <2>6. ReadRequest(c, up[c][i]) = StatsRequestFromReport(report, n, k.allowlist)
    BY <1>2, <2>2, <2>3, <2>5, UploadRead
  <2>7. StatsRequestFromReport(report, n, k.allowlist).requestId = n
    BY DEF StatsRequestFromReport
  <2> QED
    BY <2>5, <2>6, <2>7 DEF AskedIds
<1> QED
  BY <1>1, <1>2

LEMMA AnsweredRequests ==
  ASSUME Inv, NEW c \in Asking, up[c] # <<>>,
         up' = [up EXCEPT ![c] = Tail(@)], asked' = [asked EXCEPT ![c] = Tail(@)],
         UNCHANGED requestId, resources'["media-stats"] = resources["media-stats"]
  PROVE  UpInv' /\ SeqMap(up, Asking)' /\ SeqMap(asked, Asking)'
<1>1. /\ SeqMap(up, Asking) /\ SeqMap(asked, Asking)
      /\ up = [x \in Asking |-> up[x]] /\ asked = [x \in Asking |-> asked[x]]
  BY SeqMapAt DEF Inv, TypeInv
<1>2. PICK S : up[c] \in Seq(S)
  BY <1>1, SeqMapAt
<1>3. PICK T : asked[c] \in Seq(T)
  BY <1>1, SeqMapAt
<1>4. Len(up[c]) = Len(asked[c])
  BY DEF Inv, UpInv
<1>5. asked[c] # <<>>
  <2>1. Len(up[c]) # 0
    BY <1>2, EmptySeq
  <2> QED
    BY <2>1, <1>4, NoElement
<1>6. SeqMap(up, Asking)' /\ SeqMap(asked, Asking)'
  <2>1. SeqMap([up EXCEPT ![c] = Tail(@)], Asking)
    BY <1>1, SeqMapTail
  <2>2. SeqMap([asked EXCEPT ![c] = Tail(@)], Asking)
    BY <1>1, <1>5, SeqMapTail
  <2> QED
    BY <2>1, <2>2
<1>7. /\ up'[c] = Tail(up[c]) /\ asked'[c] = Tail(asked[c])
      /\ \A d \in Asking : d # c => up'[d] = up[d] /\ asked'[d] = asked[d]
  BY <1>1
<1>8. /\ Len(up'[c]) \in Nat /\ Len(up[c]) = Len(up'[c]) + 1
      /\ \A i \in 1..Len(up'[c]) : up'[c][i] = up[c][i + 1]
  <2> DEFINE less == Tail(up[c])
  <2>1. /\ Len(less) \in Nat /\ Len(up[c]) = Len(less) + 1
        /\ \A i \in 1..Len(less) : less[i] = up[c][i + 1]
    BY <1>1, <1>2, TailIs
  <2>2. up'[c] = less
    BY <1>7
  <2> HIDE DEF less
  <2> QED
    BY <2>1, <2>2
<1>9. /\ Len(asked'[c]) \in Nat /\ Len(asked[c]) = Len(asked'[c]) + 1
      /\ \A i \in 1..Len(asked'[c]) : asked'[c][i] = asked[c][i + 1]
  <2> DEFINE less == Tail(asked[c])
  <2>1. /\ Len(less) \in Nat /\ Len(asked[c]) = Len(less) + 1
        /\ \A i \in 1..Len(less) : less[i] = asked[c][i + 1]
    BY <1>1, <1>3, <1>5, TailIs
  <2>2. asked'[c] = less
    BY <1>7
  <2> HIDE DEF less
  <2> QED
    BY <2>1, <2>2
<1>10. Len(up'[c]) = Len(asked'[c]) /\ \A i \in 1..Len(up'[c]) : i + 1 \in 1..Len(up[c])
  <2>1. \A a, b, n \in Nat : n = a + 1 /\ n = b + 1 => a = b /\ \A i \in 1..a : i + 1 \in 1..n
    OBVIOUS
  <2>2. Len(up[c]) \in Nat
    BY <1>2
  <2> QED
    BY <1>4, <1>8, <1>9, <2>1, <2>2
<1>11. ASSUME NEW i \in 1..Len(up'[c])
       PROVE  IF c = "media-stats"
              THEN Uploads(up'[c][i], asked'[c][i], requestId, resources["media-stats"])
              ELSE Asks(c, up'[c][i], asked'[c][i])
  <2>1. i + 1 \in 1..Len(up[c]) /\ up'[c][i] = up[c][i + 1] /\ asked'[c][i] = asked[c][i + 1]
    BY <1>8, <1>9, <1>10, <1>11
  <2> QED
    BY <2>1 DEF Inv, UpInv
<1>12. ASSUME NEW d \in Asking, d # c
       PROVE  /\ Len(up'[d]) = Len(asked'[d])
              /\ \A i \in 1..Len(up'[d]) :
                   IF d = "media-stats"
                   THEN Uploads(up'[d][i], asked'[d][i], requestId, resources["media-stats"])
                   ELSE Asks(d, up'[d][i], asked'[d][i])
  BY <1>7, <1>12 DEF Inv, UpInv
<1>13. requestId' = requestId /\ resources'["media-stats"] = resources["media-stats"]
  OBVIOUS
<1>14. UpInv'
  BY <1>10, <1>11, <1>12, <1>13 DEF UpInv
<1> QED
  BY <1>6, <1>14

LEMMA ServerAnswersKeeps ==
  ASSUME Inv, NEW c \in Asking, ServerAnswers(c)
  PROVE  Inv'
<1>1. up[c] # <<>> /\ c \in Channels
  BY DEF ServerAnswers, Asking, Channels
<1> DEFINE id == ReadRequest(c, Head(up[c])).requestId
<1>2. PICK u \in Responses(c, id) :
        Push(c, u) /\ told' = [told EXCEPT ![c] = Append(@, u.response)]
  BY DEF ServerAnswers
<1>3. id \in AskedIds
  <2>1. PICK S : up[c] \in Seq(S)
    BY SeqMapAt DEF Inv, TypeInv
  <2>2. Len(up[c]) # 0
    BY <2>1, <1>1, EmptySeq
  <2>3. 1 \in 1..Len(up[c]) /\ Head(up[c]) = up[c][1]
    BY <2>1, <2>2, <1>1
  <2> QED
    BY <2>3, IdsOfRequests
<1> HIDE DEF id
<1>4. u \in Meanings(c) /\ u.response # None
  BY <1>2, <1>3, MarkersAssumption DEF Meanings
<1>5. PICK text \in Texts(c, u) :
        /\ resources' = [resources EXCEPT ![c] = Apply(c, resources[c], u)]
        /\ down' = [down EXCEPT ![c] = Append(@, MessageOf(c, text, Apply(c, resources[c], u), u))]
  BY <1>2 DEF Push, MessageOf
<1> DEFINE m == MessageOf(c, text, Apply(c, resources[c], u), u)
<1>6. UNCHANGED <<replica, seen, heard, requestId, updates, garbled, requests>>
  BY DEF ServerAnswers
<1>7. Tells(c, m, resources[c]) /\ m.after = Apply(c, resources[c], u) /\ m.answer = u.response
  BY <1>1, <1>4, MessageTells
<1>8. c = "media-stats" => m.after = resources[c]
  <2> HAVE c = "media-stats"
  <2>1. u.resources = <<>>
    BY <1>2 DEF Responses
  <2> QED
    BY <2>1, <1>7 DEF Apply, Collections
<1>9. c = "media-stats" => m.after \in {None} \cup Configurations
  BY <1>8 DEF Inv, ConfigurationInv, OneConfiguration
<1> HIDE DEF m
<1>10. Sends(c, m)
  BY <1>5, <1>6, <1>7, <1>8, <1>9 DEF Sends, m
<1>11. /\ IsMap(resources, Channels)' /\ SeqMap(down, Channels)'
       /\ DownInv' /\ ConfigurationInv'
       /\ \A d \in Channels : d # c => down'[d] = down[d] /\ resources'[d] = resources[d]
       /\ down'[c] = Append(down[c], m) /\ resources'[c] = m.after
  BY <1>1, <1>10, Sending
<1>12. resources'["media-stats"] = resources["media-stats"]
  BY <1>8, <1>11 DEF Channels
<1>13. UpInv' /\ SeqMap(up, Asking)' /\ SeqMap(asked, Asking)'
  BY <1>1, <1>6, <1>12, AnsweredRequests DEF ServerAnswers
<1>14. SeqMap(told, Asking)'
  <2>1. SeqMap(told, Asking)
    BY DEF Inv, TypeInv
  <2> QED
    BY <2>1, <1>2, SeqMapAppend
<1>15. TypeInv'
  BY <1>6, <1>11, <1>13, <1>14 DEF Inv, TypeInv
<1>16. CountersInv'
  BY <1>6 DEF Inv, CountersInv
<1>17. AnswersInv'
  <2>1. told = [x \in Asking |-> told[x]] /\ Asking \subseteq Channels
    BY SeqMapAt DEF Inv, TypeInv, Asking, Channels
  <2>2. /\ told'[c] = Append(told[c], u.response)
        /\ \A d \in Asking : d # c => told'[d] = told[d]
    BY <1>2, <2>1
  <2>3. PICK S : down[c] \in Seq(S)
    BY <1>1, SeqMapAt DEF Inv, TypeInv
  <2> DEFINE T == S \cup {m}
  <2>4. down[c] \in Seq(T) /\ m \in T
    BY <2>3, SeqWider
  <2> HIDE DEF T
  <2>5. Answers(down'[c]) = Append(Answers(down[c]), u.response)
    BY <2>4, <1>4, <1>7, <1>11, AnswersAppend
  <2>6. c \in Listened => told'[c] = heard[c] \o Answers(down'[c])
    <3> HAVE c \in Listened
    <3>1. told[c] = heard[c] \o Answers(down[c])
      BY DEF Inv, AnswersInv
    <3>2. PICK H : heard[c] \in Seq(H)
      BY SeqMapAt DEF Inv, TypeInv
    <3> DEFINE V == {down[c][n].answer : n \in DOMAIN down[c]}
    <3>3. Answers(down[c]) \in Seq(V)
      BY <2>3, AnswersTyped
    <3> DEFINE W == V \cup H \cup {u.response}
    <3>4. heard[c] \in Seq(W) /\ Answers(down[c]) \in Seq(W) /\ u.response \in W
      BY <3>2, <3>3, SeqWider
    <3> HIDE DEF V, W
    <3>5. heard[c] \o Append(Answers(down[c]), u.response)
            = Append(heard[c] \o Answers(down[c]), u.response)
      <4> DEFINE h == heard[c]
                 a == Answers(down[c])
                 e == u.response
      <4>0. h \in Seq(W) /\ a \in Seq(W) /\ e \in W
        BY <3>4
      <4> HIDE DEF h, a, e
      <4>1. <<e>> \in Seq(W) /\ h \o a \in Seq(W)
        BY <4>0
      <4>2. Append(a, e) = a \o <<e>> /\ Append(h \o a, e) = (h \o a) \o <<e>>
        BY <4>0, <4>1, AppendIsConcat
      <4>3. (h \o a) \o <<e>> = h \o (a \o <<e>>)
        BY <4>0, <4>1, ConcatAssociative
      <4>4. h \o Append(a, e) = Append(h \o a, e)
        BY <4>2, <4>3
      <4> QED
        BY <4>4 DEF h, a, e
    <3> QED
      BY <3>1, <3>5, <2>2, <2>5
  <2>7. \A d \in Asking \cap Listened : d # c => told'[d] = heard[d] \o Answers(down'[d])
    BY <2>1, <2>2, <1>11 DEF Inv, AnswersInv
  <2>8. heard' = heard
    BY <1>6
  <2> QED
    BY <2>6, <2>7, <2>8 DEF AnswersInv
<1> QED
  BY <1>11, <1>13, <1>15, <1>16, <1>17 DEF Inv

-----------------------------------------------------------------------------
(* The client.                                                             *)

LEMMA OnMessageKeeps ==
  ASSUME Inv, NEW c \in Channels, OnMessage(c)
  PROVE  Inv'
<1> DEFINE m == Head(down[c])
           update == IF c \notin Listened \/ m.binary THEN Error ELSE ParseUpdate(c, m.text)
           answers == c \in Asking /\ update # Error /\ update.response # None
<1>1. /\ down[c] # <<>>
      /\ replica' = [replica EXCEPT ![c] = IF update = Error THEN @ ELSE Apply(c, @, update)]
      /\ heard' = IF answers THEN [heard EXCEPT ![c] = Append(@, update.response)] ELSE heard
      /\ seen' = [seen EXCEPT ![c] = m.after]
      /\ down' = [down EXCEPT ![c] = Tail(@)]
      /\ UNCHANGED <<resources, told, up, asked, requestId, updates, garbled, requests>>
  BY DEF OnMessage
<1>2. c \in Listened => update = Reading(c, m)
  BY DEF Reading
<1>3. c \notin Listened => update = Error
  OBVIOUS
<1> HIDE DEF m, update
<1>4. /\ SeqMap(down, Channels) /\ down = [x \in Channels |-> down[x]]
      /\ SeqMap(heard, Asking) /\ heard = [x \in Asking |-> heard[x]]
      /\ replica = [x \in Channels |-> replica[x]] /\ seen = [x \in Channels |-> seen[x]]
  <2>1. SeqMap(down, Channels) /\ SeqMap(heard, Asking)
    BY DEF Inv, TypeInv
  <2>2. replica = [x \in Channels |-> replica[x]] /\ seen = [x \in Channels |-> seen[x]]
    BY DEF Inv, TypeInv, IsMap
  <2>3. down = [x \in Channels |-> down[x]]
    BY <2>1, SeqMapAt
  <2>4. heard = [x \in Asking |-> heard[x]]
    BY <2>1, SeqMapAt
  <2> QED
    BY <2>1, <2>2, <2>3, <2>4
<1>5. PICK S : down[c] \in Seq(S)
  BY <1>4, SeqMapAt
<1>6. /\ down'[c] = Tail(down[c]) /\ seen'[c] = m.after
      /\ \A d \in Channels : d # c =>
           down'[d] = down[d] /\ seen'[d] = seen[d] /\ replica'[d] = replica[d]
  BY <1>1, <1>4
<1>7. /\ Tells(c, m, seen[c])
      /\ Chain(c, Tail(down[c]), m.after, resources[c])
  <2>1. Chain(c, down[c], seen[c], resources[c])
    BY DEF Inv, DownInv
  <2> QED
    BY <1>1, <1>5, <2>1, ChainTail DEF m
<1>8. DownInv'
  <2>1. resources' = resources
    BY <1>1
  <2>2. Chain(c, down'[c], seen'[c], resources[c])
    BY <1>6, <1>7
  <2>3. replica'[c] = IF c \in Listened THEN seen'[c] ELSE Nothing(c)
    <3>1. replica[c] = IF c \in Listened THEN seen[c] ELSE Nothing(c)
      BY DEF Inv, DownInv
    <3>2. replica'[c] = IF update = Error THEN replica[c] ELSE Apply(c, replica[c], update)
      BY <1>1, <1>4
    <3>3. CASE c \in Listened
      BY <3>1, <3>2, <3>3, <1>2, <1>6, <1>7 DEF Tells
    <3>4. CASE c \notin Listened
      BY <3>1, <3>2, <3>4, <1>3
    <3> QED
      BY <3>3, <3>4
  <2>4. ASSUME NEW d \in Channels, d # c
        PROVE  /\ Chain(d, down'[d], seen'[d], resources[d])
               /\ replica'[d] = IF d \in Listened THEN seen'[d] ELSE Nothing(d)
    BY <1>6, <2>4 DEF Inv, DownInv
  <2> QED
    BY <2>1, <2>2, <2>3, <2>4 DEF DownInv
<1>9. ConfigurationInv'
  <2>1. "media-stats" \in Channels /\ resources' = resources
    BY <1>1 DEF Channels
  <2>2. CASE c # "media-stats"
    BY <2>1, <2>2, <1>6 DEF Inv, ConfigurationInv
  <2>3. CASE c = "media-stats"
    <3>1. OneConfiguration(resources[c], seen[c], down[c])
      BY <2>3 DEF Inv, ConfigurationInv
    <3>2. OneConfiguration(resources[c], m.after, Tail(down[c]))
      BY <3>1, <1>1, <1>5, OneConfigurationTail DEF m
    <3> QED
      BY <2>1, <2>3, <3>2, <1>6 DEF ConfigurationInv
  <2> QED
    BY <2>2, <2>3
<1>10. TypeInv'
  <2>1. IsMap(replica, Channels)' /\ IsMap(seen, Channels)'
    BY <1>1, <1>4 DEF IsMap
  <2>2. SeqMap(down, Channels)'
    <3>1. SeqMap([down EXCEPT ![c] = Tail(@)], Channels)
      BY <1>1, <1>4, SeqMapTail
    <3> QED
      BY <3>1, <1>1
  <2>3. SeqMap(heard, Asking)'
    <3>1. CASE answers
      <4>1. SeqMap([heard EXCEPT ![c] = Append(@, update.response)], Asking)
        BY <1>4, <3>1, SeqMapAppend
      <4> QED
        BY <4>1, <3>1, <1>1
    <3>2. CASE ~answers
      BY <3>2, <1>1, <1>4
    <3> QED
      BY <3>1, <3>2
  <2> QED
    BY <1>1, <2>1, <2>2, <2>3 DEF Inv, TypeInv, IsMap
<1>11. CountersInv'
  BY <1>1 DEF Inv, CountersInv
<1>12. UpInv'
  BY <1>1 DEF Inv, UpInv
<1>13. AnswersInv'
  <2>1. told' = told /\ Asking \subseteq Channels
    BY <1>1 DEF Asking, Channels
  <2>2. \A d \in Asking : d # c => heard'[d] = heard[d]
    BY <1>1, <1>4
  <2>3. ASSUME c \in Asking \cap Listened
        PROVE  told[c] = heard'[c] \o Answers(down'[c])
    <3> DEFINE h == heard[c]
               rest == Answers(Tail(down[c]))
    <3>1. told[c] = h \o Answers(down[c])
      BY <2>3 DEF Inv, AnswersInv
    <3>2. Answers(down[c]) = (IF m.answer # None THEN <<m.answer>> ELSE <<>>) \o rest
      BY <1>1, <1>5, AnswersTail DEF m
    <3>3. m.answer = IF update # Error THEN update.response ELSE None
      BY <2>3, <1>2, <1>7 DEF Tells
    <3>4. heard'[c] = IF m.answer # None THEN Append(h, m.answer) ELSE h
      BY <1>1, <1>4, <2>3, <3>3
    <3>5. PICK H : h \in Seq(H)
      BY <1>4, <2>3, SeqMapAt
    <3> DEFINE V == {Tail(down[c])[n].answer : n \in DOMAIN Tail(down[c])}
               W == V \cup H \cup {m.answer}
    <3>6. rest \in Seq(V)
      <4>1. Tail(down[c]) \in Seq(S)
        BY <1>1, <1>5
      <4> QED
        BY <4>1, AnswersTyped
    <3>7. h \in Seq(W) /\ rest \in Seq(W) /\ m.answer \in W /\ <<m.answer>> \in Seq(W)
      BY <3>5, <3>6, SeqWider
    <3> HIDE DEF h, rest, V, W
    <3>8. Append(h, m.answer) = h \o <<m.answer>>
      BY <3>7, AppendIsConcat
    <3>9. (h \o <<m.answer>>) \o rest = h \o (<<m.answer>> \o rest)
      BY <3>7, ConcatAssociative
    <3>10. <<>> \o rest = rest
      BY <3>7, ConcatEmptySeq
    <3>11. CASE m.answer # None
      <4>1. heard'[c] = h \o <<m.answer>>
        BY <3>4, <3>8, <3>11
      <4>2. told[c] = h \o (<<m.answer>> \o rest)
        BY <3>1, <3>2, <3>11
      <4>3. told[c] = heard'[c] \o rest
        BY <4>1, <4>2, <3>9
      <4> QED
        BY <4>3, <1>6 DEF rest
    <3>12. CASE m.answer = None
      BY <3>1, <3>2, <3>4, <3>10, <3>12, <1>6 DEF rest
    <3> QED
      BY <3>11, <3>12
  <2>4. \A d \in Asking \cap Listened : d # c => told[d] = heard'[d] \o Answers(down'[d])
    BY <2>1, <2>2, <1>6 DEF Inv, AnswersInv
  <2> QED
    BY <2>1, <2>3, <2>4 DEF AnswersInv
<1> QED
  BY <1>8, <1>9, <1>10, <1>11, <1>12, <1>13 DEF Inv

\* A request that is sent, or not, on channel c: sent is one that may be.
Sent(c, json, meant) ==
  \/ /\ up' = [up EXCEPT ![c] = Append(@, json)]
     /\ asked' = [asked EXCEPT ![c] = Append(@, meant)]
     /\ IF c = "media-stats"
        THEN Uploads(json, meant, requestId', resources["media-stats"])
        ELSE Asks(c, json, meant)
  \/ UNCHANGED <<up, asked>>

LEMMA Sendings ==
  ASSUME Inv, NEW c \in Asking, NEW json, NEW meant, Sent(c, json, meant),
         requestId' \in Nat, requestId <= requestId', UNCHANGED resources
  PROVE  UpInv' /\ SeqMap(up, Asking)' /\ SeqMap(asked, Asking)'
<1>1. SeqMap(up, Asking) /\ SeqMap(asked, Asking)
  BY DEF Inv, TypeInv
<1>2. resources' = resources /\ requestId \in Nat
  BY DEF Inv, CountersInv
<1>3. ASSUME NEW d \in Asking, NEW i \in 1..Len(up[d])
      PROVE  IF d = "media-stats"
             THEN Uploads(up[d][i], asked[d][i], requestId', resources["media-stats"])
             ELSE Asks(d, up[d][i], asked[d][i])
  <2>1. CASE d # "media-stats"
    BY <1>3, <2>1 DEF Inv, UpInv
  <2>2. CASE d = "media-stats"
    <3>1. Uploads(up[d][i], asked[d][i], requestId, resources["media-stats"])
      BY <1>3, <2>2 DEF Inv, UpInv
    <3>2. \A n \in 1..(requestId - 1) : n \in 1..(requestId' - 1)
      <4>1. \A a, b \in Nat : a <= b => \A n \in 1..(a - 1) : n \in 1..(b - 1)
        OBVIOUS
      <4> QED
        BY <1>2, <4>1
    <3>3. Uploads(up[d][i], asked[d][i], requestId', resources["media-stats"])
      BY <3>1, <3>2 DEF Uploads
    <3> QED
      BY <3>3, <2>2
  <2> QED
    BY <2>1, <2>2
<1>4. \A d \in Asking : Len(up[d]) = Len(asked[d])
  BY DEF Inv, UpInv
<1>5. CASE UNCHANGED <<up, asked>>
  <2>1. UpInv'
    BY <1>2, <1>3, <1>4, <1>5 DEF UpInv
  <2> QED
    BY <2>1, <1>1, <1>5
<1>6. CASE /\ up' = [up EXCEPT ![c] = Append(@, json)]
           /\ asked' = [asked EXCEPT ![c] = Append(@, meant)]
           /\ IF c = "media-stats"
              THEN Uploads(json, meant, requestId', resources["media-stats"])
              ELSE Asks(c, json, meant)
  <2>1. SeqMap(up, Asking)'
    BY <1>1, <1>6, SeqMapAppend
  <2>2. SeqMap(asked, Asking)'
    BY <1>1, <1>6, SeqMapAppend
  <2>3. up = [x \in Asking |-> up[x]]
    BY <1>1, SeqMapAt
  <2>4. asked = [x \in Asking |-> asked[x]]
    BY <1>1, SeqMapAt
  <2>5. /\ up'[c] = Append(up[c], json) /\ asked'[c] = Append(asked[c], meant)
        /\ \A d \in Asking : d # c => up'[d] = up[d] /\ asked'[d] = asked[d]
    BY <1>6, <2>3, <2>4
  <2>6. PICK S : up[c] \in Seq(S)
    BY <1>1, SeqMapAt
  <2>7. PICK T : asked[c] \in Seq(T)
    BY <1>1, SeqMapAt
  <2> DEFINE b == Len(up[c])
             more == Append(up[c], json)
             moreAsked == Append(asked[c], meant)
  <2>8. /\ Len(more) = b + 1 /\ b \in Nat /\ more[b + 1] = json
        /\ \A i \in 1..b : more[i] = up[c][i]
    BY <2>6, AppendIs
  <2>9. /\ Len(moreAsked) = b + 1 /\ moreAsked[b + 1] = meant
        /\ \A i \in 1..b : moreAsked[i] = asked[c][i]
    BY <2>7, <1>4, AppendIs
  <2>10. up'[c] = more /\ asked'[c] = moreAsked
    BY <2>5
  <2>11. \A i \in 1..(b + 1) : i \in 1..b \/ i = b + 1
    BY <2>8
  <2> HIDE DEF more, moreAsked
  <2>12. ASSUME NEW i \in 1..Len(up'[c])
         PROVE  IF c = "media-stats"
                THEN Uploads(up'[c][i], asked'[c][i], requestId', resources["media-stats"])
                ELSE Asks(c, up'[c][i], asked'[c][i])
    <3>1. CASE i \in 1..b
      BY <3>1, <2>8, <2>9, <2>10, <1>3
    <3>2. CASE i = b + 1
      BY <3>2, <2>8, <2>9, <2>10, <1>6
    <3> QED
      BY <3>1, <3>2, <2>8, <2>10, <2>11
  <2>13. Len(up'[c]) = Len(asked'[c])
    BY <2>8, <2>9, <2>10
  <2>14. UpInv'
    BY <2>5, <2>12, <2>13, <1>2, <1>3, <1>4 DEF UpInv
  <2> QED
    BY <2>1, <2>2, <2>14
<1> QED
  BY <1>5, <1>6 DEF Sent

LEMMA ClientAsksKeeps ==
  ASSUME Inv, ClientAsks
  PROVE  Inv'
<1>1. UNCHANGED <<resources, down, replica, seen, told, heard, requestId, updates, garbled>>
      /\ requests' = requests + 1 /\ requests < MaxRequests
  BY DEF ClientAsks
<1>2. PICK r \in Requests :
        IF r.channel = "media-stats" THEN UNCHANGED <<up, asked>>
        ELSE SendRequest(r.channel, r, r)
  BY DEF ClientAsks
<1>3. r.channel \in Asking
  BY RequestsAssumption
<1>4. Sent(r.channel, StringifyRequest(r.channel, r), r)
  BY <1>2 DEF Sent, SendRequest, Asks
<1>5. requestId' \in Nat /\ requestId <= requestId'
  BY <1>1 DEF Inv, CountersInv
<1>6. UpInv' /\ SeqMap(up, Asking)' /\ SeqMap(asked, Asking)'
  BY <1>1, <1>3, <1>4, <1>5, Sendings
<1>7. TypeInv'
  BY <1>1, <1>6 DEF Inv, TypeInv, IsMap
<1>8. CountersInv'
  BY <1>1, StructsAssumption DEF Inv, CountersInv
<1>9. DownInv' /\ ConfigurationInv'
  BY <1>1 DEF Inv, DownInv, ConfigurationInv
<1>10. AnswersInv'
  BY <1>1 DEF Inv, AnswersInv
<1> QED
  BY <1>6, <1>7, <1>8, <1>9, <1>10 DEF Inv

LEMMA CollectStatsKeeps ==
  ASSUME Inv, CollectStats
  PROVE  Inv'
<1> DEFINE k == replica["media-stats"]
<1>1. /\ UNCHANGED <<resources, down, replica, seen, told, heard, updates, garbled>>
      /\ requestId' = requestId + 1 /\ requests' = requests + 1 /\ requests < MaxRequests
      /\ k # None /\ k.uploadIntervalSeconds # 0
  BY DEF CollectStats
<1>2. PICK report \in Reports :
        SendRequest("media-stats", StatsRequestFromReport(report, requestId, k.allowlist),
                    [channel |-> "media-stats", requestId |-> requestId, payload |-> report])
  BY DEF CollectStats
<1> DEFINE request == StatsRequestFromReport(report, requestId, k.allowlist)
           meant == [channel |-> "media-stats", requestId |-> requestId, payload |-> report]
<1>3. k = resources["media-stats"] /\ k \in Configurations
  <2>1. "media-stats" \in Channels /\ "media-stats" \notin Collections
    BY DEF Channels, Collections
  <2>2. k = IF "media-stats" \in Listened THEN seen["media-stats"] ELSE None
    BY <2>1 DEF Inv, DownInv, Nothing
  <2> QED
    BY <2>2, <1>1 DEF Inv, ConfigurationInv, OneConfiguration
<1>4. requestId \in Nat /\ 1 <= requestId
  BY DEF Inv, CountersInv
<1>5. StringifyRequest("media-stats", request) = StringifyMediaStats(request)
  <2>1. request.channel = "media-stats" /\ request.requestId = requestId
    BY DEF StatsRequestFromReport
  <2> HIDE DEF request
  <2>2. Acceptable("media-stats", request)
    BY <2>1, <1>4 DEF Acceptable
  <2> QED
    BY <2>2 DEF StringifyRequest
<1>6. Uploads(StringifyMediaStats(request), meant, requestId', resources["media-stats"])
  <2>1. requestId \in 1..(requestId' - 1)
    BY <1>1, <1>4
  <2> QED
    BY <2>1, <1>1, <1>3 DEF Uploads
<1>7. Sent("media-stats", StringifyMediaStats(request), meant)
  <2>1. SendRequest("media-stats", request, meant)
    BY <1>2
  <2> HIDE DEF request, meant
  <2> QED
    BY <2>1, <1>5, <1>6 DEF Sent, SendRequest
<1> HIDE DEF request, meant
<1>8. requestId' \in Nat /\ requestId <= requestId' /\ "media-stats" \in Asking
  BY <1>1, <1>4 DEF Asking
<1>9. UpInv' /\ SeqMap(up, Asking)' /\ SeqMap(asked, Asking)'
  BY <1>1, <1>7, <1>8, Sendings
<1>10. TypeInv'
  BY <1>1, <1>9 DEF Inv, TypeInv, IsMap
<1>11. CountersInv'
  BY <1>1, StructsAssumption DEF Inv, CountersInv
<1>12. DownInv' /\ ConfigurationInv'
  BY <1>1 DEF Inv, DownInv, ConfigurationInv
<1>13. AnswersInv'
  BY <1>1 DEF Inv, AnswersInv
<1> QED
  BY <1>9, <1>10, <1>11, <1>12, <1>13 DEF Inv

-----------------------------------------------------------------------------
(* The invariant holds, and what follows from it.                          *)

LEMMA InitInv == Init => Inv
<1> SUFFICES ASSUME Init PROVE Inv
  OBVIOUS
<1>1. <<>> \in Seq({}) /\ Len(<<>>) = 0
  OBVIOUS
<1>2. TypeInv
  <2>1. IsMap(resources, Channels) /\ IsMap(replica, Channels) /\ IsMap(seen, Channels)
    BY DEF Init, IsMap
  <2>2. down \in [Channels -> Seq({})]
    BY <1>1 DEF Init
  <2>3. /\ told \in [Asking -> Seq({})] /\ heard \in [Asking -> Seq({})]
        /\ up \in [Asking -> Seq({})] /\ asked \in [Asking -> Seq({})]
    BY <1>1 DEF Init
  <2> QED
    BY <2>1, <2>2, <2>3 DEF TypeInv, SeqMap
<1>3. CountersInv
  BY StructsAssumption DEF Init, CountersInv
<1>4. DownInv
  BY <1>1 DEF Init, DownInv, Chain
<1>5. ConfigurationInv
  <2>1. "media-stats" \in Channels /\ Nothing("media-stats") = None
    BY DEF Channels, Collections, Nothing
  <2> QED
    BY <1>1, <2>1 DEF Init, ConfigurationInv, OneConfiguration
<1>6. UpInv
  BY <1>1 DEF Init, UpInv
<1>7. AnswersInv
  <2>1. Asking \subseteq Channels /\ Answers(<<>>) = <<>> /\ <<>> \o <<>> = <<>>
    BY AnswersOfNone, ConcatEmptySeq, <1>1 DEF Asking, Channels
  <2> QED
    BY <2>1 DEF Init, AnswersInv
<1> QED
  BY <1>2, <1>3, <1>4, <1>5, <1>6, <1>7 DEF Inv

LEMMA NextInv == Inv /\ [Next]_vars => Inv'
<1> SUFFICES ASSUME Inv, [Next]_vars PROVE Inv'
  OBVIOUS
<1>1. ASSUME NEW c \in Channels, ServerUpdate(c) PROVE Inv'
  BY <1>1, ServerUpdateKeeps
<1>2. ASSUME NEW c \in Channels, ServerGarbles(c) PROVE Inv'
  BY <1>2, ServerGarblesKeeps
<1>3. ASSUME NEW c \in Channels, OnMessage(c) PROVE Inv'
  BY <1>3, OnMessageKeeps
<1>4. ASSUME NEW c \in Asking, ServerAnswers(c) PROVE Inv'
  BY <1>4, ServerAnswersKeeps
<1>5. CASE ClientAsks
  BY <1>5, ClientAsksKeeps
<1>6. CASE CollectStats
  BY <1>6, CollectStatsKeeps
<1>7. CASE UNCHANGED vars
  BY <1>7 DEF vars, Inv, TypeInv, IsMap, SeqMap, CountersInv, DownInv, ConfigurationInv, UpInv,
              AnswersInv
<1> QED
  BY <1>1, <1>2, <1>3, <1>4, <1>5, <1>6, <1>7 DEF Next

\* Whatever the servers hold, write and leave out, and whatever comes between, the
\* messages under way lead from what the application holds to what the servers hold.
THEOREM InvHolds == Spec => []Inv
<1>1. Init => Inv
  BY InitInv
<1>2. Inv /\ [Next]_vars => Inv'
  BY NextInv
<1> QED
  BY <1>1, <1>2, PTL DEF Spec

LEMMA InvReplica == Inv => ReplicaIsTheServersPast
  BY ListenedAssumption DEF Inv, DownInv, ReplicaIsTheServersPast

LEMMA InvAnswers == Inv => AnswersReachTheirRequests
  BY DEF Inv, AnswersInv, AnswersReachTheirRequests, InFlight

LEMMA InvRequests == Inv => RequestsArriveAsAsked
<1> SUFFICES ASSUME Inv, NEW c \in Asking \ {"media-stats"}, NEW i \in DOMAIN up[c]
             PROVE  ReadRequest(c, up[c][i]) = asked[c][i]
  BY DEF RequestsArriveAsAsked
<1>1. PICK S : up[c] \in Seq(S)
  BY SeqMapAt DEF Inv, TypeInv
<1>2. Asks(c, up[c][i], asked[c][i])
  BY <1>1 DEF Inv, UpInv
<1> QED
  BY <1>2, RequestRead DEF Asks

LEMMA InvUploads == Inv => UploadsAreAllowlisted
<1> SUFFICES ASSUME Inv, NEW i \in DOMAIN up["media-stats"]
             PROVE  LET configuration == resources["media-stats"]
                        upload == ReadRequest("media-stats", up["media-stats"][i])
                        report == asked["media-stats"][i]
                    IN  /\ configuration # None
                        /\ configuration.uploadIntervalSeconds # 0
                        /\ upload.requestId = report.requestId
                        /\ ValuesOfSections(upload.payload) =
                             {v \in ValuesOfSections(report.payload) :
                                /\ v[1] \in DOMAIN configuration.allowlist
                                /\ v[3] \in configuration.allowlist[v[1]]}
  BY DEF UploadsAreAllowlisted
<1> DEFINE k == resources["media-stats"]
           json == up["media-stats"][i]
           meant == asked["media-stats"][i]
<1>1. "media-stats" \in Asking
  BY DEF Asking
<1>2. PICK S : up["media-stats"] \in Seq(S)
  BY <1>1, SeqMapAt DEF Inv, TypeInv
<1>3. Uploads(json, meant, requestId, k)
  BY <1>1, <1>2 DEF Inv, UpInv
<1>4. k \in Configurations /\ k.uploadIntervalSeconds # 0 /\ k # None
  BY <1>3, NoneIsNoConfiguration DEF Uploads
<1>5. PICK report \in Reports, n \in 1..(requestId - 1) :
        /\ meant = [channel |-> "media-stats", requestId |-> n, payload |-> report]
        /\ json = StringifyMediaStats(StatsRequestFromReport(report, n, k.allowlist))
  BY <1>3 DEF Uploads
<1>6. n \in Nat
  BY DEF Inv, CountersInv
<1>7. ReadRequest("media-stats", json) = StatsRequestFromReport(report, n, k.allowlist)
  BY <1>4, <1>5, <1>6, UploadRead
<1>8. StatsRequestFromReport(report, n, k.allowlist).requestId = n
  BY DEF StatsRequestFromReport
<1>9. ValuesOfSections(StatsRequestFromReport(report, n, k.allowlist).payload)
        = {v \in ValuesOfSections(report) :
             v[1] \in DOMAIN k.allowlist /\ v[3] \in k.allowlist[v[1]]}
  BY UploadAllowed
<1>10. meant.requestId = n /\ meant.payload = report
  BY <1>5
<1> HIDE DEF k, json, meant
<1>11. /\ ReadRequest("media-stats", json).requestId = meant.requestId
       /\ ValuesOfSections(ReadRequest("media-stats", json).payload)
            = {v \in ValuesOfSections(meant.payload) :
                 v[1] \in DOMAIN k.allowlist /\ v[3] \in k.allowlist[v[1]]}
  BY <1>7, <1>8, <1>9, <1>10
<1> QED
  BY <1>4, <1>11 DEF k, json, meant

\* The application that folds the updates it is given (OnMessage of the five
\* channels) holds exactly what the servers held when they wrote the last message
\* it was reached by.
THEOREM ReplicaSafe == Spec => []ReplicaIsTheServersPast
  BY InvHolds, InvReplica, PTL

\* The responses OnMessage gives to the application are those the servers sent, in
\* order; the missing ones are in messages under way.
THEOREM AnswersSafe == Spec => []AnswersReachTheirRequests
  BY InvHolds, InvAnswers, PTL

\* Every request that SendRequest writes is read as the application asked it.
THEOREM RequestsSafe == Spec => []RequestsArriveAsAsked
  BY InvHolds, InvRequests, PTL

\* Whatever WebRTC reports, CollectStats uploads exactly the values that the
\* servers' configuration lists, and nothing without a configuration.
THEOREM UploadsSafe == Spec => []UploadsAreAllowlisted
  BY InvHolds, InvUploads, PTL

=============================================================================
