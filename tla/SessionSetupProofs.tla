--------------------------- MODULE SessionSetupProofs ---------------------------
(***************************************************************************)
(* For every configuration and every number of streams: what creation      *)
(* leaves, what an OK of Connect means, and that curl's objects are held   *)
(* exactly as long as they are needed.                                     *)
(***************************************************************************)
EXTENDS SessionSetup, SequenceTheorems, TLAPS

-----------------------------------------------------------------------------
(* The steps of the factory, by their number.                              *)

Opening == <<"count", "clientThread", "signalingThread", "factory", "connection", "peer">>
Transceivers == [i \in 1..Streams |-> "transceiver"]

StepNames == {Opening[i] : i \in 1..6} \cup {Labels[i] : i \in 1..5}
             \cup {"transceiver", "client"}

\* The number of transceivers is a natural number.
LEMMA StreamsNat == ASSUME configuration \in Configurations PROVE Streams \in Nat
BY CountsAssumption, ConfigurationsAssumption DEF Streams

\* Six steps, a transceiver per stream, five channels, the client.
LEMMA StepsAre ==
  ASSUME configuration \in Configurations
  PROVE  /\ \A n \in 1..6 : Steps[n] = Opening[n]
         /\ \A n \in 7..(6 + Streams) : Steps[n] = "transceiver"
         /\ \A n \in 1..5 : Steps[6 + Streams + n] = Labels[n]
         /\ Steps[12 + Streams] = "client"
<1> DEFINE A == Opening
           B == Transceivers
           L == Labels
           C == <<"client">>
<1>1. Streams \in Nat
  BY StreamsNat
<1>2. A \in Seq(StepNames) /\ Len(A) = 6
  BY DEF Opening, StepNames
<1>3. B \in Seq(StepNames) /\ Len(B) = Streams /\ \A i \in 1..Streams : B[i] = "transceiver"
  <2>1. B \in [1..Streams -> StepNames]
    BY DEF Transceivers, StepNames
  <2>2. B \in Seq(StepNames)
    BY <2>1, <1>1
  <2>3. Len(B) = Streams
    BY <2>1, <2>2, <1>1
  <2> QED
    BY <2>2, <2>3 DEF Transceivers
<1>4. L \in Seq(StepNames) /\ Len(L) = 5
  BY DEF Labels, StepNames
<1>5. C \in Seq(StepNames) /\ Len(C) = 1 /\ C[1] = "client"
  BY DEF StepNames
<1> HIDE DEF A, B, L, C
<1>6. /\ A \o B \in Seq(StepNames) /\ Len(A \o B) = 6 + Streams
      /\ \A i \in 1..(6 + Streams) : (A \o B)[i] = IF i <= 6 THEN A[i] ELSE B[i - 6]
  <2>1. /\ A \o B \in Seq(StepNames) /\ Len(A \o B) = Len(A) + Len(B)
        /\ \A i \in 1..(Len(A) + Len(B)) :
             (A \o B)[i] = IF i <= Len(A) THEN A[i] ELSE B[i - Len(A)]
    BY <1>2, <1>3, ConcatProperties, Zenon
  <2> QED
    BY <2>1, <1>1, <1>2, <1>3
<1>7. /\ (A \o B) \o L \in Seq(StepNames) /\ Len((A \o B) \o L) = 11 + Streams
      /\ \A i \in 1..(11 + Streams) :
           ((A \o B) \o L)[i] = IF i <= 6 + Streams THEN (A \o B)[i] ELSE L[i - (6 + Streams)]
  <2> DEFINE D == A \o B
  <2>1. D \in Seq(StepNames) /\ Len(D) = 6 + Streams
    BY <1>6
  <2> HIDE DEF D
  <2>2. /\ D \o L \in Seq(StepNames) /\ Len(D \o L) = Len(D) + Len(L)
        /\ \A i \in 1..(Len(D) + Len(L)) :
             (D \o L)[i] = IF i <= Len(D) THEN D[i] ELSE L[i - Len(D)]
    BY <2>1, <1>4, ConcatProperties, Zenon
  <2>3. Len(D) + Len(L) = 11 + Streams
    BY <2>1, <1>4, <1>1
  <2>4. /\ D \o L \in Seq(StepNames) /\ Len(D \o L) = 11 + Streams
        /\ \A i \in 1..(11 + Streams) :
             (D \o L)[i] = IF i <= 6 + Streams THEN D[i] ELSE L[i - (6 + Streams)]
    BY <2>1, <2>2, <2>3, Zenon
  <2> QED
    BY <2>4 DEF D
<1>8. \A i \in 1..(12 + Streams) :
           (((A \o B) \o L) \o C)[i] =
             IF i <= 11 + Streams THEN ((A \o B) \o L)[i] ELSE C[i - (11 + Streams)]
  BY <1>1, <1>5, <1>7, ConcatProperties
<1>9. Steps = ((A \o B) \o L) \o C
  BY DEF Steps, A, B, L, C, Opening, Transceivers
<1>a. \A n \in 1..6 : Steps[n] = A[n]
  BY <1>1, <1>6, <1>7, <1>8, <1>9
<1>b. \A n \in 7..(6 + Streams) : Steps[n] = "transceiver"
  BY <1>1, <1>3, <1>6, <1>7, <1>8, <1>9
<1>c. \A n \in 1..5 : Steps[6 + Streams + n] = L[n]
  <2> SUFFICES ASSUME NEW n \in 1..5 PROVE Steps[6 + Streams + n] = L[n]
    OBVIOUS
  <2> DEFINE k == 6 + Streams + n
  <2>1. k \in 1..(12 + Streams) /\ k \in 1..(11 + Streams) /\ ~(k <= 6 + Streams)
        /\ k <= 11 + Streams /\ k - (6 + Streams) = n
    BY <1>1
  <2> HIDE DEF k
  <2>2. Steps[k] = L[k - (6 + Streams)]
    BY <2>1, <1>7, <1>8, <1>9
  <2> QED
    BY <2>1, <2>2 DEF k
<1>d. Steps[12 + Streams] = "client"
  <2> DEFINE k == 12 + Streams
  <2>1. k \in 1..(12 + Streams) /\ ~(k <= 11 + Streams) /\ k - (11 + Streams) = 1
    BY <1>1
  <2> HIDE DEF k
  <2>2. Steps[k] = C[k - (11 + Streams)]
    BY <2>1, <1>8, <1>9
  <2> QED
    BY <2>1, <2>2, <1>5 DEF k
<1> QED
  BY <1>a, <1>b, <1>c, <1>d DEF A, L

\* Which numbers the steps that are treated apart have.
LEMMA StepNumbers ==
  ASSUME configuration \in Configurations, NEW n \in 1..(12 + Streams)
  PROVE  /\ Steps[n] = "count" <=> n = 1
         /\ Steps[n] = "connection" <=> n = 5
         /\ Steps[n] = "transceiver" <=> n \in 7..(6 + Streams)
         /\ Steps[n] = "client" <=> n = 12 + Streams
         /\ n = 3 => Steps[n] = "signalingThread"
<1>1. Streams \in Nat
  BY StreamsNat
<1>2. CASE n \in 1..6
  BY <1>1, <1>2, StepsAre DEF Opening
<1>3. CASE n \in 7..(6 + Streams)
  BY <1>1, <1>3, StepsAre
<1>4. CASE n \in (7 + Streams)..(11 + Streams)
  <2> DEFINE k == n - (6 + Streams)
  <2>1. k \in 1..5 /\ n = 6 + Streams + k
    BY <1>1, <1>4
  <2>2. Steps[n] = Labels[k]
    BY <2>1, StepsAre
  <2>3. Steps[n] \notin {"count", "connection", "transceiver", "client"}
    BY <2>1, <2>2 DEF Labels
  <2> QED
    BY <1>1, <1>4, <2>3
<1>5. CASE n = 12 + Streams
  BY <1>1, <1>5, StepsAre
<1> QED
  BY <1>1, <1>2, <1>3, <1>4, <1>5

-----------------------------------------------------------------------------
(* What the factory has made before step n.                                *)

StreamsAt(n) == IF n <= 7 THEN 0 ELSE IF n <= 7 + Streams THEN n - 7 ELSE Streams

LiveAt(n) == ({Steps[i] : i \in 1..(n - 1)} \ {"count", "transceiver"})
             \cup (IF n > 5 THEN {"connector"} ELSE {})

LabelSet == {Labels[i] : i \in 1..5}

\* The members left when the wrapper of the peer connection is destroyed.
Rest == <<"clientThread", "signalingThread", "connector", "peer">>

\* The five labels, as a set.
LEMMA LabelRange == Range(Labels) = LabelSet
BY DEF Range, Labels, LabelSet

\* Before the last step everything of the session lives, and the factory.
LEMMA LiveAtEnd ==
  ASSUME configuration \in Configurations
  PROVE  LiveAt(12 + Streams) \ {"factory"} = Objects
<1>1. Streams \in Nat
  BY StreamsNat
<1> DEFINE made == {Steps[i] : i \in 1..(11 + Streams)}
<1>2. \A x \in made : x \in Objects \cup {"count", "transceiver", "factory"}
  <2> SUFFICES ASSUME NEW i \in 1..(11 + Streams)
               PROVE  Steps[i] \in Objects \cup {"count", "transceiver", "factory"}
    OBVIOUS
  <2>1. CASE i \in 1..6
    BY <2>1, StepsAre DEF Opening, Objects
  <2>2. CASE i \in 7..(6 + Streams)
    BY <2>2, <1>1, StepsAre
  <2>3. CASE i \in (7 + Streams)..(11 + Streams)
    <3> DEFINE k == i - (6 + Streams)
    <3>1. k \in 1..5 /\ i = 6 + Streams + k
      BY <1>1, <2>3
    <3> QED
      BY <3>1, StepsAre, LabelRange DEF Objects, LabelSet
  <2> QED
    BY <1>1, <2>1, <2>2, <2>3
<1>3. \A k \in 1..6 : Opening[k] \in made
  BY <1>1, StepsAre
<1>4. \A k \in 1..5 : Labels[k] \in made
  <2> SUFFICES ASSUME NEW k \in 1..5 PROVE Labels[k] \in made
    OBVIOUS
  <2>1. 6 + Streams + k \in 1..(11 + Streams)
    BY <1>1
  <2> QED
    BY <2>1, StepsAre
<1>5. {"clientThread", "signalingThread", "connection", "peer"} \subseteq made
  BY <1>3 DEF Opening
<1>6. LabelSet \subseteq made
  BY <1>4 DEF LabelSet
<1>7. LiveAt(12 + Streams) = (made \ {"count", "transceiver"}) \cup {"connector"}
  <2>1. (12 + Streams) - 1 = 11 + Streams /\ 12 + Streams > 5
    BY <1>1
  <2> QED
    BY <2>1 DEF LiveAt
<1>8. Objects = {"clientThread", "signalingThread", "connector", "connection", "peer"}
                 \cup LabelSet
  BY LabelRange DEF Objects
<1>9. \A x \in LabelSet : x \notin {"count", "transceiver", "factory"}
  BY DEF LabelSet, Labels
<1> HIDE DEF made
<1> QED
  BY <1>2, <1>5, <1>6, <1>7, <1>8, <1>9

-----------------------------------------------------------------------------
(* The inductive invariant of creation and destruction.                    *)

ObjectNames == {"clientThread", "signalingThread", "connector", "connection", "peer"}
               \cup LabelSet

Phases == {"creating", "failed", "ready", "closing", "destroying"}
Made == {"ready", "closing", "destroying"}

\* Of the client's objects the first k are left, or of what the wrapper leaves.
LocalsInv ==
  /\ locals \in Seq(ObjectNames)
  /\ \/ /\ Len(locals) \in 2..7
        /\ \A i \in 1..Len(locals) : locals[i] = ClientMembers[i]
        /\ "signalingThread" \in live
     \/ /\ Len(locals) \in 0..4
        /\ \A i \in 1..Len(locals) : locals[i] = Rest[i]
        /\ Len(locals) >= 2 => "signalingThread" \in live

\* The members of the wrapper once the client has been made.
MembersInv ==
  /\ members \in Seq(ObjectNames)
  /\ Len(members) = 3
  /\ \A i \in 1..3 : members[i] = Rest[i + 1]

CreatingInv ==
  phase = "creating" =>
    /\ next \in 1..(12 + Streams)
    /\ streams = StreamsAt(next)
    /\ live = LiveAt(next)
    /\ orphaned = {}
    /\ next > 1 => configuration.video <= MaxVideoStreams
    /\ next > 5 => members = <<"signalingThread", "connector">>

MadeInv ==
  phase \in Made =>
    /\ streams = Streams
    /\ configuration.video <= MaxVideoStreams
    /\ orphaned = {}
    /\ MembersInv
    /\ LocalsInv

SetupInv ==
  /\ configuration \in Configurations
  /\ phase \in Phases
  /\ CreatingInv
  /\ MadeInv
  /\ phase \in {"ready", "closing"} => live = Objects

\* It holds at the start.
LEMMA SetupInit == Init => SetupInv
<1> SUFFICES ASSUME Init PROVE SetupInv
  OBVIOUS
<1>1. Streams \in Nat
  BY StreamsNat DEF Init
<1>2. live = LiveAt(1) /\ streams = StreamsAt(1)
  BY DEF Init, LiveAt, StreamsAt
<1> QED
  BY <1>1, <1>2 DEF Init, SetupInv, CreatingInv, MadeInv, Phases, Made

\* A step of the factory makes what it is to make.
LEMMA CreatePreserves == SetupInv /\ Create => SetupInv'
<1> SUFFICES ASSUME SetupInv, Create PROVE SetupInv'
  OBVIOUS
<1> DEFINE step == Steps[next]
<1>1. /\ configuration \in Configurations /\ phase = "creating" /\ Streams \in Nat
      /\ next \in 1..(12 + Streams) /\ step # "client" /\ next' = next + 1
  BY StreamsNat DEF SetupInv, CreatingInv, Create
<1>2. /\ step = "count" <=> next = 1
      /\ step = "connection" <=> next = 5
      /\ step = "transceiver" <=> next \in 7..(6 + Streams)
      /\ next # 12 + Streams
  BY <1>1, StepNumbers
<1> HIDE DEF step
<1>3. next' \in 1..(12 + Streams)
  BY <1>1, <1>2
<1>4. streams' = StreamsAt(next + 1)
  <2>1. streams = StreamsAt(next)
    BY <1>1 DEF SetupInv, CreatingInv
  <2>2. streams' = IF step = "transceiver" THEN streams + 1 ELSE streams
    BY DEF Create, step
  <2> QED
    BY <1>1, <1>2, <2>1, <2>2 DEF StreamsAt
<1>5. live' = LiveAt(next + 1)
  <2> DEFINE before == {Steps[i] : i \in 1..(next - 1)}
             after == {Steps[i] : i \in 1..next}
  <2>1. after = before \cup {step}
    BY <1>1 DEF step
  <2>2. LiveAt(next + 1) = (after \ {"count", "transceiver"})
                           \cup (IF next + 1 > 5 THEN {"connector"} ELSE {})
    BY <1>1 DEF LiveAt
  <2>3. live = (before \ {"count", "transceiver"})
               \cup (IF next > 5 THEN {"connector"} ELSE {})
    BY <1>1 DEF SetupInv, CreatingInv, LiveAt
  <2>4. live' = CASE step \in {"count", "transceiver"} -> live
                  [] step = "connection" -> live \cup {"connector", "connection"}
                  [] OTHER -> live \cup {step}
    BY DEF Create, step
  <2> HIDE DEF before, after
  <2>5. CASE step \in {"count", "transceiver"}
    BY <1>1, <1>2, <2>1, <2>2, <2>3, <2>4, <2>5
  <2>6. CASE step = "connection"
    BY <1>1, <1>2, <2>1, <2>2, <2>3, <2>4, <2>6
  <2>7. CASE step \notin {"count", "transceiver", "connection"}
    BY <1>1, <1>2, <2>1, <2>2, <2>3, <2>4, <2>7
  <2> QED
    BY <2>5, <2>6, <2>7
<1>6. configuration' = configuration /\ phase' = phase /\ orphaned' = orphaned
  BY DEF Create
<1>7. Streams' = Streams
  BY <1>6 DEF Streams
<1>8. StreamsAt(next)' = StreamsAt(next') /\ LiveAt(next)' = LiveAt(next')
  BY <1>6, <1>7 DEF StreamsAt, LiveAt, Steps
<1>9. configuration.video <= MaxVideoStreams
  <2>1. step = "count" => configuration.video <= MaxVideoStreams
    BY DEF Create, step
  <2> QED
    BY <1>1, <1>2, <2>1 DEF SetupInv, CreatingInv
<1>a. next' > 5 => members' = <<"signalingThread", "connector">>
  <2>1. members' = IF step = "connection" THEN <<"signalingThread", "connector">> ELSE members
    BY DEF Create, step
  <2> QED
    BY <1>1, <1>2, <2>1 DEF SetupInv, CreatingInv
<1>b. CreatingInv'
  <2>1. streams' = StreamsAt(next)' /\ live' = LiveAt(next)'
    BY <1>1, <1>4, <1>5, <1>8
  <2>2. orphaned' = {}
    BY <1>1, <1>6 DEF SetupInv, CreatingInv
  <2> QED
    BY <1>3, <1>6, <1>7, <1>9, <1>a, <2>1, <2>2 DEF CreatingInv
<1> QED
  BY <1>1, <1>6, <1>b DEF SetupInv, MadeInv, Made, Phases

\* The factory's last step leaves a complete client.
LEMMA MakeClientPreserves == SetupInv /\ MakeClient => SetupInv'
<1> SUFFICES ASSUME SetupInv, MakeClient PROVE SetupInv'
  OBVIOUS
<1>1. /\ configuration \in Configurations /\ phase = "creating" /\ Streams \in Nat
      /\ next \in 1..(12 + Streams) /\ Steps[next] = "client"
  BY StreamsNat DEF SetupInv, CreatingInv, MakeClient
<1>2. next = 12 + Streams
  BY <1>1, StepNumbers
<1>3. streams = Streams /\ members = <<"signalingThread", "connector">>
      /\ configuration.video <= MaxVideoStreams
  BY <1>1, <1>2 DEF SetupInv, CreatingInv, StreamsAt
<1>4. live \ {"factory"} = Objects
  BY <1>1, <1>2, LiveAtEnd DEF SetupInv, CreatingInv
<1>5. "signalingThread" \in live
  BY <1>4 DEF Objects
<1>6. orphaned' = {} /\ live' = Objects /\ phase' = "ready"
  BY <1>1, <1>4, <1>5 DEF SetupInv, CreatingInv, MakeClient
<1>7. MembersInv'
  <2> DEFINE m == <<"signalingThread", "connector">>
  <2>1. m \in Seq(ObjectNames) /\ Len(m) = 2 /\ m[1] = Rest[2] /\ m[2] = Rest[3]
    BY DEF ObjectNames, Rest
  <2>2. "peer" \in ObjectNames /\ "peer" = Rest[4]
    BY DEF ObjectNames, Rest
  <2>3. members' = Append(m, "peer")
    BY <1>3 DEF MakeClient
  <2> HIDE DEF m
  <2>4. /\ members' \in Seq(ObjectNames) /\ Len(members') = 3
        /\ \A i \in 1..2 : members'[i] = m[i]
        /\ members'[3] = "peer"
    <3>1. /\ Append(m, "peer") \in Seq(ObjectNames) /\ Len(Append(m, "peer")) = Len(m) + 1
          /\ \A i \in 1..Len(m) : Append(m, "peer")[i] = m[i]
          /\ Append(m, "peer")[Len(m) + 1] = "peer"
      <4> DEFINE p == "peer"
      <4>1. p \in ObjectNames
        BY <2>2
      <4> HIDE DEF p
      <4>2. m \in Seq(ObjectNames)
        BY <2>1
      <4>3. /\ Append(m, p) \in Seq(ObjectNames)
            /\ Append(m, p) # << >>
            /\ Len(Append(m, p)) = Len(m) + 1
            /\ \A i \in 1..Len(m) : Append(m, p)[i] = m[i]
            /\ Append(m, p)[Len(m) + 1] = p
        BY <4>1, <4>2, AppendProperties, Zenon
      <4> QED
        BY <4>3 DEF p
    <3>2. Len(m) = 2
      BY <2>1
    <3> QED
      BY <2>3, <3>1, <3>2
  <2> QED
    BY <2>1, <2>2, <2>4 DEF MembersInv
<1>8. locals' = ClientMembers /\ configuration' = configuration /\ streams' = streams
  BY DEF MakeClient
<1>9. Streams' = Streams
  BY <1>8 DEF Streams
<1>a. LocalsInv'
  <2>1. ClientMembers \in Seq(ObjectNames) /\ Len(ClientMembers) = 7
    BY DEF ClientMembers, ObjectNames, LabelSet, Labels
  <2>2. "signalingThread" \in live'
    BY <1>6 DEF Objects
  <2> QED
    BY <1>8, <2>1, <2>2 DEF LocalsInv, ClientMembers
<1> QED
  BY <1>1, <1>3, <1>6, <1>7, <1>8, <1>9, <1>a DEF SetupInv, CreatingInv, MadeInv, Made, Phases

\* Destroying the last object of the client's scope, or of its wrapper.
LEMMA UnwindPreserves == SetupInv /\ Unwind => SetupInv'
<1> SUFFICES ASSUME SetupInv, Unwind PROVE SetupInv'
  OBVIOUS
<1>1. /\ configuration' = configuration /\ phase' = phase /\ members' = members
      /\ streams' = streams /\ phase \in {"failed", "destroying"}
  BY DEF Unwind
<1>2. Streams' = Streams
  BY <1>1 DEF Streams
<1>3. CASE phase = "failed"
  BY <1>1, <1>3 DEF SetupInv, CreatingInv, MadeInv, Made
<1>4. CASE phase = "destroying"
  <2> DEFINE last == Last(locals)
             k == Len(locals)
  <2>1. /\ orphaned = {} /\ MembersInv /\ LocalsInv
        /\ streams = Streams /\ configuration.video <= MaxVideoStreams
    BY <1>4 DEF SetupInv, MadeInv, Made
  <2>2. /\ locals \in Seq(ObjectNames) /\ locals # <<>> /\ k \in 1..7 /\ last = locals[k]
        /\ Len(locals) = k
    BY <2>1 DEF LocalsInv, Unwind, Last
  <2>3. /\ Front(locals) \in Seq(ObjectNames) /\ Len(Front(locals)) = k - 1
        /\ \A i \in 1..(k - 1) : Front(locals)[i] = locals[i]
    BY <2>2 DEF Front
  <2>4. /\ locals' = IF last = "connection" THEN Front(locals) \o members ELSE Front(locals)
        /\ live' = live \ {last}
        /\ orphaned' = IF last \in OnSignalingThread /\ "signalingThread" \notin live
                       THEN orphaned \cup {last} ELSE orphaned
    BY DEF Unwind
  <2>4a. MembersInv'
    BY <1>1, <2>1 DEF MembersInv
  <2> HIDE DEF k, last
  <2>5. OnSignalingThread = {"factory", "peer"} \cup LabelSet
    BY LabelRange DEF OnSignalingThread
  <2>6. CASE /\ k \in 2..7 /\ \A i \in 1..k : locals[i] = ClientMembers[i]
             /\ "signalingThread" \in live
    <3>1. orphaned' = {}
      BY <2>1, <2>4, <2>6
    <3>2. CASE k = 2
      <4>1. last = "connection" /\ "signalingThread" \in live'
        BY <2>2, <2>4, <2>6, <3>2 DEF ClientMembers, Labels
      <4>2. Front(locals)[1] = "clientThread" /\ Len(Front(locals)) = 1
        BY <2>2, <2>3, <2>6, <3>2 DEF ClientMembers, Labels
      <4>3. members \in Seq(ObjectNames) /\ Len(members) = 3
        BY <2>1 DEF MembersInv
      <4>4. /\ locals' \in Seq(ObjectNames) /\ Len(locals') = 4
            /\ \A i \in 1..4 :
                 locals'[i] = IF i <= 1 THEN Front(locals)[i] ELSE members[i - 1]
        <5> DEFINE F == Front(locals)
        <5>1. F \in Seq(ObjectNames) /\ Len(F) = 1
          BY <2>3, <4>2
        <5> HIDE DEF F
        <5>2. /\ F \o members \in Seq(ObjectNames) /\ Len(F \o members) = Len(F) + Len(members)
              /\ \A i \in 1..(Len(F) + Len(members)) :
                   (F \o members)[i] = IF i <= Len(F) THEN F[i] ELSE members[i - Len(F)]
          BY <5>1, <4>3, ConcatProperties, Zenon
        <5>3. locals' = F \o members
          BY <2>4, <4>1 DEF F
        <5>4. /\ locals' \in Seq(ObjectNames) /\ Len(locals') = 4
              /\ \A i \in 1..4 : locals'[i] = IF i <= 1 THEN F[i] ELSE members[i - 1]
          BY <5>1, <5>2, <5>3, <4>3
        <5> QED
          BY <5>4 DEF F
      <4>5. LocalsInv'
        <5>1. \A i \in 1..4 : locals'[i] = Rest[i]
          <6>1. locals'[1] = Rest[1]
            BY <4>2, <4>4 DEF Rest
          <6>2. \A i \in 2..4 : locals'[i] = Rest[i]
            BY <2>1, <4>4 DEF MembersInv
          <6> QED
            BY <6>1, <6>2
        <5> QED
          BY <4>1, <4>4, <5>1 DEF LocalsInv
      <4> QED
        BY <1>1, <1>2, <1>4, <2>1, <2>4a, <3>1, <4>5 DEF SetupInv, CreatingInv, MadeInv, Made, Phases
    <3>3. CASE k > 2
      <4>1. last # "connection" /\ last # "signalingThread"
        BY <2>2, <2>6, <3>3 DEF ClientMembers, Labels
      <4>2. LocalsInv'
        <5>1. /\ locals' \in Seq(ObjectNames) /\ Len(locals') \in 2..7
              /\ \A i \in 1..Len(locals') : locals'[i] = ClientMembers[i]
          <6> DEFINE F == Front(locals)
          <6>1. locals' = F
            BY <2>4, <4>1
          <6>2. F \in Seq(ObjectNames) /\ Len(F) = k - 1 /\ \A i \in 1..(k - 1) : F[i] = locals[i]
            BY <2>3
          <6> HIDE DEF F
          <6>3. k \in 3..7 /\ Len(F) \in 2..7
            BY <2>2, <3>3, <6>2
          <6>4. \A i \in 1..(k - 1) : F[i] = ClientMembers[i]
            BY <2>6, <6>2, <6>3
          <6>5. \A i \in 1..Len(F) : F[i] = ClientMembers[i]
            BY <6>2, <6>4
          <6> QED
            BY <6>1, <6>2, <6>3, <6>5
        <5>2. "signalingThread" \in live'
          BY <2>4, <2>6, <4>1
        <5> QED
          BY <5>1, <5>2 DEF LocalsInv
      <4> QED
        BY <1>1, <1>2, <1>4, <2>1, <2>4a, <3>1, <4>2 DEF SetupInv, CreatingInv, MadeInv, Made, Phases
    <3> QED
      BY <2>6, <3>2, <3>3
  <2>7. CASE /\ k \in 1..4 /\ \A i \in 1..k : locals[i] = Rest[i]
             /\ k >= 2 => "signalingThread" \in live
    <3>1. last = Rest[k] /\ last # "connection"
      BY <2>2, <2>7 DEF Rest
    <3>2. last \in OnSignalingThread => k = 4
      <4>1. k # 4 => Rest[k] \in {"clientThread", "signalingThread", "connector"}
        BY <2>7 DEF Rest
      <4>2. {"clientThread", "signalingThread", "connector"} \cap OnSignalingThread = {}
        BY <2>5 DEF LabelSet, Labels
      <4> QED
        BY <3>1, <4>1, <4>2
    <3>3. orphaned' = {}
      BY <2>1, <2>4, <2>7, <3>2
    <3>4. k > 2 => last # "signalingThread"
      BY <2>7, <3>1 DEF Rest
    <3>5. LocalsInv'
      <4>1. /\ locals' \in Seq(ObjectNames) /\ Len(locals') \in 0..3 /\ Len(locals') = k - 1
            /\ \A i \in 1..Len(locals') : locals'[i] = Rest[i]
        <5> DEFINE F == Front(locals)
        <5>1. locals' = F
          BY <2>4, <3>1
        <5>2. F \in Seq(ObjectNames) /\ Len(F) = k - 1 /\ \A i \in 1..(k - 1) : F[i] = locals[i]
          BY <2>3
        <5> HIDE DEF F
        <5>3. Len(F) \in 0..3
          BY <2>7, <5>2
        <5>4. \A i \in 1..(k - 1) : F[i] = Rest[i]
          BY <2>7, <5>2
        <5>5. \A i \in 1..Len(F) : F[i] = Rest[i]
          BY <5>2, <5>4
        <5> QED
          BY <5>1, <5>2, <5>3, <5>5
      <4>2. Len(locals') >= 2 => "signalingThread" \in live'
        BY <2>4, <2>7, <3>4, <4>1
      <4> QED
        BY <4>1, <4>2 DEF LocalsInv
    <3> QED
      BY <1>1, <1>2, <1>4, <2>1, <2>4a, <3>3, <3>5 DEF SetupInv, CreatingInv, MadeInv, Made, Phases
  <2> QED
    BY <2>1, <2>2, <2>6, <2>7 DEF LocalsInv
<1> QED
  BY <1>1, <1>3, <1>4

\* The other actions leave what creation made, or only move the phase.
LEMMA OthersPreserve ==
  ASSUME SetupInv, UNCHANGED <<configuration, create>>,
         \/ phase' = phase
         \/ phase = "creating" /\ phase' = "failed"
         \/ phase = "ready" /\ phase' = "closing"
         \/ phase = "closing" /\ phase' = "destroying"
  PROVE  SetupInv'
<1>1. /\ configuration' = configuration /\ next' = next /\ locals' = locals
      /\ members' = members /\ live' = live /\ orphaned' = orphaned /\ streams' = streams
  BY DEF create
<1>2. Streams' = Streams
  BY <1>1 DEF Streams
<1>3. Steps' = Steps
  BY <1>2 DEF Steps
<1>4. StreamsAt(next)' = StreamsAt(next) /\ LiveAt(next)' = LiveAt(next)
  BY <1>1, <1>2, <1>3 DEF StreamsAt, LiveAt
<1>5. MembersInv' = MembersInv /\ LocalsInv' = LocalsInv
  BY <1>1 DEF MembersInv, LocalsInv
<1>6. CreatingInv'
  BY <1>1, <1>2, <1>4 DEF SetupInv, CreatingInv
<1>7. MadeInv'
  BY <1>1, <1>2, <1>5 DEF SetupInv, MadeInv, Made
<1> QED
  BY <1>1, <1>6, <1>7 DEF SetupInv, Phases

\* Every step keeps the invariant of creation and destruction.
LEMMA SetupStep == SetupInv /\ [Next]_vars => SetupInv'
<1> SUFFICES ASSUME SetupInv, [Next]_vars PROVE SetupInv'
  OBVIOUS
<1>1. CASE Create
  BY <1>1, CreatePreserves
<1>2. CASE MakeClient
  BY <1>2, MakeClientPreserves
<1>3. CASE Unwind
  BY <1>3, UnwindPreserves
<1>4. CASE Fail \/ Destroy \/ ClientThreadIdle
  BY <1>4, OthersPreserve DEF Fail, Destroy, ClientThreadIdle
<1>5. CASE Connect \/ LocalDescription \/ EasyInit \/ SetOption \/ EasyPerform
  BY <1>5, OthersPreserve DEF Connect, LocalDescription, EasyInit, SetOption, EasyPerform
<1>6. CASE Connected \/ Answered \/ PerformFails \/ TimedOut
  BY <1>6, OthersPreserve DEF Connected, Answered, PerformFails, TimedOut
<1>7. CASE ParseResponse \/ RemoteDescription
  BY <1>7, OthersPreserve DEF ParseResponse, RemoteDescription
<1>8. CASE UNCHANGED vars
  BY <1>8, OthersPreserve DEF vars
<1> QED
  BY <1>1, <1>2, <1>3, <1>4, <1>5, <1>6, <1>7, <1>8 DEF Next, Program

-----------------------------------------------------------------------------
(* What Connect has done at each of its points.                            *)

\* The result exists once Connect returned, and is OK only with an answer applied.
ConnectInv ==
  /\ remote \in BOOLEAN
  /\ call \in {"none", "offer", "init", "options", "connecting", "transferring", "parse",
               "remote", "returned"}
  /\ call # "none" => phase \in Made
  /\ call = "returned" <=> result # None
  /\ result = "kOk" <=> remote
  /\ call = "remote" => HasAnswer(body)
  /\ remote => HasAnswer(body)

\* An error is an error: never OK, and never no result.
LEMMA ErrorsAre == ASSUME NEW response PROVE ErrorOf(response) \notin {"kOk", None}
<1> DEFINE names == Range(StatusNames) \cup {"kInternal"}
<1>1. None \notin names
  BY NoneAssumption
<1>2. "kInternal" \in names
  OBVIOUS
<1>3. "kUnknown" \in Range(StatusNames)
  <2>1. StatusNames["UNKNOWN"] = "kUnknown" /\ "UNKNOWN" \in DOMAIN StatusNames
    BY DEF StatusNames
  <2> QED
    BY <2>1 DEF Range
<1>4. \A name : GetStatusCodeFromString(name) \in names
  BY <1>3 DEF GetStatusCodeFromString, Range
<1> HIDE DEF names
<1>5. \A code \in names : StatusOr(code) \notin {"kOk", None}
  BY <1>1, <1>2 DEF StatusOr
<1>6. "kUnknown" \notin {"kOk", None}
  BY <1>1, <1>3 DEF names
<1> QED
  BY <1>4, <1>5, <1>6 DEF ErrorOf

\* A name of the status code for OK is in the table, so None is another value.
LEMMA NoneIsNotOk == None # "kOk" /\ None # "kInternal"
<1>1. StatusNames["OK"] = "kOk" /\ "OK" \in DOMAIN StatusNames
  BY DEF StatusNames
<1> QED
  BY <1>1, NoneAssumption DEF Range

\* Nothing has been asked for at the start.
LEMMA ConnectInit == Init => ConnectInv
BY NoneIsNotOk DEF Init, ConnectInv

\* An action of Connect keeps what holds at its points.
LEMMA ConnectStep == SetupInv /\ ConnectInv /\ [Next]_vars => ConnectInv'
<1> SUFFICES ASSUME SetupInv, ConnectInv, [Next]_vars PROVE ConnectInv'
  OBVIOUS
<1>1. None # "kOk" /\ None # "kInternal"
  BY NoneIsNotOk
<1>2. CASE Fail \/ Create
  <2>1. call = "none" /\ ~remote
    BY <1>1, <1>2 DEF Fail, Create, ConnectInv, Made
  <2>2. UNCHANGED <<call, result, remote>>
    BY <1>2 DEF Fail, Create
  <2> QED
    BY <2>1, <2>2 DEF ConnectInv
<1>3. CASE MakeClient \/ Unwind \/ Destroy \/ ClientThreadIdle
  BY <1>3 DEF MakeClient, Unwind, Destroy, ClientThreadIdle, ConnectInv, create, request, Made,
              HasAnswer
<1>4. CASE Connect \/ LocalDescription
  BY <1>1, <1>4 DEF Connect, LocalDescription, ConnectInv, Goto, Return, create, request, Made,
                    HasAnswer
<1>5. CASE EasyInit \/ SetOption \/ EasyPerform
  BY <1>1, <1>5 DEF EasyInit, SetOption, EasyPerform, ConnectInv, Goto, Return, create, Made,
                    HasAnswer
<1>6. CASE Connected \/ PerformFails \/ TimedOut
  BY <1>1, <1>6 DEF Connected, PerformFails, TimedOut, ConnectInv, Goto, Return, create, request,
                    Made, HasAnswer
<1>7. CASE Answered
  <2>1. call = "transferring" /\ call' = "parse" /\ result' = result /\ remote' = remote
        /\ phase' = phase
    BY <1>7 DEF Answered, Goto
  <2>2. ~remote
    BY <1>1, <2>1 DEF ConnectInv
  <2> QED
    BY <2>1, <2>2 DEF ConnectInv, Made
<1>8. CASE ParseResponse
  <2>1. call = "parse" /\ remote' = remote /\ body' = body /\ phase' = phase
        /\ ~remote
    BY <1>1, <1>8 DEF ParseResponse, ConnectInv, request
  <2>2. ErrorOf(body) \notin {"kOk", None}
    BY ErrorsAre
  <2> QED
    BY <1>1, <1>8, <2>1, <2>2 DEF ParseResponse, ConnectInv, Goto, Return, Made, HasAnswer
<1>9. CASE RemoteDescription
  <2>1. call = "remote" /\ body' = body /\ phase' = phase /\ ~remote /\ call' = "returned"
    BY <1>1, <1>9 DEF RemoteDescription, Return, ConnectInv, request
  <2>2. HasAnswer(body)' /\ phase' \in Made
    BY <2>1 DEF ConnectInv, HasAnswer, Made
  <2>3. \/ remote' = TRUE /\ result' = "kOk"
        \/ remote' = FALSE /\ result' = "kInternal"
    BY <2>1, <1>9 DEF RemoteDescription, Return, ConnectInv
  <2> QED
    BY <1>1, <2>1, <2>2, <2>3 DEF ConnectInv
<1>a. CASE UNCHANGED vars
  BY <1>a DEF vars, ConnectInv, create, request, Made, HasAnswer
<1> QED
  BY <1>2, <1>3, <1>4, <1>5, <1>6, <1>7, <1>8, <1>9, <1>a DEF Next, Program

-----------------------------------------------------------------------------
(* The scope while creation goes on or has failed: the wrapper of the       *)
(* connection is in it below the peer connection and the channels, and the  *)
(* wrapper has the signaling thread.                                        *)

Names == StepNames \cup {"connector"}

Early == <<"clientThread", "signalingThread", "factory">>
Wrapped == <<"clientThread", "factory", "connection">>
Unwrapped == <<"clientThread", "factory", "signalingThread", "connector">>

BeforeWrapper ==
  /\ Len(locals) \in 0..3
  /\ \A i \in 1..Len(locals) : locals[i] = Early[i]

WithWrapper ==
  /\ Len(locals) >= 3
  /\ \A i \in 1..3 : locals[i] = Wrapped[i]
  /\ \A i \in 4..Len(locals) : locals[i] \in {"peer"} \cup LabelSet
  /\ "signalingThread" \in live
  /\ members = <<"signalingThread", "connector">>

AfterWrapper ==
  /\ Len(locals) \in 0..4
  /\ \A i \in 1..Len(locals) : locals[i] = Unwrapped[i]

\* The locals before the connection is wrapped.
EarlyLocals ==
  next \in 1..5 => /\ BeforeWrapper
                   /\ Len(locals) = IF next <= 2 THEN 0 ELSE next - 2

ScopeInv ==
  /\ phase \in {"creating", "failed"} =>
       /\ locals \in Seq(Names)
       /\ orphaned \subseteq {"factory"}
       /\ BeforeWrapper \/ WithWrapper \/ AfterWrapper
  /\ phase = "creating" => EarlyLocals /\ (next > 5 => WithWrapper)

\* The scope is empty at the start.
LEMMA ScopeInit == Init => ScopeInv
BY DEF Init, ScopeInv, BeforeWrapper, EarlyLocals

\* The front of a sequence, element by element.
LEMMA FrontElements ==
  ASSUME NEW S, NEW s \in Seq(S), s # <<>>
  PROVE  /\ Front(s) \in Seq(S) /\ Len(Front(s)) = Len(s) - 1 /\ Len(s) \in Nat \ {0}
         /\ \A i \in 1..(Len(s) - 1) : Front(s)[i] = s[i]
         /\ Last(s) = s[Len(s)]
<1>1. Len(s) \in Nat \ {0}
  BY EmptySeq
<1> DEFINE n == Len(s) - 1
           f == SubSeq(s, 1, n)
<1>2. n \in Nat /\ \A i \in 1..n : s[i] \in S
  BY <1>1
<1>3. n \in Int /\ 1 \in Int
  BY <1>2
<1>4. f = Front(s)
  BY DEF Front
<1> HIDE DEF n
<1>5. /\ f \in Seq(S)
      /\ Len(f) = IF 1 <= n THEN n - 1 + 1 ELSE 0
      /\ \A i \in 1..(n - 1 + 1) : f[i] = s[1 + i - 1]
  BY <1>2, <1>3, SubSeqProperties
<1> HIDE DEF f
<1>6. Len(f) = n /\ \A i \in 1..n : f[i] = s[i]
  <2>1. n - 1 + 1 = n /\ \A i \in 1..n : 1 + i - 1 = i
    BY <1>2
  <2>. QED
    BY <1>2, <1>5, <2>1
<1>. QED
  BY <1>1, <1>4, <1>5, <1>6 DEF n, Last

\* The wrapper takes the thread out of the scope.
LEMMA WrapperTakesThread ==
  ASSUME locals \in Seq(Names), Len(locals) = 3, \A i \in 1..3 : locals[i] = Early[i]
  PROVE  /\ RemoveAt(locals, 2) \in Seq(Names) /\ Len(RemoveAt(locals, 2)) = 2
         /\ RemoveAt(locals, 2)[1] = "clientThread" /\ RemoveAt(locals, 2)[2] = "factory"
<1> DEFINE a == SubSeq(locals, 1, 1)
           b == SubSeq(locals, 3, 3)
<1>1. RemoveAt(locals, 2) = a \o b
  BY DEF RemoveAt
<1>2. /\ a \in Seq(Names) /\ Len(a) = IF 1 <= 1 THEN 1 - 1 + 1 ELSE 0
      /\ \A i \in 1..(1 - 1 + 1) : a[i] = locals[1 + i - 1]
  <2>1. \A i \in 1..1 : locals[i] \in Names
    OBVIOUS
  <2>. QED
    BY <2>1, SubSeqProperties
<1>3. /\ b \in Seq(Names) /\ Len(b) = IF 3 <= 3 THEN 3 - 3 + 1 ELSE 0
      /\ \A i \in 1..(3 - 3 + 1) : b[i] = locals[3 + i - 1]
  <2>1. \A i \in 3..3 : locals[i] \in Names
    <3>1. \A i \in 1..Len(locals) : locals[i] \in Names
      BY ElementOfSeq
    <3>. QED
      BY <3>1
  <2>. QED
    BY <2>1, SubSeqProperties
<1> HIDE DEF a, b
<1>4. /\ a \in Seq(Names) /\ Len(a) = 1 /\ a[1] = "clientThread"
      /\ b \in Seq(Names) /\ Len(b) = 1 /\ b[1] = "factory"
  <2>1. a[1] = locals[1] /\ b[1] = locals[3]
    BY <1>2, <1>3
  <2>. QED
    BY <1>2, <1>3, <2>1 DEF Early
<1> DEFINE c == a \o b
<1>5. /\ c \in Seq(Names) /\ Len(c) = Len(a) + Len(b)
      /\ \A i \in 1..(Len(a) + Len(b)) : c[i] = IF i <= Len(a) THEN a[i] ELSE b[i - Len(a)]
  BY <1>4, ConcatProperties
<1> HIDE DEF c
<1>6. Len(c) = 2 /\ c[1] = a[1] /\ c[2] = b[1]
  BY <1>4, <1>5
<1>7. RemoveAt(locals, 2) = c
  BY <1>1 DEF c
<1>. QED
  BY <1>4, <1>5, <1>6, <1>7

\* What a step of the factory makes is put on top of the scope.
LEMMA CreateInScope == SetupInv /\ ScopeInv /\ Create => ScopeInv'
<1> SUFFICES ASSUME SetupInv, ScopeInv, Create PROVE ScopeInv'
  OBVIOUS
<1> DEFINE step == Steps[next]
<1>1. /\ configuration \in Configurations /\ phase = "creating" /\ phase' = "creating"
      /\ Streams \in Nat /\ next \in 1..(12 + Streams) /\ next' = next + 1
      /\ live = LiveAt(next) /\ orphaned' = orphaned /\ step # "client"
      /\ next > 5 => members = <<"signalingThread", "connector">>
  BY StreamsNat DEF SetupInv, CreatingInv, Create
<1>2. /\ step = "count" <=> next = 1
      /\ step = "connection" <=> next = 5
      /\ step = "transceiver" <=> next \in 7..(6 + Streams)
      /\ step = "client" <=> next = 12 + Streams
  BY <1>1, StepNumbers
<1>3. /\ next = 2 => step = "clientThread"
      /\ next = 3 => step = "signalingThread"
      /\ next = 4 => step = "factory"
      /\ next = 6 => step = "peer"
  BY <1>1, StepsAre DEF Opening
<1>4. step \in Names /\ (next \in (7 + Streams)..(11 + Streams) => step \in LabelSet)
  <2>1. CASE next \in 1..6
    BY <2>1, <1>1, StepsAre DEF Names, StepNames
  <2>2. CASE next \in 7..(6 + Streams)
    BY <2>2, <1>1, <1>2 DEF Names, StepNames
  <2>3. CASE next \in (7 + Streams)..(11 + Streams)
    <3> DEFINE k == next - (6 + Streams)
    <3>1. k \in 1..5 /\ next = 6 + Streams + k
      BY <1>1, <2>3
    <3>. QED
      BY <3>1, <1>1, StepsAre DEF Names, StepNames, LabelSet
  <2>. QED
    BY <1>1, <1>2, <2>1, <2>2, <2>3
<1>5. /\ live' = CASE step \in {"count", "transceiver"} -> live
                  [] step = "connection" -> live \cup {"connector", "connection"}
                  [] OTHER -> live \cup {step}
      /\ locals' = CASE step \in {"count", "transceiver"} -> locals
                    [] step = "connection" -> Append(RemoveAt(locals, 2), step)
                    [] OTHER -> Append(locals, step)
      /\ members' = IF step = "connection" THEN <<"signalingThread", "connector">> ELSE members
  BY DEF Create
<1> HIDE DEF step
<1>6. /\ locals \in Seq(Names) /\ orphaned' \subseteq {"factory"} /\ EarlyLocals
      /\ next > 5 => WithWrapper
  BY <1>1 DEF ScopeInv
<1>7. CASE step \in {"count", "transceiver"}
  <2>1. live' = live /\ locals' = locals /\ members' = members
    BY <1>5, <1>7
  <2>2. next = 1 \/ next > 5
    BY <1>1, <1>2, <1>7
  <2>3. CASE next = 1
    BY <1>1, <1>6, <2>1, <2>3 DEF ScopeInv, EarlyLocals, BeforeWrapper
  <2>4. CASE next > 5
    BY <1>1, <1>6, <2>1, <2>4 DEF ScopeInv, EarlyLocals, WithWrapper
  <2>. QED
    BY <2>2, <2>3, <2>4
<1>8. CASE step = "connection"
  <2>1. next = 5 /\ Len(locals) = 3 /\ \A i \in 1..3 : locals[i] = Early[i]
    <3>1. next = 5
      BY <1>2, <1>8
    <3>2. BeforeWrapper /\ Len(locals) = 3
      BY <1>6, <3>1 DEF EarlyLocals
    <3>. QED
      BY <3>1, <3>2 DEF BeforeWrapper
  <2> DEFINE c == RemoveAt(locals, 2)
  <2>2. c \in Seq(Names) /\ Len(c) = 2 /\ c[1] = "clientThread" /\ c[2] = "factory"
    BY <1>6, <2>1, WrapperTakesThread
  <2>3. locals' = Append(c, step) /\ members' = <<"signalingThread", "connector">>
        /\ live \subseteq live'
    BY <1>5, <1>8
  <2> HIDE DEF c
  <2>4. /\ locals' \in Seq(Names) /\ Len(locals') = 3
        /\ \A i \in 1..3 : locals'[i] = Wrapped[i]
    <3>1. step \in Names /\ c \in Seq(Names)
      BY <1>4, <2>2
    <3> DEFINE d == Append(c, step)
    <3>2. /\ d \in Seq(Names) /\ Len(d) = Len(c) + 1
          /\ \A i \in 1..Len(c) : d[i] = c[i]
          /\ d[Len(c) + 1] = step
      BY <3>1, AppendProperties
    <3>3. locals' = d
      BY <2>3
    <3> HIDE DEF d
    <3>4. Len(d) = 3 /\ d[1] = "clientThread" /\ d[2] = "factory" /\ d[3] = "connection"
      BY <1>8, <2>2, <3>2
    <3>5. \A i \in 1..3 : d[i] = Wrapped[i]
      BY <3>4 DEF Wrapped
    <3>. QED
      BY <3>2, <3>3, <3>4, <3>5
  <2>5. "signalingThread" \in live'
    <3>1. Steps[3] = "signalingThread" /\ 3 \in 1..(next - 1)
      BY <1>1, <2>1, StepsAre DEF Opening
    <3>2. "signalingThread" \in live
      BY <1>1, <3>1 DEF LiveAt
    <3>. QED
      BY <2>3, <3>2
  <2>. QED
    BY <1>1, <1>6, <2>1, <2>3, <2>4, <2>5 DEF ScopeInv, WithWrapper, EarlyLocals
<1>9. CASE step \notin {"count", "transceiver", "connection"}
  <2> DEFINE t == Append(locals, step)
  <2>1. live \subseteq live' /\ locals' = t /\ members' = members
    BY <1>5, <1>9
  <2>2. /\ t \in Seq(Names) /\ Len(t) = Len(locals) + 1 /\ Len(locals) \in Nat
        /\ \A i \in 1..Len(locals) : t[i] = locals[i]
        /\ t[Len(locals) + 1] = step
    BY <1>4, <1>6, AppendProperties
  <2> HIDE DEF t
  <2>3. CASE next \in 2..4
    <3>1. Len(locals) = next - 2 /\ \A i \in 1..Len(locals) : locals[i] = Early[i]
      BY <1>6, <2>3 DEF EarlyLocals, BeforeWrapper
    <3>2. step = Early[next - 1]
      BY <1>3, <2>3 DEF Early
    <3>3. Len(t) = next - 1 /\ \A i \in 1..(next - 1) : t[i] = Early[i]
      BY <2>2, <2>3, <3>1, <3>2
    <3>4. BeforeWrapper' /\ Len(locals') = next' - 2
      BY <1>1, <2>1, <2>3, <3>3 DEF BeforeWrapper
    <3>. QED
      BY <1>1, <1>6, <2>1, <2>2, <2>3, <3>4 DEF ScopeInv, EarlyLocals
  <2>4. CASE next > 5
    <3>1. step \in {"peer"} \cup LabelSet
      BY <1>1, <1>2, <1>3, <1>4, <1>9, <2>4
    <3>2. WithWrapper'
      <4>1. WithWrapper
        BY <1>6, <2>4
      <4>2. Len(t) >= 3 /\ \A i \in 1..3 : t[i] = Wrapped[i]
        BY <2>2, <4>1 DEF WithWrapper
      <4>3. \A i \in 4..Len(t) : t[i] \in {"peer"} \cup LabelSet
        <5> TAKE i \in 4..Len(t)
        <5>1. i \in 4..Len(locals) \/ i = Len(locals) + 1
          BY <2>2
        <5>2. i \in 4..Len(locals) => t[i] = locals[i] /\ locals[i] \in {"peer"} \cup LabelSet
          BY <2>2, <4>1 DEF WithWrapper
        <5>. QED
          BY <2>2, <3>1, <5>1, <5>2
      <4>. QED
        BY <2>1, <4>1, <4>2, <4>3 DEF WithWrapper
    <3>. QED
      BY <1>1, <1>6, <2>1, <2>2, <2>4, <3>2 DEF ScopeInv, EarlyLocals
  <2>. QED
    BY <1>1, <1>2, <1>9, <2>3, <2>4
<1>. QED
  BY <1>7, <1>8, <1>9

\* Leaving the scope after a failure: from the top, and then the wrapper's members.
LEMMA UnwindInScope == ScopeInv /\ Unwind => ScopeInv'
<1> SUFFICES ASSUME ScopeInv, Unwind, phase = "failed" PROVE ScopeInv'
  BY DEF ScopeInv, Unwind
<1> DEFINE last == Last(locals)
           front == Front(locals)
           k == Len(locals)
<1>1. /\ locals \in Seq(Names) /\ locals # <<>> /\ orphaned \subseteq {"factory"}
      /\ BeforeWrapper \/ WithWrapper \/ AfterWrapper
  BY DEF ScopeInv, Unwind
<1>2. /\ locals' = IF last = "connection" THEN front \o members ELSE front
      /\ live' = live \ {last} /\ members' = members /\ phase' = "failed"
      /\ orphaned' = IF last \in OnSignalingThread /\ "signalingThread" \notin live
                     THEN orphaned \cup {last} ELSE orphaned
  BY DEF Unwind
<1>3. /\ front \in Seq(Names) /\ Len(front) = k - 1 /\ k \in Nat \ {0} /\ last = locals[k]
      /\ \A i \in 1..(k - 1) : front[i] = locals[i]
  BY <1>1, FrontElements
<1>4. OnSignalingThread = {"factory", "peer"} \cup LabelSet
  BY LabelRange DEF OnSignalingThread
<1>5. \A x \in LabelSet : x \notin {"clientThread", "signalingThread", "connector", "connection"}
  BY DEF LabelSet, Labels
<1> HIDE DEF last, front
<1>6. CASE BeforeWrapper
  <2>1. last \in {"clientThread", "signalingThread", "factory"}
    BY <1>3, <1>6 DEF BeforeWrapper, Early
  <2>2. orphaned' \subseteq {"factory"}
    BY <1>1, <1>2, <1>4, <1>5, <2>1
  <2>3. locals' = front
    BY <1>2, <2>1
  <2>4. Len(front) \in 0..3 /\ \A i \in 1..Len(front) : front[i] = Early[i]
    <3>1. k \in 0..3 /\ \A i \in 1..k : locals[i] = Early[i]
      BY <1>6 DEF BeforeWrapper
    <3>. QED
      BY <1>3, <3>1
  <2>5. BeforeWrapper'
    BY <2>3, <2>4 DEF BeforeWrapper, Early
  <2>. QED
    BY <1>2, <1>3, <2>2, <2>3, <2>5 DEF ScopeInv
<1>7. CASE WithWrapper /\ k > 3
  <2>1. last \in {"peer"} \cup LabelSet
    BY <1>3, <1>7 DEF WithWrapper
  <2>2. orphaned' = orphaned /\ locals' = front /\ "signalingThread" \in live'
    BY <1>2, <1>5, <1>7, <2>1 DEF WithWrapper
  <2>3. WithWrapper'
    <3>1. Len(front) >= 3 /\ \A i \in 1..3 : front[i] = Wrapped[i]
      BY <1>3, <1>7 DEF WithWrapper
    <3>2. \A i \in 4..Len(front) : front[i] \in {"peer"} \cup LabelSet
      BY <1>3, <1>7 DEF WithWrapper
    <3>. QED
      BY <1>2, <1>7, <2>2, <3>1, <3>2 DEF WithWrapper
  <2>. QED
    BY <1>1, <1>2, <1>3, <2>2, <2>3 DEF ScopeInv
<1>8. CASE WithWrapper /\ k = 3
  <2>1. last = "connection" /\ front[1] = "clientThread" /\ front[2] = "factory" /\ Len(front) = 2
    BY <1>3, <1>8 DEF WithWrapper, Wrapped
  <2>2. orphaned' = orphaned /\ locals' = front \o members
    BY <1>2, <1>8, <2>1 DEF WithWrapper
  <2>3. /\ members \in Seq(Names) /\ Len(members) = 2
        /\ members[1] = "signalingThread" /\ members[2] = "connector"
    <3>1. "signalingThread" \in Names /\ "connector" \in Names
      <4>1. Opening[3] \in Names
        BY DEF Names, StepNames
      <4>. QED
        BY <4>1 DEF Opening, Names
    <3>. QED
      BY <1>8, <3>1 DEF WithWrapper
  <2>4. /\ front \o members \in Seq(Names) /\ Len(front \o members) = Len(front) + Len(members)
        /\ \A i \in 1..(Len(front) + Len(members)) :
             (front \o members)[i] = IF i <= Len(front) THEN front[i] ELSE members[i - Len(front)]
    BY <1>3, <2>3, ConcatProperties
  <2> DEFINE c == front \o members
  <2>5. /\ c \in Seq(Names) /\ Len(c) = 4
        /\ \A i \in 1..4 : c[i] = IF i <= 2 THEN front[i] ELSE members[i - 2]
    BY <2>1, <2>3, <2>4
  <2> HIDE DEF c
  <2>6. c[1] = front[1] /\ c[2] = front[2] /\ c[3] = members[1] /\ c[4] = members[2]
    BY <2>5
  <2>7. \A i \in 1..4 : c[i] = Unwrapped[i]
    BY <2>1, <2>3, <2>6 DEF Unwrapped
  <2>8. locals' = c
    BY <2>2 DEF c
  <2>9. AfterWrapper'
    <3>1. Len(c) \in 0..4 /\ \A i \in 1..Len(c) : c[i] = Unwrapped[i]
      BY <2>5, <2>7
    <3>. QED
      BY <2>8, <3>1 DEF AfterWrapper, Unwrapped
  <2>. QED
    BY <1>1, <1>2, <2>2, <2>5, <2>8, <2>9 DEF ScopeInv
<1>9. CASE AfterWrapper
  <2>1. last \in {"clientThread", "signalingThread", "factory", "connector"}
    BY <1>3, <1>9 DEF AfterWrapper, Unwrapped
  <2>2. orphaned' \subseteq {"factory"}
    BY <1>1, <1>2, <1>4, <1>5, <2>1
  <2>3. locals' = front
    BY <1>2, <2>1
  <2>4. Len(front) \in 0..4 /\ \A i \in 1..Len(front) : front[i] = Unwrapped[i]
    <3>1. k \in 0..4 /\ \A i \in 1..k : locals[i] = Unwrapped[i]
      BY <1>9 DEF AfterWrapper
    <3>. QED
      BY <1>3, <3>1
  <2>5. AfterWrapper'
    BY <2>3, <2>4 DEF AfterWrapper, Unwrapped
  <2>. QED
    BY <1>2, <1>3, <2>2, <2>3, <2>5 DEF ScopeInv
<1>. QED
  BY <1>1, <1>3, <1>6, <1>7, <1>8, <1>9 DEF WithWrapper

\* Every step keeps the scope's order.
LEMMA ScopeStep == SetupInv /\ ScopeInv /\ [Next]_vars => ScopeInv'
<1> SUFFICES ASSUME SetupInv, ScopeInv, [Next]_vars PROVE ScopeInv'
  OBVIOUS
<1>1. CASE Create
  BY <1>1, CreateInScope
<1>2. CASE MakeClient
  BY <1>2 DEF MakeClient, ScopeInv
<1>3. CASE Unwind
  BY <1>3, UnwindInScope
<1>4. ASSUME UNCHANGED create,
             phase' \in {"creating", "failed"} => phase' = phase \/ phase = "creating",
             phase' = "creating" => phase = "creating"
      PROVE  ScopeInv'
  <2>1. UNCHANGED <<next, locals, members, live, orphaned>>
    BY <1>4 DEF create
  <2>. QED
    BY <1>4, <2>1 DEF ScopeInv, EarlyLocals, BeforeWrapper, WithWrapper, AfterWrapper
<1>5. CASE Fail \/ Destroy \/ ClientThreadIdle
  BY <1>4, <1>5 DEF Fail, Destroy, ClientThreadIdle
<1>6. CASE Connect \/ LocalDescription \/ EasyInit \/ SetOption \/ EasyPerform
  BY <1>4, <1>6 DEF Connect, LocalDescription, EasyInit, SetOption, EasyPerform
<1>7. CASE Connected \/ Answered \/ PerformFails \/ TimedOut
  BY <1>4, <1>7 DEF Connected, Answered, PerformFails, TimedOut
<1>8. CASE ParseResponse \/ RemoteDescription
  BY <1>4, <1>8 DEF ParseResponse, RemoteDescription
<1>9. CASE UNCHANGED vars
  BY <1>4, <1>9 DEF vars
<1>. QED
  BY <1>1, <1>2, <1>3, <1>5, <1>6, <1>7, <1>8, <1>9 DEF Next, Program

-----------------------------------------------------------------------------
(* The theorems.                                                           *)

\* In every behaviour both invariants hold.
LEMMA Inductive == Spec => [](SetupInv /\ ConnectInv)
<1>1. Init => SetupInv /\ ConnectInv
  BY SetupInit, ConnectInit
<1>2. SetupInv /\ ConnectInv /\ [Next]_vars => (SetupInv /\ ConnectInv)'
  BY SetupStep, ConnectStep
<1> QED
  BY <1>1, <1>2, PTL DEF Spec

\* A client that CreateMediaApiClient returned has its threads, connection and
\* channels and the streams its configuration asks for.
THEOREM ClientSafe == Spec => []ClientIsComplete
<1>1. SetupInv => ClientIsComplete
  BY DEF SetupInv, MadeInv, Made, ClientIsComplete
<1> QED
  BY <1>1, Inductive, PTL

\* Destroying a client, or what there is of it when creation fails, destroys the
\* peer connection and its channels before their signaling thread.
THEOREM TeardownSafe == Spec => []TeardownOnItsThread
<1>1. Init => SetupInv /\ ScopeInv
  BY SetupInit, ScopeInit
<1>2. SetupInv /\ ScopeInv /\ [Next]_vars => (SetupInv /\ ScopeInv)'
  BY SetupStep, ScopeStep
<1>3. SetupInv /\ ScopeInv => TeardownOnItsThread
  BY DEF SetupInv, CreatingInv, MadeInv, ScopeInv, Made, Phases, TeardownOnItsThread
<1> QED
  BY <1>1, <1>2, <1>3, PTL DEF Spec

\* Connect's OK means that an answer was parsed and applied.
THEOREM OkSafe == Spec => []OkMeansConnected
<1>1. ConnectInv => OkMeansConnected
  BY DEF ConnectInv, OkMeansConnected
<1> QED
  BY <1>1, Inductive, PTL

\* curl's handle and header list are held exactly while they are needed.
THEOREM CurlSafe == Spec => []CurlIsReleased
<1>1. Init => CurlIsReleased
  BY DEF Init, CurlIsReleased
<1>2. CurlIsReleased /\ [Next]_vars => CurlIsReleased'
  <2> SUFFICES ASSUME CurlIsReleased, [Next]_vars PROVE CurlIsReleased'
    OBVIOUS
  <2>1. CASE Fail \/ Create \/ MakeClient \/ Unwind \/ Destroy \/ ClientThreadIdle
    BY <2>1 DEF Fail, Create, MakeClient, Unwind, Destroy, ClientThreadIdle, request,
                CurlIsReleased
  <2>2. CASE Connect \/ LocalDescription \/ EasyInit \/ SetOption \/ EasyPerform
    BY <2>2 DEF Connect, LocalDescription, EasyInit, SetOption, EasyPerform, Goto, Return,
                Cleanup, request, CurlIsReleased
  <2>3. CASE Connected \/ Answered \/ PerformFails \/ TimedOut
    BY <2>3 DEF Connected, Answered, PerformFails, TimedOut, Goto, Return, Cleanup, request,
                CurlIsReleased
  <2>4. CASE ParseResponse \/ RemoteDescription
    BY <2>4 DEF ParseResponse, RemoteDescription, Goto, Return, request, CurlIsReleased
  <2>5. CASE UNCHANGED vars
    BY <2>5 DEF vars, request, CurlIsReleased
  <2> QED
    BY <2>1, <2>2, <2>3, <2>4, <2>5 DEF Next, Program
<1> QED
  BY <1>1, <1>2, PTL DEF Spec

=============================================================================
