--------------------------- MODULE PublicTools_proofs ---------------------------
(* Theorems about the public tools: the HTTP gateway (PublicDirectGateway), for   *)
(* every length of a transcript and of a surface, and the state directory         *)
(* (PublicAdult), for every set of shells and however many contacts and births.   *)
EXTENDS PublicDirectGateway, PublicAdult, SequenceTheorems, TLAPS

-----------------------------------------------------------------------------
(* The gateway: contacts.                                                       *)

\* What was delivered was said, lies behind the boundary, and is in order.
DeliveryInv ==
  /\ said \in Nat /\ boundary \in Nat /\ delivered \in Seq(Nat)
  /\ \A i \in 1 .. Len(delivered) : delivered[i] <= boundary
  /\ Increasing(delivered)

-----------------------------------------------------------------------------
(* The gateway: motor events and surfaces.                                      *)

Message == [trajectory: Nat, cursor: Nat]

\* The adult emits n after m: a later trajectory, or further in the same one.
After(m, n) ==
  m.trajectory < n.trajectory \/ (m.trajectory = n.trajectory /\ m.cursor < n.cursor)

Prefix(t, n) == [b \in 1 .. n |-> [trajectory |-> t, cursor |-> b - 1]]

WireType ==
  /\ emitting \in Message /\ emitting.cursor < SurfaceBytes
  /\ wire \in Seq(Message)
  /\ surface \in [active: Nat, next: Nat, bytes: Seq(Message)]
  /\ outputs \in Seq(Seq(Message))
  /\ answers \in Seq([contact: Nat, surface: Seq(Message)])
  /\ waiting \in Nat /\ said \in Nat

\* The lines of trajectories among those not read yet.
Lines(w) == {w[i] : i \in {j \in 1 .. Len(w) : w[j].trajectory # 0}}

Ordered(w) ==
  \A i, j \in 1 .. Len(w) :
    i < j /\ w[i].trajectory # 0 /\ w[j].trajectory # 0 => After(w[i], w[j])

\* The lines of trajectories are read in the order they were emitted.
InWire(e, w) ==
  /\ \A m \in Lines(w) : m.cursor < SurfaceBytes /\ (m = e \/ After(m, e))
  /\ Ordered(w)

\* The bytes gathered so far are a prefix of one trajectory; what is still to be
\* read of any trajectory was emitted after them.
Gathered(g) == [trajectory |-> g.active, cursor |-> g.next - 1]

Gather(e, g, w) ==
  IF g.active = 0 THEN g.bytes = <<>>
  ELSE /\ g.next \in 1 .. SurfaceBytes - 1
       /\ g.bytes = Prefix(g.active, g.next)
       /\ Gathered(g) = e \/ After(Gathered(g), e)
       /\ \A m \in Lines(w) : After(Gathered(g), m)

Of(s) == s[1].trajectory

\* A surface that is out is one whole trajectory, which the adult left behind:
\* whatever is gathered, to be read or to be emitted is of a later one.
Out(s, e, g, w) ==
  /\ s = Prefix(Of(s), SurfaceBytes) /\ Of(s) \in Nat \ {0}
  /\ Of(s) < e.trajectory \/ (Of(s) = e.trajectory /\ e.cursor = SurfaceBytes - 1)
  /\ g.active # 0 => Of(s) < g.active
  /\ \A m \in Lines(w) : Of(s) < m.trajectory

AllOut ==
  /\ \A i \in 1 .. Len(outputs) :
       outputs[i] # <<>> => Out(outputs[i], emitting, surface, wire)
  /\ \A i \in 1 .. Len(answers) :
       answers[i].surface # <<>> => Out(answers[i].surface, emitting, surface, wire)

Below(s, u) == s # <<>> /\ u # <<>> => Of(s) < Of(u)

SpokenInOrder ==
  /\ \A i, j \in 1 .. Len(outputs) : i < j => Below(outputs[i], outputs[j])
  /\ \A i, j \in 1 .. Len(answers) : i < j => Below(answers[i].surface, answers[j].surface)
  /\ \A i \in 1 .. Len(answers), j \in 1 .. Len(outputs) :
       Below(answers[i].surface, outputs[j])

SurfaceInv ==
  /\ WireType
  /\ InWire(emitting, wire) /\ Gather(emitting, surface, wire)
  /\ AllOut /\ SpokenInOrder

-----------------------------------------------------------------------------
(* The state directory.                                                         *)

Steps == {"out", "launcher", "session", "terminal", "unlinking", "unlinked", "born", "written"}

Adult == [birth: Nat, contacts: Seq(Nat)]

\* None, or one of them.
Maybe(S) == {<<>>} \union {<<x>> : x \in S}

\* Nothing is asked of busy: whatever a gateway owes, the claims are the same.
PublicType ==
  /\ shell \in [Shell -> Steps]
  /\ writer \in [Shell -> Maybe(Adult)]
  /\ disk \in [checkpoint: Maybe(Adult), provenance: Maybe(Nat)]
  /\ heard \in Nat /\ births \in Nat /\ orphaned \in BOOLEAN

\* The lock: at most one shell is inside.
OneInside == \A s, q \in Shell : shell[s] # "out" /\ shell[q] # "out" => s = q

\* Until a launcher was killed, a writer is the session of the shell inside.
WriterInside == \A s \in Shell : writer[s] # <<>> => shell[s] \in {"session", "terminal"}

\* What each step of a build has left on disk.
BuildLeft ==
  \A s \in Shell :
    /\ shell[s] \in {"unlinked", "born"} => disk.checkpoint = <<>>
    /\ shell[s] \in {"born", "written"} => disk.provenance = <<>>
    /\ shell[s] = "written" => disk.checkpoint # <<>> /\ disk.checkpoint[1].birth = births

DirectoryInv ==
  /\ PublicType /\ OneInside
  /\ ~orphaned => WriterInside /\ BuildLeft
  /\ WriterExtendsSaved /\ ProvenanceMatches

-----------------------------------------------------------------------------
(* Deliveries.                                                                  *)

LEMMA DeliveryStep ==
  ASSUME DeliveryInv, [GatewayNext]_gatewayVars
  PROVE  DeliveryInv'
<1>. USE DEF DeliveryInv
<1>1. ASSUME NEW n \in {1, 2}, Speak(n)
      PROVE  DeliveryInv'
  BY <1>1 DEF Speak, Increasing
<1>2. CASE PostContact
  <2>1. /\ delivered' = Append(delivered, said) /\ boundary' = said /\ said' = said
        /\ said = boundary + 1
    BY <1>2 DEF PostContact, Seen
  <2>2. /\ delivered' \in Seq(Nat) /\ Len(delivered') = Len(delivered) + 1
        /\ delivered'[Len(delivered) + 1] = said
        /\ \A i \in 1 .. Len(delivered) : delivered'[i] = delivered[i] /\ delivered[i] \in Nat
        /\ DOMAIN delivered = 1 .. Len(delivered) /\ DOMAIN delivered' = 1 .. Len(delivered')
        /\ Len(delivered) \in Nat
    BY <2>1
  <2>3. \A i \in 1 .. Len(delivered') : delivered'[i] <= boundary'
    BY <2>1, <2>2
  <2>4. Increasing(delivered')
    <3>. SUFFICES ASSUME NEW i \in 1 .. Len(delivered'), NEW j \in 1 .. Len(delivered'), i < j
                  PROVE  delivered'[i] < delivered'[j]
      BY <2>2 DEF Increasing
    <3>1. CASE j = Len(delivered) + 1
      BY <2>1, <2>2, <3>1
    <3>2. CASE j # Len(delivered) + 1
      <4>1. i \in 1 .. Len(delivered) /\ j \in 1 .. Len(delivered)
        <5>1. Len(delivered) \in Nat /\ i \in 1 .. Len(delivered) + 1 /\ j \in 1 .. Len(delivered) + 1
          BY <2>2
        <5>. QED BY ONLY <3>2, <5>1, i < j
      <4>2. delivered[i] < delivered[j]
        BY <2>2, <4>1 DEF Increasing
      <4>. QED BY <2>2, <4>1, <4>2
    <3>. QED BY <3>1, <3>2
  <2>. QED BY <2>1, <2>2, <2>3, <2>4
<1>3. CASE PostMany
  BY <1>3 DEF PostMany, Seen, Increasing
<1>4. CASE UNCHANGED <<said, boundary, delivered>>
  BY <1>4 DEF Increasing
<1>5. ASSUME GatewayNext, ~(\E n \in {1, 2} : Speak(n)), ~PostContact, ~PostMany
      PROVE  UNCHANGED <<said, boundary, delivered>>
  BY <1>5 DEF GatewayNext, Answer, AnswerSilence, EmitFirst, EmitNext, Emit, EmitStray,
     PumpMotor, PumpFails
<1>6. CASE UNCHANGED gatewayVars
  BY <1>4, <1>6 DEF gatewayVars
<1>. QED BY <1>1, <1>2, <1>3, <1>4, <1>5, <1>6

\* do_POST moves the boundary past a contact before the contact is written, so no
\* retry of a transcript writes it to the adult again.
THEOREM ContactsAreDeliveredOnce == GatewaySpec => []DeliveredOnce
<1>1. GatewayInit => DeliveryInv
  BY DEF GatewayInit, DeliveryInv, Increasing
<1>2. DeliveryInv /\ [GatewayNext]_gatewayVars => DeliveryInv'
  BY DeliveryStep
<1>3. DeliveryInv => DeliveredOnce
  BY DEF DeliveryInv, DeliveredOnce
<1>. QED BY <1>1, <1>2, <1>3, PTL DEF GatewaySpec

-----------------------------------------------------------------------------
(* The state directory.                                                         *)

LEMMA OneOf ==
  ASSUME NEW S, NEW x \in Maybe(S), x # <<>>
  PROVE  x = <<x[1]>> /\ x[1] \in S
BY DEF Maybe

LEMMA MaybeForms ==
  ASSUME NEW S, NEW x \in S
  PROVE  <<>> \in Maybe(S) /\ <<x>> \in Maybe(S) /\ <<x>> # <<>> /\ <<x>>[1] = x
BY DEF Maybe

LEMMA PrefixItself ==
  ASSUME NEW s \in Seq(Nat)
  PROVE  IsPrefix(s, s)
BY DEF IsPrefix

\* What is a prefix of what was lived stays one as more is lived.
LEMMA PrefixLivesOn ==
  ASSUME NEW s \in Seq(Nat), NEW t \in Seq(Nat), NEW n \in Nat, IsPrefix(s, t)
  PROVE  IsPrefix(s, Append(t, n))
<1>. DEFINE u == Append(t, n)
<1>1. /\ u \in Seq(Nat) /\ Len(u) = Len(t) + 1 /\ Len(s) \in Nat /\ Len(t) \in Nat
      /\ \A i \in 1 .. Len(t) : u[i] = t[i]
  OBVIOUS
<1>2. Len(s) <= Len(t) /\ SubSeq(s, 1, Len(s)) = SubSeq(t, 1, Len(s))
  BY DEF IsPrefix
<1>. HIDE DEF u
<1>3. SubSeq(t, 1, Len(s)) = SubSeq(u, 1, Len(s))
  BY <1>1, <1>2
<1>. QED BY <1>1, <1>2, <1>3 DEF IsPrefix, u

\* Who holds the lock is alone, so a build meets no writer and a writer no build.
LEMMA Alone ==
  ASSUME DirectoryInv, ~orphaned, NEW s \in Shell, shell[s] # "out"
  PROVE  /\ \A q \in Shell : q # s => shell[q] = "out" /\ writer[q] = <<>>
         /\ shell[s] \notin {"session", "terminal"} => writer[s] = <<>>
BY DEF DirectoryInv, OneInside, WriterInside

LEMMA DirectoryInit == PublicInit => DirectoryInv
<1>. SUFFICES ASSUME PublicInit PROVE DirectoryInv
  OBVIOUS
<1>1. PublicType
  <2>1. <<>> \in Maybe(Adult) /\ <<>> \in Maybe(Nat)
    BY DEF Maybe
  <2>. QED BY <2>1 DEF PublicInit, PublicType, Steps
<1>. QED BY <1>1 DEF PublicInit, DirectoryInv, OneInside, WriterInside, BuildLeft,
     WriterExtendsSaved, ProvenanceMatches

\* A shell enters only when all are out, and otherwise only the one inside moves.
LEMMA LockKeeps ==
  ASSUME PublicType, OneInside, PublicNext
  PROVE  shell' \in [Shell -> Steps] /\ OneInside'
<1>1. PICK s \in Shell :
        \/ Launch(s) \/ SpawnGateway(s) \/ BecomeTerminal(s)
        \/ Heard(s) \/ Saves(s) \/ Unsaved(s)
        \/ EndSession(s) \/ EndTerminal(s)
        \/ KillLauncher(s) \/ KillTerminal(s) \/ KillGateway(s)
        \/ Build(s, TRUE) \/ Build(s, FALSE)
        \/ UnlinkCheckpoint(s) \/ UnlinkProvenance(s) \/ WriteCheckpoint(s)
        \/ WriteProvenance(s) \/ KillBuild(s)
  BY DEF PublicNext
<1>2. \/ shell' = shell
      \/ \E step \in Steps : shell' = [shell EXCEPT ![s] = step]
           /\ (shell[s] # "out" \/ \A q \in Shell : shell[q] = "out")
  BY <1>1 DEF Launch, SpawnGateway, BecomeTerminal, Heard, Saves, Unsaved, EndSession,
     EndTerminal, KillLauncher, KillTerminal, KillGateway, Build, UnlinkCheckpoint,
     UnlinkProvenance, WriteCheckpoint, WriteProvenance, KillBuild, Locks, Leaves, Steps
<1>3. CASE shell' = shell
  BY <1>3 DEF PublicType, OneInside
<1>4. ASSUME NEW step \in Steps, shell' = [shell EXCEPT ![s] = step],
             shell[s] # "out" \/ \A q \in Shell : shell[q] = "out"
      PROVE  shell' \in [Shell -> Steps] /\ OneInside'
  BY <1>4 DEF PublicType, OneInside
<1>. QED BY <1>2, <1>3, <1>4

LEMMA LaunchKeeps ==
  ASSUME DirectoryInv, NEW s \in Shell, Launch(s)
  PROVE  PublicType' /\ (~orphaned' => WriterInside' /\ BuildLeft')
         /\ WriterExtendsSaved' /\ ProvenanceMatches'
BY DEF Launch, Locks, DirectoryInv, PublicType, Steps, WriterInside, BuildLeft,
   WriterExtendsSaved, ProvenanceMatches

\* The gateway, or the terminal, has in memory what it has just loaded.
LEMMA LoadKeeps ==
  ASSUME DirectoryInv, NEW s \in Shell, SpawnGateway(s) \/ BecomeTerminal(s)
  PROVE  PublicType' /\ (~orphaned' => WriterInside' /\ BuildLeft')
         /\ WriterExtendsSaved' /\ ProvenanceMatches'
<1>1. PICK step \in {"session", "terminal"} : shell' = [shell EXCEPT ![s] = step]
  BY DEF SpawnGateway, BecomeTerminal
<1>2. /\ writer' = [writer EXCEPT ![s] = disk.checkpoint]
      /\ UNCHANGED <<disk, heard, births, orphaned>>
      /\ shell[s] = "launcher"
  BY DEF SpawnGateway, BecomeTerminal
<1>3. PublicType'
  BY <1>1, <1>2 DEF DirectoryInv, PublicType, Steps
<1>4. WriterExtendsSaved'
  <2>1. disk.checkpoint # <<>> =>
          IsPrefix(disk.checkpoint[1].contacts, disk.checkpoint[1].contacts)
    <3>. SUFFICES ASSUME disk.checkpoint # <<>>
                  PROVE  IsPrefix(disk.checkpoint[1].contacts, disk.checkpoint[1].contacts)
      OBVIOUS
    <3>1. disk.checkpoint \in Maybe(Adult)
      BY DEF DirectoryInv, PublicType
    <3>2. disk.checkpoint[1] \in Adult
      BY <3>1, OneOf
    <3>3. disk.checkpoint[1].contacts \in Seq(Nat)
      BY <3>2 DEF Adult
    <3>. QED BY <3>3, PrefixItself
  <2>. QED BY <1>2, <2>1 DEF DirectoryInv, PublicType, WriterExtendsSaved
<1>. QED BY <1>1, <1>2, <1>3, <1>4 DEF DirectoryInv, PublicType, Steps, WriterInside, BuildLeft,
     ProvenanceMatches

\* A contact is lived in memory: the adult stays the one that was born, and what
\* the file holds stays a prefix of what it has lived.
LEMMA HeardKeeps ==
  ASSUME DirectoryInv, NEW s \in Shell, Heard(s)
  PROVE  PublicType' /\ (~orphaned' => WriterInside' /\ BuildLeft')
         /\ WriterExtendsSaved' /\ ProvenanceMatches'
<1>. DEFINE a == writer[s][1]
            b == [a EXCEPT !.contacts = Append(@, heard + 1)]
<1>1. /\ writer[s] # <<>> /\ writer \in [Shell -> Maybe(Adult)]
      /\ disk \in [checkpoint: Maybe(Adult), provenance: Maybe(Nat)] /\ heard \in Nat
  BY DEF Heard, DirectoryInv, PublicType
<1>2. writer[s] = <<a>> /\ a \in Adult
  BY <1>1, OneOf
<1>3. heard + 1 \in Nat /\ a.contacts \in Seq(Nat)
  BY <1>1, <1>2 DEF Adult
<1>4. b \in Adult /\ b.birth = a.birth /\ b.contacts = Append(a.contacts, heard + 1)
  <2>1. Append(a.contacts, heard + 1) \in Seq(Nat)
    BY <1>3
  <2>. HIDE DEF a
  <2>2. b = [a EXCEPT !.contacts = Append(a.contacts, heard + 1)]
    OBVIOUS
  <2>. HIDE DEF b
  <2>. QED BY <1>2, <2>1, <2>2 DEF Adult
<1>5. writer' = [writer EXCEPT ![s] = <<b>>]
  <2>1. writer' = [writer EXCEPT ![s][1].contacts = Append(@, heard + 1)]
    BY DEF Heard
  <2>2. writer' = [writer EXCEPT ![s] = [writer[s] EXCEPT ![1] = b]]
    BY ONLY <2>1, <1>1 DEF a, b
  <2>3. [writer[s] EXCEPT ![1] = b] = <<b>>
    <3>1. writer[s] = <<a>>
      BY <1>2
    <3>. HIDE DEF a, b
    <3>. QED BY ONLY <3>1
  <2>. QED BY <2>2, <2>3
<1>6. UNCHANGED <<shell, disk, births, orphaned>> /\ heard' = heard + 1
  BY DEF Heard
<1>. HIDE DEF b
<1>7. /\ writer'[s] = <<b>> /\ <<b>> \in Maybe(Adult) /\ <<b>> # <<>> /\ <<b>>[1] = b
      /\ \A q \in Shell : q # s => writer'[q] = writer[q]
  BY <1>1, <1>4, <1>5, MaybeForms
<1>8. PublicType'
  BY <1>1, <1>3, <1>5, <1>6, <1>7 DEF DirectoryInv, PublicType
<1>9. ~orphaned' => WriterInside' /\ BuildLeft'
  BY <1>1, <1>6, <1>7 DEF DirectoryInv, WriterInside, BuildLeft
<1>10. WriterExtendsSaved'
  <2>. SUFFICES ASSUME ~orphaned PROVE WriterExtendsSaved'
    BY <1>6 DEF WriterExtendsSaved
  <2>1. /\ disk.checkpoint # <<>> /\ a.birth = disk.checkpoint[1].birth
        /\ IsPrefix(disk.checkpoint[1].contacts, a.contacts)
    BY <1>1 DEF DirectoryInv, WriterExtendsSaved
  <2>2. disk.checkpoint[1].contacts \in Seq(Nat)
    <3>1. disk.checkpoint[1] \in Adult
      BY <1>1, <2>1, OneOf
    <3>. QED BY <3>1 DEF Adult
  <2>3. IsPrefix(disk.checkpoint[1].contacts, b.contacts)
    BY <1>3, <1>4, <2>1, <2>2, PrefixLivesOn
  <2>. HIDE DEF a
  <2>. QED BY <1>4, <1>6, <1>7, <2>1, <2>3 DEF DirectoryInv, WriterExtendsSaved
<1>. QED BY <1>6, <1>8, <1>9, <1>10 DEF DirectoryInv, ProvenanceMatches

\* A save puts in the file the adult that its writer has: the only writer there
\* is, and of the birth that was there, so the provenance stays right.
LEMMA SavesKeep ==
  ASSUME DirectoryInv, NEW s \in Shell, Saves(s) \/ EndTerminal(s)
  PROVE  PublicType' /\ (~orphaned' => WriterInside' /\ BuildLeft')
         /\ WriterExtendsSaved' /\ ProvenanceMatches'
<1>1. /\ writer \in [Shell -> Maybe(Adult)] /\ shell \in [Shell -> Steps]
      /\ disk \in [checkpoint: Maybe(Adult), provenance: Maybe(Nat)]
      /\ writer[s] \in Maybe(Adult) /\ <<>> \in Maybe(Adult)
  BY DEF DirectoryInv, PublicType, Maybe
<1>2. /\ disk' = [disk EXCEPT !.checkpoint = writer[s]]
      /\ UNCHANGED <<heard, births, orphaned>>
  BY DEF Saves, EndTerminal
<1>3. disk'.checkpoint = writer[s] /\ disk'.provenance = disk.provenance
  BY <1>1, <1>2
<1>4. \/ UNCHANGED <<shell, writer>> /\ writer[s] # <<>>
      \/ /\ shell[s] = "terminal" /\ shell' = [shell EXCEPT ![s] = "out"]
         /\ writer' = [writer EXCEPT ![s] = <<>>]
  BY DEF Saves, Handled, EndTerminal, Leaves
<1>5. PublicType'
  BY <1>1, <1>2, <1>4 DEF DirectoryInv, PublicType, Steps
<1>6. ASSUME ~orphaned
      PROVE  WriterInside' /\ BuildLeft' /\ WriterExtendsSaved' /\ ProvenanceMatches'
  <2>1. shell[s] \in {"session", "terminal"}
    BY <1>4, <1>6 DEF DirectoryInv, WriterInside
  <2>2. \A q \in Shell : q # s => shell[q] = "out" /\ writer[q] = <<>>
    BY <1>6, <2>1, Alone
  <2>3. /\ shell'[s] \in {"session", "terminal", "out"}
        /\ writer'[s] # <<>> => writer'[s] = writer[s] /\ shell'[s] = shell[s]
        /\ \A q \in Shell : q # s => shell'[q] = "out" /\ writer'[q] = <<>>
    BY <1>1, <1>4, <2>1, <2>2
  <2>4. WriterInside' /\ BuildLeft'
    BY <2>1, <2>3 DEF WriterInside, BuildLeft
  <2>5. writer[s] # <<>> => IsPrefix(writer[s][1].contacts, writer[s][1].contacts)
    <3>. SUFFICES ASSUME writer[s] # <<>>
                  PROVE  IsPrefix(writer[s][1].contacts, writer[s][1].contacts)
      OBVIOUS
    <3>1. writer[s][1] \in Adult
      BY <1>1, OneOf
    <3>2. writer[s][1].contacts \in Seq(Nat)
      BY <3>1 DEF Adult
    <3>. QED BY <3>2, PrefixItself
  <2>6. WriterExtendsSaved'
    BY <1>3, <2>3, <2>5 DEF WriterExtendsSaved
  <2>7. writer[s] # <<>> => disk.checkpoint # <<>> /\ writer[s][1].birth = disk.checkpoint[1].birth
    BY <1>6 DEF DirectoryInv, WriterExtendsSaved
  <2>8. ProvenanceMatches'
    BY <1>3, <1>6, <2>7 DEF DirectoryInv, ProvenanceMatches
  <2>. QED BY <2>4, <2>6, <2>8
<1>. QED BY <1>2, <1>5, <1>6 DEF WriterExtendsSaved, ProvenanceMatches

LEMMA UnsavedKeeps ==
  ASSUME DirectoryInv, NEW s \in Shell, Unsaved(s)
  PROVE  PublicType' /\ (~orphaned' => WriterInside' /\ BuildLeft')
         /\ WriterExtendsSaved' /\ ProvenanceMatches'
BY DEF Unsaved, DirectoryInv, PublicType, WriterInside, BuildLeft, WriterExtendsSaved,
   ProvenanceMatches

\* A gateway or terminal that ends without a save takes what it has lived along.
LEMMA EndKeeps ==
  ASSUME DirectoryInv, NEW s \in Shell, EndSession(s) \/ KillTerminal(s) \/ KillGateway(s)
  PROVE  PublicType' /\ (~orphaned' => WriterInside' /\ BuildLeft')
         /\ WriterExtendsSaved' /\ ProvenanceMatches'
<1>1. /\ writer' = [writer EXCEPT ![s] = <<>>]
      /\ UNCHANGED <<disk, heard, births, orphaned>>
      /\ shell' \in {shell, [shell EXCEPT ![s] = "out"]}
  BY DEF EndSession, KillTerminal, KillGateway, StopsFirst, Leaves
<1>2. <<>> \in Maybe(Adult)
  BY DEF Maybe
<1>. QED BY <1>1, <1>2 DEF DirectoryInv, PublicType, Steps, WriterInside, BuildLeft,
     WriterExtendsSaved, ProvenanceMatches

\* A launcher killed before it has a gateway leaves nothing behind; one killed
\* with it is what the promise excepts.
LEMMA KillKeeps ==
  ASSUME DirectoryInv, NEW s \in Shell, KillLauncher(s)
  PROVE  PublicType' /\ (~orphaned' => WriterInside' /\ BuildLeft')
         /\ WriterExtendsSaved' /\ ProvenanceMatches'
<1>1. PublicType'
  BY DEF KillLauncher, Leaves, DirectoryInv, PublicType, Steps
<1>. QED BY <1>1 DEF KillLauncher, Leaves, DirectoryInv, PublicType, Steps, WriterInside,
     BuildLeft, WriterExtendsSaved, ProvenanceMatches

\* The steps of a build.  The lock keeps every writer out, so what a step leaves
\* on disk is what the next one finds.
LEMMA BuildKeeps ==
  ASSUME DirectoryInv, NEW s \in Shell,
         \/ Build(s, TRUE) \/ Build(s, FALSE) \/ UnlinkCheckpoint(s)
         \/ UnlinkProvenance(s) \/ WriteCheckpoint(s) \/ WriteProvenance(s) \/ KillBuild(s)
  PROVE  PublicType' /\ (~orphaned' => WriterInside' /\ BuildLeft')
         /\ WriterExtendsSaved' /\ ProvenanceMatches'
<1>0. PublicType /\ births \in Nat /\ <<>> \in Maybe(Adult) /\ <<>> \in Maybe(Nat)
  BY DEF DirectoryInv, PublicType, Maybe
<1>1. CASE Build(s, TRUE) \/ Build(s, FALSE)
  <2>1. /\ births' = births + 1 /\ UNCHANGED <<writer, disk, heard, orphaned>>
        /\ shell' = [shell EXCEPT ![s] = "unlinking"] /\ \A q \in Shell : shell[q] = "out"
    BY <1>1 DEF Build, Locks
  <2>2. PublicType'
    BY <1>0, <2>1 DEF PublicType, Steps
  <2>. QED BY <1>0, <2>1, <2>2 DEF DirectoryInv, PublicType, WriterInside, BuildLeft,
       WriterExtendsSaved, ProvenanceMatches
<1>2. CASE UnlinkCheckpoint(s)
  <2>1. /\ disk' = [disk EXCEPT !.checkpoint = <<>>] /\ UNCHANGED <<writer, heard, births, orphaned>>
        /\ shell' = [shell EXCEPT ![s] = "unlinked"] /\ shell[s] = "unlinking"
    BY <1>2 DEF UnlinkCheckpoint
  <2>2. PublicType' /\ disk'.checkpoint = <<>> /\ disk'.provenance = disk.provenance
    BY <1>0, <2>1 DEF PublicType, Steps
  <2>. QED BY <1>0, <2>1, <2>2, Alone DEF DirectoryInv, PublicType, WriterInside, BuildLeft,
       WriterExtendsSaved, ProvenanceMatches
<1>3. CASE UnlinkProvenance(s)
  <2>1. /\ disk' = [disk EXCEPT !.provenance = <<>>] /\ UNCHANGED <<writer, heard, births, orphaned>>
        /\ shell' = [shell EXCEPT ![s] = "born"] /\ shell[s] = "unlinked"
    BY <1>3 DEF UnlinkProvenance, Unlinked
  <2>2. PublicType' /\ disk'.provenance = <<>> /\ disk'.checkpoint = disk.checkpoint
    BY <1>0, <2>1 DEF PublicType, Steps
  <2>. QED BY <1>0, <2>1, <2>2, Alone DEF DirectoryInv, PublicType, WriterInside, BuildLeft,
       WriterExtendsSaved, ProvenanceMatches
<1>4. CASE WriteCheckpoint(s)
  <2>. DEFINE a == [birth |-> births, contacts |-> <<>>]
  <2>1. /\ disk' = [disk EXCEPT !.checkpoint = <<a>>] /\ UNCHANGED <<writer, heard, births, orphaned>>
        /\ shell' = [shell EXCEPT ![s] = "written"] /\ shell[s] = "born"
    BY <1>4 DEF WriteCheckpoint
  <2>2. a \in Adult /\ a.birth = births
    BY <1>0 DEF Adult
  <2>. HIDE DEF a
  <2>3. <<a>> \in Maybe(Adult) /\ <<a>> # <<>> /\ <<a>>[1] = a
    BY <2>2, MaybeForms
  <2>4. PublicType' /\ disk'.checkpoint = <<a>> /\ disk'.provenance = disk.provenance
    BY <1>0, <2>1, <2>3 DEF PublicType, Steps
  <2>. QED BY <1>0, <2>1, <2>2, <2>3, <2>4, Alone DEF DirectoryInv, PublicType, WriterInside,
       BuildLeft, WriterExtendsSaved, ProvenanceMatches
<1>5. CASE WriteProvenance(s)
  <2>1. /\ disk' = [disk EXCEPT !.provenance = <<births>>]
        /\ UNCHANGED <<writer, heard, births, orphaned>>
        /\ shell' = [shell EXCEPT ![s] = "out"] /\ shell[s] = "written"
    BY <1>5 DEF WriteProvenance, Leaves
  <2>2. <<births>> \in Maybe(Nat) /\ <<births>>[1] = births
    BY <1>0, MaybeForms
  <2>3. PublicType' /\ disk'.provenance = <<births>> /\ disk'.checkpoint = disk.checkpoint
    BY <1>0, <2>1, <2>2 DEF PublicType, Steps
  <2>. QED BY <1>0, <2>1, <2>2, <2>3, Alone DEF DirectoryInv, PublicType, WriterInside,
       BuildLeft, WriterExtendsSaved, ProvenanceMatches
<1>6. CASE KillBuild(s)
  <2>1. /\ UNCHANGED <<writer, disk, heard, births, orphaned>>
        /\ shell' = [shell EXCEPT ![s] = "out"]
        /\ shell[s] \notin {"out", "session", "terminal"}
    BY <1>6 DEF KillBuild, Leaves
  <2>2. PublicType'
    BY <1>0, <2>1 DEF PublicType, Steps
  <2>. QED BY <1>0, <2>1, <2>2 DEF DirectoryInv, PublicType, WriterInside, BuildLeft,
       WriterExtendsSaved, ProvenanceMatches
<1>. QED BY <1>1, <1>2, <1>3, <1>4, <1>5, <1>6

LEMMA DirectoryStep ==
  ASSUME DirectoryInv, [PublicNext]_publicVars
  PROVE  DirectoryInv'
<1>1. CASE PublicNext
  <2>1. OneInside'
    BY <1>1, LockKeeps DEF DirectoryInv
  <2>2. PublicType' /\ (~orphaned' => WriterInside' /\ BuildLeft')
        /\ WriterExtendsSaved' /\ ProvenanceMatches'
    BY <1>1, LaunchKeeps, LoadKeeps, HeardKeeps, SavesKeep, UnsavedKeeps, EndKeeps,
       KillKeeps, BuildKeeps DEF PublicNext
  <2>. QED BY <2>1, <2>2 DEF DirectoryInv
<1>2. CASE UNCHANGED publicVars
  BY <1>2 DEF publicVars, DirectoryInv, PublicType, OneInside, WriterInside, BuildLeft,
     WriterExtendsSaved, ProvenanceMatches
<1>. QED BY <1>1, <1>2

LEMMA DirectorySafe == PublicSpec => []DirectoryInv
BY DirectoryInit, DirectoryStep, PTL DEF PublicSpec

\* Under the lock of adult.lock a live gateway or terminal has lived all that the
\* checkpoint holds, so its next save, whenever it comes and whatever was refused
\* or lost before it, only extends what was saved: until a launcher is killed and
\* leaves its gateway behind.
THEOREM SavesOnlyExtend == PublicSpec => []WriterExtendsSaved
<1>1. DirectoryInv => WriterExtendsSaved
  BY DEF DirectoryInv
<1>. QED BY <1>1, DirectorySafe, PTL

\* Until then the provenance on disk is that of the adult on disk, at whichever
\* step a build was killed.
THEOREM ProvenanceIsOfTheAdult == PublicSpec => []ProvenanceMatches
<1>1. DirectoryInv => ProvenanceMatches
  BY DEF DirectoryInv
<1>. QED BY <1>1, DirectorySafe, PTL

-----------------------------------------------------------------------------
(* Lemmas about lines and surfaces.                                             *)

LEMMA LinesOf ==
  ASSUME NEW w \in Seq(Message), NEW m \in Lines(w)
  PROVE  m \in Message /\ m.trajectory # 0
<1>1. PICK i \in 1 .. Len(w) : m = w[i] /\ w[i].trajectory # 0
  BY DEF Lines
<1>2. w[i] \in Message
  OBVIOUS
<1>. QED BY <1>1, <1>2

LEMMA LinesAppended ==
  ASSUME NEW w \in Seq(Message), NEW n \in Message
  PROVE  /\ Append(w, n) \in Seq(Message)
         /\ n.trajectory = 0 => Lines(Append(w, n)) = Lines(w)
         /\ n.trajectory # 0 => Lines(Append(w, n)) = Lines(w) \union {n}
         /\ Ordered(w) /\ (n.trajectory # 0 => \A m \in Lines(w) : After(m, n))
              => Ordered(Append(w, n))
<1>. DEFINE v == Append(w, n)
<1>1. /\ v \in Seq(Message) /\ Len(v) = Len(w) + 1 /\ v[Len(w) + 1] = n /\ Len(w) \in Nat
      /\ \A i \in 1 .. Len(w) : v[i] = w[i]
  OBVIOUS
<1>. HIDE DEF v
<1>2. n.trajectory = 0 => Lines(v) = Lines(w)
  BY <1>1 DEF Lines
<1>3. n.trajectory # 0 => Lines(v) = Lines(w) \union {n}
  BY <1>1 DEF Lines
<1>4. ASSUME Ordered(w), n.trajectory # 0 => \A m \in Lines(w) : After(m, n)
      PROVE  Ordered(v)
  <2>. SUFFICES ASSUME NEW i \in 1 .. Len(v), NEW j \in 1 .. Len(v), i < j,
                       v[i].trajectory # 0, v[j].trajectory # 0
                PROVE  After(v[i], v[j])
    BY DEF Ordered
  <2>1. Len(w) \in Nat /\ i \in 1 .. Len(w) + 1 /\ j \in 1 .. Len(w) + 1
    BY <1>1
  <2>2. i \in 1 .. Len(w) /\ (j \in 1 .. Len(w) \/ j = Len(w) + 1)
    BY ONLY <2>1, i < j
  <2>3. CASE j = Len(w) + 1
    <3>1. w[i] \in Lines(w) /\ v[i] = w[i] /\ v[j] = n
      BY <1>1, <2>2, <2>3 DEF Lines
    <3>. QED BY <1>4, <2>3, <3>1
  <2>4. CASE j \in 1 .. Len(w)
    BY <1>1, <1>4, <2>2, <2>4 DEF Ordered
  <2>. QED BY <2>2, <2>3, <2>4
<1>. QED BY <1>1, <1>2, <1>3, <1>4 DEF v

LEMMA LinesRead ==
  ASSUME NEW w \in Seq(Message), w # <<>>
  PROVE  /\ Tail(w) \in Seq(Message) /\ Head(w) \in Message
         /\ Lines(Tail(w)) \subseteq Lines(w)
         /\ Head(w).trajectory # 0 => Head(w) \in Lines(w)
         /\ Ordered(w) => Ordered(Tail(w))
         /\ Ordered(w) /\ Head(w).trajectory # 0
              => \A m \in Lines(Tail(w)) : After(Head(w), m)
<1>. DEFINE v == Tail(w)
<1>1. /\ v \in Seq(Message) /\ Len(v) = Len(w) - 1 /\ Len(w) \in Nat \ {0}
      /\ Head(w) = w[1] /\ Head(w) \in Message
      /\ \A i \in 1 .. Len(v) : v[i] = w[i + 1]
  OBVIOUS
<1>. HIDE DEF v
<1>2. \A i \in 1 .. Len(v) : i + 1 \in 1 .. Len(w) /\ 1 < i + 1
  <2>1. Len(v) = Len(w) - 1 /\ Len(w) \in Nat \ {0}
    BY <1>1
  <2>. QED BY ONLY <2>1
<1>3. Lines(v) \subseteq Lines(w)
  BY <1>1, <1>2 DEF Lines
<1>4. Head(w).trajectory # 0 => Head(w) \in Lines(w)
  <2>1. 1 \in 1 .. Len(w)
    BY <1>1
  <2>. QED BY <1>1, <2>1 DEF Lines
<1>5. ASSUME Ordered(w) PROVE Ordered(v)
  <2>. SUFFICES ASSUME NEW i \in 1 .. Len(v), NEW j \in 1 .. Len(v), i < j,
                       v[i].trajectory # 0, v[j].trajectory # 0
                PROVE  After(v[i], v[j])
    BY DEF Ordered
  <2>1. /\ i + 1 \in 1 .. Len(w) /\ j + 1 \in 1 .. Len(w) /\ i + 1 < j + 1
        /\ v[i] = w[i + 1] /\ v[j] = w[j + 1]
    BY <1>1, <1>2
  <2>. QED BY <1>5, <2>1 DEF Ordered
<1>6. ASSUME Ordered(w), Head(w).trajectory # 0, NEW m \in Lines(v)
      PROVE  After(Head(w), m)
  <2>1. PICK i \in 1 .. Len(v) : m = v[i] /\ v[i].trajectory # 0
    BY DEF Lines
  <2>2. /\ 1 \in 1 .. Len(w) /\ i + 1 \in 1 .. Len(w) /\ 1 < i + 1 /\ m = w[i + 1]
        /\ w[i + 1].trajectory # 0
    BY <1>1, <1>2, <2>1
  <2>. QED BY <1>1, <1>6, <2>2 DEF Ordered
<1>. QED BY <1>1, <1>3, <1>4, <1>5, <1>6 DEF v

\* One byte more of the same trajectory.
LEMMA PrefixGrows ==
  ASSUME NEW t \in Nat, NEW n \in Nat, NEW m \in Message, m.trajectory = t, m.cursor = n
  PROVE  /\ Prefix(t, n) \in Seq(Message)
         /\ Append(Prefix(t, n), m) = Prefix(t, n + 1)
<1>1. Prefix(t, n) \in Seq(Message) /\ Len(Prefix(t, n)) = n
  <2>1. \A b \in 1 .. n : [trajectory |-> t, cursor |-> b - 1] \in Message
    BY DEF Message
  <2>. QED BY <2>1 DEF Prefix
<1>2. m = [trajectory |-> t, cursor |-> n + 1 - 1]
  BY DEF Message
<1>3. Append(Prefix(t, n), m) =
        [b \in 1 .. n + 1 |-> IF b \in 1 .. n THEN Prefix(t, n)[b] ELSE m]
  <2>. DEFINE q == Prefix(t, n)
  <2>1. q \in Seq(Message) /\ Len(q) = n
    BY <1>1
  <2>. HIDE DEF q
  <2>2. /\ Append(q, m) \in Seq(Message) /\ Len(Append(q, m)) = n + 1
        /\ \A b \in 1 .. n + 1 : Append(q, m)[b] = IF b \in 1 .. n THEN q[b] ELSE m
    BY <2>1
  <2>3. Append(q, m) = [b \in 1 .. n + 1 |-> Append(q, m)[b]]
    <3>. DEFINE v == Append(q, m)
    <3>1. v \in Seq(Message) /\ Len(v) = n + 1
      BY <2>2
    <3>. HIDE DEF v
    <3>2. v \in [1 .. n + 1 -> Message]
      BY <3>1, LenProperties
    <3>3. v = [b \in 1 .. n + 1 |-> v[b]]
      BY <3>2
    <3>. QED BY <3>3 DEF v
  <2>4. Append(q, m) = [b \in 1 .. n + 1 |-> IF b \in 1 .. n THEN q[b] ELSE m]
    BY <2>2, <2>3
  <2>. QED BY <2>4 DEF q
<1>4. \A b \in 1 .. n + 1 : (IF b \in 1 .. n THEN Prefix(t, n)[b] ELSE m)
                             = [trajectory |-> t, cursor |-> b - 1]
  <2>. SUFFICES ASSUME NEW b \in 1 .. n + 1
                PROVE  (IF b \in 1 .. n THEN Prefix(t, n)[b] ELSE m)
                         = [trajectory |-> t, cursor |-> b - 1]
    OBVIOUS
  <2>1. CASE b \in 1 .. n
    BY <2>1 DEF Prefix
  <2>2. CASE b \notin 1 .. n
    <3>1. b = n + 1
      BY <2>2
    <3>. QED BY <1>2, <2>2, <3>1
  <2>. QED BY <2>1, <2>2
<1>. QED BY <1>1, <1>3, <1>4 DEF Prefix

LEMMA WholeTrajectory ==
  ASSUME NEW t \in Nat
  PROVE  Prefix(t, SurfaceBytes) # <<>> /\ Of(Prefix(t, SurfaceBytes)) = t
<1>1. 1 \in 1 .. SurfaceBytes
  BY GatewayAssumption
<1>2. Prefix(t, SurfaceBytes)[1] = [trajectory |-> t, cursor |-> 0]
  BY <1>1 DEF Prefix
<1>3. DOMAIN Prefix(t, SurfaceBytes) # {}
  BY <1>1 DEF Prefix
<1>. QED BY <1>2, <1>3 DEF Of

-----------------------------------------------------------------------------
(* What a step does to the surfaces that are out.                               *)

\* The surfaces that are out stay where they are.
LEMMA SurfacesStay ==
  ASSUME AllOut, SpokenInOrder, UNCHANGED <<outputs, answers>>,
         \A s : Out(s, emitting, surface, wire) => Out(s, emitting', surface', wire')
  PROVE  AllOut' /\ SpokenInOrder'
BY DEF AllOut, SpokenInOrder

\* A surface is queued, or an error, behind all that are out.
LEMMA SurfaceQueued ==
  ASSUME WireType, AllOut, SpokenInOrder, NEW u \in Seq(Message),
         outputs' = Append(outputs, u), UNCHANGED answers,
         \A s : Out(s, emitting, surface, wire) => Out(s, emitting', surface', wire'),
         u # <<>> => /\ Out(u, emitting', surface', wire')
                     /\ \A s : Out(s, emitting, surface, wire) => Of(s) < Of(u)
  PROVE  AllOut' /\ SpokenInOrder'
<1>1. /\ Len(outputs') = Len(outputs) + 1 /\ outputs'[Len(outputs) + 1] = u
      /\ Len(outputs) \in Nat
      /\ \A i \in 1 .. Len(outputs) : outputs'[i] = outputs[i]
  BY DEF WireType
<1>2. \A i \in 1 .. Len(outputs') : i \in 1 .. Len(outputs) \/ i = Len(outputs) + 1
  BY <1>1
<1>3. /\ \A i \in 1 .. Len(outputs) : Below(outputs[i], u)
      /\ \A i \in 1 .. Len(answers) : Below(answers[i].surface, u)
  BY DEF AllOut, Below
<1>4. AllOut'
  BY <1>1, <1>2 DEF AllOut
<1>5. ASSUME NEW i \in 1 .. Len(outputs'), NEW j \in 1 .. Len(outputs'), i < j
      PROVE  Below(outputs'[i], outputs'[j])
  <2>1. i \in 1 .. Len(outputs)
    <3>1. i \in 1 .. Len(outputs) + 1 /\ j \in 1 .. Len(outputs) + 1 /\ Len(outputs) \in Nat
      BY <1>1
    <3>. QED BY ONLY <1>5, <3>1
  <2>2. CASE j = Len(outputs) + 1
    BY <1>1, <1>3, <2>1, <2>2
  <2>3. CASE j \in 1 .. Len(outputs)
    <3>1. Below(outputs[i], outputs[j])
      BY <1>5, <2>1, <2>3 DEF SpokenInOrder
    <3>. QED BY <1>1, <2>1, <2>3, <3>1
  <2>. QED BY <1>2, <2>2, <2>3
<1>6. ASSUME NEW i \in 1 .. Len(answers), NEW j \in 1 .. Len(outputs')
      PROVE  Below(answers[i].surface, outputs'[j])
  BY <1>1, <1>2, <1>3 DEF SpokenInOrder
<1>. QED BY <1>4, <1>5, <1>6 DEF SpokenInOrder

\* The waiting request is answered by the oldest queued surface, or by nothing.
LEMMA SurfaceAnswers ==
  ASSUME WireType, AllOut, SpokenInOrder, NEW u \in Seq(Message),
         answers' = Append(answers, [contact |-> waiting, surface |-> u]),
         UNCHANGED <<emitting, surface, wire>>,
         \/ u = <<>> /\ UNCHANGED outputs
         \/ outputs # <<>> /\ u = Head(outputs) /\ outputs' = Tail(outputs)
  PROVE  AllOut' /\ SpokenInOrder'
<1>. DEFINE a == [contact |-> waiting, surface |-> u]
<1>1. a \in [contact: Nat, surface: Seq(Message)] /\ a.surface = u
  BY DEF WireType
<1>. HIDE DEF a
<1>2. /\ Len(answers') = Len(answers) + 1 /\ answers'[Len(answers) + 1].surface = u
      /\ Len(answers) \in Nat
      /\ \A i \in 1 .. Len(answers) : answers'[i] = answers[i]
  <2>1. answers \in Seq([contact: Nat, surface: Seq(Message)]) /\ answers' = Append(answers, a)
    BY DEF WireType, a
  <2>. QED BY <1>1, <2>1
<1>3. \A i \in 1 .. Len(answers') : i \in 1 .. Len(answers) \/ i = Len(answers) + 1
  BY <1>2
<1>4. \E d \in {0, 1} :
        /\ \A j \in 1 .. Len(outputs') :
             j + d \in 1 .. Len(outputs) /\ outputs'[j] = outputs[j + d]
        /\ d = 1 => outputs # <<>> /\ u = outputs[1] /\ 1 \in 1 .. Len(outputs)
        /\ d = 0 => u = <<>>
  <2>1. CASE u = <<>> /\ UNCHANGED outputs
    <3>1. Len(outputs) \in Nat
      BY DEF WireType
    <3>2. \A j \in 1 .. Len(outputs') :
             j + 0 \in 1 .. Len(outputs) /\ outputs'[j] = outputs[j + 0]
      BY <2>1, <3>1
    <3>. QED BY <2>1, <3>2
  <2>2. CASE outputs # <<>> /\ u = Head(outputs) /\ outputs' = Tail(outputs)
    <3>1. /\ Len(outputs) \in Nat \ {0} /\ Len(outputs') = Len(outputs) - 1
          /\ \A j \in 1 .. Len(outputs') : outputs'[j] = outputs[j + 1]
          /\ u = outputs[1]
      BY <2>2 DEF WireType
    <3>2. \A j \in 1 .. Len(outputs') : j + 1 \in 1 .. Len(outputs)
      <4>1. Len(outputs) \in Nat \ {0} /\ Len(outputs') = Len(outputs) - 1
        BY <3>1
      <4>. QED BY ONLY <4>1
    <3>3. 1 \in 1 .. Len(outputs)
      BY <3>1
    <3>4. \A j \in 1 .. Len(outputs') :
             j + 1 \in 1 .. Len(outputs) /\ outputs'[j] = outputs[j + 1]
      BY <3>1, <3>2
    <3>5. outputs # <<>> /\ u = outputs[1] /\ 1 \in 1 .. Len(outputs)
      BY <2>2, <3>1, <3>3
    <3>. QED
      <4>1. 1 \in {0, 1} /\ 1 # 0
        OBVIOUS
      <4>. QED BY ONLY <3>4, <3>5, <4>1
  <2>. QED BY <2>1, <2>2
<1>5. PICK d \in {0, 1} :
        /\ \A j \in 1 .. Len(outputs') :
             j + d \in 1 .. Len(outputs) /\ outputs'[j] = outputs[j + d]
        /\ d = 1 => outputs # <<>> /\ u = outputs[1] /\ 1 \in 1 .. Len(outputs)
        /\ d = 0 => u = <<>>
  BY <1>4
<1>6. u # <<>> => Out(u, emitting, surface, wire)
  BY <1>5 DEF AllOut
<1>7. AllOut'
  <2>1. \A i \in 1 .. Len(outputs') :
          outputs'[i] # <<>> => Out(outputs'[i], emitting, surface, wire)
    BY <1>5 DEF AllOut
  <2>2. \A i \in 1 .. Len(answers') :
          answers'[i].surface # <<>> => Out(answers'[i].surface, emitting, surface, wire)
    BY <1>2, <1>3, <1>6 DEF AllOut
  <2>. QED BY <2>1, <2>2 DEF AllOut
<1>8. ASSUME NEW i \in 1 .. Len(outputs'), NEW j \in 1 .. Len(outputs'), i < j
      PROVE  Below(outputs'[i], outputs'[j])
  <2>1. /\ i + d \in 1 .. Len(outputs) /\ j + d \in 1 .. Len(outputs)
        /\ outputs'[i] = outputs[i + d] /\ outputs'[j] = outputs[j + d]
    BY <1>5
  <2>2. i + d < j + d
    BY ONLY <1>8, d \in {0, 1}
  <2>. QED BY <2>1, <2>2 DEF SpokenInOrder
<1>9. \A i \in 1 .. Len(answers) : Below(answers[i].surface, u)
  BY <1>5 DEF SpokenInOrder, Below
<1>10. ASSUME NEW i \in 1 .. Len(answers'), NEW j \in 1 .. Len(answers'), i < j
       PROVE  Below(answers'[i].surface, answers'[j].surface)
  <2>1. i \in 1 .. Len(answers)
    <3>1. i \in 1 .. Len(answers) + 1 /\ j \in 1 .. Len(answers) + 1 /\ Len(answers) \in Nat
      BY <1>2
    <3>. QED BY ONLY <1>10, <3>1
  <2>2. CASE j = Len(answers) + 1
    BY <1>2, <1>9, <2>1, <2>2
  <2>3. CASE j \in 1 .. Len(answers)
    <3>1. Below(answers[i].surface, answers[j].surface)
      BY <1>10, <2>1, <2>3 DEF SpokenInOrder
    <3>. QED BY <1>2, <2>1, <2>3, <3>1
  <2>. QED BY <1>3, <2>2, <2>3
<1>11. \A j \in 1 .. Len(outputs') : Below(u, outputs'[j])
  <2>. SUFFICES ASSUME NEW j \in 1 .. Len(outputs') PROVE Below(u, outputs'[j])
    OBVIOUS
  <2>1. CASE d = 0
    BY <1>5, <2>1 DEF Below
  <2>2. CASE d = 1
    <3>1. /\ j + 1 \in 1 .. Len(outputs) /\ outputs'[j] = outputs[j + 1]
          /\ 1 \in 1 .. Len(outputs) /\ u = outputs[1]
      BY <1>5, <2>2
    <3>2. 1 < j + 1
      OBVIOUS
    <3>. QED BY <3>1, <3>2 DEF SpokenInOrder
  <2>. QED BY <2>1, <2>2
<1>12. ASSUME NEW i \in 1 .. Len(answers'), NEW j \in 1 .. Len(outputs')
       PROVE  Below(answers'[i].surface, outputs'[j])
  <2>1. CASE i = Len(answers) + 1
    BY <1>2, <1>11, <2>1
  <2>2. CASE i \in 1 .. Len(answers)
    BY <1>2, <1>5, <2>2 DEF SpokenInOrder
  <2>. QED BY <1>3, <2>1, <2>2
<1>. QED BY <1>7, <1>8, <1>10, <1>12 DEF SpokenInOrder

-----------------------------------------------------------------------------
(* Steps of the gateway.                                                        *)

LEMMA SurfaceInit == GatewayInit => SurfaceInv
<1>. SUFFICES ASSUME GatewayInit PROVE SurfaceInv
  OBVIOUS
<1>1. Lines(<<>>) = {} /\ Ordered(<<>>)
  BY DEF Lines, Ordered
<1>2. WireType
  BY GatewayAssumption DEF GatewayInit, WireType, Message, Empty
<1>. QED BY <1>1, <1>2 DEF GatewayInit, SurfaceInv, InWire, Gather, AllOut, SpokenInOrder, Empty

\* The order of emission is strict.
LEMMA AfterAgain ==
  ASSUME NEW m \in Message, NEW n \in Message, NEW o \in Message, After(n, o)
  PROVE  m = n \/ After(m, n) => After(m, o)
BY DEF After, Message

\* The adult emits after all it emitted before: the next byte of a trajectory it
\* has not ended, or the first of a later one.
LEMMA EmitKeeps ==
  ASSUME SurfaceInv, EmitFirst \/ EmitNext
  PROVE  SurfaceInv'
<1>1. PICK n \in Message :
        /\ Emit(n) /\ n.cursor < SurfaceBytes /\ After(emitting, n) /\ n.trajectory \in Nat
        /\ \/ n.trajectory = emitting.trajectory + 1
           \/ n.trajectory = emitting.trajectory /\ emitting.cursor < SurfaceBytes - 1
  <2>1. emitting \in Message
    BY DEF SurfaceInv, WireType
  <2>2. CASE EmitFirst
    <3>. DEFINE n == [trajectory |-> emitting.trajectory + 1, cursor |-> 0]
    <3>1. /\ Emit(n) /\ n \in Message /\ n.cursor < SurfaceBytes /\ After(emitting, n)
          /\ n.trajectory \in Nat /\ n.trajectory = emitting.trajectory + 1
      BY <2>1, <2>2, GatewayAssumption DEF EmitFirst, Message, After
    <3>. HIDE DEF n
    <3>. QED BY <3>1
  <2>3. CASE EmitNext
    <3>. DEFINE n == [emitting EXCEPT !.cursor = @ + 1]
    <3>1. /\ Emit(n) /\ n \in Message /\ n.cursor < SurfaceBytes /\ After(emitting, n)
          /\ n.trajectory \in Nat /\ n.trajectory = emitting.trajectory
          /\ emitting.cursor < SurfaceBytes - 1
      BY <2>1, <2>3, GatewayAssumption DEF EmitNext, Message, After
    <3>. HIDE DEF n
    <3>. QED BY <3>1
  <2>. QED BY <2>2, <2>3
<1>2. /\ emitting' = n /\ wire' = Append(wire, n)
      /\ UNCHANGED <<said, waiting, surface, outputs, answers>>
  BY <1>1 DEF Emit
<1>3. emitting \in Message /\ wire \in Seq(Message) /\ WireType
  BY DEF SurfaceInv, WireType
<1>4. WireType'
  BY <1>1, <1>2, <1>3, LinesAppended DEF WireType
<1>5. \A m \in Lines(wire) : m \in Message /\ m.trajectory # 0 /\ After(m, n)
  BY <1>1, <1>3, LinesOf, AfterAgain DEF SurfaceInv, InWire
<1>6. Lines(wire') \subseteq Lines(wire) \union {n} /\ Ordered(wire')
  BY <1>1, <1>2, <1>3, <1>5, LinesAppended DEF SurfaceInv, InWire
<1>7. InWire(emitting', wire')
  BY <1>1, <1>2, <1>5, <1>6 DEF SurfaceInv, InWire
<1>8. Gather(emitting', surface', wire')
  <2>1. CASE surface.active = 0
    BY <1>2, <2>1 DEF SurfaceInv, Gather
  <2>2. CASE surface.active # 0
    <3>. DEFINE g == Gathered(surface)
    <3>1. /\ surface.next \in 1 .. SurfaceBytes - 1
          /\ surface.bytes = Prefix(surface.active, surface.next)
          /\ g = emitting \/ After(g, emitting)
          /\ \A m \in Lines(wire) : After(g, m)
      BY <2>2 DEF SurfaceInv, Gather
    <3>2. g \in Message
      BY <3>1 DEF SurfaceInv, WireType, Gathered, Message
    <3>3. After(g, n)
      BY <1>1, <1>3, <3>1, <3>2, AfterAgain
    <3>. HIDE DEF g
    <3>4. \A m \in Lines(wire') : After(g, m)
      BY <1>6, <3>1, <3>3
    <3>. QED BY <1>2, <2>2, <3>1, <3>3, <3>4 DEF Gather, g
  <2>. QED BY <2>1, <2>2
<1>9. \A s : Out(s, emitting, surface, wire) => Out(s, emitting', surface', wire')
  <2>. SUFFICES ASSUME NEW s, Out(s, emitting, surface, wire)
                PROVE  Out(s, emitting', surface', wire')
    OBVIOUS
  <2>1. Of(s) \in Nat /\ emitting.trajectory \in Nat /\ emitting.cursor \in Nat
    BY <1>3 DEF Out, Message
  <2>2. Of(s) < n.trajectory
    BY <1>1, <2>1, GatewayAssumption DEF Out
  <2>. QED BY <1>2, <1>6, <2>2 DEF Out
<1>. QED BY <1>2, <1>4, <1>7, <1>8, <1>9, SurfacesStay DEF SurfaceInv

LEMMA StrayKeeps ==
  ASSUME SurfaceInv, EmitStray
  PROVE  SurfaceInv'
<1>. DEFINE n == [trajectory |-> 0, cursor |-> 0]
<1>1. n \in Message /\ n.trajectory = 0 /\ wire \in Seq(Message)
  BY DEF Message, SurfaceInv, WireType
<1>2. /\ wire' = Append(wire, n)
      /\ UNCHANGED <<emitting, said, waiting, surface, outputs, answers>>
  BY DEF EmitStray
<1>. HIDE DEF n
<1>3. Lines(wire') = Lines(wire) /\ (Ordered(wire) => Ordered(wire')) /\ wire' \in Seq(Message)
  BY <1>1, <1>2, LinesAppended
<1>4. WireType'
  BY <1>2, <1>3 DEF SurfaceInv, WireType
<1>5. InWire(emitting', wire') /\ Gather(emitting', surface', wire')
  BY <1>2, <1>3 DEF SurfaceInv, InWire, Gather
<1>6. \A s : Out(s, emitting, surface, wire) => Out(s, emitting', surface', wire')
  BY <1>2, <1>3 DEF Out
<1>. QED BY <1>2, <1>4, <1>5, <1>6, SurfacesStay DEF SurfaceInv

\* A line that fits is the next byte of what is gathered.
LEMMA LineFits ==
  ASSUME SurfaceInv, wire # <<>>, Fits(Head(wire))
  PROVE  LET m == Head(wire) IN
         /\ m \in Message /\ m.trajectory # 0 /\ m.cursor \in 0 .. SurfaceBytes - 1
         /\ m = emitting \/ After(m, emitting)
         /\ Append(surface.bytes, m) \in Seq(Message)
         /\ Append(surface.bytes, m) = Prefix(m.trajectory, m.cursor + 1)
         /\ \A k \in Lines(Tail(wire)) : k \in Message /\ After(m, k) /\ k.cursor < SurfaceBytes
         /\ \A s : Out(s, emitting, surface, wire) => Of(s) < m.trajectory
<1>. DEFINE m == Head(wire)
<1>1. wire \in Seq(Message) /\ surface.bytes \in Seq(Message) /\ WireType
  BY DEF SurfaceInv, WireType
<1>2. m \in Message /\ m.trajectory # 0 /\ m \in Lines(wire)
  BY <1>1, LinesRead DEF Fits
<1>3. m.cursor < SurfaceBytes /\ (m = emitting \/ After(m, emitting))
  BY <1>2 DEF SurfaceInv, InWire
<1>4. m.cursor \in 0 .. SurfaceBytes - 1
  BY <1>2, <1>3, GatewayAssumption DEF Message
<1>5. \A k \in Lines(Tail(wire)) : k \in Message /\ After(m, k) /\ k.cursor < SurfaceBytes
  BY <1>1, <1>2, LinesRead, LinesOf DEF SurfaceInv, InWire
<1>6. \A s : Out(s, emitting, surface, wire) => Of(s) < m.trajectory
  BY <1>2 DEF Out
<1>. HIDE DEF m
<1>7. surface.bytes = Prefix(m.trajectory, m.cursor)
  <2>1. CASE surface.active = 0
    <3>1. m.cursor = 0 /\ surface.bytes = <<>>
      BY <2>1 DEF m, Fits, SurfaceInv, Gather
    <3>2. Prefix(m.trajectory, 0) = <<>>
      BY DEF Prefix
    <3>. QED BY <3>1, <3>2
  <2>2. CASE surface.active # 0
    <3>1. m = [trajectory |-> surface.active, cursor |-> surface.next]
      BY <2>2 DEF m, Fits
    <3>. QED BY <2>2, <3>1 DEF SurfaceInv, Gather
  <2>. QED BY <2>1, <2>2
<1>8. /\ Append(surface.bytes, m) = Prefix(m.trajectory, m.cursor + 1)
      /\ Append(surface.bytes, m) \in Seq(Message)
  <2>1. m.trajectory \in Nat /\ m.cursor \in Nat
    BY <1>2 DEF Message
  <2>2. Append(Prefix(m.trajectory, m.cursor), m) = Prefix(m.trajectory, m.cursor + 1)
    BY <1>2, <2>1, PrefixGrows
  <2>. QED BY <1>1, <1>2, <1>7, <2>2
<1>. QED BY <1>2, <1>3, <1>4, <1>5, <1>6, <1>8 DEF m

\* The last byte of a trajectory: it is out, and what follows is of later ones.
LEMMA PumpLastKeeps ==
  ASSUME SurfaceInv, PumpMotor, Head(wire).cursor = SurfaceBytes - 1
  PROVE  SurfaceInv'
<1>. DEFINE m == Head(wire)
            u == Append(surface.bytes, m)
<1>1. /\ wire # <<>> /\ Fits(Head(wire)) /\ outputs' = Append(outputs, u) /\ surface' = Empty
      /\ wire' = Tail(wire) /\ UNCHANGED <<said, waiting, emitting, answers>>
  BY DEF PumpMotor
<1>2. /\ m \in Message /\ m.trajectory # 0 /\ m.cursor = SurfaceBytes - 1
      /\ m = emitting \/ After(m, emitting)
      /\ u \in Seq(Message) /\ u = Prefix(m.trajectory, SurfaceBytes)
      /\ \A k \in Lines(Tail(wire)) : k \in Message /\ After(m, k) /\ k.cursor < SurfaceBytes
      /\ \A s : Out(s, emitting, surface, wire) => Of(s) < m.trajectory
  <2>1. m.cursor + 1 = SurfaceBytes
    BY GatewayAssumption
  <2>. QED BY <1>1, <2>1, LineFits
<1>3. wire \in Seq(Message) /\ WireType
  BY DEF SurfaceInv, WireType
<1>4. /\ wire' \in Seq(Message) /\ Lines(wire') \subseteq Lines(wire)
      /\ (Ordered(wire) => Ordered(wire'))
  BY <1>1, <1>3, LinesRead
<1>. HIDE DEF m, u
<1>5. \A k \in Lines(wire') : m.trajectory < k.trajectory
  <2>. SUFFICES ASSUME NEW k \in Lines(wire') PROVE m.trajectory < k.trajectory
    OBVIOUS
  <2>1. k \in Message /\ After(m, k) /\ k.cursor < SurfaceBytes
    BY <1>1, <1>2
  <2>. QED BY <1>2, <2>1, GatewayAssumption DEF After, Message
<1>6. WireType'
  <2>1. outputs' \in Seq(Seq(Message))
    BY <1>1, <1>2, <1>3 DEF WireType
  <2>2. surface' \in [active: Nat, next: Nat, bytes: Seq(Message)]
    BY <1>1 DEF Empty
  <2>. QED BY <1>1, <1>3, <1>4, <2>1, <2>2 DEF WireType
<1>7. InWire(emitting', wire') /\ Gather(emitting', surface', wire')
  BY <1>1, <1>4 DEF SurfaceInv, InWire, Gather, Empty
<1>8. \A s : Out(s, emitting, surface, wire) => Out(s, emitting', surface', wire')
  BY <1>1, <1>4 DEF Out, Empty
<1>9. u # <<>> /\ Of(u) = m.trajectory /\ m.trajectory \in Nat \ {0}
  BY <1>2, WholeTrajectory DEF Message
<1>10. Out(u, emitting', surface', wire')
  <2>1. /\ m.trajectory < emitting.trajectory
           \/ (m.trajectory = emitting.trajectory /\ emitting.cursor = SurfaceBytes - 1)
    BY <1>2, <1>3, GatewayAssumption DEF After, Message, WireType
  <2>. QED BY <1>1, <1>2, <1>5, <1>9, <2>1 DEF Out, Empty
<1>11. AllOut' /\ SpokenInOrder'
  BY <1>1, <1>2, <1>3, <1>8, <1>9, <1>10, SurfaceQueued DEF SurfaceInv
<1>. QED BY <1>6, <1>7, <1>11 DEF SurfaceInv

LEMMA PumpMoreKeeps ==
  ASSUME SurfaceInv, PumpMotor, Head(wire).cursor # SurfaceBytes - 1
  PROVE  SurfaceInv'
<1>. DEFINE m == Head(wire)
            u == Append(surface.bytes, m)
<1>1. /\ wire # <<>> /\ Fits(Head(wire))
      /\ surface' = [active |-> m.trajectory, next |-> m.cursor + 1, bytes |-> u]
      /\ wire' = Tail(wire) /\ UNCHANGED <<said, waiting, emitting, outputs, answers>>
  BY DEF PumpMotor
<1>2. /\ m \in Message /\ m.trajectory # 0 /\ m.cursor \in 0 .. SurfaceBytes - 1
      /\ m = emitting \/ After(m, emitting)
      /\ u \in Seq(Message) /\ u = Prefix(m.trajectory, m.cursor + 1)
      /\ \A k \in Lines(Tail(wire)) : k \in Message /\ After(m, k) /\ k.cursor < SurfaceBytes
      /\ \A s : Out(s, emitting, surface, wire) => Of(s) < m.trajectory
  BY <1>1, LineFits
<1>3. wire \in Seq(Message) /\ WireType /\ m.cursor # SurfaceBytes - 1
  BY DEF SurfaceInv, WireType
<1>4. /\ wire' \in Seq(Message) /\ Lines(wire') \subseteq Lines(wire)
      /\ (Ordered(wire) => Ordered(wire'))
  BY <1>1, <1>3, LinesRead
<1>. HIDE DEF m, u
<1>5. m.cursor + 1 \in 1 .. SurfaceBytes - 1 /\ m.trajectory \in Nat /\ m.cursor \in Nat
  <2>1. /\ m.cursor \in 0 .. SurfaceBytes - 1 /\ m.cursor # SurfaceBytes - 1
        /\ SurfaceBytes \in Nat \ {0}
    BY <1>2, <1>3, GatewayAssumption
  <2>2. m.cursor + 1 \in 1 .. SurfaceBytes - 1 /\ m.cursor \in Nat
    BY ONLY <2>1
  <2>. QED BY <1>2, <2>2 DEF Message
<1>6. /\ surface'.active = m.trajectory /\ surface'.next = m.cursor + 1 /\ surface'.bytes = u
      /\ surface' \in [active: Nat, next: Nat, bytes: Seq(Message)]
  BY <1>1, <1>2, <1>5
<1>7. WireType'
  BY <1>1, <1>3, <1>4, <1>6 DEF WireType
<1>8. InWire(emitting', wire')
  BY <1>1, <1>4 DEF SurfaceInv, InWire
<1>9. Gather(emitting', surface', wire')
  <2>1. Gathered(surface') = m
    BY <1>2, <1>5, <1>6 DEF Gathered, Message
  <2>. QED BY <1>1, <1>2, <1>5, <1>6, <2>1 DEF Gather
<1>10. \A s : Out(s, emitting, surface, wire) => Out(s, emitting', surface', wire')
  BY <1>1, <1>2, <1>4, <1>6 DEF Out
<1>. QED BY <1>1, <1>7, <1>8, <1>9, <1>10, SurfacesStay DEF SurfaceInv

\* A line that does not fit is dropped, and its error is queued as an answer.
LEMMA PumpFailsKeeps ==
  ASSUME SurfaceInv, PumpFails
  PROVE  SurfaceInv'
<1>1. /\ wire # <<>> /\ outputs' = Append(outputs, <<>>) /\ wire' = Tail(wire)
      /\ UNCHANGED <<said, waiting, emitting, surface, answers>>
  BY DEF PumpFails
<1>2. wire \in Seq(Message) /\ WireType /\ <<>> \in Seq(Message)
  BY DEF SurfaceInv, WireType
<1>3. /\ wire' \in Seq(Message) /\ Lines(wire') \subseteq Lines(wire)
      /\ (Ordered(wire) => Ordered(wire'))
  BY <1>1, <1>2, LinesRead
<1>4. WireType'
  <2>1. outputs' \in Seq(Seq(Message))
    BY <1>1, <1>2 DEF WireType
  <2>. QED BY <1>1, <1>2, <1>3, <2>1 DEF WireType
<1>5. InWire(emitting', wire') /\ Gather(emitting', surface', wire')
  BY <1>1, <1>3 DEF SurfaceInv, InWire, Gather
<1>6. \A s : Out(s, emitting, surface, wire) => Out(s, emitting', surface', wire')
  BY <1>1, <1>3 DEF Out
<1>7. AllOut' /\ SpokenInOrder'
  BY <1>1, <1>2, <1>6, SurfaceQueued DEF SurfaceInv
<1>. QED BY <1>4, <1>5, <1>7 DEF SurfaceInv

LEMMA AnswerKeeps ==
  ASSUME SurfaceInv, Answer \/ AnswerSilence
  PROVE  SurfaceInv'
<1>1. WireType /\ waiting \in Nat /\ UNCHANGED <<emitting, surface, wire, said>> /\ waiting' = 0
  BY DEF SurfaceInv, WireType, Answer, AnswerSilence, adultVars
<1>2. InWire(emitting', wire') /\ Gather(emitting', surface', wire')
  BY <1>1 DEF SurfaceInv
<1>3. CASE Answer
  <2>. DEFINE u == Head(outputs)
              a == [contact |-> waiting, surface |-> u]
  <2>1. outputs # <<>> /\ outputs' = Tail(outputs)
        /\ answers' = IF u = <<>> THEN answers ELSE Append(answers, a)
    BY <1>3 DEF Answer
  <2>2. u \in Seq(Message) /\ outputs' \in Seq(Seq(Message))
    BY <1>1, <2>1 DEF WireType
  <2>3. a \in [contact: Nat, surface: Seq(Message)]
    BY <1>1, <2>2
  <2>4. answers' \in Seq([contact: Nat, surface: Seq(Message)])
    <3>1. answers \in Seq([contact: Nat, surface: Seq(Message)])
      BY <1>1 DEF WireType
    <3>2. answers' \in {answers, Append(answers, a)}
      BY <2>1
    <3>. HIDE DEF a, u
    <3>3. Append(answers, a) \in Seq([contact: Nat, surface: Seq(Message)])
      BY <2>3, <3>1
    <3>. QED BY <3>1, <3>2, <3>3
  <2>5. WireType'
    BY <1>1, <2>2, <2>4 DEF WireType
  <2>6. CASE u # <<>>
    <3>1. answers' = Append(answers, [contact |-> waiting, surface |-> u])
      BY <2>1, <2>6
    <3>. QED BY <1>1, <1>2, <2>1, <2>2, <2>5, <3>1, SurfaceAnswers DEF SurfaceInv
  <2>7. CASE u = <<>>
    <3>1. /\ Len(outputs) \in Nat \ {0} /\ Len(outputs') = Len(outputs) - 1
          /\ \A i \in 1 .. Len(outputs') : outputs'[i] = outputs[i + 1]
      BY <1>1, <2>1 DEF WireType
    <3>2. \A i \in 1 .. Len(outputs') : i + 1 \in 1 .. Len(outputs)
      <4>1. Len(outputs) \in Nat \ {0} /\ Len(outputs') = Len(outputs) - 1
        BY <3>1
      <4>. QED BY ONLY <4>1
    <3>3. answers' = answers
      BY <2>1, <2>7
    <3>4. AllOut'
      BY <1>1, <3>1, <3>2, <3>3 DEF SurfaceInv, AllOut
    <3>5. SpokenInOrder'
      <4>1. \A i, j \in 1 .. Len(outputs') : i < j => i + 1 < j + 1
        BY <3>1
      <4>. QED BY <3>1, <3>2, <3>3, <4>1 DEF SurfaceInv, SpokenInOrder
    <3>. QED BY <1>2, <2>5, <3>4, <3>5 DEF SurfaceInv
  <2>. QED BY <2>6, <2>7
<1>4. CASE AnswerSilence
  <2>. DEFINE a == [contact |-> waiting, surface |-> <<>>]
  <2>1. answers' = Append(answers, a) /\ UNCHANGED outputs
    BY <1>4 DEF AnswerSilence
  <2>2. a \in [contact: Nat, surface: Seq(Message)] /\ <<>> \in Seq(Message)
    BY <1>1
  <2>3. WireType'
    <3>. HIDE DEF a
    <3>. QED BY <1>1, <2>1, <2>2 DEF WireType
  <2>. QED BY <1>1, <1>2, <2>1, <2>2, <2>3, SurfaceAnswers DEF SurfaceInv
<1>. QED BY <1>3, <1>4

LEMMA SurfaceStep ==
  ASSUME SurfaceInv, [GatewayNext]_gatewayVars
  PROVE  SurfaceInv'
<1>1. CASE EmitFirst \/ EmitNext
  BY <1>1, EmitKeeps
<1>2. CASE EmitStray
  BY <1>2, StrayKeeps
<1>3. CASE PumpMotor
  BY <1>3, PumpLastKeeps, PumpMoreKeeps
<1>4. CASE PumpFails
  BY <1>4, PumpFailsKeeps
<1>5. CASE Answer \/ AnswerSilence
  BY <1>5, AnswerKeeps
<1>6. CASE Speak(1) \/ Speak(2) \/ PostContact \/ PostMany \/ UNCHANGED gatewayVars
  <2>1. UNCHANGED <<emitting, wire, surface, outputs, answers>>
        /\ said' \in Nat /\ waiting' \in Nat
    BY <1>6 DEF Speak, PostContact, PostMany, gatewayVars, adultVars, SurfaceInv, WireType
  <2>. QED BY <2>1 DEF SurfaceInv, WireType, AllOut, SpokenInOrder
<1>. QED BY <1>1, <1>2, <1>3, <1>4, <1>5, <1>6 DEF GatewayNext

\* Whatever _pump_motors has joined and contact has handed out is one whole
\* trajectory of the adult, each at most once and in the order it lived them:
\* events that belong to no trajectory, trajectories broken off, requests that no
\* longer wait and surfaces that answer a later request do not disturb it.
THEOREM SurfacesAreWhole == GatewaySpec => []WholeSurfaces
<1>1. GatewayInit => SurfaceInv
  BY SurfaceInit
<1>2. SurfaceInv /\ [GatewayNext]_gatewayVars => SurfaceInv'
  BY SurfaceStep
<1>3. SurfaceInv => WholeSurfaces
  <2>. SUFFICES ASSUME SurfaceInv PROVE WholeSurfaces
    OBVIOUS
  <2>1. DOMAIN answers = 1 .. Len(answers)
    BY DEF SurfaceInv, WireType
  <2>2. \A i \in 1 .. Len(answers) : answers[i].surface # <<>> =>
          answers[i].surface = Prefix(Of(answers[i].surface), SurfaceBytes)
    BY DEF SurfaceInv, AllOut, Out
  <2>3. \A i, j \in 1 .. Len(answers) :
          i < j /\ answers[i].surface # <<>> /\ answers[j].surface # <<>> =>
            Of(answers[i].surface) < Of(answers[j].surface)
    BY DEF SurfaceInv, SpokenInOrder, Below
  <2>. QED BY <2>1, <2>2, <2>3 DEF WholeSurfaces, Prefix, Of
<1>. QED BY <1>1, <1>2, <1>3, PTL DEF GatewaySpec

=============================================================================
