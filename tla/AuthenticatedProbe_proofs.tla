----------------------- MODULE AuthenticatedProbe_proofs -----------------------
(* Theorems about AuthenticatedProbe, for every set of witnesses and commands,  *)
(* every allowance, horizon and bound, and however often a checkpoint is put    *)
(* back.                                                                        *)
EXTENDS AuthenticatedProbe, TLAPS

-----------------------------------------------------------------------------
(* Types.                                                                       *)

Evidence == [command: Command, epoch: Nat, applied: Nat, difference: {-1, 0, 1},
             sources: SUBSET Witness]

Episode == [command: Command, opened: Nat, until: Nat, deadline: Nat,
            sources: SUBSET Witness, applied: Nat, lastArrival: Nat,
            returnSources: SUBSET Witness]

Pending == {None} \union {<<e>> : e \in Episode}

Resident == [epoch: Nat, sequence: Nat, tick: Nat, resource: Nat, lastApply: Nat,
             logged: Nat, evidence: SUBSET Evidence,
             pending: Pending, gone: SUBSET Witness]

Application == [epoch: Nat, command: Command, cursor: Nat, source: Witness]

BodyType(b) ==
  /\ b = [clock |-> b.clock, applications |-> b.applications]
  /\ b.clock \in Nat
  /\ b.applications \in [DOMAIN b.applications -> Application]

Return == [apply: Nat, command: Command, epoch: Nat, source: Witness, unit: Nat,
           arrival: Nat, sequence: Nat]

-----------------------------------------------------------------------------
(* What a resident and its body owe each other; a checkpoint owes it as well,   *)
(* since a restore puts both of them in force.                                  *)

\* Neither the evidence nor the open episode rests on what was withdrawn.
Current(p) ==
  /\ \A e \in p.evidence : e.epoch = p.epoch /\ e.sources \intersect p.gone = {}
  /\ p.pending # None =>
       (p.pending[1].sources \union p.pending[1].returnSources) \intersect p.gone = {}

Awaits(p) == p.pending # None => p.tick < p.pending[1].deadline

Covers(p, b) ==
  /\ p.lastApply <= b.clock
  /\ \A t \in DOMAIN b.applications : t \in Nat /\ t <= b.clock

Coherent(p, b) ==
  /\ p \in Resident /\ BodyType(b)
  /\ Current(p) /\ Awaits(p) /\ Covers(p, b)

ProbeInv ==
  /\ Coherent(probe, body)
  /\ kept # None => Coherent(kept[1].probe, kept[1].body)
  /\ sealed \subseteq Return

-----------------------------------------------------------------------------
(* Lemmas.                                                                      *)

LEMMA OneEpisode ==
  ASSUME NEW p \in Resident, p.pending # None
  PROVE  p.pending = <<p.pending[1]>> /\ p.pending[1] \in Episode
BY DEF Resident, Pending, None

LEMMA PendingForms ==
  ASSUME NEW e \in Episode
  PROVE  None \in Pending /\ <<e>> \in Pending
BY DEF Pending

LEMMA Ticked ==
  ASSUME NEW p \in Resident, NEW t \in Nat, NEW l \in Nat, NEW w \in Pending
  PROVE  [p EXCEPT !.tick = t, !.logged = l, !.pending = w] \in Resident
BY DEF Resident

LEMMA Counted ==
  ASSUME NEW p \in Resident, NEW s \in Nat, NEW l \in Nat
  PROVE  [p EXCEPT !.sequence = s, !.logged = l] \in Resident
BY DEF Resident

LEMMA NextCount ==
  ASSUME NEW p \in Resident
  PROVE  p.sequence + 1 \in Nat /\ p.tick + 1 \in Nat /\ p.logged + 1 \in Nat
BY DEF Resident

\* A step that leaves the body alone and keeps these fields of the resident.
LEMMA Keeps ==
  ASSUME Coherent(probe, body), body' = body,
         probe' \in Resident, probe'.lastApply = probe.lastApply,
         Current(probe'), Awaits(probe')
  PROVE  Coherent(probe', body')
BY DEF Coherent, Covers

\* Initially there is neither evidence nor an episode.
LEMMA InitSound == ProbeInit => ProbeInv
<1>. SUFFICES ASSUME ProbeInit PROVE ProbeInv
  OBVIOUS
<1>. USE ProbeAssumption DEF ProbeInit
<1>1. probe \in Resident
  BY PendingForms DEF Resident, Pending
<1>2. BodyType(body)
  <2>1. body.applications = <<>> /\ body.clock = 0
    OBVIOUS
  <2>2. DOMAIN body.applications = {}
    BY <2>1
  <2>3. body.applications \in [{} -> Application]
    BY <2>1
  <2>. QED BY <2>1, <2>2, <2>3 DEF BodyType
<1>3. Current(probe) /\ Awaits(probe)
  BY DEF Current, Awaits
<1>4. Covers(probe, body)
  BY DEF Covers
<1>. QED BY <1>1, <1>2, <1>3, <1>4 DEF ProbeInv, Coherent

-----------------------------------------------------------------------------
(* Steps of the resident.                                                       *)

LEMMA SampleKeeps ==
  ASSUME Coherent(probe, body), NEW w \in Witness, IngestSample(w)
  PROVE  Coherent(probe', body')
<1>. USE DEF IngestSample
<1>1. probe \in Resident
  BY DEF Coherent
<1>2. probe' \in Resident
  BY <1>1, Counted, NextCount
<1>3. Current(probe') /\ Awaits(probe')
  BY <1>1 DEF Coherent, Current, Awaits, Resident
<1>. QED BY <1>1, <1>2, <1>3, Keeps DEF Resident

LEMMA QuietTickKeeps ==
  ASSUME Coherent(probe, body), QuietTick
  PROVE  Coherent(probe', body')
<1>. USE DEF QuietTick, Quiet
<1>1. probe \in Resident
  BY DEF Coherent
<1>2. probe' \in Resident
  <2>1. [probe EXCEPT !.tick = probe.tick + 1, !.logged = probe.logged + 1] \in Resident
    BY <1>1, NextCount DEF Resident
  <2>. QED BY <2>1
<1>3. Current(probe') /\ Awaits(probe')
  BY <1>1 DEF Coherent, Current, Awaits, Resident
<1>. QED BY <1>1, <1>2, <1>3, Keeps DEF Resident

\* What is opened rests on nothing withdrawn, and its deadline lies ahead.
LEMMA OpenedEpisode ==
  ASSUME probe \in Resident, NEW c \in Command, NEW ws \in SUBSET Witness
  PROVE  /\ Opened(c, ws) \in Episode
         /\ Opened(c, ws).sources = ws /\ Opened(c, ws).returnSources = {}
         /\ Opened(c, ws).deadline = probe.tick + 1 + ProbeHorizon
BY ProbeAssumption DEF Opened, Episode, Resident

LEMMA OpenKeeps ==
  ASSUME Coherent(probe, body), NEW c \in Command, NEW ws \in SUBSET Witness,
         OpenProbe(c, ws) \/ OpenUnrecorded(c, ws)
  PROVE  Coherent(probe', body')
<1>. DEFINE o == Opened(c, ws)
<1>1. probe \in Resident
  BY DEF Coherent
<1>2. /\ o \in Episode /\ o.sources = ws /\ o.returnSources = {}
      /\ o.deadline = probe.tick + 1 + ProbeHorizon
  BY <1>1, OpenedEpisode
<1>3. /\ probe' \in Resident /\ probe'.pending = <<o>> /\ body' = body
      /\ probe'.lastApply = probe.lastApply /\ probe'.evidence = probe.evidence
      /\ probe'.epoch = probe.epoch /\ probe'.gone = probe.gone
      /\ probe'.tick \in {probe.tick, probe.tick + 1}
      /\ ws \intersect probe.gone = {}
  <2>. HIDE DEF o
  <2>1. CASE OpenProbe(c, ws)
    <3>1. probe' = [probe EXCEPT !.tick = @ + 1, !.logged = @ + 1, !.pending = <<o>>]
      BY <2>1 DEF OpenProbe, o
    <3>2. probe' \in Resident
      BY <1>1, <1>2, <3>1, PendingForms, Ticked, NextCount
    <3>. QED BY <1>1, <2>1, <3>1, <3>2 DEF OpenProbe, Resident
  <2>2. CASE OpenUnrecorded(c, ws)
    <3>1. probe' = [probe EXCEPT !.pending = <<o>>]
      BY <2>2 DEF OpenUnrecorded, o
    <3>. QED BY <1>1, <1>2, <2>2, <3>1, PendingForms DEF OpenUnrecorded, Resident
  <2>. QED BY <2>1, <2>2
<1>. HIDE DEF o
<1>4. Current(probe')
  BY <1>2, <1>3 DEF Coherent, Current
<1>5. Awaits(probe')
  <2>1. probe.tick \in Nat
    BY <1>1 DEF Resident
  <2>. QED BY <1>2, <1>3, <2>1, ProbeAssumption DEF Awaits
<1>. QED BY <1>3, <1>4, <1>5, Keeps

LEMMA WaitingTickKeeps ==
  ASSUME Coherent(probe, body), WaitingTick
  PROVE  Coherent(probe', body')
<1>. DEFINE e == probe.pending[1]
<1>1. probe \in Resident /\ probe.pending = <<e>> /\ e \in Episode
  BY OneEpisode DEF Coherent, WaitingTick, Quiet
<1>2. probe' = [probe EXCEPT !.tick = @ + 1, !.logged = @ + 1,
                 !.pending = IF probe.tick + 1 = e.deadline THEN None ELSE @]
  BY DEF WaitingTick, Expired
<1>3. probe.tick + 1 <= e.deadline /\ body' = body
  BY DEF WaitingTick
<1>4. probe.tick \in Nat /\ e.deadline \in Nat
  BY <1>1 DEF Resident, Episode
<1>. HIDE DEF e
<1>5. probe' \in Resident
  <2>1. CASE probe.tick + 1 = e.deadline
    BY <1>1, <1>2, <2>1, PendingForms, Ticked, NextCount
  <2>2. CASE probe.tick + 1 # e.deadline
    <3>1. probe' = [probe EXCEPT !.tick = probe.tick + 1, !.logged = probe.logged + 1,
                                 !.pending = probe.pending]
      BY <1>2, <2>2
    <3>. QED BY <1>1, <3>1, PendingForms, Ticked, NextCount
  <2>. QED BY <2>1, <2>2
<1>6. /\ probe'.tick = probe.tick + 1 /\ probe'.lastApply = probe.lastApply
      /\ probe'.evidence = probe.evidence /\ probe'.epoch = probe.epoch
      /\ probe'.gone = probe.gone
      /\ probe'.pending = IF probe.tick + 1 = e.deadline THEN None ELSE probe.pending
  BY <1>1, <1>2 DEF Resident
<1>7. Current(probe')
  BY <1>6 DEF Coherent, Current
<1>8. Awaits(probe')
  BY <1>1, <1>3, <1>4, <1>6 DEF Awaits
<1>. QED BY <1>3, <1>5, <1>6, <1>7, <1>8, Keeps

\* An accepted return names a source that was not withdrawn: it may join the
\* sources the episode rests on.
LEMMA ReturnMoreKeeps ==
  ASSUME Coherent(probe, body), NEW r \in Return, ReturnMore(r)
  PROVE  Coherent(probe', body')
<1>. DEFINE e == probe.pending[1]
            f == [e EXCEPT !.lastArrival = r.arrival,
                           !.returnSources = @ \union {r.source}]
<1>1. probe \in Resident /\ probe.pending = <<e>> /\ e \in Episode
  BY OneEpisode DEF Coherent, ReturnMore, Quiet
<1>2. f \in Episode /\ f.sources = e.sources /\ f.deadline = e.deadline
      /\ f.returnSources = e.returnSources \union {r.source}
  BY <1>1 DEF Episode, Return
<1>3. probe' = [probe EXCEPT !.sequence = @ + 1, !.logged = @ + 1, !.pending = <<f>>]
  BY DEF ReturnMore
<1>4. r.source \notin probe.gone /\ body' = body
  BY DEF ReturnMore, Accepts
<1>. HIDE DEF e, f
<1>5. probe' \in Resident
  <2>1. [probe EXCEPT !.sequence = probe.sequence + 1, !.logged = probe.logged + 1,
                      !.pending = <<f>>] \in Resident
    BY <1>1, <1>2, PendingForms, NextCount DEF Resident
  <2>. QED BY <1>3, <2>1
<1>6. /\ probe'.tick = probe.tick /\ probe'.lastApply = probe.lastApply
      /\ probe'.evidence = probe.evidence /\ probe'.epoch = probe.epoch
      /\ probe'.gone = probe.gone /\ probe'.pending[1] = f
  BY <1>1, <1>3 DEF Resident
<1>7. probe.pending # None /\ probe.pending[1] = e
  BY <1>1 DEF None
<1>8. Current(probe')
  BY <1>2, <1>4, <1>6, <1>7 DEF Coherent, Current
<1>9. Awaits(probe')
  BY <1>2, <1>6, <1>7 DEF Coherent, Awaits
<1>. QED BY <1>4, <1>5, <1>6, <1>8, <1>9, Keeps

\* The evidence a settlement leaves rests on what the episode rested on.
LEMMA ReturnSettlesKeeps ==
  ASSUME Coherent(probe, body), NEW r \in Return, NEW d \in {-1, 0, 1},
         ReturnSettles(r, d)
  PROVE  Coherent(probe', body')
<1>. DEFINE e == probe.pending[1]
            x == [command |-> e.command, epoch |-> probe.epoch, applied |-> e.applied,
                  difference |-> d,
                  sources |-> e.sources \union e.returnSources \union {r.source}]
<1>1. probe \in Resident /\ probe.pending = <<e>> /\ e \in Episode
  BY OneEpisode DEF Coherent, ReturnSettles, Quiet
<1>2. x \in Evidence /\ x.epoch = probe.epoch
      /\ x.sources = e.sources \union e.returnSources \union {r.source}
  BY <1>1 DEF Episode, Return, Evidence, Resident
<1>3. probe' = [probe EXCEPT !.sequence = @ + 1, !.logged = @ + 1, !.pending = None,
                             !.evidence = @ \union {x}]
  BY DEF ReturnSettles
<1>4. r.source \notin probe.gone /\ body' = body
  BY DEF ReturnSettles, Accepts
<1>. HIDE DEF e, x
<1>5. probe' \in Resident
  <2>1. probe.evidence \union {x} \in SUBSET Evidence
    BY <1>1, <1>2 DEF Resident
  <2>2. [probe EXCEPT !.sequence = probe.sequence + 1, !.logged = probe.logged + 1,
                      !.pending = None, !.evidence = probe.evidence \union {x}] \in Resident
    BY <1>1, <2>1, PendingForms, NextCount DEF Resident, Pending
  <2>. QED BY <1>3, <2>2
<1>6. /\ probe'.lastApply = probe.lastApply /\ probe'.epoch = probe.epoch
      /\ probe'.evidence = probe.evidence \union {x}
      /\ probe'.gone = probe.gone /\ probe'.pending = None
  BY <1>1, <1>3 DEF Resident
<1>7. (e.sources \union e.returnSources) \intersect probe.gone = {}
  BY <1>1 DEF None, Coherent, Current
<1>8. Current(probe')
  BY <1>2, <1>4, <1>6, <1>7 DEF Coherent, Current
<1>9. Awaits(probe')
  BY <1>6 DEF Awaits
<1>. QED BY <1>4, <1>5, <1>6, <1>8, <1>9, Keeps

\* A withdrawal takes the evidence and the episode that rest on its source.
LEMMA WithdrawKeeps ==
  ASSUME Coherent(probe, body), NEW w \in Witness, WithdrawWitness(w)
  PROVE  Coherent(probe', body')
<1>. DEFINE rows == Untainted(probe.evidence, w)
            open == IF probe.pending # None
                       /\ w \in probe.pending[1].sources \union probe.pending[1].returnSources
                      THEN None ELSE probe.pending
<1>1. probe \in Resident
  BY DEF Coherent
<1>2. rows \in SUBSET Evidence /\ rows \subseteq probe.evidence
      /\ \A x \in rows : w \notin x.sources
  BY <1>1 DEF Untainted, Resident
<1>3. open \in Pending /\ open \in {None, probe.pending}
      /\ (open # None =>
            w \notin probe.pending[1].sources \union probe.pending[1].returnSources)
  BY <1>1, PendingForms DEF Resident, Pending
<1>4. probe' = [probe EXCEPT !.sequence = @ + 1, !.logged = @ + 1, !.gone = @ \union {w},
                             !.evidence = rows, !.pending = open]
      /\ body' = body
  BY DEF WithdrawWitness
<1>. HIDE DEF rows, open
<1>5. probe' \in Resident
  <2>1. probe.gone \union {w} \in SUBSET Witness
    BY <1>1 DEF Resident
  <2>2. [probe EXCEPT !.sequence = probe.sequence + 1, !.logged = probe.logged + 1,
                      !.gone = probe.gone \union {w}, !.evidence = rows,
                      !.pending = open] \in Resident
    BY <1>1, <1>2, <1>3, <2>1, NextCount DEF Resident
  <2>. QED BY <1>4, <2>2
<1>6. /\ probe'.tick = probe.tick /\ probe'.lastApply = probe.lastApply
      /\ probe'.epoch = probe.epoch /\ probe'.gone = probe.gone \union {w}
      /\ probe'.evidence = rows /\ probe'.pending = open
  BY <1>1, <1>4 DEF Resident
<1>7. Current(probe')
  BY <1>2, <1>3, <1>6 DEF Coherent, Current
<1>8. Awaits(probe')
  BY <1>3, <1>6 DEF Coherent, Awaits
<1>. QED BY <1>4, <1>5, <1>6, <1>7, <1>8, Keeps

LEMMA AdoptKeeps ==
  ASSUME Coherent(probe, body), NEW n \in 1 .. MaxEpoch, AdoptMapping(n)
  PROVE  Coherent(probe', body')
<1>. DEFINE rows == {x \in probe.evidence : x.epoch = n}
<1>1. probe \in Resident /\ n \in Nat
  BY ProbeAssumption DEF Coherent
<1>2. rows \in SUBSET Evidence
  BY <1>1 DEF Resident
<1>3. probe' = [probe EXCEPT !.epoch = n, !.logged = @ + 1, !.evidence = rows]
      /\ body' = body /\ probe.pending = None
  BY DEF AdoptMapping, Quiet
<1>4. probe' \in Resident
  <2>. HIDE DEF rows
  <2>1. [probe EXCEPT !.epoch = n, !.logged = probe.logged + 1, !.evidence = rows] \in Resident
    BY <1>1, <1>2, NextCount DEF Resident
  <2>. QED BY <1>3, <2>1
<1>5. /\ probe'.lastApply = probe.lastApply /\ probe'.epoch = n
      /\ probe'.gone = probe.gone /\ probe'.evidence = rows /\ probe'.pending = None
  BY <1>1, <1>3 DEF Resident
<1>6. Current(probe') /\ Awaits(probe')
  BY <1>5 DEF Coherent, Current, Awaits
<1>. QED BY <1>3, <1>4, <1>5, <1>6, Keeps

-----------------------------------------------------------------------------
(* Steps of the body.                                                           *)

\* A dispatch is the one step that moves both: it stamps the resident with the
\* clock it has just advanced.
LEMMA DispatchKeeps ==
  ASSUME Coherent(probe, body), NEW route \in Witness, Dispatch(route)
  PROVE  Coherent(probe', body')
<1>. DEFINE e == probe.pending[1]
            t == body.clock + 1
            f == [e EXCEPT !.applied = t]
            a == [epoch |-> probe.epoch, command |-> e.command, cursor |-> 0, source |-> route]
            apps == [x \in DOMAIN body.applications \union {t} |->
                      IF x = t THEN a ELSE body.applications[x]]
<1>1. probe \in Resident /\ probe.pending = <<e>> /\ e \in Episode
  BY OneEpisode DEF Coherent, Dispatch, Quiet
<1>2. t \in Nat /\ t = body.clock + 1 /\ body.clock \in Nat
      /\ body.applications \in [DOMAIN body.applications -> Application]
  BY DEF Coherent, BodyType
<1>3. f \in Episode /\ f.sources = e.sources /\ f.deadline = e.deadline
      /\ f.returnSources = e.returnSources
  BY <1>1, <1>2 DEF Episode
<1>4. a \in Application
  BY <1>1 DEF Application, Resident, Episode
<1>5. apps \in [DOMAIN body.applications \union {t} -> Application]
  <2>. HIDE DEF a
  <2>. QED BY <1>2, <1>4
<1>6. body' = [clock |-> t, applications |-> apps]
  BY DEF Dispatch
<1>7. probe' = [probe EXCEPT !.resource = @ - 1, !.lastApply = t, !.logged = @ + 1,
                             !.pending = <<f>>]
  <2>1. probe' = [probe EXCEPT !.resource = @ - 1, !.lastApply = t, !.logged = @ + 1,
                   !.pending = [@ EXCEPT ![1] = f]]
    BY <1>1 DEF Dispatch, Resident, Episode
  <2>2. [probe.pending EXCEPT ![1] = f] = <<f>>
    BY <1>1
  <2>. QED BY <2>1, <2>2
<1>8. probe.resource - 1 \in Nat
  BY <1>1 DEF Dispatch, Resident
<1>9. probe.pending # None /\ probe.pending[1] = e
  BY <1>1 DEF None
<1>. HIDE DEF e, f, a, apps, t
<1>10. probe' \in Resident
  <2>1. [probe EXCEPT !.resource = probe.resource - 1, !.lastApply = t,
                      !.logged = probe.logged + 1, !.pending = <<f>>] \in Resident
    BY <1>1, <1>2, <1>3, <1>8, PendingForms, NextCount DEF Resident
  <2>. QED BY <1>7, <2>1
<1>11. /\ probe'.tick = probe.tick /\ probe'.lastApply = t
       /\ probe'.evidence = probe.evidence /\ probe'.epoch = probe.epoch
       /\ probe'.gone = probe.gone /\ probe'.pending[1] = f
  BY <1>1, <1>7 DEF Resident
<1>12. /\ BodyType(body') /\ body'.clock = t
       /\ DOMAIN body'.applications = DOMAIN body.applications \union {t}
  <2>1. DOMAIN apps = DOMAIN body.applications \union {t}
    BY <1>5
  <2>. QED BY <1>2, <1>5, <1>6, <2>1 DEF BodyType
<1>13. Current(probe')
  BY <1>3, <1>9, <1>11 DEF Coherent, Current
<1>14. Awaits(probe')
  BY <1>3, <1>9, <1>11 DEF Coherent, Awaits
<1>15. Covers(probe', body')
  BY <1>2, <1>11, <1>12 DEF Coherent, Covers
<1>. QED BY <1>10, <1>12, <1>13, <1>14, <1>15 DEF Coherent

\* The other steps of the body only advance its clock, and applications only go.
LEMMA ClockKeeps ==
  ASSUME Coherent(probe, body), probe' = probe, BodyType(body'),
         body'.clock = body.clock + 1,
         DOMAIN body'.applications \subseteq DOMAIN body.applications
  PROVE  Coherent(probe', body')
BY DEF Coherent, Covers, Resident, BodyType

LEMMA AdvanceKeeps ==
  ASSUME Coherent(probe, body), Advance
  PROVE  Coherent(probe', body')
<1>1. /\ body' = [clock |-> body.clock + 1, applications |-> body.applications]
      /\ probe' = probe
  BY DEF Advance, Coherent, BodyType
<1>2. BodyType(body') /\ body'.clock = body.clock + 1
      /\ body'.applications = body.applications
  BY <1>1 DEF Coherent, BodyType
<1>. QED BY <1>1, <1>2, ClockKeeps

LEMMA SealKeeps ==
  ASSUME Coherent(probe, body), sealed \subseteq Return,
         NEW t \in DOMAIN body.applications, SealReturn(t)
  PROVE  Coherent(probe', body') /\ sealed' \subseteq Return
<1>. DEFINE apps == body.applications
            a    == apps[t]
            left == IF a.cursor + 1 = Units
                      THEN [x \in DOMAIN apps \ {t} |-> apps[x]]
                      ELSE [apps EXCEPT ![t].cursor = @ + 1]
<1>1. /\ apps \in [DOMAIN apps -> Application] /\ a \in Application
      /\ body.clock \in Nat /\ t \in Nat
  BY DEF Coherent, BodyType, Covers
<1>2. body' = [clock |-> body.clock + 1, applications |-> left] /\ probe' = probe
  BY DEF SealReturn
<1>3. left \in [DOMAIN left -> Application] /\ DOMAIN left \subseteq DOMAIN apps
  <2>1. CASE a.cursor + 1 = Units
    <3>1. left = [x \in DOMAIN apps \ {t} |-> apps[x]]
      BY <2>1
    <3>. HIDE DEF left
    <3>. QED BY <1>1, <3>1
  <2>2. CASE a.cursor + 1 # Units
    <3>1. [a EXCEPT !.cursor = @ + 1] \in Application
      BY <1>1 DEF Application
    <3>2. left = [apps EXCEPT ![t] = [a EXCEPT !.cursor = @ + 1]]
      BY <2>2
    <3>. HIDE DEF left, a
    <3>. QED BY <1>1, <3>1, <3>2
  <2>. QED BY <2>1, <2>2
<1>4. sealed' \subseteq Return
  <2>. DEFINE r == [apply |-> t, command |-> a.command, epoch |-> a.epoch,
                    source |-> a.source, unit |-> a.cursor, arrival |-> body.clock + 1,
                    sequence |-> probe.sequence]
  <2>1. r \in Return
    BY <1>1 DEF Return, Application, Coherent, Resident
  <2>2. sealed' = sealed \union {r}
    BY DEF SealReturn
  <2>. HIDE DEF r
  <2>. QED BY <2>1, <2>2
<1>. HIDE DEF left
<1>5. BodyType(body') /\ body'.clock = body.clock + 1
      /\ DOMAIN body'.applications \subseteq DOMAIN body.applications
  BY <1>1, <1>2, <1>3 DEF BodyType
<1>. QED BY <1>2, <1>4, <1>5, ClockKeeps

-----------------------------------------------------------------------------
(* The invariant.                                                               *)

\* Every step but a restore keeps resident and body coherent on their own.
LEMMA ProbeStep ==
  ASSUME ProbeInv, [ProbeNext]_probeVars
  PROVE  ProbeInv'
<1>. USE DEF ProbeInv
<1>1. ASSUME NEW w \in Witness, IngestSample(w)
      PROVE  ProbeInv'
  BY <1>1, SampleKeeps DEF IngestSample
<1>2. ASSUME NEW w \in Witness, WithdrawWitness(w)
      PROVE  ProbeInv'
  BY <1>2, WithdrawKeeps DEF WithdrawWitness
<1>3. ASSUME NEW w \in Witness, Dispatch(w)
      PROVE  ProbeInv'
  <2>1. UNCHANGED <<sealed, kept>>
    BY <1>3 DEF Dispatch
  <2>. QED BY <1>3, <2>1, DispatchKeeps
<1>4. CASE QuietTick
  BY <1>4, QuietTickKeeps DEF QuietTick
<1>5. CASE WaitingTick
  <2>1. UNCHANGED <<sealed, kept>>
    BY <1>5 DEF WaitingTick
  <2>. QED BY <1>5, <2>1, WaitingTickKeeps
<1>6. ASSUME NEW c \in Command, NEW ws \in SUBSET Witness \ {{}},
             OpenProbe(c, ws) \/ OpenUnrecorded(c, ws)
      PROVE  ProbeInv'
  <2>1. UNCHANGED <<sealed, kept>>
    BY <1>6 DEF OpenProbe, OpenUnrecorded
  <2>. QED BY <1>6, <2>1, OpenKeeps
<1>7. CASE Advance
  BY <1>7, AdvanceKeeps DEF Advance
<1>8. ASSUME NEW t \in DOMAIN body.applications, SealReturn(t)
      PROVE  ProbeInv'
  <2>1. UNCHANGED kept
    BY <1>8 DEF SealReturn
  <2>. QED BY <1>8, <2>1, SealKeeps
<1>9. ASSUME NEW r \in sealed, ReturnMore(r)
      PROVE  ProbeInv'
  <2>1. UNCHANGED <<sealed, kept>>
    BY <1>9 DEF ReturnMore
  <2>. QED BY <1>9, <2>1, ReturnMoreKeeps
<1>10. ASSUME NEW r \in sealed, NEW d \in {-1, 0, 1}, ReturnSettles(r, d)
       PROVE  ProbeInv'
  <2>1. UNCHANGED <<sealed, kept>>
    BY <1>10 DEF ReturnSettles
  <2>. QED BY <1>10, <2>1, ReturnSettlesKeeps
<1>11. ASSUME NEW n \in 1 .. MaxEpoch, AdoptMapping(n)
       PROVE  ProbeInv'
  <2>1. UNCHANGED <<sealed, kept>>
    BY <1>11 DEF AdoptMapping
  <2>. QED BY <1>11, <2>1, AdoptKeeps
<1>12. CASE Checkpoint
  BY <1>12 DEF Checkpoint
<1>13. CASE Restore
  BY <1>13 DEF Restore, Restored
<1>14. CASE UNCHANGED probeVars
  BY <1>14 DEF probeVars
<1>. QED BY <1>1, <1>2, <1>3, <1>4, <1>5, <1>6, <1>7, <1>8, <1>9, <1>10, <1>11,
           <1>12, <1>13, <1>14 DEF ProbeNext

LEMMA ProbeSafe == ProbeSpec => []ProbeInv
<1>1. ProbeInit => ProbeInv
  BY InitSound
<1>2. ProbeInv /\ [ProbeNext]_probeVars => ProbeInv'
  BY ProbeStep
<1>. QED BY <1>1, <1>2, PTL DEF ProbeSpec

\* What steers the policy was returned under the mapping in force and rests on no
\* withdrawn source: withdraw_witness and adopt_mapping prune it, ingest_return
\* admits only what is current, and restore brings the withdrawals back with it.
THEOREM EvidenceStaysCurrent == ProbeSpec => []EvidenceIsCurrent
<1>1. ProbeInv => EvidenceIsCurrent
  BY DEF ProbeInv, Coherent, Current, EvidenceIsCurrent
<1>. QED BY <1>1, ProbeSafe, PTL

\* tick ends a pending episode before its deadline passes, whatever else happens,
\* even when the episode was opened by a tick that put its counter back.
THEOREM EpisodesMeetTheirDeadline == ProbeSpec => []WaitIsBounded
<1>1. ProbeInv => WaitIsBounded
  BY DEF ProbeInv, Coherent, Awaits, WaitIsBounded, Quiet
<1>. QED BY <1>1, ProbeSafe, PTL

\* The clock of BodyProbeBoundaryV1 covers what the resident applied and what is
\* still open, so that dispatch never reuses a tick.
THEOREM ClockNeverFallsBehind == ProbeSpec => []ClockCoversApplications
<1>1. ProbeInv => ClockCoversApplications
  BY DEF ProbeInv, Coherent, Covers, ClockCoversApplications
<1>. QED BY <1>1, ProbeSafe, PTL

=============================================================================
