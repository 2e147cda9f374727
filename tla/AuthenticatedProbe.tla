-------------------------- MODULE AuthenticatedProbe --------------------------
(***************************************************************************)
(* ResidentAuthenticatedProbeV1 and its BodyProbeBoundaryV1                *)
(* (reference_resident_authenticated_probe_v1.py).  A resident tick may    *)
(* turn a structural prediction into one command; the body applies it,     *)
(* seals one return per unit of its private route, and the returns settle  *)
(* the prediction into evidence that steers later commands.  Contacts may  *)
(* be sealed and never delivered, delivered late or again; a checkpoint    *)
(* captures resident and body together and may be restored at any time.    *)
(*                                                                         *)
(* The inner predictor is a choice of the model: whether a tick chains a   *)
(* prediction, which sources it rests on, which return settles it.  Refused *)
(* calls that roll back are no steps.  Authentication always succeeds for  *)
(* what the body sealed.                                                   *)
(***************************************************************************)
EXTENDS Integers, FiniteSets, FiniteSetsExt, Sequences

CONSTANTS
  Witness,       \* sources of samples, predictions and returns
  Command,       \* authored actions: a subset of Nat, each its structural cost
  Allowance,     \* resource_limit; every action costs one
  Units,         \* units of a route: returns of one application
  ProbeHorizon,  \* PROBE_HORIZON and PREDICTION_HORIZON
  MaxEvents,     \* MAX_EVENTS
  MaxEpoch,      \* bound on body epochs
  MaxClock,      \* bound on the body clock
  SaveBy,        \* bound on the events a checkpoint holds
  MaxRestores    \* bound on restores

ASSUME ProbeAssumption ==
  /\ Command \subseteq Nat \ {0} /\ Command # {}
  /\ Allowance \in Nat /\ Units \in Nat \ {0} /\ ProbeHorizon \in Nat \ {0}
  /\ MaxEvents \in Nat /\ MaxEpoch \in Nat \ {0} /\ MaxClock \in Nat /\ SaveBy \in Nat /\ MaxRestores \in Nat

VARIABLES
  probe,   \* the resident: epoch, sequence, tick, resource, lastApply, logged,
           \* evidence, pending, gone (withdrawn sources)
  body,    \* the body boundary: clock, applications
  sealed,  \* return contacts the body has sealed, for whoever delivers them
  kept,   \* <<>> or <<[probe, body]>>: the checkpoint
  restores \* how often it was restored

probeVars == <<probe, body, sealed, kept, restores>>

None == <<>>

ProbeInit ==
  /\ probe = [epoch |-> 1, sequence |-> 0, tick |-> 0, resource |-> Allowance,
              lastApply |-> 0, logged |-> 0, evidence |-> {}, pending |-> None, gone |-> {}]
  /\ body = [clock |-> 0, applications |-> <<>>]
  /\ sealed = {} /\ kept = None /\ restores = 0

Quiet == probe.pending = None
Room  == probe.logged < MaxEvents

\* ingest_sample: refused while an episode is pending.
IngestSample(w) ==
  /\ Quiet /\ Room /\ w \notin probe.gone
  /\ probe' = [probe EXCEPT !.sequence = @ + 1, !.logged = @ + 1]
  /\ UNCHANGED <<body, sealed, kept, restores>>

-----------------------------------------------------------------------------
(* tick.                                                                   *)

\* An action's record under the current mapping, against its own cost.
Returned(c) == {e \in probe.evidence : e.command = c /\ e.epoch = probe.epoch}
Score(c)    == 4 * MapThenSumSet(LAMBDA e : e.difference, Returned(c)) - c

\* The action the policy selects: the affordable one of highest score.
Chosen(c) == probe.resource >= 1 /\ \A d \in Command \ {c} : Score(d) < Score(c)

Opened(c, witnesses) ==
  [command |-> c, opened |-> probe.sequence, until |-> probe.sequence + ProbeHorizon,
   deadline |-> probe.tick + 1 + ProbeHorizon, sources |-> witnesses,
   applied |-> 0, lastArrival |-> 0, returnSources |-> {}]

\* A tick whose prediction chains nothing.
QuietTick ==
  /\ Quiet /\ Room
  /\ probe' = [probe EXCEPT !.tick = @ + 1, !.logged = @ + 1]
  /\ UNCHANGED <<body, sealed, kept, restores>>

OpenProbe(c, witnesses) ==
  /\ Quiet /\ Room
  /\ Chosen(c) /\ witnesses \intersect probe.gone = {}
  /\ probe' = [probe EXCEPT !.tick = @ + 1, !.logged = @ + 1,
                            !.pending = <<Opened(c, witnesses)>>]
  /\ UNCHANGED <<body, sealed, kept, restores>>

\* With a unique policy no snapshot is kept: a record that is full refuses the
\* tick after the episode was opened, and only the tick counter is put back.
OpenUnrecorded(c, witnesses) ==
  /\ Quiet /\ ~Room
  /\ Chosen(c) /\ witnesses \intersect probe.gone = {}
  /\ probe' = [probe EXCEPT !.pending = <<Opened(c, witnesses)>>]
  /\ UNCHANGED <<body, sealed, kept, restores>>

\* Mutant of Expired: the deadline is one tick late.
ExpiredLate(p) == probe.tick + 1 > p.deadline

Expired(p) == probe.tick + 1 = p.deadline

\* While an episode is pending a tick only waits, and ends it at its deadline.
WaitingTick ==
  /\ ~Quiet /\ Room
  /\ probe.tick + 1 <= probe.pending[1].deadline
  /\ probe' = [probe EXCEPT
       !.tick = @ + 1, !.logged = @ + 1,
       !.pending = IF Expired(probe.pending[1]) THEN None ELSE @]
  /\ UNCHANGED <<body, sealed, kept, restores>>

-----------------------------------------------------------------------------
(* The body: dispatch applies the command and starts its route; a return is *)
(* sealed for the next unit of the route and never sealed again.           *)

Dispatch(route) ==
  LET p == probe.pending[1] IN
  /\ ~Quiet /\ Room /\ p.applied = 0
  /\ p.opened <= probe.sequence /\ probe.sequence <= p.until
  /\ probe.resource >= 1
  /\ Cardinality(DOMAIN body.applications) < MaxEvents
  /\ body.clock < MaxClock /\ body.clock + 1 > probe.lastApply
  /\ body' = [clock |-> body.clock + 1,
              applications |-> [t \in DOMAIN body.applications \union {body.clock + 1} |->
                IF t = body.clock + 1
                THEN [epoch |-> probe.epoch, command |-> p.command, cursor |-> 0, source |-> route]
                ELSE body.applications[t]]]
  /\ probe' = [probe EXCEPT !.resource = @ - 1, !.lastApply = body.clock + 1,
                            !.logged = @ + 1, !.pending[1].applied = body.clock + 1]
  /\ UNCHANGED <<sealed, kept, restores>>

Advance ==
  /\ body.clock < MaxClock
  /\ body' = [body EXCEPT !.clock = @ + 1]
  /\ UNCHANGED <<probe, sealed, kept, restores>>

\* seal_return: the route's next unit, for the sequence the resident waits for;
\* the application is forgotten with its last unit.
SealReturn(t) ==
  LET a == body.applications[t] IN
  /\ body.clock < MaxClock
  /\ sealed' = sealed \union
       {[apply |-> t, command |-> a.command, epoch |-> a.epoch, source |-> a.source,
         unit |-> a.cursor, arrival |-> body.clock + 1, sequence |-> probe.sequence]}
  /\ body' = [clock |-> body.clock + 1,
              applications |-> IF a.cursor + 1 = Units
                THEN [x \in DOMAIN body.applications \ {t} |-> body.applications[x]]
                ELSE [body.applications EXCEPT ![t].cursor = @ + 1]]
  /\ UNCHANGED <<probe, kept, restores>>

\* ingest_return accepts what answers this episode, in the order of arrival.
Accepts(p, r) ==
  /\ p.applied # 0 /\ r.apply = p.applied /\ r.command = p.command /\ r.epoch = probe.epoch
  /\ r.arrival > p.applied /\ r.arrival > p.lastArrival
  /\ r.sequence = probe.sequence /\ probe.sequence <= p.until
  /\ r.source \notin probe.gone

\* A return that leaves the prediction open, while its sequence aperture lasts.
ReturnMore(r) ==
  LET p == probe.pending[1] IN
  /\ ~Quiet /\ Room /\ Accepts(p, r)
  /\ probe.sequence + 1 <= p.until
  /\ probe' = [probe EXCEPT !.sequence = @ + 1, !.logged = @ + 1,
                            !.pending = <<[p EXCEPT !.lastArrival = r.arrival,
                                                    !.returnSources = @ \union {r.source}]>>]
  /\ UNCHANGED <<body, sealed, kept, restores>>

\* A return that settles the prediction: evidence, and the episode is over.
ReturnSettles(r, difference) ==
  LET p == probe.pending[1] IN
  /\ ~Quiet /\ Room /\ Accepts(p, r)
  /\ probe' = [probe EXCEPT
       !.sequence = @ + 1, !.logged = @ + 1, !.pending = None,
       !.evidence = @ \union
         {[command |-> p.command, epoch |-> probe.epoch, applied |-> p.applied,
           difference |-> difference, sources |-> p.sources \union p.returnSources \union {r.source}]}]
  /\ UNCHANGED <<body, sealed, kept, restores>>

-----------------------------------------------------------------------------
(* Withdrawal, a new body epoch, checkpoint and restore.                   *)

\* Mutant of Untainted: evidence outlives the source it rests on.
UntaintedAll(rows, w) == rows

Untainted(rows, w) == {e \in rows : w \notin e.sources}

WithdrawWitness(w) ==
  /\ Room
  /\ probe' = [probe EXCEPT
       !.sequence = @ + 1, !.logged = @ + 1, !.gone = @ \union {w},
       !.evidence = Untainted(@, w),
       !.pending = IF @ # None /\ w \in @[1].sources \union @[1].returnSources THEN None ELSE @]
  /\ UNCHANGED <<body, sealed, kept, restores>>

AdoptMapping(e) ==
  /\ Quiet /\ Room
  /\ e > probe.epoch
  /\ probe' = [probe EXCEPT !.epoch = e, !.logged = @ + 1,
                            !.evidence = {x \in @ : x.epoch = e}]
  /\ UNCHANGED <<body, sealed, kept, restores>>

\* One checkpoint a run, and an early one.
Checkpoint ==
  /\ kept = None /\ probe.logged <= SaveBy
  /\ kept' = <<[probe |-> probe, body |-> body]>>
  /\ UNCHANGED <<probe, body, sealed, restores>>

\* Mutant of Restored: the boundary is made anew instead of read back.
RestoredAnew(state) == [state EXCEPT !.body = [clock |-> 0, applications |-> <<>>]]

Restored(state) == state

\* restore puts back the resident and the body it was saved with.
Restore ==
  /\ kept # None /\ restores < MaxRestores
  /\ probe' = Restored(kept[1]).probe /\ body' = Restored(kept[1]).body
  /\ restores' = restores + 1
  /\ UNCHANGED <<sealed, kept>>

ProbeNext ==
  \/ \E w \in Witness : IngestSample(w) \/ WithdrawWitness(w) \/ Dispatch(w)
  \/ QuietTick \/ WaitingTick
  \/ \E c \in Command, ws \in SUBSET Witness \ {{}} : OpenProbe(c, ws) \/ OpenUnrecorded(c, ws)
  \/ Advance
  \/ \E t \in DOMAIN body.applications : SealReturn(t)
  \/ \E r \in sealed : ReturnMore(r) \/ \E d \in {-1, 0, 1} : ReturnSettles(r, d)
  \/ \E e \in 1 .. MaxEpoch : AdoptMapping(e)
  \/ Checkpoint \/ Restore

ProbeSpec == ProbeInit /\ [][ProbeNext]_probeVars

-----------------------------------------------------------------------------
(* Properties.                                                             *)

\* What steers the policy was returned under the mapping in force and rests on
\* no withdrawn source, through re-mapping, withdrawal and restore.
EvidenceIsCurrent ==
  \A e \in probe.evidence : e.epoch = probe.epoch /\ e.sources \intersect probe.gone = {}

\* An episode stops samples and re-mapping, so it must end: while it is pending
\* a tick is never refused for its deadline.
WaitIsBounded == ~Quiet => probe.tick < probe.pending[1].deadline

\* The body clock never falls behind the resident's last application, nor
\* behind an open one: no dispatch is refused for its tick or reuses one.
ClockCoversApplications ==
  /\ probe.lastApply <= body.clock
  /\ \A t \in DOMAIN body.applications : t <= body.clock

=============================================================================
