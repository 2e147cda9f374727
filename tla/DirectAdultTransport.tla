------------------------ MODULE DirectAdultTransport ------------------------
(***************************************************************************)
(* The two host-to-device rings of one resident adult -- sensory ingress   *)
(* and returned consequences -- with the executor that consumes them.      *)
(*                                                                         *)
(* Three parties share the rings.  The HOST thread stages events in pinned *)
(* memory and enqueues asynchronous copies.  The TRANSPORT STREAM executes *)
(* those copies later, in order, reading the pinned memory at the time it  *)
(* executes.  The KERNEL is the cooperative persistent executor: it        *)
(* snapshots the control blocks at the head of an epoch and then consumes. *)
(*                                                                         *)
(* A cursor counts the events ever admitted to a ring; the event admitted  *)
(* at cursor c is named c + 1 (the code's transport_cursor).  The uint32   *)
(* cursors of the code wrap consistently because every ring capacity is a  *)
(* power of two, so here they are naturals.                                *)
(***************************************************************************)
EXTENDS Integers, Sequences

CONSTANTS
  Capacity,         \* [Ring -> Nat \ {0}]: kMaxIngressQueueSize, kMaxAsynchronousTickets
  PageCapacity,     \* slots of the exact-history hot page
  MotorPorts,       \* boundary_port_count: width of every motor history phase
  SettlementWidth,  \* largest history width of one settled consequence
  LearningWidth,    \* largest history width of any other resident phase
  MaxSpan,          \* largest epoch_count of a bounded span
  MaxEvents,        \* [Ring -> Nat]: bound on the events admitted to each ring
  Resident,         \* TRUE: the client starts the unbounded resident executor
  SteppedReturns    \* TRUE: the client returns consequences at host-stepped boundaries

Ring == {"ingress", "consequence"}

ASSUME CapacityAssumption == Capacity \in [Ring -> Nat \ {0}]
ASSUME HistoryAssumption ==
  /\ PageCapacity \in Nat \ {0}
  /\ MotorPorts \in Nat
  /\ SettlementWidth \in Nat \ {0} /\ LearningWidth \in Nat
ASSUME BoundAssumption == MaxSpan \in Nat \ {0} /\ MaxEvents \in [Ring -> Nat]
ASSUME DeploymentAssumption == Resident \in BOOLEAN /\ SteppedReturns \in BOOLEAN

VARIABLES
  \* host
  writeTail,      \* host_*_write_tail: staged through here
  publishTail,    \* host_*_publish_tail: enqueued on the transport stream
  observedHead,   \* host_*_observed_head: conservative reclaim frontier
  staging,        \* host_*_staging: pinned slots, 0 when never written
  publishPinned,  \* host_*_publish_slot_pinned: the one word every tail copy reads
  authority,      \* execution_authority ("starting" never outlives a call)
  hostCall,       \* the call the host thread is blocked in
  \* transport stream
  stream,         \* operations enqueued and not yet executed
  \* device
  queue,          \* ingress_queue, consequence_queue
  publishedTail,  \* IngressRingControl.published_tail
  consumedHead,   \* IngressRingControl.consumed_head
  fault,          \* IngressRingControl.fault
  stopFlag,       \* device_stop_flag
  epochsLeft,     \* epoch_limit - resident_tick; 0 and unlimited when epoch_limit = 0
  limited,        \* epoch_limit # 0
  kernel,         \* where the kernel loop is
  snap,           \* ResidentAdultEpochSnapshot: the tails seen at the epoch's head
  history,        \* the exact-history hot page
  heard           \* what the adult made of each event, in consumption order

hostVars   == <<writeTail, publishTail, observedHead, staging, publishPinned>>
lifecycle  == <<authority, hostCall>>
ringVars   == <<queue, publishedTail, consumedHead, fault>>
kernelVars == <<stopFlag, epochsLeft, limited, kernel, snap>>
vars == <<hostVars, lifecycle, stream, ringVars, kernelVars, history, heard>>

Slots(r)   == 0 .. Capacity[r] - 1
Slot(r, c) == c % Capacity[r]

Fates == {"witnessed",  \* processed, with a record in the exact history
          "unheard",    \* consumed although the history phase was refused
          "rejected",   \* consumed: unknown, duplicate or expired ticket
          "skipped"}    \* consumed cursor moved over it without processing
Ops     == [op: {"copy", "tail", "stop"}, ring: Ring, from: Nat, to: Nat]
Phases  == {"absent", "boundary", "ingress", "commit", "settle", "motor", "exited"}

TypeOK ==
  /\ writeTail \in [Ring -> Nat] /\ publishTail \in [Ring -> Nat]
  /\ observedHead \in [Ring -> Nat] /\ publishPinned \in [Ring -> Nat]
  /\ \A r \in Ring : staging[r] \in [Slots(r) -> Nat] /\ queue[r] \in [Slots(r) -> Nat]
  /\ DOMAIN staging = Ring /\ DOMAIN queue = Ring
  /\ authority \in {"host_stepped", "persistent", "stopping"}
  /\ hostCall \in {"none", "span", "stop"}
  /\ stream \in Seq(Ops)
  /\ publishedTail \in [Ring -> Nat] /\ consumedHead \in [Ring -> Nat]
  /\ fault \in [Ring -> BOOLEAN]
  /\ stopFlag \in BOOLEAN /\ limited \in BOOLEAN /\ epochsLeft \in Nat
  /\ kernel \in Phases /\ snap \in [Ring -> Nat]
  /\ history \in [committed: Nat, sealed: BOOLEAN]
  /\ heard \in [Ring -> Seq([event: Nat, fate: Fates])]

Init ==
  /\ writeTail = [r \in Ring |-> 0] /\ publishTail = [r \in Ring |-> 0]
  /\ observedHead = [r \in Ring |-> 0] /\ publishPinned = [r \in Ring |-> 0]
  /\ staging = [r \in Ring |-> [s \in Slots(r) |-> 0]]
  /\ queue = [r \in Ring |-> [s \in Slots(r) |-> 0]]
  /\ authority = "host_stepped" /\ hostCall = "none" /\ stream = <<>>
  /\ publishedTail = [r \in Ring |-> 0] /\ consumedHead = [r \in Ring |-> 0]
  /\ fault = [r \in Ring |-> FALSE]
  /\ stopFlag = FALSE /\ epochsLeft = 0 /\ limited = FALSE
  /\ kernel = "absent" /\ snap = [r \in Ring |-> 0]
  /\ history = [committed |-> 0, sealed |-> FALSE]
  /\ heard = [r \in Ring |-> <<>>]

-----------------------------------------------------------------------------
(* The exact-history hot page: a phase reserves its whole width or seals    *)
(* the page; a finished phase keeps the records actually written.           *)

Admits(width) == ~history.sealed /\ history.committed + width <= PageCapacity

Finish(records) ==
  [committed |-> history.committed + records,
   sealed    |-> history.committed + records = PageCapacity]

Seal == [history EXCEPT !.sealed = TRUE]

-----------------------------------------------------------------------------
(* Host: staging and publication.                                           *)

\* The reclaim frontier an admission uses.  A full ring first drains the
\* transport stream and reads the device's consumed_head.
Full(r) == writeTail[r] - observedHead[r] >= Capacity[r]

\* Mutant of Frontier: reclaims what is published, not what is consumed.
FrontierAtPublished(r) == IF Full(r) THEN publishedTail[r] ELSE observedHead[r]

Frontier(r) == IF Full(r) THEN consumedHead[r] ELSE observedHead[r]

\* Mutant of RefreshDone: reads consumed_head without synchronizing the stream.
RefreshUnsynced(r) == Full(r) => TRUE

RefreshDone(r) == Full(r) => stream = <<>>

\* stage_sensory_events; enqueue_consequence_staging while persistent.
Stage(r) ==
  /\ hostCall = "none"
  /\ r = "consequence" => authority = "persistent"
  /\ writeTail[r] < MaxEvents[r]
  /\ RefreshDone(r)
  /\ writeTail[r] - Frontier(r) < Capacity[r]
  /\ observedHead' = [observedHead EXCEPT ![r] = Frontier(r)]
  /\ staging' = [staging EXCEPT ![r][Slot(r, writeTail[r])] = writeTail[r] + 1]
  /\ writeTail' = [writeTail EXCEPT ![r] = @ + 1]
  /\ UNCHANGED <<publishTail, publishPinned, lifecycle, stream, ringVars,
                 kernelVars, history, heard>>

\* A ring still full after the refresh drops the event and says so.
StageRefused(r) ==
  /\ hostCall = "none"
  /\ r = "consequence" => authority = "persistent"
  /\ RefreshDone(r)
  /\ writeTail[r] - Frontier(r) >= Capacity[r]
  /\ observedHead' = [observedHead EXCEPT ![r] = Frontier(r)]
  /\ UNCHANGED <<writeTail, publishTail, staging, publishPinned, lifecycle,
                 stream, ringVars, kernelVars, history, heard>>

CopyOps(r, from, to) ==
  LET wrap == (from \div Capacity[r] + 1) * Capacity[r]
      copy(a, b) == [op |-> "copy", ring |-> r, from |-> a, to |-> b]
  IN  IF to <= wrap THEN <<copy(from, to)>> ELSE <<copy(from, wrap), copy(wrap, to)>>

TailOp(r) == [op |-> "tail", ring |-> r, from |-> 0, to |-> 0]
StopOp    == [op |-> "stop", ring |-> "ingress", from |-> 0, to |-> 0]

\* publish_ingress_transport, publish_consequence_transport.  The tail copy
\* reads publishPinned when it executes, not now; nothing waits for an earlier one.
Publish(r) ==
  /\ hostCall = "none"
  /\ publishTail[r] < writeTail[r]
  /\ stream' = stream \o CopyOps(r, publishTail[r], writeTail[r]) \o <<TailOp(r)>>
  /\ publishPinned' = [publishPinned EXCEPT ![r] = writeTail[r]]
  /\ publishTail' = [publishTail EXCEPT ![r] = writeTail[r]]
  /\ UNCHANGED <<writeTail, observedHead, staging, lifecycle, ringVars,
                 kernelVars, history, heard>>

\* enqueue_consequence_staging at a host-stepped boundary settles at once, and
\* moves every consequence frontier past whatever still waits in the ring.
SettleStepped(width) ==
  LET r == "consequence"  tail == writeTail[r] + 1
      skipped == [i \in 1 .. writeTail[r] - consumedHead[r] |->
                    [event |-> consumedHead[r] + i, fate |-> "skipped"]]
  IN
  /\ SteppedReturns /\ hostCall = "none" /\ authority # "persistent"
  /\ writeTail[r] < MaxEvents[r]
  /\ RefreshDone(r) /\ writeTail[r] - Frontier(r) < Capacity[r]
  /\ Admits(width)
  /\ history' = Finish(width)
  /\ staging' = [staging EXCEPT ![r][Slot(r, writeTail[r])] = tail]
  /\ writeTail' = [writeTail EXCEPT ![r] = tail]
  /\ observedHead' = [observedHead EXCEPT ![r] = tail]
  /\ publishTail' = [publishTail EXCEPT ![r] = tail]
  /\ publishPinned' = [publishPinned EXCEPT ![r] = tail]
  /\ publishedTail' = [publishedTail EXCEPT ![r] = tail]
  /\ consumedHead' = [consumedHead EXCEPT ![r] = tail]
  /\ heard' = [heard EXCEPT ![r] = @ \o skipped \o
                 <<[event |-> tail, fate |-> "witnessed"]>>]
  /\ UNCHANGED <<lifecycle, stream, queue, fault, kernelVars>>

\* A rejected or history-refused return rolls write_tail back.
SettleSteppedRefused ==
  LET r == "consequence" IN
  /\ SteppedReturns /\ hostCall = "none" /\ authority # "persistent"
  /\ writeTail[r] < MaxEvents[r]
  /\ RefreshDone(r) /\ writeTail[r] - Frontier(r) < Capacity[r]
  /\ staging' = [staging EXCEPT ![r][Slot(r, writeTail[r])] = writeTail[r] + 1]
  /\ observedHead' = [observedHead EXCEPT ![r] = Frontier(r)]
  /\ UNCHANGED <<writeTail, publishTail, publishPinned, lifecycle, stream,
                 ringVars, kernelVars, history, heard>>

-----------------------------------------------------------------------------
(* The transport stream: operations execute in order, some time later.      *)

Pop == stream' = Tail(stream)

CopyStep ==
  LET o == Head(stream) IN
  /\ stream # <<>> /\ o.op = "copy"
  /\ Pop
  /\ queue' = [queue EXCEPT ![o.ring] =
       [s \in Slots(o.ring) |->
          IF \E c \in o.from .. o.to - 1 : Slot(o.ring, c) = s
          THEN staging[o.ring][s] ELSE @[s]]]
  /\ UNCHANGED <<hostVars, lifecycle, publishedTail, consumedHead, fault,
                 kernelVars, history, heard>>

TailStep ==
  LET o == Head(stream) IN
  /\ stream # <<>> /\ o.op = "tail"
  /\ Pop
  /\ publishedTail' = [publishedTail EXCEPT ![o.ring] = publishPinned[o.ring]]
  /\ UNCHANGED <<hostVars, lifecycle, queue, consumedHead, fault, kernelVars,
                 history, heard>>

StopStep ==
  /\ stream # <<>> /\ Head(stream).op = "stop"
  /\ Pop
  /\ stopFlag' = TRUE
  /\ UNCHANGED <<hostVars, lifecycle, ringVars, epochsLeft, limited, kernel,
                 snap, history, heard>>

TransportStep == CopyStep \/ TailStep \/ StopStep

-----------------------------------------------------------------------------
(* The persistent kernel loop.                                              *)

\* launch_persistent_direct_adult, with epoch_limit = current_tick + n, or
\* with none.  It first drains both streams.
Launch(isLimited, n) ==
  /\ hostCall = "none" /\ authority = "host_stepped" /\ stream = <<>>
  /\ authority' = "persistent"
  /\ stopFlag' = FALSE /\ limited' = isLimited /\ epochsLeft' = n
  /\ kernel' = "boundary"
  /\ UNCHANGED <<hostVars, stream, ringVars, snap, history, heard>>

StartPersistent == Resident /\ Launch(FALSE, 0) /\ hostCall' = "none"

\* run_persistent_direct_adult_epochs, up to the wait for the span.
RunSpan(n) == Launch(TRUE, n) /\ hostCall' = "span"

CountInvalid(r) == publishedTail[r] - consumedHead[r] \notin 0 .. Capacity[r]

\* Mutant of Snapshot: the epoch limit is never compared.
SnapshotUnlimited(clockWrapped) ==
  /\ kernel = "boundary" /\ (clockWrapped => ~limited)
  /\ fault' = [r \in Ring |-> fault[r] \/ CountInvalid(r)]
  /\ snap' = publishedTail
  /\ epochsLeft' = IF limited THEN epochsLeft - 1 ELSE epochsLeft
  /\ kernel' = IF stopFlag \/ clockWrapped THEN "exited" ELSE "ingress"
  /\ UNCHANGED <<hostVars, lifecycle, stream, queue, publishedTail,
                 consumedHead, stopFlag, limited, history, heard>>

\* Mutant of Snapshot: a run without a limit never looks at the stop flag.
SnapshotDeafToStop(clockWrapped) ==
  LET stop == (limited /\ (stopFlag \/ epochsLeft = 0)) \/ clockWrapped
  IN
  /\ kernel = "boundary" /\ (clockWrapped => ~limited)
  /\ fault' = [r \in Ring |-> fault[r] \/ CountInvalid(r)]
  /\ snap' = publishedTail
  /\ epochsLeft' = IF limited /\ ~stop THEN epochsLeft - 1 ELSE epochsLeft
  /\ kernel' = IF stop THEN "exited" ELSE "ingress"
  /\ UNCHANGED <<hostVars, lifecycle, stream, queue, publishedTail,
                 consumedHead, stopFlag, limited, history, heard>>

\* Rank 0's epoch snapshot.  clockWrapped stands for resident_tick = UINT32_MAX,
\* which only an unlimited run can reach.
Snapshot(clockWrapped) ==
  LET stop == stopFlag \/ (limited /\ epochsLeft = 0) \/ clockWrapped
      bad  == \E r \in Ring : CountInvalid(r)
  IN
  /\ kernel = "boundary"
  /\ clockWrapped => ~limited
  /\ fault' = [r \in Ring |-> fault[r] \/ CountInvalid(r)]
  /\ snap' = publishedTail
  /\ epochsLeft' = IF limited /\ ~stop THEN epochsLeft - 1 ELSE epochsLeft
  /\ kernel' = IF stop \/ bad THEN "exited" ELSE "ingress"
  /\ UNCHANGED <<hostVars, lifecycle, stream, queue, publishedTail,
                 consumedHead, stopFlag, limited, history, heard>>

NewContacts == snap["ingress"] - consumedHead["ingress"]

\* Mutant of IngressPhase: reads each contact one slot too far.
IngressPhaseOffByOne ==
  LET r == "ingress"
      batch == [i \in 1 .. NewContacts |->
                  [event |-> queue[r][Slot(r, consumedHead[r] + i)],
                   fate  |-> IF Admits(NewContacts) THEN "witnessed" ELSE "unheard"]]
  IN
  /\ kernel = "ingress" /\ NewContacts > 0
  /\ history' = IF Admits(NewContacts) THEN Finish(NewContacts) ELSE Seal
  /\ heard' = [heard EXCEPT ![r] = @ \o batch]
  /\ kernel' = "commit"
  /\ UNCHANGED <<hostVars, lifecycle, stream, ringVars, stopFlag, epochsLeft,
                 limited, snap>>

\* Mutant of IngressPhase: a refused batch stays in the ring for a later epoch.
IngressPhaseRetries ==
  LET r == "ingress"
      batch == [i \in 1 .. NewContacts |->
                  [event |-> queue[r][Slot(r, consumedHead[r] + i - 1)],
                   fate  |-> "witnessed"]]
  IN
  /\ kernel = "ingress" /\ NewContacts > 0
  /\ IF Admits(NewContacts)
     THEN /\ history' = Finish(NewContacts)
          /\ heard' = [heard EXCEPT ![r] = @ \o batch]
          /\ kernel' = "commit"
     ELSE history' = Seal /\ heard' = heard /\ kernel' = "settle"
  /\ UNCHANGED <<hostVars, lifecycle, stream, ringVars, stopFlag, epochsLeft,
                 limited, snap>>

\* persistent_ingress_phase_device up to the read of the ring: the whole batch
\* enters the exact history, or the page is sealed and nothing is processed.
IngressPhase ==
  LET r == "ingress"  first == consumedHead[r]
      admitted == Admits(NewContacts)
      batch == [i \in 1 .. NewContacts |->
                  [event |-> queue[r][Slot(r, first + i - 1)],
                   fate  |-> IF admitted THEN "witnessed" ELSE "unheard"]]
  IN
  /\ kernel = "ingress" /\ NewContacts > 0
  /\ history' = IF admitted THEN Finish(NewContacts) ELSE Seal
  /\ heard' = [heard EXCEPT ![r] = @ \o batch]
  /\ kernel' = "commit"
  /\ UNCHANGED <<hostVars, lifecycle, stream, ringVars, stopFlag, epochsLeft,
                 limited, snap>>

\* Mutant of IngressCommit: stores the batch's size instead of its end.
IngressCommitCount ==
  /\ kernel = "commit"
  /\ consumedHead' = [consumedHead EXCEPT !["ingress"] = NewContacts]
  /\ kernel' = "settle"
  /\ UNCHANGED <<hostVars, lifecycle, stream, queue, publishedTail, fault,
                 stopFlag, epochsLeft, limited, snap, history, heard>>

\* Mutant of IngressCommit: one contact per epoch.
IngressCommitOne ==
  /\ kernel = "commit"
  /\ consumedHead' = [consumedHead EXCEPT !["ingress"] = @ + 1]
  /\ kernel' = "settle"
  /\ UNCHANGED <<hostVars, lifecycle, stream, queue, publishedTail, fault,
                 stopFlag, epochsLeft, limited, snap, history, heard>>

\* The cursor advances over the batch whether or not it was admitted.
IngressCommit ==
  /\ kernel = "commit"
  /\ consumedHead' = [consumedHead EXCEPT !["ingress"] = snap["ingress"]]
  /\ kernel' = "settle"
  /\ UNCHANGED <<hostVars, lifecycle, stream, queue, publishedTail, fault,
                 stopFlag, epochsLeft, limited, snap, history, heard>>

NoIngress ==
  /\ kernel = "ingress" /\ NewContacts = 0
  /\ kernel' = "settle"
  /\ UNCHANGED <<hostVars, lifecycle, stream, ringVars, stopFlag, epochsLeft,
                 limited, snap, history, heard>>

ReturnsLeft == consumedHead["consequence"] < snap["consequence"]

\* One turn of the settlement loop that consumes its event.
SettleOne(fate, page) ==
  LET r == "consequence" IN
  /\ kernel = "settle" /\ ReturnsLeft
  /\ history' = page
  /\ heard' = [heard EXCEPT ![r] = Append(@,
       [event |-> queue[r][Slot(r, consumedHead[r])], fate |-> fate])]
  /\ consumedHead' = [consumedHead EXCEPT ![r] = @ + 1]
  /\ UNCHANGED <<hostVars, lifecycle, stream, queue, publishedTail, fault,
                 kernelVars>>

Settled(width) == Admits(width) /\ SettleOne("witnessed", Finish(width))

\* Unknown, duplicate, expired or ancestry-refused tickets are consumed.
Rejected == SettleOne("rejected", history)

\* The loop ends, or the resolver refuses for lack of history or of a valid
\* credit plan: it breaks off and retries the same event next epoch.
SettlementEnds ==
  /\ kernel = "settle"
  /\ kernel' = "motor"
  /\ UNCHANGED <<hostVars, lifecycle, stream, ringVars, stopFlag, epochsLeft,
                 limited, snap, history, heard>>

\* Everything else in the epoch that writes history -- mismatch credit before
\* the ingress phase; language, development, construction and maintenance after
\* settlement -- each a phase of some width, or a page sealed for want of room.
Learn(width, records) ==
  /\ kernel \in {"ingress", "motor"} /\ records <= width
  /\ history' = IF Admits(width) THEN Finish(records) ELSE Seal
  /\ UNCHANGED <<hostVars, lifecycle, stream, ringVars, kernelVars, heard>>

\* The motor phase reserves one slot per boundary port and keeps those of the
\* motors it emitted.
MotorPhase(motors) ==
  /\ kernel = "motor"
  /\ history' = IF Admits(MotorPorts) THEN Finish(motors) ELSE Seal
  /\ kernel' = "boundary"
  /\ UNCHANGED <<hostVars, lifecycle, stream, ringVars, stopFlag, epochsLeft,
                 limited, snap, heard>>

KernelStep ==
  \/ \E wrapped \in BOOLEAN : Snapshot(wrapped)
  \/ IngressPhase \/ IngressCommit \/ NoIngress
  \/ \E width \in 1 .. SettlementWidth : Settled(width)
  \/ Rejected \/ SettlementEnds
  \/ \E width \in 1 .. LearningWidth : \E records \in 0 .. width : Learn(width, records)
  \/ \E motors \in 0 .. MotorPorts : MotorPhase(motors)

-----------------------------------------------------------------------------
(* Leaving persistent execution.                                            *)

\* stop_persistent_direct_adult, up to its wait for the kernel: the flag
\* travels on the transport stream, behind everything already published.
StopPersistent ==
  /\ hostCall = "none" /\ authority = "persistent"
  /\ authority' = "stopping" /\ hostCall' = "stop"
  /\ stream' = Append(stream, StopOp)
  /\ UNCHANGED <<hostVars, ringVars, kernelVars, history, heard>>

RingValid(r) ==
  /\ ~fault[r] /\ ~CountInvalid(r)
  /\ publishTail[r] = publishedTail[r]
  /\ writeTail[r] - consumedHead[r] \in 0 .. Capacity[r]

BoundaryValid == \A r \in Ring : RingValid(r)

\* Mutant of Reconcile: compares the frontiers while copies are in flight.
ReconcileUndrained ==
  /\ kernel = "exited"
  /\ observedHead' = IF BoundaryValid THEN consumedHead ELSE observedHead
  /\ authority' = IF BoundaryValid THEN "host_stepped" ELSE "stopping"
  /\ stopFlag' = FALSE /\ limited' = FALSE /\ epochsLeft' = 0
  /\ kernel' = "absent" /\ hostCall' = "none"
  /\ UNCHANGED <<writeTail, publishTail, staging, publishPinned, stream,
                 ringVars, snap, heard>>

\* reconcile_persistent_boundary: the kernel has ended and the transport
\* stream is drained; the host adopts the device's frontiers if they agree.
Reconcile ==
  /\ kernel = "exited" /\ stream = <<>>
  /\ observedHead' = IF BoundaryValid THEN consumedHead ELSE observedHead
  /\ authority' = IF BoundaryValid THEN "host_stepped" ELSE "stopping"
  /\ stopFlag' = FALSE /\ limited' = FALSE /\ epochsLeft' = 0
  /\ kernel' = "absent" /\ hostCall' = "none"
  /\ UNCHANGED <<writeTail, publishTail, staging, publishPinned, stream,
                 ringVars, snap, heard>>

StopReturns == hostCall = "stop" /\ Reconcile /\ UNCHANGED history

\* A span ends with page_completed_direct_exact_history, whose archive may
\* fail; a failed archive leaves the sealed page in place.
SpanReturns(archived) ==
  /\ hostCall = "span" /\ Reconcile
  /\ archived => history.sealed /\ history.committed > 0 /\ BoundaryValid
  /\ history' = IF archived THEN [committed |-> 0, sealed |-> FALSE] ELSE history

HostStep ==
  \/ \E r \in Ring : Stage(r) \/ StageRefused(r) \/ Publish(r)
  \/ \E width \in 1 .. SettlementWidth : SettleStepped(width)
  \/ SettleSteppedRefused
  \/ StartPersistent \/ StopPersistent
  \/ \E n \in 1 .. MaxSpan : RunSpan(n)

CallReturns == StopReturns \/ \E archived \in BOOLEAN : SpanReturns(archived)

Next == HostStep \/ TransportStep \/ KernelStep \/ CallReturns

Spec == Init /\ [][Next]_vars

\* The device makes progress and a blocked call returns once it may; what the
\* client asks for, and when, is not fair.
Fairness == WF_vars(TransportStep) /\ WF_vars(KernelStep) /\ WF_vars(CallReturns)

FairSpec == Spec /\ Fairness

-----------------------------------------------------------------------------
(* Correctness.                                                             *)

\* The five frontiers of a ring never cross and never span more than the ring:
\* reclaim behind consumption behind publication behind staging.  This is what
\* every "ring invariant violated" throw of the host and every fault word of
\* the device guards against.
RingOrder == \A r \in Ring :
  /\ observedHead[r] <= consumedHead[r]
  /\ consumedHead[r] <= publishedTail[r]
  /\ publishedTail[r] <= publishTail[r]
  /\ publishTail[r] <= writeTail[r]
  /\ writeTail[r] <= observedHead[r] + Capacity[r]

\* No epoch ever sees an impossible ring, and every boundary the runtime reaches
\* is accepted: execution authority always returns to host_stepped, so the adult
\* can always be checkpointed or restarted (reconcile_persistent_boundary).
BoundaryTrusted ==
  /\ \A r \in Ring : ~fault[r]
  /\ authority = "stopping" => hostCall = "stop"

\* A pinned staging slot is not written again before the copy that reads it has
\* executed: the reclaim frontier never runs ahead of the transport stream.
StagingStable ==
  \A i \in 1 .. Len(stream) :
    stream[i].op = "copy" =>
      \A c \in stream[i].from .. stream[i].to - 1 :
        staging[stream[i].ring][Slot(stream[i].ring, c)] = c + 1

\* The adult hears each ring exactly once and in the order of admission: what
\* it processes at cursor c is the event staged at cursor c, never a stale slot.
HeardInOrder ==
  \A r \in Ring : \A i \in 1 .. Len(heard[r]) : heard[r][i].event = i

\* A consumed event was processed; none is passed over by the cursor alone.
\* (08_direct_adult_runtime_causality.md: raw transport becomes a
\* history-witnessed resident contact before its cursor is committed.)
ConsumedIsWitnessed ==
  \A i \in 1 .. Len(heard["ingress"]) : heard["ingress"][i].fate = "witnessed"

\* Device frontiers move forward only, although the tail copies read a word the
\* host keeps rewriting and two paths write the consequence frontiers.
FrontiersAdvance ==
  [][\A r \in Ring : /\ observedHead[r] <= observedHead'[r]
                     /\ consumedHead[r] <= consumedHead'[r]
                     /\ publishedTail[r] <= publishedTail'[r]]_vars

\* A bounded span consumes every contact published before it: when the call
\* returns, whether or not its page could be archived, none is left.
SpanDrainsIngress ==
  [][hostCall = "span" /\ hostCall' = "none" =>
       consumedHead'["ingress"] = publishTail["ingress"]]_vars

\* While the resident executor runs, a published contact is consumed, however
\* long the settlement loop refuses returns, unless the run itself ends.
PublishedIsConsumed ==
  \A n \in 1 .. MaxEvents["ingress"] :
    publishTail["ingress"] >= n /\ authority = "persistent"
      ~> consumedHead["ingress"] >= n \/ authority # "persistent" \/ kernel = "exited"

\* A sealed page ends the run it was sealed in, so that it can be archived: the
\* executors "share the same finite exact-history paging boundary"
\* (direct_adult_core.cuh).
SealedPageReturns ==
  history.sealed /\ authority = "persistent"
    ~> ~history.sealed \/ authority # "persistent" \/ kernel = "exited"

\* What the rings promise their client (ContactLedger): each event decided once,
\* in the order of its admission, under its own name.
Ledger == INSTANCE ContactLedger
            WITH Fate <- Fates, admitted <- writeTail, decided <- heard

ImplementsLedger == Ledger!Spec

\* A host thread blocked in a span or in a stop comes back: the stop flag
\* travels behind every pending copy and is not lost to a racing launch.
CallsReturn == hostCall # "none" ~> hostCall = "none"

=============================================================================
