--------------------- MODULE DirectAdultTransport_proofs ---------------------
(* Theorems about DirectAdultTransport, for every ring capacity, page, span   *)
(* and deployment.                                                            *)
EXTENDS DirectAdultTransport, SequenceTheorems, TLAPS

-----------------------------------------------------------------------------
(* Type correctness.                                                          *)

LEMMA SlotType ==
  ASSUME NEW r \in Ring, NEW c \in Nat
  PROVE  Slot(r, c) \in Slots(r)
BY CapacityAssumption DEF Slot, Slots

LEMMA CapacityPositive ==
  ASSUME NEW r \in Ring
  PROVE  Capacity[r] \in Nat /\ Capacity[r] > 0
BY CapacityAssumption

\* A publication enqueues one or two copies.
LEMMA CopyOpsType ==
  ASSUME NEW r \in Ring, NEW from \in Nat, NEW to \in Nat
  PROVE  CopyOps(r, from, to) \in Seq(Ops)
<1> DEFINE wrap == (from \div Capacity[r] + 1) * Capacity[r]
<1>1. wrap \in Nat
  <2>1. from \div Capacity[r] \in Nat
    BY CapacityPositive
  <2>. QED BY <2>1, CapacityPositive
<1>2. [op |-> "copy", ring |-> r, from |-> from, to |-> to] \in Ops
  BY DEF Ops
<1>3. [op |-> "copy", ring |-> r, from |-> from, to |-> wrap] \in Ops
  BY <1>1 DEF Ops
<1>4. [op |-> "copy", ring |-> r, from |-> wrap, to |-> to] \in Ops
  BY <1>1 DEF Ops
<1>. HIDE DEF wrap
<1>. QED BY <1>2, <1>3, <1>4 DEF CopyOps, wrap

\* Every operation on the hot page yields a page.
LEMMA HistoryType ==
  ASSUME history \in [committed: Nat, sealed: BOOLEAN]
  PROVE  /\ Seal \in [committed: Nat, sealed: BOOLEAN]
         /\ \A n \in Nat : Finish(n) \in [committed: Nat, sealed: BOOLEAN]
<1>2. Seal \in [committed: Nat, sealed: BOOLEAN]
  BY DEF Seal
<1>3. ASSUME NEW n \in Nat PROVE Finish(n) \in [committed: Nat, sealed: BOOLEAN]
  <2>. DEFINE full == history.committed + n = PageCapacity
  <2>1. full \in BOOLEAN
    OBVIOUS
  <2>. HIDE DEF full
  <2>2. [committed |-> history.committed + n, sealed |-> full]
          \in [committed: Nat, sealed: BOOLEAN]
    BY <2>1
  <2>. QED BY <2>2 DEF Finish, full
<1>. QED BY <1>2, <1>3

\* An array of slots stays one when a slot is written.
LEMMA SlotWritten ==
  ASSUME TypeOK, NEW r \in Ring, NEW c \in Nat, NEW e \in Nat,
         NEW new, new = [staging EXCEPT ![r][Slot(r, c)] = e]
  PROVE  /\ DOMAIN new = Ring
         /\ \A q \in Ring : new[q] \in [Slots(q) -> Nat]
<1>1. Slot(r, c) \in Slots(r)
  BY SlotType
<1>2. [staging[r] EXCEPT ![Slot(r, c)] = e] \in [Slots(r) -> Nat]
  BY <1>1 DEF TypeOK
<1>3. new = [staging EXCEPT ![r] = [staging[r] EXCEPT ![Slot(r, c)] = e]]
  BY DEF TypeOK
<1>. QED BY <1>2, <1>3 DEF TypeOK

\* A function over an initial segment is a sequence, be the segment empty.
LEMMA SegmentIsSeq ==
  ASSUME NEW S, NEW n \in Int, NEW f \in [1 .. n -> S]
  PROVE  f \in Seq(S)
<1>1. CASE n \in Nat
  BY <1>1, SeqDef
<1>2. CASE n < 0
  <2>1. 1 .. n = 1 .. 0
    BY <1>2
  <2>. QED BY <2>1, SeqDef
<1>. QED BY <1>1, <1>2

LEMMA HeardType ==
  ASSUME TypeOK, NEW r \in Ring, NEW batch \in Seq([event: Nat, fate: Fates]),
         NEW new, new = [heard EXCEPT ![r] = @ \o batch]
  PROVE  new \in [Ring -> Seq([event: Nat, fate: Fates])]
<1>1. heard \in [Ring -> Seq([event: Nat, fate: Fates])]
  BY DEF TypeOK
<1>2. heard[r] \o batch \in Seq([event: Nat, fate: Fates])
  BY <1>1, ConcatProperties
<1>. QED BY <1>1, <1>2

LEMMA InitTypeOK == Init => TypeOK
<1>. SUFFICES ASSUME Init PROVE TypeOK
  OBVIOUS
<1>1. stream \in Seq(Ops) /\ heard \in [Ring -> Seq([event: Nat, fate: Fates])]
  BY DEF Init
<1>2. \A r \in Ring : staging[r] \in [Slots(r) -> Nat] /\ queue[r] \in [Slots(r) -> Nat]
  BY DEF Init
<1>3. history \in [committed: Nat, sealed: BOOLEAN]
  BY DEF Init
<1>. QED BY <1>1, <1>2, <1>3 DEF Init, TypeOK, Phases

\* The types survive every step.
LEMMA NextTypeOK == TypeOK /\ [Next]_vars => TypeOK'
<1>. SUFFICES ASSUME TypeOK, [Next]_vars PROVE TypeOK'
  OBVIOUS
<1>. USE DEF hostVars, lifecycle, ringVars, kernelVars
<1>a. \A r \in Ring : Frontier(r) \in Nat
  BY DEF TypeOK, Frontier
<1>b. "ingress" \in Ring /\ "consequence" \in Ring
  BY DEF Ring
<1>c. /\ writeTail \in [Ring -> Nat] /\ consumedHead \in [Ring -> Nat]
      /\ snap \in [Ring -> Nat] /\ stream \in Seq(Ops)
  BY DEF TypeOK
<1>d. heard \in [Ring -> Seq([event: Nat, fate: Fates])]
  BY DEF TypeOK
<1>1. ASSUME NEW r \in Ring, Stage(r) PROVE TypeOK'
  <2>1. /\ DOMAIN staging' = Ring
        /\ \A q \in Ring : staging'[q] \in [Slots(q) -> Nat]
    <3>1. writeTail[r] \in Nat /\ writeTail[r] + 1 \in Nat
      BY DEF TypeOK
    <3>2. staging' = [staging EXCEPT ![r][Slot(r, writeTail[r])] = writeTail[r] + 1]
      BY <1>1 DEF Stage
    <3>. QED BY ONLY <3>1, <3>2, SlotWritten, TypeOK, r \in Ring
  <2>2. writeTail' \in [Ring -> Nat] /\ observedHead' \in [Ring -> Nat]
    <3>1. /\ writeTail' = [writeTail EXCEPT ![r] = @ + 1]
          /\ observedHead' = [observedHead EXCEPT ![r] = Frontier(r)]
      BY <1>1 DEF Stage
    <3>2. observedHead \in [Ring -> Nat] /\ Frontier(r) \in Nat
      BY <1>a DEF TypeOK
    <3>. QED BY ONLY <3>1, <3>2, <1>c, r \in Ring
  <2>3. /\ UNCHANGED <<publishTail, publishPinned, queue, authority, hostCall, stream>>
        /\ UNCHANGED <<publishedTail, consumedHead, fault, stopFlag, limited, epochsLeft>>
        /\ UNCHANGED <<kernel, snap, history, heard>>
    BY <1>1 DEF Stage
  <2>. QED BY <2>1, <2>2, <2>3 DEF TypeOK
<1>2. ASSUME NEW r \in Ring, StageRefused(r) PROVE TypeOK'
  BY <1>2, <1>a DEF StageRefused, TypeOK
<1>3. ASSUME NEW r \in Ring, Publish(r) PROVE TypeOK'
  <2>1. CopyOps(r, publishTail[r], writeTail[r]) \in Seq(Ops)
    BY CopyOpsType DEF TypeOK
  <2>2. <<TailOp(r)>> \in Seq(Ops)
    BY DEF TailOp, Ops
  <2>3. stream' \in Seq(Ops)
    BY <1>3, <2>1, <2>2 DEF Publish, TypeOK
  <2>. QED BY <1>3, <2>3 DEF Publish, TypeOK
<1>4. ASSUME NEW width \in 1 .. SettlementWidth, SettleStepped(width) PROVE TypeOK'
  <2>. DEFINE r == "consequence"
              tail == writeTail[r] + 1
              skipped == [i \in 1 .. writeTail[r] - consumedHead[r] |->
                            [event |-> consumedHead[r] + i, fate |-> "skipped"]]
  <2>0. tail \in Nat /\ writeTail[r] \in Nat /\ consumedHead[r] \in Nat
    BY <1>b, <1>c
  <2>1. /\ DOMAIN staging' = Ring
        /\ \A q \in Ring : staging'[q] \in [Slots(q) -> Nat]
    <3>1. staging' = [staging EXCEPT ![r][Slot(r, writeTail[r])] = tail]
      BY <1>4 DEF SettleStepped
    <3>2. r \in Ring /\ TypeOK
      BY <1>b
    <3>. HIDE DEF r, tail
    <3>. QED BY ONLY <2>0, <3>1, <3>2, SlotWritten
  <2>2. history' \in [committed: Nat, sealed: BOOLEAN]
    <3>1. width \in Nat
      BY HistoryAssumption
    <3>. QED BY <1>4, <3>1, HistoryType DEF SettleStepped, TypeOK
  <2>3. heard' \in [Ring -> Seq([event: Nat, fate: Fates])]
    <3>1. skipped \in Seq([event: Nat, fate: Fates])
      <4>1. \A i \in 1 .. writeTail[r] - consumedHead[r] :
              [event |-> consumedHead[r] + i, fate |-> "skipped"]
                \in [event: Nat, fate: Fates]
        BY <2>0 DEF Fates
      <4>2. skipped \in [1 .. writeTail[r] - consumedHead[r] -> [event: Nat, fate: Fates]]
        BY <4>1
      <4>3. writeTail[r] - consumedHead[r] \in Int
        BY <2>0
      <4>. HIDE DEF skipped
      <4>. QED BY <4>2, <4>3, SegmentIsSeq
    <3>2. <<[event |-> tail, fate |-> "witnessed"]>> \in Seq([event: Nat, fate: Fates])
      BY <2>0 DEF Fates
    <3>4. heard[r] \in Seq([event: Nat, fate: Fates])
      BY <1>b, <1>d
    <3>5. heard[r] \o skipped \o <<[event |-> tail, fate |-> "witnessed"]>>
            \in Seq([event: Nat, fate: Fates])
      <4>. HIDE DEF skipped, tail
      <4>1. heard[r] \o skipped \in Seq([event: Nat, fate: Fates])
        BY <3>1, <3>4, ConcatProperties
      <4>. QED BY <3>2, <4>1, ConcatProperties
    <3>6. heard' = [heard EXCEPT ![r] =
                      heard[r] \o skipped \o <<[event |-> tail, fate |-> "witnessed"]>>]
      BY <1>4 DEF SettleStepped
    <3>. HIDE DEF skipped, tail
    <3>. QED BY <3>5, <3>6, <1>b, <1>d
  <2>4. /\ writeTail' \in [Ring -> Nat] /\ observedHead' \in [Ring -> Nat]
        /\ publishTail' \in [Ring -> Nat] /\ publishPinned' \in [Ring -> Nat]
        /\ publishedTail' \in [Ring -> Nat] /\ consumedHead' \in [Ring -> Nat]
    BY <1>4, <2>0 DEF SettleStepped, TypeOK
  <2>. QED BY <1>4, <2>1, <2>2, <2>3, <2>4 DEF SettleStepped, TypeOK
<1>5. ASSUME SettleSteppedRefused PROVE TypeOK'
  <2>1. /\ DOMAIN staging' = Ring
        /\ \A q \in Ring : staging'[q] \in [Slots(q) -> Nat]
    <3>1. writeTail["consequence"] \in Nat /\ writeTail["consequence"] + 1 \in Nat
      BY <1>b, <1>c
    <3>. DEFINE r == "consequence"
    <3>2. staging' = [staging EXCEPT ![r][Slot(r, writeTail[r])] = writeTail[r] + 1]
      BY <1>5 DEF SettleSteppedRefused
    <3>3. r \in Ring /\ TypeOK
      BY <1>b
    <3>. HIDE DEF r
    <3>. QED BY ONLY <3>1, <3>2, <3>3, SlotWritten DEF r
  <2>2. observedHead' \in [Ring -> Nat]
    BY <1>5, <1>a, <1>b DEF SettleSteppedRefused, TypeOK
  <2>. QED BY <1>5, <2>1, <2>2 DEF SettleSteppedRefused, TypeOK
<1>6. ASSUME StartPersistent PROVE TypeOK'
  BY <1>6 DEF StartPersistent, Launch, TypeOK, Phases
<1>7. ASSUME StopPersistent PROVE TypeOK'
  <2>1. stream' \in Seq(Ops)
    BY <1>7 DEF StopPersistent, StopOp, Ops, Ring, TypeOK
  <2>. QED BY <1>7, <2>1 DEF StopPersistent, TypeOK
<1>8. ASSUME NEW n \in 1 .. MaxSpan, RunSpan(n) PROVE TypeOK'
  <2>1. n \in Nat
    BY BoundAssumption
  <2>. QED BY <1>8, <2>1 DEF RunSpan, Launch, TypeOK, Phases
<1>9. ASSUME CopyStep PROVE TypeOK'
  <2>. DEFINE o == Head(stream)
  <2>1. o \in Ops /\ stream' \in Seq(Ops)
    BY <1>9 DEF CopyStep, Pop, TypeOK
  <2>2. /\ DOMAIN queue' = Ring
        /\ \A q \in Ring : queue'[q] \in [Slots(q) -> Nat]
    <3>1. [s \in Slots(o.ring) |->
             IF \E c \in o.from .. o.to - 1 : Slot(o.ring, c) = s
             THEN staging[o.ring][s] ELSE queue[o.ring][s]] \in [Slots(o.ring) -> Nat]
      BY <2>1 DEF TypeOK, Ops
    <3>2. queue' = [queue EXCEPT ![o.ring] =
            [s \in Slots(o.ring) |->
               IF \E c \in o.from .. o.to - 1 : Slot(o.ring, c) = s
               THEN staging[o.ring][s] ELSE queue[o.ring][s]]]
      BY <1>9 DEF CopyStep
    <3>. QED BY <2>1, <3>1, <3>2 DEF TypeOK, Ops
  <2>. QED BY <1>9, <2>1, <2>2 DEF CopyStep, TypeOK
<1>10. ASSUME TailStep PROVE TypeOK'
  <2>1. Head(stream) \in Ops /\ stream' \in Seq(Ops)
    BY <1>10 DEF TailStep, Pop, TypeOK
  <2>. QED BY <1>10, <2>1 DEF TailStep, TypeOK, Ops
<1>11. ASSUME StopStep PROVE TypeOK'
  <2>1. stream' \in Seq(Ops)
    BY <1>11, <1>c DEF StopStep, Pop
  <2>. QED BY <1>11, <2>1 DEF StopStep, TypeOK
<1>12. ASSUME NEW wrapped \in BOOLEAN, Snapshot(wrapped) PROVE TypeOK'
  <2>1. epochsLeft' \in Nat
    BY <1>12 DEF Snapshot, TypeOK
  <2>2. fault' \in [Ring -> BOOLEAN]
    BY <1>12 DEF Snapshot, TypeOK, CountInvalid
  <2>3. kernel' \in Phases
    BY <1>12 DEF Snapshot, Phases
  <2>. QED BY <1>12, <2>1, <2>2, <2>3 DEF Snapshot, TypeOK
<1>13. ASSUME IngressPhase PROVE TypeOK'
  <2>. DEFINE r == "ingress"
              batch == [i \in 1 .. NewContacts |->
                  [event |-> queue[r][Slot(r, consumedHead[r] + i - 1)],
                   fate  |-> IF Admits(NewContacts) THEN "witnessed" ELSE "unheard"]]
  <2>1. NewContacts \in Nat
    BY <1>13, <1>b, <1>c DEF IngressPhase, NewContacts
  <2>2. history' \in [committed: Nat, sealed: BOOLEAN]
    BY <1>13, <2>1, HistoryType DEF IngressPhase, TypeOK
  <2>3. batch \in Seq([event: Nat, fate: Fates])
    <3>1. ASSUME NEW i \in 1 .. NewContacts
          PROVE  queue[r][Slot(r, consumedHead[r] + i - 1)] \in Nat
      <4>1. consumedHead[r] + i - 1 \in Nat
        BY <1>b, <1>c, <2>1
      <4>2. Slot(r, consumedHead[r] + i - 1) \in Slots(r)
        BY <1>b, <4>1, SlotType
      <4>. QED BY <1>b, <4>2 DEF TypeOK
    <3>2. ASSUME NEW i \in 1 .. NewContacts
          PROVE  [event |-> queue[r][Slot(r, consumedHead[r] + i - 1)],
                  fate  |-> IF Admits(NewContacts) THEN "witnessed" ELSE "unheard"]
                   \in [event: Nat, fate: Fates]
      BY <3>1 DEF Fates
    <3>. QED BY <2>1, <3>2, SegmentIsSeq
  <2>4. heard' = [heard EXCEPT ![r] = @ \o batch]
    BY <1>13 DEF IngressPhase
  <2>5. heard' \in [Ring -> Seq([event: Nat, fate: Fates])]
    <3>. HIDE DEF batch
    <3>. QED BY <1>b, <2>3, <2>4, HeardType
  <2>. QED BY <1>13, <2>2, <2>5 DEF IngressPhase, TypeOK, Phases
<1>14. ASSUME IngressCommit PROVE TypeOK'
  BY <1>14, <1>b DEF IngressCommit, TypeOK, Phases
<1>15. ASSUME NoIngress PROVE TypeOK'
  BY <1>15 DEF NoIngress, TypeOK, Phases
<1>16. ASSUME NEW fate \in Fates, NEW page \in [committed: Nat, sealed: BOOLEAN],
              SettleOne(fate, page)
       PROVE  TypeOK'
  <2>. DEFINE r == "consequence"
              entry == [event |-> queue[r][Slot(r, consumedHead[r])], fate |-> fate]
  <2>1. entry \in [event: Nat, fate: Fates]
    <3>1. Slot(r, consumedHead[r]) \in Slots(r)
      BY <1>b, SlotType DEF TypeOK
    <3>. QED BY <1>b, <3>1 DEF TypeOK
  <2>2. heard' \in [Ring -> Seq([event: Nat, fate: Fates])]
    <3>1. heard' = [heard EXCEPT ![r] = Append(heard[r], entry)]
      BY <1>16 DEF SettleOne
    <3>. HIDE DEF entry
    <3>2. Append(heard[r], entry) \in Seq([event: Nat, fate: Fates])
      BY <1>b, <1>d, <2>1, AppendProperties
    <3>. QED BY <1>b, <1>d, <3>1, <3>2
  <2>3. consumedHead' \in [Ring -> Nat]
    BY <1>16, <1>b, <1>c DEF SettleOne
  <2>. QED BY <1>16, <2>2, <2>3 DEF SettleOne, TypeOK
<1>17. ASSUME NEW width \in 1 .. SettlementWidth, Settled(width) PROVE TypeOK'
  <2>1. Finish(width) \in [committed: Nat, sealed: BOOLEAN]
    <3>1. width \in Nat
      BY HistoryAssumption
    <3>2. history \in [committed: Nat, sealed: BOOLEAN]
      BY DEF TypeOK
    <3>. QED BY <3>1, <3>2, HistoryType
  <2>. QED BY <1>16, <1>17, <2>1 DEF Settled, Fates
<1>18. ASSUME Rejected PROVE TypeOK'
  BY <1>16, <1>18 DEF Rejected, Fates, TypeOK
<1>19. ASSUME SettlementEnds PROVE TypeOK'
  BY <1>19 DEF SettlementEnds, TypeOK, Phases
<1>20. ASSUME NEW motors \in 0 .. MotorPorts, MotorPhase(motors) PROVE TypeOK'
  <2>1. history' \in [committed: Nat, sealed: BOOLEAN]
    BY <1>20, HistoryType, HistoryAssumption DEF MotorPhase, TypeOK
  <2>. QED BY <1>20, <2>1 DEF MotorPhase, TypeOK, Phases
<1>21. ASSUME StopReturns PROVE TypeOK'
  BY <1>21 DEF StopReturns, Reconcile, TypeOK, Phases
<1>22. ASSUME NEW archived \in BOOLEAN, SpanReturns(archived) PROVE TypeOK'
  BY <1>22 DEF SpanReturns, Reconcile, TypeOK, Phases
<1>24. ASSUME NEW width \in Nat, NEW records \in Nat, Learn(width, records) PROVE TypeOK'
  <2>1. history' \in [committed: Nat, sealed: BOOLEAN]
    BY <1>24, HistoryType DEF Learn, TypeOK
  <2>. QED BY <1>24, <2>1 DEF Learn, TypeOK
<1>25. ASSUME NEW width \in 1 .. LearningWidth PROVE width \in Nat /\ 0 .. width \subseteq Nat
  BY HistoryAssumption
<1>23. CASE UNCHANGED vars
  BY <1>23 DEF vars, TypeOK
<1>. QED
  BY <1>1, <1>2, <1>3, <1>4, <1>5, <1>6, <1>7, <1>8, <1>9, <1>10, <1>11, <1>12,
     <1>13, <1>14, <1>15, <1>17, <1>18, <1>19, <1>20, <1>21, <1>22, <1>23, <1>24, <1>25
     DEF Next, HostStep, TransportStep, KernelStep, CallReturns

\* Every reachable state of the rings and their executor is well typed.
THEOREM TypeCorrect == Spec => []TypeOK
<1>1. Init => TypeOK
  BY InitTypeOK
<1>2. TypeOK /\ [Next]_vars => TypeOK'
  BY NextTypeOK
<1>. QED BY <1>1, <1>2, PTL DEF Spec

-----------------------------------------------------------------------------
(* The frontiers of a ring never cross, no epoch faults, and every boundary   *)
(* is accepted.  RingOrder alone is not inductive: a commit moves consumed    *)
(* to the tail the epoch's snapshot saw, a tail copy stores whatever the      *)
(* pinned word holds by then, and a boundary is accepted only because no tail *)
(* copy can still be on its way once the stream is drained.                   *)

InEpoch == kernel \in {"ingress", "commit", "settle", "motor"}

\* What the kernel was shown stays between the device's own two frontiers.
SnapshotOrder ==
  InEpoch => \A r \in Ring : consumedHead[r] <= snap[r] /\ snap[r] <= publishedTail[r]

\* The pinned word is always the host's newest tail.
PinnedIsNewest == publishPinned = publishTail

TailPending(r) == \E i \in 1 .. Len(stream) : stream[i] = TailOp(r)

\* A tail the device has not seen has a copy in the stream that will show it.
TailWillLand == \A r \in Ring : publishedTail[r] # publishTail[r] => TailPending(r)

\* Which party is where: the kernel exists exactly outside host_stepped.
Lifecycle ==
  /\ authority = "host_stepped" <=> kernel = "absent"
  /\ authority = "stopping" <=> hostCall = "stop"
  /\ hostCall = "span" => authority = "persistent"

NoFault == \A r \in Ring : fault[r] = FALSE

RingInv ==
  /\ RingOrder /\ SnapshotOrder /\ PinnedIsNewest /\ TailWillLand
  /\ Lifecycle /\ NoFault

-----------------------------------------------------------------------------
LEMMA PendingKept ==
  ASSUME TypeOK, NEW r \in Ring, TailPending(r), NEW ops \in Seq(Ops),
         stream' = stream \o ops
  PROVE  TailPending(r)'
<1>1. stream \in Seq(Ops)
  BY DEF TypeOK
<1>2. PICK i \in 1 .. Len(stream) : stream[i] = TailOp(r)
  BY DEF TailPending
<1>3. Len(stream') = Len(stream) + Len(ops) /\ stream'[i] = stream[i]
  BY <1>1, ConcatProperties
<1>4. i \in 1 .. Len(stream')
  BY <1>1, <1>3, LenProperties
<1>. QED BY <1>2, <1>3, <1>4 DEF TailPending, TailOp

LEMMA PendingPopped ==
  ASSUME TypeOK, NEW r \in Ring, TailPending(r), stream # <<>>, Pop,
         Head(stream) # TailOp(r)
  PROVE  TailPending(r)'
<1>1. stream \in Seq(Ops)
  BY DEF TypeOK
<1>2. PICK i \in 1 .. Len(stream) : stream[i] = TailOp(r)
  BY DEF TailPending
<1>3. i # 1
  BY <1>1, <1>2, HeadTailProperties
<1>4. Len(stream') = Len(stream) - 1 /\ stream'[i - 1] = stream[i]
  BY <1>1, <1>3, HeadTailProperties, LenProperties DEF Pop
<1>5. i - 1 \in 1 .. Len(stream')
  BY <1>1, <1>3, <1>4, LenProperties
<1>. QED BY <1>2, <1>4, <1>5 DEF TailPending, TailOp

\* With nothing in flight the device has seen the host's newest tails, and the
\* boundary is accepted.
LEMMA DrainedIsValid == TypeOK /\ RingInv /\ stream = <<>> => BoundaryValid
<1>. SUFFICES ASSUME TypeOK, RingInv, stream = <<>>, NEW r \in Ring
              PROVE  RingValid(r)
  BY DEF BoundaryValid
<1>1. publishedTail[r] = publishTail[r]
  BY DEF RingInv, TailWillLand, TailPending
<1>2. /\ writeTail[r] \in Nat /\ publishTail[r] \in Nat /\ observedHead[r] \in Nat
      /\ publishedTail[r] \in Nat /\ consumedHead[r] \in Nat /\ Capacity[r] \in Nat
  BY CapacityPositive DEF TypeOK
<1>3. /\ observedHead[r] <= consumedHead[r] /\ consumedHead[r] <= publishedTail[r]
      /\ publishTail[r] <= writeTail[r]
      /\ writeTail[r] <= observedHead[r] + Capacity[r]
  BY DEF RingInv, RingOrder
<1>4. fault[r] = FALSE
  BY DEF RingInv, NoFault
<1>. QED BY <1>1, <1>2, <1>3, <1>4 DEF RingValid, CountInvalid

LEMMA InitRingInv == Init => RingInv
<1>. SUFFICES ASSUME Init PROVE RingInv
  OBVIOUS
<1>1. RingOrder
  BY CapacityPositive DEF Init, RingOrder
<1>2. SnapshotOrder /\ PinnedIsNewest /\ TailWillLand /\ Lifecycle /\ NoFault
  BY DEF Init, SnapshotOrder, InEpoch, PinnedIsNewest, TailWillLand, Lifecycle, NoFault
<1>. QED BY <1>1, <1>2 DEF RingInv

LEMMA NextRingInv == TypeOK /\ RingInv /\ [Next]_vars => RingInv'
<1>. SUFFICES ASSUME TypeOK, RingInv, [Next]_vars PROVE RingInv'
  OBVIOUS
<1>. USE DEF hostVars, lifecycle, ringVars, kernelVars
<1>b. "ingress" \in Ring /\ "consequence" \in Ring
  BY DEF Ring
<1>c. /\ writeTail \in [Ring -> Nat] /\ publishTail \in [Ring -> Nat]
      /\ observedHead \in [Ring -> Nat] /\ publishPinned \in [Ring -> Nat]
      /\ publishedTail \in [Ring -> Nat] /\ consumedHead \in [Ring -> Nat]
      /\ snap \in [Ring -> Nat] /\ fault \in [Ring -> BOOLEAN]
      /\ stream \in Seq(Ops)
      /\ Capacity \in [Ring -> Nat]
  BY CapacityAssumption DEF TypeOK
<1>o. /\ RingOrder /\ SnapshotOrder /\ PinnedIsNewest /\ TailWillLand
      /\ Lifecycle /\ NoFault
  BY DEF RingInv
<1>f. \A r \in Ring : observedHead[r] <= Frontier(r) /\ Frontier(r) <= consumedHead[r]
                      /\ Frontier(r) \in Nat
  BY <1>c, <1>o DEF RingOrder, Frontier
<1>q. ASSUME UNCHANGED <<publishTail, publishPinned, publishedTail, stream>>
      PROVE  PinnedIsNewest' /\ TailWillLand'
  BY <1>q, <1>o DEF PinnedIsNewest, TailWillLand, TailPending, TailOp
<1>1. ASSUME NEW r \in Ring, Stage(r) PROVE RingInv'
  <2>1. RingOrder'
    BY <1>1, <1>c, <1>f, <1>o DEF Stage, RingOrder
  <2>2. SnapshotOrder' /\ Lifecycle' /\ NoFault'
    BY <1>1, <1>o DEF Stage, SnapshotOrder, InEpoch, Lifecycle, NoFault
  <2>. QED BY <1>1, <1>q, <2>1, <2>2 DEF Stage, RingInv
<1>2. ASSUME NEW r \in Ring, StageRefused(r) PROVE RingInv'
  <2>1. RingOrder'
    BY <1>2, <1>c, <1>f, <1>o DEF StageRefused, RingOrder
  <2>2. SnapshotOrder' /\ Lifecycle' /\ NoFault'
    BY <1>2, <1>o DEF StageRefused, SnapshotOrder, InEpoch, Lifecycle, NoFault
  <2>. QED BY <1>2, <1>q, <2>1, <2>2 DEF StageRefused, RingInv
<1>3. ASSUME NEW r \in Ring, Publish(r) PROVE RingInv'
  <2>. DEFINE ops == CopyOps(r, publishTail[r], writeTail[r])
  <2>1. ops \in Seq(Ops) /\ <<TailOp(r)>> \in Seq(Ops)
    <3>1. publishTail[r] \in Nat /\ writeTail[r] \in Nat
      BY <1>c
    <3>2. TailOp(r) \in Ops
      BY DEF TailOp, Ops
    <3>3. ops \in Seq(Ops)
      BY <3>1, CopyOpsType
    <3>4. <<TailOp(r)>> \in Seq(Ops)
      BY <3>2
    <3>. QED BY <3>3, <3>4
  <2>2. stream' = (stream \o ops) \o <<TailOp(r)>>
    BY <1>3 DEF Publish
  <2>. HIDE DEF ops
  <2>3. stream' = stream \o (ops \o <<TailOp(r)>>)
    <3>. DEFINE t == <<TailOp(r)>>
    <3>1. t \in Seq(Ops) /\ stream' = (stream \o ops) \o t
      BY <2>1, <2>2
    <3>. HIDE DEF t
    <3>2. stream \in Seq(Ops) /\ ops \in Seq(Ops) /\ t \in Seq(Ops)
      BY <1>c, <2>1, <3>1
    <3>3. (stream \o ops) \o t = stream \o (ops \o t)
      BY ONLY <3>2, ConcatAssociative
    <3>. QED BY <3>1, <3>3 DEF t
  <2>4. ops \o <<TailOp(r)>> \in Seq(Ops)
    BY <2>1, ConcatProperties
  <2>5. TailPending(r)'
    <3>1. stream \o ops \in Seq(Ops)
      BY <1>c, <2>1, ConcatProperties
    <3>2. Len(stream \o ops) \in Nat
      BY <3>1, LenProperties
    <3>3. /\ Len(stream') = Len(stream \o ops) + 1
          /\ stream'[Len(stream \o ops) + 1] = TailOp(r)
      BY <2>1, <2>2, <3>1, <3>2, ConcatProperties
    <3>. QED BY <3>2, <3>3 DEF TailPending, TailOp
  <2>6. TailWillLand'
    <3>. SUFFICES ASSUME NEW q \in Ring, publishedTail'[q] # publishTail'[q]
                  PROVE  TailPending(q)'
      BY DEF TailWillLand, TailPending, TailOp
    <3>1. CASE q = r
      BY <2>5, <3>1
    <3>2. CASE q # r
      <4>1. TailPending(q)
        BY <1>3, <1>c, <1>o, <3>2 DEF Publish, TailWillLand
      <4>. QED BY <2>3, <2>4, <4>1, PendingKept
    <3>. QED BY <3>1, <3>2
  <2>7. RingOrder'
    BY <1>3, <1>c, <1>o DEF Publish, RingOrder
  <2>8. PinnedIsNewest'
    BY <1>3, <1>c, <1>o DEF Publish, PinnedIsNewest
  <2>9. SnapshotOrder' /\ Lifecycle' /\ NoFault'
    BY <1>3, <1>o DEF Publish, SnapshotOrder, InEpoch, Lifecycle, NoFault
  <2>. QED BY <2>6, <2>7, <2>8, <2>9 DEF RingInv
<1>4. ASSUME NEW width \in 1 .. SettlementWidth, SettleStepped(width) PROVE RingInv'
  <2>0. kernel = "absent" /\ ~InEpoch
    BY <1>4, <1>o DEF SettleStepped, Lifecycle, InEpoch, TypeOK
  <2>1. RingOrder'
    <3>. SUFFICES ASSUME NEW q \in Ring
                  PROVE  /\ observedHead'[q] <= consumedHead'[q]
                         /\ consumedHead'[q] <= publishedTail'[q]
                         /\ publishedTail'[q] <= publishTail'[q]
                         /\ publishTail'[q] <= writeTail'[q]
                         /\ writeTail'[q] <= observedHead'[q] + Capacity[q]
      BY DEF RingOrder
    <3>1. CASE q = "consequence"
      <4>1. /\ writeTail'[q] = writeTail[q] + 1 /\ observedHead'[q] = writeTail[q] + 1
            /\ publishTail'[q] = writeTail[q] + 1 /\ publishedTail'[q] = writeTail[q] + 1
            /\ consumedHead'[q] = writeTail[q] + 1
        BY <1>4, <1>c, <3>1 DEF SettleStepped
      <4>2. writeTail[q] \in Nat /\ Capacity[q] \in Nat
        BY <1>c
      <4>. QED BY ONLY <4>1, <4>2
    <3>2. CASE q # "consequence"
      <4>1. /\ writeTail'[q] = writeTail[q] /\ observedHead'[q] = observedHead[q]
            /\ publishTail'[q] = publishTail[q] /\ publishedTail'[q] = publishedTail[q]
            /\ consumedHead'[q] = consumedHead[q]
        BY <1>4, <1>c, <3>2 DEF SettleStepped
      <4>. QED BY <1>o, <4>1 DEF RingOrder
    <3>. QED BY <3>1, <3>2
  <2>2. SnapshotOrder' /\ Lifecycle' /\ NoFault'
    BY <1>4, <1>o, <2>0 DEF SettleStepped, SnapshotOrder, InEpoch, Lifecycle, NoFault
  <2>3. PinnedIsNewest'
    BY <1>4, <1>b, <1>c, <1>o DEF SettleStepped, PinnedIsNewest
  <2>4. TailWillLand'
    BY <1>4, <1>b, <1>c, <1>o DEF SettleStepped, TailWillLand, TailPending, TailOp
  <2>. QED BY <2>1, <2>2, <2>3, <2>4 DEF RingInv
<1>5. ASSUME SettleSteppedRefused PROVE RingInv'
  <2>1. RingOrder'
    <3>. SUFFICES ASSUME NEW q \in Ring
                  PROVE  /\ observedHead'[q] <= consumedHead'[q]
                         /\ consumedHead'[q] <= publishedTail'[q]
                         /\ publishedTail'[q] <= publishTail'[q]
                         /\ publishTail'[q] <= writeTail'[q]
                         /\ writeTail'[q] <= observedHead'[q] + Capacity[q]
      BY DEF RingOrder
    <3>1. /\ UNCHANGED <<writeTail, publishTail, publishedTail, consumedHead>>
          /\ observedHead' = [observedHead EXCEPT !["consequence"] = Frontier("consequence")]
          /\ writeTail["consequence"] - Frontier("consequence") < Capacity["consequence"]
      BY <1>5 DEF SettleSteppedRefused
    <3>2. CASE q = "consequence"
      <4>1. /\ observedHead'[q] = Frontier(q) /\ Frontier(q) \in Nat
            /\ Frontier(q) <= consumedHead[q]
            /\ writeTail[q] - Frontier(q) < Capacity[q]
        BY <1>c, <1>f, <3>1, <3>2
      <4>2. writeTail[q] \in Nat /\ Capacity[q] \in Nat
        BY <1>c
      <4>3. /\ consumedHead[q] <= publishedTail[q] /\ publishedTail[q] <= publishTail[q]
            /\ publishTail[q] <= writeTail[q]
        BY <1>o DEF RingOrder
      <4>. QED BY <3>1, <4>1, <4>2, <4>3
    <3>3. CASE q # "consequence"
      BY <1>c, <1>o, <3>1, <3>3 DEF RingOrder
    <3>. QED BY <3>2, <3>3
  <2>2. SnapshotOrder' /\ Lifecycle' /\ NoFault'
    BY <1>5, <1>o DEF SettleSteppedRefused, SnapshotOrder, InEpoch, Lifecycle, NoFault
  <2>. QED BY <1>5, <1>q, <2>1, <2>2 DEF SettleSteppedRefused, RingInv
<1>6. ASSUME NEW n, NEW isLimited, Launch(isLimited, n), hostCall' \in {"none", "span"}
      PROVE  RingInv'
  <2>1. RingOrder' /\ NoFault'
    BY <1>6, <1>o DEF Launch, RingOrder, NoFault
  <2>2. SnapshotOrder' /\ Lifecycle'
    BY <1>6, <1>o DEF Launch, SnapshotOrder, InEpoch, Lifecycle
  <2>. QED BY <1>6, <1>q, <2>1, <2>2 DEF Launch, RingInv
<1>7. ASSUME StopPersistent PROVE RingInv'
  <2>1. RingOrder' /\ NoFault' /\ PinnedIsNewest'
    BY <1>7, <1>o DEF StopPersistent, RingOrder, NoFault, PinnedIsNewest
  <2>2. SnapshotOrder' /\ Lifecycle'
    BY <1>7, <1>o DEF StopPersistent, SnapshotOrder, InEpoch, Lifecycle
  <2>3. TailWillLand'
    <3>. SUFFICES ASSUME NEW q \in Ring, publishedTail'[q] # publishTail'[q]
                  PROVE  TailPending(q)'
      BY DEF TailWillLand, TailPending, TailOp
    <3>1. TailPending(q)
      BY <1>7, <1>o DEF StopPersistent, TailWillLand
    <3>2. <<StopOp>> \in Seq(Ops) /\ StopOp \in Ops
      BY <1>b DEF StopOp, Ops
    <3>3. stream' = stream \o <<StopOp>>
      BY <1>7, <1>c, <3>2, AppendIsConcat DEF StopPersistent
    <3>. QED BY <3>1, <3>2, <3>3, PendingKept
  <2>. QED BY <2>1, <2>2, <2>3 DEF RingInv
<1>9. ASSUME CopyStep PROVE RingInv'
  <2>1. RingOrder' /\ NoFault' /\ PinnedIsNewest'
    BY <1>9, <1>o DEF CopyStep, RingOrder, NoFault, PinnedIsNewest
  <2>2. SnapshotOrder' /\ Lifecycle'
    BY <1>9, <1>o DEF CopyStep, SnapshotOrder, InEpoch, Lifecycle
  <2>3. TailWillLand'
    <3>. SUFFICES ASSUME NEW q \in Ring, publishedTail'[q] # publishTail'[q]
                  PROVE  TailPending(q)'
      BY DEF TailWillLand, TailPending, TailOp
    <3>1. TailPending(q)
      BY <1>9, <1>o DEF CopyStep, TailWillLand
    <3>2. Head(stream) # TailOp(q)
      BY <1>9 DEF CopyStep, TailOp
    <3>. QED BY <1>9, <3>1, <3>2, PendingPopped DEF CopyStep
  <2>. QED BY <2>1, <2>2, <2>3 DEF RingInv
<1>10. ASSUME TailStep PROVE RingInv'
  <2>. DEFINE r == Head(stream).ring
  <2>0. r \in Ring
    <3>1. Head(stream) \in Ops
      BY <1>10, <1>c, HeadTailProperties DEF TailStep
    <3>. QED BY <3>1 DEF Ops
  <2>1. publishedTail' = [publishedTail EXCEPT ![r] = publishTail[r]]
    BY <1>10, <1>o DEF TailStep, PinnedIsNewest
  <2>. HIDE DEF r
  <2>a. UNCHANGED <<writeTail, observedHead, publishTail, consumedHead, snap, kernel>>
    BY <1>10 DEF TailStep
  <2>2. RingOrder'
    BY <1>c, <1>o, <2>0, <2>1, <2>a DEF RingOrder
  <2>3. SnapshotOrder'
    <3>1. ASSUME NEW q \in Ring PROVE publishedTail[q] <= publishedTail'[q]
      <4>1. publishedTail[q] \in Nat /\ publishedTail[q] <= publishTail[q]
        BY <1>c, <1>o DEF RingOrder
      <4>2. publishedTail'[q] = IF q = r THEN publishTail[q] ELSE publishedTail[q]
        BY <1>c, <2>0, <2>1
      <4>. QED BY <4>1, <4>2
    <3>2. \A q \in Ring : publishedTail'[q] \in Nat
      BY <1>c, <2>0, <2>1
    <3>. QED BY <1>c, <1>o, <2>a, <3>1, <3>2 DEF SnapshotOrder, InEpoch
  <2>4. Lifecycle' /\ NoFault' /\ PinnedIsNewest'
    BY <1>10, <1>o DEF TailStep, Lifecycle, NoFault, PinnedIsNewest
  <2>5. TailWillLand'
    <3>. SUFFICES ASSUME NEW q \in Ring, publishedTail'[q] # publishTail'[q]
                  PROVE  TailPending(q)'
      BY DEF TailWillLand, TailPending, TailOp
    <3>1. q # r
      BY <1>10, <1>c, <2>0, <2>1 DEF TailStep
    <3>2. TailPending(q)
      BY <1>10, <1>c, <1>o, <2>1, <3>1 DEF TailStep, TailWillLand
    <3>3. Head(stream) # TailOp(q)
      BY <3>1 DEF r, TailOp
    <3>. QED BY <1>10, <3>2, <3>3, PendingPopped DEF TailStep
  <2>. QED BY <2>2, <2>3, <2>4, <2>5 DEF RingInv
<1>11. ASSUME StopStep PROVE RingInv'
  <2>1. RingOrder' /\ NoFault' /\ PinnedIsNewest'
    BY <1>11, <1>o DEF StopStep, RingOrder, NoFault, PinnedIsNewest
  <2>2. SnapshotOrder' /\ Lifecycle'
    BY <1>11, <1>o DEF StopStep, SnapshotOrder, InEpoch, Lifecycle
  <2>3. TailWillLand'
    <3>. SUFFICES ASSUME NEW q \in Ring, publishedTail'[q] # publishTail'[q]
                  PROVE  TailPending(q)'
      BY DEF TailWillLand, TailPending, TailOp
    <3>1. TailPending(q)
      BY <1>11, <1>o DEF StopStep, TailWillLand
    <3>2. Head(stream) # TailOp(q)
      BY <1>11 DEF StopStep, TailOp
    <3>. QED BY <1>11, <3>1, <3>2, PendingPopped DEF StopStep
  <2>. QED BY <2>1, <2>2, <2>3 DEF RingInv
<1>12. ASSUME NEW wrapped \in BOOLEAN, Snapshot(wrapped) PROVE RingInv'
  <2>1. \A r \in Ring : ~CountInvalid(r)
    BY <1>c, <1>o DEF RingOrder, CountInvalid
  <2>2. RingOrder'
    BY <1>12, <1>o DEF Snapshot, RingOrder
  <2>3. SnapshotOrder'
    BY <1>12, <1>c, <1>o DEF Snapshot, SnapshotOrder, RingOrder
  <2>4. NoFault'
    BY <1>12, <1>c, <1>o, <2>1 DEF Snapshot, NoFault
  <2>5. Lifecycle'
    BY <1>12, <1>o DEF Snapshot, Lifecycle
  <2>. QED BY <1>12, <1>q, <2>2, <2>3, <2>4, <2>5 DEF Snapshot, RingInv
<1>13. ASSUME IngressPhase \/ NoIngress \/ SettlementEnds
              \/ (\E motors \in 0 .. MotorPorts : MotorPhase(motors))
              \/ (\E width, records : Learn(width, records))
       PROVE  RingInv'
  <2>1. /\ UNCHANGED <<hostVars, lifecycle, stream, ringVars, snap>>
        /\ kernel # "absent" /\ kernel' # "absent"
        /\ InEpoch
    BY <1>13 DEF IngressPhase, NoIngress, SettlementEnds, MotorPhase, Learn, InEpoch
  <2>2. RingOrder' /\ NoFault' /\ SnapshotOrder' /\ Lifecycle'
    BY <1>o, <2>1 DEF RingOrder, NoFault, SnapshotOrder, Lifecycle
  <2>. QED BY <1>q, <2>1, <2>2 DEF RingInv
<1>14. ASSUME IngressCommit PROVE RingInv'
  <2>0. InEpoch
    BY <1>14 DEF IngressCommit, InEpoch
  <2>1. RingOrder'
    <3>1. /\ UNCHANGED <<writeTail, observedHead, publishTail, publishedTail>>
          /\ consumedHead' = [consumedHead EXCEPT !["ingress"] = snap["ingress"]]
      BY <1>14 DEF IngressCommit
    <3>2. /\ consumedHead["ingress"] <= snap["ingress"]
          /\ snap["ingress"] <= publishedTail["ingress"]
      BY <1>b, <1>o, <2>0 DEF SnapshotOrder
    <3>3. ASSUME NEW q \in Ring
          PROVE  /\ observedHead[q] <= consumedHead'[q]
                 /\ consumedHead'[q] <= publishedTail[q]
      <4>1. /\ observedHead[q] <= consumedHead[q] /\ consumedHead[q] <= publishedTail[q]
            /\ observedHead[q] \in Nat /\ consumedHead[q] \in Nat /\ snap[q] \in Nat
        BY <1>c, <1>o DEF RingOrder
      <4>2. consumedHead'[q] = IF q = "ingress" THEN snap[q] ELSE consumedHead[q]
        BY <1>c, <3>1
      <4>. QED BY <3>2, <4>1, <4>2
    <3>. QED BY <1>o, <3>1, <3>3 DEF RingOrder
  <2>2. SnapshotOrder'
    BY <1>14, <1>b, <1>c, <1>o, <2>0 DEF IngressCommit, SnapshotOrder
  <2>3. NoFault' /\ Lifecycle'
    BY <1>14, <1>o DEF IngressCommit, NoFault, Lifecycle
  <2>. QED BY <1>14, <1>q, <2>1, <2>2, <2>3 DEF IngressCommit, RingInv
<1>16. ASSUME NEW fate, NEW page, SettleOne(fate, page) PROVE RingInv'
  <2>0. InEpoch
    BY <1>16 DEF SettleOne, InEpoch
  <2>1. RingOrder'
    <3>1. /\ UNCHANGED <<writeTail, observedHead, publishTail, publishedTail>>
          /\ consumedHead' = [consumedHead EXCEPT !["consequence"] = @ + 1]
          /\ consumedHead["consequence"] < snap["consequence"]
      BY <1>16 DEF SettleOne, ReturnsLeft
    <3>2. snap["consequence"] <= publishedTail["consequence"]
      BY <1>b, <1>o, <2>0 DEF SnapshotOrder
    <3>3. snap["consequence"] \in Nat
      BY <1>b, <1>c
    <3>4. consumedHead["consequence"] + 1 <= publishedTail["consequence"]
      <4>1. consumedHead["consequence"] \in Nat /\ publishedTail["consequence"] \in Nat
        BY <1>b, <1>c
      <4>. QED BY ONLY <3>1, <3>2, <3>3, <4>1
    <3>5. ASSUME NEW q \in Ring
          PROVE  /\ consumedHead'[q] <= publishedTail[q]
                 /\ observedHead[q] <= consumedHead'[q]
      <4>1. /\ observedHead[q] <= consumedHead[q] /\ consumedHead[q] <= publishedTail[q]
            /\ observedHead[q] \in Nat /\ consumedHead[q] \in Nat
        BY <1>c, <1>o DEF RingOrder
      <4>2. consumedHead'[q] = IF q = "consequence" THEN consumedHead[q] + 1
                               ELSE consumedHead[q]
        BY <1>c, <3>1
      <4>. QED BY <3>4, <4>1, <4>2
    <3>. QED BY <1>o, <3>1, <3>5 DEF RingOrder
  <2>2. SnapshotOrder'
    <3>1. /\ UNCHANGED <<snap, publishedTail, kernel>>
          /\ consumedHead' = [consumedHead EXCEPT !["consequence"] = @ + 1]
          /\ consumedHead["consequence"] < snap["consequence"]
      BY <1>16 DEF SettleOne, ReturnsLeft
    <3>2. ASSUME NEW q \in Ring
          PROVE  consumedHead'[q] <= snap[q] /\ snap[q] <= publishedTail[q]
      <4>1. /\ consumedHead[q] <= snap[q] /\ snap[q] <= publishedTail[q]
            /\ consumedHead[q] \in Nat /\ snap[q] \in Nat
        BY <1>c, <1>o, <2>0 DEF SnapshotOrder
      <4>2. consumedHead'[q] = IF q = "consequence" THEN consumedHead[q] + 1
                               ELSE consumedHead[q]
        BY <1>c, <3>1
      <4>. QED BY <3>1, <4>1, <4>2
    <3>. QED BY <3>1, <3>2 DEF SnapshotOrder, InEpoch
  <2>3. NoFault' /\ Lifecycle'
    BY <1>16, <1>o DEF SettleOne, NoFault, Lifecycle
  <2>. QED BY <1>16, <1>q, <2>1, <2>2, <2>3 DEF SettleOne, RingInv
<1>21. ASSUME Reconcile PROVE RingInv'
  <2>1. BoundaryValid
    BY <1>21, DrainedIsValid DEF Reconcile
  <2>2. observedHead' = consumedHead /\ authority' = "host_stepped"
    BY <1>21, <2>1 DEF Reconcile
  <2>3. RingOrder'
    BY <1>21, <1>c, <1>o, <2>2 DEF Reconcile, RingOrder
  <2>4. SnapshotOrder' /\ NoFault' /\ Lifecycle'
    BY <1>21, <1>o, <2>2 DEF Reconcile, SnapshotOrder, InEpoch, NoFault, Lifecycle
  <2>. QED BY <1>21, <1>q, <2>3, <2>4 DEF Reconcile, RingInv
<1>23. CASE UNCHANGED vars
  <2>1. RingOrder' /\ SnapshotOrder' /\ NoFault' /\ Lifecycle'
    BY <1>23, <1>o DEF vars, RingOrder, SnapshotOrder, InEpoch, NoFault, Lifecycle
  <2>. QED BY <1>23, <1>q, <2>1 DEF vars, RingInv
<1>. QED
  BY <1>1, <1>2, <1>3, <1>4, <1>5, <1>6, <1>7, <1>9, <1>10, <1>11, <1>12, <1>13,
     <1>14, <1>16, <1>21, <1>23
     DEF Next, HostStep, TransportStep, KernelStep, CallReturns, StartPersistent,
         RunSpan, Settled, Rejected, StopReturns, SpanReturns

\* The inductive invariant behind the theorems below.
LEMMA RingInvHolds == Spec => [](TypeOK /\ RingInv)
<1>1. Init => TypeOK /\ RingInv
  BY InitTypeOK, InitRingInv
<1>2. TypeOK /\ RingInv /\ [Next]_vars => (TypeOK /\ RingInv)'
  BY NextTypeOK, NextRingInv
<1>. QED BY <1>1, <1>2, PTL DEF Spec

\* Reclaim stays behind consumption, consumption behind publication, publication
\* behind staging, and all of them within one ring of each other, for rings of
\* any capacity: the "ring invariant violated" throws of the host are unreachable.
THEOREM RingsInOrder == Spec => []RingOrder
<1>1. RingInv => RingOrder
  BY DEF RingInv
<1>. QED BY <1>1, RingInvHolds, PTL

\* No epoch raises a ring fault and every boundary is accepted, so execution
\* authority always comes back to host_stepped.
THEOREM BoundariesTrusted == Spec => []BoundaryTrusted
<1>1. RingInv => BoundaryTrusted
  BY DEF RingInv, NoFault, Lifecycle, BoundaryTrusted
<1>. QED BY <1>1, RingInvHolds, PTL

-----------------------------------------------------------------------------
(* Frontiers only advance.                                                    *)

Advance == \A r \in Ring : /\ observedHead[r] <= observedHead'[r]
                           /\ consumedHead[r] <= consumedHead'[r]
                           /\ publishedTail[r] <= publishedTail'[r]

\* A frontier of one ring that is raised moves none backwards.
LEMMA Raised ==
  ASSUME NEW f \in [Ring -> Nat], NEW r \in Ring, NEW n \in Nat, f[r] <= n,
         NEW g, g = [f EXCEPT ![r] = n]
  PROVE  \A q \in Ring : f[q] <= g[q]
<1>. SUFFICES ASSUME NEW q \in Ring PROVE f[q] <= g[q]
  OBVIOUS
<1>1. CASE q = r
  BY <1>1
<1>2. CASE q # r
  <2>1. g[q] = f[q] /\ f[q] \in Nat
    BY <1>2
  <2>. QED BY <2>1
<1>. QED BY <1>1, <1>2

LEMMA NextAdvances == TypeOK /\ RingInv /\ [Next]_vars => Advance
<1>. SUFFICES ASSUME TypeOK, RingInv, [Next]_vars PROVE Advance
  OBVIOUS
<1>. USE DEF hostVars, lifecycle, ringVars, kernelVars
<1>b. "ingress" \in Ring /\ "consequence" \in Ring
  BY DEF Ring
<1>c. /\ writeTail \in [Ring -> Nat] /\ publishTail \in [Ring -> Nat]
      /\ observedHead \in [Ring -> Nat] /\ publishedTail \in [Ring -> Nat]
      /\ consumedHead \in [Ring -> Nat] /\ snap \in [Ring -> Nat]
      /\ stream \in Seq(Ops)
  BY DEF TypeOK
<1>o. \A r \in Ring : /\ observedHead[r] <= consumedHead[r]
                      /\ consumedHead[r] <= publishedTail[r]
                      /\ publishedTail[r] <= publishTail[r]
                      /\ publishTail[r] <= writeTail[r]
  BY DEF RingInv, RingOrder
<1>f. \A r \in Ring : observedHead[r] <= Frontier(r) /\ Frontier(r) \in Nat
  BY <1>c, <1>o DEF Frontier
<1>1. ASSUME UNCHANGED <<observedHead, consumedHead, publishedTail>> PROVE Advance
  BY <1>1, <1>c DEF Advance
<1>2. ASSUME NEW r \in Ring, Stage(r) \/ StageRefused(r) PROVE Advance
  <2>1. /\ observedHead' = [observedHead EXCEPT ![r] = Frontier(r)]
        /\ UNCHANGED <<consumedHead, publishedTail>>
    BY <1>2 DEF Stage, StageRefused
  <2>. QED BY <1>c, <1>f, <2>1 DEF Advance
<1>3. ASSUME NEW r \in Ring, Publish(r) PROVE Advance
  BY <1>1, <1>3 DEF Publish
<1>4. ASSUME NEW width \in 1 .. SettlementWidth, SettleStepped(width) PROVE Advance
  <2>1. /\ observedHead' = [observedHead EXCEPT !["consequence"] = writeTail["consequence"] + 1]
        /\ publishedTail' = [publishedTail EXCEPT !["consequence"] = writeTail["consequence"] + 1]
        /\ consumedHead' = [consumedHead EXCEPT !["consequence"] = writeTail["consequence"] + 1]
    BY <1>4 DEF SettleStepped
  <2>2. /\ observedHead["consequence"] <= writeTail["consequence"] + 1
        /\ publishedTail["consequence"] <= writeTail["consequence"] + 1
        /\ consumedHead["consequence"] <= writeTail["consequence"] + 1
    <3>. DEFINE r == "consequence"
    <3>1. /\ observedHead[r] <= consumedHead[r] /\ consumedHead[r] <= publishedTail[r]
          /\ publishedTail[r] <= publishTail[r] /\ publishTail[r] <= writeTail[r]
      BY <1>b, <1>o
    <3>2. /\ observedHead[r] \in Nat /\ consumedHead[r] \in Nat /\ publishedTail[r] \in Nat
          /\ publishTail[r] \in Nat /\ writeTail[r] \in Nat
      BY <1>b, <1>c
    <3>. QED BY ONLY <3>1, <3>2
  <2>. SUFFICES ASSUME NEW q \in Ring
                PROVE  /\ observedHead[q] <= observedHead'[q]
                       /\ consumedHead[q] <= consumedHead'[q]
                       /\ publishedTail[q] <= publishedTail'[q]
    BY DEF Advance
  <2>3. CASE q = "consequence"
    BY <1>c, <2>1, <2>2, <2>3
  <2>4. CASE q # "consequence"
    BY <1>c, <2>1, <2>4
  <2>. QED BY <2>3, <2>4
<1>5. ASSUME SettleSteppedRefused PROVE Advance
  <2>1. /\ observedHead' = [observedHead EXCEPT !["consequence"] = Frontier("consequence")]
        /\ UNCHANGED <<consumedHead, publishedTail>>
    BY <1>5 DEF SettleSteppedRefused
  <2>2. \A q \in Ring : observedHead[q] <= observedHead'[q]
    BY <1>b, <1>c, <1>f, <2>1, Raised
  <2>. QED BY <1>c, <2>1, <2>2 DEF Advance
<1>6. ASSUME NEW n, NEW isLimited, Launch(isLimited, n) PROVE Advance
  BY <1>1, <1>6 DEF Launch
<1>7. ASSUME StopPersistent \/ CopyStep \/ StopStep PROVE Advance
  BY <1>1, <1>7 DEF StopPersistent, CopyStep, StopStep
<1>8. ASSUME TailStep PROVE Advance
  <2>. DEFINE r == Head(stream).ring
  <2>1. r \in Ring
    <3>1. Head(stream) \in Ops
      BY <1>8, <1>c, HeadTailProperties DEF TailStep
    <3>. QED BY <3>1 DEF Ops
  <2>2. /\ publishedTail' = [publishedTail EXCEPT ![r] = publishTail[r]]
        /\ UNCHANGED <<observedHead, consumedHead>>
    BY <1>8 DEF TailStep, RingInv, PinnedIsNewest
  <2>. HIDE DEF r
  <2>. QED BY <1>c, <1>o, <2>1, <2>2 DEF Advance
<1>9. ASSUME NEW wrapped \in BOOLEAN, Snapshot(wrapped) PROVE Advance
  BY <1>1, <1>9 DEF Snapshot
<1>10. ASSUME IngressPhase \/ NoIngress \/ SettlementEnds
              \/ (\E motors \in 0 .. MotorPorts : MotorPhase(motors))
              \/ (\E width, records : Learn(width, records))
       PROVE  Advance
  BY <1>1, <1>10 DEF IngressPhase, NoIngress, SettlementEnds, MotorPhase, Learn
<1>11. ASSUME IngressCommit PROVE Advance
  <2>1. consumedHead["ingress"] <= snap["ingress"]
    BY <1>11, <1>b DEF IngressCommit, RingInv, SnapshotOrder, InEpoch
  <2>2. /\ consumedHead' = [consumedHead EXCEPT !["ingress"] = snap["ingress"]]
        /\ UNCHANGED <<observedHead, publishedTail>>
    BY <1>11 DEF IngressCommit
  <2>3. \A q \in Ring : consumedHead[q] <= consumedHead'[q]
    BY <1>b, <1>c, <2>1, <2>2, Raised
  <2>4. \A q \in Ring : /\ observedHead[q] <= observedHead'[q]
                        /\ publishedTail[q] <= publishedTail'[q]
    BY <1>c, <2>2
  <2>. QED BY <2>3, <2>4 DEF Advance
<1>12. ASSUME NEW fate, NEW page, SettleOne(fate, page) PROVE Advance
  <2>1. /\ consumedHead' = [consumedHead EXCEPT !["consequence"] = @ + 1]
        /\ UNCHANGED <<observedHead, publishedTail>>
    BY <1>12 DEF SettleOne
  <2>2. /\ consumedHead["consequence"] <= consumedHead["consequence"] + 1
        /\ consumedHead["consequence"] + 1 \in Nat
    BY <1>b, <1>c
  <2>3. \A q \in Ring : consumedHead[q] <= consumedHead'[q]
    BY <1>b, <1>c, <2>1, <2>2, Raised
  <2>4. \A q \in Ring : /\ observedHead[q] <= observedHead'[q]
                        /\ publishedTail[q] <= publishedTail'[q]
    BY <1>c, <2>1
  <2>. QED BY <2>3, <2>4 DEF Advance
<1>13. ASSUME Reconcile PROVE Advance
  <2>1. BoundaryValid
    BY <1>13, DrainedIsValid DEF Reconcile
  <2>2. observedHead' = consumedHead
    BY <1>13, <2>1 DEF Reconcile
  <2>3. UNCHANGED <<consumedHead, publishedTail>>
    BY <1>13 DEF Reconcile
  <2>. QED BY <1>c, <1>o, <2>2, <2>3 DEF Advance
<1>14. CASE UNCHANGED vars
  BY <1>1, <1>14 DEF vars
<1>. QED
  BY <1>2, <1>3, <1>4, <1>5, <1>6, <1>7, <1>8, <1>9, <1>10, <1>11, <1>12, <1>13, <1>14
     DEF Next, HostStep, TransportStep, KernelStep, CallReturns, StartPersistent,
         RunSpan, Settled, Rejected, StopReturns, SpanReturns

\* No step moves a reclaim, consumed or published frontier backwards: neither the
\* late tail copies, nor a boundary's adoption of the device's frontiers.
THEOREM FrontiersOnlyAdvance == Spec => FrontiersAdvance
<1>1. TypeOK /\ RingInv /\ [Next]_vars
        => [\A r \in Ring : /\ observedHead[r] <= observedHead'[r]
                            /\ consumedHead[r] <= consumedHead'[r]
                            /\ publishedTail[r] <= publishedTail'[r]]_vars
  BY NextAdvances DEF Advance
<1>. QED BY <1>1, RingInvHolds, PTL DEF Spec, FrontiersAdvance

-----------------------------------------------------------------------------
(* A bounded span consumes every contact published before it.  Launching       *)
(* drains the stream, the host is blocked, and the stop flag cannot be set, so *)
(* the first of the span's epochs sees all that was published.                 *)

Drained == consumedHead["ingress"] = publishTail["ingress"]

SpanInv == hostCall = "span" =>
  /\ limited = TRUE /\ stopFlag = FALSE /\ stream = <<>>
  /\ InEpoch => snap["ingress"] = publishTail["ingress"]
  /\ kernel \in {"settle", "motor", "exited"} => Drained
  /\ kernel = "boundary" /\ epochsLeft = 0 => Drained

LEMMA NextSpanInv == TypeOK /\ RingInv /\ SpanInv /\ [Next]_vars => SpanInv'
<1>. SUFFICES ASSUME TypeOK, RingInv, SpanInv, [Next]_vars PROVE SpanInv'
  OBVIOUS
<1>. USE DEF hostVars, lifecycle, ringVars, kernelVars
<1>b. "ingress" \in Ring /\ "consequence" \in Ring
  BY DEF Ring
<1>c. /\ publishTail \in [Ring -> Nat] /\ publishedTail \in [Ring -> Nat]
      /\ consumedHead \in [Ring -> Nat] /\ snap \in [Ring -> Nat]
      /\ epochsLeft \in Nat
  BY DEF TypeOK
<1>1. ASSUME hostCall' # "span" PROVE SpanInv'
  BY <1>1 DEF SpanInv
<1>2. ASSUME HostStep, ~\E n \in 1 .. MaxSpan : RunSpan(n) PROVE SpanInv'
  BY <1>1, <1>2 DEF HostStep, Stage, StageRefused, Publish, SettleStepped,
     SettleSteppedRefused, StartPersistent, StopPersistent
<1>3. ASSUME NEW n \in 1 .. MaxSpan, RunSpan(n) PROVE SpanInv'
  <2>1. n # 0
    OBVIOUS
  <2>. QED BY <1>3, <2>1 DEF RunSpan, Launch, SpanInv, InEpoch
<1>4. ASSUME TransportStep PROVE SpanInv'
  <2>1. hostCall # "span"
    BY <1>4 DEF TransportStep, CopyStep, TailStep, StopStep, SpanInv
  <2>. QED BY <1>1, <1>4, <2>1 DEF TransportStep, CopyStep, TailStep, StopStep
<1>5. ASSUME CallReturns PROVE SpanInv'
  BY <1>1, <1>5 DEF CallReturns, StopReturns, SpanReturns, Reconcile
<1>6. ASSUME KernelStep, hostCall = "span" PROVE SpanInv'
  <2>i. /\ limited = TRUE /\ stopFlag = FALSE /\ stream = <<>>
        /\ InEpoch => snap["ingress"] = publishTail["ingress"]
        /\ kernel \in {"settle", "motor", "exited"} => Drained
        /\ kernel = "boundary" /\ epochsLeft = 0 => Drained
    BY <1>6 DEF SpanInv
  <2>p. publishedTail["ingress"] = publishTail["ingress"]
    BY <1>b, <2>i DEF RingInv, TailWillLand, TailPending
  <2>1. ASSUME NEW wrapped \in BOOLEAN, Snapshot(wrapped) PROVE SpanInv'
    <3>1. \A r \in Ring : ~CountInvalid(r)
      BY DrainedIsValid, <2>i DEF BoundaryValid, RingValid
    <3>2. wrapped = FALSE
      BY <2>1, <2>i DEF Snapshot
    <3>3. /\ kernel = "boundary" /\ snap' = publishedTail
          /\ kernel' = IF epochsLeft = 0 THEN "exited" ELSE "ingress"
          /\ UNCHANGED <<limited, stopFlag, stream, consumedHead, publishTail>>
      BY <2>1, <2>i, <3>1, <3>2 DEF Snapshot
    <3>. QED BY <2>i, <2>p, <3>3 DEF SpanInv, Drained, InEpoch
  <2>2. ASSUME IngressPhase PROVE SpanInv'
    BY <2>2, <2>i DEF IngressPhase, SpanInv, Drained, InEpoch
  <2>3. ASSUME IngressCommit PROVE SpanInv'
    <3>1. consumedHead'["ingress"] = publishTail["ingress"]
      BY <2>3, <1>b, <1>c, <2>i DEF IngressCommit, InEpoch
    <3>. QED BY <2>3, <2>i, <3>1 DEF IngressCommit, SpanInv, Drained, InEpoch
  <2>4. ASSUME NoIngress PROVE SpanInv'
    <3>1. consumedHead["ingress"] = snap["ingress"]
      BY <2>4, <1>b, <1>c DEF NoIngress, NewContacts
    <3>. QED BY <2>4, <2>i, <3>1 DEF NoIngress, SpanInv, Drained, InEpoch
  <2>5. ASSUME NEW fate, NEW page, SettleOne(fate, page) PROVE SpanInv'
    <3>1. consumedHead'["ingress"] = consumedHead["ingress"]
      BY <2>5, <1>b, <1>c DEF SettleOne
    <3>. QED BY <2>5, <2>i, <3>1 DEF SettleOne, SpanInv, Drained, InEpoch
  <2>6. ASSUME SettlementEnds PROVE SpanInv'
    BY <2>6, <2>i DEF SettlementEnds, SpanInv, Drained, InEpoch
  <2>7. ASSUME NEW motors \in 0 .. MotorPorts, MotorPhase(motors) PROVE SpanInv'
    BY <2>7, <2>i DEF MotorPhase, SpanInv, Drained, InEpoch
  <2>8. ASSUME NEW width, NEW records, Learn(width, records) PROVE SpanInv'
    BY <2>8, <2>i DEF Learn, SpanInv, Drained, InEpoch
  <2>. QED BY <1>6, <2>1, <2>2, <2>3, <2>4, <2>5, <2>6, <2>7, <2>8
       DEF KernelStep, Settled, Rejected
<1>7. ASSUME KernelStep, hostCall # "span" PROVE SpanInv'
  BY <1>1, <1>7 DEF KernelStep, Snapshot, IngressPhase, IngressCommit, NoIngress,
     Settled, Rejected, SettleOne, SettlementEnds, MotorPhase, Learn
<1>8. CASE UNCHANGED vars
  BY <1>8 DEF vars, SpanInv, Drained, InEpoch
<1>. QED BY <1>2, <1>3, <1>4, <1>5, <1>6, <1>7, <1>8 DEF Next

LEMMA SpanInvHolds == Spec => [](TypeOK /\ RingInv /\ SpanInv)
<1>1. Init => TypeOK /\ RingInv /\ SpanInv
  <2>1. Init => SpanInv
    BY DEF Init, SpanInv
  <2>. QED BY <2>1, InitTypeOK, InitRingInv
<1>2. TypeOK /\ RingInv /\ SpanInv /\ [Next]_vars => (TypeOK /\ RingInv /\ SpanInv)'
  BY NextTypeOK, NextRingInv, NextSpanInv
<1>. QED BY <1>1, <1>2, PTL DEF Spec

\* When a bounded span returns, no contact published before it is left in the
\* ring, whatever its length and the state of the history page.
THEOREM SpansDrainIngress == Spec => SpanDrainsIngress
<1>1. SpanInv /\ [Next]_vars
        => [hostCall = "span" /\ hostCall' = "none" =>
              consumedHead'["ingress"] = publishTail["ingress"]]_vars
  <2>. SUFFICES ASSUME SpanInv, Next, hostCall = "span", hostCall' = "none"
                PROVE  consumedHead'["ingress"] = publishTail["ingress"]
    OBVIOUS
  <2>. USE DEF hostVars, lifecycle, ringVars, kernelVars
  <2>1. Reconcile
    BY DEF Next, HostStep, Stage, StageRefused, Publish, SettleStepped,
       SettleSteppedRefused, StartPersistent, RunSpan, Launch, StopPersistent,
       TransportStep, CopyStep, TailStep, StopStep, KernelStep, Snapshot,
       IngressPhase, IngressCommit, NoIngress, Settled, Rejected, SettleOne,
       SettlementEnds, MotorPhase, Learn, CallReturns, StopReturns, SpanReturns
  <2>. QED BY <2>1 DEF Reconcile, SpanInv, Drained
<1>. QED BY <1>1, SpanInvHolds, PTL DEF Spec, SpanDrainsIngress

-----------------------------------------------------------------------------
(* What travels through the rings: no staged event is lost or overwritten      *)
(* before it is heard, a bounded deployment hears each once and in order, and  *)
(* so implements ContactLedger.                                                *)

(* Two cursors less than a ring apart have slots of their own.                *)

LEMMA Division ==
  ASSUME NEW a \in Nat, NEW n \in Nat, n > 0
  PROVE  a = n * (a \div n) + (a % n) /\ a % n \in 0 .. n - 1 /\ a \div n \in Int
OBVIOUS

LEMMA SmallMultiple ==
  ASSUME NEW n \in Nat, n > 0, NEW p \in Int, NEW q \in Int,
         NEW d \in Int, d < n, -n < d, d = n * (p - q)
  PROVE  d = 0
<1>1. CASE p = q
  BY <1>1
<1>2. CASE p > q
  <2>1. p - q >= 1
    BY <1>2
  <2>2. n * (p - q) >= n
    BY <2>1
  <2>. QED BY <2>2
<1>3. CASE p < q
  <2>1. p - q <= -1
    BY <1>3
  <2>2. n * (p - q) <= -n
    BY <2>1
  <2>. QED BY <2>2
<1>. QED BY <1>1, <1>2, <1>3

LEMMA SlotsApart ==
  ASSUME NEW r \in Ring, NEW lo \in Nat, NEW a \in Nat, NEW b \in Nat,
         a \in lo .. lo + Capacity[r] - 1, b \in lo .. lo + Capacity[r] - 1,
         Slot(r, a) = Slot(r, b)
  PROVE  a = b
<1>. DEFINE n == Capacity[r]
            p == a \div n
            q == b \div n
            d == a - b
<1>0. n \in Nat /\ n > 0
  BY CapacityPositive
<1>1. a % n = b % n
  BY DEF Slot
<1>5. d < n /\ -n < d
  BY <1>0
<1>. HIDE DEF n
<1>2. /\ a = n * p + (a % n) /\ p \in Int /\ a % n \in Int
      /\ b = n * q + (b % n) /\ q \in Int
  BY <1>0, Division
<1>. HIDE DEF p, q
<1>3. n * p \in Int /\ n * q \in Int /\ d = n * p - n * q
  BY <1>0, <1>1, <1>2
<1>4. n * p - n * q = n * (p - q)
  BY <1>0, <1>2
<1>6. d \in Int
  OBVIOUS
<1>. HIDE DEF d
<1>7. d = 0
  BY <1>0, <1>2, <1>3, <1>4, <1>5, <1>6, SmallMultiple
<1>. QED BY <1>7 DEF d

-----------------------------------------------------------------------------
(* The copies of a stream.                                                    *)

Copies(s) == {s[i] : i \in {j \in 1 .. Len(s) : s[j].op = "copy"}}

LEMMA CopiesType ==
  ASSUME NEW s \in Seq(Ops), NEW o \in Copies(s)
  PROVE  o.ring \in Ring /\ o.from \in Nat /\ o.to \in Nat /\ o.op = "copy"
<1>1. PICK i \in 1 .. Len(s) : s[i] = o /\ s[i].op = "copy"
  BY DEF Copies
<1>2. o \in Ops
  BY <1>1
<1>. QED BY <1>1, <1>2 DEF Ops

LEMMA CopiesOfConcat ==
  ASSUME NEW s \in Seq(Ops), NEW t \in Seq(Ops)
  PROVE  Copies(s \o t) = Copies(s) \union Copies(t)
<1>. DEFINE u == s \o t
<1>1. /\ u \in Seq(Ops) /\ Len(u) = Len(s) + Len(t)
      /\ Len(s) \in Nat /\ Len(t) \in Nat
      /\ \A i \in 1 .. Len(s) + Len(t) :
           u[i] = IF i <= Len(s) THEN s[i] ELSE t[i - Len(s)]
  BY ConcatProperties, LenProperties
<1>. HIDE DEF u
<1>2. ASSUME NEW o \in Copies(u) PROVE o \in Copies(s) \union Copies(t)
  <2>1. PICK i \in 1 .. Len(u) : u[i] = o /\ u[i].op = "copy"
    BY DEF Copies
  <2>2. CASE i <= Len(s)
    BY <1>1, <2>1, <2>2 DEF Copies
  <2>3. CASE i > Len(s)
    <3>1. i - Len(s) \in 1 .. Len(t) /\ t[i - Len(s)] = o
      BY <1>1, <2>1, <2>3
    <3>. QED BY <2>1, <3>1 DEF Copies
  <2>. QED BY <1>1, <2>2, <2>3
<1>3. ASSUME NEW o \in Copies(s) PROVE o \in Copies(u)
  <2>1. PICK i \in 1 .. Len(s) : s[i] = o /\ s[i].op = "copy"
    BY DEF Copies
  <2>2. i \in 1 .. Len(u) /\ u[i] = o
    BY <1>1, <2>1
  <2>. QED BY <2>1, <2>2 DEF Copies
<1>4. ASSUME NEW o \in Copies(t) PROVE o \in Copies(u)
  <2>1. PICK i \in 1 .. Len(t) : t[i] = o /\ t[i].op = "copy"
    BY DEF Copies
  <2>2. i + Len(s) \in 1 .. Len(u) /\ u[i + Len(s)] = o
    <3>1. i + Len(s) \in 1 .. Len(s) + Len(t) /\ ~(i + Len(s) <= Len(s))
          /\ (i + Len(s)) - Len(s) = i
      BY <1>1
    <3>2. u[i + Len(s)] = t[(i + Len(s)) - Len(s)]
      BY <1>1, <3>1
    <3>. QED BY <1>1, <2>1, <3>1, <3>2
  <2>. QED BY <2>1, <2>2 DEF Copies
<1>. QED BY <1>2, <1>3, <1>4 DEF u

LEMMA CopiesOfTail ==
  ASSUME NEW s \in Seq(Ops), s # <<>>
  PROVE  /\ Copies(Tail(s)) \subseteq Copies(s)
         /\ Head(s).op = "copy" => Head(s) \in Copies(s)
         /\ \A o \in Copies(s) : o \in Copies(Tail(s)) \/ o = Head(s)
<1>. DEFINE t == Tail(s)
<1>1. /\ Len(t) = Len(s) - 1 /\ Len(s) \in Nat /\ Len(s) > 0
      /\ \A i \in 1 .. Len(t) : t[i] = s[i + 1]
  BY HeadTailProperties, LenProperties
<1>0. Head(s) = s[1]
  OBVIOUS
<1>. HIDE DEF t
<1>2. ASSUME NEW o \in Copies(t) PROVE o \in Copies(s)
  <2>1. PICK i \in 1 .. Len(t) : t[i] = o /\ t[i].op = "copy"
    BY DEF Copies
  <2>2. i + 1 \in 1 .. Len(s) /\ s[i + 1] = o
    BY <1>1, <2>1
  <2>. QED BY <2>1, <2>2 DEF Copies
<1>3. ASSUME Head(s).op = "copy" PROVE Head(s) \in Copies(s)
  <2>1. 1 \in 1 .. Len(s)
    BY <1>1
  <2>. QED BY <1>0, <1>3, <2>1 DEF Copies
<1>4. ASSUME NEW o \in Copies(s), o # Head(s) PROVE o \in Copies(t)
  <2>1. PICK i \in 1 .. Len(s) : s[i] = o /\ s[i].op = "copy"
    BY DEF Copies
  <2>2. i # 1
    BY <1>0, <1>4, <2>1
  <2>3. i - 1 \in 1 .. Len(t) /\ (i - 1) + 1 = i
    BY <1>1, <2>2
  <2>4. t[i - 1] = o
    BY <1>1, <2>1, <2>3
  <2>. QED BY <2>1, <2>3, <2>4 DEF Copies
<1>. QED BY <1>2, <1>3, <1>4 DEF t

\* A publication copies exactly what lies between the two cursors, in one or,
\* where the ring wraps, two pieces.
LEMMA CopiesPublished ==
  ASSUME NEW r \in Ring, NEW from \in Nat, NEW to \in Nat, from < to
  PROVE  /\ \A o \in Copies(CopyOps(r, from, to)) :
              o.ring = r /\ from <= o.from /\ o.to <= to
         /\ \A c \in from .. to - 1 : \E o \in Copies(CopyOps(r, from, to)) :
              o.op = "copy" /\ o.ring = r /\ c \in o.from .. o.to - 1
<1>. DEFINE n == Capacity[r]
            d == from \div n
            wrap == (d + 1) * n
            ops == CopyOps(r, from, to)
            copy(a, b) == [op |-> "copy", ring |-> r, from |-> a, to |-> b]
<1>1. wrap \in Nat /\ from < wrap
  <2>1. n \in Nat /\ n > 0
    BY CapacityPositive
  <2>2. from = n * d + (from % n) /\ from % n \in 0 .. n - 1 /\ d \in Int
    BY <2>1, Division
  <2>. HIDE DEF n, d
  <2>3. n * d \in Int /\ wrap = n * d + n
    BY <2>1, <2>2
  <2>. HIDE DEF wrap
  <2>. QED BY <2>1, <2>2, <2>3
<1>2. ops = IF to <= wrap THEN <<copy(from, to)>> ELSE <<copy(from, wrap), copy(wrap, to)>>
  BY DEF CopyOps
<1>. HIDE DEF n, d, wrap, ops
<1>3. CASE to <= wrap
  <2>1. Copies(ops) = {copy(from, to)}
    BY <1>2, <1>3 DEF Copies
  <2>. QED BY <2>1 DEF ops
<1>4. CASE to > wrap
  <2>1. ops = <<copy(from, wrap), copy(wrap, to)>>
    BY <1>1, <1>2, <1>4
  <2>2. Copies(ops) = {copy(from, wrap), copy(wrap, to)}
    <3>1. Len(ops) = 2 /\ ops[1] = copy(from, wrap) /\ ops[2] = copy(wrap, to)
      BY <2>1
    <3>2. 1 .. 2 = {1, 2} /\ ops[1].op = "copy" /\ ops[2].op = "copy"
      BY <3>1
    <3>. QED BY <3>1, <3>2 DEF Copies
  <2>3. ASSUME NEW c \in from .. to - 1
        PROVE  \/ c \in copy(from, wrap).from .. copy(from, wrap).to - 1
               \/ c \in copy(wrap, to).from .. copy(wrap, to).to - 1
    BY <1>1, <1>4
  <2>4. /\ copy(from, wrap) \in Copies(ops) /\ copy(from, wrap).op = "copy"
        /\ copy(from, wrap).ring = r
        /\ copy(wrap, to) \in Copies(ops) /\ copy(wrap, to).op = "copy"
        /\ copy(wrap, to).ring = r
    BY <2>2
  <2>5. \A o \in Copies(ops) : o.ring = r /\ from <= o.from /\ o.to <= to
    BY <1>1, <1>4, <2>2
  <2>. HIDE DEF copy
  <2>6. \A c \in from .. to - 1 : \E o \in Copies(ops) :
          o.op = "copy" /\ o.ring = r /\ c \in o.from .. o.to - 1
    BY <2>3, <2>4
  <2>. QED BY <2>5, <2>6 DEF ops
<1>. QED BY <1>1, <1>3, <1>4

-----------------------------------------------------------------------------
(* Staged events stay where they were put until they have been copied, and    *)
(* every published event the adult has not consumed is in its slot of the     *)
(* device's ring or has a copy in the stream that will put it there.  A       *)
(* client that returns consequences at host-stepped boundaries must not also  *)
(* start the resident executor: a return settled past a waiting one moves the *)
(* reclaim frontier over copies still in flight.                              *)

OneReturnPath == ~(Resident /\ SteppedReturns)

\* Without the resident executor the kernel runs only inside a blocking span.
BoundedRuns == ~Resident => (authority # "host_stepped" => hostCall = "span")

\* Where returns settle at the boundary, none ever waits in the ring.
QuietReturns == SteppedReturns =>
  /\ writeTail["consequence"] = consumedHead["consequence"]
  /\ \A o \in Copies(stream) : o.ring # "consequence"

StagedKept == \A r \in Ring : \A c \in observedHead[r] .. writeTail[r] - 1 :
                staging[r][Slot(r, c)] = c + 1

\* The stream never reads behind the reclaim frontier.
CopiesInWindow == \A o \in Copies(stream) :
  observedHead[o.ring] <= o.from /\ o.to <= publishTail[o.ring]

CopyPending(r, c) == \E o \in Copies(stream) : o.ring = r /\ c \in o.from .. o.to - 1

QueueFollows == \A r \in Ring : \A c \in consumedHead[r] .. publishTail[r] - 1 :
                  queue[r][Slot(r, c)] = c + 1 \/ CopyPending(r, c)

TransferInv ==
  BoundedRuns /\ QuietReturns /\ StagedKept /\ CopiesInWindow /\ QueueFollows

-----------------------------------------------------------------------------
(* What each operation does to the copies in the stream.                      *)

LEMMA PublishedCopies ==
  ASSUME TypeOK, NEW r \in Ring, Publish(r)
  PROVE  Copies(stream') = Copies(stream)
           \union Copies(CopyOps(r, publishTail[r], writeTail[r]))
<1>. DEFINE ops == CopyOps(r, publishTail[r], writeTail[r])
            tail == <<TailOp(r)>>
<1>1. stream \in Seq(Ops) /\ ops \in Seq(Ops) /\ tail \in Seq(Ops)
  <2>1. publishTail[r] \in Nat /\ writeTail[r] \in Nat /\ stream \in Seq(Ops)
    BY DEF TypeOK
  <2>2. TailOp(r) \in Ops
    BY DEF TailOp, Ops
  <2>3. tail \in Seq(Ops)
    BY <2>2
  <2>4. ops \in Seq(Ops)
    BY <2>1, CopyOpsType
  <2>. QED BY <2>1, <2>3, <2>4
<1>2. stream' = (stream \o ops) \o tail
  BY DEF Publish
<1>3. Copies(tail) = {}
  BY DEF Copies, TailOp
<1>. HIDE DEF ops, tail
<1>4. stream \o ops \in Seq(Ops)
  BY <1>1, ConcatProperties
<1>5. Copies((stream \o ops) \o tail) = Copies(stream \o ops) \union Copies(tail)
  BY <1>1, <1>4, CopiesOfConcat
<1>6. Copies(stream \o ops) = Copies(stream) \union Copies(ops)
  BY <1>1, CopiesOfConcat
<1>. QED BY <1>2, <1>3, <1>5, <1>6 DEF ops

LEMMA StoppedCopies ==
  ASSUME TypeOK, StopPersistent
  PROVE  Copies(stream') = Copies(stream)
<1>. DEFINE stop == <<StopOp>>
<1>1. stream \in Seq(Ops) /\ stop \in Seq(Ops)
  <2>1. StopOp \in Ops
    BY DEF StopOp, Ops, Ring
  <2>. QED BY <2>1 DEF TypeOK
<1>2. stream' = stream \o stop
  BY <1>1 DEF StopPersistent
<1>3. Copies(stop) = {}
  BY DEF Copies, StopOp
<1>. HIDE DEF stop
<1>4. Copies(stream \o stop) = Copies(stream) \union Copies(stop)
  BY <1>1, CopiesOfConcat
<1>. QED BY <1>2, <1>3, <1>4

LEMMA PoppedCopies ==
  ASSUME TypeOK, stream # <<>>, Pop
  PROVE  /\ Copies(stream') \subseteq Copies(stream)
         /\ Head(stream).op = "copy" => Head(stream) \in Copies(stream)
         /\ \A o \in Copies(stream) : o \in Copies(stream') \/ o = Head(stream)
BY CopiesOfTail DEF TypeOK, Pop

LEMMA CopyType ==
  ASSUME TypeOK, NEW o \in Copies(stream)
  PROVE  o.ring \in Ring /\ o.from \in Nat /\ o.to \in Nat /\ o.op = "copy"
BY CopiesType DEF TypeOK

\* The copy a stream has executed is the one at its head; an executed tail or
\* stop leaves the copies alone.
LEMMA OtherPopsKeepCopies ==
  ASSUME TypeOK, TailStep \/ StopStep
  PROVE  Copies(stream') = Copies(stream)
<1>1. stream # <<>> /\ Pop /\ Head(stream).op # "copy"
  BY DEF TailStep, StopStep
<1>2. \A o \in Copies(stream) : o # Head(stream)
  BY <1>1, CopyType
<1>. QED BY <1>1, <1>2, PoppedCopies

LEMMA EmptyStreamHasNoCopies == stream = <<>> => Copies(stream) = {}
BY DEF Copies

-----------------------------------------------------------------------------
LEMMA NextBoundedRuns ==
  ASSUME TypeOK, RingInv, BoundedRuns, [Next]_vars
  PROVE  BoundedRuns'
<1>. USE DEF hostVars, lifecycle, ringVars, kernelVars
<1>1. ASSUME UNCHANGED <<authority, hostCall>> PROVE BoundedRuns'
  BY <1>1 DEF BoundedRuns
<1>2. ASSUME HostStep PROVE BoundedRuns'
  BY <1>1, <1>2 DEF HostStep, Stage, StageRefused, Publish, SettleStepped,
     SettleSteppedRefused, StartPersistent, StopPersistent, RunSpan, Launch, BoundedRuns
<1>3. ASSUME TransportStep PROVE BoundedRuns'
  BY <1>1, <1>3 DEF TransportStep, CopyStep, TailStep, StopStep
<1>4. ASSUME KernelStep PROVE BoundedRuns'
  BY <1>1, <1>4 DEF KernelStep, Snapshot, IngressPhase, IngressCommit, NoIngress,
     Settled, Rejected, SettleOne, SettlementEnds, MotorPhase, Learn
<1>5. ASSUME CallReturns PROVE BoundedRuns'
  <2>1. authority' = "host_stepped"
    BY <1>5, DrainedIsValid DEF CallReturns, StopReturns, SpanReturns, Reconcile
  <2>. QED BY <2>1 DEF BoundedRuns
<1>6. CASE UNCHANGED vars
  BY <1>1, <1>6 DEF vars
<1>. QED BY <1>2, <1>3, <1>4, <1>5, <1>6 DEF Next

LEMMA NextQuietReturns ==
  ASSUME OneReturnPath, TypeOK, RingInv, BoundedRuns, QuietReturns, [Next]_vars
  PROVE  QuietReturns'
<1>. SUFFICES ASSUME SteppedReturns
              PROVE  /\ writeTail'["consequence"] = consumedHead'["consequence"]
                     /\ \A o \in Copies(stream') : o.ring # "consequence"
  BY DEF QuietReturns
<1>. DEFINE r == "consequence"
<1>. USE DEF hostVars, lifecycle, ringVars, kernelVars
<1>b. "ingress" \in Ring /\ "consequence" \in Ring
  BY DEF Ring
<1>c. /\ writeTail \in [Ring -> Nat] /\ publishTail \in [Ring -> Nat]
      /\ publishedTail \in [Ring -> Nat] /\ consumedHead \in [Ring -> Nat]
      /\ snap \in [Ring -> Nat]
  BY DEF TypeOK
<1>i. /\ writeTail[r] = consumedHead[r]
      /\ \A o \in Copies(stream) : o.ring # "consequence"
  BY DEF QuietReturns
<1>o. /\ consumedHead[r] <= publishedTail[r] /\ publishedTail[r] <= publishTail[r]
      /\ publishTail[r] <= writeTail[r]
  BY <1>b DEF RingInv, RingOrder
<1>n. authority = "persistent" => hostCall # "none"
  BY DEF OneReturnPath, BoundedRuns
<1>g. /\ writeTail[r] \in Nat /\ publishTail[r] \in Nat
      /\ publishedTail[r] \in Nat /\ consumedHead[r] \in Nat /\ snap[r] \in Nat
  BY <1>b, <1>c
<1>. DEFINE Goal == /\ writeTail'["consequence"] = consumedHead'["consequence"]
                    /\ \A o \in Copies(stream') : o.ring # "consequence"
<1>1. ASSUME UNCHANGED <<writeTail, consumedHead, stream>> PROVE Goal
  BY <1>1, <1>i
<1>2. ASSUME NEW q \in Ring, Stage(q) PROVE Goal
  <2>1. q # "consequence"
    BY <1>2, <1>n DEF Stage
  <2>. QED BY <1>2, <1>c, <1>i, <2>1 DEF Stage
<1>3. ASSUME NEW q \in Ring, Publish(q) PROVE Goal
  <2>1. q # "consequence"
    <3>1. ~(publishTail[r] < writeTail[r])
      BY <1>i, <1>o, <1>g
    <3>. QED BY <1>3, <3>1 DEF Publish
  <2>2. publishTail[q] \in Nat /\ writeTail[q] \in Nat /\ publishTail[q] < writeTail[q]
    BY <1>3, <1>c DEF Publish
  <2>3. \A o \in Copies(CopyOps(q, publishTail[q], writeTail[q])) : o.ring = q
    BY <2>2, CopiesPublished
  <2>4. \A o \in Copies(stream') : o.ring # "consequence"
    BY <1>3, <1>i, <2>1, <2>3, PublishedCopies
  <2>. QED BY <1>3, <1>i, <2>4 DEF Publish
<1>4. ASSUME NEW width \in 1 .. SettlementWidth, SettleStepped(width) PROVE Goal
  BY <1>4, <1>b, <1>c, <1>i DEF SettleStepped
<1>5. ASSUME StopPersistent PROVE Goal
  BY <1>5, <1>i, StoppedCopies DEF StopPersistent
<1>6. ASSUME TransportStep PROVE Goal
  <2>1. Copies(stream') \subseteq Copies(stream)
    BY <1>6, PoppedCopies DEF TransportStep, CopyStep, TailStep, StopStep
  <2>. QED BY <1>6, <1>i, <2>1 DEF TransportStep, CopyStep, TailStep, StopStep
<1>7. ASSUME NEW fate, NEW page, SettleOne(fate, page) PROVE Goal
  <2>1. consumedHead[r] < snap[r]
    BY <1>7 DEF SettleOne, ReturnsLeft
  <2>2. snap[r] <= publishedTail[r]
    BY <1>7, <1>b DEF SettleOne, RingInv, SnapshotOrder, InEpoch
  <2>3. FALSE
    BY ONLY <2>1, <2>2, <1>i, <1>o, <1>g
  <2>. QED BY <2>3
<1>8. ASSUME IngressCommit PROVE Goal
  BY <1>8, <1>c, <1>i DEF IngressCommit
<1>9. ASSUME Next, ~(\E q \in Ring : Stage(q) \/ Publish(q)), ~StopPersistent,
             ~(\E width \in 1 .. SettlementWidth : SettleStepped(width)),
             ~TransportStep, ~IngressCommit, ~\E fate, page : SettleOne(fate, page)
      PROVE  Goal
  <2>1. UNCHANGED <<writeTail, consumedHead, stream>>
    BY <1>9 DEF Next, HostStep, StageRefused, SettleSteppedRefused, StartPersistent,
       RunSpan, Launch, KernelStep, Snapshot, IngressPhase, NoIngress, Settled, Rejected,
       SettlementEnds, MotorPhase, Learn, CallReturns, StopReturns, SpanReturns, Reconcile
  <2>. QED BY <1>1, <2>1
<1>10. CASE UNCHANGED vars
  BY <1>1, <1>10 DEF vars
<1>. QED BY <1>2, <1>3, <1>4, <1>5, <1>6, <1>7, <1>8, <1>9, <1>10

\* Writing the slot of the next cursor disturbs none that is still needed.
LEMMA SlotAhead ==
  ASSUME NEW r \in Ring, NEW lo \in Nat, NEW t \in Nat, lo <= t, t - lo < Capacity[r],
         NEW c \in lo .. t - 1
  PROVE  Slot(r, c) # Slot(r, t)
<1>. SUFFICES ASSUME Slot(r, c) = Slot(r, t) PROVE FALSE
  OBVIOUS
<1>1. Capacity[r] \in Nat /\ c \in Nat
  BY CapacityPositive
<1>2. c \in lo .. lo + Capacity[r] - 1 /\ t \in lo .. lo + Capacity[r] - 1
  BY <1>1
<1>3. c = t
  BY <1>1, <1>2, SlotsApart
<1>. QED BY <1>3

\* The staging of one ring after its next cursor has been written.
LEMMA StagedAhead ==
  ASSUME TypeOK, RingInv, StagedKept, NEW r \in Ring, NEW lo \in Nat,
         observedHead[r] <= lo, lo <= writeTail[r], writeTail[r] - lo < Capacity[r],
         staging' = [staging EXCEPT ![r][Slot(r, writeTail[r])] = writeTail[r] + 1]
  PROVE  \A c \in lo .. writeTail[r] : staging'[r][Slot(r, c)] = c + 1
<1>. DEFINE t == writeTail[r]
<1>1. t \in Nat /\ observedHead[r] \in Nat
  BY DEF TypeOK
<1>2. Slot(r, t) \in Slots(r)
  BY <1>1, SlotType
<1>3. staging[r] \in [Slots(r) -> Nat] /\ DOMAIN staging = Ring
  BY DEF TypeOK
<1>4. staging'[r] = [staging[r] EXCEPT ![Slot(r, t)] = t + 1]
  BY <1>3
<1>. SUFFICES ASSUME NEW c \in lo .. t PROVE staging'[r][Slot(r, c)] = c + 1
  OBVIOUS
<1>5. c \in Nat /\ Slot(r, c) \in Slots(r)
  BY <1>1, SlotType
<1>6. CASE c = t
  BY <1>2, <1>3, <1>4, <1>6
<1>7. CASE c # t
  <2>1. c \in lo .. t - 1 /\ c \in observedHead[r] .. t - 1
    BY <1>1, <1>7
  <2>2. Slot(r, c) # Slot(r, t)
    BY <1>1, <2>1, SlotAhead
  <2>3. staging[r][Slot(r, c)] = c + 1
    BY <2>1 DEF StagedKept
  <2>. QED BY <1>3, <1>4, <1>5, <2>2, <2>3
<1>. QED BY <1>6, <1>7

LEMMA NextStagedKept ==
  ASSUME TypeOK, RingInv, StagedKept, [Next]_vars
  PROVE  StagedKept'
<1>. USE DEF hostVars, lifecycle, ringVars, kernelVars
<1>b. "ingress" \in Ring /\ "consequence" \in Ring
  BY DEF Ring
<1>c. /\ writeTail \in [Ring -> Nat] /\ observedHead \in [Ring -> Nat]
      /\ consumedHead \in [Ring -> Nat] /\ DOMAIN staging = Ring
  BY DEF TypeOK
<1>o. \A r \in Ring : observedHead[r] <= consumedHead[r] /\ consumedHead[r] <= writeTail[r]
  <2>. SUFFICES ASSUME NEW r \in Ring
                PROVE  observedHead[r] <= consumedHead[r] /\ consumedHead[r] <= writeTail[r]
    OBVIOUS
  <2>1. /\ consumedHead[r] \in Nat /\ publishedTail[r] \in Nat /\ publishTail[r] \in Nat
        /\ writeTail[r] \in Nat /\ observedHead[r] \in Nat
    BY DEF TypeOK
  <2>2. /\ observedHead[r] <= consumedHead[r] /\ consumedHead[r] <= publishedTail[r]
        /\ publishedTail[r] <= publishTail[r] /\ publishTail[r] <= writeTail[r]
    BY DEF RingInv, RingOrder
  <2>. QED BY ONLY <2>1, <2>2
<1>f. \A r \in Ring : /\ observedHead[r] <= Frontier(r) /\ Frontier(r) <= writeTail[r]
                      /\ Frontier(r) \in Nat
  <2>. SUFFICES ASSUME NEW r \in Ring
                PROVE  /\ observedHead[r] <= Frontier(r) /\ Frontier(r) <= writeTail[r]
                       /\ Frontier(r) \in Nat
    OBVIOUS
  <2>1. consumedHead[r] \in Nat /\ writeTail[r] \in Nat /\ observedHead[r] \in Nat
    BY <1>c
  <2>. QED BY <1>o, <2>1 DEF Frontier
<1>0. ASSUME NEW r \in Ring,
             staging'[r] = staging[r], writeTail'[r] = writeTail[r],
             observedHead'[r] \in Nat, observedHead[r] <= observedHead'[r]
      PROVE  \A c \in observedHead'[r] .. writeTail'[r] - 1 : staging'[r][Slot(r, c)] = c + 1
  <2>. SUFFICES ASSUME NEW c \in observedHead'[r] .. writeTail'[r] - 1
                PROVE  staging'[r][Slot(r, c)] = c + 1
    OBVIOUS
  <2>1. c \in observedHead[r] .. writeTail[r] - 1
    BY <1>0, <1>c
  <2>. QED BY <1>0, <2>1 DEF StagedKept
<1>1. ASSUME UNCHANGED <<staging, writeTail>>, observedHead' \in [Ring -> Nat],
             \A r \in Ring : observedHead[r] <= observedHead'[r]
      PROVE  StagedKept'
  BY <1>0, <1>1 DEF StagedKept
<1>2. ASSUME NEW r \in Ring, Stage(r) PROVE StagedKept'
  <2>1. /\ staging' = [staging EXCEPT ![r][Slot(r, writeTail[r])] = writeTail[r] + 1]
        /\ writeTail[r] - Frontier(r) < Capacity[r]
        /\ writeTail' = [writeTail EXCEPT ![r] = @ + 1]
        /\ observedHead' = [observedHead EXCEPT ![r] = Frontier(r)]
    BY <1>2 DEF Stage
  <2>2. \A c \in Frontier(r) .. writeTail[r] : staging'[r][Slot(r, c)] = c + 1
    BY <1>f, <2>1, StagedAhead
  <2>3. writeTail'[r] - 1 = writeTail[r] /\ observedHead'[r] = Frontier(r)
    BY <1>c, <2>1
  <2>4. ASSUME NEW q \in Ring, q # r
        PROVE  \A c \in observedHead'[q] .. writeTail'[q] - 1 : staging'[q][Slot(q, c)] = c + 1
    <3>1. /\ staging'[q] = staging[q] /\ writeTail'[q] = writeTail[q]
          /\ observedHead'[q] = observedHead[q] /\ observedHead[q] \in Nat
      BY <1>c, <2>1, <2>4
    <3>. QED BY <1>0, <3>1
  <2>. QED BY <2>2, <2>3, <2>4 DEF StagedKept
<1>3. ASSUME NEW r \in Ring, StageRefused(r) PROVE StagedKept'
  <2>1. /\ observedHead' = [observedHead EXCEPT ![r] = Frontier(r)]
        /\ UNCHANGED <<staging, writeTail>>
    BY <1>3 DEF StageRefused
  <2>2. observedHead' \in [Ring -> Nat]
    BY <1>c, <1>f, <2>1
  <2>. QED BY <1>1, <1>c, <1>f, <2>1, <2>2, Raised
<1>4. ASSUME NEW width \in 1 .. SettlementWidth, SettleStepped(width) PROVE StagedKept'
  <2>1. /\ staging' = [staging EXCEPT !["consequence"][Slot("consequence", writeTail["consequence"])]
                         = writeTail["consequence"] + 1]
        /\ writeTail' = [writeTail EXCEPT !["consequence"] = writeTail["consequence"] + 1]
        /\ observedHead' = [observedHead EXCEPT !["consequence"] = writeTail["consequence"] + 1]
    BY <1>4 DEF SettleStepped
  <2>2. ASSUME NEW q \in Ring, q # "consequence"
        PROVE  \A c \in observedHead'[q] .. writeTail'[q] - 1 : staging'[q][Slot(q, c)] = c + 1
    <3>1. /\ staging'[q] = staging[q] /\ writeTail'[q] = writeTail[q]
          /\ observedHead'[q] = observedHead[q] /\ observedHead[q] \in Nat
      BY <1>c, <2>1, <2>2
    <3>. QED BY <1>0, <3>1
  <2>3. /\ observedHead'["consequence"] = writeTail["consequence"] + 1
        /\ writeTail'["consequence"] = writeTail["consequence"] + 1
        /\ writeTail["consequence"] \in Nat
    BY <1>b, <1>c, <2>1
  <2>4. observedHead'["consequence"] .. writeTail'["consequence"] - 1 = {}
    BY <2>3
  <2>. QED BY <2>2, <2>4 DEF StagedKept
<1>5. ASSUME SettleSteppedRefused PROVE StagedKept'
  <2>. DEFINE r == "consequence"
  <2>1. /\ staging' = [staging EXCEPT ![r][Slot(r, writeTail[r])] = writeTail[r] + 1]
        /\ writeTail[r] - Frontier(r) < Capacity[r]
        /\ writeTail' = writeTail
        /\ observedHead' = [observedHead EXCEPT ![r] = Frontier(r)]
    BY <1>5 DEF SettleSteppedRefused
  <2>0. r \in Ring
    BY <1>b
  <2>. HIDE DEF r
  <2>2. \A c \in Frontier(r) .. writeTail[r] : staging'[r][Slot(r, c)] = c + 1
    BY <1>f, <2>0, <2>1, StagedAhead
  <2>3. writeTail'[r] = writeTail[r] /\ observedHead'[r] = Frontier(r)
        /\ writeTail[r] \in Nat /\ Frontier(r) \in Nat
    BY <1>c, <1>f, <2>0, <2>1
  <2>4. ASSUME NEW q \in Ring, q # r
        PROVE  \A c \in observedHead'[q] .. writeTail'[q] - 1 : staging'[q][Slot(q, c)] = c + 1
    <3>1. /\ staging'[q] = staging[q] /\ writeTail'[q] = writeTail[q]
          /\ observedHead'[q] = observedHead[q] /\ observedHead[q] \in Nat
      BY <1>c, <2>1, <2>4
    <3>. QED BY <1>0, <3>1
  <2>5. \A c \in observedHead'[r] .. writeTail'[r] - 1 : staging'[r][Slot(r, c)] = c + 1
    BY <2>2, <2>3
  <2>. QED BY <2>4, <2>5 DEF StagedKept
<1>6. ASSUME Reconcile PROVE StagedKept'
  <2>1. /\ observedHead' = consumedHead \/ observedHead' = observedHead
        /\ UNCHANGED <<staging, writeTail>>
    BY <1>6 DEF Reconcile
  <2>2. \A r \in Ring : observedHead[r] <= observedHead[r]
    BY <1>c
  <2>. QED BY <1>1, <1>c, <1>o, <2>1, <2>2
<1>7. ASSUME UNCHANGED <<staging, writeTail, observedHead>> PROVE StagedKept'
  BY <1>7 DEF StagedKept
<1>8. ASSUME Next, ~(\E r \in Ring : Stage(r) \/ StageRefused(r)),
             ~(\E width \in 1 .. SettlementWidth : SettleStepped(width)),
             ~SettleSteppedRefused, ~Reconcile
      PROVE  StagedKept'
  <2>1. UNCHANGED <<staging, writeTail, observedHead>>
    BY <1>8 DEF Next, HostStep, Publish, StartPersistent, StopPersistent,
       RunSpan, Launch, TransportStep, CopyStep, TailStep, StopStep,
       KernelStep, Snapshot, IngressPhase, IngressCommit, NoIngress, Settled, Rejected,
       SettleOne, SettlementEnds, MotorPhase, Learn, CallReturns, StopReturns, SpanReturns
  <2>. QED BY <1>7, <2>1
<1>9. CASE UNCHANGED vars
  BY <1>7, <1>9 DEF vars
<1>. QED BY <1>2, <1>3, <1>4, <1>5, <1>6, <1>8, <1>9

LEMMA NextCopiesInWindow ==
  ASSUME OneReturnPath, TypeOK, RingInv, QuietReturns, CopiesInWindow, [Next]_vars
  PROVE  CopiesInWindow'
<1>. USE DEF hostVars, lifecycle, ringVars, kernelVars
<1>b. "ingress" \in Ring /\ "consequence" \in Ring
  BY DEF Ring
<1>c. /\ writeTail \in [Ring -> Nat] /\ observedHead \in [Ring -> Nat]
      /\ publishTail \in [Ring -> Nat]
  BY DEF TypeOK
<1>o. \A r \in Ring : observedHead[r] <= publishTail[r] /\ publishTail[r] <= writeTail[r]
  <2>. SUFFICES ASSUME NEW r \in Ring
                PROVE  observedHead[r] <= publishTail[r] /\ publishTail[r] <= writeTail[r]
    OBVIOUS
  <2>1. /\ consumedHead[r] \in Nat /\ publishedTail[r] \in Nat /\ publishTail[r] \in Nat
        /\ writeTail[r] \in Nat /\ observedHead[r] \in Nat
    BY DEF TypeOK
  <2>2. /\ observedHead[r] <= consumedHead[r] /\ consumedHead[r] <= publishedTail[r]
        /\ publishedTail[r] <= publishTail[r] /\ publishTail[r] <= writeTail[r]
    BY DEF RingInv, RingOrder
  <2>. QED BY ONLY <2>1, <2>2
<1>k. \A o \in Copies(stream) : /\ o.ring \in Ring /\ o.from \in Nat /\ o.to \in Nat
                                /\ observedHead[o.ring] <= o.from
                                /\ o.to <= publishTail[o.ring]
  BY CopyType DEF CopiesInWindow
<1>1. ASSUME Copies(stream') = {} PROVE CopiesInWindow'
  BY <1>1 DEF CopiesInWindow
<1>2. ASSUME Copies(stream') \subseteq Copies(stream), UNCHANGED <<observedHead, publishTail>>
      PROVE  CopiesInWindow'
  BY <1>2 DEF CopiesInWindow
\* A refresh of the reclaim frontier waits for the stream to drain.
<1>3. ASSUME NEW r \in Ring, RefreshDone(r), UNCHANGED <<stream, publishTail>>,
             observedHead' = [observedHead EXCEPT ![r] = Frontier(r)]
      PROVE  CopiesInWindow'
  <2>1. CASE Full(r)
    BY <1>1, <1>3, <2>1, EmptyStreamHasNoCopies DEF RefreshDone
  <2>2. CASE ~Full(r)
    <3>1. observedHead' = observedHead
      BY <1>3, <1>c, <2>2 DEF Frontier
    <3>. QED BY <1>2, <1>3, <3>1
  <2>. QED BY <2>1, <2>2
<1>4. ASSUME NEW r \in Ring, Stage(r) \/ StageRefused(r) PROVE CopiesInWindow'
  BY <1>3, <1>4 DEF Stage, StageRefused
<1>5. ASSUME NEW r \in Ring, Publish(r) PROVE CopiesInWindow'
  <2>1. /\ publishTail' = [publishTail EXCEPT ![r] = writeTail[r]]
        /\ observedHead' = observedHead /\ publishTail[r] < writeTail[r]
    BY <1>5 DEF Publish
  <2>2. \A o \in Copies(CopyOps(r, publishTail[r], writeTail[r])) :
          o.ring = r /\ publishTail[r] <= o.from /\ o.to <= writeTail[r]
    BY <1>c, <2>1, CopiesPublished
  <2>3. \A o \in Copies(CopyOps(r, publishTail[r], writeTail[r])) : o.from \in Nat
    <3>1. CopyOps(r, publishTail[r], writeTail[r]) \in Seq(Ops)
      BY <1>c, CopyOpsType
    <3>. QED BY <3>1, CopiesType
  <2>. SUFFICES ASSUME NEW o \in Copies(stream')
                PROVE  observedHead'[o.ring] <= o.from /\ o.to <= publishTail'[o.ring]
    BY DEF CopiesInWindow
  <2>4. CASE o \in Copies(stream)
    <3>1. /\ o.ring \in Ring /\ o.from \in Nat /\ o.to \in Nat
          /\ observedHead[o.ring] <= o.from /\ o.to <= publishTail[o.ring]
      BY <1>k, <2>4
    <3>2. publishTail[o.ring] <= publishTail'[o.ring] /\ publishTail'[o.ring] \in Nat
          /\ publishTail[o.ring] \in Nat
      BY <1>c, <1>o, <2>1, <3>1
    <3>. QED BY <2>1, <3>1, <3>2
  <2>5. CASE o \in Copies(CopyOps(r, publishTail[r], writeTail[r]))
    <3>1. /\ o.ring = r /\ publishTail[r] <= o.from /\ o.to <= writeTail[r] /\ o.from \in Nat
      BY <2>2, <2>3, <2>5
    <3>2. /\ observedHead[r] <= publishTail[r] /\ publishTail'[r] = writeTail[r]
          /\ observedHead[r] \in Nat /\ publishTail[r] \in Nat
      BY <1>c, <1>o, <2>1
    <3>. QED BY <2>1, <3>1, <3>2
  <2>. QED BY <1>5, <2>4, <2>5, PublishedCopies
<1>6. ASSUME NEW width \in 1 .. SettlementWidth, SettleStepped(width) PROVE CopiesInWindow'
  <2>1. /\ observedHead' = [observedHead EXCEPT !["consequence"] = writeTail["consequence"] + 1]
        /\ publishTail' = [publishTail EXCEPT !["consequence"] = writeTail["consequence"] + 1]
        /\ stream' = stream
    BY <1>6 DEF SettleStepped
  <2>2. \A o \in Copies(stream) : o.ring # "consequence"
    BY <1>6 DEF SettleStepped, QuietReturns
  <2>3. \A o \in Copies(stream) : observedHead'[o.ring] = observedHead[o.ring]
                                  /\ publishTail'[o.ring] = publishTail[o.ring]
    BY <1>c, <2>1, <2>2
  <2>. QED BY <2>1, <2>3 DEF CopiesInWindow
<1>7. ASSUME SettleSteppedRefused PROVE CopiesInWindow'
  BY <1>3, <1>7, <1>b DEF SettleSteppedRefused
<1>8. ASSUME StopPersistent PROVE CopiesInWindow'
  BY <1>2, <1>8, StoppedCopies DEF StopPersistent
<1>9. ASSUME TransportStep PROVE CopiesInWindow'
  <2>1. Copies(stream') \subseteq Copies(stream)
    BY <1>9, PoppedCopies DEF TransportStep, CopyStep, TailStep, StopStep
  <2>. QED BY <1>2, <1>9, <2>1 DEF TransportStep, CopyStep, TailStep, StopStep
<1>10. ASSUME Reconcile PROVE CopiesInWindow'
  BY <1>1, <1>10, EmptyStreamHasNoCopies DEF Reconcile
<1>11. ASSUME Next, ~(\E r \in Ring : Stage(r) \/ StageRefused(r) \/ Publish(r)),
              ~(\E width \in 1 .. SettlementWidth : SettleStepped(width)),
              ~SettleSteppedRefused, ~StopPersistent, ~TransportStep, ~Reconcile
       PROVE  CopiesInWindow'
  <2>1. UNCHANGED <<stream, observedHead, publishTail>>
    BY <1>11 DEF Next, HostStep, StartPersistent, RunSpan, Launch,
       KernelStep, Snapshot, IngressPhase, IngressCommit, NoIngress, Settled, Rejected,
       SettleOne, SettlementEnds, MotorPhase, Learn, CallReturns, StopReturns, SpanReturns
  <2>. QED BY <1>2, <2>1
<1>12. CASE UNCHANGED vars
  BY <1>2, <1>12 DEF vars
<1>. QED BY <1>4, <1>5, <1>6, <1>7, <1>8, <1>9, <1>10, <1>11, <1>12
LEMMA NextQueueFollows ==
  ASSUME OneReturnPath, TypeOK, RingInv, StagedKept, QuietReturns, CopiesInWindow,
         QueueFollows, [Next]_vars
  PROVE  QueueFollows'
<1>. USE DEF hostVars, lifecycle, ringVars, kernelVars
<1>b. "ingress" \in Ring /\ "consequence" \in Ring
  BY DEF Ring
<1>c. /\ writeTail \in [Ring -> Nat] /\ observedHead \in [Ring -> Nat]
      /\ publishTail \in [Ring -> Nat] /\ consumedHead \in [Ring -> Nat]
      /\ snap \in [Ring -> Nat]
  BY DEF TypeOK
<1>o. \A r \in Ring : /\ observedHead[r] <= consumedHead[r]
                      /\ publishTail[r] <= writeTail[r]
                      /\ writeTail[r] <= observedHead[r] + Capacity[r]
                      /\ Capacity[r] \in Nat
  BY CapacityPositive DEF RingInv, RingOrder
<1>k. \A o \in Copies(stream) : /\ o.ring \in Ring /\ o.from \in Nat /\ o.to \in Nat
                                /\ observedHead[o.ring] <= o.from
                                /\ o.to <= publishTail[o.ring]
  BY CopyType DEF CopiesInWindow
\* Steps that leave the transfer alone, or only consume.
<1>1. ASSUME UNCHANGED queue, Copies(stream') = Copies(stream), UNCHANGED publishTail,
             consumedHead' \in [Ring -> Nat],
             \A r \in Ring : consumedHead[r] <= consumedHead'[r]
      PROVE  QueueFollows'
  <2>. SUFFICES ASSUME NEW r \in Ring, NEW c \in consumedHead'[r] .. publishTail'[r] - 1
                PROVE  queue'[r][Slot(r, c)] = c + 1 \/ CopyPending(r, c)'
    BY DEF QueueFollows
  <2>1. c \in consumedHead[r] .. publishTail[r] - 1
    BY <1>1, <1>c
  <2>. QED BY <1>1, <2>1 DEF QueueFollows, CopyPending
<1>2. ASSUME UNCHANGED <<queue, stream, publishTail, consumedHead>> PROVE QueueFollows'
  BY <1>2 DEF QueueFollows, CopyPending
<1>3. ASSUME NEW q \in Ring, Publish(q) PROVE QueueFollows'
  <2>. DEFINE new == Copies(CopyOps(q, publishTail[q], writeTail[q]))
  <2>1. /\ publishTail' = [publishTail EXCEPT ![q] = writeTail[q]]
        /\ publishTail[q] < writeTail[q] /\ UNCHANGED <<queue, consumedHead>>
    BY <1>3 DEF Publish
  <2>2. Copies(stream') = Copies(stream) \union new
    BY <1>3, PublishedCopies
  <2>3. \A c \in publishTail[q] .. writeTail[q] - 1 :
          \E o \in new : o.ring = q /\ c \in o.from .. o.to - 1
    BY <1>c, <2>1, CopiesPublished
  <2>. HIDE DEF new
  <2>. SUFFICES ASSUME NEW r \in Ring, NEW c \in consumedHead[r] .. publishTail'[r] - 1
                PROVE  queue[r][Slot(r, c)] = c + 1 \/ CopyPending(r, c)'
    BY <2>1 DEF QueueFollows
  <2>4. CASE c \in consumedHead[r] .. publishTail[r] - 1
    BY <2>2, <2>4 DEF QueueFollows, CopyPending
  <2>5. CASE c \notin consumedHead[r] .. publishTail[r] - 1
    <3>1. r = q
      BY <1>c, <2>1, <2>5
    <3>2. c \in publishTail[q] .. writeTail[q] - 1
      BY <1>c, <2>1, <2>5, <3>1
    <3>. QED BY <2>2, <2>3, <3>1, <3>2 DEF CopyPending
  <2>. QED BY <2>4, <2>5
<1>4. ASSUME NEW width \in 1 .. SettlementWidth, SettleStepped(width) PROVE QueueFollows'
  <2>1. /\ publishTail' = [publishTail EXCEPT !["consequence"] = writeTail["consequence"] + 1]
        /\ consumedHead' = [consumedHead EXCEPT !["consequence"] = writeTail["consequence"] + 1]
        /\ UNCHANGED <<queue, stream>>
    BY <1>4 DEF SettleStepped
  <2>. SUFFICES ASSUME NEW r \in Ring, NEW c \in consumedHead'[r] .. publishTail'[r] - 1
                PROVE  queue[r][Slot(r, c)] = c + 1 \/ CopyPending(r, c)
    BY <2>1 DEF QueueFollows, CopyPending
  <2>2. r # "consequence"
    <3>. SUFFICES ASSUME r = "consequence" PROVE FALSE
      OBVIOUS
    <3>1. /\ consumedHead'[r] = writeTail[r] + 1 /\ publishTail'[r] = writeTail[r] + 1
          /\ writeTail[r] \in Nat
      BY <1>b, <1>c, <2>1
    <3>. QED BY <3>1
  <2>3. c \in consumedHead[r] .. publishTail[r] - 1
    BY <1>c, <2>1, <2>2
  <2>. QED BY <2>3 DEF QueueFollows
<1>5. ASSUME StopPersistent PROVE QueueFollows'
  <2>1. \A r \in Ring : consumedHead[r] <= consumedHead[r]
    BY <1>c
  <2>. QED BY <1>1, <1>5, <1>c, <2>1, StoppedCopies DEF StopPersistent
<1>6. ASSUME TailStep \/ StopStep PROVE QueueFollows'
  <2>1. \A r \in Ring : consumedHead[r] <= consumedHead[r]
    BY <1>c
  <2>. QED BY <1>1, <1>6, <1>c, <2>1, OtherPopsKeepCopies DEF TailStep, StopStep
<1>7. ASSUME CopyStep PROVE QueueFollows'
  <2>. DEFINE o == Head(stream)
  <2>1. /\ stream # <<>> /\ o.op = "copy" /\ Pop
        /\ queue' = [queue EXCEPT ![o.ring] =
             [s \in Slots(o.ring) |->
                IF \E d \in o.from .. o.to - 1 : Slot(o.ring, d) = s
                THEN staging[o.ring][s] ELSE queue[o.ring][s]]]
        /\ UNCHANGED <<publishTail, consumedHead>>
    BY <1>7 DEF CopyStep
  <2>2. /\ o \in Copies(stream)
        /\ \A p \in Copies(stream) : p \in Copies(stream') \/ p = o
    BY <2>1, PoppedCopies
  <2>3. /\ o.ring \in Ring /\ o.from \in Nat /\ o.to \in Nat
        /\ observedHead[o.ring] <= o.from /\ o.to <= publishTail[o.ring]
    BY <1>k, <2>2
  <2>4. DOMAIN queue = Ring
    BY DEF TypeOK
  <2>. HIDE DEF o
  <2>. SUFFICES ASSUME NEW r \in Ring, NEW c \in consumedHead[r] .. publishTail[r] - 1
                PROVE  queue'[r][Slot(r, c)] = c + 1 \/ CopyPending(r, c)'
    BY <2>1 DEF QueueFollows
  <2>5. queue[r][Slot(r, c)] = c + 1 \/ CopyPending(r, c)
    BY DEF QueueFollows
  <2>6. CASE r # o.ring
    <3>1. queue'[r] = queue[r]
      BY <2>1, <2>4, <2>6
    <3>2. CopyPending(r, c) => CopyPending(r, c)'
      BY <2>2, <2>6 DEF CopyPending
    <3>. QED BY <2>5, <3>1, <3>2
  <2>7. CASE r = o.ring
    <3>g. /\ observedHead[r] \in Nat /\ consumedHead[r] \in Nat /\ publishTail[r] \in Nat
          /\ writeTail[r] \in Nat /\ Capacity[r] \in Nat /\ o.from \in Nat /\ o.to \in Nat
          /\ observedHead[r] <= consumedHead[r] /\ publishTail[r] <= writeTail[r]
          /\ writeTail[r] <= observedHead[r] + Capacity[r]
          /\ observedHead[r] <= o.from /\ o.to <= publishTail[r]
      BY <1>c, <1>o, <2>3, <2>7
    <3>1. c \in Nat /\ Slot(r, c) \in Slots(r)
      BY <3>g, SlotType
    <3>2. queue'[r][Slot(r, c)] = IF \E d \in o.from .. o.to - 1 : Slot(r, d) = Slot(r, c)
                                  THEN staging[r][Slot(r, c)] ELSE queue[r][Slot(r, c)]
      BY <2>1, <2>4, <2>7, <3>1
    <3>3. CASE c \in o.from .. o.to - 1
      <4>1. c \in observedHead[r] .. writeTail[r] - 1
        BY <3>g, <3>3
      <4>2. staging[r][Slot(r, c)] = c + 1
        BY <4>1 DEF StagedKept
      <4>. QED BY <3>2, <3>3, <4>2
    <3>4. CASE c \notin o.from .. o.to - 1
      <4>1. ASSUME NEW d \in o.from .. o.to - 1 PROVE Slot(r, d) # Slot(r, c)
        <5>1. /\ d \in Nat
              /\ d \in observedHead[r] .. observedHead[r] + Capacity[r] - 1
              /\ c \in observedHead[r] .. observedHead[r] + Capacity[r] - 1
          BY <3>g
        <5>2. d # c
          BY <3>4
        <5>. QED BY <3>g, <3>1, <5>1, <5>2, SlotsApart
      <4>2. queue'[r][Slot(r, c)] = queue[r][Slot(r, c)]
        BY <3>2, <4>1
      <4>3. CopyPending(r, c) => CopyPending(r, c)'
        BY <2>2, <3>4 DEF CopyPending
      <4>. QED BY <2>5, <4>2, <4>3
    <3>. QED BY <3>3, <3>4
  <2>. QED BY <2>6, <2>7
<1>8. ASSUME NEW fate, NEW page, SettleOne(fate, page) PROVE QueueFollows'
  <2>1. /\ consumedHead' = [consumedHead EXCEPT !["consequence"] = @ + 1]
        /\ UNCHANGED <<queue, stream, publishTail>>
    BY <1>8 DEF SettleOne
  <2>2. /\ consumedHead["consequence"] <= consumedHead["consequence"] + 1
        /\ consumedHead["consequence"] + 1 \in Nat
    BY <1>b, <1>c
  <2>. QED BY <1>1, <1>b, <1>c, <2>1, <2>2, Raised
<1>9. ASSUME IngressCommit PROVE QueueFollows'
  <2>1. consumedHead["ingress"] <= snap["ingress"]
    BY <1>9, <1>b DEF IngressCommit, RingInv, SnapshotOrder, InEpoch
  <2>2. /\ consumedHead' = [consumedHead EXCEPT !["ingress"] = snap["ingress"]]
        /\ UNCHANGED <<queue, stream, publishTail>>
    BY <1>9 DEF IngressCommit
  <2>. QED BY <1>1, <1>b, <1>c, <2>1, <2>2, Raised
<1>10. ASSUME Next, ~(\E r \in Ring : Publish(r)),
              ~(\E width \in 1 .. SettlementWidth : SettleStepped(width)),
              ~StopPersistent, ~TransportStep, ~IngressCommit,
              ~\E fate, page : SettleOne(fate, page)
       PROVE  QueueFollows'
  <2>1. UNCHANGED <<queue, stream, publishTail, consumedHead>>
    BY <1>10 DEF Next, HostStep, Stage, StageRefused, SettleSteppedRefused, StartPersistent,
       RunSpan, Launch, KernelStep, Snapshot, IngressPhase, NoIngress, Settled, Rejected,
       SettlementEnds, MotorPhase, Learn, CallReturns, StopReturns, SpanReturns, Reconcile
  <2>. QED BY <1>2, <2>1
<1>11. CASE UNCHANGED vars
  BY <1>2, <1>11 DEF vars
<1>. QED BY <1>3, <1>4, <1>5, <1>6, <1>7, <1>8, <1>9, <1>10, <1>11 DEF TransportStep

LEMMA InitTransferInv == Init => TransferInv
<1>. SUFFICES ASSUME Init PROVE TransferInv
  OBVIOUS
<1>1. Copies(stream) = {}
  BY EmptyStreamHasNoCopies DEF Init
<1>2. BoundedRuns /\ QuietReturns /\ CopiesInWindow
  BY <1>1 DEF Init, BoundedRuns, QuietReturns, CopiesInWindow, Ring
<1>3. StagedKept /\ QueueFollows
  BY DEF Init, StagedKept, QueueFollows
<1>. QED BY <1>2, <1>3 DEF TransferInv

LEMMA TransferInvHolds ==
  ASSUME OneReturnPath
  PROVE  Spec => [](TypeOK /\ RingInv /\ TransferInv)
<1>1. Init => TypeOK /\ RingInv /\ TransferInv
  BY InitTypeOK, InitRingInv, InitTransferInv
<1>2. TypeOK /\ RingInv /\ TransferInv /\ [Next]_vars => (TypeOK /\ RingInv /\ TransferInv)'
  <2>. SUFFICES ASSUME TypeOK, RingInv, TransferInv, [Next]_vars PROVE TransferInv'
    BY NextTypeOK, NextRingInv
  <2>. QED BY NextBoundedRuns, NextQuietReturns, NextStagedKept, NextCopiesInWindow,
              NextQueueFollows DEF TransferInv
<1>. QED BY <1>1, <1>2, PTL DEF Spec

\* No pinned staging slot is rewritten before the copy that reads it has executed,
\* for rings of any capacity, whenever the stream chooses to run.
THEOREM StagingIsStable ==
  ASSUME OneReturnPath
  PROVE  Spec => []StagingStable
<1>1. TypeOK /\ RingInv /\ TransferInv => StagingStable
  <2>. SUFFICES ASSUME TypeOK, RingInv, TransferInv, NEW i \in 1 .. Len(stream),
                       stream[i].op = "copy", NEW c \in stream[i].from .. stream[i].to - 1
                PROVE  staging[stream[i].ring][Slot(stream[i].ring, c)] = c + 1
    BY DEF StagingStable
  <2>. DEFINE o == stream[i]
              r == o.ring
  <2>1. o \in Copies(stream)
    BY DEF Copies
  <2>. HIDE DEF o
  <2>2. /\ r \in Ring /\ o.from \in Nat /\ o.to \in Nat
        /\ observedHead[r] <= o.from /\ o.to <= publishTail[r]
    BY <2>1, CopyType DEF TransferInv, CopiesInWindow
  <2>3. /\ publishTail[r] <= writeTail[r] /\ publishTail[r] \in Nat /\ writeTail[r] \in Nat
        /\ observedHead[r] \in Nat
    BY <2>2 DEF TypeOK, RingInv, RingOrder
  <2>4. c \in observedHead[r] .. writeTail[r] - 1
    <3>1. c \in o.from .. o.to - 1
      BY DEF o
    <3>2. /\ observedHead[r] \in Nat /\ writeTail[r] \in Nat /\ publishTail[r] \in Nat
          /\ o.from \in Nat /\ o.to \in Nat /\ observedHead[r] <= o.from
          /\ o.to <= publishTail[r] /\ publishTail[r] <= writeTail[r]
      BY ONLY <2>2, <2>3
    <3>. QED BY ONLY <3>1, <3>2, SMTT(30)
  <2>. QED BY <2>2, <2>4 DEF TransferInv, StagedKept, o
<1>. QED BY <1>1, TransferInvHolds, PTL
-----------------------------------------------------------------------------
(* What has been heard.  The adult's own record grows with the consumption    *)
(* frontier, a processed but uncommitted ingress batch apart.                 *)

HeardSoFar ==
  /\ Len(heard["consequence"]) = consumedHead["consequence"]
  /\ Len(heard["ingress"]) = IF kernel = "commit" THEN snap["ingress"]
                            ELSE consumedHead["ingress"]

Entry == [event: Nat, fate: Fates]

\* The next entries of a record, in order.
InOrder(s) == \A i \in 1 .. Len(s) : s[i].event = i

Continues(s, n) == \A i \in 1 .. Len(s) : s[i].event = n + i

LEMMA LongerInOrder ==
  ASSUME NEW s \in Seq(Entry), NEW t \in Seq(Entry), InOrder(s), Continues(t, Len(s))
  PROVE  InOrder(s \o t) /\ Len(s \o t) = Len(s) + Len(t)
<1>. DEFINE u == s \o t
<1>1. /\ Len(u) = Len(s) + Len(t) /\ Len(s) \in Nat /\ Len(t) \in Nat
      /\ \A i \in 1 .. Len(s) + Len(t) :
           u[i] = IF i <= Len(s) THEN s[i] ELSE t[i - Len(s)]
  BY ConcatProperties, LenProperties
<1>. HIDE DEF u
<1>2. ASSUME NEW i \in 1 .. Len(u) PROVE u[i].event = i
  <2>1. CASE i <= Len(s)
    BY <1>1, <2>1 DEF InOrder
  <2>2. CASE i > Len(s)
    <3>1. i - Len(s) \in 1 .. Len(t) /\ u[i] = t[i - Len(s)]
      BY <1>1, <2>2
    <3>2. t[i - Len(s)].event = Len(s) + (i - Len(s))
      BY <3>1 DEF Continues
    <3>. QED BY <1>1, <3>1, <3>2
  <2>. QED BY <1>1, <2>1, <2>2
<1>. QED BY <1>1, <1>2 DEF InOrder, u

\* A ring's record is continued by the next events of that ring.
Grows(r, batch) ==
  /\ batch \in Seq(Entry) /\ Continues(batch, Len(heard[r]))
  /\ heard' = [heard EXCEPT ![r] = @ \o batch]

LEMMA GrownInOrder ==
  ASSUME TypeOK, HeardInOrder, NEW r \in Ring, NEW batch, Grows(r, batch)
  PROVE  /\ HeardInOrder'
         /\ Len(heard'[r]) = Len(heard[r]) + Len(batch)
         /\ \A q \in Ring : q # r => heard'[q] = heard[q]
<1>1. heard \in [Ring -> Seq(Entry)]
  BY DEF TypeOK, Entry
<1>2. InOrder(heard[r]) /\ heard[r] \in Seq(Entry)
  BY <1>1 DEF HeardInOrder, InOrder
<1>3. InOrder(heard[r] \o batch) /\ Len(heard[r] \o batch) = Len(heard[r]) + Len(batch)
  BY <1>2, LongerInOrder DEF Grows
<1>4. heard'[r] = heard[r] \o batch /\ \A q \in Ring : q # r => heard'[q] = heard[q]
  BY <1>1 DEF Grows
<1>. QED BY <1>3, <1>4 DEF HeardInOrder, InOrder

\* One event decided under its own name.
LEMMA GrowsByOne ==
  ASSUME TypeOK, NEW r \in Ring, NEW fate \in Fates, NEW n \in Nat, n = Len(heard[r]) + 1,
         heard' = [heard EXCEPT ![r] = @ \o <<[event |-> n, fate |-> fate]>>]
  PROVE  Grows(r, <<[event |-> n, fate |-> fate]>>)
<1>1. [event |-> n, fate |-> fate] \in Entry
  BY DEF Entry
<1>. QED BY <1>1 DEF Grows, Continues

\* In a bounded deployment everything the epoch was shown has landed.
LEMMA Landed ==
  ASSUME ~Resident, TypeOK, RingInv, SpanInv, TransferInv, InEpoch,
         NEW r \in Ring, NEW c \in consumedHead[r] .. snap[r] - 1
  PROVE  queue[r][Slot(r, c)] = c + 1
<1>1. stream = <<>>
  BY DEF RingInv, Lifecycle, TransferInv, BoundedRuns, SpanInv, InEpoch
<1>2. /\ snap[r] <= publishedTail[r] /\ publishedTail[r] <= publishTail[r]
      /\ snap[r] \in Nat /\ publishedTail[r] \in Nat /\ publishTail[r] \in Nat
      /\ consumedHead[r] \in Nat
  BY DEF RingInv, SnapshotOrder, RingOrder, TypeOK
<1>3. c \in consumedHead[r] .. publishTail[r] - 1
  BY <1>2
<1>. QED BY <1>1, <1>3, EmptyStreamHasNoCopies DEF TransferInv, QueueFollows, CopyPending

HeardInv == HeardSoFar /\ HeardInOrder

\* The three steps that hear something, each of which continues its ring's record.
LEMMA SettledRecord ==
  ASSUME ~Resident, TypeOK, RingInv, SpanInv, TransferInv, HeardSoFar,
         NEW fate \in Fates, NEW page, SettleOne(fate, page)
  PROVE  Grows("consequence",
               <<[event |-> consumedHead["consequence"] + 1, fate |-> fate]>>)
<1>. DEFINE r == "consequence"
            e == [event |-> queue[r][Slot(r, consumedHead[r])], fate |-> fate]
<1>0. r \in Ring
  BY DEF Ring
<1>1. /\ consumedHead[r] \in Nat /\ snap[r] \in Nat /\ heard[r] \in Seq(Entry)
      /\ heard \in [Ring -> Seq(Entry)]
  BY <1>0 DEF TypeOK, Entry
<1>2. consumedHead[r] < snap[r] /\ InEpoch
  BY DEF SettleOne, ReturnsLeft, InEpoch
<1>3. queue[r][Slot(r, consumedHead[r])] = consumedHead[r] + 1
  <2>1. consumedHead[r] \in consumedHead[r] .. snap[r] - 1
    BY <1>1, <1>2
  <2>. QED BY <1>0, <1>2, <2>1, Landed
<1>4. heard' = [heard EXCEPT ![r] = Append(@, e)]
  BY DEF SettleOne
<1>5. e = [event |-> consumedHead[r] + 1, fate |-> fate] /\ e \in Entry
  BY <1>1, <1>3 DEF Entry
<1>. HIDE DEF e
<1>6. Append(heard[r], e) = heard[r] \o <<e>>
  BY <1>1, <1>5, AppendIsConcat
<1>7. heard' = [heard EXCEPT ![r] = @ \o <<e>>]
  BY <1>0, <1>1, <1>4, <1>6
<1>8. consumedHead[r] + 1 = Len(heard[r]) + 1 /\ consumedHead[r] + 1 \in Nat
  BY <1>1 DEF HeardSoFar
<1>. QED BY <1>0, <1>5, <1>7, <1>8, GrowsByOne

LEMMA SteppedRecord ==
  ASSUME TypeOK, TransferInv, HeardSoFar, NEW width, SettleStepped(width)
  PROVE  Grows("consequence",
               <<[event |-> writeTail["consequence"] + 1, fate |-> "witnessed"]>>)
<1>. DEFINE r == "consequence"
            skipped == [i \in 1 .. writeTail[r] - consumedHead[r] |->
                          [event |-> consumedHead[r] + i, fate |-> "skipped"]]
            e == [event |-> writeTail[r] + 1, fate |-> "witnessed"]
<1>0. r \in Ring
  BY DEF Ring
<1>1. /\ consumedHead[r] \in Nat /\ writeTail[r] \in Nat /\ heard[r] \in Seq(Entry)
      /\ heard \in [Ring -> Seq(Entry)]
  BY <1>0 DEF TypeOK, Entry
<1>2. writeTail[r] = consumedHead[r]
  BY DEF SettleStepped, TransferInv, QuietReturns
<1>3. skipped = <<>>
  <2>1. 1 .. writeTail[r] - consumedHead[r] = {}
    BY <1>1, <1>2
  <2>. QED BY <2>1
<1>4. heard' = [heard EXCEPT ![r] = (heard[r] \o skipped) \o <<e>>]
  BY DEF SettleStepped
<1>. HIDE DEF skipped, e
<1>5. heard[r] \o skipped = heard[r]
  BY <1>1, <1>3, ConcatEmptySeq
<1>6. heard' = [heard EXCEPT ![r] = @ \o <<e>>]
  BY <1>4, <1>5
<1>7. writeTail[r] + 1 = Len(heard[r]) + 1 /\ writeTail[r] + 1 \in Nat
  BY <1>1, <1>2 DEF HeardSoFar
<1>8. "witnessed" \in Fates
  BY DEF Fates
<1>. QED BY <1>0, <1>6, <1>7, <1>8, GrowsByOne DEF e

LEMMA IngressRecord ==
  ASSUME ~Resident, TypeOK, RingInv, SpanInv, TransferInv, HeardSoFar, IngressPhase
  PROVE  \E batch : /\ Grows("ingress", batch)
                    /\ Len(batch) = snap["ingress"] - consumedHead["ingress"]
                    /\ Len(batch) > 0
<1>. DEFINE r == "ingress"
            n == snap[r] - consumedHead[r]
            fate == IF Admits(NewContacts) THEN "witnessed" ELSE "unheard"
            batch == [i \in 1 .. NewContacts |->
                        [event |-> queue[r][Slot(r, consumedHead[r] + i - 1)], fate |-> fate]]
            named == [i \in 1 .. n |-> [event |-> consumedHead[r] + i, fate |-> fate]]
<1>0. r \in Ring
  BY DEF Ring
<1>1. /\ consumedHead[r] \in Nat /\ snap[r] \in Nat /\ heard \in [Ring -> Seq(Entry)]
  BY <1>0 DEF TypeOK, Entry
<1>2. NewContacts = n /\ n > 0 /\ n \in Nat /\ InEpoch
  BY <1>1 DEF IngressPhase, NewContacts, InEpoch
<1>3. ASSUME NEW i \in 1 .. n
      PROVE  queue[r][Slot(r, consumedHead[r] + i - 1)] = consumedHead[r] + i
  <2>1. /\ consumedHead[r] + i - 1 \in consumedHead[r] .. snap[r] - 1
        /\ (consumedHead[r] + i - 1) + 1 = consumedHead[r] + i
    BY <1>1, <1>2
  <2>2. queue[r][Slot(r, consumedHead[r] + i - 1)] = (consumedHead[r] + i - 1) + 1
    BY <1>0, <1>2, <2>1, Landed
  <2>. QED BY <2>1, <2>2
<1>f. fate \in Fates
  BY DEF Fates
<1>4. heard' = [heard EXCEPT ![r] = @ \o batch]
  BY DEF IngressPhase
<1>. HIDE DEF fate
<1>5. batch = named
  BY <1>2, <1>3
<1>6. named \in Seq(Entry) /\ Len(named) = n
  <2>1. \A i \in 1 .. n : [event |-> consumedHead[r] + i, fate |-> fate] \in Entry
    BY <1>1, <1>2, <1>f DEF Entry
  <2>2. named \in [1 .. n -> Entry] /\ DOMAIN named = 1 .. n
    BY <2>1
  <2>. HIDE DEF named
  <2>3. named \in Seq(Entry)
    BY <1>2, <2>2, SegmentIsSeq
  <2>. QED BY <1>2, <2>2, <2>3
<1>7. \A i \in 1 .. n : named[i].event = consumedHead[r] + i
  OBVIOUS
<1>8. Len(heard[r]) = consumedHead[r]
  BY DEF IngressPhase, HeardSoFar
<1>. HIDE DEF batch, named
<1>9. Grows(r, named)
  BY <1>4, <1>5, <1>6, <1>7, <1>8 DEF Grows, Continues
<1>. QED BY <1>2, <1>6, <1>9
LEMMA NextHeardInv ==
  ASSUME ~Resident, TypeOK, RingInv, SpanInv, TransferInv, HeardInv, [Next]_vars
  PROVE  HeardInv'
<1>. USE DEF hostVars, lifecycle, ringVars, kernelVars
<1>b. "ingress" \in Ring /\ "consequence" \in Ring /\ Ring = {"ingress", "consequence"}
  BY DEF Ring
<1>c. /\ writeTail \in [Ring -> Nat] /\ consumedHead \in [Ring -> Nat]
      /\ snap \in [Ring -> Nat] /\ heard \in [Ring -> Seq(Entry)]
  BY DEF TypeOK, Entry
<1>i. /\ HeardInOrder /\ HeardSoFar
      /\ Len(heard["consequence"]) = consumedHead["consequence"]
      /\ kernel = "commit" => Len(heard["ingress"]) = snap["ingress"]
      /\ kernel # "commit" => Len(heard["ingress"]) = consumedHead["ingress"]
  BY DEF HeardInv, HeardSoFar
<1>1. ASSUME UNCHANGED <<heard, consumedHead>>, kernel # "commit", kernel' # "commit"
      PROVE  HeardInv'
  BY <1>1, <1>i DEF HeardInv, HeardSoFar, HeardInOrder
<1>2. ASSUME UNCHANGED <<heard, consumedHead, kernel, snap>> PROVE HeardInv'
  BY <1>2, <1>i DEF HeardInv, HeardSoFar, HeardInOrder
<1>3. ASSUME NEW width \in 1 .. SettlementWidth, SettleStepped(width) PROVE HeardInv'
  <2>. DEFINE batch == <<[event |-> writeTail["consequence"] + 1, fate |-> "witnessed"]>>
  <2>1. Grows("consequence", batch) /\ Len(batch) = 1
    BY <1>3, <1>i, SteppedRecord
  <2>. HIDE DEF batch
  <2>2. /\ HeardInOrder' /\ Len(heard'["consequence"]) = Len(heard["consequence"]) + 1
        /\ heard'["ingress"] = heard["ingress"]
    BY <1>b, <1>i, <2>1, GrownInOrder
  <2>3. /\ consumedHead'["consequence"] = writeTail["consequence"] + 1
        /\ consumedHead'["ingress"] = consumedHead["ingress"]
        /\ UNCHANGED <<kernel, snap>>
    BY <1>3, <1>b, <1>c DEF SettleStepped
  <2>4. writeTail["consequence"] = consumedHead["consequence"]
    BY <1>3 DEF SettleStepped, TransferInv, QuietReturns
  <2>. QED BY <1>i, <2>2, <2>3, <2>4 DEF HeardInv, HeardSoFar
<1>4. ASSUME NEW fate \in Fates, NEW page, SettleOne(fate, page) PROVE HeardInv'
  <2>. DEFINE batch == <<[event |-> consumedHead["consequence"] + 1, fate |-> fate]>>
  <2>1. Grows("consequence", batch) /\ Len(batch) = 1
    BY <1>4, <1>i, SettledRecord
  <2>. HIDE DEF batch
  <2>2. /\ HeardInOrder' /\ Len(heard'["consequence"]) = Len(heard["consequence"]) + 1
        /\ heard'["ingress"] = heard["ingress"]
    BY <1>b, <1>i, <2>1, GrownInOrder
  <2>3. /\ consumedHead'["consequence"] = consumedHead["consequence"] + 1
        /\ consumedHead'["ingress"] = consumedHead["ingress"]
        /\ UNCHANGED <<kernel, snap>>
    BY <1>4, <1>b, <1>c DEF SettleOne
  <2>. QED BY <1>i, <2>2, <2>3 DEF HeardInv, HeardSoFar
<1>5. ASSUME IngressPhase PROVE HeardInv'
  <2>1. PICK batch : /\ Grows("ingress", batch)
                     /\ Len(batch) = snap["ingress"] - consumedHead["ingress"]
    BY <1>5, <1>i, IngressRecord
  <2>2. /\ HeardInOrder' /\ Len(heard'["ingress"]) = Len(heard["ingress"]) + Len(batch)
        /\ heard'["consequence"] = heard["consequence"]
    BY <1>b, <1>i, <2>1, GrownInOrder
  <2>3. kernel = "ingress" /\ kernel' = "commit" /\ UNCHANGED <<consumedHead, snap>>
    BY <1>5 DEF IngressPhase
  <2>4. Len(heard'["ingress"]) = snap["ingress"]
    BY <1>b, <1>c, <1>i, <2>1, <2>2, <2>3
  <2>. QED BY <1>i, <2>2, <2>3, <2>4 DEF HeardInv, HeardSoFar
<1>6. ASSUME IngressCommit PROVE HeardInv'
  <2>1. /\ kernel = "commit" /\ kernel' = "settle" /\ UNCHANGED heard
        /\ consumedHead'["ingress"] = snap["ingress"]
        /\ consumedHead'["consequence"] = consumedHead["consequence"]
    BY <1>6, <1>b, <1>c DEF IngressCommit
  <2>. QED BY <1>i, <2>1 DEF HeardInv, HeardSoFar, HeardInOrder
<1>7. ASSUME NEW wrapped \in BOOLEAN, Snapshot(wrapped) PROVE HeardInv'
  BY <1>1, <1>7 DEF Snapshot
<1>8. ASSUME NEW n, NEW isLimited, Launch(isLimited, n) PROVE HeardInv'
  <2>1. kernel = "absent"
    BY <1>8 DEF Launch, RingInv, Lifecycle
  <2>. QED BY <1>1, <1>8, <2>1 DEF Launch
<1>9. ASSUME Reconcile PROVE HeardInv'
  BY <1>1, <1>9 DEF Reconcile
<1>10. ASSUME \/ NoIngress \/ SettlementEnds
              \/ \E motors \in 0 .. MotorPorts : MotorPhase(motors)
       PROVE  HeardInv'
  BY <1>1, <1>10 DEF NoIngress, SettlementEnds, MotorPhase
<1>11. ASSUME NEW width \in 1 .. SettlementWidth, Settled(width) PROVE HeardInv'
  BY <1>4, <1>11 DEF Settled, Fates
<1>12. ASSUME Rejected PROVE HeardInv'
  BY <1>4, <1>12 DEF Rejected, Fates
<1>13. ASSUME \/ \E r \in Ring : Stage(r) \/ StageRefused(r) \/ Publish(r)
              \/ SettleSteppedRefused \/ StopPersistent \/ TransportStep
              \/ \E width, records : Learn(width, records)
       PROVE  HeardInv'
  BY <1>2, <1>13 DEF Stage, StageRefused, Publish, SettleSteppedRefused, StopPersistent,
     TransportStep, CopyStep, TailStep, StopStep, Learn
<1>14. CASE UNCHANGED vars
  BY <1>2, <1>14 DEF vars
<1>. QED
  BY <1>3, <1>5, <1>6, <1>7, <1>8, <1>9, <1>10, <1>11, <1>12, <1>13, <1>14
     DEF Next, HostStep, KernelStep, CallReturns, StartPersistent, RunSpan,
         StopReturns, SpanReturns

BoundedInv == TypeOK /\ RingInv /\ SpanInv /\ TransferInv /\ HeardInv

LEMMA BoundedInvHolds ==
  ASSUME ~Resident
  PROVE  Spec => []BoundedInv
<1>1. Init => HeardInv
  BY DEF Init, HeardInv, HeardSoFar, HeardInOrder, Ring
<1>2. BoundedInv /\ [Next]_vars => HeardInv'
  BY NextHeardInv DEF BoundedInv
<1>3. TypeOK /\ RingInv /\ SpanInv /\ TransferInv /\ HeardInv <=> BoundedInv
  BY DEF BoundedInv
<1>4. OneReturnPath
  BY DEF OneReturnPath
<1>5. Spec => [](TypeOK /\ RingInv /\ TransferInv)
  BY <1>4, TransferInvHolds
<1>. QED BY <1>1, <1>2, <1>3, <1>5, SpanInvHolds, PTL DEF Spec

\* A bounded deployment hears each ring exactly once and in the order of
\* admission, for rings of any capacity: at cursor c the adult processes the event
\* staged at c, however late the stream delivers it, and never a stale slot.
THEOREM HeardOnceInOrder ==
  ASSUME ~Resident
  PROVE  Spec => []HeardInOrder
<1>1. BoundedInv => HeardInOrder
  BY DEF BoundedInv, HeardInv
<1>. QED BY <1>1, BoundedInvHolds, PTL

-----------------------------------------------------------------------------
(* The rings implement the ledger.                                            *)

LEMMA LedgerDecides ==
  ASSUME TypeOK, NEW r \in Ring, NEW batch, Grows(r, batch), Len(batch) > 0,
         Len(heard[r]) + Len(batch) <= writeTail[r], UNCHANGED writeTail
  PROVE  Ledger!Decide(r)
<1>. DEFINE n == Len(batch)
            fate == [i \in 1 .. n |-> batch[i].fate]
<1>1. /\ n \in 1 .. writeTail[r] - Len(heard[r]) /\ batch \in Seq(Entry)
      /\ \A i \in 1 .. n : batch[i].event = Len(heard[r]) + i
  <2>1. /\ batch \in Seq(Entry) /\ \A i \in 1 .. n : batch[i].event = Len(heard[r]) + i
    BY DEF Grows, Continues
  <2>2. heard[r] \in Seq(Entry) /\ writeTail[r] \in Nat
    BY DEF TypeOK, Entry
  <2>3. n \in Nat /\ Len(heard[r]) \in Nat
    BY <2>1, <2>2
  <2>. QED BY <2>1, <2>2, <2>3
<1>2. batch = [i \in 1 .. n |-> [event |-> Len(heard[r]) + i, fate |-> fate[i]]]
  <2>1. batch = [i \in 1 .. n |-> batch[i]]
    BY <1>1
  <2>2. ASSUME NEW i \in 1 .. n
        PROVE  batch[i] = [event |-> Len(heard[r]) + i, fate |-> fate[i]]
    <3>1. batch[i] \in Entry /\ batch[i].event = Len(heard[r]) + i /\ fate[i] = batch[i].fate
      BY <1>1
    <3>. QED BY <3>1 DEF Entry
  <2>. QED BY <2>1, <2>2
<1>3. fate \in [1 .. n -> Fates]
  <2>1. ASSUME NEW i \in 1 .. n PROVE batch[i].fate \in Fates
    <3>1. batch[i] \in Entry
      BY <1>1
    <3>. QED BY <3>1 DEF Entry
  <2>. QED BY <2>1
<1>4. batch \in Ledger!Batch(r, n)
  BY <1>2, <1>3 DEF Ledger!Batch
<1>5. heard' = [heard EXCEPT ![r] = @ \o batch]
  BY DEF Grows
<1>. HIDE DEF n, fate
<1>. QED BY <1>1, <1>4, <1>5 DEF Ledger!Decide

\* Every step of a bounded deployment decides the next events of one ring, admits
\* one event, or is invisible to the ledger.
LEMMA StepsKeepLedger == BoundedInv /\ ~Resident /\ [Next]_vars => [Ledger!Next]_Ledger!ledger
<1>. SUFFICES ASSUME ~Resident, BoundedInv, [Next]_vars
              PROVE  [Ledger!Next]_Ledger!ledger
  OBVIOUS
<1>. USE DEF hostVars, lifecycle, ringVars, kernelVars
<1>b. "ingress" \in Ring /\ "consequence" \in Ring
  BY DEF Ring
<1>i. TypeOK /\ RingInv /\ SpanInv /\ TransferInv /\ HeardInv /\ HeardSoFar
  BY DEF BoundedInv, HeardInv
<1>c. /\ writeTail \in [Ring -> Nat] /\ consumedHead \in [Ring -> Nat]
      /\ snap \in [Ring -> Nat] /\ heard \in [Ring -> Seq(Entry)]
  BY <1>i DEF TypeOK, Entry
<1>o. \A r \in Ring : snap[r] <= writeTail[r] \/ ~InEpoch
  <2>. SUFFICES ASSUME NEW r \in Ring, InEpoch PROVE snap[r] <= writeTail[r]
    OBVIOUS
  <2>1. /\ snap[r] \in Nat /\ publishedTail[r] \in Nat /\ publishTail[r] \in Nat
        /\ writeTail[r] \in Nat
    BY <1>i DEF TypeOK
  <2>2. /\ snap[r] <= publishedTail[r] /\ publishedTail[r] <= publishTail[r]
        /\ publishTail[r] <= writeTail[r]
    BY <1>i DEF RingInv, SnapshotOrder, RingOrder
  <2>. QED BY ONLY <2>1, <2>2
<1>1. ASSUME UNCHANGED <<writeTail, heard>> PROVE UNCHANGED Ledger!ledger
  BY <1>1 DEF Ledger!ledger
<1>2. ASSUME NEW r \in Ring, Stage(r) PROVE Ledger!Admit(r)
  BY <1>2 DEF Stage, Ledger!Admit
<1>3. ASSUME NEW width \in 1 .. SettlementWidth, SettleStepped(width)
      PROVE  Ledger!DecideAtOnce("consequence")
  <2>. DEFINE r == "consequence"
              n == writeTail[r] + 1
              batch == <<[event |-> n, fate |-> "witnessed"]>>
              fate == [i \in 1 .. 1 |-> "witnessed"]
  <2>1. /\ heard' = [heard EXCEPT ![r] = @ \o batch]
        /\ writeTail' = [writeTail EXCEPT ![r] = @ + 1]
    BY <1>3, <1>i, SteppedRecord DEF SettleStepped, Grows
  <2>2. writeTail[r] = Len(heard[r]) /\ n = Len(heard[r]) + 1
    BY <1>3, <1>i DEF SettleStepped, TransferInv, QuietReturns, HeardSoFar
  <2>3. batch = [i \in 1 .. 1 |-> [event |-> Len(heard[r]) + i, fate |-> fate[i]]]
    BY <2>2
  <2>4. fate \in [1 .. 1 -> Fates]
    BY DEF Fates
  <2>5. batch \in Ledger!Batch(r, 1)
    BY <2>3, <2>4 DEF Ledger!Batch
  <2>. HIDE DEF batch, n, fate
  <2>. QED BY <2>1, <2>2, <2>5 DEF Ledger!DecideAtOnce
<1>4. ASSUME NEW fate \in Fates, NEW page, SettleOne(fate, page)
      PROVE  Ledger!Decide("consequence")
  <2>. DEFINE r == "consequence"
              batch == <<[event |-> consumedHead[r] + 1, fate |-> fate]>>
  <2>1. Grows(r, batch) /\ Len(batch) = 1 /\ Len(batch) > 0
    BY <1>4, <1>i, SettledRecord
  <2>2. consumedHead[r] < snap[r] /\ InEpoch /\ UNCHANGED writeTail
    BY <1>4 DEF SettleOne, ReturnsLeft, InEpoch
  <2>3. Len(heard[r]) = consumedHead[r]
    BY <1>i DEF HeardSoFar
  <2>. HIDE DEF batch
  <2>4. Len(heard[r]) + Len(batch) <= writeTail[r]
    BY <1>b, <1>c, <1>o, <2>1, <2>2, <2>3
  <2>. QED BY <1>b, <1>i, <2>1, <2>2, <2>4, LedgerDecides
<1>5. ASSUME IngressPhase PROVE Ledger!Decide("ingress")
  <2>. DEFINE r == "ingress"
  <2>1. PICK batch : Grows(r, batch) /\ Len(batch) = snap[r] - consumedHead[r] /\ Len(batch) > 0
    BY <1>5, <1>i, IngressRecord
  <2>2. InEpoch /\ UNCHANGED writeTail /\ Len(heard[r]) = consumedHead[r]
    BY <1>5, <1>i DEF IngressPhase, InEpoch, HeardSoFar
  <2>3. Len(heard[r]) + Len(batch) <= writeTail[r]
    BY <1>b, <1>c, <1>o, <2>1, <2>2
  <2>. QED BY <1>b, <1>i, <2>1, <2>2, <2>3, LedgerDecides
<1>6. ASSUME NEW width \in 1 .. SettlementWidth, Settled(width)
      PROVE  Ledger!Decide("consequence")
  BY <1>4, <1>6 DEF Settled, Fates
<1>7. ASSUME Rejected PROVE Ledger!Decide("consequence")
  BY <1>4, <1>7 DEF Rejected, Fates
<1>8. ASSUME Next, ~(\E r \in Ring : Stage(r)),
             ~(\E width \in 1 .. SettlementWidth : SettleStepped(width)),
             ~IngressPhase, ~Rejected, ~(\E width \in 1 .. SettlementWidth : Settled(width))
      PROVE  UNCHANGED <<writeTail, heard>>
  BY <1>8 DEF Next, HostStep, StageRefused, Publish, SettleSteppedRefused, StartPersistent,
     StopPersistent, RunSpan, Launch, TransportStep, CopyStep, TailStep, StopStep,
     KernelStep, Snapshot, IngressCommit, NoIngress, SettlementEnds, MotorPhase, Learn,
     CallReturns, StopReturns, SpanReturns, Reconcile
<1>9. CASE UNCHANGED vars
  BY <1>1, <1>9 DEF vars
<1>. QED BY <1>b, <1>1, <1>2, <1>3, <1>5, <1>6, <1>7, <1>8, <1>9 DEF Ledger!Next

\* The rings, their stream and the executor of a bounded deployment implement the
\* ledger: each admitted event is decided once, in order, under its own name.
THEOREM RingsImplementLedger ==
  ASSUME ~Resident
  PROVE  Spec => ImplementsLedger
<1>1. Init => Ledger!Init
  BY DEF Init, Ledger!Init
<1>2. BoundedInv /\ [Next]_vars => [Ledger!Next]_Ledger!ledger
  BY StepsKeepLedger
<1>. QED BY <1>1, <1>2, BoundedInvHolds, PTL DEF Spec, ImplementsLedger, Ledger!Spec

=============================================================================
