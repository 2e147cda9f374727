------------------------ MODULE MotorPublication_proofs ------------------------
(* Theorems about MotorPublication, for any number of ports, rings and pages of *)
(* any size, and a client that reads at any moment.                             *)
EXTENDS MotorPublication, SequenceTheorems, TLAPS

-----------------------------------------------------------------------------
(* Types.                                                                       *)

Steps  == {"idle", "ports", "publish", "finalize"}
Kernel == [step: Steps, tick: Nat, port: 1 .. Ports + 1, base: Nat,
           staged: Seq(MotorEvent), driven: 0 .. Ports]
Trajectories == {<<>>} \union {<<t>> : t \in [node: 1 .. Ports, left: Nat \ {0}]}
Slots  == {<<>>} \union {<<e>> : e \in MotorEvent}
Rings  == [slots: [0 .. EgressRing - 1 -> Slots], head: Nat, tail: Nat]
Pages  == [records: Seq(MotorEvent), root: Seq(MotorEvent), last: Nat, sealed: BOOLEAN, pages: Nat]
Reads  == [step: {"idle", "copied"}, copy: Seq(MotorEvent), got: Seq(MotorEvent)]

MotorType ==
  /\ motor \in Kernel /\ (motor.step = "ports" => motor.port <= Ports)
  /\ live \in Trajectories /\ egress \in Rings
  /\ words \in Seq({"own", "planned"}) /\ efference \in Seq(MotorEvent)
  /\ page \in Pages /\ client \in Reads /\ published \in Seq(MotorEvent)

-----------------------------------------------------------------------------
(* What the four accounts owe one another at every moment, not only between     *)
(* epochs.                                                                      *)

\* Events of this and the earlier epochs; the last of them are not published yet.
Total == egress.tail + Len(motor.staged)

\* Tickets and copies are counted with the events; the unread ones fit the ring,
\* and what the client copied and has not answered for is among them.
Counted ==
  /\ Len(words) = Total /\ Len(efference) = Total /\ Total <= EfferenceRing
  /\ Len(published) = egress.tail /\ Len(client.got) = egress.head
  /\ egress.head + Len(client.copy) <= egress.tail /\ Total <= egress.head + EgressRing
  /\ motor.step \in {"idle", "finalize"} => motor.staged = <<>>
  /\ motor.step \in {"ports", "publish"} => motor.base = egress.tail
  /\ client.step = "idle" => client.copy = <<>>

\* The n-th event has ticket n wherever it is kept.
Numbered ==
  /\ \A i \in 1 .. Len(efference) : efference[i].ticket = i
  /\ \A i \in 1 .. Len(published) : published[i].ticket = i
  /\ \A i \in 1 .. Len(client.got) : client.got[i].ticket = i
  /\ \A i \in 1 .. Len(client.copy) : client.copy[i].ticket = egress.head + i

\* The copy of a ticket is what ticket, slot, staging and record say.
Agreed ==
  /\ \A i \in 1 .. Len(efference) : words[i] = efference[i].word
  /\ \A c \in egress.head .. Total - 1 : egress.slots[c % EgressRing] = <<efference[c + 1]>>
  /\ \A i \in 1 .. Len(motor.staged) : motor.staged[i] = efference[egress.tail + i]
  /\ \A i \in 1 .. Len(page.records) :
       LET t == page.records[i].ticket IN
       t \in 1 .. Len(efference) /\ page.records[i] = efference[t]

MotorInv == MotorType /\ Counted /\ Numbered /\ Agreed

-----------------------------------------------------------------------------
(* Lemmas.                                                                      *)

LEMMA RingPositive == EgressRing \in Nat /\ EgressRing > 0
BY MotorAssumption

LEMMA SlotIs ==
  ASSUME NEW c \in Nat
  PROVE  c % EgressRing \in 0 .. EgressRing - 1
BY RingPositive

LEMMA Multiples ==
  ASSUME NEW n \in Nat, n > 0, NEW p \in Int, NEW q \in Int,
         n * (p - q) < n, -n < n * (p - q)
  PROVE  p = q
<1>1. CASE p > q
  <2>1. p - q >= 1
    BY <1>1
  <2>2. n * (p - q) >= n
    BY <2>1
  <2>. QED BY <2>2
<1>2. CASE p < q
  <2>1. p - q <= -1
    BY <1>2
  <2>2. n * (p - q) <= -n
    BY <2>1
  <2>. QED BY <2>2
<1>. QED BY <1>1, <1>2

\* Events less than a ring apart have slots of their own.
LEMMA SlotsApart ==
  ASSUME NEW a \in Nat, NEW b \in Nat, a - b < EgressRing, b - a < EgressRing,
         a % EgressRing = b % EgressRing
  PROVE  a = b
<1>. DEFINE n == EgressRing
            p == a \div n
            q == b \div n
<1>1. n \in Nat /\ n > 0 /\ a - b < n /\ b - a < n /\ a % n = b % n
  BY RingPositive
<1>. HIDE DEF n
<1>2. a = n * p + (a % n) /\ b = n * q + (b % n) /\ p \in Int /\ q \in Int /\ a % n \in Int
  BY <1>1
<1>. HIDE DEF p, q
<1>3. n * p \in Int /\ n * q \in Int /\ a - b = n * p - n * q
  BY <1>1, <1>2
<1>4. n * p - n * q = n * (p - q)
  BY <1>1, <1>2
<1>5. p = q
  BY <1>1, <1>2, <1>3, <1>4, Multiples
<1>. QED BY <1>1, <1>2, <1>5

LEMMA Joined ==
  ASSUME NEW r \in Seq(MotorEvent), NEW q \in Seq(MotorEvent)
  PROVE  /\ r \o q \in Seq(MotorEvent) /\ Len(r \o q) = Len(r) + Len(q)
         /\ \A i \in 1 .. Len(r) : (r \o q)[i] = r[i]
         /\ \A i \in 1 .. Len(q) : (r \o q)[Len(r) + i] = q[i]
<1>1. Len(r) \in Nat /\ Len(q) \in Nat
  OBVIOUS
<1>2. /\ r \o q \in Seq(MotorEvent) /\ Len(r \o q) = Len(r) + Len(q)
      /\ \A i \in 1 .. Len(r) + Len(q) :
           (r \o q)[i] = IF i <= Len(r) THEN r[i] ELSE q[i - Len(r)]
  BY ConcatProperties
<1>3. ASSUME NEW i \in 1 .. Len(r) PROVE (r \o q)[i] = r[i]
  <2>1. i \in 1 .. Len(r) + Len(q) /\ i <= Len(r)
    BY <1>1
  <2>. QED BY <1>2, <2>1
<1>4. ASSUME NEW i \in 1 .. Len(q) PROVE (r \o q)[Len(r) + i] = q[i]
  <2>1. Len(r) + i \in 1 .. Len(r) + Len(q) /\ ~(Len(r) + i <= Len(r)) /\ (Len(r) + i) - Len(r) = i
    BY <1>1
  <2>. QED BY <1>2, <2>1
<1>. QED BY <1>2, <1>3, <1>4

LEMMA PlannedIs ==
  ASSUME NEW rows \in Seq(MotorEvent), NEW t \in Nat
  PROVE  /\ Planned(rows, t) \in Seq(MotorEvent) /\ Len(Planned(rows, t)) = Len(rows)
         /\ \A i \in 1 .. Len(rows) :
              /\ Planned(rows, t)[i].ticket = rows[i].ticket
              /\ Planned(rows, t)[i] = IF rows[i].ticket = t
                                       THEN [rows[i] EXCEPT !.word = "planned"] ELSE rows[i]
<1>1. DOMAIN rows = 1 .. Len(rows) /\ Len(rows) \in Nat
  BY LenProperties
<1>2. \A i \in 1 .. Len(rows) : rows[i] \in MotorEvent
  BY ElementOfSeq
<1>. DEFINE f(i) == IF rows[i].ticket = t THEN [rows[i] EXCEPT !.word = "planned"] ELSE rows[i]
<1>3. \A i \in 1 .. Len(rows) : f(i) \in MotorEvent /\ f(i).ticket = rows[i].ticket
  BY <1>2 DEF MotorEvent
<1>4. Planned(rows, t) = [i \in 1 .. Len(rows) |-> f(i)]
  BY <1>1 DEF Planned
<1>. HIDE DEF f
<1>5. [i \in 1 .. Len(rows) |-> f(i)] \in Seq(MotorEvent)
  BY <1>1, <1>3, IsASeq
<1>6. Len(Planned(rows, t)) = Len(rows)
  BY <1>1, <1>4, <1>5, LenProperties
<1>. QED BY <1>3, <1>4, <1>5, <1>6 DEF f

LEMMA MotorFields ==
  ASSUME MotorType
  PROVE  /\ motor.step \in Steps /\ motor.tick \in Nat /\ motor.port \in 1 .. Ports + 1
         /\ motor.base \in Nat /\ motor.staged \in Seq(MotorEvent) /\ motor.driven \in 0 .. Ports
         /\ egress.slots \in [0 .. EgressRing - 1 -> Slots]
         /\ egress.head \in Nat /\ egress.tail \in Nat
         /\ page.records \in Seq(MotorEvent) /\ page.root \in Seq(MotorEvent)
         /\ page.last \in Nat /\ page.sealed \in BOOLEAN /\ page.pages \in Nat
         /\ client.step \in {"idle", "copied"}
         /\ client.copy \in Seq(MotorEvent) /\ client.got \in Seq(MotorEvent)
         /\ Len(motor.staged) \in Nat /\ Len(words) \in Nat /\ Len(efference) \in Nat
         /\ Len(published) \in Nat /\ Len(page.records) \in Nat
         /\ Len(client.copy) \in Nat /\ Len(client.got) \in Nat
<1>1. /\ motor \in Kernel /\ egress \in Rings /\ page \in Pages /\ client \in Reads
      /\ words \in Seq({"own", "planned"}) /\ efference \in Seq(MotorEvent)
      /\ published \in Seq(MotorEvent)
  BY DEF MotorType
<1>2. /\ motor.step \in Steps /\ motor.tick \in Nat /\ motor.port \in 1 .. Ports + 1
      /\ motor.base \in Nat /\ motor.staged \in Seq(MotorEvent) /\ motor.driven \in 0 .. Ports
  BY <1>1 DEF Kernel
<1>3. egress.slots \in [0 .. EgressRing - 1 -> Slots] /\ egress.head \in Nat /\ egress.tail \in Nat
  BY <1>1 DEF Rings
<1>4. /\ page.records \in Seq(MotorEvent) /\ page.root \in Seq(MotorEvent)
      /\ page.last \in Nat /\ page.sealed \in BOOLEAN /\ page.pages \in Nat
  BY <1>1 DEF Pages
<1>5. /\ client.step \in {"idle", "copied"}
      /\ client.copy \in Seq(MotorEvent) /\ client.got \in Seq(MotorEvent)
  BY <1>1 DEF Reads
<1>6. \A S : \A q \in Seq(S) : Len(q) \in Nat
  OBVIOUS
<1>7. /\ Len(motor.staged) \in Nat /\ Len(words) \in Nat /\ Len(efference) \in Nat
      /\ Len(published) \in Nat /\ Len(page.records) \in Nat
      /\ Len(client.copy) \in Nat /\ Len(client.got) \in Nat
  BY <1>1, <1>2, <1>4, <1>5, <1>6
<1>. QED BY <1>2, <1>3, <1>4, <1>5, <1>7

-----------------------------------------------------------------------------
(* Steps of the kernel.                                                         *)

LEMMA MotorInitSound == MotorInit => MotorInv
<1>. SUFFICES ASSUME MotorInit PROVE MotorInv
  OBVIOUS
<1>1. /\ <<>> \in Seq(MotorEvent) /\ <<>> \in Seq({"own", "planned"})
      /\ Len(<<>>) = 0 /\ Ports \in Nat \ {0} /\ EfferenceRing \in Nat
  BY MotorAssumption, EmptySeq
<1>2. [i \in 0 .. EgressRing - 1 |-> <<>>] \in [0 .. EgressRing - 1 -> Slots]
  BY DEF Slots
<1>3. MotorType
  BY <1>1, <1>2 DEF MotorInit, MotorType, Kernel, Steps, Trajectories, Rings, Pages, Reads
<1>4. Counted
  BY <1>1, RingPositive DEF MotorInit, Counted, Total
<1>5. Numbered /\ Agreed
  BY <1>1 DEF MotorInit, Numbered, Agreed, Total
<1>. QED BY <1>3, <1>4, <1>5 DEF MotorInv

\* An event is written to slot, ticket, staging and copy under the next number; the
\* slot is free, because the client's head is never ahead of what the test read.
LEMMA EmittedSound ==
  ASSUME MotorInv, NEW m \in Kernel, NEW n \in 1 .. Ports,
         m.staged = motor.staged, m.base = egress.tail, m.step \in {"ports", "publish"},
         m.step = "ports" => m.port <= Ports, Emitted(m, n),
         Total < egress.head + EgressRing, Len(efference) < EfferenceRing,
         live' \in Trajectories, page' \in Pages, page'.records = page.records,
         UNCHANGED <<client, published>>
  PROVE  MotorInv'
<1>. DEFINE e == [ticket |-> Len(words) + 1, node |-> n, word |-> "own", tick |-> m.tick]
            T == Total
<1>1. MotorType /\ Counted /\ Numbered /\ Agreed
  BY DEF MotorInv
<1>2. /\ T \in Nat /\ Len(words) = T /\ Len(efference) = T /\ egress.head \in Nat
      /\ egress.tail \in Nat /\ Len(motor.staged) \in Nat /\ T = egress.tail + Len(motor.staged)
      /\ egress.head <= T
  <2>1. /\ egress.head \in Nat /\ egress.tail \in Nat /\ Len(motor.staged) \in Nat
        /\ Len(client.copy) \in Nat
    BY <1>1, MotorFields
  <2>2. Len(words) = Total /\ Len(efference) = Total /\ egress.head + Len(client.copy) <= egress.tail
    BY <1>1 DEF Counted
  <2>3. Total = egress.tail + Len(motor.staged)
    BY DEF Total
  <2>. QED BY <2>1, <2>2, <2>3
<1>3. e \in MotorEvent /\ e.ticket = T + 1 /\ e.word = "own"
  BY <1>2 DEF MotorEvent, Kernel
<1>4. m.base + Len(m.staged) = T
  BY <1>2
<1>. HIDE DEF T
<1>5. /\ motor' = [m EXCEPT !.staged = Append(@, e)]
      /\ egress' = [egress EXCEPT !.slots[T % EgressRing] = <<e>>]
      /\ words' = Append(words, "own") /\ efference' = Append(efference, e)
  BY <1>4 DEF Emitted
<1>. HIDE DEF e
<1>6. /\ Append(motor.staged, e) \in Seq(MotorEvent)
      /\ Len(Append(motor.staged, e)) = Len(motor.staged) + 1
      /\ \A i \in 1 .. Len(motor.staged) : Append(motor.staged, e)[i] = motor.staged[i]
      /\ Append(motor.staged, e)[Len(motor.staged) + 1] = e
  <2>1. motor.staged \in Seq(MotorEvent)
    BY <1>1, MotorFields
  <2>. QED BY <1>3, <2>1, AppendProperties
<1>7. /\ motor' \in Kernel /\ motor'.staged = Append(motor.staged, e) /\ motor'.step = m.step
      /\ motor'.base = egress.tail /\ motor'.port = m.port
  BY <1>5, <1>6 DEF Kernel
<1>8. /\ words' \in Seq({"own", "planned"}) /\ Len(words') = T + 1
      /\ \A i \in 1 .. T : words'[i] = words[i]
      /\ words'[T + 1] = "own"
  BY <1>1, <1>2, <1>5, AppendProperties DEF MotorType
<1>9. /\ efference' \in Seq(MotorEvent) /\ Len(efference') = T + 1
      /\ \A i \in 1 .. T : efference'[i] = efference[i]
      /\ efference'[T + 1] = e
  BY <1>1, <1>2, <1>3, <1>5, AppendProperties DEF MotorType
<1>10. /\ egress' \in Rings /\ egress'.head = egress.head /\ egress'.tail = egress.tail
       /\ egress'.slots[T % EgressRing] = <<e>>
       /\ \A k \in 0 .. EgressRing - 1 : k # T % EgressRing => egress'.slots[k] = egress.slots[k]
  <2>1. <<e>> \in Slots /\ T % EgressRing \in 0 .. EgressRing - 1
    BY <1>2, <1>3, SlotIs DEF Slots
  <2>. QED BY <1>1, <1>5, <2>1 DEF MotorType, Rings
<1>11. MotorType'
  BY <1>1, <1>7, <1>8, <1>9, <1>10 DEF MotorType
<1>12. Total' = T + 1
  <2>1. Len(motor'.staged) = Len(motor.staged) + 1 /\ egress'.tail = egress.tail
    BY <1>6, <1>7, <1>10
  <2>2. Total' = egress'.tail + Len(motor'.staged)
    BY DEF Total
  <2>. QED BY <1>2, <2>1, <2>2
<1>13. Counted'
  <2>1. T + 1 <= EfferenceRing /\ T + 1 <= egress.head + EgressRing
    BY <1>2, MotorAssumption DEF T
  <2>. QED BY <1>1, <1>2, <1>7, <1>8, <1>9, <1>10, <1>12, <2>1 DEF Counted
<1>14. Numbered'
  <2>1. ASSUME NEW i \in 1 .. Len(efference') PROVE efference'[i].ticket = i
    <3>1. CASE i = T + 1
      BY <1>3, <1>9, <3>1
    <3>2. CASE i # T + 1
      <4>1. i \in 1 .. T
        BY <1>2, <1>9, <3>2
      <4>. QED BY <1>1, <1>2, <1>9, <4>1 DEF Numbered
    <3>. QED BY <3>1, <3>2
  <2>. QED BY <1>1, <1>10, <2>1 DEF Numbered
<1>15. Agreed'
  <2>0. \A i \in 1 .. T : words[i] = efference[i].word
    BY <1>1, <1>2 DEF Agreed
  <2>1. ASSUME NEW i \in 1 .. Len(efference') PROVE words'[i] = efference'[i].word
    <3>1. CASE i = T + 1
      BY <1>3, <1>8, <1>9, <3>1
    <3>2. CASE i # T + 1
      <4>1. i \in 1 .. T
        BY <1>2, <1>9, <3>2
      <4>. QED BY <1>8, <1>9, <2>0, <4>1
    <3>. QED BY <3>1, <3>2
  <2>2. ASSUME NEW c \in egress'.head .. Total' - 1
        PROVE  egress'.slots[c % EgressRing] = <<efference'[c + 1]>>
    <3>1. CASE c = T
      BY <1>9, <1>10, <3>1
    <3>2. CASE c # T
      <4>1. c \in Nat /\ c < T /\ c >= egress.head
        BY <1>2, <1>10, <1>12, <3>2
      <4>2. c % EgressRing # T % EgressRing
        <5>1. T - c < EgressRing /\ c - T < EgressRing
          BY <1>2, <4>1, RingPositive DEF T
        <5>. QED BY <1>2, <4>1, <5>1, SlotsApart
      <4>3. egress'.slots[c % EgressRing] = egress.slots[c % EgressRing]
        BY <1>10, <4>1, <4>2, SlotIs
      <4>4. egress.slots[c % EgressRing] = <<efference[c + 1]>>
        BY <1>1, <1>2, <4>1 DEF Agreed, T
      <4>5. efference'[c + 1] = efference[c + 1]
        BY <1>2, <1>9, <4>1
      <4>. QED BY <4>3, <4>4, <4>5
    <3>. QED BY <3>1, <3>2
  <2>3. ASSUME NEW i \in 1 .. Len(motor'.staged)
        PROVE  motor'.staged[i] = efference'[egress'.tail + i]
    <3>0. /\ i \in 1 .. Len(motor.staged) + 1 /\ motor'.staged = Append(motor.staged, e)
          /\ egress'.tail = egress.tail
      BY <1>6, <1>7, <1>10
    <3>1. CASE i = Len(motor.staged) + 1
      <4>1. egress.tail + i = T + 1
        BY <1>2, <3>1
      <4>. QED BY <1>6, <1>9, <3>0, <3>1, <4>1
    <3>2. CASE i # Len(motor.staged) + 1
      <4>0. i \in 1 .. Len(motor.staged) + 1
        BY <3>0
      <4>1. i \in 1 .. Len(motor.staged) /\ egress.tail + i \in 1 .. T
        <5>1. /\ egress.tail \in Nat /\ Len(motor.staged) \in Nat
              /\ T = egress.tail + Len(motor.staged)
          BY <1>2 DEF T, Total
        <5>. HIDE DEF T
        <5>. QED BY ONLY <5>1, <4>0, <3>2, SMTT(30)
      <4>2. motor.staged[i] = efference[egress.tail + i]
        BY <1>1, <4>1 DEF Agreed
      <4>. QED BY <1>6, <1>9, <3>0, <4>1, <4>2
    <3>. QED BY <3>1, <3>2
  <2>4. \A i \in 1 .. Len(page'.records) :
          LET t == page'.records[i].ticket IN
          t \in 1 .. Len(efference') /\ page'.records[i] = efference'[t]
    BY <1>1, <1>2, <1>9 DEF Agreed
  <2>. QED BY <2>1, <2>2, <2>3, <2>4 DEF Agreed
<1>. QED BY <1>11, <1>13, <1>14, <1>15 DEF MotorInv

\* Steps that move the kernel and leave the accounts alone.
LEMMA MovedSound ==
  ASSUME MotorInv, motor' \in Kernel, motor'.step = "ports" => motor'.port <= Ports,
         motor'.staged = motor.staged,
         motor'.step \in {"idle", "finalize"} => motor'.staged = <<>>,
         motor'.step \in {"ports", "publish"} => motor'.base = egress.tail,
         live' \in Trajectories, page' \in Pages, page'.records \in {page.records, <<>>},
         UNCHANGED <<egress, words, efference, client, published>>
  PROVE  MotorInv'
<1>1. MotorType'
  BY DEF MotorInv, MotorType
<1>2. Total' = Total
  BY DEF Total
<1>3. Counted'
  BY <1>2 DEF MotorInv, Counted
<1>4. Numbered'
  BY DEF MotorInv, Numbered
<1>5. Agreed'
  <2>1. \A i \in 1 .. Len(page'.records) :
          LET t == page'.records[i].ticket IN
          t \in 1 .. Len(efference) /\ page'.records[i] = efference[t]
    <3>1. CASE page'.records = page.records
      BY <3>1 DEF MotorInv, Agreed
    <3>2. CASE page'.records = <<>>
      BY <3>2
    <3>. QED BY <3>1, <3>2
  <2>. QED BY <1>2, <2>1 DEF MotorInv, Agreed
<1>. QED BY <1>1, <1>3, <1>4, <1>5 DEF MotorInv

\* The phase moves its events to page and client at once.
LEMMA PublishSound ==
  ASSUME MotorInv, Publish
  PROVE  MotorInv'
<1>. DEFINE n == egress.tail
            k == Len(motor.staged)
<1>1. MotorType /\ Counted /\ Numbered /\ Agreed
  BY DEF MotorInv
<1>2. /\ motor.base = n /\ motor.step = "publish" /\ n \in Nat /\ k \in Nat
      /\ Len(published) = n /\ motor.staged \in Seq(MotorEvent) /\ published \in Seq(MotorEvent)
      /\ Total = n + k /\ Len(efference) = n + k
  BY <1>1, MotorFields DEF Publish, Counted, MotorType, Total
<1>3. /\ motor' \in Kernel /\ motor'.step = "finalize" /\ motor'.staged = <<>> /\ Len(<<>>) = 0
  BY <1>1, EmptySeq DEF Publish, MotorType, Kernel, Steps
<1>4. egress' \in Rings /\ egress'.slots = egress.slots /\ egress'.head = egress.head /\ egress'.tail = n + k
  <2>1. egress' = [egress EXCEPT !.tail = n + k]
    BY <1>2 DEF Publish
  <2>2. n + k \in Nat
    BY <1>2
  <2>. HIDE DEF n, k
  <2>. QED BY <1>1, <2>1, <2>2 DEF MotorType, Rings
<1>5. /\ published' \in Seq(MotorEvent) /\ Len(published') = n + k
      /\ \A i \in 1 .. n : published'[i] = published[i]
      /\ \A i \in n + 1 .. n + k : published'[i] = motor.staged[i - n]
  <2>. DEFINE r == published  q == motor.staged
  <2>1. /\ r \in Seq(MotorEvent) /\ q \in Seq(MotorEvent) /\ n \in Nat /\ k \in Nat
        /\ Len(r) = n /\ Len(q) = k /\ published' = r \o q
    BY <1>2 DEF Publish
  <2>. HIDE DEF r, q, n, k
  <2>2. /\ r \o q \in Seq(MotorEvent) /\ Len(r \o q) = n + k
        /\ \A i \in 1 .. n : (r \o q)[i] = r[i]
        /\ \A i \in 1 .. k : (r \o q)[n + i] = q[i]
    BY <2>1, Joined
  <2>3. ASSUME NEW i \in n + 1 .. n + k PROVE (r \o q)[i] = q[i - n]
    <3>1. i - n \in 1 .. k /\ n + (i - n) = i
      BY <2>1
    <3>2. (r \o q)[n + (i - n)] = q[i - n]
      BY <2>2, <3>1
    <3>. QED BY <3>1, <3>2
  <2>. QED BY <2>1, <2>2, <2>3 DEF r, q
<1>6. /\ page.records \in Seq(MotorEvent) /\ page.root \in Seq(MotorEvent) /\ page.pages \in Nat
      /\ page.records \o motor.staged \in Seq(MotorEvent)
      /\ page.root \o motor.staged \in Seq(MotorEvent)
      /\ Len(page.records) \in Nat
  BY <1>1, <1>2, MotorFields, ConcatProperties
<1>7. page' \in Pages /\ page'.records = page.records \o motor.staged
  BY <1>1, <1>2, <1>6 DEF Publish, MotorType, Pages
<1>8. /\ Len(page'.records) = Len(page.records) + k
      /\ \A i \in 1 .. Len(page.records) : page'.records[i] = page.records[i]
      /\ \A i \in Len(page.records) + 1 .. Len(page.records) + k :
           page'.records[i] = motor.staged[i - Len(page.records)]
  <2>. DEFINE r == page.records  q == motor.staged
  <2>1. r \in Seq(MotorEvent) /\ q \in Seq(MotorEvent) /\ Len(r) \in Nat /\ k \in Nat /\ k = Len(q)
    BY <1>2, <1>6
  <2>. HIDE DEF r, q, k
  <2>2. /\ Len(r \o q) = Len(r) + k
        /\ \A i \in 1 .. Len(r) + k : (r \o q)[i] = IF i <= Len(r) THEN r[i] ELSE q[i - Len(r)]
    BY <2>1, ConcatProperties
  <2>3. page'.records = r \o q
    BY <1>7 DEF r, q
  <2>4. /\ Len(page'.records) = Len(r) + k
        /\ \A i \in 1 .. Len(r) : page'.records[i] = r[i]
        /\ \A i \in Len(r) + 1 .. Len(r) + k : page'.records[i] = q[i - Len(r)]
    <3>1. Len(page'.records) = Len(r) + k
      BY <2>2, <2>3
    <3>2. ASSUME NEW i \in 1 .. Len(r) PROVE page'.records[i] = r[i]
      BY <2>1, <2>2, <2>3, <3>2
    <3>3. ASSUME NEW i \in Len(r) + 1 .. Len(r) + k PROVE page'.records[i] = q[i - Len(r)]
      <4>1. i \in 1 .. Len(r) + k /\ ~(i <= Len(r))
        BY <2>1
      <4>. QED BY <2>2, <2>3, <4>1
    <3>. QED BY <3>1, <3>2, <3>3
  <2>. QED BY <2>4 DEF r, q
<1>9. UNCHANGED <<live, words, efference, client>>
  BY DEF Publish
<1>10. MotorType'
  BY <1>1, <1>3, <1>4, <1>5, <1>7, <1>9 DEF MotorType
<1>11. Total' = Total
  BY <1>2, <1>3, <1>4 DEF Total
<1>12. Counted'
  <2>1. egress.head + Len(client.copy) <= n + k
    <3>1. egress.head \in Nat /\ egress.tail \in Nat /\ Len(client.copy) \in Nat
      BY <1>1, MotorFields
    <3>2. egress.head + Len(client.copy) <= egress.tail
      BY <1>1 DEF Counted
    <3>. QED BY <1>2, <3>1, <3>2
  <2>. QED BY <1>1, <1>2, <1>3, <1>4, <1>5, <1>9, <1>11, <2>1 DEF Counted
<1>. HIDE DEF n, k
<1>13. \A i \in 1 .. k : motor.staged[i] = efference[n + i] /\ motor.staged[i].ticket = n + i
  <2>1. n + k = Len(efference) /\ n \in Nat /\ k \in Nat /\ n = egress.tail
    BY <1>2 DEF n
  <2>. TAKE i \in 1 .. k
  <2>2. n + i \in 1 .. Len(efference)
    BY <2>1
  <2>3. motor.staged[i] = efference[n + i]
    BY <1>1, <2>1 DEF Agreed, k
  <2>4. efference[n + i].ticket = n + i
    BY <1>1, <2>2 DEF Numbered
  <2>. QED BY <2>3, <2>4
<1>14. Numbered'
  <2>1. ASSUME NEW i \in 1 .. Len(published') PROVE published'[i].ticket = i
    <3>1. CASE i \in 1 .. n
      BY <1>1, <1>2, <1>5, <3>1 DEF Numbered
    <3>2. CASE i \notin 1 .. n
      <4>1. i \in n + 1 .. n + k /\ i - n \in 1 .. k /\ n + (i - n) = i
        BY <1>2, <1>5, <3>2
      <4>. QED BY <1>5, <1>13, <4>1
    <3>. QED BY <3>1, <3>2
  <2>. QED BY <1>1, <1>4, <1>9, <2>1 DEF Numbered
<1>15. Agreed'
  <2>1. ASSUME NEW i \in 1 .. Len(page'.records)
        PROVE  page'.records[i].ticket \in 1 .. Len(efference)
               /\ page'.records[i] = efference[page'.records[i].ticket]
    <3>1. CASE i \in 1 .. Len(page.records)
      BY <1>1, <1>8, <3>1 DEF Agreed
    <3>2. CASE i \notin 1 .. Len(page.records)
      <4>. DEFINE j == i - Len(page.records)
      <4>1. i \in Len(page.records) + 1 .. Len(page.records) + k /\ j \in 1 .. k
        BY <1>2, <1>6, <1>8, <3>2
      <4>. HIDE DEF j
      <4>2. page'.records[i] = motor.staged[j]
        BY <1>8, <4>1 DEF j
      <4>3. n + j \in 1 .. Len(efference)
        BY <1>2, <4>1
      <4>. QED BY <1>13, <4>1, <4>2, <4>3
    <3>. QED BY <3>1, <3>2
  <2>. QED BY <1>1, <1>3, <1>4, <1>9, <1>11, <2>1 DEF Agreed
<1>. QED BY <1>10, <1>12, <1>14, <1>15 DEF MotorInv
\* The finalizer rewrites one unread event, in all four accounts.
LEMMA FinalizeSound ==
  ASSUME MotorInv, Finalize
  PROVE  MotorInv'
<1>1. MotorType /\ Counted /\ Numbered /\ Agreed
  BY DEF MotorInv
<1>2. /\ motor' \in Kernel /\ motor'.step = "idle" /\ motor'.staged = motor.staged
      /\ motor.staged = <<>> /\ Len(<<>>) = 0 /\ UNCHANGED <<live, client, published>>
  BY <1>1, EmptySeq DEF Finalize, MotorType, Counted, Kernel, Steps
<1>3. CASE UNCHANGED <<egress, words, efference, page>>
  BY <1>1, <1>2, <1>3, MovedSound DEF MotorType
<1>4. ASSUME NEW c \in egress.head .. egress.tail - 1, NEW slot, NEW t,
             slot = c % EgressRing, t = egress.slots[slot][1].ticket,
             egress' = [egress EXCEPT !.slots[slot][1].word = "planned"],
             words' = [words EXCEPT ![t] = "planned"],
             efference' = Planned(efference, t),
             page' = [page EXCEPT !.records = Planned(@, t)]
      PROVE  MotorInv'
  <2>. DEFINE T == Total
              e == efference[t]
  <2>1. /\ T = egress.tail /\ T \in Nat /\ egress.head \in Nat /\ Len(words) = T
        /\ Len(efference) = T /\ c \in Nat /\ T <= egress.head + EgressRing
        /\ efference \in Seq(MotorEvent) /\ words \in Seq({"own", "planned"})
    <3>1. T = egress.tail /\ egress.tail \in Nat /\ egress.head \in Nat /\ c \in Nat
      BY <1>1, <1>2, MotorFields DEF Total, Counted
    <3>2. Len(words) = T /\ Len(efference) = T /\ T <= egress.head + EgressRing
      BY <1>1 DEF Counted
    <3>. QED BY <1>1, <3>1, <3>2 DEF MotorType
  <2>2. c \in egress.head .. T - 1 /\ c + 1 \in 1 .. T /\ slot \in 0 .. EgressRing - 1
    BY <1>4, <2>1, SlotIs
  <2>. HIDE DEF T
  <2>3. egress.slots[slot] = <<efference[c + 1]>>
    BY <1>1, <1>4, <2>2 DEF Agreed, T
  <2>4. t = c + 1 /\ egress.slots[slot] = <<e>> /\ t \in Nat
    <3>1. efference[c + 1].ticket = c + 1
      BY <1>1, <2>1, <2>2 DEF Numbered
    <3>. QED BY <1>4, <2>1, <2>2, <2>3, <3>1
  <2>5. e \in MotorEvent /\ [e EXCEPT !.word = "planned"] \in MotorEvent
    <3>1. e \in MotorEvent
      BY <2>1, <2>2, <2>4, ElementOfSeq
    <3>. QED BY <3>1 DEF MotorEvent
  <2>. DEFINE w == [e EXCEPT !.word = "planned"]
  <2>6. w \in MotorEvent /\ w.word = "planned" /\ w.ticket = e.ticket
    BY <2>5 DEF MotorEvent
  <2>7. egress' = [egress EXCEPT !.slots[slot] = <<w>>]
    <3>. HIDE DEF e
    <3>1. [egress.slots[slot] EXCEPT ![1].word = "planned"] = <<w>>
      BY <2>4
    <3>. QED BY <1>4, <3>1
  <2>. HIDE DEF w
  <2>8. /\ egress' \in Rings /\ egress'.head = egress.head /\ egress'.tail = egress.tail
        /\ egress'.slots[slot] = <<w>>
        /\ \A k \in 0 .. EgressRing - 1 : k # slot => egress'.slots[k] = egress.slots[k]
    <3>1. <<w>> \in Slots
      BY <2>6 DEF Slots
    <3>. QED BY <1>1, <2>2, <2>7, <3>1 DEF MotorType, Rings
  <2>9. /\ words' \in Seq({"own", "planned"}) /\ Len(words') = T
        /\ \A i \in 1 .. T : words'[i] = IF i = t THEN "planned" ELSE words[i]
    BY <1>4, <2>1, <2>2, <2>4, ExceptSeq
  <2>10. /\ efference' \in Seq(MotorEvent) /\ Len(efference') = T
         /\ \A i \in 1 .. T : /\ efference'[i].ticket = i
                             /\ efference'[i] = IF i = t THEN w ELSE efference[i]
    <3>1. \A i \in 1 .. T : efference[i].ticket = i
      BY <1>1, <2>1 DEF Numbered
    <3>2. /\ efference' \in Seq(MotorEvent) /\ Len(efference') = T
          /\ \A i \in 1 .. T :
               /\ efference'[i].ticket = efference[i].ticket
               /\ efference'[i] = IF efference[i].ticket = t
                                  THEN [efference[i] EXCEPT !.word = "planned"] ELSE efference[i]
      <4>. HIDE DEF e
      <4>. DEFINE p == Planned(efference, t)
      <4>1. /\ p \in Seq(MotorEvent) /\ Len(p) = Len(efference)
            /\ \A i \in 1 .. Len(efference) :
                 /\ p[i].ticket = efference[i].ticket
                 /\ p[i] = IF efference[i].ticket = t
                           THEN [efference[i] EXCEPT !.word = "planned"] ELSE efference[i]
        BY <2>1, <2>4, PlannedIs
      <4>2. efference' = p /\ Len(efference) = T
        BY <1>4, <2>1
      <4>. HIDE DEF p
      <4>. QED BY <4>1, <4>2
    <3>. QED BY <3>1, <3>2 DEF w
  <2>11. /\ page.records \in Seq(MotorEvent) /\ Planned(page.records, t) \in Seq(MotorEvent)
         /\ page' \in Pages /\ page'.records = Planned(page.records, t)
    <3>1. page.records \in Seq(MotorEvent)
      BY <1>1, MotorFields
    <3>2. Planned(page.records, t) \in Seq(MotorEvent)
      BY <2>4, <3>1, PlannedIs
    <3>. QED BY <1>1, <1>4, <3>1, <3>2 DEF MotorType, Pages
  <2>12. ASSUME NEW i \in 1 .. Len(page'.records)
         PROVE  page'.records[i].ticket \in 1 .. T
                /\ page'.records[i] = efference'[page'.records[i].ticket]
    <3>1. /\ i \in 1 .. Len(page.records) /\ page'.records[i].ticket = page.records[i].ticket
          /\ page'.records[i] = IF page.records[i].ticket = t
                                THEN [page.records[i] EXCEPT !.word = "planned"] ELSE page.records[i]
      <4>. HIDE DEF e
      <4>. DEFINE r == page.records
                  p == Planned(r, t)
      <4>1. r \in Seq(MotorEvent)
        BY <2>11
      <4>2. page'.records = p
        BY <2>11
      <4>. HIDE DEF r
      <4>3. /\ Len(p) = Len(r)
            /\ \A k \in 1 .. Len(r) :
                 /\ p[k].ticket = r[k].ticket
                 /\ p[k] = IF r[k].ticket = t THEN [r[k] EXCEPT !.word = "planned"] ELSE r[k]
        BY <2>4, <4>1, PlannedIs
      <4>. HIDE DEF p
      <4>4. /\ i \in 1 .. Len(r) /\ page'.records[i].ticket = r[i].ticket
            /\ page'.records[i] = IF r[i].ticket = t
                                  THEN [r[i] EXCEPT !.word = "planned"] ELSE r[i]
        BY <4>2, <4>3
      <4>. QED BY <4>4 DEF r
    <3>2. page.records[i].ticket \in 1 .. T /\ page.records[i] = efference[page.records[i].ticket]
      BY <1>1, <2>1, <3>1 DEF Agreed
    <3>. QED BY <2>10, <3>1, <3>2 DEF w
  <2>13. MotorType'
    BY <1>1, <1>2, <2>8, <2>9, <2>10, <2>11 DEF MotorType
  <2>14. Total' = T
    BY <1>2, <2>1, <2>8 DEF Total, T
  <2>15. Counted'
    BY <1>1, <1>2, <2>1, <2>8, <2>9, <2>10, <2>14 DEF Counted, T
  <2>16. Numbered'
    BY <1>1, <1>2, <2>8, <2>10 DEF Numbered
  <2>17. Agreed'
    <3>1. \A i \in 1 .. Len(efference') : words'[i] = efference'[i].word
      BY <1>1, <2>1, <2>6, <2>9, <2>10 DEF Agreed
    <3>2. ASSUME NEW d \in egress'.head .. Total' - 1
          PROVE  egress'.slots[d % EgressRing] = <<efference'[d + 1]>>
      <4>1. d \in Nat /\ d \in egress.head .. T - 1 /\ d + 1 \in 1 .. T
        BY <2>1, <2>8, <2>14
      <4>2. CASE d = c
        BY <1>4, <2>4, <2>8, <2>10, <4>1, <4>2
      <4>3. CASE d # c
        <5>1. d % EgressRing # slot
          <6>1. d - c < EgressRing /\ c - d < EgressRing
            BY <2>1, <2>2, <4>1, RingPositive
          <6>. QED BY <1>4, <2>1, <4>1, <4>3, <6>1, SlotsApart
        <5>2. egress'.slots[d % EgressRing] = egress.slots[d % EgressRing]
          BY <2>8, <4>1, <5>1, SlotIs
        <5>3. egress.slots[d % EgressRing] = <<efference[d + 1]>>
          BY <1>1, <4>1 DEF Agreed, T
        <5>4. efference'[d + 1] = efference[d + 1]
          BY <2>1, <2>4, <2>10, <4>1, <4>3
        <5>. QED BY <5>2, <5>3, <5>4
      <4>. QED BY <4>2, <4>3
    <3>3. \A i \in 1 .. Len(motor'.staged) : motor'.staged[i] = efference'[egress'.tail + i]
      BY <1>2
    <3>. QED BY <2>10, <2>12, <3>1, <3>2, <3>3 DEF Agreed
  <2>. QED BY <2>13, <2>15, <2>16, <2>17 DEF MotorInv
<1>5. UNCHANGED <<egress, words, efference, page>> \/
      \E c \in egress.head .. egress.tail - 1 :
        LET slot == c % EgressRing  t == egress.slots[slot][1].ticket IN
        /\ egress' = [egress EXCEPT !.slots[slot][1].word = "planned"]
        /\ words' = [words EXCEPT ![t] = "planned"]
        /\ efference' = Planned(efference, t)
        /\ page' = [page EXCEPT !.records = Planned(@, t)]
  BY DEF Finalize, Driven
<1>. QED BY <1>3, <1>4, <1>5

-----------------------------------------------------------------------------
(* The client, and the remaining steps.                                         *)

\* What it copies are events it has not heard, in order.
LEMMA ReadSound ==
  ASSUME MotorInv, ReadSlots
  PROVE  MotorInv'
<1>. DEFINE h == egress.head
            n == egress.tail - h
            f(i) == egress.slots[(h + i - 1) % EgressRing][1]
<1>1. MotorType /\ Counted /\ Numbered /\ Agreed
  BY DEF MotorInv
<1>2. /\ h \in Nat /\ egress.tail \in Nat /\ n \in Nat /\ egress.tail <= Total
      /\ Len(efference) = Total /\ efference \in Seq(MotorEvent) /\ Total \in Nat
  <2>1. /\ egress.head \in Nat /\ egress.tail \in Nat /\ Len(motor.staged) \in Nat
        /\ egress.head < egress.tail
    BY <1>1, MotorFields DEF ReadSlots
  <2>2. Total = egress.tail + Len(motor.staged)
    BY DEF Total
  <2>3. Len(efference) = Total /\ efference \in Seq(MotorEvent)
    BY <1>1 DEF Counted, MotorType
  <2>. QED BY <2>1, <2>2, <2>3
<1>3. \A i \in 1 .. n : f(i) = efference[h + i] /\ h + i \in 1 .. Total
  <2>. SUFFICES ASSUME NEW i \in 1 .. n
                PROVE  f(i) = efference[h + i] /\ h + i \in 1 .. Total
    OBVIOUS
  <2>1. h + i - 1 \in h .. Total - 1 /\ (h + i - 1) + 1 = h + i /\ h + i \in 1 .. Total
    BY <1>2
  <2>2. egress.slots[(h + i - 1) % EgressRing] = <<efference[(h + i - 1) + 1]>>
    BY <1>1, <2>1 DEF Agreed
  <2>. QED BY <2>1, <2>2
<1>4. \A i \in 1 .. n : f(i) \in MotorEvent /\ f(i).ticket = h + i
  BY <1>1, <1>2, <1>3, ElementOfSeq DEF Numbered
<1>5. client' = [client EXCEPT !.step = "copied", !.copy = [i \in 1 .. n |-> f(i)]]
  BY DEF ReadSlots
<1>6. UNCHANGED <<motor, live, egress, words, efference, page, published>>
  BY DEF ReadSlots
<1>. HIDE DEF f, n
<1>7. [i \in 1 .. n |-> f(i)] \in Seq(MotorEvent)
  BY <1>2, <1>4, IsASeq
<1>8. /\ client' \in Reads /\ client'.step = "copied" /\ client'.got = client.got
      /\ client'.copy = [i \in 1 .. n |-> f(i)]
  BY <1>1, <1>5, <1>7 DEF MotorType, Reads
<1>9. Len(client'.copy) = n
  BY <1>2, <1>7, <1>8, LenProperties
<1>10. MotorType'
  BY <1>1, <1>6, <1>8 DEF MotorType
<1>11. Counted'
  <2>1. h + n <= egress.tail /\ Total' = Total
    BY <1>2, <1>6 DEF n, Total
  <2>. QED BY <1>1, <1>6, <1>8, <1>9, <2>1 DEF Counted
<1>12. Numbered'
  BY <1>1, <1>4, <1>6, <1>8, <1>9 DEF Numbered
<1>13. Agreed'
  BY <1>1, <1>6 DEF Agreed, Total
<1>. QED BY <1>10, <1>11, <1>12, <1>13 DEF MotorInv

\* The head moves over what was copied, and no further.
LEMMA StoreSound ==
  ASSUME MotorInv, StoreHead
  PROVE  MotorInv'
<1>. DEFINE h == egress.head
            k == Len(client.copy)
<1>1. MotorType /\ Counted /\ Numbered /\ Agreed
  BY DEF MotorInv
<1>2. /\ h \in Nat /\ k \in Nat /\ client.copy \in Seq(MotorEvent) /\ client.got \in Seq(MotorEvent)
      /\ Len(client.got) = h /\ h + k <= egress.tail /\ egress.tail \in Nat
  BY <1>1, MotorFields DEF Counted
<1>3. /\ egress' \in Rings /\ egress'.head = h + k /\ egress'.tail = egress.tail
      /\ egress'.slots = egress.slots
  <2>1. egress' = [egress EXCEPT !.head = h + k]
    BY DEF StoreHead
  <2>2. h + k \in Nat
    BY <1>2
  <2>. HIDE DEF h, k
  <2>. QED BY <1>1, <2>1, <2>2 DEF MotorType, Rings
<1>4. /\ client.got \o client.copy \in Seq(MotorEvent) /\ Len(client.got \o client.copy) = h + k
      /\ \A i \in 1 .. h + k : (client.got \o client.copy)[i].ticket = i
  <2>1. /\ client.got \o client.copy \in Seq(MotorEvent) /\ Len(client.got \o client.copy) = h + k
        /\ \A i \in 1 .. h : (client.got \o client.copy)[i] = client.got[i]
        /\ \A i \in 1 .. k : (client.got \o client.copy)[h + i] = client.copy[i]
    <3>. DEFINE r == client.got  q == client.copy
    <3>1. r \in Seq(MotorEvent) /\ q \in Seq(MotorEvent) /\ Len(r) = h /\ Len(q) = k
      BY <1>2
    <3>. HIDE DEF r, q, h, k
    <3>2. /\ r \o q \in Seq(MotorEvent) /\ Len(r \o q) = h + k
          /\ \A i \in 1 .. h : (r \o q)[i] = r[i]
          /\ \A i \in 1 .. k : (r \o q)[h + i] = q[i]
      BY <3>1, Joined
    <3>. QED BY <3>2 DEF r, q
  <2>2. /\ \A i \in 1 .. h : client.got[i].ticket = i
        /\ \A i \in 1 .. k : client.copy[i].ticket = h + i
    BY <1>1, <1>2 DEF Numbered
  <2>. HIDE DEF h, k
  <2>3. ASSUME NEW i \in 1 .. h + k PROVE (client.got \o client.copy)[i].ticket = i
    <3>1. CASE i \in 1 .. h
      BY <2>1, <2>2, <3>1
    <3>2. CASE i \notin 1 .. h
      <4>1. i - h \in 1 .. k /\ h + (i - h) = i
        BY <1>2, <3>2
      <4>2. (client.got \o client.copy)[h + (i - h)].ticket = h + (i - h)
        BY <2>1, <2>2, <4>1
      <4>. QED BY <4>1, <4>2
    <3>. QED BY <3>1, <3>2
  <2>. QED BY <2>1, <2>3
<1>5. /\ client' \in Reads /\ client'.step = "idle" /\ client'.copy = <<>>
      /\ client'.got = client.got \o client.copy /\ Len(<<>>) = 0
  BY <1>4, EmptySeq DEF StoreHead, Reads
<1>6. UNCHANGED <<motor, live, words, efference, page, published>>
  BY DEF StoreHead
<1>7. MotorType'
  BY <1>1, <1>3, <1>5, <1>6 DEF MotorType
<1>8. Total' = Total /\ Total \in Nat
  <2>1. Total \in Nat
    <3>1. egress.tail \in Nat /\ Len(motor.staged) \in Nat
      BY <1>1, MotorFields
    <3>. QED BY <3>1 DEF Total
  <2>2. egress'.tail = egress.tail /\ motor' = motor
    BY <1>3, <1>6
  <2>. QED BY <2>1, <2>2 DEF Total
<1>9. Counted'
  <2>0. /\ Total <= egress.head + EgressRing /\ egress.head + Len(client.copy) <= egress.tail
        /\ egress.tail \in Nat
    BY <1>1, MotorFields DEF Counted
  <2>1. Total <= h + k + EgressRing /\ h + k + 0 <= egress.tail
    BY <1>2, <1>8, <2>0, RingPositive
  <2>2. Len(client'.copy) = 0 /\ Len(client'.got) = h + k
    BY <1>4, <1>5
  <2>. QED BY <1>1, <1>2, <1>3, <1>5, <1>6, <1>8, <2>1, <2>2 DEF Counted
<1>10. Numbered'
  <2>1. \A i \in 1 .. Len(client'.got) : client'.got[i].ticket = i
    BY <1>4, <1>5
  <2>2. \A i \in 1 .. Len(client'.copy) : client'.copy[i].ticket = egress'.head + i
    BY <1>5
  <2>. QED BY <1>1, <1>6, <2>1, <2>2 DEF Numbered
<1>11. Agreed'
  <2>1. \A c \in egress'.head .. Total' - 1 : c \in egress.head .. Total - 1
    BY <1>2, <1>3, <1>8
  <2>. QED BY <1>1, <1>3, <1>6, <1>8, <2>1 DEF Agreed
<1>. QED BY <1>7, <1>9, <1>10, <1>11 DEF MotorInv
\* An epoch begins: the record room is tested, the phase is laid over the tail.
LEMMA BeginSound ==
  ASSUME MotorInv, NEW d \in 0 .. Ports,
         BeginPorts(d) \/ BeginContinued(d) \/ BeginHeld(d) \/ BeginBroken(d)
  PROVE  MotorInv'
<1>1. /\ MotorType /\ motor.step = "idle" /\ motor.staged = <<>>
      /\ egress.tail \in Nat /\ egress.head \in Nat /\ motor.tick + 1 \in Nat
      /\ Ports \in Nat \ {0} /\ <<>> \in Seq(MotorEvent)
  <2>1. MotorType /\ Counted
    BY DEF MotorInv
  <2>2. motor.step = "idle"
    BY DEF BeginPorts, BeginContinued, BeginHeld, BeginBroken
  <2>3. motor.staged = <<>>
    BY <2>1, <2>2 DEF Counted
  <2>4. egress.tail \in Nat /\ egress.head \in Nat /\ motor.tick \in Nat
    BY <2>1, MotorFields
  <2>. QED BY <2>1, <2>2, <2>3, <2>4, MotorAssumption
<1>2. /\ page' = [page EXCEPT !.last = 0] /\ UNCHANGED <<client, published>>
      /\ page' \in Pages /\ page'.records = page.records
  <2>1. page' = [page EXCEPT !.last = 0] /\ UNCHANGED <<client, published>>
    BY DEF BeginPorts, BeginContinued, BeginHeld, BeginBroken
  <2>2. page \in Pages
    BY <1>1 DEF MotorType
  <2>. QED BY <2>1, <2>2 DEF Pages
<1>3. ASSUME NEW step \in {"ports", "publish"}
      PROVE  /\ Phase(step, d) \in Kernel /\ Phase(step, d).staged = motor.staged
             /\ Phase(step, d).base = egress.tail /\ Phase(step, d).step = step
             /\ Phase(step, d).port = 1
  BY <1>1 DEF Phase, Kernel, Steps
<1>4. CASE BeginContinued(d)
  <2>1. live # <<>> /\ egress.tail - egress.head < EgressRing /\ Len(efference) < EfferenceRing
    BY <1>4 DEF BeginContinued, Owned, EfferenceRoom
  <2>2. PICK t \in [node: 1 .. Ports, left: Nat \ {0}] : live = <<t>>
    BY <1>1, <2>1 DEF MotorType, Trajectories
  <2>3. live[1] = t /\ t.node \in 1 .. Ports /\ t.left \in Nat \ {0}
    BY <2>2
  <2>4. live' = IF t.left = 1 THEN <<>> ELSE <<[t EXCEPT !.left = @ - 1]>>
    BY <1>4, <2>3 DEF BeginContinued
  <2>5. live' \in Trajectories
    <3>1. CASE t.left = 1
      BY <2>4, <3>1 DEF Trajectories
    <3>2. CASE t.left # 1
      <4>1. [t EXCEPT !.left = @ - 1] \in [node: 1 .. Ports, left: Nat \ {0}]
        BY <2>3, <3>2
      <4>. QED BY <2>4, <3>2, <4>1 DEF Trajectories
    <3>. QED BY <3>1, <3>2
  <2>6. Emitted(Phase("publish", d), t.node)
    BY <1>4, <2>3 DEF BeginContinued
  <2>7. Total < egress.head + EgressRing
    <3>1. Len(motor.staged) = 0
      BY <1>1, EmptySeq
    <3>. QED BY <1>1, <2>1, <3>1, RingPositive DEF Total
  <2>. DEFINE m == Phase("publish", d)
  <2>8. /\ m \in Kernel /\ m.staged = motor.staged /\ m.base = egress.tail /\ m.step = "publish"
        /\ Emitted(m, t.node)
    BY <1>3, <2>6
  <2>. HIDE DEF m
  <2>. QED BY <1>2, <2>1, <2>3, <2>5, <2>7, <2>8, EmittedSound
<1>5. CASE BeginPorts(d) \/ BeginHeld(d) \/ BeginBroken(d)
  <2>1. /\ motor' \in {Phase("ports", d), Phase("publish", d)}
        /\ UNCHANGED <<egress, words, efference>> /\ live' \in {live, <<>>}
    BY <1>5 DEF BeginPorts, BeginHeld, BeginBroken
  <2>2. live' \in Trajectories
    BY <1>1, <2>1 DEF MotorType, Trajectories
  <2>3. /\ motor' \in Kernel /\ motor'.staged = motor.staged /\ motor'.base = egress.tail
        /\ motor'.step \in {"ports", "publish"} /\ motor'.port = 1
    BY <1>3, <2>1
  <2>4. 1 <= Ports
    BY <1>1
  <2>. QED BY <1>2, <2>1, <2>2, <2>3, <2>4, MovedSound
<1>. QED BY <1>4, <1>5

LEMMA PortSound ==
  ASSUME MotorInv, SkipPort \/ EmitPort \/ EmitOrigin
  PROVE  MotorInv'
<1>1. /\ MotorType /\ Counted /\ motor.step = "ports" /\ motor \in Kernel
      /\ motor.port \in 1 .. Ports /\ Ports \in Nat /\ motor.base = egress.tail
  <2>1. MotorType /\ Counted
    BY DEF MotorInv
  <2>2. motor.step = "ports"
    BY DEF SkipPort, EmitPort, EmitOrigin
  <2>3. motor.base = egress.tail
    BY <2>1, <2>2 DEF Counted
  <2>4. motor \in Kernel /\ motor.port <= Ports
    BY <2>1, <2>2 DEF MotorType
  <2>5. motor.port \in 1 .. Ports + 1 /\ Ports \in Nat
    BY <2>1, MotorFields, MotorAssumption
  <2>6. motor.port \in 1 .. Ports
    BY <2>4, <2>5
  <2>. QED BY <2>1, <2>2, <2>3, <2>4, <2>5, <2>6
<1>2. ASSUME NEW step \in {"publish", Later}
      PROVE  /\ Stepped(step) \in Kernel /\ Stepped(step).staged = motor.staged
             /\ Stepped(step).base = egress.tail /\ Stepped(step).step \in {"ports", "publish"}
             /\ Stepped(step).step = "ports" => Stepped(step).port <= Ports
  <2>1. /\ step \in {"ports", "publish"} /\ motor.port + 1 \in 1 .. Ports + 1
        /\ step = "ports" => motor.port + 1 <= Ports
    BY <1>1 DEF Later
  <2>. QED BY <1>1, <2>1 DEF Stepped, Kernel, Steps
<1>3. page \in Pages /\ live \in Trajectories
  BY <1>1 DEF MotorType
<1>4. CASE SkipPort
  <2>1. /\ motor' = Stepped(Later)
        /\ UNCHANGED <<live, egress, words, efference, page, client, published>>
    BY <1>4 DEF SkipPort
  <2>. QED BY <1>2, <1>3, <2>1, MovedSound
<1>5. CASE EmitPort \/ EmitOrigin
  <2>1. PICK step \in {"publish", Later} : Emitted(Stepped(step), motor.port)
    BY <1>5 DEF EmitPort, EmitOrigin
  <2>2. Total < egress.head + EgressRing /\ Len(efference) < EfferenceRing
    <3>1. /\ motor.base + Len(motor.staged) - egress.head < EgressRing
          /\ Len(efference) < EfferenceRing
      BY <1>5 DEF EmitPort, EmitOrigin, EgressRoom, EfferenceRoom
    <3>2. egress.tail \in Nat /\ Len(motor.staged) \in Nat /\ egress.head \in Nat
      BY <1>1, MotorFields
    <3>. QED BY <1>1, <3>1, <3>2, RingPositive DEF Total
  <2>3. live' \in Trajectories /\ UNCHANGED <<page, client, published>>
    <3>1. [node |-> motor.port, left |-> MotorExtent - 1] \in [node: 1 .. Ports, left: Nat \ {0}]
      BY <1>1, MotorAssumption
    <3>. QED BY <1>3, <1>5, <3>1 DEF EmitPort, EmitOrigin, Trajectories
  <2>. DEFINE m == Stepped(step)
  <2>4. /\ m \in Kernel /\ m.staged = motor.staged /\ m.base = egress.tail
        /\ m.step \in {"ports", "publish"} /\ (m.step = "ports" => m.port <= Ports)
        /\ Emitted(m, motor.port)
    BY <1>2, <2>1
  <2>. HIDE DEF m
  <2>. QED BY <1>1, <1>3, <2>2, <2>3, <2>4, EmittedSound
<1>. QED BY <1>4, <1>5

LEMMA PageSound ==
  ASSUME MotorInv, BeginRefused \/ ArchivePage
  PROVE  MotorInv'
<1>1. /\ MotorType /\ motor.step = "idle" /\ motor.staged = <<>> /\ motor \in Kernel
      /\ egress.tail \in Nat /\ motor.tick + 1 \in Nat /\ page.pages \in Nat
      /\ Ports \in Nat \ {0} /\ <<>> \in Seq(MotorEvent) /\ live \in Trajectories /\ page \in Pages
  <2>1. MotorType /\ Counted
    BY DEF MotorInv
  <2>2. motor.step = "idle"
    BY DEF BeginRefused, ArchivePage
  <2>3. motor.staged = <<>>
    BY <2>1, <2>2 DEF Counted
  <2>4. motor \in Kernel /\ live \in Trajectories /\ page \in Pages
    BY <2>1 DEF MotorType
  <2>5. egress.tail \in Nat /\ motor.tick + 1 \in Nat /\ page.pages \in Nat /\ Ports \in Nat \ {0}
    <3>1. egress.tail \in Nat /\ motor.tick \in Nat /\ page.pages \in Nat
      BY <2>1, MotorFields
    <3>. QED BY <3>1, MotorAssumption
  <2>. QED BY <2>1, <2>2, <2>3, <2>4, <2>5
<1>2. /\ motor' \in Kernel /\ motor'.step = "idle" /\ motor'.staged = <<>>
      /\ UNCHANGED <<live, egress, words, efference, client, published>>
  BY <1>1 DEF BeginRefused, ArchivePage, Phase, Kernel, Steps
<1>3. page' \in Pages /\ page'.records \in {page.records, <<>>}
  <2>1. CASE page' = [page EXCEPT !.sealed = TRUE, !.last = 0]
    BY <1>1, <2>1 DEF Pages
  <2>2. CASE page' = [records |-> <<>>, root |-> <<>>, last |-> 0, sealed |-> FALSE,
                      pages |-> page.pages + 1]
    <3>1. page.pages + 1 \in Nat
      BY <1>1
    <3>. QED BY <1>1, <2>2, <3>1 DEF Pages
  <2>. QED BY <2>1, <2>2 DEF BeginRefused, ArchivePage
<1>. QED BY <1>1, <1>2, <1>3, MovedSound

LEMMA MotorStep ==
  ASSUME MotorInv, [MotorNext]_motorVars
  PROVE  MotorInv'
<1>1. CASE UNCHANGED motorVars
  BY <1>1 DEF motorVars, MotorInv, MotorType, Counted, Numbered, Agreed, Total
<1>2. CASE BeginRefused \/ ArchivePage
  BY <1>2, PageSound
<1>3. CASE \E d \in 0 .. Ports : BeginPorts(d) \/ BeginContinued(d) \/ BeginHeld(d) \/ BeginBroken(d)
  BY <1>3, BeginSound
<1>4. CASE SkipPort \/ EmitPort \/ EmitOrigin
  BY <1>4, PortSound
<1>5. CASE Publish
  BY <1>5, PublishSound
<1>6. CASE Finalize
  BY <1>6, FinalizeSound
<1>7. CASE ReadSlots
  BY <1>7, ReadSound
<1>8. CASE StoreHead
  BY <1>8, StoreSound
<1>. QED BY <1>1, <1>2, <1>3, <1>4, <1>5, <1>6, <1>7, <1>8 DEF MotorNext

LEMMA MotorSafe == MotorSpec => []MotorInv
BY MotorInitSound, MotorStep, PTL DEF MotorSpec

-----------------------------------------------------------------------------
(* Theorems.                                                                    *)

\* Every state of the motor phase, its rings and its reader is well typed.
THEOREM MotorTypeCorrect == MotorSpec => []MotorTypeOK
<1>1. MotorInv => MotorTypeOK
  <2>. SUFFICES ASSUME MotorInv PROVE MotorTypeOK
    OBVIOUS
  <2>1. MotorType
    BY DEF MotorInv
  <2>. QED BY <2>1, MotorFields DEF MotorType, MotorTypeOK, Kernel, Steps
<1>. QED BY <1>1, MotorSafe, PTL

\* read_motor_events gives the client every published event once and in order,
\* while the motor phase fills the ring and the finalizer rewrites it.
THEOREM EventsAreReadInOrder == MotorSpec => []ReadInOrder
<1>1. MotorInv => ReadInOrder
  <2>. SUFFICES ASSUME MotorInv PROVE ReadInOrder
    OBVIOUS
  <2>. DEFINE g == Tickets(client.got)
              p == Tickets(published)
              h == egress.head
              n == egress.tail
  <2>1. /\ h \in Nat /\ n \in Nat /\ h <= n /\ Len(client.got) = h /\ Len(published) = n
        /\ client.got \in Seq(MotorEvent) /\ published \in Seq(MotorEvent)
        /\ Len(client.copy) \in Nat
    BY MotorFields DEF MotorInv, MotorType, Counted
  <2>2. g = [i \in 1 .. h |-> i] /\ p = [i \in 1 .. n |-> i]
    BY <2>1, LenProperties DEF Tickets, MotorInv, Numbered
  <2>. HIDE DEF g, p, h, n
  <2>3. g \in Seq(Nat) /\ p \in Seq(Nat) /\ Len(g) = h /\ Len(p) = n
    BY <2>1, <2>2
  <2>4. SubSeq(g, 1, h) = SubSeq(p, 1, h)
    <3>1. SubSeq(g, 1, h) = [i \in 1 .. h |-> i]
      BY <2>1, <2>2, <2>3
    <3>2. SubSeq(p, 1, h) = [i \in 1 .. h |-> i]
      BY <2>1, <2>2, <2>3
    <3>. QED BY <3>1, <3>2
  <2>5. IsPrefix(g, p)
    BY <2>1, <2>3, <2>4 DEF IsPrefix
  <2>. QED BY <2>5 DEF ReadInOrder, g, p
<1>. QED BY <1>1, MotorSafe, PTL

\* emit and finalize_resident_language_motor_owned leave the slot, the ticket, the
\* record and the copy of an event with one word.
THEOREM WordsAgree == MotorSpec => []AccountsAgree
<1>1. MotorInv => AccountsAgree
  <2>. SUFFICES ASSUME MotorInv, NEW c \in egress.head .. egress.tail - 1
                PROVE  LET e == egress.slots[c % EgressRing][1] IN
                       /\ words[e.ticket] = e.word
                       /\ \A i \in DOMAIN page.records :
                            page.records[i].ticket = e.ticket => page.records[i] = e
                       /\ \E i \in DOMAIN efference : efference[i] = e
    BY DEF AccountsAgree
  <2>. DEFINE e == egress.slots[c % EgressRing][1]
  <2>1. /\ c \in egress.head .. Total - 1 /\ c + 1 \in 1 .. Len(efference)
        /\ DOMAIN efference = 1 .. Len(efference)
        /\ DOMAIN page.records = 1 .. Len(page.records)
    <3>1. /\ egress.head \in Nat /\ egress.tail \in Nat /\ Len(motor.staged) \in Nat
          /\ page.records \in Seq(MotorEvent) /\ efference \in Seq(MotorEvent)
          /\ Len(efference) = Total /\ Total = egress.tail + Len(motor.staged)
      BY MotorFields DEF MotorInv, MotorType, Counted, Total
    <3>. QED BY <3>1, LenProperties
  <2>2. egress.slots[c % EgressRing] = <<efference[c + 1]>>
    BY <2>1 DEF MotorInv, Agreed
  <2>3. e = efference[c + 1] /\ e.ticket = c + 1
    BY <2>1, <2>2 DEF MotorInv, Numbered
  <2>. HIDE DEF e
  <2>4. words[e.ticket] = e.word
    BY <2>1, <2>3 DEF MotorInv, Agreed
  <2>5. \A i \in DOMAIN page.records : page.records[i].ticket = e.ticket => page.records[i] = e
    BY <2>1, <2>3 DEF MotorInv, Agreed
  <2>. QED BY <2>1, <2>3, <2>4, <2>5 DEF e
<1>. QED BY <1>1, MotorSafe, PTL

\* Every ticket has its one efference copy, and the ring that nothing drains is
\* never overrun.
THEOREM CopiesAreKept == MotorSpec => []CopiesMatch
<1>1. MotorInv => CopiesMatch
  <2>. SUFFICES ASSUME MotorInv PROVE CopiesMatch
    OBVIOUS
  <2>1. /\ Len(efference) = Len(words) /\ Len(efference) <= EfferenceRing
        /\ DOMAIN efference = 1 .. Len(efference) /\ DOMAIN words = 1 .. Len(words)
    BY LenProperties DEF MotorInv, MotorType, Counted
  <2>2. \A i \in 1 .. Len(efference) : efference[i].ticket = i
    BY DEF MotorInv, Numbered
  <2>. QED BY <2>1, <2>2 DEF CopiesMatch, Tickets
<1>. QED BY <1>1, MotorSafe, PTL

=============================================================================
