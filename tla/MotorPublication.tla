--------------------------- MODULE MotorPublication ---------------------------
(***************************************************************************)
(* The motor phase of one epoch (persistent_motor_phase_device), the       *)
(* language finalizer that may rewrite the word of the event it drove      *)
(* (finalize_resident_language_motor_owned), and the client that reads the *)
(* egress ring meanwhile (read_motor_events: copy the cursors, copy the    *)
(* slots, store the head).  One word is kept in four places: the egress    *)
(* slot, the ticket, the history record and the efference copy.            *)
(*                                                                         *)
(* Which port is active and wins, whether its ancestry is admitted, and    *)
(* whether it begins a trajectory are choices.  The page holds only the    *)
(* records of motor phases.  Its prefix root, a fold of hashes, is the     *)
(* sequence of what was folded.  Ticket n is the n-th event.               *)
(***************************************************************************)
EXTENDS Integers, Sequences, SequencesExt

CONSTANTS
  Ports,         \* boundary_port_count: motor ports 1 .. Ports, one node each
  EgressRing,    \* kMaxEgressQueueSize
  EfferenceRing, \* kMaxEfferenceRingSize
  PageRecords,   \* kDirectExactHistoryHotPageCapacity
  MotorExtent,   \* extent of a trajectory: how many events it is
  MaxMotorTick,  \* bound on the epochs of a run
  MaxPages       \* bound on the pages archived

ASSUME MotorAssumption ==
  /\ Ports \in Nat \ {0} /\ EgressRing \in Nat \ {0} /\ EfferenceRing \in Nat
  /\ PageRecords \in Nat \ {0} /\ MotorExtent \in Nat \ {0, 1}
  /\ MaxMotorTick \in Nat /\ MaxPages \in Nat

VARIABLES
  motor,      \* the kernel: step, tick, port, base, staged, driven
  live,       \* <<>> or <<[node, left]>>: the live trajectory
  egress,     \* the egress ring: slots, head, tail
  words,      \* ticket_table: the motor word of each ticket
  efference,  \* the efference ring, which nothing drains
  page,       \* the hot page: records, root, last (last_phase_records), sealed, pages
  client,     \* the host's read: step, copy, got
  published   \* history: the events published, in order

motorVars == <<motor, live, egress, words, efference, page, client, published>>

MotorEvent == [ticket: Nat, node: 1 .. Ports, word: {"own", "planned"}, tick: Nat]

MotorInit ==
  /\ motor = [step |-> "idle", tick |-> 0, port |-> 1, base |-> 0, staged |-> <<>>, driven |-> 0]
  /\ live = <<>>
  /\ egress = [slots |-> [i \in 0 .. EgressRing - 1 |-> <<>>], head |-> 0, tail |-> 0]
  /\ words = <<>> /\ efference = <<>>
  /\ page = [records |-> <<>>, root |-> <<>>, last |-> 0, sealed |-> FALSE, pages |-> 0]
  /\ client = [step |-> "idle", copy |-> <<>>, got |-> <<>>]
  /\ published = <<>>

-----------------------------------------------------------------------------
(* The phase begins: the history must take a record of every port, else the *)
(* page is sealed and nothing is emitted in this epoch.                     *)

PageRoom == ~page.sealed /\ Ports <= PageRecords - Len(page.records)

\* A live trajectory owns the phase, if the ring has room for its event.
Owned == live # <<>> /\ egress.tail - egress.head < EgressRing

\* Mutant of EfferenceRoom: the copies of this phase are not counted.
EfferenceRoomAtBase == Len(efference) - Len(motor.staged) < EfferenceRing

EfferenceRoom == Len(efference) < EfferenceRing

\* The phase of the next epoch, in which the language drives node d (0: none).
Phase(step, d) ==
  [step |-> step, tick |-> motor.tick + 1, port |-> 1, base |-> egress.tail,
   staged |-> <<>>, driven |-> d]

\* An event of node n in phase m: its ticket, egress slot and efference copy.
Emitted(m, n) ==
  LET e == [ticket |-> Len(words) + 1, node |-> n, word |-> "own", tick |-> m.tick] IN
  /\ motor' = [m EXCEPT !.staged = Append(@, e)]
  /\ egress' = [egress EXCEPT !.slots[(m.base + Len(m.staged)) % EgressRing] = <<e>>]
  /\ words' = Append(words, "own")
  /\ efference' = Append(efference, e)

BeginRefused ==
  /\ motor.step = "idle" /\ motor.tick < MaxMotorTick
  /\ ~PageRoom
  /\ page' = [page EXCEPT !.sealed = TRUE, !.last = 0]
  /\ motor' = Phase("idle", 0)
  /\ UNCHANGED <<live, egress, words, efference, client, published>>

BeginPorts(d) ==
  /\ motor.step = "idle" /\ motor.tick < MaxMotorTick
  /\ PageRoom /\ ~Owned
  /\ motor' = Phase("ports", d)
  /\ page' = [page EXCEPT !.last = 0]
  /\ UNCHANGED <<live, egress, words, efference, client, published>>

\* The trajectory's next event; it ends with its last one.
BeginContinued(d) ==
  /\ motor.step = "idle" /\ motor.tick < MaxMotorTick
  /\ PageRoom /\ Owned /\ EfferenceRoom
  /\ Emitted(Phase("publish", d), live[1].node)
  /\ live' = IF live[1].left = 1 THEN <<>> ELSE <<[live[1] EXCEPT !.left = @ - 1]>>
  /\ page' = [page EXCEPT !.last = 0]
  /\ UNCHANGED <<client, published>>

\* Neither a ticket nor room for a copy: the trajectory waits, and owns the phase.
BeginHeld(d) ==
  /\ motor.step = "idle" /\ motor.tick < MaxMotorTick
  /\ PageRoom /\ Owned
  /\ motor' = Phase("publish", d)
  /\ page' = [page EXCEPT !.last = 0]
  /\ UNCHANGED <<live, egress, words, efference, client, published>>

\* Its port or contributors changed: the trajectory is refused, the ports follow.
BeginBroken(d) ==
  /\ motor.step = "idle" /\ motor.tick < MaxMotorTick
  /\ PageRoom /\ Owned /\ EfferenceRoom
  /\ live' = <<>>
  /\ motor' = Phase("ports", d)
  /\ page' = [page EXCEPT !.last = 0]
  /\ UNCHANGED <<egress, words, efference, client, published>>

-----------------------------------------------------------------------------
(* The ports in ascending order; each reads the client's head again.       *)

\* Mutant of EgressRoom: the events staged in this phase are not counted.
EgressRoomAtBase == motor.base - egress.head < EgressRing

EgressRoom == motor.base + Len(motor.staged) - egress.head < EgressRing

Stepped(step) == [motor EXCEPT !.port = @ + 1, !.step = step]

Later == IF motor.port = Ports THEN "publish" ELSE "ports"

SkipPort ==
  /\ motor.step = "ports"
  /\ motor' = Stepped(Later)
  /\ UNCHANGED <<live, egress, words, efference, page, client, published>>

EmitPort ==
  /\ motor.step = "ports" /\ EgressRoom /\ EfferenceRoom
  /\ Emitted(Stepped(Later), motor.port)
  /\ UNCHANGED <<live, page, client, published>>

\* An origin of a trajectory ends the phase; there is one trajectory at most.
EmitOrigin ==
  /\ motor.step = "ports" /\ EgressRoom /\ EfferenceRoom
  /\ live = <<>>
  /\ Emitted(Stepped("publish"), motor.port)
  /\ live' = <<[node |-> motor.port, left |-> MotorExtent - 1]>>
  /\ UNCHANGED <<page, client, published>>

\* finish_exact_history_phase folds the records; the tail moves last.
Publish ==
  /\ motor.step = "publish"
  /\ page' = [page EXCEPT !.records = @ \o motor.staged, !.root = @ \o motor.staged,
                          !.last = Len(motor.staged),
                          !.sealed = Len(page.records \o motor.staged) = PageRecords]
  /\ egress' = [egress EXCEPT !.tail = motor.base + Len(motor.staged)]
  /\ published' = published \o motor.staged
  /\ motor' = [motor EXCEPT !.step = "finalize", !.staged = <<>>]
  /\ UNCHANGED <<live, words, efference, client>>

-----------------------------------------------------------------------------
(* The finalizer writes the planned word over the event of the driven node, *)
(* if the client has not taken it yet.                                      *)

\* Ring positions of the unread event that the language drove in this epoch.
Driven == {c \in egress.head .. egress.tail - 1 :
             LET e == egress.slots[c % EgressRing][1]
             IN  e.tick = motor.tick /\ e.node = motor.driven}

\* Mutant of Planned: the last record of the phase is rewritten, whichever it is.
PlannedLast(rows, t) == [rows EXCEPT ![Len(rows)].word = "planned"]

\* rows with the planned word in the row of ticket t.
Planned(rows, t) ==
  [i \in DOMAIN rows |-> IF rows[i].ticket = t THEN [rows[i] EXCEPT !.word = "planned"] ELSE rows[i]]

Finalize ==
  /\ motor.step = "finalize"
  /\ motor' = [motor EXCEPT !.step = "idle"]
  /\ IF Driven = {} THEN UNCHANGED <<egress, words, efference, page>>
     ELSE \E c \in Driven :
       LET slot == c % EgressRing  t == egress.slots[slot][1].ticket IN
       /\ egress' = [egress EXCEPT !.slots[slot][1].word = "planned"]
       /\ words' = [words EXCEPT ![t] = "planned"]
       /\ efference' = Planned(efference, t)
       /\ page' = [page EXCEPT !.records = Planned(@, t)]
  /\ UNCHANGED <<live, client, published>>

\* archive_direct_exact_history_page: a page is moved out if it folds to its root.
ArchivePage ==
  /\ motor.step = "idle" /\ client.step = "idle"
  /\ page.sealed /\ page.records # <<>> /\ page.root = page.records
  /\ page.pages < MaxPages
  /\ page' = [records |-> <<>>, root |-> <<>>, last |-> 0, sealed |-> FALSE, pages |-> page.pages + 1]
  /\ UNCHANGED <<motor, live, egress, words, efference, client, published>>

-----------------------------------------------------------------------------
(* read_motor_events, which the kernel does not wait for.                  *)

ReadSlots ==
  /\ client.step = "idle" /\ egress.head < egress.tail
  /\ client' = [client EXCEPT !.step = "copied",
       !.copy = [i \in 1 .. egress.tail - egress.head |->
                   egress.slots[(egress.head + i - 1) % EgressRing][1]]]
  /\ UNCHANGED <<motor, live, egress, words, efference, page, published>>

StoreHead ==
  /\ client.step = "copied"
  /\ egress' = [egress EXCEPT !.head = @ + Len(client.copy)]
  /\ client' = [step |-> "idle", copy |-> <<>>, got |-> client.got \o client.copy]
  /\ UNCHANGED <<motor, live, words, efference, page, published>>

MotorNext ==
  \/ BeginRefused
  \/ \E d \in 0 .. Ports : BeginPorts(d) \/ BeginContinued(d) \/ BeginHeld(d) \/ BeginBroken(d)
  \/ SkipPort \/ EmitPort \/ EmitOrigin \/ Publish \/ Finalize
  \/ ArchivePage
  \/ ReadSlots \/ StoreHead

MotorSpec == MotorInit /\ [][MotorNext]_motorVars

-----------------------------------------------------------------------------
(* Properties.                                                             *)

MotorTypeOK ==
  /\ motor \in [step: {"idle", "ports", "publish", "finalize"}, tick: Nat, port: 1 .. Ports + 1,
                base: Nat, staged: Seq(MotorEvent), driven: 0 .. Ports]
  /\ egress.head \in Nat /\ egress.tail \in Nat
  /\ page.records \in Seq(MotorEvent) /\ client.got \in Seq(MotorEvent)

Tickets(rows) == [i \in DOMAIN rows |-> rows[i].ticket]

\* The client hears every published event once and in order, whatever it reads
\* while the kernel fills the ring: the tickets it has read are a prefix of those
\* published.  What the events say is the matter of the next two properties.
ReadInOrder == IsPrefix(Tickets(client.got), Tickets(published))

\* Between epochs the four accounts of an unread event agree on its word: the
\* slot the client will read, the ticket its return is settled against, the
\* record in the page and the efference copy.
AccountsAgree ==
  motor.step = "idle" =>
    \A c \in egress.head .. egress.tail - 1 :
      LET e == egress.slots[c % EgressRing][1] IN
      /\ words[e.ticket] = e.word
      /\ \A i \in DOMAIN page.records : page.records[i].ticket = e.ticket => page.records[i] = e
      /\ \E i \in DOMAIN efference : efference[i] = e

\* Every ticket has its one efference copy, and no copy is overwritten: nobody
\* drains that ring, and a full one stops the motor instead.
CopiesMatch ==
  /\ Len(efference) <= EfferenceRing
  /\ Tickets(efference) = [t \in DOMAIN words |-> t]

\* What the page says was folded into its root: a sealed page between epochs can
\* be moved out ("immutable bytes", 08_direct_adult_runtime_causality.md).
SealedPageFolds ==
  motor.step = "idle" /\ page.sealed => page.root = page.records

=============================================================================
