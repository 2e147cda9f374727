-------------------------- MODULE PublicDirectGateway --------------------------
(***************************************************************************)
(* public_direct_adult_gateway.py: one HTTP request at a time carries the  *)
(* client's whole transcript; what the session has not seen yet must be    *)
(* one contact, and is written to the direct adult.  The adult's motor     *)
(* events come back on a pipe; a thread of their own (_pump_motors) joins   *)
(* those of one trajectory into a surface and queues it for whichever       *)
(* request waits next.  A request that waits too long is answered silence. *)
(*                                                                         *)
(* A transcript is its length: contact n is the n-th.  Clients that rewrite *)
(* their transcript are refused and left out.  The adult is a choice: when *)
(* it begins a trajectory, and whether it emits an event of none.          *)
(***************************************************************************)
EXTENDS Integers, Sequences

CONSTANTS
  Turns,    \* bound on the transcript: how many contacts the client has
  Surfaces, \* bound on the trajectories of the adult
  SurfaceBytes \* extent: events of a trajectory, one byte each

ASSUME GatewayAssumption == Turns \in Nat /\ Surfaces \in Nat /\ SurfaceBytes \in Nat \ {0}

VARIABLES
  said,      \* contacts in the client's transcript
  boundary,  \* SessionBoundary: contacts the session has seen
  waiting,   \* the contact whose request waits for an answer, or 0
  delivered, \* contacts written to the adult, in order
  emitting,  \* the adult: trajectory and the cursor of its last event
  wire,      \* motor lines not read yet
  surface,   \* _accept_motor: active_trajectory, next_cursor and the bytes so far
  outputs,   \* queued surfaces, or <<>> for an error
  pumping,   \* the thread runs
  answers    \* sequence of [contact, surface]: <<>> for silence

gatewayVars == <<said, boundary, waiting, delivered, emitting, wire, surface, outputs, pumping, answers>>
adultVars   == <<emitting, wire, surface, pumping>>

Empty == [active |-> 0, next |-> 0, bytes |-> <<>>]

GatewayInit ==
  /\ said = 0 /\ boundary = 0 /\ waiting = 0 /\ delivered = <<>>
  /\ emitting = [trajectory |-> 0, cursor |-> SurfaceBytes - 1] /\ wire = <<>>
  /\ surface = Empty /\ outputs = <<>> /\ pumping = TRUE /\ answers = <<>>

\* The client goes on; a turn may hold two contacts.
Speak(n) ==
  /\ waiting = 0 /\ said + n <= Turns
  /\ said' = said + n
  /\ UNCHANGED <<boundary, waiting, delivered, outputs, answers, adultVars>>

\* Mutant of Seen: a request that is refused later leaves the session as it was.
SeenIfAnswered(n) == boundary

\* The session has seen the first n contacts once a request that held them was
\* parsed, whatever becomes of it.
Seen(n) == n

\* do_POST: suffix moves the boundary before the contacts are counted.
PostContact ==
  /\ waiting = 0 /\ said = boundary + 1
  /\ boundary' = Seen(said)
  /\ delivered' = Append(delivered, said) /\ waiting' = said
  /\ UNCHANGED <<said, outputs, answers, adultVars>>

\* one_contact_at_a_time: refused, and never delivered.
PostMany ==
  /\ waiting = 0 /\ said > boundary + 1
  /\ boundary' = Seen(said)
  /\ UNCHANGED <<said, waiting, delivered, outputs, answers, adultVars>>

\* contact: the oldest surface, whichever contact it answers.
Answer ==
  /\ waiting # 0 /\ outputs # <<>>
  /\ answers' = IF Head(outputs) = <<>> THEN answers
                ELSE Append(answers, [contact |-> waiting, surface |-> Head(outputs)])
  /\ outputs' = Tail(outputs) /\ waiting' = 0
  /\ UNCHANGED <<said, boundary, delivered, adultVars>>

AnswerSilence ==
  /\ waiting # 0 /\ outputs = <<>>
  /\ answers' = Append(answers, [contact |-> waiting, surface |-> <<>>])
  /\ waiting' = 0
  /\ UNCHANGED <<said, boundary, delivered, outputs, adultVars>>

-----------------------------------------------------------------------------
(* The adult and the pump.                                                 *)

Emit(next) ==
  /\ emitting' = next
  /\ wire' = Append(wire, next)
  /\ UNCHANGED <<said, boundary, waiting, delivered, surface, outputs, pumping, answers>>

\* A trajectory begins; one before it may have been refused half way.
EmitFirst ==
  /\ delivered # <<>> /\ emitting.trajectory < Surfaces
  /\ Emit([trajectory |-> emitting.trajectory + 1, cursor |-> 0])

EmitNext ==
  /\ emitting.cursor < SurfaceBytes - 1
  /\ Emit([emitting EXCEPT !.cursor = @ + 1])

\* An action that began no trajectory; one at a time on the wire.
EmitStray ==
  /\ delivered # <<>> /\ 0 \notin {wire[i].trajectory : i \in DOMAIN wire} /\ pumping
  /\ wire' = Append(wire, [trajectory |-> 0, cursor |-> 0])
  /\ UNCHANGED <<said, boundary, waiting, delivered, emitting, surface, outputs, pumping, answers>>

\* Mutant of Fits: a trajectory may begin while another is unfinished.
FitsAnyFirst(m) ==
  m.trajectory # 0 /\ (m.cursor = 0 \/ m = [trajectory |-> surface.active, cursor |-> surface.next])

Fits(m) ==
  /\ m.trajectory # 0
  /\ IF surface.active = 0 THEN m.cursor = 0
     ELSE m = [trajectory |-> surface.active, cursor |-> surface.next]

PumpMotor ==
  LET m == Head(wire)  bytes == Append(surface.bytes, m) IN
  /\ pumping /\ wire # <<>> /\ Fits(m)
  /\ IF m.cursor = SurfaceBytes - 1
     THEN outputs' = Append(outputs, bytes) /\ surface' = Empty
     ELSE /\ surface' = [active |-> m.trajectory, next |-> m.cursor + 1, bytes |-> bytes]
          /\ UNCHANGED outputs
  /\ wire' = Tail(wire)
  /\ UNCHANGED <<said, boundary, waiting, delivered, emitting, pumping, answers>>

\* A frame that does not fit ends the thread; its error is one answer.
PumpFails ==
  /\ pumping /\ wire # <<>> /\ ~Fits(Head(wire))
  /\ outputs' = Append(outputs, <<>>) /\ pumping' = FALSE
  /\ wire' = Tail(wire)
  /\ UNCHANGED <<said, boundary, waiting, delivered, emitting, surface, answers>>

GatewayNext ==
  \/ Speak(1) \/ Speak(2) \/ PostContact \/ PostMany \/ Answer \/ AnswerSilence
  \/ EmitFirst \/ EmitNext \/ EmitStray \/ PumpMotor \/ PumpFails

GatewaySpec == GatewayInit /\ [][GatewayNext]_gatewayVars

-----------------------------------------------------------------------------
(* Properties.                                                             *)

Increasing(s) == \A i, j \in DOMAIN s : i < j => s[i] < s[j]

\* A contact is written to the adult once, however often the client sends its
\* transcript again after a refusal or an error.
DeliveredOnce == Increasing(delivered)

\* The answers other than silence are whole trajectories of the adult, each at
\* most once and in the order it lived them, whoever waited for which and
\* whatever the adult broke off.
WholeSurfaces ==
  LET Spoken        == {i \in DOMAIN answers : answers[i].surface # <<>>}
      trajectory(i) == answers[i].surface[1].trajectory
  IN  /\ \A i \in Spoken : answers[i].surface =
           [b \in 1 .. SurfaceBytes |-> [trajectory |-> trajectory(i), cursor |-> b - 1]]
      /\ \A i, j \in Spoken : i < j => trajectory(i) < trajectory(j)

=============================================================================
