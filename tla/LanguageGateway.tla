--------------------------- MODULE LanguageGateway ---------------------------
(***************************************************************************)
(* The gateway through which a Claude Code body talks to the reference     *)
(* Adult.  The server is an HTTPServer: one request at a time, the others  *)
(* wait in the listening socket.  A request carries the whole transcript   *)
(* of its session; the Adult keeps, per session, how many rows it has      *)
(* passed and the commitment of its own last answer, and hears only the    *)
(* rows behind that cursor.                                                *)
(*                                                                         *)
(* The client is external.  It asks, posts, gives up on a request, posts   *)
(* again or goes on asking; its transcript only grows.  Rows carry no text *)
(* here: a row is a contact of the partner or one answer of the Adult, and *)
(* an answer stands for its own commitment (a SHA-256 of its frames).      *)
(***************************************************************************)
EXTENDS Integers, Sequences, FiniteSets

CONSTANTS
  Session,          \* x-claude-code-session-id values
  Answer,           \* what the Adult may say, the silence frame included
  SourceCapacity,   \* most sessions the Adult keeps a cursor for (64 in the code)
  MaxRows,          \* bound: a client asks while its transcript is shorter
  MaxAttempts,      \* bound on the requests posted by one session
  Losses,           \* TRUE: clients give up, saves fail, the gateway crashes
  WorkBound         \* TRUE: internal work may outlast the 128 quiet opportunities

Contact == "contact"

ASSUME AnswerAssumption == Contact \notin Answer /\ "none" \notin Answer
ASSUME CapacityAssumption == SourceCapacity \in Nat \ {0}
ASSUME BoundAssumption == MaxRows \in Nat \ {0} /\ MaxAttempts \in Nat \ {0}
ASSUME LossAssumption == Losses \in BOOLEAN /\ WorkBound \in BOOLEAN

VARIABLES
  \* client
  transcript,  \* rows of each session, as the client holds them
  attempt,     \* requests each session has posted
  waiting,     \* the client still waits for the answer to its last request
  \* gateway
  backlog,     \* requests posted and not yet handled
  phase,       \* where the handler is with the head of the backlog
  mem,         \* the Life runtime: what was heard, and the cursors
  disk         \* its checkpoint

client == <<transcript, attempt, waiting>>
vars == <<client, backlog, phase, mem, disk>>

Request == [session: Session, rows: Nat, attempt: Nat]
Cursor  == [sequence: Nat, reafference: Answer \cup {"none"}]
Fates   == {"settled", "refused"}
Life    == [heard:  Seq([session: Session, row: Nat, fate: Fates]),
            cursor: [Session -> Cursor]]

TypeOK ==
  /\ transcript \in [Session -> Seq(Answer \cup {Contact})]
  /\ attempt \in [Session -> Nat] /\ waiting \in [Session -> BOOLEAN]
  /\ backlog \in Seq(Request)
  /\ phase \in {"idle", "settled", "saved"}
  /\ phase # "idle" => backlog # <<>>
  /\ mem \in Life /\ disk \in Life

Newborn == [heard  |-> <<>>,
            cursor |-> [s \in Session |-> [sequence |-> 0, reafference |-> "none"]]]

Init ==
  /\ transcript = [s \in Session |-> <<>>]
  /\ attempt = [s \in Session |-> 0] /\ waiting = [s \in Session |-> FALSE]
  /\ backlog = <<>> /\ phase = "idle"
  /\ mem = Newborn /\ disk = Newborn

-----------------------------------------------------------------------------
(* The client.                                                              *)

Ask(s) ==
  /\ ~waiting[s] /\ Len(transcript[s]) < MaxRows
  /\ transcript' = [transcript EXCEPT ![s] = Append(@, Contact)]
  /\ UNCHANGED <<attempt, waiting, backlog, phase, mem, disk>>

Unanswered(s) == transcript[s] # <<>> /\ transcript[s][Len(transcript[s])] = Contact

Post(s) ==
  /\ ~waiting[s] /\ Unanswered(s) /\ attempt[s] < MaxAttempts
  /\ attempt' = [attempt EXCEPT ![s] = @ + 1]
  /\ waiting' = [waiting EXCEPT ![s] = TRUE]
  /\ backlog' = Append(backlog, [session |-> s, rows |-> Len(transcript[s]),
                                 attempt |-> attempt[s] + 1])
  /\ UNCHANGED <<transcript, phase, mem, disk>>

GiveUp(s) ==
  /\ Losses /\ waiting[s]
  /\ waiting' = [waiting EXCEPT ![s] = FALSE]
  /\ UNCHANGED <<transcript, attempt, backlog, phase, mem, disk>>

-----------------------------------------------------------------------------
(* The handler.                                                             *)

Row(r, i) == transcript[r.session][i]

FirstNew(r) ==
  LET passed == mem.cursor[r.session].sequence
  IN  IF passed = 0 THEN 1 ELSE passed + 2

\* Mutant of Accepts: any suffix of contacts will do, whatever precedes it.
AcceptsUnwitnessed(r) ==
  /\ mem.cursor[r.session].sequence < r.rows
  /\ \E i \in FirstNew(r) .. r.rows : Row(r, i) = Contact

\* claude_contact_event: a suffix must be left, it must begin with the Adult's
\* own last answer, and be followed by contacts alone, at least one.
Accepts(r) ==
  LET seen == mem.cursor[r.session] IN
  /\ seen.sequence < r.rows
  /\ seen.sequence > 0 => Row(r, seen.sequence + 1) = seen.reafference
  /\ FirstNew(r) <= r.rows
  /\ \A i \in FirstNew(r) .. r.rows : Row(r, i) = Contact

\* resident_contact: every new contact, in order.  The fate is a history: it
\* says what became of the request the contact was heard in.
Hear(r, fate) ==
  mem.heard \o [i \in 1 .. r.rows - FirstNew(r) + 1 |->
                  [session |-> r.session, row |-> FirstNew(r) + i - 1, fate |-> fate]]

Known == {s \in Session : mem.cursor[s].sequence > 0}

HasRoom(s) == s \in Known \/ Cardinality(Known) < SourceCapacity

Waits(r) == waiting[r.session] /\ attempt[r.session] = r.attempt

\* Mutant of Close: the handler forgets that it is idle again.
CloseBusy(r) ==
  /\ backlog' = Tail(backlog)
  /\ waiting' = [waiting EXCEPT ![r.session] = @ /\ ~Waits(r)]
  /\ phase' = phase

\* The request leaves the server; a client that still waits for it learns so.
Close(r) ==
  /\ backlog' = Tail(backlog)
  /\ waiting' = [waiting EXCEPT ![r.session] = @ /\ ~Waits(r)]
  /\ phase' = "idle"

\* A 422 before the Adult was touched.
Refuse ==
  LET r == Head(backlog) IN
  /\ phase = "idle" /\ backlog # <<>> /\ ~Accepts(r)
  /\ Close(r)
  /\ UNCHANGED <<transcript, attempt, mem, disk>>

\* A 422 after the contact was heard: body:resident_work_bound, or
\* adult:body_source_capacity from settle_body_ingress.  Nothing is undone,
\* nothing is saved, and the cursor stays where it was.
RefuseLate ==
  LET r == Head(backlog) IN
  /\ phase = "idle" /\ backlog # <<>> /\ Accepts(r)
  /\ WorkBound \/ ~HasRoom(r.session)
  /\ mem' = [mem EXCEPT !.heard = Hear(r, "refused")]
  /\ Close(r)
  /\ UNCHANGED <<transcript, attempt, disk>>

\* Mutant of Settle: the cursor also counts the answer not yet in the transcript.
SettlePastAnswer(a) ==
  LET r == Head(backlog) IN
  /\ phase = "idle" /\ backlog # <<>> /\ Accepts(r) /\ HasRoom(r.session)
  /\ mem' = [heard  |-> Hear(r, "settled"),
             cursor |-> [mem.cursor EXCEPT ![r.session] =
                           [sequence |-> r.rows + 1, reafference |-> a]]]
  /\ phase' = "settled"
  /\ UNCHANGED <<client, backlog, disk>>

\* The contact is heard, the Adult answers (or is silent), and its cursor for
\* the session moves to the end of the transcript it was shown.
Settle(a) ==
  LET r == Head(backlog) IN
  /\ phase = "idle" /\ backlog # <<>> /\ Accepts(r) /\ HasRoom(r.session)
  /\ mem' = [heard  |-> Hear(r, "settled"),
             cursor |-> [mem.cursor EXCEPT ![r.session] =
                           [sequence |-> r.rows, reafference |-> a]]]
  /\ phase' = "settled"
  /\ UNCHANGED <<client, backlog, disk>>

\* Mutant of Save: the answer is sent without waiting for the checkpoint.
SaveSkipped ==
  /\ phase = "settled"
  /\ phase' = "saved"
  /\ UNCHANGED <<client, backlog, mem, disk>>

\* Mutant of Save: the checkpoint leaves out the body cursors.
SaveCursorless ==
  /\ phase = "settled"
  /\ disk' = [mem EXCEPT !.cursor = disk.cursor] /\ phase' = "saved"
  /\ UNCHANGED <<client, backlog, mem>>

\* save_runtime: the whole runtime, by an atomic replacement.
Save ==
  /\ phase = "settled"
  /\ disk' = mem /\ phase' = "saved"
  /\ UNCHANGED <<client, backlog, mem>>

\* An OSError of save_runtime is not among the refusals do_POST catches: the
\* connection closes without a response, and the runtime stays as settled.
SaveFails ==
  /\ Losses /\ phase = "settled"
  /\ Close(Head(backlog))
  /\ UNCHANGED <<transcript, attempt, mem, disk>>

Reply ==
  LET r == Head(backlog) IN
  /\ phase = "saved"
  /\ transcript' = IF Waits(r)
       THEN [transcript EXCEPT ![r.session] =
               Append(@, mem.cursor[r.session].reafference)]
       ELSE transcript
  /\ Close(r)
  /\ UNCHANGED <<attempt, mem, disk>>

\* An ambient pump, or a contact without a session, saves the same runtime --
\* with whatever refused requests have left in it.
OtherRequest ==
  /\ phase = "idle"
  /\ disk' = mem
  /\ UNCHANGED <<client, backlog, phase, mem>>

\* The process ends and is started again from its checkpoint.  Every open
\* connection is lost.
Crash ==
  /\ Losses
  /\ mem' = disk /\ backlog' = <<>> /\ phase' = "idle"
  /\ waiting' = [s \in Session |-> FALSE]
  /\ UNCHANGED <<transcript, attempt, disk>>

HandlerStep ==
  \/ Refuse \/ RefuseLate
  \/ \E a \in Answer : Settle(a)
  \/ Save \/ Reply

Next ==
  \/ \E s \in Session : Ask(s) \/ Post(s) \/ GiveUp(s)
  \/ HandlerStep \/ SaveFails \/ OtherRequest \/ Crash

Spec == Init /\ [][Next]_vars

\* serve_forever handles what has been posted; clients owe nothing.
FairSpec == Spec /\ WF_vars(HandlerStep)

-----------------------------------------------------------------------------
(* Correctness.                                                             *)

\* However often the client posts the same rows, and whatever is lost on the
\* way, the Adult hears the contacts of a session in their order and none again
\* once it has settled a request with them; only a refused hearing is repeated.
SettledOnceInOrder ==
  \A i, j \in 1 .. Len(mem.heard) :
    i < j /\ mem.heard[i].session = mem.heard[j].session
      => mem.heard[i].row < mem.heard[j].row \/ mem.heard[i].fate = "refused"

\* No contact reaches the Adult twice: when a body "replays its earlier wire
\* rows on resume", the cursor "admits only the source-authenticated suffix"
\* (reference_agi_chat_session_verify.py).
HeardOnce ==
  \A i, j \in 1 .. Len(mem.heard) :
    i < j /\ mem.heard[i].session = mem.heard[j].session
      => mem.heard[i].row # mem.heard[j].row

\* A cursor never passes a contact the Adult has not heard: what the durable
\* runtime will refuse to hear again, it remembers hearing.
PassedIsHeard ==
  \A s \in Session : \A i \in 1 .. disk.cursor[s].sequence :
    transcript[s][i] = Contact =>
      \E k \in 1 .. Len(disk.heard) :
        disk.heard[k] = [session |-> s, row |-> i, fate |-> "settled"]

\* An answer the client holds outlives any crash: the checkpoint has passed the
\* contact it answers, and if it was the last, expects exactly this answer back.
DeliveredIsDurable ==
  \A s \in Session : \A i \in 2 .. Len(transcript[s]) :
    transcript[s][i] # Contact =>
      \/ disk.cursor[s].sequence >= i
      \/ disk.cursor[s] = [sequence |-> i - 1, reafference |-> transcript[s][i]]

\* Without losses a conversation never gets stuck: what a session posts is
\* answered, whatever the other sessions do.
PostedIsAnswered ==
  \A s \in Session : waiting[s] ~> ~Unanswered(s)

=============================================================================
