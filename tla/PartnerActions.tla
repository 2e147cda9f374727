----------------------------- MODULE PartnerActions -----------------------------
(***************************************************************************)
(* The tickets under which an adult waits for what a partner makes of its  *)
(* public actions (reference_language_mastery_adult_v1.py), and the rows    *)
(* that the joint-attention memory keeps for the same tickets              *)
(* (reference_consequence_qualified_joint_attention_memory_v1.py), under    *)
(* the processes that drive both, save them on the way out and restore     *)
(* them (reference_embodied_multimodal_process_v1.py and the terminals).    *)
(*                                                                         *)
(* An action chosen toward a partner gets a ticket.  The next occurrence   *)
(* moves it to a bounded bank, where it waits for its return or for its    *)
(* end of life.  A reply that closes an inquiry may stage a structural     *)
(* role, whose evidence the same return settles.                           *)
(*                                                                         *)
(* A selection is an input: whichever program credit would let win, or     *)
(* none.  The handlers select once an occurrence.                          *)
(***************************************************************************)
EXTENDS Integers, Functions, FiniteSets

CONSTANTS
  Partner,     \* partner contexts
  Program,     \* programs, positive numbers
  BankSize,    \* MAX_PENDING_PARTNER_ACTIONS
  JointSize,   \* MAX_PENDING_JOINT_EPISODES
  TicketLife,  \* PARTNER_ACTION_TTL
  MaxTickets,  \* bound on the tickets minted
  MaxTurns     \* bound on the adult's tick

ASSUME PartnerAssumption ==
  /\ Partner \subseteq Nat \ {0} /\ Program \subseteq Nat \ {0}
  /\ {BankSize, JointSize, TicketLife, MaxTickets, MaxTurns} \subseteq Nat

VARIABLES
  adult,    \* the adult's occurrence, bank and credit
  joint,    \* pending of the memory: [ticket -> response and partner]
  stored,   \* the checkpoint on disk
  running   \* a process runs the adult

partnerVars == <<adult, joint, stored, running>>

Ticket == 1 .. MaxTickets

\* role: <<>>, or what a reply staged (of: the ticket its action would have);
\* action: <<>>, or the current choice; returns, roleReturns: credit by ticket.
Fresh == [tick |-> 1, partner |-> 0, inquiry |-> "none", role |-> <<>>,
          ticket |-> 0, action |-> <<>>, next |-> 1, bank |-> <<>>,
          returns |-> [t \in Ticket |-> 0], roleReturns |-> [t \in Ticket |-> 0]]

PartnerInit ==
  /\ adult = Fresh /\ joint = <<>>
  /\ stored = [adult |-> Fresh, joint |-> <<>>]
  /\ running = TRUE

Only(f, S) == Restrict(f, S \intersect DOMAIN f)

With(f, t, row) == [u \in DOMAIN f \union {t} |-> IF u = t THEN row ELSE f[u]]

-----------------------------------------------------------------------------
(* The adult.                                                              *)

\* _expire_partner_action_tickets.
Aged(m) ==
  [m EXCEPT !.bank = Only(@, {t \in DOMAIN m.bank :
                                m.tick <= TicketLife \/ m.bank[t].born > m.tick - TicketLife})]

\* The row of the current action, with the role its reply staged.
Row(m) ==
  [program |-> m.action.program, partner |-> m.action.partner, born |-> m.tick,
   of |-> IF m.role # <<>> /\ m.role.program = m.action.program
               /\ m.role.partner = m.action.partner
          THEN m.role.of ELSE 0]

\* Mutant of Parked: a full bank makes room by dropping its oldest row.
ParkedEvicting(m) ==
  IF m.ticket = 0 \/ m.action = <<>> THEN m.bank
  ELSE With(IF Cardinality(DOMAIN m.bank) < BankSize THEN m.bank
            ELSE Only(m.bank, {t \in DOMAIN m.bank : \E u \in DOMAIN m.bank : u < t}),
            m.ticket, Row(m))

\* The current action waits on in the bank, if there is room.
Parked(m) ==
  IF m.ticket # 0 /\ m.action # <<>> /\ Cardinality(DOMAIN m.bank) < BankSize
  THEN With(m.bank, m.ticket, Row(m)) ELSE m.bank

\* Mutant of Ended: the ticket of the ended occurrence stays.
EndedWithTicket(m) ==
  LET e == Aged(m) IN
  [e EXCEPT !.bank = Parked(e), !.role = <<>>, !.action = <<>>,
            !.partner = 0, !.inquiry = "none"]

\* _clear_current_occurrence.
Ended(m) ==
  LET e == Aged(m) IN
  [e EXCEPT !.bank = Parked(e), !.role = <<>>, !.ticket = 0, !.action = <<>>,
            !.partner = 0, !.inquiry = "none"]

\* Mutant of Minted: an action for which the bank has no room gets no number.
MintedIfRoom(m) ==
  [m EXCEPT !.ticket = m.next,
            !.next = IF Cardinality(DOMAIN m.bank) < BankSize THEN @ + 1 ELSE @]

\* _mint_partner_action_ticket.
Minted(m) == [m EXCEPT !.ticket = m.next, !.next = @ + 1]

\* choose, toward a partner: p wins, or nothing does.
Selected(m, p) ==
  IF p = 0 THEN m
  ELSE LET n == IF m.ticket = 0 THEN Minted(Aged(m)) ELSE m IN
       [n EXCEPT !.action = [program |-> p, partner |-> m.partner],
                 !.role = IF @ # <<>> /\ @.partner = m.partner /\ @.program = 0
                          THEN [@ EXCEPT !.program = p] ELSE @]

Counted(f, t) == IF t \in DOMAIN f THEN [f EXCEPT ![t] = @ + 1] ELSE f

\* experience_partner_choice for the current occurrence.
Attached(m, p) ==
  LET roled == m.role # <<>> /\ m.role.program = p
      acted == m.action # <<>> /\ m.action.program = p IN
  [m EXCEPT !.tick = @ + 1,
            !.returns = IF acted THEN Counted(@, m.ticket) ELSE @,
            !.roleReturns = IF roled THEN Counted(@, m.role.of) ELSE @,
            !.role = IF roled THEN <<>> ELSE @,
            !.ticket = IF roled \/ acted THEN 0 ELSE @,
            !.action = IF acted THEN <<>> ELSE @]

\* Mutant of Taken: the row of a settled ticket stays.
TakenTwice(m, t) == m.bank

Taken(m, t) == Only(m.bank, DOMAIN m.bank \ {t})

\* experience_partner_choice for a ticket of the bank; it is there and its own.
Delayed(m, t) ==
  [m EXCEPT !.tick = @ + 1, !.bank = Taken(m, t),
            !.returns = Counted(@, t),
            !.roleReturns = Counted(@, m.bank[t].of)]

\* respond: the clock moves unless the event names its source.
Moment(m) == {m, [m EXCEPT !.tick = @ + 1]}

\* The clock has room, and so has the counter of tickets if p wins.
Open(p) == running /\ adult.tick < MaxTurns /\ (p # 0 => adult.next <= MaxTickets)

-----------------------------------------------------------------------------
(* What the processes hear.                                                *)

\* An utterance that opens a situation without partner, or an inquiry.
Utterance(inquiry) ==
  /\ Open(0) /\ adult.inquiry # "expressed"
  /\ \E m \in Moment(adult) : adult' = [Ended(m) EXCEPT !.inquiry = inquiry]
  /\ UNCHANGED <<joint, stored, running>>

\* A quiet moment: time passes, and an open inquiry may be spoken.
QuietMoment ==
  /\ Open(0)
  /\ \E i \in {adult.inquiry} \union (IF adult.inquiry = "open" THEN {"expressed"} ELSE {}) :
       adult' = [adult EXCEPT !.tick = @ + 1, !.inquiry = i]
  /\ UNCHANGED <<joint, stored, running>>

\* The reply that closes an expressed inquiry, and the choice that follows it:
\* _settle_language_reply, _stage_span_reply_roles, choose.
Reply(c, roled, p) ==
  /\ Open(p) /\ adult.inquiry = "expressed"
  /\ \E m \in Moment(adult) :
       adult' = Selected([m EXCEPT !.inquiry = "none", !.partner = c,
                                 !.role = IF roled /\ @ = <<>>
                                          THEN [partner |-> c, program |-> 0, of |-> m.next]
                                          ELSE @], p)
  /\ UNCHANGED <<joint, stored, running>>

\* A remembered joint episode: a situation with its partner, and a choice.
Remembered(c, p) ==
  /\ Open(p)
  /\ \E m \in Moment(adult) : adult' = Selected([Ended(m) EXCEPT !.partner = c], p)
  /\ UNCHANGED <<joint, stored, running>>

\* stage: a joint episode is shown, and the choice that answers it is kept.
Stage(c, p) ==
  /\ Open(p) /\ Cardinality(DOMAIN joint) < JointSize
  /\ adult' = Selected([Ended(adult) EXCEPT !.partner = c], p)
  /\ joint' = IF p = 0 THEN joint
              ELSE With(joint, adult'.ticket, [response |-> p, partner |-> c])
  /\ UNCHANGED <<stored, running>>

\* synchronize_pending.
Synchronized(j, m) == Only(j, DOMAIN m.bank \union {m.ticket})

\* The call of experience_partner_choice that no memory stands behind.
PartnerReturns(t, p) ==
  /\ Open(0)
  /\ IF t = 0 THEN /\ adult.partner # 0 /\ adult' = Attached(adult, p)
     ELSE LET m == Aged(adult) IN
          IF t \in DOMAIN m.bank /\ m.bank[t].program = p
          THEN adult' = Delayed(m, t) ELSE adult' = m
  /\ UNCHANGED <<joint, stored, running>>

\* A return event for a joint episode, settle_partner_return included.
JointReturns(t, p) ==
  /\ Open(0)
  /\ LET j == Synchronized(joint, adult)
         m == Aged(adult) IN
     /\ t \in DOMAIN j /\ j[t].response = p
     /\ \/ /\ t \in DOMAIN m.bank /\ m.bank[t].program = p
           /\ adult' = Delayed(m, t) /\ joint' = Only(j, DOMAIN j \ {t})
        \/ /\ t \notin DOMAIN adult.bank
           /\ adult.ticket = t /\ adult.partner = j[t].partner
           /\ adult' = Attached(adult, p) /\ joint' = Only(j, DOMAIN j \ {t})
  /\ UNCHANGED <<stored, running>>

-----------------------------------------------------------------------------
(* The checkpoint.                                                         *)

\* The end of input, an interrupt, or an event that raises: the last thing the
\* process does is to save.  A raised return has aged the bank.
Leave ==
  /\ running /\ running' = FALSE
  /\ adult' \in {adult, Aged(adult)}
  /\ joint' = Synchronized(joint, adult')
  /\ stored' = [adult |-> adult', joint |-> joint']

\* The process is killed: what it lived since the last save is gone.
KillProcess ==
  /\ running /\ running' = FALSE
  /\ adult' = stored.adult /\ joint' = stored.joint
  /\ UNCHANGED stored

\* What restore demands of a checkpoint, without the role's choice.
TicketsRestorable(m) ==
  /\ (m.ticket # 0) = (m.action # <<>>)
  /\ m.ticket < m.next
  /\ m.role # <<>> /\ m.action # <<>> =>
       m.role.partner = m.action.partner /\ m.role.program = m.action.program
  /\ \A t \in DOMAIN m.bank : t < m.next /\ t # m.ticket /\ m.bank[t].born > 0
  /\ Cardinality(DOMAIN m.bank) <= BankSize
  /\ m.inquiry = "none" \/ (m.role = <<>> /\ m.action = <<>>)

RoleRestorable(m) == m.role # <<>> => m.role.program # 0

\* restore: the partner comes back with the role or the action, no situation does.
Reopened(m) ==
  [m EXCEPT !.partner = IF m.role # <<>> THEN m.role.partner
                        ELSE IF m.action # <<>> THEN m.action.partner ELSE 0]

ReopenProcess ==
  /\ ~running /\ running' = TRUE
  /\ TicketsRestorable(stored.adult) /\ RoleRestorable(stored.adult)
  /\ adult' = Reopened(stored.adult)
  /\ joint' = Synchronized(stored.joint, stored.adult)
  /\ UNCHANGED stored

PartnerNext ==
  \/ Utterance("none") \/ Utterance("open")
  \/ QuietMoment
  \/ \E c \in Partner, p \in Program \union {0} :
       \/ \E roled \in BOOLEAN : Reply(c, roled, p)
       \/ Remembered(c, p)
       \/ Stage(c, p)
  \/ \E t \in Ticket \union {0}, p \in Program : PartnerReturns(t, p)
  \/ \E t \in Ticket, p \in Program : JointReturns(t, p)
  \/ Leave \/ KillProcess \/ ReopenProcess

PartnerSpec == PartnerInit /\ [][PartnerNext]_partnerVars

-----------------------------------------------------------------------------
(* Properties.                                                             *)

\* A row of the joint-attention memory and the adult's own record of the same
\* ticket name the same program and partner, whatever was parked, dropped, aged,
\* settled behind the memory's back, saved or lost in between: a return for the
\* one can not credit another action.
OwnedAsSpoken ==
  \A t \in DOMAIN joint :
    /\ t \in DOMAIN adult.bank =>
         /\ adult.bank[t].program = joint[t].response
         /\ adult.bank[t].partner = joint[t].partner
    /\ t = adult.ticket =>
         adult.action = [program |-> joint[t].response, partner |-> joint[t].partner]

\* A ticket is credited with one return at most, and so is the role of its reply:
\* attached, delayed or through the memory, before or after a restart.
ReturnedOnce == \A t \in Ticket : adult.returns[t] <= 1 /\ adult.roleReturns[t] <= 1

\* An action that waits in the bank leaves it by its return or at the end of its
\* life, never for the sake of another action.
WaitsItsTurn ==
  [][running /\ running' =>
       \A t \in DOMAIN adult.bank :
         \/ t \in DOMAIN adult'.bank
         \/ adult'.returns[t] > adult.returns[t]
         \/ adult.bank[t].born + TicketLife <= adult'.tick]_partnerVars

\* The adult could be saved at any moment and restored: its tickets, bank, action
\* and inquiry agree with one another (the role's choice aside: RoleOutlivesSave).
TicketsOutliveSave == TicketsRestorable(adult)

\* A structural role outlives a checkpoint: an adult saved with a staged role is
\* one that restore takes.
RoleOutlivesSave == RoleRestorable(stored.adult)

=============================================================================
