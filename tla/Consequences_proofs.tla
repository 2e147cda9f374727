------------------------- MODULE Consequences_proofs -------------------------
(* Theorems about the two memories that give credit for what the adult did:     *)
(* PartnerActions, for every set of partners and programs, every size of the    *)
(* banks, life of a ticket and bound, and however often the adult is saved,     *)
(* killed and reopened; DialogueReceipts, for every set of sessions and         *)
(* surfaces, every size of the banks and bound on the acts.                     *)
EXTENDS PartnerActions, DialogueReceipts, FiniteSetTheorems, TLAPS

-----------------------------------------------------------------------------
(* PartnerActions: types.                                                       *)

Roles   == {<<>>} \union [partner: Nat, program: Nat, of: Nat]
Actions == {<<>>} \union [program: Nat \ {0}, partner: Nat]
Rows    == [program: Nat, partner: Nat, born: Nat \ {0}, of: Nat]
Banks   == UNION {[D -> Rows] : D \in SUBSET Ticket}
Counts  == [Ticket -> Nat]

Adult == [tick: Nat \ {0}, partner: Nat, inquiry: {"none", "open", "expressed"},
          role: Roles, ticket: Nat, action: Actions, next: Nat \ {0}, bank: Banks,
          returns: Counts, roleReturns: Counts]

-----------------------------------------------------------------------------
(* What an adult, the living one or the saved one, owes its tickets.            *)

\* A role that a program was chosen for credits the ticket of that very choice;
\* parked, it does so still.
RoleFits(m) ==
  /\ m.role # <<>> /\ m.role.program # 0 => m.action # <<>> /\ m.role.of = m.ticket
  /\ \A t \in DOMAIN m.bank : m.bank[t].of \in {0, t}

\* A ticket that was credited is gone: it waits nowhere and is not minted again.
Unspent(m) ==
  \A t \in Ticket :
    /\ m.returns[t] <= 1 /\ m.roleReturns[t] <= 1
    /\ m.returns[t] # 0 \/ m.roleReturns[t] # 0 =>
         t < m.next /\ t \notin DOMAIN m.bank /\ t # m.ticket

Sound(m) ==
  /\ m \in Adult /\ m.next <= MaxTickets + 1
  /\ TicketsRestorable(m) /\ RoleFits(m) /\ Unspent(m)

\* The memory's rows are of tickets that were minted, and say what the adult says.
Spoken(j, m) ==
  \A t \in DOMAIN j :
    /\ t \in Nat \ {0} /\ t < m.next
    /\ t \in DOMAIN m.bank =>
         m.bank[t].program = j[t].response /\ m.bank[t].partner = j[t].partner
    /\ t = m.ticket =>
         m.action = [program |-> j[t].response, partner |-> j[t].partner]

PartnerInv ==
  /\ Sound(adult) /\ Spoken(joint, adult)
  /\ Sound(stored.adult) /\ Spoken(stored.joint, stored.adult)

\* What the adult n may have made of the tickets of the adult m: those it keeps
\* say the same, those it parks say what the action said, and a ticket of the bank
\* stays, is credited, or has reached the end of its life.
Follows(m, n) ==
  /\ m.next <= n.next /\ m.tick <= n.tick
  /\ \A t \in DOMAIN n.bank : t < m.next =>
       \/ t \in DOMAIN m.bank /\ n.bank[t] = m.bank[t]
       \/ /\ t = m.ticket /\ m.action # <<>>
          /\ n.bank[t].program = m.action.program /\ n.bank[t].partner = m.action.partner
  /\ n.ticket # 0 /\ n.ticket < m.next => n.ticket = m.ticket /\ n.action = m.action
  /\ \A t \in Ticket : m.returns[t] <= n.returns[t]
  /\ \A t \in DOMAIN m.bank :
       \/ t \in DOMAIN n.bank /\ n.bank[t].born = m.bank[t].born
       \/ n.returns[t] > m.returns[t]
       \/ m.bank[t].born + TicketLife <= n.tick

-----------------------------------------------------------------------------
(* Lemmas about banks and records.                                              *)

LEMMA OnlyKeeps ==
  ASSUME NEW f, NEW S
  PROVE  /\ DOMAIN Only(f, S) = S \intersect DOMAIN f
         /\ \A t \in S \intersect DOMAIN f : Only(f, S)[t] = f[t]
BY DEF Only, Restrict

LEMMA WithAdds ==
  ASSUME NEW f, NEW t, NEW row
  PROVE  /\ DOMAIN With(f, t, row) = DOMAIN f \union {t}
         /\ With(f, t, row)[t] = row
         /\ \A u \in DOMAIN f : u # t => With(f, t, row)[u] = f[u]
BY DEF With

LEMMA BankIs ==
  ASSUME NEW b \in Banks
  PROVE  DOMAIN b \subseteq Ticket /\ (\A t \in DOMAIN b : b[t] \in Rows)
BY DEF Banks

LEMMA BankForm ==
  ASSUME NEW D \in SUBSET Ticket, NEW b \in [D -> Rows]
  PROVE  b \in Banks
BY DEF Banks

LEMMA BankFinite ==
  ASSUME NEW b \in Banks
  PROVE  IsFiniteSet(DOMAIN b) /\ Cardinality(DOMAIN b) \in Nat
<1>1. MaxTickets \in Nat
  BY PartnerAssumption
<1>2. IsFiniteSet(1 .. MaxTickets)
  BY <1>1, FS_Interval
<1>. QED BY <1>2, BankIs, FS_Subset, FS_CardinalityType DEF Ticket

LEMMA NarrowBank ==
  ASSUME NEW b \in Banks, NEW S
  PROVE  Only(b, S) \in Banks /\ Cardinality(DOMAIN Only(b, S)) <= Cardinality(DOMAIN b)
<1>. DEFINE D == S \intersect DOMAIN b
<1>1. D \in SUBSET Ticket /\ Only(b, S) \in [D -> Rows] /\ DOMAIN Only(b, S) = D
  BY BankIs DEF Only, Restrict
<1>2. Only(b, S) \in Banks
  BY <1>1, BankForm
<1>3. Cardinality(D) <= Cardinality(DOMAIN b)
  BY BankFinite, FS_Subset
<1>. QED BY <1>1, <1>2, <1>3

LEMMA WidenBank ==
  ASSUME NEW b \in Banks, NEW t \in Ticket, NEW row \in Rows
  PROVE  /\ With(b, t, row) \in Banks
         /\ Cardinality(DOMAIN With(b, t, row)) <= Cardinality(DOMAIN b) + 1
<1>1. With(b, t, row) \in [DOMAIN b \union {t} -> Rows]
  BY BankIs DEF With
<1>2. With(b, t, row) \in Banks
  BY <1>1, BankIs, BankForm
<1>3. Cardinality(DOMAIN b \union {t}) <= Cardinality(DOMAIN b) + 1
  <2>1. IsFiniteSet(DOMAIN b) /\ Cardinality(DOMAIN b) \in Nat
    BY BankFinite
  <2>2. Cardinality(DOMAIN b \union {t}) = IF t \in DOMAIN b THEN Cardinality(DOMAIN b)
                                          ELSE Cardinality(DOMAIN b) + 1
    BY <2>1, FS_AddElement
  <2>. QED BY <2>1, <2>2
<1>. QED BY <1>2, <1>3, WithAdds

LEMMA AdultFields ==
  ASSUME NEW m \in Adult
  PROVE  /\ m.tick \in Nat \ {0} /\ m.partner \in Nat
         /\ m.inquiry \in {"none", "open", "expressed"}
         /\ m.role \in Roles /\ m.ticket \in Nat /\ m.action \in Actions
         /\ m.next \in Nat \ {0} /\ m.bank \in Banks
         /\ m.returns \in Counts /\ m.roleReturns \in Counts
BY DEF Adult

\* A staged role and a chosen action are records, not none.
LEMMA Somethings ==
  ASSUME NEW c, NEW p, NEW o
  PROVE  /\ [partner |-> c, program |-> p, of |-> o] # <<>>
         /\ [program |-> p, partner |-> c] # <<>>
<1>1. DOMAIN [partner |-> c, program |-> p, of |-> o] # {} /\ DOMAIN [program |-> p, partner |-> c] # {}
  OBVIOUS
<1>2. DOMAIN <<>> = {}
  OBVIOUS
<1>. QED BY <1>1, <1>2

LEMMA RoleIs ==
  ASSUME NEW r \in Roles, r # <<>>
  PROVE  r \in [partner: Nat, program: Nat, of: Nat]
BY DEF Roles

LEMMA ActionIs ==
  ASSUME NEW a \in Actions, a # <<>>
  PROVE  a \in [program: Nat \ {0}, partner: Nat]
BY DEF Actions

LEMMA SoundFields ==
  ASSUME NEW m, Sound(m)
  PROVE  /\ m \in Adult /\ m.next \in Nat \ {0} /\ m.tick \in Nat /\ m.ticket \in Nat
         /\ m.ticket < m.next /\ (m.ticket # 0) = (m.action # <<>>)
         /\ \A t \in Ticket : m.returns[t] \in Nat /\ m.roleReturns[t] \in Nat
         /\ DOMAIN m.bank \subseteq Ticket /\ m.bank \in Banks
         /\ \A t \in DOMAIN m.bank : m.bank[t].born \in Nat /\ t < m.next
<1>1. m \in Adult /\ m.ticket < m.next /\ (m.ticket # 0) = (m.action # <<>>)
      /\ \A t \in DOMAIN m.bank : t < m.next
  BY DEF Sound, TicketsRestorable
<1>2. m.returns \in Counts /\ m.roleReturns \in Counts /\ m.bank \in Banks
      /\ m.next \in Nat \ {0} /\ m.tick \in Nat /\ m.ticket \in Nat
  BY <1>1, AdultFields
<1>3. \A t \in Ticket : m.returns[t] \in Nat /\ m.roleReturns[t] \in Nat
  BY <1>2 DEF Counts
<1>4. DOMAIN m.bank \subseteq Ticket /\ \A t \in DOMAIN m.bank : m.bank[t].born \in Nat
  BY <1>2, BankIs DEF Rows
<1>. QED BY <1>1, <1>2, <1>3, <1>4

LEMMA TicketsNumber == Ticket \subseteq Nat \ {0}
BY DEF Ticket

\* The ticket of an adult with a choice is one of the tickets.
LEMMA CurrentTicket ==
  ASSUME NEW m, Sound(m), m.ticket # 0
  PROVE  m.ticket \in Ticket
BY PartnerAssumption, AdultFields DEF Sound, TicketsRestorable, Ticket

-----------------------------------------------------------------------------
(* Lemmas about what follows.                                                   *)

LEMMA FollowsItself ==
  ASSUME NEW m, Sound(m)
  PROVE  Follows(m, m)
BY AdultFields DEF Sound, Follows, Counts

LEMMA FollowsOn ==
  ASSUME NEW l, NEW m, NEW n, Sound(l), Sound(m), Sound(n), Follows(l, m), Follows(m, n)
  PROVE  Follows(l, n)
<1>2. /\ l.next \in Nat /\ m.next \in Nat /\ n.next \in Nat
      /\ l.tick \in Nat /\ m.tick \in Nat /\ n.tick \in Nat
      /\ l.ticket \in Nat /\ m.ticket \in Nat /\ n.ticket \in Nat
      /\ \A t \in Ticket : l.returns[t] \in Nat /\ m.returns[t] \in Nat /\ n.returns[t] \in Nat
      /\ DOMAIN l.bank \subseteq Ticket /\ DOMAIN m.bank \subseteq Ticket
      /\ DOMAIN n.bank \subseteq Ticket
      /\ \A t \in DOMAIN l.bank : l.bank[t].born \in Nat
      /\ Ticket \subseteq Nat \ {0}
      /\ m.ticket < m.next /\ (m.ticket # 0) = (m.action # <<>>)
  BY SoundFields, TicketsNumber
<1>3. l.next <= n.next /\ l.tick <= n.tick
  BY <1>2 DEF Follows
<1>4. ASSUME NEW t \in DOMAIN n.bank, t < l.next
      PROVE  \/ t \in DOMAIN l.bank /\ n.bank[t] = l.bank[t]
             \/ /\ t = l.ticket /\ l.action # <<>>
                /\ n.bank[t].program = l.action.program /\ n.bank[t].partner = l.action.partner
  <2>1. t \in Nat \ {0} /\ t < m.next
    <3>1. t \in Nat \ {0} /\ l.next \in Nat /\ m.next \in Nat
      BY <1>2
    <3>2. l.next <= m.next
      BY DEF Follows
    <3>. QED BY ONLY <1>4, <3>1, <3>2
  <2>2. CASE t \in DOMAIN m.bank /\ n.bank[t] = m.bank[t]
    BY <1>4, <2>2 DEF Follows
  <2>3. CASE /\ t = m.ticket /\ m.action # <<>>
             /\ n.bank[t].program = m.action.program /\ n.bank[t].partner = m.action.partner
    <3>1. m.ticket = l.ticket /\ m.action = l.action
      BY <1>4, <2>1, <2>3 DEF Follows
    <3>. QED BY <2>3, <3>1
  <2>. QED BY <2>1, <2>2, <2>3 DEF Follows
<1>5. n.ticket # 0 /\ n.ticket < l.next => n.ticket = l.ticket /\ n.action = l.action
  <2>. SUFFICES ASSUME n.ticket # 0, n.ticket < l.next
                PROVE  n.ticket = l.ticket /\ n.action = l.action
    OBVIOUS
  <2>1. n.ticket < m.next
    BY <1>2 DEF Follows
  <2>2. n.ticket = m.ticket /\ n.action = m.action
    BY <2>1 DEF Follows
  <2>. QED BY <2>2 DEF Follows
<1>6. \A t \in Ticket : l.returns[t] <= n.returns[t]
  BY <1>2 DEF Follows
<1>7. ASSUME NEW t \in DOMAIN l.bank
      PROVE  \/ t \in DOMAIN n.bank /\ n.bank[t].born = l.bank[t].born
             \/ n.returns[t] > l.returns[t]
             \/ l.bank[t].born + TicketLife <= n.tick
  <2>1. t \in Ticket /\ l.bank[t].born \in Nat /\ TicketLife \in Nat
    BY <1>2, PartnerAssumption
  <2>2. l.returns[t] <= m.returns[t] /\ m.returns[t] <= n.returns[t] /\ m.tick <= n.tick
    BY <2>1 DEF Follows
  <2>3. CASE t \in DOMAIN m.bank /\ m.bank[t].born = l.bank[t].born
    <3>1. \/ t \in DOMAIN n.bank /\ n.bank[t].born = m.bank[t].born
          \/ n.returns[t] > m.returns[t]
          \/ m.bank[t].born + TicketLife <= n.tick
      BY <2>3 DEF Follows
    <3>2. l.returns[t] \in Nat /\ m.returns[t] \in Nat /\ n.returns[t] \in Nat
          /\ m.tick \in Nat /\ n.tick \in Nat
      BY <1>2, <2>1
    <3>. QED BY ONLY <2>1, <2>2, <2>3, <3>1, <3>2
  <2>4. CASE m.returns[t] > l.returns[t]
    <3>1. l.returns[t] \in Nat /\ m.returns[t] \in Nat /\ n.returns[t] \in Nat
      BY <1>2, <2>1
    <3>. QED BY ONLY <2>2, <2>4, <3>1
  <2>5. CASE l.bank[t].born + TicketLife <= m.tick
    BY <1>2, <2>1, <2>2, <2>5
  <2>. QED BY <2>3, <2>4, <2>5 DEF Follows
<1>. QED BY <1>3, <1>4, <1>5, <1>6, <1>7 DEF Follows

\* What the memory's rows say of an adult they say of the one that follows.
LEMMA SpokenOn ==
  ASSUME NEW j, NEW m, NEW n, Sound(m), Sound(n), Spoken(j, m), Follows(m, n)
  PROVE  Spoken(j, n)
<1>. SUFFICES ASSUME NEW t \in DOMAIN j
              PROVE  /\ t \in Nat \ {0} /\ t < n.next
                     /\ t \in DOMAIN n.bank =>
                          n.bank[t].program = j[t].response /\ n.bank[t].partner = j[t].partner
                     /\ t = n.ticket =>
                          n.action = [program |-> j[t].response, partner |-> j[t].partner]
  BY DEF Spoken
<1>1. t \in Nat \ {0} /\ t < m.next
  BY DEF Spoken
<1>2. m.next \in Nat /\ n.next \in Nat
  BY AdultFields DEF Sound
<1>3. t < n.next
  BY <1>1, <1>2 DEF Follows
<1>4. ASSUME t \in DOMAIN n.bank
      PROVE  n.bank[t].program = j[t].response /\ n.bank[t].partner = j[t].partner
  <2>1. CASE t \in DOMAIN m.bank /\ n.bank[t] = m.bank[t]
    BY <2>1 DEF Spoken
  <2>2. CASE /\ t = m.ticket /\ n.bank[t].program = m.action.program
             /\ n.bank[t].partner = m.action.partner
    <3>1. m.action = [program |-> j[t].response, partner |-> j[t].partner]
      BY <2>2 DEF Spoken
    <3>. QED BY <2>2, <3>1
  <2>. QED BY <1>1, <1>4, <2>1, <2>2 DEF Follows
<1>5. ASSUME t = n.ticket
      PROVE  n.action = [program |-> j[t].response, partner |-> j[t].partner]
  BY <1>1, <1>5 DEF Follows, Spoken
<1>. QED BY <1>1, <1>3, <1>4, <1>5

LEMMA SpokenOfSome ==
  ASSUME NEW j, NEW m, NEW S, Spoken(j, m)
  PROVE  Spoken(Only(j, S), m)
<1>1. \A t \in DOMAIN Only(j, S) : t \in DOMAIN j /\ Only(j, S)[t] = j[t]
  BY OnlyKeeps
<1>. HIDE DEF Only
<1>. QED BY <1>1 DEF Spoken

-----------------------------------------------------------------------------
(* PartnerActions: the operations of the adult.                                 *)

\* Only time passes, and an inquiry may be spoken.
LEMMA MomentSound ==
  ASSUME NEW m, Sound(m), NEW n \in Moment(m)
  PROVE  /\ Sound(n) /\ Follows(m, n)
         /\ n.inquiry = m.inquiry /\ n.partner = m.partner /\ n.role = m.role
         /\ n.ticket = m.ticket /\ n.action = m.action /\ n.next = m.next
<1>1. CASE n = m
  BY <1>1, FollowsItself
<1>2. CASE n = [m EXCEPT !.tick = @ + 1]
  <2>1. m \in Adult /\ m.tick + 1 \in Nat \ {0}
    BY AdultFields DEF Sound
  <2>2. n \in Adult /\ n.tick = m.tick + 1 /\ n.inquiry = m.inquiry /\ n.partner = m.partner
        /\ n.role = m.role /\ n.ticket = m.ticket /\ n.action = m.action /\ n.next = m.next
        /\ n.bank = m.bank /\ n.returns = m.returns /\ n.roleReturns = m.roleReturns
    BY <1>2, <2>1 DEF Adult
  <2>3. Sound(n)
    BY <2>2 DEF Sound, TicketsRestorable, RoleFits, Unspent
  <2>4. Follows(m, n)
    <3>1. m.tick \in Nat /\ m.next \in Nat
      BY <2>1, AdultFields
    <3>. QED BY <2>2, <3>1, FollowsItself DEF Follows
  <2>. QED BY <2>2, <2>3, <2>4
<1>. QED BY <1>1, <1>2 DEF Moment

LEMMA AgedSound ==
  ASSUME NEW m, Sound(m)
  PROVE  /\ Sound(Aged(m)) /\ Follows(m, Aged(m))
         /\ Aged(m).tick = m.tick /\ Aged(m).partner = m.partner
         /\ Aged(m).inquiry = m.inquiry /\ Aged(m).role = m.role
         /\ Aged(m).ticket = m.ticket /\ Aged(m).action = m.action
         /\ Aged(m).next = m.next /\ Aged(m).returns = m.returns
         /\ Aged(m).roleReturns = m.roleReturns
<1>. DEFINE live == {t \in DOMAIN m.bank :
                       m.tick <= TicketLife \/ m.bank[t].born > m.tick - TicketLife}
            b == Only(m.bank, live)
            n == [m EXCEPT !.bank = b]
<1>1. m \in Adult /\ m.bank \in Banks /\ m.tick \in Nat /\ m.next \in Nat
  BY AdultFields DEF Sound
<1>2. /\ b \in Banks /\ Cardinality(DOMAIN b) <= Cardinality(DOMAIN m.bank)
      /\ DOMAIN b = live /\ live \subseteq DOMAIN m.bank
      /\ \A t \in live : b[t] = m.bank[t]
  <2>1. live \subseteq DOMAIN m.bank
    OBVIOUS
  <2>. HIDE DEF live
  <2>2. DOMAIN b = live /\ \A t \in live : b[t] = m.bank[t]
    BY <2>1, OnlyKeeps
  <2>. QED BY <1>1, <2>1, <2>2, NarrowBank
<1>3. \A t \in DOMAIN m.bank : t \notin live => m.bank[t].born + TicketLife <= m.tick
  <2>. SUFFICES ASSUME NEW t \in DOMAIN m.bank, t \notin live
                PROVE  m.bank[t].born + TicketLife <= m.tick
    OBVIOUS
  <2>1. m.bank[t].born \in Nat /\ TicketLife \in Nat
    BY <1>1, BankIs, PartnerAssumption DEF Rows
  <2>. QED BY <1>1, <2>1
<1>. HIDE DEF b, live
<1>4. /\ n \in Adult /\ n.bank = b /\ n.tick = m.tick /\ n.partner = m.partner
      /\ n.inquiry = m.inquiry /\ n.role = m.role /\ n.ticket = m.ticket
      /\ n.action = m.action /\ n.next = m.next /\ n.returns = m.returns
      /\ n.roleReturns = m.roleReturns
  BY <1>1, <1>2 DEF Adult
<1>5. Aged(m) = n
  BY DEF Aged, n, b, live
<1>. HIDE DEF n
<1>6. Sound(n)
  <2>1. TicketsRestorable(n)
    <3>1. Cardinality(DOMAIN b) \in Nat /\ Cardinality(DOMAIN m.bank) \in Nat /\ BankSize \in Nat
      BY <1>1, <1>2, BankFinite, PartnerAssumption
    <3>2. Cardinality(DOMAIN b) <= BankSize
      BY <1>2, <3>1 DEF Sound, TicketsRestorable
    <3>. QED BY <1>2, <1>4, <3>2 DEF Sound, TicketsRestorable
  <2>2. RoleFits(n) /\ Unspent(n)
    BY <1>2, <1>4 DEF Sound, RoleFits, Unspent
  <2>. QED BY <1>4, <2>1, <2>2 DEF Sound
<1>7. Follows(m, n)
  <2>1. \A t \in Ticket : m.returns[t] \in Nat
    BY <1>1, AdultFields DEF Counts
  <2>. QED BY <1>1, <1>2, <1>3, <1>4, <2>1 DEF Follows
<1>. QED BY <1>4, <1>5, <1>6, <1>7

\* The current choice is parked under its ticket with the role it was chosen for,
\* if the bank has room; the occurrence ends either way.
LEMMA EndedSound ==
  ASSUME NEW m, Sound(m)
  PROVE  /\ Sound(Ended(m)) /\ Follows(m, Ended(m))
         /\ Ended(m).ticket = 0 /\ Ended(m).action = <<>> /\ Ended(m).role = <<>>
         /\ Ended(m).inquiry = "none" /\ Ended(m).next = m.next
<1>. DEFINE e == Aged(m)
            b == Parked(e)
            n == [e EXCEPT !.bank = b, !.role = <<>>, !.ticket = 0, !.action = <<>>,
                           !.partner = 0, !.inquiry = "none"]
<1>1. Sound(e) /\ Follows(m, e) /\ e.next = m.next
  BY AgedSound
<1>2. Ended(m) = n
  BY DEF Ended
<1>. HIDE DEF e
<1>3. /\ e \in Adult /\ e.bank \in Banks /\ e.tick \in Nat \ {0} /\ e.next \in Nat
      /\ e.role \in Roles /\ e.action \in Actions
      /\ Cardinality(DOMAIN e.bank) <= BankSize
  BY <1>1, AdultFields DEF Sound, TicketsRestorable
<1>4. \/ b = e.bank
      \/ /\ e.ticket \in Ticket /\ e.action # <<>> /\ b = With(e.bank, e.ticket, Row(e))
         /\ Cardinality(DOMAIN e.bank) < BankSize
  BY <1>1, CurrentTicket DEF Parked
<1>5. ASSUME e.action # <<>>
      PROVE  /\ Row(e) \in Rows /\ Row(e).of \in {0, e.ticket} /\ Row(e).born = e.tick
             /\ Row(e).program = e.action.program /\ Row(e).partner = e.action.partner
  <2>1. e.action.program \in Nat \ {0} /\ e.action.partner \in Nat
    BY <1>3, <1>5, ActionIs
  <2>. DEFINE o == IF e.role # <<>> /\ e.role.program = e.action.program
                       /\ e.role.partner = e.action.partner
                   THEN e.role.of ELSE 0
  <2>2. o \in {0, e.ticket} /\ o \in Nat
    <3>1. CASE o = 0
      BY <3>1
    <3>2. CASE o # 0
      <4>1. e.role # <<>> /\ e.role.program # 0 /\ o = e.role.of
        BY <2>1, <3>2
      <4>2. e.role.of = e.ticket
        BY <1>1, <4>1 DEF Sound, RoleFits
      <4>. QED BY <1>1, <4>1, <4>2, SoundFields
    <3>. QED BY <3>1, <3>2
  <2>3. Row(e) = [program |-> e.action.program, partner |-> e.action.partner,
                  born |-> e.tick, of |-> o]
    BY DEF Row
  <2>. HIDE DEF o
  <2>. QED BY <1>3, <2>1, <2>2, <2>3 DEF Rows
<1>6. /\ b \in Banks /\ Cardinality(DOMAIN b) <= BankSize
      /\ \A t \in DOMAIN e.bank : t \in DOMAIN b /\ (t # e.ticket => b[t] = e.bank[t])
      /\ \A t \in DOMAIN b :
           \/ t \in DOMAIN e.bank /\ b[t] = e.bank[t]
           \/ t = e.ticket /\ t \in Ticket /\ e.action # <<>> /\ b[t] = Row(e)
  <2>1. CASE b = e.bank
    BY <1>3, <2>1
  <2>2. CASE /\ e.ticket \in Ticket /\ e.action # <<>> /\ b = With(e.bank, e.ticket, Row(e))
             /\ Cardinality(DOMAIN e.bank) < BankSize
    <3>1. b \in Banks /\ Cardinality(DOMAIN b) <= Cardinality(DOMAIN e.bank) + 1
      BY <1>3, <1>5, <2>2, WidenBank
    <3>2. Cardinality(DOMAIN b) <= BankSize
      <4>1. Cardinality(DOMAIN b) \in Nat /\ Cardinality(DOMAIN e.bank) \in Nat /\ BankSize \in Nat
        BY <1>3, <3>1, BankFinite, PartnerAssumption
      <4>2. Cardinality(DOMAIN e.bank) < BankSize
        BY <2>2
      <4>. QED BY ONLY <3>1, <4>1, <4>2
    <3>3. /\ DOMAIN b = DOMAIN e.bank \union {e.ticket} /\ b[e.ticket] = Row(e)
          /\ \A t \in DOMAIN e.bank : t # e.ticket => b[t] = e.bank[t]
      <4>1. b = With(e.bank, e.ticket, Row(e))
        BY <2>2
      <4>. HIDE DEF b
      <4>. QED BY <4>1 DEF With
    <3>. QED BY <2>2, <3>1, <3>2, <3>3
  <2>. QED BY <1>4, <2>1, <2>2
<1>. HIDE DEF b
<1>7. <<>> \in Roles /\ <<>> \in Actions
  BY DEF Roles, Actions
<1>8. /\ n \in Adult /\ n.bank = b /\ n.role = <<>> /\ n.ticket = 0 /\ n.action = <<>>
      /\ n.inquiry = "none" /\ n.next = e.next /\ n.tick = e.tick
      /\ n.returns = e.returns /\ n.roleReturns = e.roleReturns
  <2>. HIDE <1>7
  <2>. QED BY <1>3, <1>6, <1>7 DEF Adult
<1>. HIDE DEF n
<1>9. /\ e.ticket < e.next /\ e.ticket \in Nat
      /\ \A t \in DOMAIN e.bank : t < e.next /\ t # e.ticket /\ e.bank[t].born > 0
                                /\ e.bank[t].of \in {0, t}
      /\ \A t \in Ticket : e.returns[t] \in Nat
      /\ DOMAIN e.bank \subseteq Ticket /\ Ticket \subseteq Nat \ {0}
  BY <1>1, SoundFields, TicketsNumber DEF Sound, TicketsRestorable, RoleFits
<1>10. Sound(n)
  <2>1. \A t \in DOMAIN n.bank : t < n.next /\ t # n.ticket /\ n.bank[t].born > 0
                                /\ n.bank[t].of \in {0, t}
    <3>1. e.tick > 0
      BY <1>3
    <3>. QED BY <1>5, <1>6, <1>8, <1>9, <3>1
  <2>2. TicketsRestorable(n)
    <3>1. n.next > 0
      BY <1>8, AdultFields
    <3>. QED BY <1>6, <1>8, <2>1, <3>1 DEF TicketsRestorable
  <2>3. RoleFits(n)
    BY <1>8, <2>1 DEF RoleFits
  <2>4. Unspent(n)
    <3>1. Unspent(e)
      BY <1>1 DEF Sound
    <3>. QED BY <1>6, <1>8, <1>9, <3>1 DEF Unspent
  <2>5. n.next <= MaxTickets + 1
    BY <1>1, <1>8 DEF Sound
  <2>. QED BY <1>8, <2>2, <2>3, <2>4, <2>5 DEF Sound
<1>11. Follows(e, n)
  <2>1. e.next <= n.next /\ e.tick <= n.tick /\ (\A t \in Ticket : e.returns[t] <= n.returns[t])
    BY <1>3, <1>8, <1>9
  <2>2. \A t \in DOMAIN n.bank :
          \/ t \in DOMAIN e.bank /\ n.bank[t] = e.bank[t]
          \/ /\ t = e.ticket /\ e.action # <<>>
             /\ n.bank[t].program = e.action.program /\ n.bank[t].partner = e.action.partner
    BY <1>5, <1>6, <1>8
  <2>3. \A t \in DOMAIN e.bank : t \in DOMAIN n.bank /\ n.bank[t].born = e.bank[t].born
    BY <1>6, <1>8, <1>9
  <2>. QED BY <1>8, <2>1, <2>2, <2>3 DEF Follows
<1>12. Follows(m, n)
  BY <1>1, <1>10, <1>11, FollowsOn
<1>. QED BY <1>1, <1>2, <1>8, <1>10, <1>12

\* A ticket is new, and the role that waits for this choice credits this ticket.
LEMMA SelectedSound ==
  ASSUME NEW m, Sound(m), m.ticket = 0, m.inquiry = "none", NEW p \in Program \union {0},
         p # 0 => m.next <= MaxTickets,
         m.role = <<>> \/ m.role = [partner |-> m.partner, program |-> 0, of |-> m.next]
  PROVE  /\ Sound(Selected(m, p)) /\ Follows(m, Selected(m, p))
         /\ p # 0 => /\ Selected(m, p).ticket = m.next
                     /\ Selected(m, p).action = [program |-> p, partner |-> m.partner]
<1>1. CASE p = 0
  BY <1>1, FollowsItself DEF Selected
<1>2. CASE p # 0
  <2>. DEFINE e == Aged(m)
              a == [program |-> p, partner |-> m.partner]
              r == IF e.role # <<>> /\ e.role.partner = m.partner /\ e.role.program = 0
                     THEN [e.role EXCEPT !.program = p] ELSE e.role
              n == [e EXCEPT !.ticket = e.next, !.next = @ + 1, !.action = a, !.role = r]
  <2>1. /\ Sound(e) /\ Follows(m, e) /\ e.next = m.next /\ e.role = m.role /\ e.ticket = 0
        /\ e.partner = m.partner /\ e.inquiry = "none"
    BY AgedSound
  <2>2. /\ e \in Adult /\ e.next \in Nat \ {0} /\ e.next + 1 \in Nat \ {0} /\ e.tick \in Nat
        /\ p \in Nat \ {0} /\ m.partner \in Nat /\ e.next <= MaxTickets /\ e.next \in Nat
        /\ \A t \in DOMAIN e.bank : t < e.next
        /\ DOMAIN e.bank \subseteq Ticket /\ e.action = <<>>
        /\ \A t \in Ticket : e.returns[t] \in Nat /\ e.roleReturns[t] \in Nat
    <3>1. p \in Nat \ {0}
      BY <1>2, PartnerAssumption
    <3>2. /\ e \in Adult /\ m \in Adult /\ e.next \in Nat \ {0} /\ e.tick \in Nat
          /\ \A t \in DOMAIN e.bank : t < e.next
          /\ DOMAIN e.bank \subseteq Ticket /\ e.action = <<>>
          /\ \A t \in Ticket : e.returns[t] \in Nat /\ e.roleReturns[t] \in Nat
      BY <2>1, SoundFields
    <3>3. m.partner \in Nat
      BY <3>2, AdultFields
    <3>4. e.next + 1 \in Nat \ {0} /\ e.next \in Nat
      BY <3>2
    <3>5. e.next <= MaxTickets
      BY <1>2, <2>1
    <3>. HIDE DEF e
    <3>. QED BY <3>1, <3>2, <3>3, <3>4, <3>5
  <2>3. Selected(m, p) = n
    <3>1. Minted(e) = [e EXCEPT !.ticket = e.next, !.next = @ + 1]
      BY DEF Minted
    <3>2. Minted(e) \in Adult /\ Minted(e).role = e.role
      <4>. HIDE DEF e
      <4>. QED BY <2>2, <3>1 DEF Adult
    <3>3. Selected(m, p) = [Minted(e) EXCEPT !.action = a, !.role = r]
      BY <1>2, <3>2 DEF Selected
    <3>. HIDE DEF e, a, r
    <3>. QED BY <3>1, <3>3
  <2>4. a \in Actions /\ a # <<>> /\ a.program = p /\ a.partner = m.partner
    BY <2>2, Somethings DEF Actions
  <2>5. \/ r = <<>>
        \/ r = [partner |-> m.partner, program |-> p, of |-> m.next]
    <3>. HIDE DEF e
    <3>1. CASE e.role = <<>>
      BY <3>1
    <3>2. CASE e.role = [partner |-> m.partner, program |-> 0, of |-> m.next]
      BY <3>2, Somethings
    <3>. QED BY <2>1, <3>1, <3>2
  <2>. HIDE DEF r
  <2>6. /\ r \in Roles
        /\ r # <<>> => r.program = p /\ r.partner = m.partner /\ r.of = m.next
    <3>1. CASE r = <<>>
      BY <3>1 DEF Roles
    <3>2. CASE r = [partner |-> m.partner, program |-> p, of |-> m.next]
      BY <2>1, <2>2, <3>2 DEF Roles
    <3>. QED BY <2>5, <3>1, <3>2
  <2>. HIDE DEF e, a
  <2>7. /\ n \in Adult /\ n.ticket = e.next /\ n.next = e.next + 1 /\ n.action = a /\ n.role = r
        /\ n.bank = e.bank /\ n.tick = e.tick /\ n.inquiry = e.inquiry
        /\ n.returns = e.returns /\ n.roleReturns = e.roleReturns
    <3>1. e.next \in Nat
      BY <2>2
    <3>. QED BY <2>2, <2>4, <2>6, <3>1 DEF Adult
  <2>. HIDE DEF n
  <2>8. Sound(n)
    <3>1. TicketsRestorable(n)
      <4>1. \A t \in DOMAIN n.bank : t < n.next /\ t # n.ticket /\ n.bank[t].born > 0
        <5>1. \A t \in DOMAIN e.bank : t < e.next /\ e.bank[t].born > 0 /\ t \in Nat
          BY <2>1, <2>2, TicketsNumber DEF Sound, TicketsRestorable
        <5>. QED BY <2>2, <2>7, <5>1
      <4>2. n.ticket < n.next /\ n.ticket # 0
        BY <2>2, <2>7
      <4>. QED BY <2>1, <2>4, <2>6, <2>7, <4>1, <4>2 DEF Sound, TicketsRestorable
    <3>2. RoleFits(n)
      BY <2>1, <2>4, <2>6, <2>7 DEF Sound, RoleFits
    <3>3. Unspent(n)
      <4>. SUFFICES ASSUME NEW t \in Ticket
                    PROVE  /\ n.returns[t] <= 1 /\ n.roleReturns[t] <= 1
                           /\ n.returns[t] # 0 \/ n.roleReturns[t] # 0 =>
                                t < n.next /\ t \notin DOMAIN n.bank /\ t # n.ticket
        BY DEF Unspent
      <4>1. /\ e.returns[t] <= 1 /\ e.roleReturns[t] <= 1
            /\ e.returns[t] # 0 \/ e.roleReturns[t] # 0 =>
                 t < e.next /\ t \notin DOMAIN e.bank
        BY <2>1 DEF Sound, Unspent
      <4>2. t \in Nat
        BY TicketsNumber
      <4>. QED BY <2>2, <2>7, <4>1, <4>2
    <3>4. n.next <= MaxTickets + 1
      BY <2>2, <2>7, PartnerAssumption
    <3>. QED BY <2>7, <3>1, <3>2, <3>3, <3>4 DEF Sound
  <2>9. Follows(e, n)
    <3>1. e.next <= n.next /\ e.tick <= n.tick /\ (\A t \in Ticket : e.returns[t] <= n.returns[t])
          /\ ~(n.ticket < e.next)
      BY <2>2, <2>7
    <3>. QED BY <2>7, <3>1 DEF Follows
  <2>10. Follows(m, n)
    BY <2>1, <2>8, <2>9, FollowsOn
  <2>. QED BY <2>1, <2>3, <2>7, <2>8, <2>10 DEF a
<1>. QED BY <1>1, <1>2

LEMMA CountedOnce ==
  ASSUME NEW f \in Counts, NEW t
  PROVE  /\ Counted(f, t) \in Counts
         /\ \A u \in Ticket : Counted(f, t)[u] = IF u = t THEN f[u] + 1 ELSE f[u]
<1>1. CASE t \in Ticket
  BY <1>1 DEF Counted, Counts
<1>2. CASE t \notin Ticket
  BY <1>2 DEF Counted, Counts
<1>. QED BY <1>1, <1>2

\* The current action is credited once, with the role it was chosen for, and its
\* ticket goes with it; a return for another program credits nothing.
LEMMA AttachedSound ==
  ASSUME NEW m, Sound(m), NEW p \in Program
  PROVE  Sound(Attached(m, p)) /\ Follows(m, Attached(m, p))
<1>. DEFINE n == Attached(m, p)
<1>1. /\ m \in Adult /\ m.tick + 1 \in Nat \ {0} /\ p \in Nat \ {0} /\ m.tick \in Nat /\ m.next \in Nat
      /\ m.returns \in Counts /\ m.roleReturns \in Counts
      /\ m.role \in Roles /\ m.action \in Actions
  BY AdultFields, PartnerAssumption DEF Sound
<1>2. m.role # <<>> /\ m.role.program = p => m.action # <<>> /\ m.action.program = p
  BY <1>1 DEF Sound, RoleFits, TicketsRestorable
<1>3. m.action # <<>> /\ m.action.program = p /\ m.role # <<>> => m.role.program = p
  BY DEF Sound, TicketsRestorable
<1>4. CASE ~(m.action # <<>> /\ m.action.program = p)
  <2>1. n = [m EXCEPT !.tick = @ + 1, !.returns = m.returns, !.roleReturns = m.roleReturns,
                      !.role = m.role, !.ticket = m.ticket, !.action = m.action]
    BY <1>2, <1>4 DEF Attached
  <2>2. n \in Moment(m)
    <3>1. n = [m EXCEPT !.tick = @ + 1]
      <4>. HIDE DEF n
      <4>. QED BY <1>1, <2>1 DEF Adult
    <3>. QED BY <3>1 DEF Moment
  <2>. HIDE DEF n
  <2>3. Sound(n) /\ Follows(m, n)
    BY <2>2, MomentSound
  <2>. QED BY <2>3 DEF n
<1>5. CASE m.action # <<>> /\ m.action.program = p
  <2>. DEFINE b == Counted(m.returns, m.ticket)
              r == IF m.role # <<>> THEN Counted(m.roleReturns, m.role.of) ELSE m.roleReturns
  <2>1. n = [m EXCEPT !.tick = @ + 1, !.returns = b, !.roleReturns = r,
                      !.role = <<>>, !.ticket = 0, !.action = <<>>]
    <3>1. CASE m.role # <<>>
      BY <1>3, <1>5, <3>1 DEF Attached
    <3>2. CASE m.role = <<>>
      BY <1>5, <3>2 DEF Attached
    <3>. QED BY <3>1, <3>2
  <2>2. m.role # <<>> => m.role.of = m.ticket
    BY <1>1, <1>3, <1>5 DEF Sound, RoleFits
  <2>3. m.ticket \in Ticket /\ m.ticket # 0 /\ m.ticket < m.next
    BY <1>5, CurrentTicket, SoundFields
  <2>4. /\ b \in Counts /\ r \in Counts
        /\ \A t \in Ticket : b[t] = IF t = m.ticket THEN m.returns[t] + 1 ELSE m.returns[t]
        /\ \A t \in Ticket : r[t] \in {m.roleReturns[t],
                                      IF t = m.ticket THEN m.roleReturns[t] + 1 ELSE m.roleReturns[t]}
    BY <1>1, <2>2, CountedOnce
  <2>. HIDE DEF b, r, n
  <2>5. <<>> \in Roles /\ <<>> \in Actions
    BY DEF Roles, Actions
  <2>6. /\ n \in Adult /\ n.returns = b /\ n.roleReturns = r /\ n.role = <<>> /\ n.ticket = 0
        /\ n.action = <<>> /\ n.tick = m.tick + 1 /\ n.next = m.next /\ n.bank = m.bank
        /\ n.inquiry = m.inquiry
    BY <1>1, <2>1, <2>4, <2>5 DEF Adult
  <2>7. /\ \A t \in Ticket : m.returns[t] \in Nat /\ m.roleReturns[t] \in Nat
        /\ DOMAIN m.bank \subseteq Ticket /\ Ticket \subseteq Nat \ {0}
        /\ \A t \in DOMAIN m.bank : t < m.next /\ t # m.ticket
    BY SoundFields, TicketsNumber DEF Sound, TicketsRestorable
  <2>8. Sound(n)
    <3>1. TicketsRestorable(n)
      <4>1. \A t \in DOMAIN n.bank : t < n.next /\ t # n.ticket /\ n.bank[t].born > 0
        BY <2>6, <2>7 DEF Sound, TicketsRestorable
      <4>2. n.ticket < n.next
        BY <2>6, AdultFields
      <4>. QED BY <2>6, <4>1, <4>2 DEF Sound, TicketsRestorable
    <3>2. RoleFits(n)
      BY <2>6 DEF Sound, RoleFits
    <3>3. Unspent(n)
      <4>. SUFFICES ASSUME NEW t \in Ticket
                    PROVE  /\ n.returns[t] <= 1 /\ n.roleReturns[t] <= 1
                           /\ n.returns[t] # 0 \/ n.roleReturns[t] # 0 =>
                                t < n.next /\ t \notin DOMAIN n.bank /\ t # n.ticket
        BY DEF Unspent
      <4>1. /\ m.returns[t] <= 1 /\ m.roleReturns[t] <= 1
            /\ m.returns[t] # 0 \/ m.roleReturns[t] # 0 =>
                 t < m.next /\ t \notin DOMAIN m.bank /\ t # m.ticket
            /\ m.returns[t] \in Nat /\ m.roleReturns[t] \in Nat /\ t # 0
        BY <2>7 DEF Sound, Unspent
      <4>2. CASE t = m.ticket
        <5>1. m.returns[t] = 0 /\ m.roleReturns[t] = 0 /\ t \notin DOMAIN m.bank /\ t < m.next
          BY <2>3, <2>7, <4>1, <4>2
        <5>2. n.returns[t] = 1 /\ n.roleReturns[t] \in {0, 1}
          BY <2>4, <2>6, <4>2, <5>1
        <5>. QED BY <2>6, <4>1, <5>1, <5>2
      <4>3. CASE t # m.ticket
        BY <2>4, <2>6, <4>1, <4>3
      <4>. QED BY <4>2, <4>3
    <3>. QED BY <2>6, <3>1, <3>2, <3>3 DEF Sound
  <2>9. Follows(m, n)
    <3>1. m.next <= n.next /\ m.tick <= n.tick
      BY <1>1, <2>6
    <3>2. \A t \in Ticket : m.returns[t] <= n.returns[t]
      BY <2>4, <2>6, <2>7
    <3>. QED BY <2>6, <3>1, <3>2 DEF Follows
  <2>. QED BY <2>8, <2>9 DEF n
<1>. QED BY <1>4, <1>5

\* A row of the bank is credited as it leaves it.
LEMMA DelayedSound ==
  ASSUME NEW m, Sound(m), NEW t \in DOMAIN m.bank
  PROVE  Sound(Delayed(m, t)) /\ Follows(m, Delayed(m, t))
<1>. DEFINE n == Delayed(m, t)
            b == Taken(m, t)
            f == Counted(m.returns, t)
            r == Counted(m.roleReturns, m.bank[t].of)
<1>1. /\ m \in Adult /\ m.tick + 1 \in Nat \ {0} /\ m.tick \in Nat /\ m.next \in Nat
      /\ m.returns \in Counts /\ m.roleReturns \in Counts /\ m.bank \in Banks
  BY AdultFields DEF Sound
<1>2. /\ \A u \in Ticket : m.returns[u] \in Nat /\ m.roleReturns[u] \in Nat
      /\ DOMAIN m.bank \subseteq Ticket /\ Ticket \subseteq Nat \ {0}
      /\ \A u \in DOMAIN m.bank : u < m.next /\ u # m.ticket /\ m.bank[u].born > 0
                                /\ m.bank[u].of \in {0, u}
  BY SoundFields, TicketsNumber DEF Sound, TicketsRestorable, RoleFits
<1>3. /\ b \in Banks /\ Cardinality(DOMAIN b) <= Cardinality(DOMAIN m.bank)
      /\ DOMAIN b = DOMAIN m.bank \ {t} /\ \A u \in DOMAIN b : b[u] = m.bank[u]
  <2>1. /\ DOMAIN b = (DOMAIN m.bank \ {t}) \intersect DOMAIN m.bank
        /\ \A u \in (DOMAIN m.bank \ {t}) \intersect DOMAIN m.bank : b[u] = m.bank[u]
    BY OnlyKeeps DEF Taken
  <2>2. b \in Banks /\ Cardinality(DOMAIN b) <= Cardinality(DOMAIN m.bank)
    BY <1>1, NarrowBank DEF Taken
  <2>. HIDE DEF b
  <2>. QED BY <2>1, <2>2
<1>4. /\ f \in Counts /\ r \in Counts
      /\ \A u \in Ticket : f[u] = IF u = t THEN m.returns[u] + 1 ELSE m.returns[u]
      /\ \A u \in Ticket : r[u] = IF u = m.bank[t].of THEN m.roleReturns[u] + 1 ELSE m.roleReturns[u]
  BY <1>1, CountedOnce
<1>5. n = [m EXCEPT !.tick = @ + 1, !.bank = b, !.returns = f, !.roleReturns = r]
  BY DEF Delayed
<1>. HIDE DEF n, b, f, r
<1>6. /\ n \in Adult /\ n.returns = f /\ n.roleReturns = r /\ n.role = m.role /\ n.ticket = m.ticket
      /\ n.action = m.action /\ n.tick = m.tick + 1 /\ n.next = m.next /\ n.bank = b
      /\ n.inquiry = m.inquiry
  BY <1>1, <1>3, <1>4, <1>5 DEF Adult
<1>7. Sound(n)
  <2>1. TicketsRestorable(n)
    <3>1. Cardinality(DOMAIN b) <= BankSize
      <4>1. Cardinality(DOMAIN b) \in Nat /\ Cardinality(DOMAIN m.bank) \in Nat /\ BankSize \in Nat
        BY <1>1, <1>3, BankFinite, PartnerAssumption
      <4>2. Cardinality(DOMAIN m.bank) <= BankSize
        BY DEF Sound, TicketsRestorable
      <4>. QED BY <1>3, <4>1, <4>2
    <3>2. \A u \in DOMAIN n.bank : u < n.next /\ u # n.ticket /\ n.bank[u].born > 0
      BY <1>2, <1>3, <1>6
    <3>. QED BY <1>6, <3>1, <3>2 DEF Sound, TicketsRestorable
  <2>2. RoleFits(n)
    BY <1>2, <1>3, <1>6 DEF Sound, RoleFits
  <2>3. Unspent(n)
    <3>. SUFFICES ASSUME NEW u \in Ticket
                  PROVE  /\ n.returns[u] <= 1 /\ n.roleReturns[u] <= 1
                         /\ n.returns[u] # 0 \/ n.roleReturns[u] # 0 =>
                              u < n.next /\ u \notin DOMAIN n.bank /\ u # n.ticket
      BY DEF Unspent
    <3>1. /\ m.returns[u] <= 1 /\ m.roleReturns[u] <= 1
          /\ m.returns[u] # 0 \/ m.roleReturns[u] # 0 =>
               u < m.next /\ u \notin DOMAIN m.bank /\ u # m.ticket
          /\ m.returns[u] \in Nat /\ m.roleReturns[u] \in Nat /\ u # 0
      BY <1>2 DEF Sound, Unspent
    <3>2. m.bank[t].of \in {0, t}
      BY <1>2
    <3>3. CASE u = t
      <4>1. m.returns[u] = 0 /\ m.roleReturns[u] = 0 /\ u < m.next /\ u # m.ticket
        BY <1>2, <3>1, <3>3
      <4>2. n.returns[u] = 1 /\ n.roleReturns[u] \in {0, 1}
        BY <1>4, <1>6, <3>3, <4>1
      <4>3. u \notin DOMAIN n.bank
        BY <1>3, <1>6, <3>3
      <4>. QED BY <1>6, <4>1, <4>2, <4>3
    <3>4. CASE u # t
      <4>1. n.returns[u] = m.returns[u] /\ n.roleReturns[u] = m.roleReturns[u]
        BY <1>4, <1>6, <3>1, <3>2, <3>4
      <4>. QED BY <1>3, <1>6, <3>1, <4>1
    <3>. QED BY <3>3, <3>4
  <2>. QED BY <1>6, <2>1, <2>2, <2>3 DEF Sound
<1>8. Follows(m, n)
  <2>1. m.next <= n.next /\ m.tick <= n.tick
    BY <1>1, <1>6
  <2>2. \A u \in Ticket : m.returns[u] <= n.returns[u]
    BY <1>2, <1>4, <1>6
  <2>3. n.returns[t] > m.returns[t]
    <3>1. t \in Ticket /\ m.returns[t] \in Nat
      BY <1>2
    <3>2. n.returns[t] = m.returns[t] + 1
      BY <1>4, <1>6, <3>1
    <3>. QED BY <3>1, <3>2
  <2>. QED BY <1>3, <1>6, <2>1, <2>2, <2>3 DEF Follows
<1>. QED BY <1>7, <1>8 DEF n

\* The part of an adult that opens an occurrence.
Opening(m, c, i, r) == [m EXCEPT !.partner = c, !.inquiry = i, !.role = r]

\* Partner, inquiry and a role that no program was chosen for bind no ticket, as
\* long as there is no choice and a role comes after the inquiry.
LEMMA OpenedSound ==
  ASSUME NEW m, Sound(m), m.ticket = 0, m.action = <<>>,
         NEW c \in Nat, NEW i \in {"none", "open", "expressed"}, NEW r,
         r = <<>> \/ (i = "none" /\ r = [partner |-> c, program |-> 0, of |-> m.next])
  PROVE  LET n == Opening(m, c, i, r) IN
         /\ Sound(n) /\ Follows(m, n)
         /\ n.ticket = 0 /\ n.next = m.next /\ n.partner = c /\ n.inquiry = i /\ n.role = r
<1>. DEFINE n == Opening(m, c, i, r)
<1>1. m \in Adult /\ m.next \in Nat
  BY AdultFields DEF Sound
<1>2. r \in Roles /\ (r # <<>> => r.program = 0 /\ i = "none")
  BY <1>1 DEF Roles
<1>3. /\ n \in Adult /\ n.ticket = 0 /\ n.next = m.next /\ n.partner = c /\ n.inquiry = i
      /\ n.role = r /\ n.action = <<>> /\ n.bank = m.bank /\ n.tick = m.tick
      /\ n.returns = m.returns /\ n.roleReturns = m.roleReturns
  BY <1>1, <1>2 DEF Adult, Opening
<1>. HIDE DEF n
<1>4. Sound(n)
  <2>1. TicketsRestorable(n)
    BY <1>2, <1>3 DEF Sound, TicketsRestorable
  <2>2. RoleFits(n) /\ Unspent(n)
    BY <1>2, <1>3 DEF Sound, RoleFits, Unspent
  <2>. QED BY <1>3, <2>1, <2>2 DEF Sound
<1>5. Follows(m, n)
  BY <1>3, FollowsItself DEF Follows
<1>6. Sound(n) /\ Follows(m, n)
  BY <1>4, <1>5
<1>. QED BY <1>3, <1>6 DEF n

-----------------------------------------------------------------------------
(* PartnerActions: steps.                                                       *)

LEMMA InitSound == PartnerInit => PartnerInv
<1>. SUFFICES ASSUME PartnerInit PROVE PartnerInv
  OBVIOUS
<1>1. <<>> \in Banks
  BY DEF Banks
<1>2. Fresh \in Adult
  BY <1>1 DEF Fresh, Adult, Roles, Actions, Counts
<1>3. DOMAIN <<>> = {} /\ Cardinality({}) = 0 /\ MaxTickets \in Nat /\ BankSize \in Nat
  BY FS_EmptySet, PartnerAssumption
<1>4. TicketsRestorable(Fresh)
  <2>1. Cardinality(DOMAIN <<>>) <= BankSize
    BY <1>3
  <2>. QED BY <1>3, <2>1 DEF TicketsRestorable, Fresh
<1>5. Sound(Fresh)
  BY <1>2, <1>3, <1>4 DEF Fresh, Sound, RoleFits, Unspent
<1>6. Spoken(<<>>, Fresh)
  BY <1>3 DEF Spoken
<1>. QED BY <1>5, <1>6 DEF PartnerInit, PartnerInv

\* Steps that leave the memory's rows alone, or drop some.
LEMMA UtteranceFollows ==
  ASSUME Sound(adult), NEW i \in {"none", "open"}, Utterance(i)
  PROVE  Sound(adult') /\ Follows(adult, adult')
<1>1. PICK m \in Moment(adult) : adult' = [Ended(m) EXCEPT !.inquiry = i]
  BY DEF Utterance
<1>. DEFINE e == Ended(m)
<1>2. Sound(m) /\ Follows(adult, m)
  BY MomentSound
<1>3. Sound(e) /\ Follows(m, e) /\ e.ticket = 0 /\ e.action = <<>> /\ e.role = <<>> /\ e \in Adult
  BY <1>2, EndedSound DEF Sound
<1>. HIDE DEF e
<1>4. e.partner \in Nat
  BY <1>3, AdultFields
<1>5. adult' = Opening(e, e.partner, i, <<>>)
  <2>1. adult' = [e EXCEPT !.inquiry = i]
    BY <1>1 DEF e
  <2>. QED BY <1>3, <2>1 DEF Adult, Opening
<1>6. Sound(adult') /\ Follows(e, adult')
  <2>1. i \in {"none", "open", "expressed"}
    OBVIOUS
  <2>. QED BY <1>3, <1>4, <1>5, <2>1, OpenedSound
<1>. QED BY <1>2, <1>3, <1>6, FollowsOn

LEMMA QuietFollows ==
  ASSUME Sound(adult), QuietMoment
  PROVE  Sound(adult') /\ Follows(adult, adult')
<1>1. PICK i \in {"none", "open", "expressed"} :
        /\ adult' = [adult EXCEPT !.tick = @ + 1, !.inquiry = i]
        /\ i = adult.inquiry \/ adult.inquiry = "open"
  BY AdultFields DEF QuietMoment, Sound
<1>. DEFINE k == [adult EXCEPT !.tick = @ + 1]
<1>2. k \in Moment(adult)
  BY DEF Moment
<1>. HIDE DEF k
<1>3. /\ Sound(k) /\ Follows(adult, k) /\ k.inquiry = adult.inquiry /\ k.role = adult.role
      /\ k.ticket = adult.ticket /\ k.action = adult.action /\ k \in Adult
  BY <1>2, MomentSound DEF Sound
<1>4. adult' = [k EXCEPT !.inquiry = i]
  BY <1>1 DEF k
<1>5. CASE i = adult.inquiry
  <2>1. adult' = k
    BY <1>3, <1>4, <1>5 DEF Adult
  <2>. QED BY <1>3, <2>1
<1>6. CASE i # adult.inquiry
  <2>1. k.role = <<>> /\ k.action = <<>> /\ k.ticket = 0
    BY <1>1, <1>3, <1>6 DEF Sound, TicketsRestorable
  <2>2. k.partner \in Nat
    BY <1>3, AdultFields
  <2>3. adult' = Opening(k, k.partner, i, <<>>)
    BY <1>3, <1>4, <2>1 DEF Adult, Opening
  <2>4. Sound(adult') /\ Follows(k, adult')
    BY <1>3, <2>1, <2>2, <2>3, OpenedSound
  <2>. QED BY <1>3, <2>4, FollowsOn
<1>. QED BY <1>5, <1>6

\* The reply names the ticket its choice will have, before there is a choice.
LEMMA ReplyFollows ==
  ASSUME Sound(adult), NEW c \in Partner, NEW roled \in BOOLEAN, NEW p \in Program \union {0},
         Reply(c, roled, p)
  PROVE  Sound(adult') /\ Follows(adult, adult')
<1>1. PICK m \in Moment(adult) :
        adult' = Selected([m EXCEPT !.inquiry = "none", !.partner = c,
                                    !.role = IF roled /\ @ = <<>>
                                             THEN [partner |-> c, program |-> 0, of |-> m.next]
                                             ELSE @], p)
  BY DEF Reply
<1>2. /\ Sound(m) /\ Follows(adult, m) /\ m.inquiry = "expressed" /\ m.next = adult.next
      /\ m \in Adult /\ c \in Nat
  BY MomentSound, PartnerAssumption DEF Reply, Sound
<1>3. m.role = <<>> /\ m.action = <<>> /\ m.ticket = 0
  BY <1>2 DEF Sound, TicketsRestorable
<1>. DEFINE r == IF roled THEN [partner |-> c, program |-> 0, of |-> m.next] ELSE <<>>
            n == Opening(m, c, "none", r)
<1>4. adult' = Selected(n, p)
  <2>1. [m EXCEPT !.inquiry = "none", !.partner = c,
                  !.role = IF roled /\ @ = <<>>
                           THEN [partner |-> c, program |-> 0, of |-> m.next] ELSE @] = n
    <3>1. [m EXCEPT !.inquiry = "none", !.partner = c,
                    !.role = IF roled /\ @ = <<>>
                             THEN [partner |-> c, program |-> 0, of |-> m.next] ELSE @]
            = [m EXCEPT !.inquiry = "none", !.partner = c, !.role = r]
      BY <1>3
    <3>. HIDE DEF r
    <3>. QED BY <1>2, <3>1 DEF Adult, Opening
  <2>. QED BY <1>1, <2>1
<1>5. r = <<>> \/ r = [partner |-> c, program |-> 0, of |-> m.next]
  OBVIOUS
<1>6. p # 0 => m.next <= MaxTickets
  BY <1>2 DEF Reply, Open
<1>. HIDE DEF r, n
<1>7. /\ Sound(n) /\ Follows(m, n) /\ n.ticket = 0 /\ n.next = m.next /\ n.partner = c
      /\ n.inquiry = "none" /\ n.role = r
  BY <1>2, <1>3, <1>5, OpenedSound DEF n
<1>8. Sound(adult') /\ Follows(n, adult')
  BY <1>4, <1>5, <1>6, <1>7, SelectedSound
<1>9. Follows(m, adult')
  BY <1>2, <1>7, <1>8, FollowsOn
<1>. QED BY <1>2, <1>8, <1>9, FollowsOn

\* An occurrence that ends and a choice toward a partner in the next one.
LEMMA ChosenFollows ==
  ASSUME NEW m, Sound(m), NEW c \in Partner, NEW p \in Program \union {0},
         p # 0 => m.next <= MaxTickets, NEW n, n = Selected([Ended(m) EXCEPT !.partner = c], p)
  PROVE  /\ Sound(n) /\ Follows(m, n)
         /\ p # 0 => n.ticket = m.next /\ n.action = [program |-> p, partner |-> c]
<1>. DEFINE e == Ended(m)
            k == Opening(e, c, "none", <<>>)
<1>1. /\ Sound(e) /\ Follows(m, e) /\ e.ticket = 0 /\ e.action = <<>> /\ e.role = <<>>
      /\ e.inquiry = "none" /\ e.next = m.next /\ e \in Adult /\ c \in Nat
  BY EndedSound, PartnerAssumption DEF Sound
<1>2. n = Selected([e EXCEPT !.partner = c], p)
  OBVIOUS
<1>. HIDE DEF e
<1>3. [e EXCEPT !.partner = c] = k
  BY <1>1 DEF Adult, Opening
<1>. HIDE DEF k
<1>4. /\ Sound(k) /\ Follows(e, k) /\ k.ticket = 0 /\ k.next = e.next /\ k.partner = c
      /\ k.inquiry = "none" /\ k.role = <<>>
  BY <1>1, OpenedSound DEF k
<1>5. /\ Sound(n) /\ Follows(k, n)
      /\ p # 0 => n.ticket = m.next /\ n.action = [program |-> p, partner |-> c]
  <2>1. n = Selected(k, p) /\ (p # 0 => k.next <= MaxTickets)
    BY <1>1, <1>2, <1>3, <1>4
  <2>2. /\ Sound(n) /\ Follows(k, n)
        /\ p # 0 => n.ticket = k.next /\ n.action = [program |-> p, partner |-> k.partner]
    <3>1. k.role = <<>> \/ k.role = [partner |-> k.partner, program |-> 0, of |-> k.next]
      BY <1>4
    <3>2. /\ Sound(Selected(k, p)) /\ Follows(k, Selected(k, p))
          /\ p # 0 => /\ Selected(k, p).ticket = k.next
                      /\ Selected(k, p).action = [program |-> p, partner |-> k.partner]
      BY ONLY p \in Program \union {0}, <1>4, <2>1, <3>1, SelectedSound
    <3>. QED BY <2>1, <3>2
  <2>. QED BY <1>1, <1>4, <2>2
<1>6. Follows(e, n)
  BY <1>1, <1>4, <1>5, FollowsOn
<1>. QED BY <1>1, <1>5, <1>6, FollowsOn

LEMMA RememberedFollows ==
  ASSUME Sound(adult), NEW c \in Partner, NEW p \in Program \union {0}, Remembered(c, p)
  PROVE  Sound(adult') /\ Follows(adult, adult')
<1>1. PICK m \in Moment(adult) : adult' = Selected([Ended(m) EXCEPT !.partner = c], p)
  BY DEF Remembered
<1>2. Sound(m) /\ Follows(adult, m) /\ m.next = adult.next
  BY MomentSound
<1>3. Sound(adult') /\ Follows(m, adult')
  BY <1>1, <1>2, ChosenFollows DEF Remembered, Open
<1>. QED BY <1>2, <1>3, FollowsOn

\* The memory's new row says what the choice said, under the ticket just minted.
LEMMA StageFollows ==
  ASSUME Sound(adult), Spoken(joint, adult), NEW c \in Partner, NEW p \in Program \union {0},
         Stage(c, p)
  PROVE  Sound(adult') /\ Follows(adult, adult') /\ Spoken(joint', adult')
<1>1. /\ adult' = Selected([Ended(adult) EXCEPT !.partner = c], p)
      /\ p # 0 => adult.next <= MaxTickets
      /\ joint' = IF p = 0 THEN joint
                  ELSE With(joint, adult'.ticket, [response |-> p, partner |-> c])
  BY DEF Stage, Open
<1>2. /\ Sound(adult') /\ Follows(adult, adult')
      /\ p # 0 => adult'.ticket = adult.next /\ adult'.action = [program |-> p, partner |-> c]
  BY <1>1, ChosenFollows
<1>3. Spoken(joint, adult')
  BY <1>2, SpokenOn
<1>4. CASE p # 0
  <2>. DEFINE t == adult'.ticket
              row == [response |-> p, partner |-> c]
  <2>1. t \in Nat \ {0} /\ t < adult'.next /\ t \notin DOMAIN adult'.bank
    <3>1. adult.next \in Nat \ {0}
      BY SoundFields
    <3>. QED BY <1>2, <1>4, <3>1 DEF Sound, TicketsRestorable
  <2>2. joint' = With(joint, t, row)
    BY <1>1, <1>4
  <2>3. adult'.action = [program |-> row.response, partner |-> row.partner]
    BY <1>2, <1>4
  <2>. HIDE DEF t, row
  <2>4. \A u \in DOMAIN joint' :
          \/ u \in DOMAIN joint /\ u # t /\ joint'[u] = joint[u]
          \/ u = t /\ joint'[u] = row
    BY <2>2 DEF With
  <2>5. Spoken(joint', adult')
    <3>. SUFFICES ASSUME NEW u \in DOMAIN joint'
                  PROVE  /\ u \in Nat \ {0} /\ u < adult'.next
                         /\ u \in DOMAIN adult'.bank =>
                              /\ adult'.bank[u].program = joint'[u].response
                              /\ adult'.bank[u].partner = joint'[u].partner
                         /\ u = adult'.ticket =>
                              adult'.action = [program |-> joint'[u].response,
                                               partner |-> joint'[u].partner]
      BY DEF Spoken
    <3>1. CASE u \in DOMAIN joint /\ u # t /\ joint'[u] = joint[u]
      BY <1>3, <3>1 DEF Spoken
    <3>2. CASE u = t /\ joint'[u] = row
      BY <2>1, <2>3, <3>2 DEF t
    <3>. QED BY <2>4, <3>1, <3>2
  <2>. QED BY <1>2, <2>5
<1>5. CASE p = 0
  BY <1>1, <1>2, <1>3, <1>5
<1>. QED BY <1>4, <1>5

LEMMA PartnerReturnsFollows ==
  ASSUME Sound(adult), NEW t \in Ticket \union {0}, NEW p \in Program, PartnerReturns(t, p)
  PROVE  Sound(adult') /\ Follows(adult, adult')
<1>. DEFINE m == Aged(adult)
<1>1. Sound(m) /\ Follows(adult, m)
  BY AgedSound
<1>2. CASE adult' = Attached(adult, p)
  BY <1>2, AttachedSound
<1>3. CASE adult' = m
  BY <1>1, <1>3
<1>4. CASE t \in DOMAIN m.bank /\ adult' = Delayed(m, t)
  <2>. HIDE DEF m
  <2>1. Sound(adult') /\ Follows(m, adult')
    BY <1>1, <1>4, DelayedSound
  <2>. QED BY <1>1, <2>1, FollowsOn
<1>5. \/ adult' = Attached(adult, p) \/ adult' = m
      \/ t \in DOMAIN m.bank /\ adult' = Delayed(m, t)
  BY DEF PartnerReturns
<1>. QED BY <1>2, <1>3, <1>4, <1>5

LEMMA JointReturnsFollows ==
  ASSUME Sound(adult), Spoken(joint, adult), NEW t \in Ticket, NEW p \in Program,
         JointReturns(t, p)
  PROVE  Sound(adult') /\ Follows(adult, adult') /\ Spoken(joint', adult')
<1>. DEFINE m == Aged(adult)
            j == Synchronized(joint, adult)
<1>1. Sound(m) /\ Follows(adult, m)
  BY AgedSound
<1>2. /\ joint' = Only(j, DOMAIN j \ {t})
      /\ adult' = Attached(adult, p) \/ (t \in DOMAIN m.bank /\ adult' = Delayed(m, t))
  BY DEF JointReturns
<1>3. Sound(adult') /\ Follows(adult, adult')
  <2>1. CASE adult' = Attached(adult, p)
    BY <2>1, AttachedSound
  <2>2. CASE t \in DOMAIN m.bank /\ adult' = Delayed(m, t)
    <3>. HIDE DEF m
    <3>1. Sound(adult') /\ Follows(m, adult')
      BY <1>1, <2>2, DelayedSound
    <3>. QED BY <1>1, <3>1, FollowsOn
  <2>. QED BY <1>2, <2>1, <2>2
<1>4. Spoken(joint, adult')
  BY <1>3, SpokenOn
<1>5. Spoken(j, adult')
  BY <1>4, SpokenOfSome DEF Synchronized
<1>. HIDE DEF j
<1>6. Spoken(joint', adult')
  BY <1>2, <1>5, SpokenOfSome
<1>. QED BY <1>3, <1>6

\* What the processes hear.
Hears ==
  \/ Utterance("none") \/ Utterance("open")
  \/ QuietMoment
  \/ \E c \in Partner, p \in Program \union {0} :
       \/ \E roled \in BOOLEAN : Reply(c, roled, p)
       \/ Remembered(c, p)
       \/ Stage(c, p)
  \/ \E t \in Ticket \union {0}, p \in Program : PartnerReturns(t, p)
  \/ \E t \in Ticket, p \in Program : JointReturns(t, p)

LEMMA HearsFollows ==
  ASSUME Sound(adult), Spoken(joint, adult), Hears
  PROVE  /\ Sound(adult') /\ Follows(adult, adult') /\ Spoken(joint', adult')
         /\ UNCHANGED stored
<1>1. UNCHANGED stored
  BY DEF Hears, Utterance, QuietMoment, Reply, Remembered, Stage, PartnerReturns, JointReturns
<1>2. ASSUME NEW i \in {"none", "open"}, Utterance(i)
      PROVE  Sound(adult') /\ Follows(adult, adult') /\ Spoken(joint', adult')
  <2>1. Sound(adult') /\ Follows(adult, adult') /\ joint' = joint
    BY <1>2, UtteranceFollows DEF Utterance
  <2>2. Spoken(joint, adult')
    BY <2>1, SpokenOn
  <2>. QED BY <2>1, <2>2
<1>3. CASE QuietMoment
  <2>1. Sound(adult') /\ Follows(adult, adult') /\ joint' = joint
    BY <1>3, QuietFollows DEF QuietMoment
  <2>2. Spoken(joint, adult')
    BY <2>1, SpokenOn
  <2>. QED BY <1>1, <2>1, <2>2
<1>4. ASSUME NEW c \in Partner, NEW p \in Program \union {0}, NEW roled \in BOOLEAN,
             Reply(c, roled, p)
      PROVE  Sound(adult') /\ Follows(adult, adult') /\ Spoken(joint', adult')
  <2>1. Sound(adult') /\ Follows(adult, adult')
    BY <1>4, ReplyFollows
  <2>2. joint' = joint
    BY <1>4 DEF Reply
  <2>. QED BY <2>1, <2>2, SpokenOn
<1>5. ASSUME NEW c \in Partner, NEW p \in Program \union {0}, Remembered(c, p)
      PROVE  Sound(adult') /\ Follows(adult, adult') /\ Spoken(joint', adult')
  <2>1. Sound(adult') /\ Follows(adult, adult')
    BY <1>5, RememberedFollows
  <2>2. joint' = joint
    BY <1>5 DEF Remembered
  <2>. QED BY <2>1, <2>2, SpokenOn
<1>6. ASSUME NEW c \in Partner, NEW p \in Program \union {0}, Stage(c, p)
      PROVE  Sound(adult') /\ Follows(adult, adult') /\ Spoken(joint', adult')
  BY <1>6, StageFollows
<1>7. ASSUME NEW t \in Ticket \union {0}, NEW p \in Program, PartnerReturns(t, p)
      PROVE  Sound(adult') /\ Follows(adult, adult') /\ Spoken(joint', adult')
  <2>1. Sound(adult') /\ Follows(adult, adult')
    BY <1>7, PartnerReturnsFollows
  <2>2. joint' = joint
    BY <1>7 DEF PartnerReturns
  <2>. QED BY <2>1, <2>2, SpokenOn
<1>8. ASSUME NEW t \in Ticket, NEW p \in Program, JointReturns(t, p)
      PROVE  Sound(adult') /\ Follows(adult, adult') /\ Spoken(joint', adult')
  BY <1>8, JointReturnsFollows
<1>. QED BY <1>1, <1>2, <1>3, <1>4, <1>5, <1>6, <1>7, <1>8 DEF Hears

LEMMA HeardOrSaved ==
  PartnerNext => Hears \/ Leave \/ KillProcess \/ ReopenProcess
BY DEF PartnerNext, Hears

\* The partner that restore brings back binds no ticket.
LEMMA ReopenedSound ==
  ASSUME NEW m, Sound(m), NEW j, Spoken(j, m)
  PROVE  Sound(Reopened(m)) /\ Spoken(j, Reopened(m))
<1>. DEFINE c == IF m.role # <<>> THEN m.role.partner
                 ELSE IF m.action # <<>> THEN m.action.partner ELSE 0
            n == [m EXCEPT !.partner = c]
<1>1. m \in Adult /\ m.role \in Roles /\ m.action \in Actions
  BY AdultFields DEF Sound
<1>2. c \in Nat
  BY <1>1, RoleIs, ActionIs
<1>. HIDE DEF c
<1>3. /\ n \in Adult /\ n.ticket = m.ticket /\ n.next = m.next /\ n.inquiry = m.inquiry
      /\ n.role = m.role /\ n.action = m.action /\ n.bank = m.bank /\ n.tick = m.tick
      /\ n.returns = m.returns /\ n.roleReturns = m.roleReturns
  BY <1>1, <1>2 DEF Adult
<1>4. Reopened(m) = n
  BY DEF Reopened, c
<1>. HIDE DEF n
<1>5. Sound(n)
  BY <1>3 DEF Sound, TicketsRestorable, RoleFits, Unspent
<1>6. Spoken(j, n)
  BY <1>3 DEF Spoken
<1>. QED BY <1>4, <1>5, <1>6

LEMMA PartnerStep ==
  ASSUME PartnerInv, [PartnerNext]_partnerVars
  PROVE  PartnerInv'
<1>. USE DEF PartnerInv
<1>1. CASE Hears
  BY <1>1, HearsFollows
<1>2. CASE Leave
  <2>1. Sound(adult') /\ Follows(adult, adult')
    BY <1>2, AgedSound, FollowsItself DEF Leave
  <2>2. Spoken(joint, adult')
    BY <2>1, SpokenOn
  <2>3. Spoken(joint', adult')
    BY <1>2, <2>2, SpokenOfSome DEF Leave, Synchronized
  <2>4. stored' = [adult |-> adult', joint |-> joint']
    BY <1>2 DEF Leave
  <2>. QED BY <2>1, <2>3, <2>4
<1>3. CASE KillProcess
  BY <1>3 DEF KillProcess
<1>4. CASE ReopenProcess
  <2>1. /\ adult' = Reopened(stored.adult) /\ stored' = stored
        /\ joint' = Only(stored.joint, DOMAIN stored.adult.bank \union {stored.adult.ticket})
    BY <1>4 DEF ReopenProcess, Synchronized
  <2>2. Sound(adult') /\ Spoken(stored.joint, adult')
    BY <2>1, ReopenedSound
  <2>. QED BY <2>1, <2>2, SpokenOfSome
<1>5. CASE UNCHANGED partnerVars
  BY <1>5 DEF partnerVars
<1>. QED BY <1>1, <1>2, <1>3, <1>4, <1>5, HeardOrSaved

LEMMA PartnerSafe == PartnerSpec => []PartnerInv
BY InitSound, PartnerStep, PTL DEF PartnerSpec

\* A row of the joint-attention memory and the adult's record of the same ticket
\* name the same program and partner: stage, synchronize_pending and restore keep
\* the memory's rows to tickets the adult minted.
THEOREM RowsSayWhatWasChosen == PartnerSpec => []OwnedAsSpoken
<1>1. PartnerInv => OwnedAsSpoken
  BY DEF PartnerInv, Spoken, OwnedAsSpoken
<1>. QED BY <1>1, PartnerSafe, PTL

\* experience_partner_choice credits a ticket with one return at most, and the role
\* of its reply with one, attached, delayed or through the memory.
THEOREM TicketsReturnOnce == PartnerSpec => []ReturnedOnce
<1>1. PartnerInv => ReturnedOnce
  BY DEF PartnerInv, Sound, Unspent, ReturnedOnce
<1>. QED BY <1>1, PartnerSafe, PTL

\* Whenever the adult is saved, restore accepts its tickets, bank, action and inquiry.
THEOREM TicketsCanBeSaved == PartnerSpec => []TicketsOutliveSave
<1>1. PartnerInv => TicketsOutliveSave
  BY DEF PartnerInv, Sound, TicketsOutliveSave
<1>. QED BY <1>1, PartnerSafe, PTL

\* An action leaves the bank by its return or at the end of its life: no step of a
\* running process drops it to make room.
THEOREM ActionsWaitTheirTurn == PartnerSpec => WaitsItsTurn
<1>. DEFINE Kept == running /\ running' =>
       \A t \in DOMAIN adult.bank :
         \/ t \in DOMAIN adult'.bank
         \/ adult'.returns[t] > adult.returns[t]
         \/ adult.bank[t].born + TicketLife <= adult'.tick
<1>1. PartnerInv /\ [PartnerNext]_partnerVars => [Kept]_partnerVars
  <2>. SUFFICES ASSUME PartnerInv, PartnerNext PROVE Kept
    BY DEF Kept
  <2>1. CASE Hears
    <3>1. Follows(adult, adult')
      BY <2>1, HearsFollows DEF PartnerInv
    <3>. QED BY <3>1 DEF Follows
  <2>2. CASE Leave \/ KillProcess \/ ReopenProcess
    BY <2>2 DEF Leave, KillProcess, ReopenProcess
  <2>. QED BY <2>1, <2>2, HeardOrSaved
<1>. QED BY <1>1, PartnerSafe, PTL DEF PartnerSpec, WaitsItsTurn

-----------------------------------------------------------------------------
(* DialogueReceipts: types.                                                     *)

Said    == Surface \union {"silence", "plain"}
Answers == [surface: Said, act: 0 .. MaxActs, turn: Nat]
Waiting == [act: ActNumber, says: Surface]
Motors  == Seq(Surface \union {"plain"})

Life == [acts: 0 .. MaxActs, dialogue: SUBSET Waiting, context: SUBSET Waiting,
         lexical: SUBSET Waiting, need: SUBSET Waiting, recent: SUBSET ActNumber,
         owed: SUBSET ActNumber, echoed: SUBSET ActNumber,
         commit: [of: 0 .. MaxActs, ready: BOOLEAN], credit: [ActNumber -> Nat],
         accepted: SUBSET ActNumber, cursor: [Talk -> Answers]]

-----------------------------------------------------------------------------
(* What a life owes its acts.                                                   *)

\* An act that still waits - as a receipt, or echoed and without consequence - was
\* performed, waits in one place, and has no credit; nothing is credited twice.
Creditable(l) ==
  /\ \A r \in l.dialogue \union l.lexical :
       r.act <= l.acts /\ r.act \notin l.owed /\ l.credit[r.act] = 0
  /\ \A r \in l.dialogue, q \in l.lexical : r.act # q.act
  /\ \A a \in ActNumber :
       /\ l.credit[a] <= 1
       /\ a \in l.owed => a <= l.acts /\ l.credit[a] = 0
       /\ l.credit[a] # 0 => a <= l.acts

Earned(l) == l.commit.ready => l.commit.of \in l.accepted

Lived(l) == l \in Life /\ Creditable(l) /\ Earned(l)

\* What a life may become, with what it says.
Spoke(r) == Lived(r.life) /\ r.motor \in Motors

LEMMA LifeFields ==
  ASSUME NEW l \in Life
  PROVE  /\ l.acts \in 0 .. MaxActs
         /\ l.dialogue \subseteq Waiting /\ l.context \subseteq Waiting
         /\ l.lexical \subseteq Waiting /\ l.need \subseteq Waiting
         /\ l.recent \subseteq ActNumber /\ l.owed \subseteq ActNumber
         /\ l.echoed \subseteq ActNumber
         /\ l.commit \in [of: 0 .. MaxActs, ready: BOOLEAN]
         /\ l.credit \in [ActNumber -> Nat] /\ l.accepted \subseteq ActNumber
         /\ l.cursor \in [Talk -> Answers] /\ MaxActs \in Nat
BY ReceiptAssumption DEF Life

LEMMA NumberIs ==
  ASSUME NEW a \in ActNumber
  PROVE  a \in Nat \ {0} /\ a <= MaxActs /\ MaxActs \in Nat
BY ReceiptAssumption DEF ActNumber

-----------------------------------------------------------------------------
(* DialogueReceipts: settling.                                                  *)

LEMMA ReafferencedLived ==
  ASSUME NEW l, Lived(l), NEW r \in l.dialogue
  PROVE  Lived(Reafferenced(l, r.act))
<1>. DEFINE a == r.act
            n == Reafferenced(l, a)
<1>1. /\ l \in Life /\ Creditable(l) /\ Earned(l) /\ a \in ActNumber
      /\ a <= l.acts /\ l.credit[a] = 0
  BY LifeFields DEF Lived, Waiting, Creditable
<1>2. PICK k \in SUBSET ActNumber :
        Archived(l, a) = [l EXCEPT !.dialogue = WithoutAct(@, a), !.recent = k,
                                   !.owed = @ \intersect k]
  <2>. DEFINE all == l.recent \union {a}
              k == IF Cardinality(all) > RecentBank THEN all \ {Min(all)} ELSE all
  <2>1. k \in SUBSET ActNumber
    BY <1>1, LifeFields
  <2>2. Archived(l, a) = [l EXCEPT !.dialogue = WithoutAct(@, a), !.recent = k,
                                   !.owed = @ \intersect k]
    BY DEF Archived
  <2>. QED BY <2>1, <2>2
<1>3. /\ WithoutAct(l.dialogue, a) \subseteq l.dialogue
      /\ \A q \in WithoutAct(l.dialogue, a) : q.act # a
  BY DEF WithoutAct
<1>4. n = [l EXCEPT !.dialogue = WithoutAct(@, a), !.recent = k,
                    !.owed = (@ \intersect k) \union {a}]
  BY <1>1, <1>2 DEF Reafferenced, Life
<1>. HIDE DEF n, a
<1>5. /\ n \in Life /\ n.dialogue = WithoutAct(l.dialogue, a) /\ n.lexical = l.lexical
      /\ n.owed = (l.owed \intersect k) \union {a} /\ n.acts = l.acts
      /\ n.credit = l.credit /\ n.commit = l.commit /\ n.accepted = l.accepted
  BY <1>1, <1>3, <1>4 DEF Life
<1>6. \A q \in l.lexical : q.act # a
  BY <1>1 DEF Creditable, a
<1>7. Creditable(n)
  BY <1>1, <1>3, <1>5, <1>6 DEF Creditable
<1>8. Earned(n)
  BY <1>1, <1>5 DEF Earned
<1>. QED BY <1>5, <1>7, <1>8 DEF Lived, n, a

LEMMA EchoedLived ==
  ASSUME NEW l, Lived(l), NEW u
  PROVE  Lived(Echoed(l, u).life)
<1>. DEFINE pending == Bearing(l.dialogue \union l.context \union Asked(l), u)
            r == CHOOSE x \in pending : TRUE
<1>1. CASE Cardinality(pending) # 1
  BY <1>1 DEF Echoed
<1>2. CASE Cardinality(pending) = 1 /\ r \in l.context
  <2>. DEFINE n == [l EXCEPT !.context = @ \ {r}]
  <2>1. Echoed(l, u).life = n
    BY <1>2 DEF Echoed
  <2>. HIDE DEF r
  <2>2. /\ n \in Life /\ n.dialogue = l.dialogue /\ n.lexical = l.lexical /\ n.owed = l.owed
        /\ n.acts = l.acts /\ n.credit = l.credit /\ n.commit = l.commit /\ n.accepted = l.accepted
    BY DEF Life, Lived
  <2>. HIDE DEF n
  <2>3. Lived(n)
    BY <2>2 DEF Lived, Creditable, Earned
  <2>. QED BY <2>1, <2>3
<1>3. CASE Cardinality(pending) = 1 /\ r \notin l.context
  <2>1. Echoed(l, u).life = IF r \in l.dialogue THEN Reafferenced(l, r.act) ELSE l
    BY <1>3 DEF Echoed
  <2>. HIDE DEF r
  <2>. QED BY <2>1, ReafferencedLived
<1>. QED BY <1>1, <1>2, <1>3

\* Credit for an act that waits and no longer will.
LEMMA CreditedLived ==
  ASSUME NEW l, Lived(l), NEW a \in ActNumber, NEW ok, NEW n \in Life,
         l.credit[a] = 0, a <= l.acts,
         n.credit = [l.credit EXCEPT ![a] = @ + 1], n.acts = l.acts,
         n.accepted = IF ok THEN l.accepted \union {a} ELSE l.accepted,
         n.owed \subseteq l.owed \ {a}, n.dialogue \subseteq l.dialogue, n.lexical \subseteq l.lexical,
         \A r \in n.dialogue \union n.lexical : r.act # a,
         n.commit = l.commit \/ (ok /\ n.commit.of = a)
  PROVE  Lived(n)
<1>1. l \in Life /\ Creditable(l) /\ Earned(l)
  BY DEF Lived
<1>2. \A b \in ActNumber : n.credit[b] = IF b = a THEN 1 ELSE l.credit[b]
  BY <1>1, LifeFields
<1>3. \A r \in n.dialogue \union n.lexical : r.act \in ActNumber
  BY LifeFields DEF Waiting
<1>4. Creditable(n)
  BY <1>1, <1>2, <1>3 DEF Creditable
<1>5. Earned(n)
  BY <1>1 DEF Earned
<1>. QED BY <1>4, <1>5 DEF Lived

\* n is l with credit for a, and nothing else.
Credits(l, n, a, ok) ==
  /\ n \in Life /\ n.credit = [l.credit EXCEPT ![a] = @ + 1]
  /\ n.accepted = IF ok THEN l.accepted \union {a} ELSE l.accepted
  /\ n.acts = l.acts /\ n.dialogue = l.dialogue /\ n.lexical = l.lexical
  /\ n.owed = l.owed /\ n.commit = l.commit

LEMMA ActCreditedIs ==
  ASSUME NEW l \in Life, NEW a \in ActNumber, NEW ok
  PROVE  Credits(l, ActCredited(l, a, ok), a, ok)
<1>. DEFINE c == [l.credit EXCEPT ![a] = @ + 1]
            s == IF ok THEN l.accepted \union {a} ELSE l.accepted
            n == ActCredited(l, a, ok)
<1>1. l.credit \in [ActNumber -> Nat] /\ l.accepted \subseteq ActNumber
  BY LifeFields
<1>2. c \in [ActNumber -> Nat] /\ s \subseteq ActNumber
  BY <1>1
<1>3. n = [l EXCEPT !.credit = c, !.accepted = s]
  BY DEF ActCredited
<1>. HIDE DEF c, s, n
<1>4. /\ n \in Life /\ n.credit = c /\ n.accepted = s
      /\ n.acts = l.acts /\ n.dialogue = l.dialogue /\ n.lexical = l.lexical
      /\ n.owed = l.owed /\ n.commit = l.commit
  BY <1>2, <1>3 DEF Life
<1>5. Credits(l, n, a, ok)
  BY <1>4 DEF c, s, Credits
<1>. QED BY <1>5 DEF n

\* settle_tool_result: an act in the memory has no receipt any more, so that its
\* credit and its absence from the owed are one step.
LEMMA ResultedLived ==
  ASSUME NEW l, Lived(l), NEW a \in ActNumber, NEW ok, NEW n \in Resulted(l, a, ok)
  PROVE  Lived(n)
<1>. DEFINE credited == ActCredited(l, a, ok)
            returned == [credited EXCEPT !.owed = @ \ {a}]
<1>1. l \in Life /\ Creditable(l) /\ Earned(l)
  BY DEF Lived
<1>2. /\ credited \in Life /\ credited.credit = [l.credit EXCEPT ![a] = @ + 1]
      /\ credited.accepted = IF ok THEN l.accepted \union {a} ELSE l.accepted
      /\ credited.acts = l.acts /\ credited.dialogue = l.dialogue /\ credited.lexical = l.lexical
      /\ credited.owed = l.owed /\ credited.commit = l.commit
  <2>1. Credits(l, credited, a, ok)
    BY <1>1, ActCreditedIs
  <2>. QED BY <2>1 DEF Credits
<1>. HIDE DEF credited
<1>3. /\ returned \in Life /\ returned.credit = credited.credit /\ returned.accepted = credited.accepted
      /\ returned.acts = l.acts /\ returned.dialogue = l.dialogue /\ returned.lexical = l.lexical
      /\ returned.owed = l.owed \ {a} /\ returned.commit = l.commit
  BY <1>2 DEF Life
<1>. HIDE DEF returned
<1>4. CASE Returnable(l, a)
  <2>1. a \in l.owed /\ a <= l.acts /\ l.credit[a] = 0
    BY <1>1, <1>4 DEF Returnable, Creditable
  <2>2. \A r \in l.dialogue \union l.lexical : r.act # a
    BY <1>1, <2>1 DEF Creditable
  <2>3. Lived(returned)
    BY <1>2, <1>3, <2>1, <2>2, CreditedLived
  <2>4. n = returned \/ (ok /\ n = Released(returned, a))
    BY <1>4 DEF Resulted, Returnable, returned, credited
  <2>5. CASE ok /\ returned.commit.of = a /\ n = [returned EXCEPT !.commit.ready = TRUE]
    <3>1. returned.commit \in [of: 0 .. MaxActs, ready: BOOLEAN]
      BY <1>3, LifeFields
    <3>. DEFINE c == [returned.commit EXCEPT !.ready = TRUE]
    <3>2. c \in [of: 0 .. MaxActs, ready: BOOLEAN] /\ c.of = a
      BY <2>5, <3>1
    <3>3. n = [returned EXCEPT !.commit = c]
      BY <2>5
    <3>. HIDE DEF c
    <3>4. /\ n \in Life /\ n.credit = credited.credit /\ n.accepted = credited.accepted
          /\ n.acts = l.acts /\ n.dialogue = l.dialogue /\ n.lexical = l.lexical
          /\ n.owed = l.owed \ {a} /\ n.commit = c
      BY <1>3, <3>2, <3>3 DEF Life
    <3>5. /\ n.credit = [l.credit EXCEPT ![a] = @ + 1] /\ n.acts = l.acts
          /\ n.accepted = IF ok THEN l.accepted \union {a} ELSE l.accepted
          /\ n.owed \subseteq l.owed \ {a} /\ n.dialogue \subseteq l.dialogue
          /\ n.lexical \subseteq l.lexical /\ ok /\ n.commit.of = a
          /\ \A r \in n.dialogue \union n.lexical : r.act # a
      BY <1>2, <2>2, <2>5, <3>2, <3>4
    <3>. QED BY <2>1, <3>4, <3>5, CreditedLived
  <2>. QED BY <2>3, <2>4, <2>5 DEF Released
<1>5. CASE ~Returnable(l, a)
  <2>1. \/ n = [l EXCEPT !.echoed = @ \union {a}]
        \/ n = [l EXCEPT !.lexical = WithoutAct(@, a), !.need = WithoutAct(@, a), !.echoed = @ \ {a}]
    BY <1>5 DEF Resulted
  <2>2. /\ WithoutAct(l.lexical, a) \subseteq l.lexical /\ WithoutAct(l.need, a) \subseteq l.need
        /\ l.echoed \union {a} \subseteq ActNumber /\ l.echoed \ {a} \subseteq ActNumber
        /\ l.lexical \subseteq Waiting /\ l.need \subseteq Waiting
    BY <1>1, LifeFields DEF WithoutAct
  <2>3. /\ n \in Life /\ n.dialogue = l.dialogue /\ n.lexical \subseteq l.lexical /\ n.owed = l.owed
        /\ n.acts = l.acts /\ n.credit = l.credit /\ n.commit = l.commit /\ n.accepted = l.accepted
    <3>1. CASE n = [l EXCEPT !.echoed = @ \union {a}]
      BY <1>1, <2>2, <3>1 DEF Life
    <3>2. CASE n = [l EXCEPT !.lexical = WithoutAct(@, a), !.need = WithoutAct(@, a),
                             !.echoed = @ \ {a}]
      <4>. DEFINE x == WithoutAct(l.lexical, a)
                  y == WithoutAct(l.need, a)
                  z == l.echoed \ {a}
      <4>1. x \subseteq l.lexical /\ x \subseteq Waiting /\ y \subseteq Waiting /\ z \subseteq ActNumber
        BY <2>2
      <4>2. n = [l EXCEPT !.lexical = x, !.need = y, !.echoed = z]
        BY <3>2
      <4>. HIDE DEF x, y, z
      <4>. QED BY <1>1, <4>1, <4>2 DEF Life
    <3>. QED BY <2>1, <3>1, <3>2
  <2>. QED BY <1>1, <2>3 DEF Lived, Creditable, Earned
<1>. QED BY <1>4, <1>5
-----------------------------------------------------------------------------
(* DialogueReceipts: speaking.                                                  *)

Commits == [of: 0 .. MaxActs, ready: BOOLEAN]

\* A new act takes a number that nothing was credited under, and waits in one place.
LEMMA PerformedLived ==
  ASSUME NEW l, Lived(l), NEW n \in Life, NEW r \in Waiting, r.act = l.acts + 1,
         n.acts = l.acts + 1, n.credit = l.credit, n.accepted = l.accepted, n.owed = l.owed,
         \/ n.dialogue = l.dialogue \union {r} /\ n.lexical = l.lexical
         \/ n.dialogue = l.dialogue /\ n.lexical \subseteq l.lexical \union {r},
         n.commit = l.commit \/ n.commit.ready = FALSE
  PROVE  Lived(n)
<1>1. /\ l \in Life /\ Creditable(l) /\ Earned(l) /\ l.acts \in Nat /\ r.act \in ActNumber
      /\ l.owed \subseteq ActNumber
  BY LifeFields DEF Lived, Waiting
<1>2. \A q \in l.dialogue \union l.lexical : q.act \in Nat /\ q.act <= l.acts
  BY <1>1, LifeFields, NumberIs DEF Creditable, Waiting
<1>3. l.credit[r.act] = 0 /\ r.act \notin l.owed
  <2>1. ~(r.act <= l.acts)
    BY <1>1
  <2>. QED BY <1>1, <2>1 DEF Creditable
<1>4. \A a \in ActNumber : a \in Nat /\ (a <= l.acts => a <= n.acts)
  BY <1>1, NumberIs
<1>5. \A q \in l.dialogue \union l.lexical : q.act # r.act /\ q.act <= n.acts
  BY <1>1, <1>2
<1>6. r.act <= n.acts
  BY <1>1
<1>7. \A q \in n.dialogue \union n.lexical :
        q.act <= n.acts /\ q.act \notin n.owed /\ n.credit[q.act] = 0
  BY <1>1, <1>3, <1>5, <1>6 DEF Creditable
<1>8. \A p \in n.dialogue, q \in n.lexical : p.act # q.act
  BY <1>1, <1>5 DEF Creditable
<1>9. Creditable(n)
  BY <1>1, <1>4, <1>7, <1>8 DEF Creditable
<1>10. Earned(n)
  BY <1>1 DEF Earned
<1>. QED BY <1>9, <1>10 DEF Lived

LEMMA ReceiptIs ==
  ASSUME NEW l, Lived(l), l.acts < MaxActs, NEW u \in Surface
  PROVE  /\ Receipt(l, u) \in Waiting /\ Receipt(l, u).act = l.acts + 1
         /\ l.acts + 1 \in 0 .. MaxActs /\ <<u>> \in Motors
<1>1. l.acts \in 0 .. MaxActs /\ MaxActs \in Nat
  BY LifeFields DEF Lived
<1>2. l.acts + 1 \in ActNumber /\ l.acts + 1 \in 0 .. MaxActs
  BY <1>1 DEF ActNumber
<1>. QED BY <1>2 DEF Receipt, Waiting, Motors

LEMMA SilentSpoke ==
  ASSUME NEW l, Lived(l)
  PROVE  Spoke(Silent(l))
BY DEF Silent, Spoke, Motors

LEMMA DialogueSpoke ==
  ASSUME NEW l, Lived(l), l.acts < MaxActs, NEW u \in Surface, NEW c \in Commits,
         c = l.commit \/ c.ready = FALSE
  PROVE  Spoke(Dialogue(l, u, c))
<1>. DEFINE r == Receipt(l, u)
            n == [Acted(l) EXCEPT !.dialogue = @ \union {r}, !.commit = c]
<1>1. /\ r \in Waiting /\ r.act = l.acts + 1 /\ l.acts + 1 \in 0 .. MaxActs /\ <<u>> \in Motors
      /\ l \in Life
  BY ReceiptIs DEF Lived
<1>2. Dialogue(l, u, c) = [life |-> n, motor |-> <<u>>]
  BY DEF Dialogue
<1>. HIDE DEF r
<1>3. /\ n \in Life /\ n.acts = l.acts + 1 /\ n.credit = l.credit /\ n.accepted = l.accepted
      /\ n.owed = l.owed /\ n.dialogue = l.dialogue \union {r} /\ n.lexical = l.lexical
      /\ n.commit = c
  BY <1>1 DEF Acted, Life, Commits
<1>. HIDE DEF n
<1>4. Lived(n)
  BY <1>1, <1>3, PerformedLived
<1>. QED BY <1>1, <1>2, <1>4 DEF Spoke

LEMMA AwaitingIs ==
  ASSUME NEW l, Lived(l), l.acts < MaxActs
  PROVE  Awaiting(l) \in Commits /\ Awaiting(l).ready = FALSE
<1>1. l.acts \in 0 .. MaxActs /\ MaxActs \in Nat
  BY LifeFields DEF Lived
<1>2. l.acts + 1 \in 0 .. MaxActs
  BY <1>1
<1>. QED BY <1>2 DEF Awaiting, Commits

LEMMA DialoguesSpoke ==
  ASSUME NEW l, Lived(l), NEW s \in Dialogues(l)
  PROVE  Spoke(s)
<1>1. PICK u \in Surface, c \in {l.commit, Awaiting(l)} : s = Dialogue(l, u, c) /\ l.acts < MaxActs
  BY DEF Dialogues, CanAct
<1>2. c \in Commits /\ (c = l.commit \/ c.ready = FALSE)
  <2>1. l.commit \in Commits
    BY LifeFields DEF Lived, Commits
  <2>2. Awaiting(l) \in Commits /\ Awaiting(l).ready = FALSE
    BY <1>1, AwaitingIs
  <2>3. c = l.commit \/ c = Awaiting(l)
    OBVIOUS
  <2>. QED BY <2>1, <2>2, <2>3
<1>. QED BY <1>1, <1>2, DialogueSpoke

LEMMA ContextsSpoke ==
  ASSUME NEW l, Lived(l), NEW s \in Contexts(l)
  PROVE  Spoke(s)
<1>1. PICK u \in Surface :
        /\ l.acts < MaxActs
        /\ s = [life |-> [Acted(l) EXCEPT !.context = @ \union {Receipt(l, u)}], motor |-> <<u>>]
  BY DEF Contexts, CanAct
<1>. DEFINE r == Receipt(l, u)
            n == [Acted(l) EXCEPT !.context = @ \union {r}]
<1>2. /\ r \in Waiting /\ r.act = l.acts + 1 /\ l.acts + 1 \in 0 .. MaxActs /\ <<u>> \in Motors
      /\ l \in Life
  BY <1>1, ReceiptIs DEF Lived
<1>3. s = [life |-> n, motor |-> <<u>>]
  BY <1>1
<1>. HIDE DEF r
<1>4. /\ n \in Life /\ n.acts = l.acts + 1 /\ n.credit = l.credit /\ n.accepted = l.accepted
      /\ n.owed = l.owed /\ n.dialogue = l.dialogue /\ n.lexical \subseteq l.lexical \union {r}
      /\ n.commit = l.commit
  BY <1>2 DEF Acted, Life
<1>. HIDE DEF n
<1>5. Lived(n)
  BY <1>2, <1>4, PerformedLived
<1>. QED BY <1>2, <1>3, <1>5 DEF Spoke

LEMMA LexicalsSpoke ==
  ASSUME NEW l, Lived(l), NEW s \in Lexicals(l)
  PROVE  Spoke(s)
<1>1. PICK u \in Surface :
        /\ l.acts < MaxActs
        /\ s = [life |-> [Acted(l) EXCEPT !.lexical = {Receipt(l, u)}], motor |-> <<u>>]
  BY DEF Lexicals
<1>. DEFINE r == Receipt(l, u)
            n == [Acted(l) EXCEPT !.lexical = {r}]
<1>2. /\ r \in Waiting /\ r.act = l.acts + 1 /\ l.acts + 1 \in 0 .. MaxActs /\ <<u>> \in Motors
      /\ l \in Life
  BY <1>1, ReceiptIs DEF Lived
<1>3. s = [life |-> n, motor |-> <<u>>]
  BY <1>1
<1>. HIDE DEF r
<1>4. /\ n \in Life /\ n.acts = l.acts + 1 /\ n.credit = l.credit /\ n.accepted = l.accepted
      /\ n.owed = l.owed /\ n.dialogue = l.dialogue /\ n.lexical \subseteq l.lexical \union {r}
      /\ n.commit = l.commit
  BY <1>2 DEF Acted, Life
<1>. HIDE DEF n
<1>5. Lived(n)
  BY <1>2, <1>4, PerformedLived
<1>. QED BY <1>2, <1>3, <1>5 DEF Spoke

LEMMA InquiriesSpoke ==
  ASSUME NEW l, Lived(l), NEW s \in Inquiries(l)
  PROVE  Spoke(s)
<1>1. PICK u \in Surface :
        /\ l.acts < MaxActs
        /\ s = [life |-> [Acted(l) EXCEPT !.need = {Receipt(l, u)}], motor |-> <<u>>]
  BY DEF Inquiries, CanAct
<1>. DEFINE r == Receipt(l, u)
            n == [Acted(l) EXCEPT !.need = {r}]
<1>2. /\ r \in Waiting /\ r.act = l.acts + 1 /\ l.acts + 1 \in 0 .. MaxActs /\ <<u>> \in Motors
      /\ l \in Life
  BY <1>1, ReceiptIs DEF Lived
<1>3. s = [life |-> n, motor |-> <<u>>]
  BY <1>1
<1>. HIDE DEF r
<1>4. /\ n \in Life /\ n.acts = l.acts + 1 /\ n.credit = l.credit /\ n.accepted = l.accepted
      /\ n.owed = l.owed /\ n.dialogue = l.dialogue /\ n.lexical \subseteq l.lexical \union {r}
      /\ n.commit = l.commit
  BY <1>2 DEF Acted, Life
<1>. HIDE DEF n
<1>5. Lived(n)
  BY <1>2, <1>4, PerformedLived
<1>. QED BY <1>2, <1>3, <1>5 DEF Spoke

\* A lexical inquiry that a contact answers is credited and gone.
LEMMA BorneLived ==
  ASSUME NEW l, Lived(l), NEW m \in Borne(l)
  PROVE  Lived(m)
<1>1. CASE m = l
  BY <1>1
<1>2. ASSUME NEW r \in l.lexical,
             m = [ActCredited(l, r.act, TRUE) EXCEPT !.lexical = {}, !.echoed = @ \ {r.act}]
      PROVE  Lived(m)
  <2>. DEFINE a == r.act
              k == ActCredited(l, a, TRUE)
  <2>1. /\ a \in ActNumber /\ a <= l.acts /\ a \notin l.owed /\ l.credit[a] = 0 /\ l \in Life
        /\ \A q \in l.dialogue : q.act # a
    BY LifeFields DEF Lived, Creditable, Waiting
  <2>2. Credits(l, k, a, TRUE)
    BY <2>1, ActCreditedIs
  <2>3. m = [k EXCEPT !.lexical = {}, !.echoed = @ \ {a}]
    BY <1>2
  <2>. HIDE DEF a, k
  <2>4. /\ m \in Life /\ m.credit = k.credit /\ m.accepted = k.accepted /\ m.acts = k.acts
        /\ m.dialogue = k.dialogue /\ m.lexical = {} /\ m.owed = k.owed /\ m.commit = k.commit
    BY <2>2, <2>3 DEF Credits, Life
  <2>5. /\ m.credit = [l.credit EXCEPT ![a] = @ + 1] /\ m.acts = l.acts
        /\ m.accepted = l.accepted \union {a} /\ m.owed \subseteq l.owed \ {a}
        /\ m.dialogue \subseteq l.dialogue /\ m.lexical \subseteq l.lexical
        /\ \A q \in m.dialogue \union m.lexical : q.act # a
        /\ m.commit = l.commit
    BY <2>1, <2>2, <2>4 DEF Credits
  <2>6. m.accepted = IF TRUE THEN l.accepted \union {a} ELSE l.accepted
    BY <2>5
  <2>. QED BY <2>1, <2>4, <2>5, <2>6, CreditedLived
<1>. QED BY <1>1, <1>2 DEF Borne

LEMMA PageHeardSpoke ==
  ASSUME NEW l, Lived(l), NEW s \in PageHeard(l)
  PROVE  Spoke(s)
<1>1. PICK m \in Borne(l) : s \in {Silent(m)} \union Lexicals(m) \union Dialogues(m) \union Contexts(m)
  BY DEF PageHeard
<1>2. Lived(m)
  BY BorneLived
<1>. QED BY <1>1, <1>2, SilentSpoke, LexicalsSpoke, DialoguesSpoke, ContextsSpoke

LEMMA ContactedSpoke ==
  ASSUME NEW l, Lived(l), NEW s \in Contacted(l)
  PROVE  Spoke(s)
<1>1. CASE s \in PageHeard(l)
  BY <1>1, PageHeardSpoke
<1>2. ASSUME NEW h \in PageHeard(l), NEW i \in PageHeard(h.life),
             s = [life |-> i.life, motor |-> h.motor \o i.motor]
      PROVE  Spoke(s)
  <2>1. Spoke(h)
    BY PageHeardSpoke
  <2>2. Spoke(i)
    BY <2>1, PageHeardSpoke DEF Spoke
  <2>3. h.motor \o i.motor \in Motors
    BY <2>1, <2>2 DEF Spoke, Motors
  <2>. QED BY <1>2, <2>2, <2>3 DEF Spoke
<1>. QED BY <1>1, <1>2 DEF Contacted

LEMMA ContinuedSpoke ==
  ASSUME NEW l, Lived(l), NEW s \in Continued(l)
  PROVE  Spoke(s)
<1>1. CASE s = Silent(l)
  BY <1>1, SilentSpoke
<1>2. CASE s = Silent([l EXCEPT !.commit = [of |-> 0, ready |-> FALSE]])
  <2>. DEFINE n == [l EXCEPT !.commit = [of |-> 0, ready |-> FALSE]]
  <2>1. [of |-> 0, ready |-> FALSE] \in [of: 0 .. MaxActs, ready: BOOLEAN]
    BY ReceiptAssumption
  <2>2. /\ n \in Life /\ n.acts = l.acts /\ n.credit = l.credit /\ n.accepted = l.accepted
        /\ n.owed = l.owed /\ n.dialogue = l.dialogue /\ n.lexical = l.lexical
        /\ n.commit.ready = FALSE
    BY <2>1 DEF Life, Lived
  <2>. HIDE DEF n
  <2>3. Lived(n)
    BY <2>2 DEF Lived, Creditable, Earned
  <2>. QED BY <1>2, <2>3, SilentSpoke DEF n
<1>3. ASSUME NEW u \in Surface, l.acts < MaxActs, s = Dialogue(l, u, Awaiting(l))
      PROVE  Spoke(s)
  BY <1>3, AwaitingIs, DialogueSpoke
<1>. QED BY <1>1, <1>2, <1>3 DEF Continued, CanAct

LEMMA QuietSpoke ==
  ASSUME NEW l, Lived(l), NEW s \in QuietOpportunity(l)
  PROVE  Spoke(s)
<1>1. PICK c \in Continued(l) :
        \/ s = c
        \/ s = [c EXCEPT !.motor = <<"plain">>] /\ c.motor = <<>>
        \/ s \in Inquiries(c.life)
  BY DEF QuietOpportunity
<1>2. Spoke(c)
  BY ContinuedSpoke
<1>3. CASE s = [c EXCEPT !.motor = <<"plain">>]
  <2>1. DOMAIN c = {"life", "motor"}
    <3>1. \/ \E m : c = Silent(m)
          \/ \E u, k : c = Dialogue(l, u, k)
      BY DEF Continued
    <3>. QED BY <3>1 DEF Silent, Dialogue
  <2>2. s.life = c.life /\ s.motor = <<"plain">>
    BY <1>3, <2>1
  <2>. QED BY <1>2, <2>2 DEF Spoke, Motors
<1>4. CASE s \in Inquiries(c.life)
  BY <1>2, <1>4, InquiriesSpoke DEF Spoke
<1>. QED BY <1>1, <1>2, <1>3, <1>4

LEMMA ResponsesSpoke ==
  ASSUME NEW l, Lived(l), NEW s \in Responses(l)
  PROVE  Spoke(s)
<1>1. PICK h \in Contacted(l) : s = h \/ s \in QuietOpportunity(h.life)
  BY DEF Responses
<1>2. Spoke(h)
  BY ContactedSpoke
<1>. QED BY <1>1, <1>2, QuietSpoke DEF Spoke

-----------------------------------------------------------------------------
(* DialogueReceipts: requests.                                                  *)

LEMMA NewbornLived == ReceiptInit => Lived(life)
<1>. SUFFICES ASSUME ReceiptInit PROVE Lived(life)
  OBVIOUS
<1>1. life = Newborn /\ MaxActs \in Nat /\ 0 \in 0 .. MaxActs
  BY ReceiptAssumption DEF ReceiptInit
<1>2. NoAnswer \in Answers
  BY <1>1 DEF NoAnswer, Answers, Said
<1>3. Newborn \in Life
  BY <1>1, <1>2 DEF Newborn, Life
<1>4. Creditable(Newborn) /\ Earned(Newborn)
  BY DEF Newborn, Creditable, Earned
<1>. QED BY <1>1, <1>3, <1>4 DEF Lived

LEMMA AdmittedLived ==
  ASSUME Lived(life), NEW t \in Talk, NEW ok, NEW l \in Admitted(t, ok)
  PROVE  Lived(l)
<1>. DEFINE act == life.cursor[t].act
<1>1. act \in 0 .. MaxActs /\ MaxActs \in Nat
  BY LifeFields DEF Lived, Answers
<1>2. Lived(EchoOf(t).life)
  BY EchoedLived DEF EchoOf
<1>3. CASE act = 0
  BY <1>2, <1>3 DEF Admitted
<1>4. CASE act # 0
  <2>1. act \in ActNumber
    BY <1>1, <1>4 DEF ActNumber
  <2>2. l \in Resulted(EchoOf(t).life, act, ok)
    BY <1>4 DEF Admitted
  <2>. QED BY <1>2, <2>1, <2>2, ResultedLived
<1>. QED BY <1>3, <1>4

\* The answer Respond gives to s with the tool form act, and the life it leaves.
AnswerOf(s, t, act) ==
  [surface |-> Surfaced(s.motor), act |-> act, turn |-> (life.cursor[t].turn + 1) % 2]

Answered(s, t, act) == [s.life EXCEPT !.cursor[t] = AnswerOf(s, t, act)]

LEMMA AnsweredLived ==
  ASSUME NEW s, Spoke(s), NEW t \in Talk, NEW act \in Tools(s.life, Surfaced(s.motor)), Lived(life)
  PROVE  Lived(Answered(s, t, act))
<1>. DEFINE l == s.life
            answer == AnswerOf(s, t, act)
            n == [l EXCEPT !.cursor[t] = answer]
<1>1. l \in Life /\ Lived(l) /\ s.motor \in Motors /\ MaxActs \in Nat
  BY ReceiptAssumption DEF Spoke, Lived
<1>2. Surfaced(s.motor) \in Said
  BY <1>1 DEF Surfaced, Motors, Said
<1>3. act \in 0 .. MaxActs
  <2>1. \A r \in l.dialogue \union Asked(l) : r.act \in ActNumber
    BY <1>1, LifeFields DEF Asked, Waiting
  <2>2. act = 0 \/ act \in ActNumber
    BY <2>1 DEF Tools, Bearing
  <2>. QED BY <1>1, <2>2 DEF ActNumber
<1>4. (life.cursor[t].turn + 1) % 2 \in Nat
  <2>1. life.cursor[t].turn \in Nat
    BY LifeFields DEF Lived, Answers
  <2>. QED BY <2>1
<1>5. answer \in Answers
  BY <1>2, <1>3, <1>4 DEF Answers, AnswerOf
<1>. HIDE DEF answer, l
<1>6. /\ n \in Life /\ n.acts = l.acts /\ n.credit = l.credit /\ n.accepted = l.accepted
      /\ n.owed = l.owed /\ n.dialogue = l.dialogue /\ n.lexical = l.lexical
      /\ n.commit = l.commit
  BY <1>1, <1>5 DEF Life
<1>. HIDE DEF n
<1>7. Lived(n)
  BY <1>1, <1>6 DEF Lived, Creditable, Earned
<1>. QED BY <1>7 DEF n, l, answer, Answered

LEMMA RequestLived ==
  ASSUME Lived(life), [ReceiptNext]_receiptVars
  PROVE  Lived(life)'
<1>1. CASE UNCHANGED receiptVars
  BY <1>1 DEF receiptVars
<1>2. ASSUME NEW t \in Talk, NEW ok, RefuseResult(t, ok)
      PROVE  Lived(life')
  <2>1. life' = EchoOf(t).life
    BY <1>2 DEF RefuseResult
  <2>2. Lived(EchoOf(t).life)
    BY EchoedLived DEF EchoOf
  <2>. QED BY <2>1, <2>2
<1>3. ASSUME NEW t \in Talk, NEW ok, RefuseResponse(t, ok)
      PROVE  Lived(life')
  <2>1. PICK l \in Admitted(t, ok) : \E r \in Responses(l) : life' = r.life
    BY <1>3 DEF RefuseResponse
  <2>2. PICK r \in Responses(l) : life' = r.life
    BY <2>1
  <2>3. Lived(l)
    BY AdmittedLived
  <2>4. Spoke(r)
    BY <2>3, ResponsesSpoke
  <2>. QED BY <2>2, <2>4 DEF Spoke
<1>4. ASSUME NEW t \in Talk, NEW ok, Respond(t, ok)
      PROVE  Lived(life')
  <2>1. \E l \in Admitted(t, ok) : \E r \in Responses(l) :
          \E act \in Tools(r.life, Surfaced(r.motor)) : life' = Answered(r, t, act)
    BY <1>4 DEF Respond, Answered, AnswerOf
  <2>2. PICK l \in Admitted(t, ok) : \E r \in Responses(l) :
          \E act \in Tools(r.life, Surfaced(r.motor)) : life' = Answered(r, t, act)
    BY <2>1
  <2>3. PICK r \in Responses(l) :
          \E act \in Tools(r.life, Surfaced(r.motor)) : life' = Answered(r, t, act)
    BY <2>2
  <2>4. PICK act \in Tools(r.life, Surfaced(r.motor)) : life' = Answered(r, t, act)
    BY <2>3
  <2>5. Lived(l)
    BY AdmittedLived
  <2>6. Spoke(r)
    BY <2>5, ResponsesSpoke
  <2>. QED BY <2>4, <2>6, AnsweredLived
<1>. QED BY <1>1, <1>2, <1>3, <1>4 DEF ReceiptNext

LEMMA ReceiptsSafe == ReceiptSpec => []Lived(life)
BY NewbornLived, RequestLived, PTL DEF ReceiptSpec

\* settle_tool_result and settle_reafferenced_lexeme_hypothesis_contact credit an act
\* once, whatever requests are refused, posted again or say the same.
THEOREM ActsAreCreditedOnce == ReceiptSpec => []CreditedOnce
<1>1. Lived(life) => CreditedOnce
  BY DEF Lived, Creditable, CreditedOnce
<1>. QED BY <1>1, ReceiptsSafe, PTL

\* _settle_causal_continuation_action releases a continuation only for the accepted
\* act it awaits.
THEOREM ContinuationsAreEarned == ReceiptSpec => []ContinuationEarned
<1>1. Lived(life) => ContinuationEarned
  BY DEF Lived, Earned, ContinuationEarned
<1>. QED BY <1>1, ReceiptsSafe, PTL

==============================================================================
