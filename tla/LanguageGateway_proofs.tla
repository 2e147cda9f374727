------------------------ MODULE LanguageGateway_proofs ------------------------
(* Theorems about LanguageGateway, for every set of sessions and answers, every *)
(* source capacity, and whatever is lost on the way.                            *)
EXTENDS LanguageGateway, SequenceTheorems, TLAPS

Transcripts == [Session -> Seq(Answer \union {Contact})]
Heard       == [session: Session, row: Nat, fate: Fates]

-----------------------------------------------------------------------------
(* What one runtime, the living one or its checkpoint, owes the transcripts.    *)

InTranscript(life, t) == \A s \in Session : life.cursor[s].sequence <= Len(t[s])

OnceInOrder(life) ==
  \A i, j \in 1 .. Len(life.heard) :
    i < j /\ life.heard[i].session = life.heard[j].session
      => life.heard[i].row < life.heard[j].row \/ life.heard[i].fate = "refused"

\* What was settled lies behind the cursor, so that no later suffix holds it.
Behind(life) ==
  \A k \in 1 .. Len(life.heard) :
    life.heard[k].fate = "settled" =>
      life.heard[k].row <= life.cursor[life.heard[k].session].sequence

Passed(life, t) ==
  \A s \in Session : \A i \in 1 .. life.cursor[s].sequence :
    t[s][i] = Contact =>
      \E k \in 1 .. Len(life.heard) :
        life.heard[k] = [session |-> s, row |-> i, fate |-> "settled"]

Delivered(life, t) ==
  \A s \in Session : \A i \in 2 .. Len(t[s]) :
    t[s][i] # Contact =>
      \/ life.cursor[s].sequence >= i
      \/ life.cursor[s] = [sequence |-> i - 1, reafference |-> t[s][i]]

Sound(life, t) ==
  /\ InTranscript(life, t) /\ OnceInOrder(life) /\ Behind(life)
  /\ Passed(life, t) /\ Delivered(life, t)

\* A request shows a prefix of its session's transcript, and all of it as long
\* as the client waits for this very request.
Fits(r, t, posted, waits) ==
  /\ r.rows <= Len(t[r.session])
  /\ r.attempt <= posted[r.session]
  /\ waits[r.session] /\ posted[r.session] = r.attempt => r.rows = Len(t[r.session])

BacklogFits ==
  \A i \in 1 .. Len(backlog) : Fits(backlog[i], transcript, attempt, waiting)

\* Between settlement and reply the cursor stands at the end of the request at
\* the head, and once saved the checkpoint says the same.
PhaseFits == phase # "idle" =>
  /\ mem.cursor[Head(backlog).session].sequence = Head(backlog).rows
  /\ mem.cursor[Head(backlog).session].reafference \in Answer
  /\ phase = "saved" => disk = mem

GatewayInv ==
  /\ TypeOK
  /\ Sound(mem, transcript) /\ Sound(disk, transcript)
  /\ BacklogFits /\ PhaseFits

-----------------------------------------------------------------------------
(* Lemmas about what a step can do to a runtime.                                *)

LEMMA LifeType ==
  ASSUME NEW life \in Life, NEW s \in Session
  PROVE  /\ life.heard \in Seq(Heard) /\ life.cursor \in [Session -> Cursor]
         /\ life.cursor[s].sequence \in Nat
         /\ life.cursor[s].reafference \in Answer \union {"none"}
BY DEF Life, Cursor, Heard

LEMMA HeardElement ==
  ASSUME TypeOK, NEW k \in 1 .. Len(mem.heard)
  PROVE  mem.heard[k] \in Heard
<1>1. mem.heard \in Seq(Heard)
  BY DEF TypeOK, Life, Heard
<1>. QED BY <1>1

\* A transcript grows by a contact, or by the answer the cursor expects back.
LEMMA SoundLonger ==
  ASSUME NEW life \in Life, NEW t \in Transcripts, NEW s \in Session,
         NEW row \in Answer \union {Contact}, Sound(life, t),
         row # Contact =>
           life.cursor[s] = [sequence |-> Len(t[s]), reafference |-> row],
         NEW u, u = [t EXCEPT ![s] = Append(@, row)]
  PROVE  Sound(life, u)
<1>0. t[s] \in Seq(Answer \union {Contact}) /\ DOMAIN t = Session
  BY DEF Transcripts
<1>1. /\ Len(u[s]) = Len(t[s]) + 1 /\ Len(t[s]) \in Nat
      /\ \A i \in 1 .. Len(t[s]) : u[s][i] = t[s][i]
      /\ u[s][Len(t[s]) + 1] = row
  <2>1. u[s] = Append(t[s], row)
    BY <1>0
  <2>. QED BY <1>0, <2>1, AppendProperties, LenProperties
<1>2. \A q \in Session : q # s => u[q] = t[q]
  BY <1>0
<1>3. \A q \in Session : /\ Len(t[q]) \in Nat /\ life.cursor[q].sequence \in Nat
                         /\ life.cursor[q].sequence <= Len(t[q])
  BY LifeType DEF Transcripts, Sound, InTranscript
<1>4. InTranscript(life, u)
  <2>. SUFFICES ASSUME NEW q \in Session PROVE life.cursor[q].sequence <= Len(u[q])
    BY DEF InTranscript
  <2>1. CASE q = s
    BY <1>1, <1>3, <2>1
  <2>2. CASE q # s
    BY <1>2, <1>3, <2>2
  <2>. QED BY <2>1, <2>2
<1>5. Passed(life, u)
  <2>. SUFFICES ASSUME NEW q \in Session, NEW i \in 1 .. life.cursor[q].sequence,
                       u[q][i] = Contact
                PROVE  \E k \in 1 .. Len(life.heard) :
                         life.heard[k] = [session |-> q, row |-> i, fate |-> "settled"]
    BY DEF Passed
  <2>1. i \in 1 .. Len(t[q])
    BY <1>3
  <2>2. t[q][i] = Contact
    BY <1>1, <1>2, <2>1
  <2>. QED BY <2>2 DEF Sound, Passed
<1>6. Delivered(life, u)
  <2>. SUFFICES ASSUME NEW q \in Session, NEW i \in 2 .. Len(u[q]), u[q][i] # Contact
                PROVE  \/ life.cursor[q].sequence >= i
                       \/ life.cursor[q] = [sequence |-> i - 1, reafference |-> u[q][i]]
    BY DEF Delivered
  <2>1. CASE q # s
    BY <1>2, <2>1 DEF Sound, Delivered
  <2>2. CASE q = s /\ i \in 2 .. Len(t[s])
    <3>1. u[q][i] = t[q][i] /\ t[q][i] # Contact
      BY <1>1, <2>2
    <3>. QED BY <2>2, <3>1 DEF Sound, Delivered
  <2>3. CASE q = s /\ i \notin 2 .. Len(t[s])
    <3>1. i = Len(t[s]) + 1 /\ i - 1 = Len(t[s])
      BY <1>1, <2>3
    <3>2. u[q][i] = row
      BY <1>1, <2>3, <3>1
    <3>. QED BY <2>3, <3>1, <3>2
  <2>. QED BY <2>1, <2>2, <2>3
<1>. QED BY <1>4, <1>5, <1>6 DEF Sound

\* The rows of a request the Adult hears: those behind its cursor, in order.
NewEntry(r, i, fate) ==
  [session |-> r.session, row |-> FirstNew(r) + i - 1, fate |-> fate]

Batch(r, fate) == [i \in 1 .. r.rows - FirstNew(r) + 1 |-> NewEntry(r, i, fate)]

LEMMA NewEntryFields ==
  ASSUME NEW r, NEW i, NEW fate
  PROVE  /\ NewEntry(r, i, fate).session = r.session
         /\ NewEntry(r, i, fate).row = FirstNew(r) + i - 1
         /\ NewEntry(r, i, fate).fate = fate
BY DEF NewEntry

LEMMA FirstNewType ==
  ASSUME TypeOK, NEW r \in Request
  PROVE  /\ FirstNew(r) \in Nat /\ FirstNew(r) >= 1
         /\ FirstNew(r) > mem.cursor[r.session].sequence
         /\ mem.cursor[r.session].sequence \in Nat /\ r.rows \in Nat
         /\ mem.cursor[r.session].sequence + 1 < FirstNew(r)
              => mem.cursor[r.session].sequence > 0
         /\ FirstNew(r) <= mem.cursor[r.session].sequence + 2
<1>1. mem.cursor[r.session].sequence \in Nat
  BY LifeType DEF TypeOK, Request
<1>. QED BY <1>1 DEF FirstNew, Request

LEMMA HeardMore ==
  ASSUME TypeOK, NEW r \in Request, FirstNew(r) <= r.rows, NEW fate \in Fates
  PROVE  LET m == Len(mem.heard)  n == r.rows - FirstNew(r) + 1  h == Hear(r, fate)
         IN  /\ h \in Seq(Heard)
             /\ m \in Nat /\ n \in Nat /\ Len(h) = m + n
             /\ \A k \in 1 .. m : h[k] = mem.heard[k]
             /\ \A k \in 1 .. m + n :
                  k > m => h[k] = NewEntry(r, k - m, fate)
<1>. DEFINE m == Len(mem.heard)
            n == r.rows - FirstNew(r) + 1
            batch == Batch(r, fate)
            h == mem.heard \o batch
<1>1. mem.heard \in Seq(Heard)
  BY DEF TypeOK, Life, Heard
<1>2. n \in Nat /\ FirstNew(r) \in Nat /\ FirstNew(r) >= 1
  BY FirstNewType
<1>3. batch \in Seq(Heard) /\ Len(batch) = n
  <2>1. \A i \in 1 .. n : NewEntry(r, i, fate) \in Heard
    BY <1>2 DEF Heard, Request, NewEntry
  <2>2. batch \in [1 .. n -> Heard] /\ DOMAIN batch = 1 .. n
    BY <2>1 DEF Batch
  <2>. HIDE DEF batch, n
  <2>3. batch \in Seq(Heard)
    BY <1>2, <2>2, SeqDef
  <2>. QED BY <1>2, <2>2, <2>3
<1>4. \A i \in 1 .. n : batch[i] = NewEntry(r, i, fate)
  BY DEF Batch
<1>5. h = Hear(r, fate)
  BY DEF Hear, Batch, NewEntry
<1>. HIDE DEF batch, n
<1>6. /\ h \in Seq(Heard) /\ Len(h) = m + n /\ m \in Nat
      /\ \A k \in 1 .. m + n : h[k] = IF k <= m THEN mem.heard[k] ELSE batch[k - m]
  BY <1>1, <1>3, ConcatProperties, LenProperties
<1>. HIDE DEF h, m
<1>7. \A k \in 1 .. m : h[k] = mem.heard[k]
  BY <1>2, <1>6
<1>8. ASSUME NEW k \in 1 .. m + n, k > m
      PROVE  h[k] = NewEntry(r, k - m, fate)
  <2>1. k - m \in 1 .. n /\ ~(k <= m)
    BY <1>2, <1>6, <1>8
  <2>. QED BY <1>4, <1>6, <2>1
<1>. QED BY <1>2, <1>5, <1>6, <1>7, <1>8 DEF m, n

\* Whatever is heard next comes from behind the cursor, hence after all that was
\* settled.
LEMMA HeardInOrder ==
  ASSUME TypeOK, OnceInOrder(mem), Behind(mem), NEW r \in Request, FirstNew(r) <= r.rows,
         NEW fate \in Fates, NEW life, life.heard = Hear(r, fate)
  PROVE  OnceInOrder(life)
<1>. DEFINE m == Len(mem.heard)
            n == r.rows - FirstNew(r) + 1
            h == Hear(r, fate)
<1>1. /\ h \in Seq(Heard) /\ m \in Nat /\ n \in Nat /\ Len(h) = m + n
      /\ \A k \in 1 .. m : h[k] = mem.heard[k]
      /\ \A k \in 1 .. m + n : k > m => h[k] = NewEntry(r, k - m, fate)
  BY HeardMore
<1>2. /\ FirstNew(r) \in Nat /\ FirstNew(r) > mem.cursor[r.session].sequence
      /\ mem.cursor[r.session].sequence \in Nat
  BY FirstNewType
<1>3. life.heard = h
  OBVIOUS
<1>4. \A k \in 1 .. m : mem.heard[k] \in Heard
  BY HeardElement
<1>. HIDE DEF h, m, n
<1>. SUFFICES ASSUME NEW i \in 1 .. m + n, NEW j \in 1 .. m + n, i < j,
                     h[i].session = h[j].session
              PROVE  h[i].row < h[j].row \/ h[i].fate = "refused"
  BY <1>1, <1>3 DEF OnceInOrder
<1>5. CASE j <= m
  <2>1. i \in 1 .. m /\ j \in 1 .. m
    BY <1>1, <1>5
  <2>. QED BY <1>1, <2>1 DEF OnceInOrder, m
<1>6. CASE i > m
  <2>1. j > m
    BY <1>1, <1>6
  <2>2. h[i].row = FirstNew(r) + (i - m) - 1 /\ h[j].row = FirstNew(r) + (j - m) - 1
    BY <1>1, <1>6, <2>1, NewEntryFields
  <2>. QED BY <1>1, <1>2, <2>2
<1>7. CASE i <= m /\ j > m
  <2>1. i \in 1 .. m
    BY <1>1, <1>7
  <2>2. /\ h[i] = mem.heard[i] /\ h[j].session = r.session
        /\ h[j].row = FirstNew(r) + (j - m) - 1
    BY <1>1, <1>7, <2>1, NewEntryFields
  <2>3. CASE mem.heard[i].fate = "refused"
    BY <2>2, <2>3
  <2>4. CASE mem.heard[i].fate = "settled"
    <3>1. mem.heard[i].row <= mem.cursor[r.session].sequence /\ mem.heard[i].row \in Nat
      <4>1. mem.heard[i].session = r.session /\ mem.heard[i].row \in Nat
        BY <1>4, <2>1, <2>2 DEF Heard
      <4>2. mem.heard[i].row <= mem.cursor[mem.heard[i].session].sequence
        BY <2>1, <2>4 DEF Behind, m
      <4>. QED BY <4>1, <4>2
    <3>2. j - m - 1 \in Nat
      BY <1>1, <1>7
    <3>3. mem.heard[i].row < FirstNew(r) + (j - m) - 1
      <4>1. /\ mem.heard[i].row < FirstNew(r) /\ FirstNew(r) \in Nat
            /\ mem.heard[i].row \in Nat /\ m \in Nat /\ j \in Nat
        BY <1>1, <1>2, <1>7, <3>1
      <4>. QED BY ONLY <3>2, <4>1
    <3>. QED BY <2>2, <3>3
  <2>. QED BY <1>4, <2>1, <2>3, <2>4 DEF Heard, Fates
<1>. QED BY <1>1, <1>5, <1>6, <1>7

\* Nothing is undone and nothing is passed when a hearing is refused.
LEMMA RefusedSound ==
  ASSUME TypeOK, Sound(mem, transcript), NEW r \in Request, FirstNew(r) <= r.rows,
         NEW life, life = [mem EXCEPT !.heard = Hear(r, "refused")]
  PROVE  life \in Life /\ Sound(life, transcript)
<1>. DEFINE m == Len(mem.heard)
            n == r.rows - FirstNew(r) + 1
            h == Hear(r, "refused")
<1>f. "refused" \in Fates /\ "settled" # "refused"
  BY DEF Fates
<1>1. /\ h \in Seq(Heard) /\ m \in Nat /\ n \in Nat /\ Len(h) = m + n
      /\ \A k \in 1 .. m : h[k] = mem.heard[k]
      /\ \A k \in 1 .. m + n : k > m => h[k] = NewEntry(r, k - m, "refused")
  BY <1>f, HeardMore
<1>. HIDE DEF h, n
<1>2. mem \in Life
  BY DEF TypeOK
<1>3. life.heard = h /\ life.cursor = mem.cursor /\ life \in Life
  BY <1>1, <1>2 DEF Life, Heard, h
<1>4. OnceInOrder(life)
  BY <1>f, <1>3, HeardInOrder DEF Sound, h
<1>5. Behind(life)
  <2>. SUFFICES ASSUME NEW k \in 1 .. m + n, h[k].fate = "settled"
                PROVE  h[k].row <= mem.cursor[h[k].session].sequence
    BY <1>1, <1>3 DEF Behind
  <2>1. k \in 1 .. m
    <3>1. ~(k > m)
      BY <1>1, <1>f, NewEntryFields
    <3>. QED BY <1>1, <3>1
  <2>. QED BY <1>1, <2>1 DEF Sound, Behind
<1>6. Passed(life, transcript)
  <2>. SUFFICES ASSUME NEW s \in Session, NEW i \in 1 .. mem.cursor[s].sequence,
                       transcript[s][i] = Contact
                PROVE  \E k \in 1 .. m + n :
                         h[k] = [session |-> s, row |-> i, fate |-> "settled"]
    BY <1>1, <1>3 DEF Passed
  <2>1. PICK k \in 1 .. m : mem.heard[k] = [session |-> s, row |-> i, fate |-> "settled"]
    BY DEF Sound, Passed
  <2>. QED BY <1>1, <2>1
<1>7. InTranscript(life, transcript) /\ Delivered(life, transcript)
  BY <1>3 DEF Sound, InTranscript, Delivered
<1>. QED BY <1>3, <1>4, <1>5, <1>6, <1>7 DEF Sound

\* A settled request moves the cursor over contacts now heard, and over the
\* Adult's own last answer.
LEMMA SettledSound ==
  ASSUME TypeOK, Sound(mem, transcript), NEW r \in Request, r.rows <= Len(transcript[r.session]), Accepts(r),
         NEW a \in Answer,
         NEW life, life = [heard  |-> Hear(r, "settled"),
                           cursor |-> [mem.cursor EXCEPT ![r.session] =
                                         [sequence |-> r.rows, reafference |-> a]]]
  PROVE  life \in Life /\ Sound(life, transcript)
<1>. DEFINE m == Len(mem.heard)
            n == r.rows - FirstNew(r) + 1
            h == Hear(r, "settled")
            p == r.session
            old == mem.cursor[p].sequence
<1>f. "settled" \in Fates
  BY DEF Fates
<1>a. /\ FirstNew(r) <= r.rows /\ old < r.rows
      /\ old > 0 => transcript[p][old + 1] = mem.cursor[p].reafference
      /\ \A i \in FirstNew(r) .. r.rows : transcript[p][i] = Contact
  BY DEF Accepts, Row
<1>1. /\ h \in Seq(Heard) /\ m \in Nat /\ n \in Nat /\ Len(h) = m + n
      /\ \A k \in 1 .. m : h[k] = mem.heard[k]
      /\ \A k \in 1 .. m + n : k > m => h[k] = NewEntry(r, k - m, "settled")
  BY <1>a, <1>f, HeardMore
<1>2. /\ FirstNew(r) \in Nat /\ FirstNew(r) >= 1 /\ FirstNew(r) > old
      /\ old \in Nat /\ r.rows \in Nat
      /\ old + 1 < FirstNew(r) => old > 0
      /\ FirstNew(r) <= old + 2
  BY FirstNewType
<1>3. n = r.rows - FirstNew(r) + 1
  OBVIOUS
<1>. HIDE DEF h, m, n
<1>4. p \in Session /\ mem \in Life /\ mem.cursor \in [Session -> Cursor]
  BY DEF TypeOK, Life, Request
<1>5. /\ life.heard = h
      /\ life.cursor = [mem.cursor EXCEPT ![p] = [sequence |-> r.rows, reafference |-> a]]
      /\ life \in Life
  <2>1. [sequence |-> r.rows, reafference |-> a] \in Cursor
    BY <1>2 DEF Cursor
  <2>2. [mem.cursor EXCEPT ![p] = [sequence |-> r.rows, reafference |-> a]]
          \in [Session -> Cursor]
    BY <1>4, <2>1
  <2>. QED BY <1>1, <2>2 DEF Life, Heard, h
<1>6. /\ life.cursor[p].sequence = r.rows
      /\ \A s \in Session : s # p => life.cursor[s] = mem.cursor[s]
  BY <1>4, <1>5
<1>7. OnceInOrder(life)
  BY <1>a, <1>f, <1>5, HeardInOrder DEF Sound, h
<1>8. InTranscript(life, transcript)
  BY <1>6 DEF Sound, InTranscript
<1>9. Behind(life)
  <2>. SUFFICES ASSUME NEW k \in 1 .. m + n, h[k].fate = "settled"
                PROVE  h[k].row <= life.cursor[h[k].session].sequence
    BY <1>1, <1>5 DEF Behind
  <2>1. CASE k \in 1 .. m
    <3>0. h[k] = mem.heard[k] /\ mem.heard[k] \in Heard
      BY <1>1, <2>1, HeardElement DEF m
    <3>1. /\ h[k] = mem.heard[k] /\ mem.heard[k] \in Heard
          /\ mem.heard[k].row <= mem.cursor[mem.heard[k].session].sequence
      BY <2>1, <3>0 DEF Sound, Behind, m
    <3>2. CASE mem.heard[k].session = p
      <4>1. mem.heard[k].row \in Nat /\ mem.heard[k].row <= old /\ old < r.rows
        BY <1>a, <3>1, <3>2 DEF Heard
      <4>2. h[k].row <= r.rows /\ h[k].session = p
        BY <1>2, <3>1, <3>2, <4>1
      <4>. QED BY <1>6, <4>2
    <3>3. CASE mem.heard[k].session # p
      BY <1>6, <3>1, <3>3 DEF Heard
    <3>. QED BY <3>2, <3>3
  <2>2. CASE k > m
    <3>1. h[k].session = p /\ h[k].row = FirstNew(r) + (k - m) - 1
      BY <1>1, <2>2, NewEntryFields
    <3>2. /\ FirstNew(r) \in Nat /\ r.rows \in Nat /\ m \in Nat
          /\ k \in Nat /\ k <= m + (r.rows - FirstNew(r) + 1)
      <4>1. m \in Nat /\ n \in Nat /\ k \in 1 .. m + n
        BY <1>1
      <4>2. FirstNew(r) \in Nat /\ r.rows \in Nat
        BY <1>2
      <4>. QED BY ONLY <1>3, <4>1, <4>2
    <3>3. FirstNew(r) + (k - m) - 1 <= r.rows
      BY ONLY <3>2
    <3>4. life.cursor[p].sequence = r.rows
      BY <1>2, <1>6
    <3>. QED BY <3>1, <3>3, <3>4
  <2>. QED BY <1>1, <2>1, <2>2
<1>10. Passed(life, transcript)
  <2>0. Len(life.heard) = m + n /\ life.heard = h
    BY <1>1, <1>5
  <2>. SUFFICES ASSUME NEW s \in Session, NEW i \in 1 .. life.cursor[s].sequence,
                       transcript[s][i] = Contact
                PROVE  \E k \in 1 .. Len(life.heard) :
                         life.heard[k] = [session |-> s, row |-> i, fate |-> "settled"]
    BY DEF Passed
  <2>1. CASE i \in 1 .. mem.cursor[s].sequence
    <3>1. PICK k \in 1 .. m : mem.heard[k] = [session |-> s, row |-> i, fate |-> "settled"]
      BY <2>1 DEF Sound, Passed, m
    <3>2. k \in 1 .. m + n /\ h[k] = mem.heard[k]
      BY <1>1, <3>1
    <3>. QED BY <2>0, <3>1, <3>2
  <2>2. CASE i \notin 1 .. mem.cursor[s].sequence
    <3>1. s = p
      BY <1>6, <2>2
    <3>2. i \in Nat /\ i > old /\ i <= r.rows
      BY <1>2, <1>6, <2>2, <3>1
    <3>3. i >= FirstNew(r)
      <4>0. FirstNew(r) \in Nat
        BY <1>2
      <4>. SUFFICES ASSUME i < FirstNew(r) PROVE FALSE
        BY <3>2, <4>0
      <4>1. i = old + 1 /\ old > 0
        <5>. HIDE DEF old, p
        <5>1. i < old + 2
          BY <1>2, <3>2, <4>0
        <5>2. i = old + 1 /\ old + 1 < FirstNew(r)
          BY <1>2, <3>2, <4>0, <5>1
        <5>. QED BY <1>2, <5>2
      <4>2. mem.cursor[p].reafference = Contact
        BY <1>a, <3>1, <4>1
      <4>3. mem.cursor[p].reafference \in Answer \union {"none"}
        BY <1>4, LifeType
      <4>. QED BY <4>2, <4>3, AnswerAssumption DEF Contact
    <3>. DEFINE k == m + (i - FirstNew(r)) + 1
    <3>4. k \in 1 .. m + n /\ k > m /\ FirstNew(r) + (k - m) - 1 = i
      <4>. DEFINE first == FirstNew(r)
                  rows == r.rows
      <4>1. /\ m \in Nat /\ first \in Nat /\ rows \in Nat /\ n = rows - first + 1
            /\ i \in Nat /\ i >= first /\ i <= rows
        BY <1>1, <1>2, <1>3, <3>2, <3>3
      <4>. HIDE DEF first, rows
      <4>2. k = m + (i - first) + 1
        BY DEF first
      <4>. HIDE DEF k
      <4>3. k \in 1 .. m + n /\ k > m /\ first + (k - m) - 1 = i
        BY ONLY <4>1, <4>2
      <4>. QED BY <4>3 DEF first
    <3>. HIDE DEF k
    <3>5. h[k] = [session |-> s, row |-> i, fate |-> "settled"]
      BY <1>1, <3>1, <3>4 DEF NewEntry
    <3>. QED BY <2>0, <3>4, <3>5
  <2>. QED BY <2>1, <2>2
<1>11. Delivered(life, transcript)
  <2>. SUFFICES ASSUME NEW s \in Session, NEW i \in 2 .. Len(transcript[s]),
                       transcript[s][i] # Contact
                PROVE  \/ life.cursor[s].sequence >= i
                       \/ life.cursor[s] = [sequence |-> i - 1,
                                            reafference |-> transcript[s][i]]
    BY DEF Delivered
  <2>1. \/ mem.cursor[s].sequence >= i
        \/ mem.cursor[s] = [sequence |-> i - 1, reafference |-> transcript[s][i]]
    BY DEF Sound, Delivered
  <2>2. CASE s # p
    BY <1>6, <2>1, <2>2
  <2>3. CASE s = p
    <3>1. old >= i \/ old = i - 1
      BY <2>1, <2>3
    <3>. QED BY <1>a, <1>2, <1>6, <2>3, <3>1
  <2>. QED BY <2>2, <2>3
<1>. QED BY <1>5, <1>7, <1>8, <1>9, <1>10, <1>11 DEF Sound

-----------------------------------------------------------------------------
(* Lemmas about the backlog.                                                    *)

LEMMA HeadFits ==
  ASSUME TypeOK, BacklogFits, backlog # <<>>
  PROVE  Head(backlog) \in Request /\ Fits(Head(backlog), transcript, attempt, waiting)
<1>1. backlog \in Seq(Request)
  BY DEF TypeOK
<1>2. Head(backlog) \in Request /\ Head(backlog) = backlog[1] /\ 1 \in 1 .. Len(backlog)
  BY <1>1, HeadTailProperties, LenProperties
<1>. QED BY <1>2 DEF BacklogFits

\* A step that keeps or removes requests and makes each fit keeps the backlog.
LEMMA BacklogKept ==
  ASSUME TypeOK, BacklogFits,
         \A r \in Request : Fits(r, transcript, attempt, waiting)
                               => Fits(r, transcript', attempt', waiting'),
         \/ backlog' = backlog \/ backlog' = <<>>
         \/ backlog # <<>> /\ backlog' = Tail(backlog)
  PROVE  BacklogFits'
<1>0. backlog \in Seq(Request)
  BY DEF TypeOK
<1>1. ASSUME NEW i \in 1 .. Len(backlog')
      PROVE  \E j \in 1 .. Len(backlog) : backlog'[i] = backlog[j]
  <2>1. CASE backlog' = backlog
    BY <2>1
  <2>2. CASE backlog' = <<>>
    BY <2>2
  <2>3. CASE backlog # <<>> /\ backlog' = Tail(backlog)
    <3>1. Len(backlog') = Len(backlog) - 1 /\ backlog'[i] = backlog[i + 1]
      BY <1>0, <2>3, HeadTailProperties
    <3>. QED BY <1>0, <3>1, LenProperties
  <2>. QED BY <2>1, <2>2, <2>3
<1>2. \A j \in 1 .. Len(backlog) :
        backlog[j] \in Request /\ Fits(backlog[j], transcript', attempt', waiting')
  BY <1>0 DEF BacklogFits
<1>. QED BY <1>1, <1>2 DEF BacklogFits

\* Closing a request can only end a client's wait.
LEMMA ClosedBacklog ==
  ASSUME TypeOK, BacklogFits, backlog # <<>>, Close(Head(backlog)),
         UNCHANGED <<transcript, attempt>>
  PROVE  /\ BacklogFits'
         /\ backlog' \in Seq(Request) /\ waiting' \in [Session -> BOOLEAN]
         /\ phase' = "idle"
<1>. DEFINE r == Head(backlog)
<1>1. r \in Request /\ backlog \in Seq(Request) /\ waiting \in [Session -> BOOLEAN]
  BY HeadFits DEF TypeOK
<1>2. /\ waiting' = [waiting EXCEPT ![r.session] = @ /\ ~Waits(r)]
      /\ backlog' = Tail(backlog) /\ phase' = "idle"
  BY DEF Close
<1>. HIDE DEF r
<1>3. Waits(r) \in BOOLEAN
  BY DEF Waits, TypeOK
<1>4. \A s \in Session : waiting'[s] => waiting[s]
  BY <1>1, <1>2
<1>5. \A q \in Request : Fits(q, transcript, attempt, waiting)
                           => Fits(q, transcript', attempt', waiting')
  BY <1>4 DEF Fits, Request
<1>6. waiting' \in [Session -> BOOLEAN]
  BY <1>1, <1>2, <1>3 DEF Request
<1>. QED BY <1>1, <1>2, <1>5, <1>6, BacklogKept, HeadTailProperties

-----------------------------------------------------------------------------
LEMMA InitGatewayInv == Init => GatewayInv
<1>. SUFFICES ASSUME Init PROVE GatewayInv
  OBVIOUS
<1>1. Newborn \in Life
  BY DEF Newborn, Life, Cursor
<1>2. TypeOK
  BY <1>1 DEF Init, TypeOK
<1>3. Sound(Newborn, transcript)
  BY DEF Init, Newborn, Sound, InTranscript, OnceInOrder, Behind, Passed, Delivered
<1>4. BacklogFits /\ PhaseFits
  BY DEF Init, BacklogFits, PhaseFits
<1>. QED BY <1>2, <1>3, <1>4 DEF Init, GatewayInv

LEMMA NextGatewayInv == GatewayInv /\ [Next]_vars => GatewayInv'
<1>. SUFFICES ASSUME GatewayInv, [Next]_vars PROVE GatewayInv'
  OBVIOUS
<1>. USE DEF client
<1>t. /\ TypeOK /\ BacklogFits /\ PhaseFits
      /\ Sound(mem, transcript) /\ Sound(disk, transcript)
  BY DEF GatewayInv
<1>c. /\ transcript \in Transcripts /\ attempt \in [Session -> Nat]
      /\ waiting \in [Session -> BOOLEAN] /\ backlog \in Seq(Request)
      /\ mem \in Life /\ disk \in Life
      /\ phase # "idle" => backlog # <<>>
  BY <1>t DEF TypeOK, Transcripts
<1>h. backlog # <<>> =>
        /\ Head(backlog) \in Request
        /\ Fits(Head(backlog), transcript, attempt, waiting)
  BY <1>t, HeadFits
\* Asking: a transcript grows by a contact while no request of it is waited for.
<1>1. ASSUME NEW s \in Session, Ask(s) PROVE GatewayInv'
  <2>1. /\ transcript' = [transcript EXCEPT ![s] = Append(@, Contact)]
        /\ ~waiting[s] /\ UNCHANGED <<attempt, waiting, backlog, phase, mem, disk>>
    BY <1>1 DEF Ask
  <2>2. Sound(mem, transcript') /\ Sound(disk, transcript')
    BY <1>c, <1>t, <2>1, SoundLonger
  <2>3. transcript[s] \in Seq(Answer \union {Contact})
    BY <1>c DEF Transcripts
  <2>4. /\ transcript'[s] = Append(transcript[s], Contact)
        /\ Len(transcript'[s]) = Len(transcript[s]) + 1
        /\ transcript'[s] \in Seq(Answer \union {Contact})
        /\ Len(transcript[s]) \in Nat
        /\ \A q \in Session : q # s => transcript'[q] = transcript[q]
    BY <1>c, <2>1, <2>3, AppendProperties, LenProperties DEF Transcripts
  <2>5. TypeOK'
    <3>1. transcript' \in [Session -> Seq(Answer \union {Contact})]
      BY <1>c, <2>1, <2>4 DEF Transcripts
    <3>. QED BY <1>t, <2>1, <3>1 DEF TypeOK
  <2>6. ASSUME NEW r \in Request, Fits(r, transcript, attempt, waiting)
        PROVE  Fits(r, transcript', attempt', waiting')
    <3>1. r.session \in Session /\ r.rows \in Nat
      BY DEF Request
    <3>2. CASE r.session = s
      BY <2>1, <2>4, <2>6, <3>1, <3>2 DEF Fits
    <3>3. CASE r.session # s
      BY <2>1, <2>4, <2>6, <3>1, <3>3 DEF Fits
    <3>. QED BY <3>2, <3>3
  <2>7. BacklogFits'
    BY <1>t, <2>1, <2>6, BacklogKept
  <2>8. PhaseFits'
    BY <1>t, <2>1 DEF PhaseFits
  <2>. QED BY <2>1, <2>2, <2>5, <2>7, <2>8 DEF GatewayInv
\* Posting: older requests of the session are no longer waited for.
<1>2. ASSUME NEW s \in Session, Post(s) PROVE GatewayInv'
  <2>. DEFINE new == [session |-> s, rows |-> Len(transcript[s]), attempt |-> attempt[s] + 1]
  <2>1. /\ attempt' = [attempt EXCEPT ![s] = @ + 1] /\ waiting' = [waiting EXCEPT ![s] = TRUE]
        /\ backlog' = Append(backlog, new)
        /\ UNCHANGED <<transcript, phase, mem, disk>>
    BY <1>2 DEF Post
  <2>2. new \in Request
    BY <1>c, LenProperties DEF Transcripts, Request
  <2>n. new.session = s /\ new.rows = Len(transcript[s]) /\ new.attempt = attempt[s] + 1
    OBVIOUS
  <2>. HIDE DEF new
  <2>3. /\ backlog' \in Seq(Request) /\ backlog' # <<>>
        /\ Len(backlog') = Len(backlog) + 1 /\ Len(backlog) \in Nat
        /\ \A i \in 1 .. Len(backlog) : backlog'[i] = backlog[i]
        /\ backlog'[Len(backlog) + 1] = new
    BY <1>c, <2>1, <2>2, AppendProperties, LenProperties
  <2>4. TypeOK'
    <3>1. attempt' \in [Session -> Nat] /\ waiting' \in [Session -> BOOLEAN]
      BY <1>c, <2>1
    <3>. QED BY <1>t, <2>1, <2>3, <3>1 DEF TypeOK
  <2>5. ASSUME NEW r \in Request, Fits(r, transcript, attempt, waiting)
        PROVE  Fits(r, transcript', attempt', waiting')
    <3>1. r.session \in Session /\ r.attempt \in Nat /\ attempt[s] \in Nat
      BY <1>c DEF Request
    <3>2. CASE r.session = s
      <4>1. attempt'[s] = attempt[s] + 1 /\ r.attempt <= attempt[s]
        BY <1>c, <2>1, <2>5, <3>2 DEF Fits
      <4>. QED BY <2>1, <2>5, <3>1, <3>2, <4>1 DEF Fits
    <3>3. CASE r.session # s
      <4>1. attempt'[r.session] = attempt[r.session] /\ waiting'[r.session] = waiting[r.session]
        BY <1>c, <2>1, <3>1, <3>3
      <4>. QED BY <2>1, <2>5, <4>1 DEF Fits
    <3>. QED BY <3>2, <3>3
  <2>6. Fits(new, transcript', attempt', waiting')
    <3>1. attempt'[s] = attempt[s] + 1 /\ attempt[s] \in Nat /\ Len(transcript[s]) \in Nat
      BY <1>c, <2>1, LenProperties DEF Transcripts
    <3>. QED BY <2>1, <2>n, <3>1 DEF Fits
  <2>7. BacklogFits'
    <3>. SUFFICES ASSUME NEW i \in 1 .. Len(backlog')
                  PROVE  Fits(backlog'[i], transcript', attempt', waiting')
      BY DEF BacklogFits
    <3>1. CASE i \in 1 .. Len(backlog)
      <4>1. backlog[i] \in Request /\ Fits(backlog[i], transcript, attempt, waiting)
        BY <1>c, <1>t, <3>1 DEF BacklogFits
      <4>. QED BY <2>3, <2>5, <3>1, <4>1
    <3>2. CASE i = Len(backlog) + 1
      BY <2>3, <2>6, <3>2
    <3>. QED BY <2>3, <3>1, <3>2
  <2>8. PhaseFits'
    <3>1. phase # "idle" => Head(backlog') = Head(backlog)
      BY <1>c, <2>3, LenProperties
    <3>. QED BY <1>t, <2>1, <3>1 DEF PhaseFits
  <2>. QED BY <1>t, <2>1, <2>4, <2>7, <2>8 DEF GatewayInv
<1>3. ASSUME NEW s \in Session, GiveUp(s) PROVE GatewayInv'
  <2>1. /\ waiting' = [waiting EXCEPT ![s] = FALSE]
        /\ UNCHANGED <<transcript, attempt, backlog, phase, mem, disk>>
    BY <1>3 DEF GiveUp
  <2>2. \A q \in Session : waiting'[q] => waiting[q]
    BY <1>c, <2>1
  <2>3. BacklogFits'
    BY <1>t, <2>1, <2>2, BacklogKept DEF Fits, Request
  <2>4. TypeOK' /\ PhaseFits'
    BY <1>c, <1>t, <2>1 DEF TypeOK, PhaseFits
  <2>. QED BY <1>t, <2>1, <2>3, <2>4 DEF GatewayInv
<1>4. ASSUME Refuse PROVE GatewayInv'
  <2>1. /\ backlog # <<>> /\ Close(Head(backlog))
        /\ UNCHANGED <<transcript, attempt, mem, disk>>
    BY <1>4 DEF Refuse
  <2>2. /\ BacklogFits' /\ backlog' \in Seq(Request) /\ waiting' \in [Session -> BOOLEAN]
        /\ phase' = "idle"
    BY <1>t, <2>1, ClosedBacklog
  <2>. QED BY <1>t, <2>1, <2>2 DEF GatewayInv, TypeOK, PhaseFits
<1>5. ASSUME RefuseLate PROVE GatewayInv'
  <2>1. /\ backlog # <<>> /\ Close(Head(backlog)) /\ Accepts(Head(backlog))
        /\ mem' = [mem EXCEPT !.heard = Hear(Head(backlog), "refused")]
        /\ UNCHANGED <<transcript, attempt, disk>>
    BY <1>5 DEF RefuseLate
  <2>2. /\ BacklogFits' /\ backlog' \in Seq(Request) /\ waiting' \in [Session -> BOOLEAN]
        /\ phase' = "idle"
    BY <1>t, <2>1, ClosedBacklog
  <2>3. mem' \in Life /\ Sound(mem', transcript)
    BY <1>h, <1>t, <2>1, RefusedSound DEF Accepts
  <2>. QED BY <1>t, <2>1, <2>2, <2>3 DEF GatewayInv, TypeOK, PhaseFits
<1>6. ASSUME NEW a \in Answer, Settle(a) PROVE GatewayInv'
  <2>. DEFINE r == Head(backlog)
  <2>1. /\ backlog # <<>> /\ Accepts(r) /\ phase' = "settled"
        /\ mem' = [heard  |-> Hear(r, "settled"),
                   cursor |-> [mem.cursor EXCEPT ![r.session] =
                                 [sequence |-> r.rows, reafference |-> a]]]
        /\ UNCHANGED <<transcript, attempt, waiting, backlog, disk>>
    BY <1>6 DEF Settle
  <2>2. r \in Request /\ r.rows <= Len(transcript[r.session])
    BY <1>h, <2>1 DEF Fits
  <2>. HIDE DEF r
  <2>3. mem' \in Life /\ Sound(mem', transcript)
    BY <1>t, <2>1, <2>2, SettledSound
  <2>4. /\ mem'.cursor[r.session].sequence = r.rows
        /\ mem'.cursor[r.session].reafference = a
    <3>1. r.session \in Session /\ mem.cursor \in [Session -> Cursor]
      BY <1>c, <2>2 DEF Request, Life
    <3>. QED BY <2>1, <3>1
  <2>5. BacklogFits' /\ TypeOK'
    BY <1>t, <2>1, <2>3 DEF BacklogFits, TypeOK
  <2>6. PhaseFits'
    BY <2>1, <2>4 DEF PhaseFits, r
  <2>. QED BY <1>t, <2>1, <2>3, <2>5, <2>6 DEF GatewayInv
<1>7. ASSUME Save PROVE GatewayInv'
  BY <1>7, <1>t DEF Save, GatewayInv, TypeOK, BacklogFits, PhaseFits
<1>8. ASSUME SaveFails PROVE GatewayInv'
  <2>1. /\ backlog # <<>> /\ Close(Head(backlog))
        /\ UNCHANGED <<transcript, attempt, mem, disk>>
    BY <1>8, <1>c DEF SaveFails
  <2>2. /\ BacklogFits' /\ backlog' \in Seq(Request) /\ waiting' \in [Session -> BOOLEAN]
        /\ phase' = "idle"
    BY <1>t, <2>1, ClosedBacklog
  <2>. QED BY <1>t, <2>1, <2>2 DEF GatewayInv, TypeOK, PhaseFits
\* Replying: the client that still waits shows all of its transcript, so the
\* answer follows right behind the cursor.
<1>9. ASSUME Reply PROVE GatewayInv'
  <2>. DEFINE r == Head(backlog)
              a == mem.cursor[r.session].reafference
  <2>1. /\ backlog # <<>> /\ Close(r) /\ phase = "saved"
        /\ transcript' = IF Waits(r) THEN [transcript EXCEPT ![r.session] = Append(@, a)]
                         ELSE transcript
        /\ UNCHANGED <<attempt, mem, disk>>
    BY <1>9, <1>c DEF Reply
  <2>2. /\ r \in Request /\ r.session \in Session
        /\ Fits(r, transcript, attempt, waiting)
    BY <1>h, <2>1 DEF Request
  <2>3. /\ mem.cursor[r.session].sequence = r.rows /\ a \in Answer /\ disk = mem
    BY <1>t, <2>1 DEF PhaseFits
  <2>. HIDE DEF r, a
  <2>4. CASE ~Waits(r)
    <3>1. UNCHANGED <<transcript, attempt, mem, disk>>
      BY <2>1, <2>4
    <3>2. /\ BacklogFits' /\ backlog' \in Seq(Request) /\ waiting' \in [Session -> BOOLEAN]
          /\ phase' = "idle"
      BY <1>t, <2>1, <3>1, ClosedBacklog DEF r
    <3>. QED BY <1>t, <3>1, <3>2 DEF GatewayInv, TypeOK, PhaseFits
  <2>5. CASE Waits(r)
    <3>1. transcript' = [transcript EXCEPT ![r.session] = Append(@, a)]
      BY <2>1, <2>5
    <3>2. r.rows = Len(transcript[r.session])
      BY <2>2, <2>5 DEF Fits, Waits
    <3>3. mem.cursor[r.session] = [sequence |-> Len(transcript[r.session]), reafference |-> a]
      <4>1. mem.cursor[r.session] \in Cursor
        BY <1>c, <2>2 DEF Life
      <4>. QED BY <2>3, <3>2, <4>1 DEF Cursor, a
    <3>4. Sound(mem, transcript')
      BY <1>c, <1>t, <2>2, <2>3, <3>1, <3>3, SoundLonger
    <3>5. /\ transcript'[r.session] \in Seq(Answer \union {Contact})
          /\ Len(transcript'[r.session]) = Len(transcript[r.session]) + 1
          /\ Len(transcript[r.session]) \in Nat
          /\ \A q \in Session : q # r.session => transcript'[q] = transcript[q]
      <4>1. transcript[r.session] \in Seq(Answer \union {Contact})
        BY <1>c, <2>2 DEF Transcripts
      <4>2. transcript'[r.session] = Append(transcript[r.session], a)
        BY <1>c, <2>2, <3>1 DEF Transcripts
      <4>3. \A q \in Session : q # r.session => transcript'[q] = transcript[q]
        BY <1>c, <3>1 DEF Transcripts
      <4>. QED BY <2>3, <4>1, <4>2, <4>3, AppendProperties, LenProperties
    <3>6. /\ waiting' = [waiting EXCEPT ![r.session] = FALSE]
          /\ backlog' = Tail(backlog) /\ phase' = "idle"
      BY <2>1, <2>5 DEF Close
    <3>7. ASSUME NEW q \in Request, Fits(q, transcript, attempt, waiting)
          PROVE  Fits(q, transcript', attempt', waiting')
      <4>1. q.session \in Session /\ q.rows \in Nat
        BY DEF Request
      <4>2. CASE q.session = r.session
        BY <1>c, <2>1, <3>5, <3>6, <3>7, <4>1, <4>2 DEF Fits
      <4>3. CASE q.session # r.session
        BY <1>c, <2>1, <3>5, <3>6, <3>7, <4>1, <4>3 DEF Fits
      <4>. QED BY <4>2, <4>3
    <3>8. BacklogFits'
      BY <1>t, <2>1, <3>6, <3>7, BacklogKept
    <3>9. TypeOK'
      <4>1. transcript' \in [Session -> Seq(Answer \union {Contact})]
        BY <1>c, <3>1, <3>5 DEF Transcripts
      <4>2. backlog' \in Seq(Request) /\ waiting' \in [Session -> BOOLEAN]
        BY <1>c, <2>1, <3>6, HeadTailProperties
      <4>. QED BY <1>t, <2>1, <3>6, <4>1, <4>2 DEF TypeOK
    <3>. QED BY <2>1, <2>3, <3>4, <3>6, <3>8, <3>9 DEF GatewayInv, PhaseFits
  <2>. QED BY <2>4, <2>5
<1>10. ASSUME OtherRequest PROVE GatewayInv'
  BY <1>10, <1>t DEF OtherRequest, GatewayInv, TypeOK, BacklogFits, PhaseFits
<1>11. ASSUME Crash PROVE GatewayInv'
  <2>1. BacklogFits' /\ TypeOK'
    BY <1>11, <1>t DEF Crash, BacklogFits, TypeOK
  <2>. QED BY <1>11, <1>t, <2>1 DEF Crash, GatewayInv, PhaseFits
<1>12. CASE UNCHANGED vars
  BY <1>12, <1>t DEF vars, GatewayInv, TypeOK, BacklogFits, PhaseFits
<1>. QED
  BY <1>1, <1>2, <1>3, <1>4, <1>5, <1>6, <1>7, <1>8, <1>9, <1>10, <1>11, <1>12
     DEF Next, HandlerStep

\* The inductive invariant behind the theorems below.
LEMMA GatewayInvHolds == Spec => []GatewayInv
<1>. QED BY InitGatewayInv, NextGatewayInv, PTL DEF Spec

\* Every reachable state of the gateway, its clients and its checkpoint is typed.
THEOREM GatewayTypeCorrect == Spec => []TypeOK
<1>1. GatewayInv => TypeOK
  BY DEF GatewayInv
<1>. QED BY <1>1, GatewayInvHolds, PTL

\* However often rows are posted, and whatever is lost, the Adult hears a session's
\* contacts in their order and never again once a request with them was settled.
THEOREM SettledContactsNeverRepeat == Spec => []SettledOnceInOrder
<1>1. GatewayInv => SettledOnceInOrder
  BY DEF GatewayInv, Sound, OnceInOrder, SettledOnceInOrder
<1>. QED BY <1>1, GatewayInvHolds, PTL

\* The durable cursor has passed no contact the durable runtime has not heard.
THEOREM CursorsPassOnlyTheHeard == Spec => []PassedIsHeard
<1>1. GatewayInv => PassedIsHeard
  BY DEF GatewayInv, Sound, Passed, PassedIsHeard
<1>. QED BY <1>1, GatewayInvHolds, PTL

\* An answer a client holds survives every crash: the checkpoint has passed the
\* contact it answers and, were it the last, waits for exactly this answer.
THEOREM DeliveredAnswersAreDurable == Spec => []DeliveredIsDurable
<1>1. GatewayInv => DeliveredIsDurable
  BY DEF GatewayInv, Sound, Delivered, DeliveredIsDurable
<1>. QED BY <1>1, GatewayInvHolds, PTL

=============================================================================
