----------------------- MODULE DirectAdultSitdown_proofs -----------------------
(* Theorems about DirectAdultSitdown, for any number of checkpoint paths,     *)
(* contacts, failures and pages, and any size of ring and page.               *)
EXTENDS DirectAdultSitdown, SequenceTheorems, WellFoundedInduction, TLAPS

-----------------------------------------------------------------------------
(* Type correctness.                                                          *)

Steps    == {"down", "live", "draining", "drained", "settled", "saving"}
Archives == {"none", "locked", "stored"}
Sitting  == [step: Steps, adult: Adult, heard: BOOLEAN, archive: Archives, created: BOOLEAN]

\* What a checkpoint file may be: the typing of saved in SitdownTypeOK, as a set.
Checkpoints == {<<>>} \union {<<a>> : a \in Adult}

TypeInv ==
  /\ sitting \in [Sitter -> Sitting] /\ saved \in [Sitter -> Checkpoints]
  /\ linked \subseteq Sitter /\ objects \subseteq Seq(Seq(Byte))
  /\ contacts \in Nat /\ failures \in Nat

LEMMA BornIsAdult == Born \in Adult /\ Down \in Sitting
<1>1. <<>> \in Seq(Byte) /\ <<>> \in Seq(Seq(Byte))
  OBVIOUS
<1>. QED BY <1>1 DEF Born, Down, Adult, Sitting, Steps, Archives

\* An epoch of an adult leaves an adult, with nothing staged.
LEMMA EpochType ==
  ASSUME NEW a \in Adult
  PROVE  Epoch(a) \in Adult /\ Epoch(a).queue = <<>>
<1> DEFINE heard == a.hot \o a.queue
<1>1. a.hot \in Seq(Byte) /\ a.queue \in Seq(Byte) /\ a.chain \in Seq(Seq(Byte)) /\ a.sealed \in BOOLEAN
  BY DEF Adult
<1>2. heard \in Seq(Byte) /\ <<>> \in Seq(Byte)
  BY <1>1
<1> DEFINE full == Len(heard) = HotPage
<1>3. full \in BOOLEAN
  OBVIOUS
<1>. HIDE DEF full, heard
<1>4. CASE a.queue = <<>>
  BY <1>4 DEF Epoch
<1>5. CASE a.queue # <<>> /\ (a.sealed \/ Len(heard) > HotPage)
  <2>1. Epoch(a) = [a EXCEPT !.sealed = TRUE, !.queue = <<>>]
    BY <1>5 DEF Epoch, heard
  <2>. QED BY <1>1, <1>2, <2>1 DEF Adult
<1>6. CASE a.queue # <<>> /\ ~(a.sealed \/ Len(heard) > HotPage)
  <2>1. Epoch(a) = [a EXCEPT !.hot = heard, !.sealed = full, !.queue = <<>>]
    BY <1>6 DEF Epoch, heard, full
  <2>. QED BY <1>1, <1>2, <1>3, <2>1 DEF Adult
<1>. QED BY <1>4, <1>5, <1>6

\* What the sitting of an adult becomes, by the field that changes.
LEMMA SittingFields ==
  ASSUME NEW s \in Sitting
  PROVE  /\ \A step \in Steps : [s EXCEPT !.step = step] \in Sitting
         /\ \A a \in Adult : [s EXCEPT !.adult = a] \in Sitting
         /\ \A archive \in Archives : [s EXCEPT !.archive = archive] \in Sitting
         /\ \A created \in BOOLEAN : [s EXCEPT !.created = created] \in Sitting
BY DEF Sitting

LEMMA TypeInitially == SitdownInit => TypeInv
<1>. SUFFICES ASSUME SitdownInit PROVE TypeInv
  OBVIOUS
<1>1. sitting \in [Sitter -> Sitting]
  BY BornIsAdult DEF SitdownInit
<1>2. saved \in [Sitter -> Checkpoints]
  BY BornIsAdult DEF SitdownInit, Checkpoints
<1>. QED BY <1>1, <1>2, SitdownAssumption DEF SitdownInit, TypeInv

\* What the sitting on path p, or the laboratory on its behalf, may do.
StepOf(p) ==
  \/ Branch(p) \/ Discard(p) \/ Resume(p) \/ \E b \in Byte : Contact(p, b)
  \/ LiveEpoch(p) \/ Stop(p) \/ DrainSpan(p) \/ SettlementSpan(p) \/ NothingToSettle(p)
  \/ Persist(p) \/ Kill(p)
  \/ PageOpen(p) \/ LockArchive(p) \/ ArchiveRefused(p)
  \/ Store(p) \/ Acknowledge(p) \/ AcknowledgeFails(p)

\* A step leaves every variable but sitting of its type.
LEMMA TypeOfFiles ==
  ASSUME TypeInv, NEW p \in Sitter, StepOf(p)
  PROVE  /\ saved' \in [Sitter -> Checkpoints] /\ linked' \subseteq Sitter
         /\ objects' \subseteq Seq(Seq(Byte)) /\ contacts' \in Nat /\ failures' \in Nat
<1>2. CASE Branch(p)
  BY <1>2, SitdownAssumption DEF Branch, TypeInv
<1>3. CASE Discard(p)
  BY <1>3 DEF Discard, TypeInv, Checkpoints
<1>4. CASE \E b \in Byte : Contact(p, b)
  BY <1>4 DEF Contact, TypeInv
<1>5. CASE Persist(p)
  <2>1. <<sitting[p].adult>> \in Checkpoints
    BY DEF TypeInv, Sitting, Checkpoints
  <2>. QED BY <1>5, <2>1 DEF Persist, Replaced, TypeInv
<1>6. CASE Kill(p)
  BY <1>6 DEF Kill, TypeInv
<1>7. CASE Store(p)
  <2>1. sitting[p].adult.chain \in Seq(Seq(Byte)) /\ sitting[p].adult.hot \in Seq(Byte)
    BY DEF TypeInv, Sitting, Adult
  <2>2. Object(p) \in Seq(Seq(Byte))
    BY <2>1 DEF Object
  <2>. QED BY <1>7, <2>2 DEF Store, TypeInv
<1>8. CASE AcknowledgeFails(p)
  BY <1>8 DEF AcknowledgeFails, TypeInv
<1>9. CASE \/ Resume(p) \/ LiveEpoch(p) \/ Stop(p) \/ DrainSpan(p) \/ SettlementSpan(p)
           \/ NothingToSettle(p) \/ PageOpen(p) \/ LockArchive(p) \/ ArchiveRefused(p)
           \/ Acknowledge(p)
  BY <1>9 DEF Resume, LiveEpoch, Stop, DrainSpan, SettlementSpan, NothingToSettle, PageOpen,
              LockArchive, ArchiveRefused, Acknowledge, Goes, TypeInv
<1>. QED BY <1>2, <1>3, <1>4, <1>5, <1>6, <1>7, <1>8, <1>9 DEF StepOf

-----------------------------------------------------------------------------
(* What a sitting must keep so that the adult it saves can hear.              *)

Quiet(a) == a.queue = <<>> /\ ~a.sealed

SittingQuiet(s) ==
  /\ s.heard \/ Quiet(s.adult)
  /\ s.step = "saving" => Quiet(s.adult)
  /\ s.step \in {"drained", "settled"} => s.adult.queue = <<>>
  /\ s.archive # "none" => s.step \in {"drained", "settled"} /\ s.adult.sealed

QuietInv == SavedCanHear /\ \A p \in Sitter : SittingQuiet(sitting[p])

\* Each step puts one sitting that keeps it in the place of another.
LEMMA SittingStep ==
  ASSUME TypeInv, QuietInv, NEW p \in Sitter, StepOf(p)
  PROVE  \E s \in Sitting : SittingQuiet(s) /\ sitting' = [sitting EXCEPT ![p] = s]
<1>. DEFINE now == sitting[p]
<1>1. now \in Sitting /\ SittingQuiet(now) /\ now.adult \in Adult
  BY DEF TypeInv, QuietInv, Sitting
<1>2. Down \in Sitting /\ SittingQuiet(Down)
  BY BornIsAdult DEF SittingQuiet, Down, Born, Quiet
<1>3. CASE Branch(p) \/ Discard(p)
  <2>1. sitting' = sitting
    BY <1>3 DEF Branch, Discard
  <2>2. sitting' = [sitting EXCEPT ![p] = now]
    BY <2>1 DEF TypeInv
  <2>. QED BY <1>1, <2>2
<1>4. CASE Resume(p)
  <2>. DEFINE s == [Down EXCEPT !.step = "live", !.adult = saved[p][1]]
  <2>1. saved[p][1] \in Adult /\ Quiet(saved[p][1])
    BY <1>4 DEF Resume, TypeInv, Checkpoints, QuietInv, SavedCanHear, Quiet
  <2>2. s \in Sitting /\ SittingQuiet(s)
    BY <1>2, <2>1 DEF Sitting, Steps, SittingQuiet, Down
  <2>. QED BY <1>4, <2>2 DEF Resume
<1>5. CASE \E b \in Byte : Contact(p, b)
  <2>1. PICK b \in Byte : Contact(p, b)
    BY <1>5
  <2>2. CASE Len(now.adult.queue) = StageRing
    BY <2>1, <2>2, <1>2 DEF Contact
  <2>3. CASE Len(now.adult.queue) # StageRing
    <3>. DEFINE adult == [now.adult EXCEPT !.queue = Append(@, b)]
                s == [now EXCEPT !.adult = adult, !.heard = TRUE]
    <3>1. Append(now.adult.queue, b) \in Seq(Byte)
      BY <1>1 DEF Adult
    <3>2. adult \in Adult
      BY <1>1, <3>1 DEF Adult
    <3>3. s \in Sitting /\ SittingQuiet(s)
      BY <1>1, <2>1, <3>2 DEF Sitting, SittingQuiet, Contact, At
    <3>4. sitting' = [sitting EXCEPT ![p] = s]
      BY <1>1, <2>1, <2>3 DEF Contact, TypeInv, Sitting
    <3>. QED BY <3>3, <3>4
  <2>. QED BY <2>2, <2>3
<1>6. CASE LiveEpoch(p)
  <2>. DEFINE s == [now EXCEPT !.adult = Epoch(now.adult)]
  <2>1. Epoch(now.adult) \in Adult /\ Epoch(now.adult).queue = <<>>
    BY <1>1, EpochType
  <2>2. s \in Sitting /\ SittingQuiet(s)
    BY <1>1, <1>6, <2>1 DEF LiveEpoch, At, Sitting, SittingQuiet, Quiet
  <2>3. sitting' = [sitting EXCEPT ![p] = s]
    BY <1>6 DEF LiveEpoch, TypeInv
  <2>. QED BY <2>2, <2>3
<1>7. CASE DrainSpan(p)
  <2>. DEFINE s == [now EXCEPT !.adult = Epoch(now.adult), !.step = "drained"]
  <2>1. Epoch(now.adult) \in Adult /\ Epoch(now.adult).queue = <<>>
    BY <1>1, EpochType
  <2>2. s \in Sitting /\ SittingQuiet(s)
    BY <1>1, <1>7, <2>1 DEF DrainSpan, At, Sitting, Steps, SittingQuiet, Quiet
  <2>3. sitting' = [sitting EXCEPT ![p] = s]
    BY <1>7 DEF DrainSpan, TypeInv
  <2>. QED BY <2>2, <2>3
<1>8. CASE Stop(p) \/ SettlementSpan(p) \/ NothingToSettle(p) \/ PageOpen(p)
  <2>. DEFINE Moved(step) == [now EXCEPT !.step = step]
  <2>1. \E step \in Steps : SittingQuiet(Moved(step)) /\ sitting' = [sitting EXCEPT ![p] = Moved(step)]
    <3>1. CASE Stop(p)
      BY <1>1, <3>1 DEF Stop, Goes, At, TypeInv, Sitting, Steps, SittingQuiet, Quiet
    <3>2. CASE SettlementSpan(p)
      BY <1>1, <3>2 DEF SettlementSpan, Goes, At, TypeInv, Sitting, Steps, SittingQuiet, Quiet
    <3>3. CASE NothingToSettle(p)
      BY <1>1, <3>3 DEF NothingToSettle, Unsettled, Goes, At, TypeInv, Sitting, Steps,
                        SittingQuiet, Quiet
    <3>4. CASE PageOpen(p)
      BY <1>1, <3>4 DEF PageOpen, SpanEnds, AfterPage, Goes, At, TypeInv, Sitting, Steps,
                        SittingQuiet, Quiet
    <3>. QED BY <1>8, <3>1, <3>2, <3>3, <3>4
  <2>. QED BY <1>1, <2>1, SittingFields
<1>9. CASE Persist(p) \/ Kill(p) \/ ArchiveRefused(p) \/ AcknowledgeFails(p)
  BY <1>2, <1>9 DEF Persist, Kill, ArchiveRefused, AcknowledgeFails
<1>10. CASE LockArchive(p)
  <2>. DEFINE s == [now EXCEPT !.archive = "locked"]
  <2>1. s \in Sitting /\ SittingQuiet(s)
    BY <1>1, <1>10 DEF LockArchive, SpanEnds, Sitting, Archives, SittingQuiet
  <2>. QED BY <1>10, <2>1 DEF LockArchive
<1>11. CASE Store(p)
  <2>. DEFINE s == [now EXCEPT !.archive = "stored", !.created = Object(p) \notin objects]
  <2>1. (Object(p) \notin objects) \in BOOLEAN
    OBVIOUS
  <2>2. s \in Sitting /\ SittingQuiet(s)
    BY <1>1, <1>11, <2>1 DEF Store, Sitting, Archives, SittingQuiet
  <2>3. sitting' = [sitting EXCEPT ![p] = s]
    BY <1>11 DEF Store
  <2>. QED BY <2>2, <2>3
<1>12. CASE Acknowledge(p)
  <2>. DEFINE adult == [now.adult EXCEPT !.chain = Object(p), !.hot = <<>>, !.sealed = FALSE]
              s == [now EXCEPT !.adult = adult, !.archive = "none", !.created = FALSE,
                               !.step = AfterPage(p)]
  <2>1. Object(p) \in Seq(Seq(Byte)) /\ <<>> \in Seq(Byte)
    BY <1>1 DEF Object, Adult
  <2>2. adult \in Adult /\ Quiet(adult)
    BY <1>1, <1>12, <2>1 DEF Acknowledge, Adult, SittingQuiet, Quiet
  <2>3. s \in Sitting /\ SittingQuiet(s)
    BY <1>1, <2>2 DEF AfterPage, Sitting, Steps, Archives, SittingQuiet, Quiet
  <2>4. sitting' = [sitting EXCEPT ![p] = s]
    BY <1>12 DEF Acknowledge
  <2>. QED BY <2>3, <2>4
<1>. QED
  BY <1>3, <1>4, <1>5, <1>6, <1>7, <1>8, <1>9, <1>10, <1>11, <1>12 DEF StepOf

LEMMA QuietInitially == SitdownInit => QuietInv
<1>. SUFFICES ASSUME SitdownInit PROVE QuietInv
  OBVIOUS
<1>1. \A p \in Sitter : SittingQuiet(sitting[p])
  BY DEF SitdownInit, SittingQuiet, Down, Born, Quiet
<1>2. SavedCanHear
  BY DEF SitdownInit, SavedCanHear, Born
<1>. QED BY <1>1, <1>2 DEF QuietInv

LEMMA QuietFiles ==
  ASSUME TypeInv, QuietInv, NEW p \in Sitter, StepOf(p)
  PROVE  SavedCanHear'
<1>1. CASE Persist(p)
  <2>1. Quiet(sitting[p].adult)
    BY <1>1 DEF Persist, At, QuietInv, SittingQuiet
  <2>2. saved' = [saved EXCEPT ![p] = <<sitting[p].adult>>]
    BY <1>1 DEF Persist, Replaced
  <2>. QED BY <2>1, <2>2 DEF QuietInv, SavedCanHear, TypeInv, Quiet
<1>2. CASE Branch(p)
  BY <1>2, SitdownAssumption DEF Branch, QuietInv, SavedCanHear, TypeInv
<1>3. CASE Discard(p)
  BY <1>3 DEF Discard, QuietInv, SavedCanHear, TypeInv
<1>4. CASE saved' = saved
  BY <1>4 DEF QuietInv, SavedCanHear
<1>5. \/ Branch(p) \/ Discard(p) \/ Persist(p) \/ saved' = saved
  BY DEF StepOf, Resume, Contact, LiveEpoch, Stop, DrainSpan, SettlementSpan, NothingToSettle,
         Kill, PageOpen, LockArchive, ArchiveRefused, Store, Acknowledge, AcknowledgeFails
<1>. QED BY <1>1, <1>2, <1>3, <1>4, <1>5

LEMMA Kept ==
  ASSUME TypeInv, QuietInv, [SitdownNext]_sitdownVars
  PROVE  TypeInv' /\ QuietInv'
<1>1. CASE SitdownNext
  <2>1. PICK p \in Sitter : StepOf(p)
    BY <1>1 DEF SitdownNext, StepOf
  <2>2. PICK s \in Sitting : SittingQuiet(s) /\ sitting' = [sitting EXCEPT ![p] = s]
    BY <2>1, SittingStep
  <2>3. sitting' \in [Sitter -> Sitting]
    BY <2>2 DEF TypeInv
  <2>4. TypeInv'
    BY <2>1, <2>3, TypeOfFiles DEF TypeInv
  <2>5. \A q \in Sitter : SittingQuiet(sitting'[q])
    BY <2>2 DEF TypeInv, QuietInv
  <2>6. SavedCanHear'
    BY <2>1, QuietFiles
  <2>. QED BY <2>4, <2>5, <2>6 DEF QuietInv, SittingQuiet, Quiet
<1>2. CASE UNCHANGED sitdownVars
  BY <1>2 DEF sitdownVars, TypeInv, QuietInv, SavedCanHear, SittingQuiet, Quiet
<1>. QED BY <1>1, <1>2

\* The types of the sittings, their files and the archive.
THEOREM SitdownTypeCorrect == SitdownSpec => []SitdownTypeOK
<1>1. TypeInv => SitdownTypeOK
  BY DEF TypeInv, SitdownTypeOK, Sitting, Steps, Archives, Checkpoints
<1>. QED BY <1>1, TypeInitially, QuietInitially, Kept, PTL DEF SitdownSpec

\* However contacts, stops, failures of the archive and kills fall, a saved adult
\* has no contact staged and no page sealed (main of direct_adult_sitdown.cu).
THEOREM SavedAdultsHear == SitdownSpec => []SavedCanHear
<1>1. QuietInv => SavedCanHear
  BY DEF QuietInv
<1>. QED BY <1>1, TypeInitially, QuietInitially, Kept, PTL DEF SitdownSpec

-----------------------------------------------------------------------------
(* The archive.  An object that a sitting has created and may still remove is *)
(* nobody's page yet: what adults rest on are the others.                     *)

Removable == {Object(q) : q \in {r \in Sitter : sitting[r].archive = "stored" /\ sitting[r].created}}
Sure      == objects \ Removable

DurableIn(a, rows) == \A n \in 1 .. Len(a.chain) : SubSeq(a.chain, 1, n) \in rows

ArchiveInv ==
  /\ \A p, q \in Sitter : sitting[p].archive # "none" /\ sitting[q].archive # "none" => p = q
  /\ \A p \in Sitter : sitting[p].archive = "stored" => Object(p) \in objects
  /\ \A p \in Sitter : /\ DurableIn(sitting[p].adult, Sure)
                       /\ saved[p] # <<>> => DurableIn(saved[p][1], Sure)

LEMMA DurableGrows ==
  ASSUME NEW a, NEW rows, NEW more, rows \subseteq more, DurableIn(a, rows)
  PROVE  DurableIn(a, more)
BY DEF DurableIn

LEMMA EmptyIsDurable ==
  ASSUME NEW a, a.chain = <<>>, NEW rows
  PROVE  DurableIn(a, rows)
BY DEF DurableIn

\* An epoch moves nothing out of the adult.
LEMMA EpochKeepsChain ==
  ASSUME NEW a \in Adult
  PROVE  Epoch(a).chain = a.chain
<1>. DEFINE heard == a.hot \o a.queue
            full == Len(heard) = HotPage
<1>1. \/ Epoch(a) = a
      \/ Epoch(a) = [a EXCEPT !.sealed = TRUE, !.queue = <<>>]
      \/ Epoch(a) = [a EXCEPT !.hot = heard, !.sealed = full, !.queue = <<>>]
  BY DEF Epoch
<1>. HIDE DEF heard, full
<1>. QED BY <1>1 DEF Adult

\* The object of a page makes the adult that moves it out as durable as it was.
LEMMA ObjectIsDurable ==
  ASSUME NEW chain \in Seq(Seq(Byte)), NEW hot \in Seq(Byte), NEW rows,
         \A n \in 1 .. Len(chain) : SubSeq(chain, 1, n) \in rows,
         Append(chain, hot) \in rows
  PROVE  \A n \in 1 .. Len(Append(chain, hot)) : SubSeq(Append(chain, hot), 1, n) \in rows
<1>. SUFFICES ASSUME NEW n \in 1 .. Len(Append(chain, hot))
              PROVE  SubSeq(Append(chain, hot), 1, n) \in rows
  OBVIOUS
<1>1. Len(Append(chain, hot)) = Len(chain) + 1 /\ Len(chain) \in Nat
  OBVIOUS
<1>2. CASE n = Len(chain) + 1
  <2>1. SubSeq(Append(chain, hot), 1, n) = Append(chain, hot)
    BY <1>1, <1>2
  <2>. QED BY <2>1
<1>3. CASE n \in 1 .. Len(chain)
  <2>1. SubSeq(Append(chain, hot), 1, n) = SubSeq(chain, 1, n)
    BY <1>3
  <2>. QED BY <2>1, <1>3
<1>. QED BY <1>1, <1>2, <1>3

\* What a step of p that stores, acknowledges and removes nothing makes of the
\* sitting on p.
LEMMA PlainStep ==
  ASSUME TypeInv, QuietInv, ArchiveInv, NEW p \in Sitter, StepOf(p),
         ~Store(p), ~Acknowledge(p), ~AcknowledgeFails(p)
  PROVE  /\ objects' = objects
         /\ \E s \in Sitting :
              /\ sitting' = [sitting EXCEPT ![p] = s]
              /\ s = sitting[p] \/ s.archive = "none" \/ (s.archive = "locked" /\ LockFree)
              /\ DurableIn(s.adult, Sure)
<1>. DEFINE now == sitting[p]
<1>1. now \in Sitting /\ now.adult \in Adult /\ SittingQuiet(now) /\ DurableIn(now.adult, Sure)
  BY DEF TypeInv, QuietInv, ArchiveInv, Sitting
<1>2. Down \in Sitting /\ Down.archive = "none" /\ DurableIn(Down.adult, Sure)
  BY BornIsAdult, EmptyIsDurable DEF Down, Born
<1>3. objects' = objects
  BY DEF StepOf, Branch, Discard, Resume, Contact, LiveEpoch, Stop, DrainSpan, SettlementSpan,
         NothingToSettle, Persist, Kill, PageOpen, LockArchive, ArchiveRefused
<1>4. CASE Branch(p) \/ Discard(p)
  <2>1. sitting' = [sitting EXCEPT ![p] = now]
    BY <1>4 DEF Branch, Discard, TypeInv
  <2>. QED BY <1>1, <1>3, <2>1
<1>5. CASE Resume(p)
  <2>. DEFINE s == [Down EXCEPT !.step = "live", !.adult = saved[p][1]]
  <2>1. saved[p][1] \in Adult /\ DurableIn(saved[p][1], Sure)
    BY <1>5 DEF Resume, TypeInv, Checkpoints, ArchiveInv
  <2>2. s \in Sitting /\ s.archive = "none" /\ s.adult = saved[p][1]
    BY <1>2, <2>1 DEF Sitting, Steps, Down
  <2>3. sitting' = [sitting EXCEPT ![p] = s]
    BY <1>5 DEF Resume
  <2>. QED BY <1>3, <2>1, <2>2, <2>3
<1>6. CASE \E b \in Byte : Contact(p, b)
  <2>1. PICK b \in Byte : Contact(p, b)
    BY <1>6
  <2>2. CASE sitting' = [sitting EXCEPT ![p] = Down]
    BY <1>2, <1>3, <2>2
  <2>3. CASE sitting' # [sitting EXCEPT ![p] = Down]
    <3>. DEFINE adult == [now.adult EXCEPT !.queue = Append(@, b)]
                s == [now EXCEPT !.adult = adult, !.heard = TRUE]
    <3>1. Append(now.adult.queue, b) \in Seq(Byte)
      BY <1>1 DEF Adult
    <3>2. adult \in Adult /\ adult.chain = now.adult.chain
      BY <1>1, <3>1 DEF Adult
    <3>3. s \in Sitting /\ s.archive = "none" /\ s.adult = adult
      BY <1>1, <2>1, <3>2 DEF Sitting, SittingQuiet, Contact, At
    <3>4. sitting' = [sitting EXCEPT ![p] = s]
      BY <1>1, <2>1, <2>3 DEF Contact, TypeInv, Sitting
    <3>5. DurableIn(s.adult, Sure)
      BY <1>1, <3>2, <3>3 DEF DurableIn
    <3>. QED BY <1>3, <3>3, <3>4, <3>5
  <2>. QED BY <2>2, <2>3
<1>7. CASE LiveEpoch(p) \/ DrainSpan(p)
  <2>. DEFINE s(step) == [now EXCEPT !.adult = Epoch(now.adult), !.step = step]
  <2>1. Epoch(now.adult) \in Adult /\ Epoch(now.adult).chain = now.adult.chain
    BY <1>1, EpochType, EpochKeepsChain
  <2>2. now.archive = "none"
    BY <1>1, <1>7 DEF LiveEpoch, DrainSpan, At, SittingQuiet
  <2>3. \A step \in Steps : s(step) \in Sitting /\ s(step).archive = "none"
                             /\ s(step).adult = Epoch(now.adult)
    BY <1>1, <2>1, <2>2 DEF Sitting
  <2>4. DurableIn(Epoch(now.adult), Sure)
    BY <1>1, <2>1 DEF DurableIn
  <2>5. PICK step \in Steps : sitting' = [sitting EXCEPT ![p] = s(step)]
    <3>1. CASE LiveEpoch(p)
      <4>1. s(now.step) = [now EXCEPT !.adult = Epoch(now.adult)] /\ now.step \in Steps
        BY <1>1 DEF Sitting
      <4>2. sitting' = [sitting EXCEPT ![p] = s(now.step)]
        BY <3>1, <4>1 DEF LiveEpoch, TypeInv
      <4>. QED BY <4>1, <4>2
    <3>2. CASE DrainSpan(p)
      BY <3>2 DEF DrainSpan, TypeInv, Steps
    <3>. QED BY <1>7, <3>1, <3>2
  <2>. QED BY <1>3, <2>3, <2>4, <2>5
<1>8. CASE Stop(p) \/ SettlementSpan(p) \/ NothingToSettle(p) \/ PageOpen(p)
  <2>. DEFINE s(step) == [now EXCEPT !.step = step]
  <2>1. now.archive = "none"
    BY <1>1, <1>8 DEF Stop, SettlementSpan, NothingToSettle, PageOpen, At, SittingQuiet
  <2>2. \A step \in Steps : s(step) \in Sitting /\ s(step).archive = "none"
                             /\ s(step).adult = now.adult
    BY <1>1, <2>1 DEF Sitting
  <2>3. PICK step \in Steps : sitting' = [sitting EXCEPT ![p] = s(step)]
    BY <1>8 DEF Stop, SettlementSpan, NothingToSettle, PageOpen, Goes, AfterPage, TypeInv, Steps
  <2>. QED BY <1>1, <1>3, <2>2, <2>3
<1>9. CASE Persist(p) \/ Kill(p) \/ ArchiveRefused(p)
  BY <1>2, <1>3, <1>9 DEF Persist, Kill, ArchiveRefused
<1>10. CASE LockArchive(p)
  <2>. DEFINE s == [now EXCEPT !.archive = "locked"]
  <2>1. s \in Sitting /\ s.archive = "locked" /\ s.adult = now.adult
    BY <1>1 DEF Sitting, Archives
  <2>2. LockFree /\ sitting' = [sitting EXCEPT ![p] = s]
    BY <1>10 DEF LockArchive
  <2>. QED BY <1>1, <1>3, <2>1, <2>2
<1>. QED BY <1>4, <1>5, <1>6, <1>7, <1>8, <1>9, <1>10 DEF StepOf

\* A sitting that stores nothing and removes nothing makes no page less sure.
LEMMA SureGrows ==
  ASSUME TypeInv, NEW p \in Sitter, NEW s \in Sitting, objects' = objects,
         sitting' = [sitting EXCEPT ![p] = s],
         s = sitting[p] \/ s.archive # "stored"
  PROVE  Sure \subseteq Sure'
<1>1. \A q \in Sitter : sitting'[q].archive = "stored" /\ sitting'[q].created =>
        /\ sitting[q].archive = "stored" /\ sitting[q].created /\ sitting'[q] = sitting[q]
  BY DEF TypeInv
<1>2. Removable' \subseteq Removable
  BY <1>1 DEF Removable, Object
<1>. QED BY <1>2 DEF Sure

LEMMA ArchiveInitially == SitdownInit => ArchiveInv
<1>. SUFFICES ASSUME SitdownInit PROVE ArchiveInv
  OBVIOUS
<1>1. \A p \in Sitter : sitting[p] = Down
  BY DEF SitdownInit
<1>2. \A p \in Sitter : DurableIn(sitting[p].adult, Sure)
  BY <1>1, EmptyIsDurable DEF Down, Born
<1>3. \A p \in Sitter : saved[p] # <<>> => saved[p][1] = Born
  BY DEF SitdownInit
<1>4. \A p \in Sitter : saved[p] # <<>> => DurableIn(saved[p][1], Sure)
  BY <1>3, EmptyIsDurable DEF Born
<1>. QED BY <1>1, <1>2, <1>4 DEF ArchiveInv, Down

LEMMA PlainKeepsArchive ==
  ASSUME TypeInv, QuietInv, ArchiveInv, NEW p \in Sitter, StepOf(p),
         ~Store(p), ~Acknowledge(p), ~AcknowledgeFails(p)
  PROVE  ArchiveInv'
<1>1. objects' = objects
  BY PlainStep
<1>2. PICK s \in Sitting :
        /\ sitting' = [sitting EXCEPT ![p] = s]
        /\ s = sitting[p] \/ s.archive = "none" \/ (s.archive = "locked" /\ LockFree)
        /\ DurableIn(s.adult, Sure)
  BY PlainStep
<1>3. Sure \subseteq Sure'
  BY <1>1, <1>2, SureGrows
<1>4. \A q \in Sitter : sitting'[q] = IF q = p THEN s ELSE sitting[q]
  BY <1>2 DEF TypeInv
<1>5. \A q, r \in Sitter : sitting'[q].archive # "none" /\ sitting'[r].archive # "none" => q = r
  BY <1>2, <1>4 DEF ArchiveInv, LockFree
<1>6. \A q \in Sitter : sitting'[q].archive = "stored" => Object(q)' \in objects'
  <2>. SUFFICES ASSUME NEW q \in Sitter, sitting'[q].archive = "stored"
                PROVE  Object(q)' \in objects'
    OBVIOUS
  <2>1. sitting'[q] = sitting[q]
    BY <1>2, <1>4
  <2>. QED BY <1>1, <2>1 DEF ArchiveInv, Object
<1>7. \A q \in Sitter : DurableIn(sitting'[q].adult, Sure)
  BY <1>2, <1>4 DEF ArchiveInv
<1>8. \A q \in Sitter : saved'[q] # <<>> => DurableIn(saved'[q][1], Sure)
  <2>1. CASE Persist(p)
    <3>1. \A q \in Sitter : saved'[q] = IF q = p THEN <<sitting[p].adult>> ELSE saved[q]
      BY <2>1 DEF Persist, Replaced, TypeInv
    <3>. QED BY <3>1 DEF ArchiveInv
  <2>2. CASE Branch(p)
    BY <2>2, SitdownAssumption DEF Branch, ArchiveInv, TypeInv
  <2>3. CASE Discard(p)
    BY <2>3 DEF Discard, ArchiveInv, TypeInv
  <2>4. CASE saved' = saved
    BY <2>4 DEF ArchiveInv
  <2>5. \/ Branch(p) \/ Discard(p) \/ Persist(p) \/ saved' = saved
    BY DEF StepOf, Resume, Contact, LiveEpoch, Stop, DrainSpan, SettlementSpan, NothingToSettle,
           Kill, PageOpen, LockArchive, ArchiveRefused, Store, Acknowledge, AcknowledgeFails
  <2>. QED BY <2>1, <2>2, <2>3, <2>4, <2>5
<1>9. \A q \in Sitter : DurableIn(sitting'[q].adult, Sure')
  BY <1>3, <1>7, DurableGrows
<1>10. \A q \in Sitter : saved'[q] # <<>> => DurableIn(saved'[q][1], Sure')
  BY <1>3, <1>8, DurableGrows
<1>. QED BY <1>5, <1>6, <1>9, <1>10 DEF ArchiveInv, DurableIn

\* The object is not yet sure if the sitting has created it, and was if not.
LEMMA StoreKeepsArchive ==
  ASSUME TypeInv, QuietInv, ArchiveInv, NEW p \in Sitter, Store(p)
  PROVE  ArchiveInv'
<1>. DEFINE s == [sitting[p] EXCEPT !.archive = "stored", !.created = Object(p) \notin objects]
<1>1. sitting' = [sitting EXCEPT ![p] = s] /\ objects' = objects \union {Object(p)} /\ saved' = saved
  BY DEF Store
<1>2. s.archive = "stored" /\ s.created = (Object(p) \notin objects) /\ s.adult = sitting[p].adult
  BY DEF TypeInv, Sitting
<1>3. \A q \in Sitter : sitting'[q] = IF q = p THEN s ELSE sitting[q]
  BY <1>1 DEF TypeInv
<1>4. \A q \in Sitter \ {p} : sitting[q].archive = "none"
  BY DEF Store, ArchiveInv
<1>5. \A q \in Sitter : sitting'[q].adult = sitting[q].adult /\ Object(q)' = Object(q)
  BY <1>2, <1>3 DEF Object
<1>6. Removable' \subseteq {Object(p)} /\ (Removable' # {} => Object(p) \notin objects)
  <2>1. \A q \in Sitter : sitting'[q].archive = "stored" /\ sitting'[q].created =>
          q = p /\ Object(p) \notin objects
    BY <1>2, <1>3, <1>4
  <2>. DEFINE still == {r \in Sitter : sitting'[r].archive = "stored" /\ sitting'[r].created}
  <2>2. still \subseteq {p} /\ (still # {} => Object(p) \notin objects)
    BY <2>1
  <2>3. Removable' = {Object(q)' : q \in still}
    BY DEF Removable
  <2>. HIDE DEF still
  <2>. QED BY <1>5, <2>2, <2>3
<1>7. Sure \subseteq Sure'
  BY <1>1, <1>6 DEF Sure
<1>8. \A q \in Sitter : DurableIn(sitting'[q].adult, Sure')
  BY <1>5, <1>7, DurableGrows DEF ArchiveInv
<1>9. \A q \in Sitter : saved'[q] # <<>> => DurableIn(saved'[q][1], Sure')
  BY <1>1, <1>7, DurableGrows DEF ArchiveInv
<1>10. \A q \in Sitter : sitting'[q].archive = "stored" => Object(q)' \in objects'
  BY <1>1, <1>3, <1>4, <1>5
<1>11. \A q, r \in Sitter : sitting'[q].archive # "none" /\ sitting'[r].archive # "none" => q = r
  BY <1>3, <1>4
<1>. QED BY <1>8, <1>9, <1>10, <1>11 DEF ArchiveInv, DurableIn

\* The transaction ends, and with it the last chance to remove an object.
LEMMA EndKeepsArchive ==
  ASSUME TypeInv, QuietInv, ArchiveInv, NEW p \in Sitter,
         Acknowledge(p) \/ AcknowledgeFails(p)
  PROVE  ArchiveInv'
<1>. DEFINE now == sitting[p]
<1>1. now \in Sitting /\ now.archive = "stored" /\ Object(p) \in objects /\ saved' = saved
  BY DEF TypeInv, ArchiveInv, Acknowledge, AcknowledgeFails
<1>2. \A q \in Sitter \ {p} : sitting[q].archive = "none"
  BY <1>1 DEF ArchiveInv
<1>3. Removable = IF now.created THEN {Object(p)} ELSE {}
  BY <1>1, <1>2 DEF Removable
<1>4. PICK s : /\ sitting' = [sitting EXCEPT ![p] = s] /\ s.archive = "none"
               /\ Sure \subseteq objects' /\ DurableIn(s.adult, objects')
  <2>1. CASE AcknowledgeFails(p)
    <3>1. sitting' = [sitting EXCEPT ![p] = Down]
          /\ objects' = IF now.created THEN objects \ {Object(p)} ELSE objects
      BY <2>1 DEF AcknowledgeFails
    <3>2. Sure \subseteq objects'
      BY <1>3, <3>1 DEF Sure
    <3>3. Down.archive = "none" /\ DurableIn(Down.adult, objects')
      BY EmptyIsDurable DEF Down, Born
    <3>. QED BY <3>1, <3>2, <3>3
  <2>2. CASE Acknowledge(p)
    <3>. DEFINE adult == [now.adult EXCEPT !.chain = Object(p), !.hot = <<>>, !.sealed = FALSE]
                s == [now EXCEPT !.adult = adult, !.archive = "none", !.created = FALSE,
                                 !.step = AfterPage(p)]
    <3>1. sitting' = [sitting EXCEPT ![p] = s] /\ objects' = objects
      BY <2>2 DEF Acknowledge
    <3>2. s.archive = "none" /\ s.adult = adult /\ adult.chain = Object(p)
      BY <1>1 DEF Sitting, Adult
    <3>3. Sure \subseteq objects'
      BY <3>1 DEF Sure
    <3>4. now.adult.chain \in Seq(Seq(Byte)) /\ now.adult.hot \in Seq(Byte)
      BY <1>1 DEF Sitting, Adult
    <3>5. DurableIn(now.adult, objects)
      BY DurableGrows DEF ArchiveInv, Sure
    <3>6. DurableIn(s.adult, objects')
      <4>1. Object(p) = Append(now.adult.chain, now.adult.hot)
        BY DEF Object
      <4>2. \A n \in 1 .. Len(now.adult.chain) : SubSeq(now.adult.chain, 1, n) \in objects
        BY <3>5 DEF DurableIn
      <4>3. \A n \in 1 .. Len(Object(p)) : SubSeq(Object(p), 1, n) \in objects
        BY <1>1, <3>4, <4>1, <4>2, ObjectIsDurable
      <4>4. s.adult.chain = Object(p)
        BY <3>2
      <4>. HIDE DEF s, adult
      <4>. QED BY <3>1, <4>3, <4>4 DEF DurableIn
    <3>. QED BY <3>1, <3>2, <3>3, <3>6
  <2>. QED BY <2>1, <2>2
<1>5. \A q \in Sitter : sitting'[q] = IF q = p THEN s ELSE sitting[q]
  BY <1>4 DEF TypeInv
<1>6. \A q \in Sitter : sitting'[q].archive = "none"
  BY <1>2, <1>4, <1>5
<1>7. Sure' = objects'
  BY <1>6 DEF Sure, Removable
<1>8. \A q \in Sitter : DurableIn(sitting'[q].adult, objects')
  BY <1>4, <1>5, DurableGrows DEF ArchiveInv
<1>9. \A q \in Sitter : saved'[q] # <<>> => DurableIn(saved'[q][1], objects')
  BY <1>1, <1>4, DurableGrows DEF ArchiveInv
<1>. QED BY <1>6, <1>7, <1>8, <1>9 DEF ArchiveInv, DurableIn

LEMMA ArchiveKept ==
  ASSUME TypeInv, QuietInv, ArchiveInv, [SitdownNext]_sitdownVars
  PROVE  ArchiveInv'
<1>1. CASE SitdownNext
  <2>1. PICK p \in Sitter : StepOf(p)
    BY <1>1 DEF SitdownNext, StepOf
  <2>. QED BY <2>1, PlainKeepsArchive, StoreKeepsArchive, EndKeepsArchive
<1>2. CASE UNCHANGED sitdownVars
  BY <1>2 DEF sitdownVars, ArchiveInv, DurableIn, Sure, Removable, Object
<1>. QED BY <1>1, <1>2

\* What an adult has moved out of its hot page is in the archive, whichever sittings
\* stored, failed or were killed meanwhile (archive_direct_exact_history_page).
THEOREM ChainsAreDurable == SitdownSpec => []ChainDurable
<1>1. ArchiveInv => ChainDurable
  <2>. SUFFICES ASSUME ArchiveInv PROVE ChainDurable
    OBVIOUS
  <2>1. Sure \subseteq objects
    BY DEF Sure
  <2>. QED BY <2>1 DEF ArchiveInv, ChainDurable, Durable, DurableIn
<1>. QED BY <1>1, TypeInitially, QuietInitially, ArchiveInitially, Kept, ArchiveKept, PTL
         DEF SitdownSpec

-----------------------------------------------------------------------------
(* Induction over the naturals, for a set of them: NatInduction and           *)
(* WFInduction are about an operator, which no prover here can instantiate.   *)

\* The least-number principle.
LEMMA LeastNumber ==
  ASSUME NEW T, T \subseteq Nat, T # {}
  PROVE  \E x \in T : \A y \in T : x <= y
<1>1. PICK x \in T : \A y \in T : ~(<<y, x>> \in OpToRel(<, Nat))
  BY NatLessThanWellFounded, WFMin
<1>2. \A y \in T : y < x => <<y, x>> \in OpToRel(<, Nat)
  BY DEF OpToRel
<1>3. \A y \in T : ~(y < x)
  BY <1>1, <1>2
<1>4. x \in Nat /\ \A y \in T : y \in Nat
  OBVIOUS
<1>. QED BY <1>3, <1>4

\* Induction.
LEMMA SetInduction ==
  ASSUME NEW S, 0 \in S, \A n \in Nat : n \in S => n + 1 \in S
  PROVE  Nat \subseteq S
<1>. DEFINE T == Nat \ S
<1>1. SUFFICES ASSUME T # {} PROVE FALSE
  OBVIOUS
<1>2. PICK x \in T : \A y \in T : x <= y
  BY <1>1, LeastNumber
<1>3. x \in Nat \ {0} /\ x - 1 \in Nat /\ x - 1 \notin T /\ (x - 1) + 1 = x
  BY <1>2
<1>. QED BY <1>3

-----------------------------------------------------------------------------
(* FlattenSeq, by induction on the length: what Records makes of a chain.     *)

\* The function FlattenSeq is made of.
Flat(f, s) == f = [i \in 1 .. Len(s) |-> IF i = 1 THEN s[i] ELSE f[i-1] \o s[i]]

LEMMA FlattenIs ==
  ASSUME NEW s, Len(s) # 0
  PROVE  FlattenSeq(s) = (CHOOSE f : Flat(f, s))[Len(s)]
BY DEF FlattenSeq, Flat

LEMMA FlatAppended ==
  ASSUME NEW R, NEW s \in Seq(R), NEW h \in R, Len(s) # 0, NEW f, Flat(f, s)
  PROVE  Flat([i \in 1 .. Len(s) + 1 |-> IF i <= Len(s) THEN f[i] ELSE f[Len(s)] \o h],
              Append(s, h))
<1>. DEFINE n == Len(s)
            a == Append(s, h)
            g == [i \in 1 .. n + 1 |-> IF i <= n THEN f[i] ELSE f[n] \o h]
<1>1. n \in Nat \ {0} /\ Len(a) = n + 1 /\ a[n + 1] = h /\ \A i \in 1 .. n : a[i] = s[i]
  OBVIOUS
<1>. HIDE DEF n, a
<1>2. f = [i \in 1 .. n |-> IF i = 1 THEN s[i] ELSE f[i-1] \o s[i]]
  BY DEF Flat, n
<1>3. \A i \in 1 .. n + 1 : g[i] = IF i = 1 THEN a[i] ELSE g[i-1] \o a[i]
  <2>. TAKE i \in 1 .. n + 1
  <2>1. i \in Nat /\ 1 <= i /\ i <= n + 1 /\ (i # 1 => i - 1 \in 1 .. n /\ i - 1 \in 1 .. n + 1)
    BY <1>1
  <2>2. i # 1 => g[i-1] = f[i-1]
    BY <1>1, <2>1
  <2>3. CASE i <= n
    <3>1. i \in 1 .. n /\ g[i] = f[i] /\ a[i] = s[i]
      BY <1>1, <2>1, <2>3
    <3>2. f[i] = IF i = 1 THEN s[i] ELSE f[i-1] \o s[i]
      BY <1>2, <3>1
    <3>. HIDE DEF g
    <3>. QED BY <2>2, <3>1, <3>2
  <2>4. CASE i = n + 1
    <3>1. i # 1 /\ i - 1 = n /\ ~(i <= n)
      BY <1>1, <2>4
    <3>2. g[i] = f[n] \o h /\ a[i] = h
      BY <1>1, <2>4, <3>1
    <3>. HIDE DEF g
    <3>. QED BY <2>2, <3>1, <3>2
  <2>. QED BY <1>1, <2>1, <2>3, <2>4
<1>4. g = [i \in 1 .. n + 1 |-> IF i = 1 THEN a[i] ELSE g[i-1] \o a[i]]
  BY <1>3
<1>. QED BY <1>1, <1>4 DEF Flat, n, a

\* There is such a function for every sequence that is not empty.
LEMMA FlatExists ==
  ASSUME NEW R, NEW s \in Seq(R), Len(s) # 0
  PROVE  \E f : Flat(f, s)
<1>. DEFINE S == {n \in Nat : \A q \in Seq(R) : Len(q) = n + 1 => \E f : Flat(f, q)}
<1>1. 0 \in S
  <2>. SUFFICES ASSUME NEW q \in Seq(R), Len(q) = 1 PROVE \E f : Flat(f, q)
    OBVIOUS
  <2>. DEFINE f == [i \in 1 .. 1 |-> q[i]]
  <2>1. f = [i \in 1 .. 1 |-> IF i = 1 THEN q[i] ELSE f[i-1] \o q[i]]
    OBVIOUS
  <2>. QED BY <2>1 DEF Flat
<1>2. ASSUME NEW n \in Nat, n \in S PROVE n + 1 \in S
  <2>. SUFFICES ASSUME NEW q \in Seq(R), Len(q) = n + 2 PROVE \E f : Flat(f, q)
    OBVIOUS
  <2>. DEFINE r == SubSeq(q, 1, n + 1)
  <2>1. r \in Seq(R) /\ Len(r) = n + 1 /\ q[n + 2] \in R /\ q = Append(r, q[n + 2])
    OBVIOUS
  <2>. HIDE DEF r
  <2>2. PICK f : Flat(f, r)
    BY <1>2, <2>1
  <2>3. Len(r) # 0
    BY <2>1
  <2>4. \E e : Flat(e, Append(r, q[n + 2]))
    BY <2>1, <2>2, <2>3, FlatAppended
  <2>. QED BY <2>1, <2>4
<1>. HIDE DEF S
<1>3. Nat \subseteq S
  BY <1>1, <1>2, SetInduction
<1>4. Len(s) - 1 \in Nat /\ (Len(s) - 1) + 1 = Len(s)
  OBVIOUS
<1>. QED BY <1>3, <1>4 DEF S

\* And only one.
LEMMA FlatIsOne ==
  ASSUME NEW R, NEW s \in Seq(R), NEW f, NEW g, Flat(f, s), Flat(g, s)
  PROVE  f = g
<1>. DEFINE S == {n \in Nat : n + 1 \in 1 .. Len(s) => f[n + 1] = g[n + 1]}
<1>0. /\ f = [i \in 1 .. Len(s) |-> IF i = 1 THEN s[i] ELSE f[i-1] \o s[i]]
      /\ g = [i \in 1 .. Len(s) |-> IF i = 1 THEN s[i] ELSE g[i-1] \o s[i]]
  BY DEF Flat
<1>1. 0 \in S
  BY <1>0
<1>2. ASSUME NEW n \in Nat, n \in S PROVE n + 1 \in S
  <2>. SUFFICES ASSUME n + 2 \in 1 .. Len(s) PROVE f[n + 2] = g[n + 2]
    OBVIOUS
  <2>1. n + 1 \in 1 .. Len(s) /\ n + 2 # 1 /\ (n + 2) - 1 = n + 1
    OBVIOUS
  <2>2. f[n + 1] = g[n + 1]
    BY <1>2, <2>1
  <2>3. f[n + 2] = f[n + 1] \o s[n + 2] /\ g[n + 2] = g[n + 1] \o s[n + 2]
    BY <1>0, <2>1
  <2>. QED BY <2>2, <2>3
<1>. HIDE DEF S
<1>3. Nat \subseteq S
  BY <1>1, <1>2, SetInduction
<1>4. \A i \in 1 .. Len(s) : f[i] = g[i]
  <2>. TAKE i \in 1 .. Len(s)
  <2>1. i - 1 \in Nat /\ (i - 1) + 1 = i
    OBVIOUS
  <2>. QED BY <1>3, <2>1 DEF S
<1>. QED BY <1>0, <1>4

\* A page more is its records more.
LEMMA FlattenAppended ==
  ASSUME NEW R, NEW s \in Seq(R), NEW h \in R, Len(s) # 0
  PROVE  FlattenSeq(Append(s, h)) = FlattenSeq(s) \o h
<1>. DEFINE n == Len(s)
            a == Append(s, h)
            f == CHOOSE x : Flat(x, s)
            e == CHOOSE x : Flat(x, a)
            g == [i \in 1 .. n + 1 |-> IF i <= n THEN f[i] ELSE f[n] \o h]
<1>1. a \in Seq(R) /\ Len(a) = n + 1 /\ n \in Nat \ {0} /\ n + 1 # 0
  OBVIOUS
<1>2. Flat(f, s)
  BY FlatExists
<1>. HIDE DEF f
<1>3. Flat(g, a)
  BY <1>2, FlatAppended
<1>. HIDE DEF g, a
<1>4. Flat(e, a)
  BY <1>3
<1>. HIDE DEF e
<1>5. e = g
  BY <1>1, <1>3, <1>4, FlatIsOne
<1>6. FlattenSeq(s) = f[n]
  BY FlattenIs DEF f
<1>7. FlattenSeq(a) = e[n + 1]
  BY <1>1, FlattenIs DEF e
<1>8. g[n + 1] = f[n] \o h
  BY <1>1 DEF g
<1>. QED BY <1>5, <1>6, <1>7, <1>8 DEF a

LEMMA FlattenOne ==
  ASSUME NEW R, NEW h \in R
  PROVE  FlattenSeq(<<h>>) = h
<1>. DEFINE s == <<h>>
            f == CHOOSE x : Flat(x, s)
<1>1. s \in Seq(R) /\ Len(s) = 1 /\ s[1] = h
  OBVIOUS
<1>. HIDE DEF s
<1>2. \E x : Flat(x, s)
  <2>1. Len(s) # 0
    BY <1>1
  <2>. QED BY <1>1, <2>1, FlatExists
<1>5. Flat(f, s)
  BY <1>2
<1>3. FlattenSeq(s) = f[1]
  BY <1>1, FlattenIs
<1>. HIDE DEF f
<1>4. f[1] = h
  BY <1>1, <1>5 DEF Flat
<1>. QED BY <1>3, <1>4 DEF s

LEMMA FlattenNone ==
  ASSUME NEW s, Len(s) = 0
  PROVE  FlattenSeq(s) = s
BY DEF FlattenSeq

\* The records of a chain of pages are a sequence.
LEMMA FlattenType ==
  ASSUME NEW R, NEW s \in Seq(Seq(R))
  PROVE  FlattenSeq(s) \in Seq(R)
<1>1. CASE Len(s) = 0
  <2>1. FlattenSeq(s) = s /\ s = <<>>
    BY <1>1, FlattenNone
  <2>2. <<>> \in Seq(R)
    OBVIOUS
  <2>. QED BY <2>1, <2>2
<1>2. CASE Len(s) # 0
  <2>. DEFINE f == CHOOSE x : Flat(x, s)
              S == {n \in Nat : n + 1 \in 1 .. Len(s) => f[n + 1] \in Seq(R)}
  <2>1. Flat(f, s)
    BY <1>2, FlatExists
  <2>. HIDE DEF f
  <2>2. f = [i \in 1 .. Len(s) |-> IF i = 1 THEN s[i] ELSE f[i-1] \o s[i]]
    BY <2>1 DEF Flat
  <2>3. 0 \in S
    BY <2>2
  <2>4. ASSUME NEW n \in Nat, n \in S PROVE n + 1 \in S
    <3>. SUFFICES ASSUME n + 2 \in 1 .. Len(s) PROVE f[n + 2] \in Seq(R)
      OBVIOUS
    <3>1. n + 1 \in 1 .. Len(s) /\ n + 2 # 1 /\ (n + 2) - 1 = n + 1
      OBVIOUS
    <3>2. f[n + 1] \in Seq(R) /\ s[n + 2] \in Seq(R)
      BY <2>4, <3>1
    <3>3. f[n + 2] = f[n + 1] \o s[n + 2]
      BY <2>2, <3>1
    <3>. QED BY <3>2, <3>3
  <2>. HIDE DEF S
  <2>5. Nat \subseteq S
    BY <2>3, <2>4, SetInduction
  <2>6. Len(s) - 1 \in Nat /\ (Len(s) - 1) + 1 = Len(s) /\ Len(s) \in 1 .. Len(s)
    BY <1>2
  <2>7. f[Len(s)] \in Seq(R)
    BY <2>5, <2>6 DEF S
  <2>. QED BY <1>2, <2>7, FlattenIs DEF f
<1>. QED BY <1>1, <1>2

-----------------------------------------------------------------------------
(* Checkpoints only grow.                                                     *)

\* What adult a has recorded, adult b has recorded first.
Extends(a, b) == IsPrefix(Records(a), Records(b))

LEMMA RecordsType ==
  ASSUME NEW a \in Adult
  PROVE  Records(a) \in Seq(Byte) /\ FlattenSeq(a.chain) \in Seq(Byte)
<1>1. a.chain \in Seq(Seq(Byte)) /\ a.hot \in Seq(Byte)
  BY DEF Adult
<1>2. FlattenSeq(a.chain) \in Seq(Byte)
  BY <1>1, FlattenType
<1>. QED BY <1>1, <1>2, ConcatProperties DEF Records

LEMMA PrefixItself ==
  ASSUME NEW s \in Seq(Byte)
  PROVE  IsPrefix(s, s)
BY DEF IsPrefix

LEMMA PrefixOfLonger ==
  ASSUME NEW s \in Seq(Byte), NEW t \in Seq(Byte)
  PROVE  IsPrefix(s, s \o t)
<1>. DEFINE u == s \o t
<1>1. /\ u \in Seq(Byte) /\ Len(u) = Len(s) + Len(t) /\ Len(s) \in Nat /\ Len(t) \in Nat
      /\ \A i \in 1 .. Len(s) : u[i] = s[i]
  BY ConcatProperties
<1>. HIDE DEF u
<1>2. SubSeq(s, 1, Len(s)) = SubSeq(u, 1, Len(s))
  BY <1>1
<1>. QED BY <1>1, <1>2 DEF IsPrefix, u

LEMMA PrefixOn ==
  ASSUME NEW s \in Seq(Byte), NEW t \in Seq(Byte), NEW u \in Seq(Byte),
         IsPrefix(s, t), IsPrefix(t, u)
  PROVE  IsPrefix(s, u)
<1>1. \A i \in 1 .. Len(s) : s[i] = t[i]
  <2>. TAKE i \in 1 .. Len(s)
  <2>1. SubSeq(s, 1, Len(s))[i] = s[i] /\ SubSeq(t, 1, Len(s))[i] = t[i]
    BY DEF IsPrefix
  <2>. QED BY <2>1 DEF IsPrefix
<1>2. \A i \in 1 .. Len(t) : t[i] = u[i]
  <2>. TAKE i \in 1 .. Len(t)
  <2>1. SubSeq(t, 1, Len(t))[i] = t[i] /\ SubSeq(u, 1, Len(t))[i] = u[i]
    BY DEF IsPrefix
  <2>. QED BY <2>1 DEF IsPrefix
<1>3. Len(s) <= Len(t) /\ Len(t) <= Len(u)
  BY DEF IsPrefix
<1>4. \A i \in 1 .. Len(s) : s[i] = u[i]
  BY <1>1, <1>2, <1>3
<1>. QED BY <1>3, <1>4 DEF IsPrefix

\* An epoch adds to the records what it hears.
LEMMA EpochExtends ==
  ASSUME NEW a \in Adult
  PROVE  Extends(a, Epoch(a))
<1>. DEFINE heard == a.hot \o a.queue
            full == Len(heard) = HotPage
            f == FlattenSeq(a.chain)
<1>1. /\ a.hot \in Seq(Byte) /\ a.queue \in Seq(Byte)
      /\ f \in Seq(Byte) /\ Records(a) \in Seq(Byte)
  BY RecordsType DEF Adult
<1>2. \/ Epoch(a) = a
      \/ Epoch(a) = [a EXCEPT !.sealed = TRUE, !.queue = <<>>]
      \/ Epoch(a) = [a EXCEPT !.hot = heard, !.sealed = full, !.queue = <<>>]
  BY DEF Epoch
<1>. HIDE DEF heard, full
<1>3. /\ Epoch(a).chain = a.chain
      /\ Epoch(a).hot = a.hot \/ Epoch(a).hot = heard
  BY <1>2 DEF Adult
<1>4. CASE Epoch(a).hot = a.hot
  <2>1. Records(Epoch(a)) = Records(a)
    BY <1>3, <1>4 DEF Records
  <2>. QED BY <1>1, <2>1, PrefixItself DEF Extends
<1>5. CASE Epoch(a).hot = heard
  <2>1. Records(Epoch(a)) = f \o (a.hot \o a.queue) /\ Records(a) = f \o a.hot
    BY <1>3, <1>5 DEF Records, heard
  <2>. HIDE DEF f
  <2>2. \A x, y, z \in Seq(Byte) : (x \o y) \o z = x \o (y \o z)
    BY ConcatAssociative
  <2>3. (f \o a.hot) \o a.queue = f \o (a.hot \o a.queue)
    BY <1>1, <2>2, Zenon
  <2>4. Records(Epoch(a)) = Records(a) \o a.queue
    BY <2>1, <2>3, Zenon
  <2>. QED BY <1>1, <2>4, PrefixOfLonger DEF Extends
<1>. QED BY <1>3, <1>4, <1>5

\* A page that is moved out of the adult takes its records along.
LEMMA PageExtends ==
  ASSUME NEW a \in Adult, NEW b \in Adult, b.chain = Append(a.chain, a.hot), b.hot = <<>>
  PROVE  Extends(a, b)
<1>. DEFINE chain == a.chain
            hot   == a.hot
            f     == FlattenSeq(chain)
<1>1. /\ chain \in Seq(Seq(Byte)) /\ hot \in Seq(Byte) /\ Len(chain) \in Nat
      /\ f \in Seq(Byte) /\ Records(a) \in Seq(Byte) /\ Records(a) = f \o hot
  BY RecordsType DEF Adult, Records
<1>. HIDE DEF chain, hot
<1>2. FlattenSeq(Append(chain, hot)) = f \o hot
  <2>1. CASE Len(chain) = 0
    <3>1. chain = <<>> /\ f = <<>>
      BY <1>1, <2>1, FlattenNone
    <3>2. Append(chain, hot) = <<hot>> /\ f \o hot = hot
      BY <1>1, <3>1, ConcatEmptySeq
    <3>. HIDE DEF f
    <3>. QED BY <1>1, <3>2, FlattenOne
  <2>2. CASE Len(chain) # 0
    BY <1>1, <2>2, FlattenAppended
  <2>. QED BY <2>1, <2>2
<1>. HIDE DEF f
<1>3. Records(b) = (f \o hot) \o <<>>
  BY <1>2 DEF Records, chain, hot
<1>4. (f \o hot) \o <<>> = Records(a)
  BY <1>1, ConcatEmptySeq
<1>. QED BY <1>1, <1>3, <1>4, PrefixItself DEF Extends

\* An adult that is staged, sealed or opened records nothing.
LEMMA SameExtends ==
  ASSUME NEW a \in Adult, NEW b, b.chain = a.chain, b.hot = a.hot
  PROVE  Extends(a, b)
<1>1. Records(b) = Records(a)
  BY DEF Records
<1>. QED BY <1>1, RecordsType, PrefixItself DEF Extends

GrowthInv ==
  \A p \in Sitter :
    /\ saved[p] = <<>> => At(p, "down")
    /\ saved[p] # <<>> /\ ~At(p, "down") => Extends(saved[p][1], sitting[p].adult)

\* What a step of p makes of the sitting on p: it is down, it has just resumed what
\* is saved, or its adult extends the one it had.
LEMMA StepExtends ==
  ASSUME TypeInv, QuietInv, GrowthInv, NEW p \in Sitter, StepOf(p)
  PROVE  \E s \in Sitting :
           /\ sitting' = [sitting EXCEPT ![p] = s]
           /\ \/ s.step = "down"
              \/ saved[p] # <<>> /\ saved' = saved /\ s.adult = saved[p][1]
              \/ ~At(p, "down") /\ saved' = saved /\ Extends(sitting[p].adult, s.adult)
<1>. DEFINE now == sitting[p]
<1>1. now \in Sitting /\ now.adult \in Adult
  BY DEF TypeInv, Sitting
<1>2. Down \in Sitting /\ Down.step = "down"
  BY BornIsAdult DEF Down
<1>3. Extends(now.adult, now.adult)
  BY <1>1, SameExtends
<1>4. CASE Branch(p) \/ Discard(p)
  <2>1. sitting' = [sitting EXCEPT ![p] = now]
    BY <1>4 DEF Branch, Discard, TypeInv
  <2>2. now.step = "down"
    BY <1>4 DEF Branch, Discard, GrowthInv, At
  <2>. QED BY <1>1, <2>1, <2>2
<1>5. CASE Resume(p)
  <2>. DEFINE s == [Down EXCEPT !.step = "live", !.adult = saved[p][1]]
  <2>1. saved[p][1] \in Adult /\ saved[p] # <<>>
    BY <1>5 DEF Resume, TypeInv, Checkpoints
  <2>2. s \in Sitting /\ s.adult = saved[p][1]
    BY <1>2, <2>1 DEF Sitting, Steps, Down
  <2>3. sitting' = [sitting EXCEPT ![p] = s] /\ saved' = saved
    BY <1>5 DEF Resume
  <2>. QED BY <2>1, <2>2, <2>3
<1>6. CASE \E b \in Byte : Contact(p, b)
  <2>1. PICK b \in Byte : Contact(p, b)
    BY <1>6
  <2>2. CASE sitting' = [sitting EXCEPT ![p] = Down]
    BY <1>2, <2>2
  <2>3. CASE sitting' # [sitting EXCEPT ![p] = Down]
    <3>. DEFINE a == [now.adult EXCEPT !.queue = Append(@, b)]
                s == [now EXCEPT !.adult = a, !.heard = TRUE]
    <3>1. Append(now.adult.queue, b) \in Seq(Byte)
      BY <1>1 DEF Adult
    <3>2. a \in Adult /\ a.chain = now.adult.chain /\ a.hot = now.adult.hot
      BY <1>1, <3>1 DEF Adult
    <3>3. s \in Sitting /\ s.adult = a
      BY <1>1, <3>2 DEF Sitting
    <3>4. sitting' = [sitting EXCEPT ![p] = s]
      BY <1>1, <2>1, <2>3 DEF Contact, TypeInv, Sitting
    <3>5. saved' = saved /\ ~At(p, "down")
      BY <2>1 DEF Contact, At
    <3>. HIDE DEF a
    <3>6. Extends(now.adult, a)
      BY <1>1, <3>2, SameExtends
    <3>. QED BY <3>3, <3>4, <3>5, <3>6
  <2>. QED BY <2>2, <2>3
<1>7. CASE LiveEpoch(p) \/ DrainSpan(p)
  <2>. DEFINE s(step) == [now EXCEPT !.adult = Epoch(now.adult), !.step = step]
  <2>1. Epoch(now.adult) \in Adult /\ Extends(now.adult, Epoch(now.adult))
    BY <1>1, EpochType, EpochExtends
  <2>2. \A step \in Steps : s(step) \in Sitting /\ s(step).adult = Epoch(now.adult)
    BY <1>1, <2>1 DEF Sitting
  <2>3. PICK step \in Steps : sitting' = [sitting EXCEPT ![p] = s(step)]
    <3>1. CASE LiveEpoch(p)
      <4>1. s(now.step) = [now EXCEPT !.adult = Epoch(now.adult)] /\ now.step \in Steps
        BY <1>1 DEF Sitting
      <4>2. sitting' = [sitting EXCEPT ![p] = s(now.step)]
        BY <3>1, <4>1 DEF LiveEpoch, TypeInv
      <4>. QED BY <4>1, <4>2
    <3>2. CASE DrainSpan(p)
      BY <3>2 DEF DrainSpan, TypeInv, Steps
    <3>. QED BY <1>7, <3>1, <3>2
  <2>4. saved' = saved /\ ~At(p, "down")
    BY <1>7 DEF LiveEpoch, DrainSpan, At
  <2>. QED BY <2>1, <2>2, <2>3, <2>4
<1>8. CASE Stop(p) \/ SettlementSpan(p) \/ NothingToSettle(p) \/ PageOpen(p)
  <2>. DEFINE s(step) == [now EXCEPT !.step = step]
  <2>1. \A step \in Steps : s(step) \in Sitting /\ s(step).adult = now.adult
    BY <1>1 DEF Sitting
  <2>2. PICK step \in Steps : sitting' = [sitting EXCEPT ![p] = s(step)]
    BY <1>8 DEF Stop, SettlementSpan, NothingToSettle, PageOpen, Goes, AfterPage, TypeInv, Steps
  <2>3. saved' = saved /\ ~At(p, "down")
    BY <1>8 DEF Stop, SettlementSpan, NothingToSettle, PageOpen, SpanEnds, At
  <2>. QED BY <1>3, <2>1, <2>2, <2>3
<1>9. CASE Persist(p) \/ Kill(p) \/ ArchiveRefused(p) \/ AcknowledgeFails(p)
  BY <1>2, <1>9 DEF Persist, Kill, ArchiveRefused, AcknowledgeFails
<1>10. CASE LockArchive(p)
  <2>. DEFINE s == [now EXCEPT !.archive = "locked"]
  <2>1. s \in Sitting /\ s.adult = now.adult
    BY <1>1 DEF Sitting, Archives
  <2>2. sitting' = [sitting EXCEPT ![p] = s] /\ saved' = saved /\ ~At(p, "down")
    BY <1>10 DEF LockArchive, SpanEnds, At
  <2>. QED BY <1>3, <2>1, <2>2
<1>11. CASE Store(p)
  <2>. DEFINE created == Object(p) \notin objects
              s == [now EXCEPT !.archive = "stored", !.created = created]
  <2>0. created \in BOOLEAN
    OBVIOUS
  <2>1. sitting' = [sitting EXCEPT ![p] = s] /\ saved' = saved
    BY <1>1, <1>11 DEF Store, TypeInv, Sitting
  <2>. HIDE DEF created
  <2>2. s \in Sitting /\ s.adult = now.adult
    BY <1>1, <2>0 DEF Sitting, Archives
  <2>3. ~At(p, "down")
    BY <1>11 DEF Store, At, QuietInv, SittingQuiet
  <2>. QED BY <1>3, <2>1, <2>2, <2>3
<1>12. CASE Acknowledge(p)
  <2>. DEFINE a == [now.adult EXCEPT !.chain = Object(p), !.hot = <<>>, !.sealed = FALSE]
              s == [now EXCEPT !.adult = a, !.archive = "none", !.created = FALSE,
                               !.step = AfterPage(p)]
  <2>1. Object(p) \in Seq(Seq(Byte)) /\ Object(p) = Append(now.adult.chain, now.adult.hot)
    BY <1>1 DEF Object, Adult
  <2>2. /\ a \in Adult /\ a.chain = Append(now.adult.chain, now.adult.hot) /\ a.hot = <<>>
        /\ AfterPage(p) \in Steps
    <3>1. <<>> \in Seq(Byte)
      OBVIOUS
    <3>. QED BY <1>1, <2>1, <3>1 DEF Adult, AfterPage, Steps
  <2>3. sitting' = [sitting EXCEPT ![p] = s] /\ saved' = saved
    BY <1>1, <1>12 DEF Acknowledge, TypeInv, Sitting
  <2>. HIDE DEF a
  <2>4. s \in Sitting /\ s.adult = a
    BY <1>1, <2>2 DEF Sitting, Archives
  <2>5. Extends(now.adult, a)
    BY <1>1, <2>2, PageExtends
  <2>6. ~At(p, "down")
    BY <1>12 DEF Acknowledge, At, QuietInv, SittingQuiet
  <2>. QED BY <2>3, <2>4, <2>5, <2>6
<1>. QED BY <1>4, <1>5, <1>6, <1>7, <1>8, <1>9, <1>10, <1>11, <1>12 DEF StepOf

\* The checkpoint that a step writes, copies, removes or leaves.
LEMMA FilesOf ==
  ASSUME TypeInv, NEW p \in Sitter, StepOf(p)
  PROVE  \/ saved' = saved
         \/ Branch(p) /\ saved[p] = <<>> /\ saved' = [saved EXCEPT ![p] = saved[Retained]]
         \/ Discard(p) /\ saved' = [saved EXCEPT ![p] = <<>>]
         \/ Persist(p) /\ At(p, "saving") /\ saved' = [saved EXCEPT ![p] = <<sitting[p].adult>>]
BY DEF StepOf, Branch, Discard, Resume, Contact, LiveEpoch, Stop, DrainSpan, SettlementSpan,
       NothingToSettle, Persist, Replaced, Kill, PageOpen, LockArchive, ArchiveRefused, Store,
       Acknowledge, AcknowledgeFails

LEMMA GrowthInitially == SitdownInit => GrowthInv
BY DEF SitdownInit, GrowthInv, Down, At

LEMMA GrowthKept ==
  ASSUME TypeInv, QuietInv, GrowthInv, [SitdownNext]_sitdownVars
  PROVE  GrowthInv'
<1>1. CASE SitdownNext
  <2>1. PICK p \in Sitter : StepOf(p)
    BY <1>1 DEF SitdownNext, StepOf
  <2>2. PICK s \in Sitting :
          /\ sitting' = [sitting EXCEPT ![p] = s]
          /\ \/ s.step = "down"
             \/ saved[p] # <<>> /\ saved' = saved /\ s.adult = saved[p][1]
             \/ ~At(p, "down") /\ saved' = saved /\ Extends(sitting[p].adult, s.adult)
    BY <2>1, StepExtends
  <2>3. \A q \in Sitter : sitting'[q] = IF q = p THEN s ELSE sitting[q]
    BY <2>2 DEF TypeInv
  <2>4. \A q \in Sitter : q # p => saved'[q] = saved[q]
    BY <2>1, FilesOf DEF TypeInv
  <2>. SUFFICES ASSUME NEW q \in Sitter
                PROVE  /\ saved'[q] = <<>> => sitting'[q].step = "down"
                       /\ saved'[q] # <<>> /\ sitting'[q].step # "down" =>
                            Extends(saved'[q][1], sitting'[q].adult)
    BY DEF GrowthInv, At, Extends, Records
  <2>5. CASE q # p
    BY <2>3, <2>4, <2>5 DEF GrowthInv, At
  <2>6. CASE q = p /\ s.step = "down"
    BY <2>3, <2>6
  <2>7. CASE q = p /\ saved[p] # <<>> /\ saved' = saved /\ s.adult = saved[p][1]
    <3>1. saved[p][1] \in Adult
      BY <2>7 DEF TypeInv, Checkpoints
    <3>2. Extends(saved[p][1], saved[p][1])
      BY <3>1, SameExtends
    <3>. QED BY <2>3, <2>7, <3>2
  <2>8. CASE q = p /\ ~At(p, "down") /\ saved' = saved /\ Extends(sitting[p].adult, s.adult)
    <3>1. saved[p] # <<>> /\ Extends(saved[p][1], sitting[p].adult)
      BY <2>8 DEF GrowthInv
    <3>2. saved[p][1] \in Adult /\ sitting[p].adult \in Adult /\ s.adult \in Adult
      BY <3>1 DEF TypeInv, Checkpoints, Sitting
    <3>3. Extends(saved[p][1], s.adult)
      BY <2>8, <3>1, <3>2, RecordsType, PrefixOn DEF Extends
    <3>. QED BY <2>3, <2>8, <3>1, <3>3
  <2>. QED BY <2>2, <2>5, <2>6, <2>7, <2>8
<1>2. CASE UNCHANGED sitdownVars
  BY <1>2 DEF sitdownVars, GrowthInv, At, Extends, Records
<1>. QED BY <1>1, <1>2

\* Whatever is branched, discarded, killed or archived meanwhile, a checkpoint is
\* replaced only by the sitting on its own path, and only by an adult that has
\* recorded all it had recorded, in the same order (persist_adult,
\* archive_direct_exact_history_page, direct_adult_lab.py).
THEOREM CheckpointsOnlyGrow == SitdownSpec => SavedByItsSitting
<1>. DEFINE Grown == \A p \in Sitter :
              saved[p] # <<>> /\ saved'[p] # <<>> /\ saved'[p] # saved[p] =>
                /\ At(p, "saving")
                /\ IsPrefix(Records(saved[p][1]), Records(saved'[p][1]))
<1>1. ASSUME TypeInv, GrowthInv, [SitdownNext]_sitdownVars PROVE [Grown]_sitdownVars
  <2>1. CASE UNCHANGED sitdownVars
    BY <2>1
  <2>2. CASE SitdownNext
    <3>1. PICK p \in Sitter : StepOf(p)
      BY <2>2 DEF SitdownNext, StepOf
    <3>2. ASSUME NEW q \in Sitter, saved[q] # <<>>, saved'[q] # <<>>, saved'[q] # saved[q]
          PROVE  At(q, "saving") /\ Extends(saved[q][1], saved'[q][1])
      <4>1. q = p /\ At(p, "saving") /\ saved' = [saved EXCEPT ![p] = <<sitting[p].adult>>]
        BY <1>1, <3>1, <3>2, FilesOf DEF TypeInv
      <4>2. saved'[p][1] = sitting[p].adult
        BY <1>1, <4>1 DEF TypeInv
      <4>3. ~At(p, "down")
        BY <4>1 DEF At
      <4>. QED BY <1>1, <3>2, <4>1, <4>2, <4>3 DEF GrowthInv
    <3>. QED BY <3>2 DEF Extends
  <2>. QED BY <1>1, <2>1, <2>2
<1>2. SitdownSpec => []TypeInv /\ []GrowthInv /\ [][SitdownNext]_sitdownVars
  BY TypeInitially, QuietInitially, GrowthInitially, Kept, GrowthKept, PTL DEF SitdownSpec
<1>. QED BY <1>1, <1>2, PTL DEF SavedByItsSitting

=============================================================================
