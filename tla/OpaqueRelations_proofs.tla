------------------------ MODULE OpaqueRelations_proofs ------------------------
(* Theorems about OpaqueRelations, for any sources, edits and situations, and  *)
(* any bounds on what the machine keeps.                                       *)
EXTENDS OpaqueRelations, SequenceTheorems, FiniteSetTheorems, TLAPS

\* The credit of a recipe never leaves its clamp.
CreditClamped == \A r \in DOMAIN credit : credit[r] \in -MaxActions .. MaxActions

\* A situation that may be acted on is of a source still heard.
CurrentIsHeard == \A i \in DOMAIN current : current[i].source \notin withdrawn

OpaqueInv ==
  /\ OpaqueTypeOK /\ CreditClamped /\ CurrentIsHeard
  /\ NothingRestsOnWithdrawn /\ PendingAnswerable

-----------------------------------------------------------------------------
(* What the helpers return.                                                   *)

LEMMA ClampBounds ==
  ASSUME NEW n \in -MaxActions .. MaxActions, NEW d \in {-1, 1}
  PROVE  /\ Clamp(n + d) \in -MaxActions .. MaxActions
         /\ Clamp(n + d) = n \/ Clamp(n + d) = n + d
BY OpaqueAssumption DEF Clamp

LEMMA CreditedClamped ==
  ASSUME CreditClamped, NEW r
  PROVE  Credited(r) \in -MaxActions .. MaxActions
BY OpaqueAssumption DEF Credited, CreditClamped

\* A tick with no action in flight keeps only finished actions, room for one more made.
LEMMA RetireType ==
  ASSUME OpaqueTypeOK, ~AnyPending
  PROVE  /\ Retire \in Seq(Action)
         /\ \A i \in DOMAIN Retire : ~Pending(Retire[i])
         /\ \A i \in DOMAIN Retire : \E j \in DOMAIN actions : Retire[i] = actions[j]
         /\ Len(actions) <= MaxActions => Len(Retire) < MaxActions
<1>1. actions \in Seq(Action) /\ DOMAIN actions = 1 .. Len(actions) /\ Len(actions) \in Nat
  BY DEF OpaqueTypeOK
<1>2. \A i \in DOMAIN actions : ~Pending(actions[i])
  BY DEF AnyPending
<1>3. CASE Len(actions) < MaxActions
  BY <1>1, <1>2, <1>3 DEF Retire
<1>4. CASE ~(Len(actions) < MaxActions)
  <2> DEFINE done == {i \in DOMAIN actions : ~Pending(actions[i])}
             oldest == CHOOSE i \in done : \A j \in done : i <= j
             before == SubSeq(actions, 1, oldest - 1)
             after == SubSeq(actions, oldest + 1, Len(actions))
  <2>1. 1 \in done /\ \A j \in done : 1 <= j
    BY <1>1, <1>2, <1>4, OpaqueAssumption
  <2>2. oldest \in done
    BY <2>1
  <2>3. oldest \in 1 .. Len(actions)
    BY <1>1, <2>2
  <2>4. Retire = before \o after
    BY <1>4 DEF Retire, RemoveAt
  <2>. HIDE DEF oldest
  <2>5. oldest \in Int /\ Len(actions) \in Int /\ 1 <= oldest /\ oldest <= Len(actions)
    BY <1>1, <2>3
  <2>6. /\ before \in Seq(Action) /\ Len(before) = oldest - 1
        /\ \A i \in 1 .. oldest - 1 : before[i] = actions[i]
    BY <1>1, <2>3, SubSeqProperties
  <2>7. /\ after \in Seq(Action) /\ Len(after) = Len(actions) - oldest
        /\ \A i \in 1 .. Len(actions) - oldest : after[i] = actions[oldest + i]
    <3>1. \A i \in oldest + 1 .. Len(actions) : actions[i] \in Action
      BY <1>1, <2>3
    <3>2. oldest + 1 \in Int /\ Len(actions) \in Int
      BY <1>1, <2>3
    <3>3. /\ after \in Seq(Action)
          /\ Len(after) = (IF oldest + 1 <= Len(actions) THEN Len(actions) - (oldest + 1) + 1 ELSE 0)
          /\ \A i \in 1 .. Len(actions) - (oldest + 1) + 1 : after[i] = actions[oldest + 1 + i - 1]
      BY <3>1, <3>2, SubSeqProperties
    <3>. HIDE DEF after
    <3>4. Len(after) = Len(actions) - oldest
      <4>1. CASE oldest = Len(actions)
        <5>1. ~(oldest + 1 <= Len(actions)) /\ Len(actions) - oldest = 0
          BY <2>5, <4>1
        <5>. QED BY <3>3, <5>1
      <4>2. CASE oldest # Len(actions)
        <5>1. /\ oldest + 1 <= Len(actions)
              /\ Len(actions) - (oldest + 1) + 1 = Len(actions) - oldest
          BY <2>5, <4>2
        <5>. QED BY <3>3, <5>1
      <4>. QED BY <4>1, <4>2
    <3>5. ASSUME NEW i \in 1 .. Len(actions) - oldest
          PROVE  after[i] = actions[oldest + i]
      <4>1. i \in 1 .. Len(actions) - (oldest + 1) + 1 /\ oldest + 1 + i - 1 = oldest + i
        BY <2>5
      <4>. QED BY <3>3, <4>1
    <3>. QED BY <3>3, <3>4, <3>5
  <2>. HIDE DEF before, after
  <2>8. /\ before \o after \in Seq(Action)
        /\ Len(before \o after) = Len(before) + Len(after)
        /\ \A i \in 1 .. Len(before) + Len(after) :
             (before \o after)[i] = IF i <= Len(before) THEN before[i] ELSE after[i - Len(before)]
    BY <2>6, <2>7, ConcatProperties
  <2>9. ASSUME NEW i \in 1 .. Len(before \o after)
        PROVE  \E j \in DOMAIN actions : (before \o after)[i] = actions[j]
    <3>1. CASE i <= Len(before)
      <4>1. i \in 1 .. oldest - 1 /\ i \in DOMAIN actions
        BY <1>1, <2>3, <2>6, <2>8, <3>1
      <4>2. (before \o after)[i] = actions[i]
        BY <2>3, <2>6, <2>7, <2>8, <3>1, <4>1
      <4>. QED BY <4>1, <4>2
    <3>2. CASE ~(i <= Len(before))
      <4>1. i - Len(before) \in 1 .. Len(actions) - oldest
        BY <1>1, <2>3, <2>6, <2>7, <2>8, <3>2
      <4>2. (before \o after)[i] = actions[oldest + (i - Len(before))]
        BY <1>1, <2>3, <2>6, <2>7, <2>8, <3>2, <4>1
      <4>3. oldest + (i - Len(before)) \in DOMAIN actions
        BY <1>1, <2>3, <2>6, <4>1
      <4>. QED BY <4>2, <4>3
    <3>. QED BY <3>1, <3>2
  <2>10. Len(Retire) = Len(actions) - 1
    BY <2>4, <2>5, <2>6, <2>7, <2>8
  <2>11. Len(actions) <= MaxActions => Len(Retire) < MaxActions
    BY <2>5, <2>10, OpaqueAssumption
  <2>12. DOMAIN Retire = 1 .. Len(before \o after)
    BY <2>4, <2>8
  <2>13. \A i \in DOMAIN Retire : \E j \in DOMAIN actions : Retire[i] = actions[j]
    BY <2>4, <2>9, <2>12
  <2>14. \A i \in DOMAIN Retire : ~Pending(Retire[i])
    BY <1>2, <2>13
  <2>. QED BY <2>4, <2>8, <2>11, <2>13, <2>14
<1>. QED BY <1>3, <1>4

-----------------------------------------------------------------------------
(* Preservation, one lemma for each operation.                                *)

LEMMA ExperiencedKeeps ==
  ASSUME OpaqueInv, NEW x \in Experience, Experienced(x)
  PROVE  OpaqueInv'
<1>1. OpaqueTypeOK'
  BY DEF OpaqueInv, OpaqueTypeOK, Experienced
<1>2. CreditClamped' /\ CurrentIsHeard' /\ PendingAnswerable'
  BY DEF OpaqueInv, CreditClamped, CurrentIsHeard, PendingAnswerable, Answers, Experienced
<1>3. NothingRestsOnWithdrawn'
  BY DEF OpaqueInv, NothingRestsOnWithdrawn, RestsOn, Experienced
<1>. QED BY <1>1, <1>2, <1>3 DEF OpaqueInv

LEMMA SituatedKeeps ==
  ASSUME OpaqueInv, NEW c \in Situation, Situated(c)
  PROVE  OpaqueInv'
<1>1. OpaqueTypeOK'
  BY DEF OpaqueInv, OpaqueTypeOK, Situated
<1>2. CreditClamped' /\ CurrentIsHeard' /\ PendingAnswerable'
  BY DEF OpaqueInv, CreditClamped, CurrentIsHeard, PendingAnswerable, Answers, Situated
<1>3. NothingRestsOnWithdrawn'
  BY DEF OpaqueInv, NothingRestsOnWithdrawn, RestsOn, Situated
<1>. QED BY <1>1, <1>2, <1>3 DEF OpaqueInv

LEMMA IdleTickKeeps ==
  ASSUME OpaqueInv, IdleTick
  PROVE  OpaqueInv'
<1>1. OpaqueTypeOK'
  BY DEF OpaqueInv, OpaqueTypeOK, IdleTick
<1>2. CreditClamped' /\ CurrentIsHeard'
  BY DEF OpaqueInv, CreditClamped, CurrentIsHeard, IdleTick
<1>3. PendingAnswerable'
  BY DEF IdleTick, AnyPending, PendingAnswerable
<1>4. NothingRestsOnWithdrawn'
  BY DEF OpaqueInv, NothingRestsOnWithdrawn, RestsOn, IdleTick
<1>. QED BY <1>1, <1>2, <1>3, <1>4 DEF OpaqueInv

\* A tick that acts: the new action rests on experiences of heard sources alone,
\* and its deadline is yet to come.
LEMMA ActKeeps ==
  ASSUME OpaqueInv, NEW e \in Edit, Act(e)
  PROVE  OpaqueInv'
<1> DEFINE new == [source |-> current[1].source, recipe |-> RecipeOf(e), contributors |-> Rows(e),
                   deadline |-> opaqueTick + 1 + ActionLife,
                   provisional |-> Credited(RecipeOf(e)) <= 0, settled |-> FALSE, active |-> TRUE]
<1>1. Retire \in Seq(Action) /\ \A i \in DOMAIN Retire : ~Pending(Retire[i])
  BY RetireType DEF OpaqueInv, Act
<1>2. /\ current[1] \in Situation /\ 1 \in DOMAIN current
      /\ opaqueTick \in Nat /\ experiences \subseteq Experience
  BY DEF OpaqueInv, OpaqueTypeOK, Act
<1>3. new \in Action
  <2>1. current[1].source \in Source
    BY <1>2 DEF Situation
  <2>2. RecipeOf(e) \in Recipe
    BY DEF RecipeOf, Recipe, Support
  <2>3. Rows(e) \subseteq Experience
    BY <1>2 DEF Rows
  <2>4. opaqueTick + 1 + ActionLife \in Nat
    BY <1>2, OpaqueAssumption
  <2>. QED BY <2>1, <2>2, <2>3, <2>4 DEF Action
<1>4. actions' = Append(Retire, new)
  BY DEF Act
<1>. HIDE DEF new
<1>5. /\ actions' \in Seq(Action)
      /\ \A i \in DOMAIN actions' : actions'[i] = new \/ ~Pending(actions'[i])
  <2>1. /\ Append(Retire, new) \in Seq(Action) /\ Len(Append(Retire, new)) = Len(Retire) + 1
        /\ \A i \in 1 .. Len(Retire) : Append(Retire, new)[i] = Retire[i]
        /\ Append(Retire, new)[Len(Retire) + 1] = new
    BY <1>1, <1>3, AppendProperties
  <2>2. DOMAIN Append(Retire, new) = 1 .. Len(Retire) + 1 /\ DOMAIN Retire = 1 .. Len(Retire)
        /\ Len(Retire) \in Nat
    BY <1>1, <2>1
  <2>. QED BY <1>1, <1>4, <2>1, <2>2
<1>6. OpaqueTypeOK'
  <2>1. opaqueTick' \in Nat
    BY <1>2 DEF Act
  <2>. QED BY <1>5, <2>1 DEF OpaqueInv, OpaqueTypeOK, Act
<1>7. CreditClamped' /\ CurrentIsHeard'
  BY DEF OpaqueInv, CreditClamped, CurrentIsHeard, Act
<1>8. NothingRestsOnWithdrawn'
  <2>1. \A s \in withdrawn : ~RestsOn(new.contributors, s)
    BY DEF new, Rows, RestsOn
  <2>. QED BY <1>5, <2>1 DEF OpaqueInv, NothingRestsOnWithdrawn, RestsOn, Act
<1>9. PendingAnswerable'
  <2>1. new.source \notin withdrawn
    BY <1>2 DEF new, OpaqueInv, CurrentIsHeard
  <2>2. opaqueTick + 1 <= new.deadline
    BY <1>2, OpaqueAssumption DEF new
  <2>. QED BY <1>5, <2>1, <2>2 DEF PendingAnswerable, Answers, Act
<1>. QED BY <1>6, <1>7, <1>8, <1>9 DEF OpaqueInv

\* A consequence moves the credit of one recipe, and its lineage grows by
\* experiences the action in flight rests on.
LEMMA SettledKeeps ==
  ASSUME OpaqueInv, NEW i \in DOMAIN actions, NEW difference \in {-1, 0, 1},
         Settled(i, difference)
  PROVE  OpaqueInv'
<1> DEFINE a == actions[i]
<1>1. /\ a \in Action /\ actions \in Seq(Action)
      /\ a.recipe \in Recipe /\ a.contributors \subseteq Experience
  <2>1. actions \in Seq(Action)
    BY DEF OpaqueInv, OpaqueTypeOK
  <2>2. a \in Action
    BY <2>1
  <2>. QED BY <2>1, <2>2 DEF Action
<1>2. Pending(a) /\ actions' = [actions EXCEPT ![i].settled = TRUE]
  BY DEF Settled, Answers
<1>3. /\ actions' \in Seq(Action) /\ DOMAIN actions' = DOMAIN actions
      /\ ~Pending(actions'[i])
      /\ \A j \in DOMAIN actions \ {i} : actions'[j] = actions[j]
  <2>1. [a EXCEPT !.settled = TRUE] \in Action /\ ~Pending([a EXCEPT !.settled = TRUE])
    BY <1>1 DEF Action, Pending
  <2>. QED BY <1>1, <1>2, <2>1
<1>4. PendingAnswerable'
  BY <1>3 DEF OpaqueInv, PendingAnswerable, Answers, Settled
<1>5. CurrentIsHeard'
  BY DEF OpaqueInv, CurrentIsHeard, Settled
<1>6. CASE difference = 0
  <2>1. UNCHANGED <<credit, lineage>>
    BY <1>6 DEF Settled
  <2>2. OpaqueTypeOK'
    BY <1>3, <2>1 DEF OpaqueInv, OpaqueTypeOK, Settled
  <2>3. CreditClamped'
    BY <2>1 DEF OpaqueInv, CreditClamped
  <2>4. NothingRestsOnWithdrawn'
    BY <1>3, <2>1 DEF OpaqueInv, NothingRestsOnWithdrawn, Settled
  <2>. QED BY <1>4, <1>5, <2>2, <2>3, <2>4 DEF OpaqueInv
<1>7. CASE difference # 0
  <2> DEFINE r == a.recipe
             more == a.contributors \union IF r \in DOMAIN lineage THEN lineage[r] ELSE {}
  <2>1. /\ credit' = Put(credit, r, Clamp(Credited(r) + difference))
        /\ lineage' = Put(lineage, r, more)
    BY <1>7 DEF Settled
  <2>2. Clamp(Credited(r) + difference) \in -MaxActions .. MaxActions
    BY <1>7, ClampBounds, CreditedClamped DEF OpaqueInv
  <2>. HIDE DEF r
  <2>3. CreditClamped'
    BY <2>1, <2>2 DEF OpaqueInv, CreditClamped, Put
  <2>4. more \subseteq Experience
    BY <1>1 DEF OpaqueInv, OpaqueTypeOK
  <2>. HIDE DEF more
  <2>5. OpaqueTypeOK'
    <3>1. DOMAIN credit' = DOMAIN credit \union {r} /\ DOMAIN lineage' = DOMAIN lineage \union {r}
      BY <2>1 DEF Put
    <3>2. DOMAIN credit' \subseteq Recipe /\ DOMAIN lineage' = DOMAIN credit'
      BY <1>1, <3>1 DEF OpaqueInv, OpaqueTypeOK, r
    <3>3. \A q \in DOMAIN credit' : credit'[q] \in Int
      BY <2>3, OpaqueAssumption DEF CreditClamped
    <3>4. \A q \in DOMAIN lineage' : lineage'[q] \subseteq Experience
      BY <2>1, <2>4, <3>1 DEF OpaqueInv, OpaqueTypeOK, Put
    <3>. QED BY <1>3, <3>2, <3>3, <3>4 DEF OpaqueInv, OpaqueTypeOK, Settled
  <2>6. NothingRestsOnWithdrawn'
    <3>1. \A s \in withdrawn : ~RestsOn(more, s)
      BY <1>2 DEF OpaqueInv, NothingRestsOnWithdrawn, RestsOn, more
    <3>2. \A s \in withdrawn : \A q \in DOMAIN lineage' : ~RestsOn(lineage'[q], s)
      BY <2>1, <3>1 DEF OpaqueInv, NothingRestsOnWithdrawn, Put
    <3>3. \A s \in withdrawn : \A j \in DOMAIN actions' :
            Pending(actions'[j]) => ~RestsOn(actions'[j].contributors, s)
      BY <1>3 DEF OpaqueInv, NothingRestsOnWithdrawn
    <3>4. withdrawn' = withdrawn
      BY DEF Settled
    <3>. QED BY <3>2, <3>3, <3>4 DEF NothingRestsOnWithdrawn
  <2>. QED BY <1>4, <1>5, <2>3, <2>5, <2>6 DEF OpaqueInv
<1>. QED BY <1>6, <1>7

\* A withdrawal takes with it the credit, the actions and the situation that rest
\* on the source.
LEMMA WithdrawnKeeps ==
  ASSUME OpaqueInv, NEW s \in Source, Withdrawn(s)
  PROVE  OpaqueInv'
<1>1. /\ DOMAIN actions' = DOMAIN actions
      /\ \A i \in DOMAIN actions : actions'[i] = Deactivated(actions[i], s)
      /\ withdrawn' = withdrawn \union {s}
  BY DEF Withdrawn
<1>2. /\ DOMAIN credit' = {q \in DOMAIN credit : ~RestsOn(lineage[q], s)}
      /\ DOMAIN lineage' = {q \in DOMAIN lineage : ~RestsOn(lineage[q], s)}
      /\ \A q \in DOMAIN credit' : credit'[q] = credit[q]
      /\ \A q \in DOMAIN lineage' : lineage'[q] = lineage[q]
  BY DEF Withdrawn, Without
<1>3. actions' \in Seq(Action)
  <2>1. \A a \in Action : Deactivated(a, s) \in Action
    BY DEF Action, Deactivated
  <2>2. actions' = [i \in 1 .. Len(actions) |-> Deactivated(actions[i], s)]
        /\ \A i \in 1 .. Len(actions) : actions[i] \in Action
        /\ Len(actions) \in Nat
    BY DEF OpaqueInv, OpaqueTypeOK, Withdrawn
  <2>. QED BY <2>1, <2>2
<1>4. OpaqueTypeOK'
  BY <1>1, <1>2, <1>3 DEF OpaqueInv, OpaqueTypeOK, Withdrawn, Cleared
<1>5. CreditClamped'
  BY <1>2 DEF OpaqueInv, CreditClamped
<1>6. CurrentIsHeard'
  BY <1>1 DEF OpaqueInv, CurrentIsHeard, Withdrawn, Cleared
<1>7. \A i \in DOMAIN actions : Pending(Deactivated(actions[i], s)) =>
        /\ Deactivated(actions[i], s) = actions[i]
        /\ actions[i].source # s /\ ~RestsOn(actions[i].contributors, s)
  <2>1. \A i \in DOMAIN actions : actions[i] \in Action
    BY DEF OpaqueInv, OpaqueTypeOK
  <2>. QED BY <2>1 DEF Deactivated, Pending, Action
<1>8. NothingRestsOnWithdrawn'
  <2>1. ASSUME NEW w \in withdrawn', NEW q \in DOMAIN lineage'
        PROVE  ~RestsOn(lineage'[q], w)
    BY <1>1, <1>2 DEF OpaqueInv, NothingRestsOnWithdrawn
  <2>2. ASSUME NEW w \in withdrawn', NEW i \in DOMAIN actions', Pending(actions'[i])
        PROVE  ~RestsOn(actions'[i].contributors, w)
    BY <1>1, <1>7, <2>2 DEF OpaqueInv, NothingRestsOnWithdrawn
  <2>. QED BY <2>1, <2>2 DEF NothingRestsOnWithdrawn
<1>9. PendingAnswerable'
  BY <1>1, <1>7 DEF OpaqueInv, PendingAnswerable, Answers, Withdrawn
<1>. QED BY <1>4, <1>5, <1>6, <1>8, <1>9 DEF OpaqueInv

LEMMA OpaqueInitially == OpaqueInit => OpaqueInv
<1>. SUFFICES ASSUME OpaqueInit PROVE OpaqueInv
  OBVIOUS
<1>1. OpaqueTypeOK
  BY DEF OpaqueInit, OpaqueTypeOK
<1>. QED BY <1>1 DEF OpaqueInit, OpaqueInv, CreditClamped, CurrentIsHeard,
                     NothingRestsOnWithdrawn, PendingAnswerable

LEMMA OpaqueKept == OpaqueInv /\ [OpaqueNext]_opaqueVars => OpaqueInv'
<1>. SUFFICES ASSUME OpaqueInv, [OpaqueNext]_opaqueVars PROVE OpaqueInv'
  OBVIOUS
<1>1. CASE OpaqueNext
  BY <1>1, ExperiencedKeeps, SituatedKeeps, SettledKeeps, WithdrawnKeeps, IdleTickKeeps, ActKeeps
     DEF OpaqueNext
<1>2. CASE UNCHANGED opaqueVars
  <2>1. OpaqueTypeOK' /\ CreditClamped' /\ CurrentIsHeard'
    BY <1>2 DEF opaqueVars, OpaqueInv, OpaqueTypeOK, CreditClamped, CurrentIsHeard
  <2>2. NothingRestsOnWithdrawn' /\ PendingAnswerable'
    BY <1>2 DEF opaqueVars, OpaqueInv, NothingRestsOnWithdrawn, PendingAnswerable, Answers
  <2>. QED BY <2>1, <2>2 DEF OpaqueInv
<1>. QED BY <1>1, <1>2

-----------------------------------------------------------------------------
(* What a restore checks.                                                     *)

\* OpaqueRestorable counts the credited recipes, which must be finitely many.
RestorableInv == OpaqueInv /\ OpaqueRestorable /\ IsFiniteSet(DOMAIN credit)

\* What a step must leave of the actions and of the credit's lineage.
ActionsRestore ==
  /\ \A i \in DOMAIN actions : actions[i].contributors # {}
                              /\ actions[i].contributors \subseteq experiences
  /\ Len(actions) <= MaxActions

LineageRestores ==
  /\ \A r \in DOMAIN lineage : lineage[r] # {} /\ lineage[r] \subseteq experiences
  /\ IsFiniteSet(DOMAIN credit) /\ Cardinality(DOMAIN credit) <= MaxExperiences

LEMMA RestorableParts ==
  RestorableInv <=> OpaqueInv /\ ActionsRestore /\ LineageRestores
BY DEF RestorableInv, OpaqueRestorable, OpaqueInv, CurrentIsHeard, CreditClamped,
       ActionsRestore, LineageRestores

\* A winning edit is agreed on by somebody.
LEMMA WinnerHasRows ==
  ASSUME NEW e \in Edit, NEW c, Wins(e, c)
  PROVE  Rows(e) # {} /\ Rows(e) \subseteq experiences
<1> DEFINE sources == {x.source : x \in Rows(e)}
<1>1. Cardinality(sources) >= 2
  BY DEF Wins, Candidate
<1>2. ASSUME Rows(e) = {} PROVE FALSE
  <2>1. sources = {}
    BY <1>2
  <2>. HIDE DEF sources
  <2>2. Cardinality(sources) = 0
    BY <2>1, FS_EmptySet
  <2>. QED BY <1>1, <2>2
<1>. QED BY <1>2 DEF Rows

LEMMA ActRestores ==
  ASSUME RestorableInv, NEW e \in Edit, Act(e)
  PROVE  ActionsRestore' /\ LineageRestores'
<1> DEFINE new == [source |-> current[1].source, recipe |-> RecipeOf(e), contributors |-> Rows(e),
                   deadline |-> opaqueTick + 1 + ActionLife,
                   provisional |-> Credited(RecipeOf(e)) <= 0, settled |-> FALSE, active |-> TRUE]
<1>1. /\ Retire \in Seq(Action) /\ Len(Retire) < MaxActions
      /\ \A i \in DOMAIN Retire : \E j \in DOMAIN actions : Retire[i] = actions[j]
  BY RetireType, RestorableParts DEF OpaqueInv, Act, ActionsRestore
<1>2. new.contributors # {} /\ new.contributors \subseteq experiences
  BY WinnerHasRows DEF Act
<1>3. actions' = Append(Retire, new)
  BY DEF Act
<1>. HIDE DEF new
<1>4. /\ Len(actions') = Len(Retire) + 1 /\ DOMAIN actions' = 1 .. Len(Retire) + 1
      /\ \A i \in 1 .. Len(Retire) : actions'[i] = Retire[i]
      /\ actions'[Len(Retire) + 1] = new
  BY <1>1, <1>3
<1>5. Len(Retire) \in Nat /\ DOMAIN Retire = 1 .. Len(Retire)
  BY <1>1
<1>6. Len(actions') <= MaxActions
  BY <1>1, <1>4, <1>5, OpaqueAssumption
<1>7. ASSUME NEW i \in DOMAIN actions'
      PROVE  actions'[i].contributors # {} /\ actions'[i].contributors \subseteq experiences
  <2>1. CASE i \in 1 .. Len(Retire)
    BY <1>1, <1>4, <1>5, <2>1, RestorableParts DEF ActionsRestore
  <2>2. CASE i = Len(Retire) + 1
    BY <1>2, <1>4, <2>2
  <2>. QED BY <1>4, <1>5, <2>1, <2>2
<1>8. UNCHANGED <<experiences, credit, lineage>>
  BY DEF Act
<1>. QED BY <1>6, <1>7, <1>8, RestorableParts DEF ActionsRestore, LineageRestores

LEMMA SettledRestores ==
  ASSUME RestorableInv, NEW i \in DOMAIN actions, NEW difference \in {-1, 0, 1},
         Settled(i, difference)
  PROVE  ActionsRestore' /\ LineageRestores'
<1> DEFINE r == actions[i].recipe
           more == actions[i].contributors \union IF r \in DOMAIN lineage THEN lineage[r] ELSE {}
<1>1. actions \in Seq(Action) /\ DOMAIN lineage = DOMAIN credit
  BY DEF RestorableInv, OpaqueInv, OpaqueTypeOK
<1>2. /\ DOMAIN actions' = DOMAIN actions /\ Len(actions') = Len(actions)
      /\ \A j \in DOMAIN actions : actions'[j].contributors = actions[j].contributors
      /\ experiences' = experiences
  <2>1. actions' = [actions EXCEPT ![i].settled = TRUE] /\ experiences' = experiences
    BY DEF Settled
  <2>2. \A j \in DOMAIN actions : actions[j] \in Action
    BY <1>1
  <2>. QED BY <1>1, <2>1, <2>2 DEF Action
<1>3. ActionsRestore'
  BY <1>2, RestorableParts DEF ActionsRestore
<1>4. CASE difference = 0
  BY <1>2, <1>3, <1>4, RestorableParts DEF LineageRestores, Settled
<1>5. CASE difference # 0
  <2>1. /\ DOMAIN credit' = DOMAIN credit \union {r}
        /\ lineage' = Put(lineage, r, more)
        /\ r \notin DOMAIN credit => Cardinality(DOMAIN credit) < MaxExperiences
    BY <1>5 DEF Settled, Put
  <2>2. more # {} /\ more \subseteq experiences
    BY RestorableParts DEF ActionsRestore, LineageRestores
  <2>. HIDE DEF r, more
  <2>3. \A q \in DOMAIN lineage' : lineage'[q] # {} /\ lineage'[q] \subseteq experiences
    BY <2>1, <2>2, RestorableParts DEF LineageRestores, Put
  <2>4. IsFiniteSet(DOMAIN credit) /\ Cardinality(DOMAIN credit) <= MaxExperiences
    BY RestorableParts DEF LineageRestores
  <2>5. /\ IsFiniteSet(DOMAIN credit')
        /\ Cardinality(DOMAIN credit') = IF r \in DOMAIN credit THEN Cardinality(DOMAIN credit)
                                                               ELSE Cardinality(DOMAIN credit) + 1
    BY <2>1, <2>4, FS_AddElement
  <2>6. Cardinality(DOMAIN credit) \in Nat
    BY <2>4, FS_CardinalityType
  <2>7. Cardinality(DOMAIN credit') <= MaxExperiences
    BY <2>1, <2>4, <2>5, <2>6, OpaqueAssumption
  <2>. QED BY <1>2, <1>3, <2>3, <2>5, <2>7 DEF LineageRestores
<1>. QED BY <1>3, <1>4, <1>5

LEMMA WithdrawnRestores ==
  ASSUME RestorableInv, NEW s \in Source, Withdrawn(s)
  PROVE  ActionsRestore' /\ LineageRestores'
<1>1. /\ DOMAIN credit' \subseteq DOMAIN credit
      /\ DOMAIN lineage' \subseteq DOMAIN lineage
      /\ \A q \in DOMAIN lineage' : lineage'[q] = lineage[q]
      /\ experiences' = experiences
  BY DEF Withdrawn, Without
<1>2. /\ IsFiniteSet(DOMAIN credit) /\ Cardinality(DOMAIN credit) <= MaxExperiences
  BY RestorableParts DEF LineageRestores
<1>3. /\ IsFiniteSet(DOMAIN credit') /\ Cardinality(DOMAIN credit') <= Cardinality(DOMAIN credit)
  BY <1>1, <1>2, FS_Subset
<1>4. Cardinality(DOMAIN credit') \in Nat /\ Cardinality(DOMAIN credit) \in Nat
  BY <1>2, <1>3, FS_CardinalityType
<1>5. Cardinality(DOMAIN credit') <= MaxExperiences
  BY <1>2, <1>3, <1>4, OpaqueAssumption
<1>6. LineageRestores'
  BY <1>1, <1>3, <1>5, RestorableParts DEF LineageRestores
<1>7. ActionsRestore'
  <2>1. actions \in Seq(Action) /\ \A i \in DOMAIN actions : actions[i] \in Action
    BY DEF RestorableInv, OpaqueInv, OpaqueTypeOK
  <2>2. actions' = [i \in DOMAIN actions |-> Deactivated(actions[i], s)]
    BY DEF Withdrawn
  <2>3. Len(actions') = Len(actions) /\ DOMAIN actions' = DOMAIN actions
    BY <2>1, <2>2
  <2>4. \A a \in Action : Deactivated(a, s).contributors = a.contributors
    BY DEF Action, Deactivated
  <2>. QED BY <1>1, <2>1, <2>2, <2>3, <2>4, RestorableParts DEF ActionsRestore
<1>. QED BY <1>6, <1>7

LEMMA RestorableInitially == OpaqueInit => RestorableInv
<1>. SUFFICES ASSUME OpaqueInit PROVE RestorableInv
  OBVIOUS
<1>1. DOMAIN credit = {} /\ DOMAIN lineage = {} /\ DOMAIN actions = {} /\ Len(actions) = 0
  BY DEF OpaqueInit
<1>2. ActionsRestore
  BY <1>1, OpaqueAssumption DEF ActionsRestore
<1>3. LineageRestores
  BY <1>1, FS_EmptySet, OpaqueAssumption DEF LineageRestores
<1>. QED BY <1>2, <1>3, OpaqueInitially, RestorableParts

LEMMA RestorableKept == RestorableInv /\ [OpaqueNext]_opaqueVars => RestorableInv'
<1>. SUFFICES ASSUME RestorableInv, [OpaqueNext]_opaqueVars PROVE RestorableInv'
  OBVIOUS
<1>1. OpaqueInv'
  BY OpaqueKept DEF RestorableInv
<1>2. ActionsRestore' /\ LineageRestores'
  <2>1. ActionsRestore /\ LineageRestores
    BY RestorableParts
  <2>2. UNCHANGED <<actions, credit, lineage>> /\ experiences \subseteq experiences'
        => ActionsRestore' /\ LineageRestores'
    BY <2>1 DEF ActionsRestore, LineageRestores
  <2>3. CASE OpaqueNext
    BY <2>2, <2>3, ActRestores, SettledRestores, WithdrawnRestores
       DEF OpaqueNext, Experienced, Situated, IdleTick
  <2>4. CASE UNCHANGED opaqueVars
    BY <2>2, <2>4 DEF opaqueVars
  <2>. QED BY <2>3, <2>4
<1>3. (OpaqueInv /\ ActionsRestore /\ LineageRestores)' => RestorableInv'
  BY DEF RestorableInv, OpaqueRestorable, OpaqueInv, CurrentIsHeard, CreditClamped,
         ActionsRestore, LineageRestores
<1>. QED BY <1>1, <1>2, <1>3

-----------------------------------------------------------------------------
(* Theorems.                                                                  *)

\* The machine's state has its type (OpaqueRelationMachineV2).
THEOREM OpaqueTypeCorrect == OpaqueSpec => []OpaqueTypeOK
<1>1. OpaqueInv => OpaqueTypeOK
  BY DEF OpaqueInv
<1>. QED BY <1>1, OpaqueInitially, OpaqueKept, PTL DEF OpaqueSpec

\* However withdrawals meet contacts, actions and consequences, neither credit nor
\* an action in flight rests on a withdrawn source (_withdraw, _settle).
THEOREM WithdrawnSupportsNothing == OpaqueSpec => []NothingRestsOnWithdrawn
<1>1. OpaqueInv => NothingRestsOnWithdrawn
  BY DEF OpaqueInv
<1>. QED BY <1>1, OpaqueInitially, OpaqueKept, PTL DEF OpaqueSpec

\* An action in flight, which holds back everything else, can always be answered
\* (tick, _settle, _withdraw).
THEOREM PendingCanBeAnswered == OpaqueSpec => []PendingAnswerable
<1>1. OpaqueInv => PendingAnswerable
  BY DEF OpaqueInv
<1>. QED BY <1>1, OpaqueInitially, OpaqueKept, PTL DEF OpaqueSpec

\* A consequence moves the credit of the recipe of its action, by one.
LEMMA SettledMoves ==
  ASSUME OpaqueInv, NEW i \in DOMAIN actions, NEW difference \in {-1, 0, 1},
         Settled(i, difference)
  PROVE  CreditMovesOnce
<1> DEFINE r == actions[i].recipe
<1>1. CASE difference = 0
  BY <1>1 DEF Settled, CreditMovesOnce, Credited
<1>2. CASE difference # 0
  <2>1. /\ credit' = Put(credit, r, Clamp(Credited(r) + difference))
        /\ actions' = [actions EXCEPT ![i].settled = TRUE]
        /\ Pending(actions[i])
    BY <1>2 DEF Settled, Answers
  <2>2. actions'[i].settled
    <3>1. actions[i] \in Action
      BY DEF OpaqueInv, OpaqueTypeOK
    <3>. QED BY <2>1, <3>1 DEF Action
  <2>3. DOMAIN credit' = DOMAIN credit \union {r}
    BY <2>1 DEF Put
  <2>4. \A q \in DOMAIN credit \ {r} : credit'[q] = credit[q]
    BY <2>1 DEF Put
  <2>5. credit'[r] = Clamp(Credited(r) + difference)
    BY <2>1 DEF Put
  <2>6. Credited(r) \in -MaxActions .. MaxActions
    BY CreditedClamped DEF OpaqueInv
  <2>. HIDE DEF r
  <2>7. credit'[r] # Credited(r) => credit'[r] - Credited(r) \in {-1, 1}
    <3>1. Clamp(Credited(r) + difference) = Credited(r)
          \/ Clamp(Credited(r) + difference) = Credited(r) + difference
      BY <1>2, <2>6, ClampBounds
    <3>2. Credited(r) \in Int
      BY <2>6, OpaqueAssumption
    <3>. QED BY <1>2, <2>5, <3>1, <3>2
  <2>8. ASSUME NEW q \in DOMAIN credit \union DOMAIN credit', q # r
        PROVE  /\ q \in DOMAIN credit'
               /\ credit'[q] = Credited(q)
    BY <2>3, <2>4, <2>8 DEF Credited
  <2>9. r \in DOMAIN credit' /\ actions[i].recipe = r
    BY <2>3 DEF r
  <2>. QED BY <2>1, <2>2, <2>7, <2>8, <2>9 DEF CreditMovesOnce
<1>. QED BY <1>1, <1>2

\* A withdrawal drops only credit that rests on its source, and only the first
\* time: nothing rests on one withdrawn before.
LEMMA WithdrawnMoves ==
  ASSUME OpaqueInv, NEW s \in Source, Withdrawn(s)
  PROVE  CreditMovesOnce
<1>1. /\ DOMAIN credit' = {q \in DOMAIN credit : ~RestsOn(lineage[q], s)}
      /\ \A q \in DOMAIN credit' : credit'[q] = credit[q]
      /\ withdrawn' = withdrawn \union {s}
  BY DEF Withdrawn, Without
<1>2. ASSUME NEW q \in DOMAIN credit, RestsOn(lineage[q], s)
      PROVE  s \in withdrawn' \ withdrawn
  BY <1>1, <1>2 DEF OpaqueInv, OpaqueTypeOK, NothingRestsOnWithdrawn
<1>. QED BY <1>1, <1>2 DEF CreditMovesOnce, Credited

\* The record of a recipe moves by one consequence of one action in flight, or goes
\* with a source it rests on (_settle, _withdraw).
THEOREM CreditIsCaused == OpaqueSpec => CreditHasOneCause
<1>1. OpaqueInv /\ [OpaqueNext]_opaqueVars => [CreditMovesOnce]_opaqueVars
  <2>. SUFFICES ASSUME OpaqueInv, OpaqueNext PROVE CreditMovesOnce
    OBVIOUS
  <2>1. UNCHANGED credit => CreditMovesOnce
    BY DEF CreditMovesOnce, Credited
  <2>. QED BY <2>1, SettledMoves, WithdrawnMoves
           DEF OpaqueNext, Experienced, Situated, IdleTick, Act
<1>. QED BY <1>1, OpaqueInitially, OpaqueKept, PTL DEF OpaqueSpec, CreditHasOneCause

\* Whatever contacts, consequences and withdrawals came before, what the machine
\* saves passes the checks of its restore (_bounded).
THEOREM AlwaysRestorable == OpaqueSpec => []OpaqueRestorable
<1>1. RestorableInv => OpaqueRestorable
  BY DEF RestorableInv
<1>. QED BY <1>1, RestorableInitially, RestorableKept, PTL DEF OpaqueSpec

=============================================================================
