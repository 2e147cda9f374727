--------------------------- MODULE OpaqueRelations ---------------------------
(***************************************************************************)
(* OpaqueRelationMachineV2 (reference_contract_1610.py): experiences of    *)
(* several sources about one coalition and pair of ports; a current        *)
(* situation is answered by the one edit that independent sources agree    *)
(* on; the partner's consequence revises the credit of the recipe; a       *)
(* source may be withdrawn at any time, with all that rests on it.         *)
(*                                                                         *)
(* An experience is its edit (drop so many, append these units), so that   *)
(* equal experiences of one source are one member of the set.  A contact   *)
(* is checked before it changes anything and a refused tick puts the state *)
(* back, so neither is a step when refused.  Contact receipts, sessions    *)
(* and their signatures are left out.                                      *)
(***************************************************************************)
EXTENDS Integers, FiniteSets, Sequences, SequencesExt

CONSTANTS
  Source,          \* partners that bear experiences
  Edit,            \* what an experience does to the units of a situation
  Site,            \* what situations and experiences occupy
  Extent,          \* the sets of sites that occur
  Fit,             \* the sets of edits that some situation has units enough for
  MaxExperiences,  \* MAX_OPAQUE_EXPERIENCES
  MaxActions,      \* MAX_FROZEN_ACTION_CLOSURE: kept actions, and credit's clamp
  ActionLife,      \* ticks an action's consequence may take
  MaxOpaqueTick    \* bound on the ticks of a run

ASSUME OpaqueAssumption ==
  /\ Extent \subseteq (SUBSET Site) \ {{}} /\ Fit \subseteq SUBSET Edit
  /\ MaxExperiences \in Nat \ {0} /\ MaxActions \in Nat \ {0}
  /\ ActionLife \in Nat /\ MaxOpaqueTick \in Nat

VARIABLES
  opaqueTick,
  experiences,  \* set of [source, edit, sites]
  current,      \* <<>> or <<[source, sites, fits]>>: the pending situation
  actions,      \* sequence of frozen actions, oldest first
  credit,       \* [recipe -> Int], for the recipes a consequence told about
  lineage,      \* credit_lineage: the experiences behind each credit
  withdrawn     \* withdrawn_sources

opaqueVars == <<opaqueTick, experiences, current, actions, credit, lineage, withdrawn>>

Experience == [source: Source, edit: Edit, sites: Extent]
Recipe     == [edit: Edit, support: SUBSET Site]
Situation  == [source: Source, sites: Extent, fits: Fit]
Action     == [source: Source, recipe: Recipe, contributors: SUBSET Experience,
               deadline: Nat, provisional: BOOLEAN, settled: BOOLEAN, active: BOOLEAN]

OpaqueInit ==
  /\ opaqueTick = 0 /\ experiences = {} /\ current = <<>> /\ actions = <<>>
  /\ credit = <<>> /\ lineage = <<>> /\ withdrawn = {}

Pending(a) == a.active /\ ~a.settled

AnyPending == \E i \in DOMAIN actions : Pending(actions[i])

-----------------------------------------------------------------------------
(* Contacts.  A withdrawn source is never heard again, and while an action *)
(* waits for its consequence only consequences and withdrawals are.        *)

Experienced(x) ==
  /\ x.source \notin withdrawn /\ ~AnyPending
  /\ Cardinality(experiences) < MaxExperiences
  /\ experiences' = experiences \union {x}
  /\ UNCHANGED <<opaqueTick, current, actions, credit, lineage, withdrawn>>

\* fits: the edits that drop no more units than the situation presents.
Situated(c) ==
  /\ c.source \notin withdrawn /\ ~AnyPending
  /\ current = <<>>
  /\ current' = <<c>>
  /\ UNCHANGED <<opaqueTick, experiences, actions, credit, lineage, withdrawn>>

\* What the credit of a recipe is after an effect better (1), worse (-1) or no
\* different (0) than the counterfactual.
Credited(r) == IF r \in DOMAIN credit THEN credit[r] ELSE 0

Clamp(n) == IF n > MaxActions THEN MaxActions ELSE IF n < -MaxActions THEN -MaxActions ELSE n

Put(f, k, v) == [x \in DOMAIN f \union {k} |-> IF x = k THEN v ELSE f[x]]

\* Mutant of Answers: an action settled before may be settled again.
AnswersTwice(a) == a.active /\ opaqueTick <= a.deadline /\ a.source \notin withdrawn

\* Whose consequence the machine accepts: contact (source, deadline), _settle.
Answers(a) == Pending(a) /\ opaqueTick <= a.deadline /\ a.source \notin withdrawn

\* difference = 0 also stands for a consequence that is not independent.
Settled(i, difference) ==
  LET a == actions[i]  r == a.recipe IN
  /\ Answers(a)
  /\ difference # 0 /\ r \notin DOMAIN credit => Cardinality(DOMAIN credit) < MaxExperiences
  /\ actions' = [actions EXCEPT ![i].settled = TRUE]
  /\ IF difference = 0 THEN UNCHANGED <<credit, lineage>>
     ELSE /\ credit' = Put(credit, r, Clamp(Credited(r) + difference))
          /\ lineage' = Put(lineage, r, a.contributors \union
                              IF r \in DOMAIN lineage THEN lineage[r] ELSE {})
  /\ UNCHANGED <<opaqueTick, experiences, current, withdrawn>>

RestsOn(rows, s) == \E x \in rows : x.source = s

Without(f, s) == [r \in {q \in DOMAIN f : ~RestsOn(lineage[q], s)} |-> f[r]]

\* Mutant of Deactivated: an action lapses only with the partner it addresses.
DeactivatedAddressee(a, s) == IF a.source = s THEN [a EXCEPT !.active = FALSE] ELSE a

\* Mutant of Deactivated: an action lapses only with a source it rests on.
DeactivatedContributor(a, s) ==
  IF RestsOn(a.contributors, s) THEN [a EXCEPT !.active = FALSE] ELSE a

Deactivated(a, s) ==
  IF a.source = s \/ RestsOn(a.contributors, s) THEN [a EXCEPT !.active = FALSE] ELSE a

\* Mutant of Cleared: a situation outlives its source.
ClearedNever(s) == current

Cleared(s) ==
  IF \E i \in DOMAIN current : current[i].source = s THEN <<>> ELSE current

\* Any source not itself withdrawn may withdraw any source, itself included.
Withdrawn(s) ==
  /\ Source \ withdrawn # {}
  /\ withdrawn' = withdrawn \union {s}
  /\ current' = Cleared(s)
  /\ actions' = [i \in DOMAIN actions |-> Deactivated(actions[i], s)]
  /\ credit' = Without(credit, s) /\ lineage' = Without(lineage, s)
  /\ UNCHANGED <<opaqueTick, experiences>>

-----------------------------------------------------------------------------
(* tick: with no situation only time passes.                               *)

Rows(e)    == {x \in experiences : x.edit = e /\ x.source \notin withdrawn}
Support(e) == {s \in Site : \A x \in Rows(e) : s \in x.sites}
RecipeOf(e) == [edit |-> e, support |-> Support(e)]

Candidate(e, c) ==
  /\ Cardinality({x.source : x \in Rows(e)}) >= 2
  /\ Support(e) # {} /\ Support(e) \subseteq c.sites
  /\ e \in c.fits

\* The one candidate of highest credit, never one whose record is negative.
Wins(e, c) ==
  /\ Candidate(e, c) /\ Credited(RecipeOf(e)) >= 0
  /\ \A f \in Edit \ {e} : Candidate(f, c) => Credited(RecipeOf(f)) < Credited(RecipeOf(e))

\* _retire_settled_action: a full list gives up its oldest finished action.
Retire ==
  IF Len(actions) < MaxActions THEN actions
  ELSE LET done == {i \in DOMAIN actions : ~Pending(actions[i])}
           oldest == CHOOSE i \in done : \A j \in done : i <= j
       IN  RemoveAt(actions, oldest)

IdleTick ==
  /\ ~AnyPending /\ current = <<>> /\ opaqueTick < MaxOpaqueTick
  /\ opaqueTick' = opaqueTick + 1
  /\ UNCHANGED <<experiences, current, actions, credit, lineage, withdrawn>>

Act(e) ==
  /\ ~AnyPending /\ current # <<>> /\ opaqueTick < MaxOpaqueTick
  /\ Wins(e, current[1])
  /\ opaqueTick' = opaqueTick + 1
  /\ actions' = Append(Retire,
       [source |-> current[1].source, recipe |-> RecipeOf(e), contributors |-> Rows(e),
        deadline |-> opaqueTick + 1 + ActionLife,
        provisional |-> Credited(RecipeOf(e)) <= 0, settled |-> FALSE, active |-> TRUE])
  /\ current' = <<>>
  /\ UNCHANGED <<experiences, credit, lineage, withdrawn>>

OpaqueNext ==
  \/ \E x \in Experience : Experienced(x)
  \/ \E c \in Situation : Situated(c)
  \/ \E i \in DOMAIN actions, difference \in {-1, 0, 1} : Settled(i, difference)
  \/ \E s \in Source : Withdrawn(s)
  \/ IdleTick
  \/ \E e \in Edit : Act(e)

OpaqueSpec == OpaqueInit /\ [][OpaqueNext]_opaqueVars

-----------------------------------------------------------------------------
(* Properties.                                                             *)

OpaqueTypeOK ==
  /\ opaqueTick \in Nat /\ experiences \subseteq Experience
  /\ current \in {<<>>} \union {<<c>> : c \in Situation}
  /\ actions \in Seq(Action)
  /\ DOMAIN credit \subseteq Recipe /\ \A r \in DOMAIN credit : credit[r] \in Int
  /\ DOMAIN lineage = DOMAIN credit
  /\ \A r \in DOMAIN lineage : lineage[r] \subseteq Experience
  /\ withdrawn \subseteq Source

\* Every reachable state passes the checks of its own restore (_bounded): a
\* checkpoint taken at any moment can be resumed.
OpaqueRestorable ==
  /\ \A i \in DOMAIN current : current[i].source \notin withdrawn
  /\ \A i \in DOMAIN actions : actions[i].contributors # {}
                               /\ actions[i].contributors \subseteq experiences
  /\ \A r \in DOMAIN lineage : lineage[r] # {} /\ lineage[r] \subseteq experiences
  /\ \A r \in DOMAIN credit : credit[r] \in -MaxActions .. MaxActions
  /\ Len(actions) <= MaxActions /\ Cardinality(DOMAIN credit) <= MaxExperiences

\* A withdrawn source leaves nothing behind: neither credit nor an action that
\* may still be settled rests on one of its experiences, however the withdrawal
\* met an action in flight.
NothingRestsOnWithdrawn ==
  \A s \in withdrawn :
    /\ \A r \in DOMAIN lineage : ~RestsOn(lineage[r], s)
    /\ \A i \in DOMAIN actions : Pending(actions[i]) => ~RestsOn(actions[i].contributors, s)

\* An action in flight stops the machine, so it must always be possible to end
\* it: its own partner can still answer in time.
PendingAnswerable ==
  \A i \in DOMAIN actions : Pending(actions[i]) => Answers(actions[i])

CreditMovesOnce ==
  \A r \in DOMAIN credit \union DOMAIN credit' :
    LET before == Credited(r)
        after  == IF r \in DOMAIN credit' THEN credit'[r] ELSE 0
    IN  before # after =>
          \/ /\ after - before \in {-1, 1}
             /\ \E i \in DOMAIN actions : /\ Pending(actions[i]) /\ actions'[i].settled
                                          /\ actions[i].recipe = r
          \/ \E s \in withdrawn' \ withdrawn : RestsOn(lineage[r], s)

\* Credit is revised by one consequence of one action in flight, by one, and is
\* otherwise only dropped, together with a source it rests on.
CreditHasOneCause == [][CreditMovesOnce]_opaqueVars

=============================================================================
