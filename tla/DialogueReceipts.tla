---------------------------- MODULE DialogueReceipts ----------------------------
(***************************************************************************)
(* The receipts of the mathematical adult's public acts                    *)
(* (reference_mathematical_adult_workbench_v1.py), as the Claude gateway    *)
(* settles them (reference_language_mastery_claude_gateway_v1.py) and the   *)
(* life runtime issues them (reference_life_function_curriculum_v1.py).     *)
(*                                                                         *)
(* A request echoes the adult's last answer, perhaps with the result of    *)
(* the tool it asked for, and brings new contact.  The echo proves that the *)
(* act reached the body; only the result is evidence of its consequence.   *)
(* The server handles one request at a time, so a request is one action;   *)
(* its cursor is that of LanguageGateway, here only the answer it expects. *)
(* The sessions of one body share one channel.  A gateway that is killed   *)
(* goes on from the checkpoint of an answer, a life it has been in with    *)
(* the same clients: it reaches no other state, and is no action here.     *)
(*                                                                         *)
(* What the adult has to say is an input; so is what a contact means to a  *)
(* hypothesis.  The inquiry roles state and causal are one kind, "need".   *)
(***************************************************************************)
EXTENDS Integers, Sequences, FiniteSets, FiniteSetsExt

CONSTANTS
  Talk,        \* Claude sessions
  Surface,     \* what a public act may say
  ReceiptBank, \* most pending receipts of a kind (8 in the code)
  RecentBank,  \* most dialogue acts remembered behind their echo (8)
  MaxActs      \* bound on the acts the adult performs

ASSUME ReceiptAssumption ==
  /\ {ReceiptBank, RecentBank} \subseteq Nat \ {0} /\ MaxActs \in Nat
  /\ Surface \intersect {"silence", "plain"} = {}

VARIABLES
  life,   \* the runtime: receipts, continuation, credit, cursors
  holds   \* the last answer each client has

receiptVars == <<life, holds>>

ActNumber == 1 .. MaxActs

\* turn tells an answer from the next one of its session.
NoAnswer == [surface |-> "silence", act |-> 0, turn |-> 2]

\* acts: performed so far; dialogue, context, lexical, need: pending receipts of
\* each kind, [act, says]; recent: dialogue acts echoed, owed: those without
\* consequence; echoed: inquiries whose tool ran; commit: the continuation and
\* the act it awaits; credit, accepted: what the world returned.
Newborn == [acts |-> 0, dialogue |-> {}, context |-> {}, lexical |-> {}, need |-> {},
            recent |-> {}, owed |-> {}, echoed |-> {},
            commit |-> [of |-> 0, ready |-> FALSE],
            credit |-> [a \in ActNumber |-> 0], accepted |-> {},
            cursor |-> [t \in Talk |-> NoAnswer]]

ReceiptInit == life = Newborn /\ holds = [t \in Talk |-> NoAnswer]

Asked(l) == l.lexical \union l.need

Bearing(receipts, u) == {r \in receipts : r.says = u}

WithoutAct(receipts, a) == {r \in receipts : r.act # a}

-----------------------------------------------------------------------------
(* Settling.                                                               *)

\* _archive_causal_dialogue_action: the oldest act gives way, be it this one.
Archived(l, a) ==
  LET all  == l.recent \union {a}
      kept == IF Cardinality(all) > RecentBank THEN all \ {Min(all)} ELSE all IN
  [l EXCEPT !.dialogue = WithoutAct(@, a), !.recent = kept, !.owed = @ \intersect kept]

\* _settle_causal_continuation_action.
Released(l, a) == IF l.commit.of = a THEN [l EXCEPT !.commit.ready = TRUE] ELSE l

\* Mutant of Reafferenced: the echo of an act releases the continuation behind it.
ReafferencedReleasing(l, a) == Released([Archived(l, a) EXCEPT !.owed = @ \union {a}], a)

\* settle_causal_dialogue_reafference.
Reafferenced(l, a) == [Archived(l, a) EXCEPT !.owed = @ \union {a}]

\* settle_reafferenced_contact: the one pending act that said u.  An inquiry is
\* left as it is.  (The silence frame may count as an echo too; it runs no tool.)
Echoed(l, u) ==
  LET pending == Bearing(l.dialogue \union l.context \union Asked(l), u)
      r == CHOOSE x \in pending : TRUE IN
  IF Cardinality(pending) # 1 THEN [life |-> l, runs |-> FALSE]
  ELSE IF r \in l.context THEN [life |-> [l EXCEPT !.context = @ \ {r}], runs |-> FALSE]
  ELSE [life |-> IF r \in l.dialogue THEN Reafferenced(l, r.act) ELSE l, runs |-> TRUE]

ActCredited(l, a, ok) ==
  [l EXCEPT !.credit[a] = @ + 1, !.accepted = IF ok THEN @ \union {a} ELSE @]

\* Mutant of Returnable: any remembered act may be returned.
ReturnableAgain(l, a) == a \in l.recent

\* The act is remembered and its consequence outstanding.
Returnable(l, a) == a \in l.recent /\ a \in l.owed

\* settle_tool_result of act a, settle_causal_dialogue_return and
\* settle_endogenous_inquiry_motor_return included; no life when it is refused.
\* The continuation stays where it is if its coordinate no longer resolves.
Resulted(l, a, ok) ==
  LET returned == [ActCredited(l, a, ok) EXCEPT !.owed = @ \ {a}]
      asked    == \E r \in Asked(l) : r.act = a IN
  CASE Returnable(l, a) -> {returned} \union (IF ok THEN {Released(returned, a)} ELSE {})
    [] a \notin l.recent /\ asked /\ ok /\ a \notin l.echoed ->
         {[l EXCEPT !.echoed = @ \union {a}]}
    [] a \notin l.recent /\ asked /\ ~ok ->
         {[l EXCEPT !.lexical = WithoutAct(@, a), !.need = WithoutAct(@, a), !.echoed = @ \ {a}]}
    [] OTHER -> {}

-----------------------------------------------------------------------------
(* Speaking.  Each operator gives the lives, and the motor surfaces, that may  *)
(* come of it; a receipt that is refused is silence.                       *)

Silent(l) == [life |-> l, motor |-> <<>>]

CanAct(l, bank) == l.acts < MaxActs /\ Cardinality(bank) < ReceiptBank

Acted(l) == [l EXCEPT !.acts = @ + 1]

Receipt(l, u) == [act |-> l.acts + 1, says |-> u]

\* stage_causal_dialogue_action, with what it makes of the continuation.
Dialogue(l, u, commit) ==
  [life  |-> [Acted(l) EXCEPT !.dialogue = @ \union {Receipt(l, u)}, !.commit = commit],
   motor |-> <<u>>]

Awaiting(l) == [of |-> l.acts + 1, ready |-> FALSE]

\* contact_utterance's causal surfaces; some begin_causal_continuation.
Dialogues(l) ==
  IF CanAct(l, l.dialogue)
  THEN {Dialogue(l, u, c) : u \in Surface, c \in {l.commit, Awaiting(l)}} ELSE {}

\* stage_context_affordance_action.
Contexts(l) ==
  IF CanAct(l, l.context)
  THEN {[life |-> [Acted(l) EXCEPT !.context = @ \union {Receipt(l, u)}], motor |-> <<u>>] :
          u \in Surface} ELSE {}

\* externalize_lexeme_clarification, externalize_lexeme_hypothesis: one lexical
\* inquiry at a time, whatever the bank holds.
Lexicals(l) ==
  IF l.lexical = {} /\ l.acts < MaxActs
  THEN {[life |-> [Acted(l) EXCEPT !.lexical = {Receipt(l, u)}], motor |-> <<u>>] :
          u \in Surface} ELSE {}

\* settle_reafferenced_lexeme_hypothesis_contact: the contact may bear on the
\* lexical inquiry that has been run.
Borne(l) ==
  {l} \union {[ActCredited(l, r.act, TRUE) EXCEPT !.lexical = {}, !.echoed = @ \ {r.act}] :
                r \in {x \in l.lexical : x.act \in l.echoed}}

\* contact_utterance: one page of contact.
PageHeard(l) ==
  UNION {{Silent(m)} \union Lexicals(m) \union Dialogues(m) \union Contexts(m) : m \in Borne(l)}

\* resident_contact: a contact of one page or two.
Contacted(l) ==
  PageHeard(l) \union
  UNION {{[life |-> i.life, motor |-> h.motor \o i.motor] : i \in PageHeard(h.life)} : h \in PageHeard(l)}

\* externalize_pending_causal_continuation: the next act of the intention, its
\* end, or nothing as long as its support is inactive.
Continued(l) ==
  IF ~l.commit.ready THEN {Silent(l)}
  ELSE {Silent(l), Silent([l EXCEPT !.commit = [of |-> 0, ready |-> FALSE]])} \union
       (IF CanAct(l, l.dialogue) THEN {Dialogue(l, u, Awaiting(l)) : u \in Surface} ELSE {})

\* externalize_endogenous_inquiry.
Inquiries(l) ==
  IF l.need = {} /\ CanAct(l, Asked(l))
  THEN {[life |-> [Acted(l) EXCEPT !.need = {Receipt(l, u)}], motor |-> <<u>>] :
          u \in Surface} ELSE {}

\* quiet_public_opportunity.  A choice of the language adult says none of the
\* surfaces above and has no receipt.
QuietOpportunity(l) ==
  UNION {{c} \union (IF c.motor = <<>>
                     THEN {[c EXCEPT !.motor = <<"plain">>]} \union Inquiries(c.life) ELSE {}) :
           c \in Continued(l)}

\* The contact, and quiet opportunities while it has brought no motor.
Responses(l) ==
  UNION {{h} \union (IF h.motor = <<>> THEN QuietOpportunity(h.life) ELSE {}) : h \in Contacted(l)}

Surfaced(motor) ==
  IF motor = <<>> THEN "silence" ELSE IF Len(motor) = 1 THEN motor[1] ELSE "plain"

\* resident_body_action: an act in tool form, if the one pending act that says
\* this is a dialogue or an inquiry and the client offers one body tool.
Tools(l, u) ==
  LET pending == Bearing(l.dialogue \union Asked(l), u) IN
  {0} \union (IF Cardinality(pending) = 1 THEN {r.act : r \in pending} ELSE {})

-----------------------------------------------------------------------------
(* do_POST.  A request that does not echo the expected answer changes nothing. *)

InStep(t) == holds[t] = life.cursor[t]

\* What the echo leaves, and the lives the tool result leads to.
EchoOf(t) == Echoed(life, life.cursor[t].surface)

Admitted(t, ok) ==
  LET act == life.cursor[t].act IN
  IF act = 0 THEN {EchoOf(t).life}
  ELSE IF EchoOf(t).runs THEN Resulted(EchoOf(t).life, act, ok) ELSE {}

\* body:tool_result.  Nothing is undone.
RefuseResult(t, ok) ==
  /\ InStep(t) /\ Admitted(t, ok) = {}
  /\ life' = EchoOf(t).life
  /\ UNCHANGED holds

\* body:resident_work_bound, adult:body_source_capacity or a motor that is not
\* UTF-8.  Nothing is undone.
RefuseResponse(t, ok) ==
  /\ InStep(t)
  /\ \E l \in Admitted(t, ok) : \E r \in Responses(l) : life' = r.life
  /\ UNCHANGED holds

\* The answer and its cursor; a save that fails, or a reply that is lost, leaves
\* the client behind.
Respond(t, ok) ==
  /\ InStep(t)
  /\ \E l \in Admitted(t, ok) : \E r \in Responses(l) :
       \E act \in Tools(r.life, Surfaced(r.motor)) :
         LET answer == [surface |-> Surfaced(r.motor), act |-> act,
                        turn |-> (life.cursor[t].turn + 1) % 2] IN
         /\ life' = [r.life EXCEPT !.cursor[t] = answer]
         /\ holds' \in {holds, [holds EXCEPT ![t] = answer]}

\* Whether the tool ran, where there was one.
Outcomes(t) == IF life.cursor[t].act = 0 THEN {TRUE} ELSE BOOLEAN

ReceiptNext ==
  \E t \in Talk : \E ok \in Outcomes(t) :
    RefuseResult(t, ok) \/ RefuseResponse(t, ok) \/ Respond(t, ok)

ReceiptSpec == ReceiptInit /\ [][ReceiptNext]_receiptVars

-----------------------------------------------------------------------------
(* Properties.                                                             *)

\* The world's return is credited to an act once, however often a refused
\* request is posted again and whichever other act says the same.
CreditedOnce == \A a \in ActNumber : life.credit[a] <= 1

\* A continuation goes on only when the world accepted the very act it awaits:
\* "Only the later exact consequence may release a settled continuation."
ContinuationEarned == life.commit.ready => life.commit.of \in life.accepted

=============================================================================
