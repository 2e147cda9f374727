-------------------------- MODULE DirectAdultSitdown --------------------------
(***************************************************************************)
(* Sittings of direct_adult_sitdown, each on a checkpoint path of its own: *)
(* the retained adult and branches of it that direct_adult_lab.py links,   *)
(* runs, and discards or publishes.  All of them share one archive of      *)
(* exact-history pages, a directory named by the birth root.               *)
(*                                                                         *)
(* An object of the archive is addressed by its content, which names its   *)
(* predecessor: it is the sequence of all pages up to its own.  Sittings   *)
(* that hear the same bytes write the same object.  The page keeps only    *)
(* contacts; the transport rings are one queue, emptied by each epoch.     *)
(*                                                                         *)
(* A sitting may be killed, or fail, between any two steps.  What is on    *)
(* disk then is what was written: the loss of the page cache is left out.  *)
(***************************************************************************)
EXTENDS Integers, Sequences, SequencesExt

CONSTANTS
  Sitter,       \* checkpoint paths, one sitting at a time on each
  Retained,     \* the path of the retained adult
  Byte,         \* contacts
  StageRing,    \* contacts the rings hold
  HotPage,      \* records a page holds
  ArchivePages, \* pages the archive capacity allows an adult
  MaxContacts,  \* bound on the contacts of a run
  MaxFailures   \* bound on the kills and the failed writes of a run

ASSUME SitdownAssumption ==
  /\ Retained \in Sitter
  /\ StageRing \in Nat \ {0} /\ HotPage \in Nat /\ StageRing <= HotPage
  /\ ArchivePages \in Nat /\ MaxContacts \in Nat /\ MaxFailures \in Nat

VARIABLES
  sitting,  \* [Sitter -> [step, adult, heard, archive, created]]
  saved,    \* [Sitter -> <<>> or <<adult>>]: the checkpoint files
  linked,   \* the paths that still name the file of the retained adult
  objects,  \* the archive: a set of chains
  contacts, \* how many contacts were made
  failures  \* how many failures happened

sitdownVars == <<sitting, saved, linked, objects, contacts, failures>>

Born == [chain |-> <<>>, hot |-> <<>>, sealed |-> FALSE, queue |-> <<>>]
Down == [step |-> "down", adult |-> Born, heard |-> FALSE, archive |-> "none", created |-> FALSE]

SitdownInit ==
  /\ sitting = [p \in Sitter |-> Down]
  /\ saved = [p \in Sitter |-> IF p = Retained THEN <<Born>> ELSE <<>>]
  /\ linked = {Retained} /\ objects = {} /\ contacts = 0 /\ failures = 0

At(p, step) == sitting[p].step = step
Goes(p, step) == [sitting EXCEPT ![p].step = step]

-----------------------------------------------------------------------------
(* direct_adult_lab.py: a branch is a hard link to the retained checkpoint, *)
(* removed afterwards unless it was given a name of its own.               *)

Branch(p) ==
  /\ p # Retained /\ saved[p] = <<>> /\ saved[Retained] # <<>>
  /\ saved' = [saved EXCEPT ![p] = saved[Retained]]
  /\ linked' = linked \union {p}
  /\ UNCHANGED <<sitting, objects, contacts, failures>>

Discard(p) ==
  /\ p # Retained /\ saved[p] # <<>> /\ At(p, "down")
  /\ saved' = [saved EXCEPT ![p] = <<>>]
  /\ linked' = linked \ {p}
  /\ UNCHANGED <<sitting, objects, contacts, failures>>

-----------------------------------------------------------------------------
(* One sitting: resume, contacts and epochs until it is stopped.           *)

Resume(p) ==
  /\ At(p, "down") /\ saved[p] # <<>>
  /\ sitting' = [sitting EXCEPT ![p] = [Down EXCEPT !.step = "live", !.adult = saved[p][1]]]
  /\ UNCHANGED <<saved, linked, objects, contacts, failures>>

\* inject_sensor_word, publish: a refused contact ends the sitting unsaved.
Contact(p, b) ==
  /\ At(p, "live") /\ contacts < MaxContacts
  /\ contacts' = contacts + 1
  /\ sitting' = IF Len(sitting[p].adult.queue) = StageRing THEN [sitting EXCEPT ![p] = Down]
                ELSE [sitting EXCEPT ![p].adult.queue = Append(@, b), ![p].heard = TRUE]
  /\ UNCHANGED <<saved, linked, objects, failures>>

\* An epoch takes what is staged; a page without room for it is sealed, and
\* what was staged is not heard.
Epoch(a) ==
  LET heard == a.hot \o a.queue IN
  IF a.queue = <<>> THEN a
  ELSE IF a.sealed \/ Len(heard) > HotPage THEN [a EXCEPT !.sealed = TRUE, !.queue = <<>>]
  ELSE [a EXCEPT !.hot = heard, !.sealed = Len(heard) = HotPage, !.queue = <<>>]

LiveEpoch(p) ==
  /\ At(p, "live") /\ sitting[p].adult.queue # <<>>
  /\ sitting' = [sitting EXCEPT ![p].adult = Epoch(@)]
  /\ UNCHANGED <<saved, linked, objects, contacts, failures>>

Stop(p) ==
  /\ At(p, "live")
  /\ sitting' = Goes(p, "draining")
  /\ UNCHANGED <<saved, linked, objects, contacts, failures>>

\* main after the stop: a span of one epoch while a contact is staged, then a
\* span that settles what was heard, then the checkpoint.  A span ends with
\* its page: it fails if the page is sealed and cannot be archived.
DrainSpan(p) ==
  /\ At(p, "draining") /\ sitting[p].adult.queue # <<>>
  /\ sitting' = [sitting EXCEPT ![p].adult = Epoch(@), ![p].step = "drained"]
  /\ UNCHANGED <<saved, linked, objects, contacts, failures>>

\* Mutant of Unsettled: what was heard before the stop needs no span.
UnsettledNever(p) == FALSE

Unsettled(p) == sitting[p].heard

SettlementSpan(p) ==
  /\ At(p, "draining") /\ sitting[p].adult.queue = <<>> /\ Unsettled(p)
  /\ sitting' = Goes(p, "settled")
  /\ UNCHANGED <<saved, linked, objects, contacts, failures>>

NothingToSettle(p) ==
  /\ At(p, "draining") /\ sitting[p].adult.queue = <<>> /\ ~Unsettled(p)
  /\ sitting' = Goes(p, "saving")
  /\ UNCHANGED <<saved, linked, objects, contacts, failures>>

\* Mutant of Replaced: the checkpoint is written over, in the file it is in.
ReplacedInPlace(p) ==
  [q \in Sitter |-> IF q = p \/ {p, q} \subseteq linked THEN <<sitting[p].adult>> ELSE saved[q]]

\* persist_adult renames a new file over the path: other links keep the old one.
Replaced(p) == [saved EXCEPT ![p] = <<sitting[p].adult>>]

Persist(p) ==
  /\ At(p, "saving")
  /\ saved' = Replaced(p)
  /\ linked' = linked \ {p}
  /\ sitting' = [sitting EXCEPT ![p] = Down]
  /\ UNCHANGED <<objects, contacts, failures>>

\* Killed, or failed for any other reason: the locks of the process go with it.
Kill(p) ==
  /\ ~At(p, "down") /\ failures < MaxFailures
  /\ sitting' = [sitting EXCEPT ![p] = Down]
  /\ failures' = failures + 1
  /\ UNCHANGED <<saved, linked, objects, contacts>>

-----------------------------------------------------------------------------
(* page_completed_direct_exact_history, archive_direct_exact_history_page. *)

SpanEnds(p)  == sitting[p].step \in {"drained", "settled"}
AfterPage(p) == IF At(p, "drained") THEN "draining" ELSE "saving"

PageOpen(p) ==
  /\ SpanEnds(p) /\ ~sitting[p].adult.sealed
  /\ sitting' = Goes(p, AfterPage(p))
  /\ UNCHANGED <<saved, linked, objects, contacts, failures>>

\* Mutant of LockFree: the archive directory is not locked.
LockFreeAlways == TRUE

LockFree == \A q \in Sitter : sitting[q].archive = "none"

LockArchive(p) ==
  /\ SpanEnds(p) /\ sitting[p].adult.sealed /\ sitting[p].archive = "none"
  /\ LockFree
  /\ sitting' = [sitting EXCEPT ![p].archive = "locked"]
  /\ UNCHANGED <<saved, linked, objects, contacts, failures>>

\* The object of the adult's page: its chain, one page longer.
Object(p) == Append(sitting[p].adult.chain, sitting[p].adult.hot)

\* The page holds records, its predecessor can be read and there is capacity.
Archivable(p) ==
  LET a == sitting[p].adult IN
  /\ a.hot # <<>>
  /\ a.chain # <<>> => a.chain \in objects
  /\ Len(a.chain) < ArchivePages

\* The span fails, and with it the sitting: nothing is saved.
ArchiveRefused(p) ==
  /\ sitting[p].archive = "locked" /\ ~Archivable(p)
  /\ sitting' = [sitting EXCEPT ![p] = Down]
  /\ UNCHANGED <<saved, linked, objects, contacts, failures>>

\* persist_object: a link puts the whole object there, or it was there before.
Store(p) ==
  /\ sitting[p].archive = "locked" /\ Archivable(p)
  /\ objects' = objects \union {Object(p)}
  /\ sitting' = [sitting EXCEPT ![p].archive = "stored", ![p].created = Object(p) \notin objects]
  /\ UNCHANGED <<saved, linked, contacts, failures>>

Acknowledge(p) ==
  /\ sitting[p].archive = "stored"
  /\ sitting' = [sitting EXCEPT
       ![p].adult = [@ EXCEPT !.chain = Object(p), !.hot = <<>>, !.sealed = FALSE],
       ![p].archive = "none", ![p].created = FALSE, ![p].step = AfterPage(p)]
  /\ UNCHANGED <<saved, linked, objects, contacts, failures>>

\* Verification or acknowledgement fails: what this call created is removed.
AcknowledgeFails(p) ==
  /\ sitting[p].archive = "stored" /\ failures < MaxFailures
  /\ objects' = IF sitting[p].created THEN objects \ {Object(p)} ELSE objects
  /\ sitting' = [sitting EXCEPT ![p] = Down]
  /\ failures' = failures + 1
  /\ UNCHANGED <<saved, linked, contacts>>

SitdownNext ==
  \E p \in Sitter :
    \/ Branch(p) \/ Discard(p) \/ Resume(p)
    \/ \E b \in Byte : Contact(p, b)
    \/ LiveEpoch(p) \/ Stop(p) \/ DrainSpan(p) \/ SettlementSpan(p) \/ NothingToSettle(p)
    \/ Persist(p) \/ Kill(p)
    \/ PageOpen(p) \/ LockArchive(p) \/ ArchiveRefused(p)
    \/ Store(p) \/ Acknowledge(p) \/ AcknowledgeFails(p)

SitdownSpec == SitdownInit /\ [][SitdownNext]_sitdownVars

-----------------------------------------------------------------------------
(* Properties.                                                             *)

Adult == [chain: Seq(Seq(Byte)), hot: Seq(Byte), sealed: BOOLEAN, queue: Seq(Byte)]

SitdownTypeOK ==
  /\ sitting \in [Sitter -> [step: {"down", "live", "draining", "drained", "settled", "saving"},
                             adult: Adult, heard: BOOLEAN,
                             archive: {"none", "locked", "stored"}, created: BOOLEAN]]
  /\ \A p \in Sitter : saved[p] = <<>> \/ saved[p][1] \in Adult
  /\ linked \subseteq Sitter /\ objects \subseteq Seq(Seq(Byte))
  /\ contacts \in Nat /\ failures \in Nat

Durable(a) == \A n \in 1 .. Len(a.chain) : SubSeq(a.chain, 1, n) \in objects

\* Every page that a saved adult, or one in a sitting, moved out of itself is in
\* the archive, though another sitting may have stored the same object and
\* failed: the records exist nowhere else.
ChainDurable ==
  \A p \in Sitter : /\ Durable(sitting[p].adult)
                    /\ saved[p] # <<>> => Durable(saved[p][1])

\* A saved adult can hear: no contact is left staged, no page sealed.  It is
\* what the drain after the stop is for.
SavedCanHear ==
  \A p \in Sitter : saved[p] # <<>> => saved[p][1].queue = <<>> /\ ~saved[p][1].sealed

Records(a) == FlattenSeq(a.chain) \o a.hot

\* A checkpoint only ever grows by records, and only by a sitting on its own
\* path: a branch "cannot advance the retained Direct Adult" (README.md).
SavedByItsSitting ==
  [][\A p \in Sitter : saved[p] # <<>> /\ saved'[p] # <<>> /\ saved'[p] # saved[p] =>
       /\ At(p, "saving")
       /\ IsPrefix(Records(saved[p][1]), Records(saved'[p][1]))]_sitdownVars

=============================================================================
