# Verification of the direct adult runtime

Cyber-Lagoon-Workbench keeps a long-lived "adult": a neural substrate resident on
a GPU, driven by a host process that feeds it sensory contacts and returned
consequences, reads its motor words, and puts it to rest in a checkpoint. This
directory models the parts of the repository where that is hard to get right: what
happens *between* the host, the copy engine and the resident kernel, between a
client that may ask twice and the gateway of the reference Adult, between an action
and a consequence that comes late, twice or never, and between a process that is
killed and the one that goes on from its files.

`HN/` stands for `src/hardware_native/src/hardware_native/`, `FW/` for
`src/hardware_native/tools/foundry_workbench/`.

## 1. Inventory

| Component | State it keeps | Operations | Talks to | What makes it correct |
|---|---|---|---|---|
| **Transport rings and persistent executor** (`HN/direct_adult_persistent.cu`, `..._ingress_phase.cu`, `..._settlement_phase.cu`, `direct_adult_route_transport_runtime.inl`, `direct_adult_core.cu`) | per ring: write, publish and reclaim frontiers and pinned staging on the host; queue, `published_tail`, `consumed_head`, `fault` on the device; execution authority, stop flag, epoch limit, resident tick | stage, publish, launch, bounded span, stop, reconcile; per epoch: snapshot, ingress phase, settlement loop, motor phase | host thread, transport stream, cooperative kernel | frontiers in order; every event heard once, in order, under its own name; every boundary accepted; blocked calls return |
| **Host-stepped executor** (`HN/direct_adult_core.cu`, `direct_adult_core_*_kernels.cu`) | the same rings, `dispatched_tail`, stream events | `step_direct_adult_epochs`, `flush_sensory_ingress`, consequence settled at once | host, stream order | same as above, and equivalence with the persistent executor |
| **Exact-history hot page** (`HN/direct_exact_history.cuh`) | slots, current phase, `sealed`, prefix root | begin / finish a phase | every writing phase, the archive | a phase is recorded whole or not at all; nothing happens unrecorded |
| **Cold archive** (`HN/direct_exact_history_cold_archive.cu`) | chain of pages on disk, resource pool, warm tier | validate, persist, verify, acknowledge, roll back | hot page, file system | page on disk if and only if acknowledged; a failure changes nothing |
| **Consequence resolver** (`HN/direct_adult_device_ops_heavy.inl`) | tickets, action occurrences | settle, reject, refuse | settlement loop, hot page | a ticket settles at most once; a refusal is retried, a rejection consumed |
| **Motor publication** (`HN/direct_adult_persistent_motor_phase.cu`, `direct_adult_language_motor_finalize.cu`) | egress and efference rings, motor trajectory | emit, finalize, drain | client, hot page, tickets | what the client reads is what history and ticket say |
| **Checkpoint** (`HN/direct_adult_checkpoint.inl`) | image of all runtime buffers | capture, serialise, restore | sitdown | taken only at a quiet boundary; restart continues the same adult |
| **Sitdown process** (`src/hardware_native/tools/direct_adult_sitdown.cu`) | checkpoint file, pending input | inject, run a span, drain motors, persist by rename | stdin/stdout, signals, runtime | what was admitted is in the checkpoint it exits with |
| **Gateway and terminal** (`foundry_workbench/reference_language_mastery_*`) | per session: rows passed and commitment of the last answer; the Life runtime and its checkpoint | decode a transcript, hear its new rows, settle, save, reply | Claude Code over HTTP, the reference Adult, the checkpoint file | a contact is heard once, an answer given is never forgotten |
| **Dialogue receipts** (`FW/reference_mathematical_adult_workbench_v1.py`) | receipts of pending acts by kind, remembered acts, continuation commitments | act, echo, tool result, context, inquiry, continue | gateway, life runtime | an act is credited once, by its own consequence |
| **Partner actions** (`FW/reference_language_mastery_adult_v1.py`, `..._joint_attention_memory_v1.py`) | current ticket, bank of waiting actions, role of a reply, joint rows | choose, park, expire, settle, save, restore | terminals, joint memory | a return credits the action it answers, and no other, once |
| **Opaque relation machine** (`FW/reference_contract_1610.py`) | experiences, current situation, actions, credit and its lineage, withdrawn sources | contact, tick, withdraw, settle | sources, body | nothing rests on a withdrawn source |
| **Authenticated probe** (`FW/reference_resident_authenticated_probe_v1.py`) | pending episode, evidence, event record; the body's clock and routes | sample, tick, dispatch, seal, return, withdraw, re-map, checkpoint, restore | body boundary | what steers the policy was really returned under the mapping in force |
| **Public adult tools** (`src/tools/public_adult.py`, `public_materialize_adult.py`) | adult and provenance files, lock | launch, materialise, save | file system, gateway | one writer; provenance is that of the adult |
| **Public Direct gateway** (`src/tools/public_direct_adult_gateway.py`) | per session the rows seen, unfinished surface, surfaces waiting | post, answer, pump | HTTP client, sitdown | a contact is delivered once, a surface given whole |
| **Laboratory** (`src/tools/direct_adult_lab.py`) | hard-link branches of the retained checkpoint | branch, run, discard | file system, sitdown | a branch cannot advance the retained adult |
| Delayed packets, resident development, topology arena | free lists, plans | parallel plan / scan / commit | epoch | conservation of slots and resources |
| Legacy `bcc32_*` stack, other foundry references and their verifiers, probes, renderer, build tools, docs | - | - | - | outside the paths above |

Hard behaviours: three parties (host thread, transport stream, kernel) sharing
rings without locks; asynchronous copies that read host memory later than they are
enqueued; a kernel that samples frontiers at the head of an epoch and commits them
phases later; a history page that may fill at any phase; retries of refused
returns; stop and limit racing everything else; crash between archive, checkpoint
and rename; late motor answers; sources withdrawn while an action that rests on them
is in flight; bounded banks of what still waits for its consequence. `PROJECT.json` lists each hazard at its line with
the properties that cover it.

## 2. Plan

| Order | Module | Models | Status |
|---|---|---|---|
| 1 | `DirectAdultTransport` | both rings, transport stream, epoch loop, launch / span / stop | done |
| 1 | `ContactLedger` | abstract specification of the rings | done |
| 1 | `DirectAdultTransport_proofs` | types, ring order, accepted boundaries, monotone frontiers, drained spans; stable staging, hearing in order and the refinement of `ContactLedger` | done |
| 2 | `MotorPublication` | motor phase, trajectories, efference copies, finalizer, client reads, page root | done |
| 3 | `DirectAdultSitdown` | sittings of the retained adult and its branches, drain, checkpoint by rename, archive transaction, kills and restarts | done; the archive has no module of its own, because its lock, objects and failures matter only together with who may resume them |
| 4 | `LanguageGateway` | session cursors, hearing, settling, saving, replying; lost answers, retries, crashes | done |
| 4 | `DialogueReceipts` | echoes, tool results, receipts, continuations behind that gateway | done |
| 5 | `PublicAdult`, `PublicDirectGateway` | lock, materialisation, gateway process; one-shot Direct gateway | done |
| 6 | `PartnerActions` | tickets, bank, roles, joint memory, save and restore | done |
| 6 | `OpaqueRelations`, `AuthenticatedProbe` | contacts, actions, consequences, withdrawal; the probe and its body | done |
| 7 | `MCWorkbench` | model-checking module of the eight parts above that share no state | done |
| 8 | `DirectAdultSitdown_proofs` | types, saved adults that can hear, durable chains, checkpoints that only grow | done |
| 8 | `OpaqueRelations_proofs` | types, withdrawal, answerable actions, restorable states, causes of credit | done |
| 9 | `LanguageGateway_proofs` | types, contacts in order, cursors, durable answers | done |
| 9 | `Consequences_proofs` | tickets, rows and waiting actions of `PartnerActions`; credit and continuations of `DialogueReceipts` | done |
| 9 | `MotorPublication_proofs` | types, reading order, agreement of the accounts, copies | done |
| 9 | `AuthenticatedProbe_proofs` | current evidence, deadlines, the body's clock | done |
| 9 | `PublicTools_proofs` | `PublicDirectGateway`: deliveries and whole surfaces; `PublicAdult`: the writer and the provenance | done |

`HostSteppedExecutor` was planned and dropped: no client drives
`step_direct_adult_epochs` beside the persistent executor, and alone it is
sequential. What it shares with the clients - admission of consequences, reading of
motor events - is in `DirectAdultTransport` and `MotorPublication`.

Every invariant and action property that a passing run checks is now a theorem
(section 13). Still worth proving: that the sittings of `DirectAdultSitdown` implement
an archive that only grows by whole pages, and that `LanguageGateway` implements a
reliable conversation; neither abstract specification is written yet.

## 3. `DirectAdultTransport`

Three parties:

* **host** - `Stage`, `StageRefused` (`stage_sensory_events`,
  `enqueue_consequence_staging`, with the refresh of the reclaim frontier inside),
  `Publish` (`publish_*_transport`), `SettleStepped` / `SettleSteppedRefused` (a
  return at a host-stepped boundary), `StartPersistent`, `RunSpan`,
  `StopPersistent`, and the returns of the two blocking calls (`StopReturns`,
  `SpanReturns`, both through `Reconcile`);
* **transport stream** - a queue of operations: `CopyStep` copies staging slots to
  the device queue *as they are when it executes*, `TailStep` publishes the pinned
  tail word *as it is when it executes*, `StopStep` sets the stop flag;
* **kernel** - `Snapshot`, `IngressPhase`, `IngressCommit`, `NoIngress`, the
  settlement loop (`Settled`, `Rejected`, `SettlementEnds`), `Learn`, `MotorPhase`.

Both rings are one function over `Ring`, since the code duplicates them line for
line. What is kept of the data: an event is the number of its admission (the
`transport_cursor`), a history page is its committed slots and `sealed`, and
`heard` is a history variable recording what became of each event.

Abstractions and their reasons:

* cursors are naturals: `uint32` subtraction and `% capacity` agree across the wrap
  because both capacities are powers of two;
* one call of `stage_sensory_events` admits many events; they are staged one by one
  here, which only adds interleavings with the device (the reclaim frontier is
  read afresh only when the ring is full, as in the code);
* `flush_sensory_ingress` is `Publish` on another stream, which `Launch` drains too;
* a refused credit plan and a refused history phase look alike to the settlement
  loop (`history_refused`), so `SettlementEnds` may occur at any event;
* `Learn` stands for every other history writer of the epoch, each with a width and
  the records it keeps;
* the control words a stepped settlement copies back travel on the legacy-ordered
  `stream` that every later read synchronises with, so they are written at once;
* CUDA errors, launch dimensions, observer snapshots and neural arithmetic are left
  out.

Deployment constants: `Resident` (the unbounded executor of
`start_persistent_direct_adult`, used by probes) and `SteppedReturns` (returns at
host-stepped boundaries, as the sitdown does).

Bounds: `MaxEvents` per ring, `MaxSpan` epochs in a span; `PageCapacity`,
`MotorPorts`, `SettlementWidth`, `LearningWidth` size the history. Rings of two
slots wrap after two events, so 3 or 4 events per ring reach a second lap, a full
ring, a refresh, a split copy and a reused slot; a page of 2-4 slots fills inside
the bound in every phase.

`ContactLedger` is what the rings promise, without rings: each admitted event is
decided exactly once, in admission order, under its own name. The refinement maps
`admitted` to `writeTail` and `decided` to `heard`.

### Properties

| Property | Kind | Says |
|---|---|---|
| `TypeOK` | type invariant | |
| `RingOrder` | invariant | observed <= consumed <= published <= enqueued <= staged <= observed + capacity |
| `BoundaryTrusted` | invariant | no ring fault is ever raised and no boundary is refused |
| `StagingStable` | invariant | no pinned slot is rewritten under a copy still queued |
| `HeardInOrder` | invariant | the event processed at cursor c is the one staged at c |
| `ConsumedIsWitnessed` | invariant | a consumed contact was processed (violated) |
| `FrontiersAdvance` | action | reclaim, consumed and published frontiers only advance |
| `SpanDrainsIngress` | action | a span returns with every published contact consumed |
| `ImplementsLedger` | refinement | `ContactLedger` |
| `PublishedIsConsumed` | liveness | a published contact is consumed, or the run ends |
| `CallsReturn` | liveness | a blocked span or stop returns |
| `SealedPageReturns` | liveness | a sealed page ends the run it fills in (violated) |

Fairness (`FairSpec`): weak fairness of the transport stream (CUDA executes a
stream's operations), of the kernel (the cooperative grid is resident as a whole)
and of a call's return once it may. Nothing is assumed of what the client asks for.

### Runs

| Run | Instance | Result |
|---|---|---|
| `TransportBounded` | spans of up to 2 epochs, returns at boundaries, 2-slot rings, 4 events each, page of 4 | the deployment the sitdown uses is in order and drains its rings; and implements the ledger, because every launch drains the stream while nothing is consuming |
| `TransportResident` | unbounded executor besides spans, 4 contacts, 2 returns, page of 2 | frontiers, boundaries and staging are safe for every interleaving, although the data may not be |
| `TransportLive` | one-slot rings, 2 + 2 events, `FairSpec` | contacts flow although settlement may refuse forever; calls return |
| `TransportRace` | resident | **violates** `HeardInOrder`: finding 2 |
| `TransportDeaf` | spans only | **violates** `ConsumedIsWitnessed`: finding 1 |
| `TransportPaging` | resident, `FairSpec` | **violates** `SealedPageReturns`: finding 3 |

### Findings

1. *Consumed, not heard.* An ingress batch needs room for all its records. If the
   page is full the batch is refused, no contact is processed, and `consumed_head`
   advances over it all the same. The document has a contact witnessed before its
   cursor is committed.
2. *A tail ahead of its data.* All tail copies of a ring read one pinned word. Two
   publications in a row, with the first tail copy executed after the second
   publication was enqueued, publish the second batch's cursor before its data: a
   stale slot is heard under the new cursor. Its credential does not match the
   cursor, so it counts as unauthenticated contact, and the real one is lost. Only
   a consuming kernel can observe this, so bounded spans are immune.
3. *No paging while resident.* The two executors are documented to share one paging
   boundary, but nothing pages during, or at the stop of, an unbounded run.

## 4. `LanguageGateway`

The gateway serves one request at a time (`HTTPServer`); the others wait in
`backlog`. A request is a session's whole transcript, which only grows, so it is
modelled by its length. Rows are contacts or answers, and an answer stands for its
commitment.

| Action | Code |
|---|---|
| `Ask`, `Post`, `GiveUp` | the client, external: a new contact, a request, a timeout |
| `Refuse` | `claude_contact_event` raises: a 422 and nothing else |
| `Settle` | `resident_contact`, the quiet opportunities, `settle_body_ingress` |
| `RefuseLate` | the work bound or the cursor table's capacity: a 422 after hearing |
| `Save`, `SaveFails`, `Reply` | `save_runtime`, its uncaught `OSError`, the response |
| `OtherRequest` | `/v1/ambient`, and contacts without a session: they save the same runtime |
| `Crash` | the process ends and restarts from the checkpoint |

Hearing and settling are one step: they happen in one thread in memory, and a crash
between them equals a crash before. The steps around the checkpoint are apart.

Left out: the text of rows, the pages of a frame, malformed requests; tool results
and the receipts of public actions they settle are section 5. The life curriculum's own sources
also occupy the cursor table; `SourceCapacity` is what is left of the 64.

| Property | Kind | Says |
|---|---|---|
| `SettledOnceInOrder` | invariant | a contact is never heard again once a request with it was settled, nor out of order |
| `PassedIsHeard` | invariant | every contact the durable cursor has passed is in what the durable runtime heard |
| `DeliveredIsDurable` | invariant | an answer the client holds is one the checkpoint expects back |
| `PostedIsAnswered` | liveness | without losses, what is posted is answered |
| `HeardOnce` | invariant | no contact is heard twice (violated) |

`GatewayLossy` checks the invariants with two sessions, two answers, three requests
each, transcripts of up to four rows and every loss; three requests are an answer, a
lost answer and a retry. `GatewayLive` has five rows, three turns, and fairness of
the handler alone (`serve_forever`); TLC finds no refusal. `GatewayFull` has room
for one session of two and **violates** `HeardOnce`:

4. *Heard, then refused for want of room.* The capacity of 64 sessions is tested
   after the contact was heard. A 65th session is never answered, and every try adds
   the same rows to what the Adult heard. Cursors are never dropped, and the public
   client opens a new session per invocation.

A consequence of the protocol worth knowing, not a violation: an answer lost *after*
the save ends its session. The client cannot show the answer back, so each further
request is refused.

## 5. `DialogueReceipts`

What stands behind the gateway's cursor: the adult performs an act, the client
shows it back (an echo), perhaps with the result of the tool the act asked for, and
brings new contact. The handler takes one request at a time, so a request is one
action and `LanguageGateway` keeps the crash and retry of the cursor itself.

| Action or operator | Code |
|---|---|
| `Respond` | `do_POST`: echo, tool result, contact, quiet opportunities, answer, save |
| `RefuseResult`, `RefuseResponse` | the same, refused after part of it was done: *nothing is undone* |
| `Echoed`, `Reafferenced`, `Archived` | `settle_reafferenced_contact`, the archive of the last acts |
| `Resulted`, `ActCredited`, `Released` | `settle_tool_result`, credit, release of a continuation |
| `Dialogues`, `Contexts`, `Lexicals`, `Inquiries`, `Continued` | what the life may say, each with its receipt |
| `Borne`, `PageHeard`, `QuietOpportunity` | a page of contact, a quiet moment |

What the adult has to say, and what a contact means to a hypothesis, are inputs.
The inquiry roles "state" and "causal" are one kind. A kill of the gateway is no
action: it goes on from the checkpoint of an answer, a life it was in before.

| Property | Says |
|---|---|
| `CreditedOnce` | the world's return is credited to an act once, whatever is refused, posted again, or said alike by another act |
| `ContinuationEarned` | a continuation is ready only when the world accepted the very act it awaits |

Met while modelling, and listed as hazards: the tool result of a request that is
refused afterwards stays settled, so that each retry is refused as `body:tool_result`
and the session is stuck; archiving an act older than the eight remembered ones drops
it and then lists it among the pending consequences, or drops the act a continuation
awaits; two context receipts may share a channel. `restore` refuses each of these
checkpoints. No document claims that every checkpoint can be restored, so these are
not findings.

## 6. `MotorPublication`

`DirectAdultTransport` has the motor epoch only as a history phase. This module has
the phase port by port (`BeginRefused`, `BeginPorts`, `BeginContinued`, `BeginHeld`,
`BeginBroken`, `SkipPort`, `EmitPort`, `EmitOrigin`, `Publish`), the language
finalizer that rewrites the word of the event it drove (`Finalize`), the archive's
test of a page's root (`ArchivePage`), and the client, which copies the cursors and
slots (`ReadSlots`) and stores the head (`StoreHead`) while the kernel goes on.
Which port wins, whether ancestry admits it and whether it begins a trajectory are
choices. The root of a page, a fold of hashes, is the sequence of what was folded.

| Property | Says |
|---|---|
| `ReadInOrder` | the client hears every published event once and in order |
| `AccountsAgree` | between epochs, slot, ticket, record and copy of an unread event have the same word |
| `CopiesMatch` | every ticket has its one efference copy; a full ring holds the motor back |
| `SealedPageFolds` | between epochs a sealed page folds to its root (violated) |

5. *A sealed page that does not fold.* The finalizer rewrites the word in a history
   record after the phase was folded into the page's root. The archive takes a page
   only if its records fold to the root, so such a page is never moved out; every
   later phase that needs the page refuses, and the adult is deaf. `MotorPages`
   shows it with a single driven event.

Not a finding, for want of a claim a run could quote as one line: a live trajectory
that has no room in the egress ring does not own the phase (the test of room is
outside its branch), so another port may speak into the middle of its surface.

## 7. `DirectAdultSitdown`

`main` of the sitdown on several checkpoint paths - the retained adult and the
hard-link branches of the laboratory (`Branch`, `Discard`) - sharing one archive
directory: `Resume`, `Contact`, `LiveEpoch`, `Stop`, `DrainSpan`, `SettlementSpan`,
`NothingToSettle`, `Persist`; at the end of a span `PageOpen`, or the archive's
`LockArchive`, `ArchiveRefused`, `Store`, `Acknowledge`, `AcknowledgeFails`; and
`Kill` between any two. The epoch and its rings are in abstract form here: what is
staged is heard by the next epoch, or lost on a page without room, as
`DirectAdultTransport` has it in detail.

An object of the archive is addressed by its content, which names its predecessor:
it is the whole chain up to its page, and sittings that hear the same bytes write
the same object. That is what makes the lock and the removal after a failure
interesting. The loss of the page cache (no `fsync` in `persist_adult`, an archive
under `/tmp`) is left out.

| Property | Says |
|---|---|
| `ChainDurable` | every page that a saved or sitting adult moved out of itself is in the archive, though another sitting stored the same object and failed |
| `SavedCanHear` | a saved adult has no contact staged and no page sealed |
| `SavedByItsSitting` | a checkpoint changes only by the sitting on its path, and only grows by records |

## 8. `PublicDirectGateway`

The client's transcript, the session's boundary, the pump thread that joins the
motor events of a trajectory into a surface, and the queue of surfaces. The
boundary moves when a request is parsed (`PostContact`, `PostMany`), before the
contact is delivered and answered (`Answer`, `AnswerSilence`); the adult emits
trajectories, breaks them off or emits a stray event (`EmitFirst`, `EmitNext`,
`EmitStray`); `PumpMotor` and `PumpFails` are the thread.

`DeliveredOnce`: no contact reaches the adult twice, however often its transcript is
posted. `WholeSurfaces`: an answer is one whole trajectory, each given once and in
order. What follows from the code and no document denies: a surface that completes
after the wait was given up answers the *next* contact, a contact refused together
with another is never delivered, and one stray event ends the pump for good.

## 9. `PublicAdult`

`./adult` and `./build` in several shells on one adult: the lock (`Locks`), the
launcher and its gateway process (`Launch`, `SpawnGateway`, `EndSession`), the
terminal (`BecomeTerminal`, `EndTerminal`), materialisation file by file (`Build`,
`UnlinkCheckpoint`, `UnlinkProvenance`, `WriteCheckpoint`, `WriteProvenance`), and
kills of launcher, gateway, terminal and build, with the gateway a killed launcher
leaves behind.

A contact is lived in memory (`Heard`) and reaches the file later, if at all. The
gateway saves at the end of each request (`Saves`), unless it refuses the request
after the contact was lived or the save fails (`Unsaved`); what stays unsaved goes
into the next save. The terminal saves once, in the `finally` around its loop
(`EndTerminal`); killed, or with a save that fails, it loses the whole session
(`KillTerminal`). No document of the repository promises otherwise.

`WriterExtendsSaved`: a live writer holds the adult of the file and has lived all
that the file holds, and perhaps more; so a save undoes no contact saved before it.
`ProvenanceMatches`: provenance is that of the adult beside it, whichever step a
build was killed at. Both hold *until a launcher is killed*:
the orphan holds no lock, a second `./adult` starts beside it, and the two save over
each other, where the repository's README has "simultaneous writers refuse". The
properties state that condition; the orphan's steps are in the model.

## 10. `PartnerActions`

An action toward a partner gets a ticket (`Minted`); the end of its occurrence parks
it in a bounded bank (`Parked`), where it waits for its return or its end of life;
the joint-attention memory keeps a row of its own for the same ticket. Actions are
what the processes hear and do: `Utterance`, `QuietMoment`, `Reply`, `Remembered`,
`Stage`, `PartnerReturns`, `JointReturns`, `Leave`, `KillProcess`, `ReopenProcess`.
Which program wins is an input.

| Property | Says |
|---|---|
| `OwnedAsSpoken` | the row of the memory and the adult's record of the same ticket name the same program and partner |
| `ReturnedOnce` | a ticket, and the role of its reply, is credited once |
| `WaitsItsTurn` | a waiting action leaves the bank by its return or its age, never for another action |
| `TicketsOutliveSave` | tickets, bank, action and inquiry pass `restore` at any moment |
| `RoleOutlivesSave` | a saved role passes `restore` (violated) |

6. *A role without a program.* A reply stages its structural role with program 0,
   which only a winning choice replaces. Saved without one, the checkpoint is refused
   as `adult:checkpoint_pending_span_reply_role`. `PartnerRole` shows it, and a run
   of the Python code does too.

`WaitsItsTurn` is about a running process: one that is killed loses what it lived
since the last save, and mints the same ticket numbers again for other actions.
`reference_resident_conversation_affordance_v1`, which the terminal imports, is not
in the repository; only its choice is used.

## 11. `OpaqueRelations` and `AuthenticatedProbe`

`OpaqueRelations` has contacts (`Experienced`, `Situated`, `Settled`, `Withdrawn`)
and ticks (`IdleTick`, `Act`). An experience is its edit; a contact is
checked before it changes anything, a refused tick puts the state back, and neither
is a step. `Fit`, the sets of edits a situation has units enough
for, is an input.

| Property | Says |
|---|---|
| `NothingRestsOnWithdrawn` | neither credit nor an action still open rests on a withdrawn source |
| `PendingAnswerable` | an open action, which stops the machine, can still be ended by its own partner |
| `OpaqueRestorable` | a checkpoint of any reachable state passes its own restore |
| `CreditHasOneCause` | credit moves by one, for one consequence of one open action, or goes with a source it rests on |

`AuthenticatedProbe` has the resident (`IngestSample`, `QuietTick`, `OpenProbe`,
`OpenUnrecorded`, `WaitingTick`, `ReturnMore`, `ReturnSettles`, `WithdrawWitness`,
`AdoptMapping`) and the body (`Dispatch`, `Advance`, `SealReturn`), with
`Checkpoint` and `Restore` of both at any time; sealed returns may be late, lost or
kept across a restore. The predictor is a choice, and what the body sealed
authenticates.

| Property | Says |
|---|---|
| `EvidenceIsCurrent` | evidence that steers was returned under the mapping in force and rests on no withdrawn witness |
| `ClockCoversApplications` | the body clock never falls behind an application, also after a restore |
| `WaitIsBounded` | a pending episode ends: no tick is refused for its deadline |

`OpenUnrecorded` is a fault the model shows: a tick that finds the event record full
is refused after the episode was opened, and the episode stays. The properties hold
nevertheless.

## 12. Runs of sections 5 to 11

`Workbench` instantiates the eight modules together in `MCWorkbench`: they share
no state, so a behaviour picks one (`part`) and runs it alone. `MotorPages` and
`PartnerRole` run one module each.

| Part | Bounds | Cases they reach |
|---|---|---|
| opaque | 3 sources, 2 edits, 2 extents, 4 experiences, 1 kept action, 2 ticks; every situation fits both edits | two sources agree and a third disagrees, withdraws, or addresses; credit clamps; the list of actions is full |
| probe | 2 witnesses, 2 commands, 2 units, allowance 2, 4 events, 2 epochs, clock 3, one restore | an episode settled by its second return, a full record, an expired episode, a second epoch, a return from an abandoned future |
| motor | 2 ports, egress ring 2, efference ring 3, pages of 4, trajectories of 2, 3 epochs, one page moved out | wrap, full rings, a broken or held trajectory, a read in the middle of a phase |
| sitdown | the retained adult and a branch, 2 bytes, a ring of 1, page of 1, 2 pages, 3 contacts, one failure | both write the same object; failures at each step; a second page; capacity |
| gateway | 3 turns, 3 surfaces of 2 bytes | retry, refusal, late surface, broken surface, dead pump |
| public | 2 shells, 2 contacts, 3 adults | an unsaved contact and the save after it, a terminal killed, session beside build, rebuild, orphan |
| partner | 1 partner, 2 programs, bank 1, joint memory 2, life 2, 2 tickets, 3 ticks | full bank, expiry, return after restart |
| receipts | 2 sessions, 2 surfaces, banks of 2, memory of 1, 2 acts | two acts that say the same, an act older than the memory, a retry after a refusal |

Sources are interchangeable, so are the two values that stand for edits, bytes,
shells and sessions; `Workbench` uses that symmetry. Its run takes about two minutes
with two workers. These runs state no liveness property: none of these parts promises
progress - what ends a wait there is a deadline, and that it is reached in time is
`WaitIsBounded`. Deadlock is not checked, because every bound may stop a run.

## 13. What is proved

The theorems hold for every value of the constants that the named assumption of the
module allows. Where a property is not inductive, the invariant that carries it was
first checked by TLC on the run of its module.

`DirectAdultTransport_proofs`, for all capacities, page sizes, spans, bounds and
deployments, from the four named assumptions on the constants:

* `TypeCorrect`: `Spec => []TypeOK`.
* `RingsInOrder`, `BoundariesTrusted`. `RingOrder` is not inductive alone: a commit
  moves `consumedHead` to a tail sampled phases earlier, a tail copy stores whatever
  the pinned word then holds, and `Reconcile` accepts only equal frontiers. `RingInv`
  adds the order of the snapshot between the device's frontiers while an epoch runs
  (`SnapshotOrder`), that the pinned word is the newest tail (`PinnedIsNewest`), that
  an unseen tail has a tail copy queued (`TailWillLand`), and where the kernel can be
  under each authority (`Lifecycle`). `DrainedIsValid` draws from it that a drained
  stream makes the boundary valid.
* `FrontiersOnlyAdvance`: the action property, from `RingInv`.
* `SpansDrainIngress`: with `SpanInv` - during a span the stream is empty and no stop
  flag can be set, the first snapshot sees all that was published, and the kernel
  cannot reach its limit without a commit.
* `StagingIsStable`, for clients that do not both start the resident executor and
  return consequences at host-stepped boundaries (`OneReturnPath`). The hypothesis is
  needed: with both, TLC finds a return settled at the boundary moving the reclaim
  frontier past a waiting one whose copy is still in flight (`direct_adult_core.cu:724`,
  a hazard in `PROJECT.json`); no client of the repository does both. `TransferInv` says
  that what is staged stays until it is reclaimed (`StagedKept`), that copies read inside
  the window (`CopiesInWindow`), and that an event published and not consumed is in its
  slot of the device's ring or has a copy coming (`QueueFollows`). The slot arithmetic is
  one lemma: `SlotsApart`, cursors less than a capacity apart fall into different slots.
* `HeardOnceInOrder` and `RingsImplementLedger`, for the bounded executor (`~Resident`).
  Under the resident executor `HeardInOrder` is false: it is the finding of the run
  `transport_race`. Bounded, the epoch runs inside a blocking span, so the stream is
  empty when the kernel reads a slot and `QueueFollows` gives the slot its event.
  `HeardInv` ties the length of what was heard to the consumed frontier, and the
  refinement follows step by step: an admission, a decision, or a stutter.

`DirectAdultSitdown_proofs`, for any checkpoint paths, contacts and bounds, from
`SitdownAssumption`:

* `SitdownTypeCorrect`: `SitdownSpec => []SitdownTypeOK`.
* `SavedAdultsHear`: `SavedCanHear` speaks of files, but what a file holds was decided
  steps before `Persist`. `QuietInv` follows the sitting: an adult that has heard
  nothing is quiet, the drain leaves no contact staged, an archive is only entered with
  a sealed page, and "saving" is reached with nothing staged and nothing sealed.
* `ChainsAreDurable`: `ChainDurable` is not inductive, because a sitting that created
  an object removes it again when it fails to acknowledge. `ArchiveInv` says that at
  most one sitting is past the lock, that what it stored is there, and that every
  saved or sitting adult rests on `Sure`, the objects less the one a sitting may still
  remove. A store enlarges `Sure` only when it is acknowledged, and then the removable
  object becomes the head of a chain.
* `CheckpointsOnlyGrow`: the action property `SavedByItsSitting`. `GrowthInv` says that
  there is no sitting without a checkpoint, and that a sitting adult's records continue
  those of its checkpoint. That a page moved out takes its records along
  (`PageExtends`) rests on `FlattenAppended`, a lemma about the community modules'
  recursive `FlattenSeq`. It is proved by induction on the length: the library's
  induction theorems take an operator, but its well-foundedness theorem takes a set,
  and `LeastNumber` and `SetInduction` draw induction for a set of naturals from it.

`OpaqueRelations_proofs`, for any sources, edits and situations, from
`OpaqueAssumption`:

* `OpaqueTypeCorrect`, `WithdrawnSupportsNothing`, `PendingCanBeAnswered` from one
  invariant, `OpaqueInv`. `NothingRestsOnWithdrawn` needs that an action in flight
  rests on heard sources only, since its consequence adds its contributors to the
  lineage; `PendingAnswerable` needs that a situation of a withdrawn source is gone
  before a tick could act on it (`CurrentIsHeard`), and that no tick passes while an
  action is in flight. `RetireType` is the lemma about the bounded list of actions:
  with no action in flight a full list always has one to give up.
* `CreditIsCaused`: the action property. It needs the clamp as an invariant
  (`CreditClamped`: a step of one from inside the clamp stays within one), and
  `NothingRestsOnWithdrawn`: withdrawing a source again drops nothing.
* `AlwaysRestorable`: with `RestorableInv`, which adds that the credited recipes are
  finitely many; a winning edit has rows, so no action or lineage is ever empty.

`LanguageGateway_proofs`, for any sessions, answers and bounds, whatever the medium
loses: `GatewayTypeCorrect`, `SettledContactsNeverRepeat`, `CursorsPassOnlyTheHeard`,
`DeliveredAnswersAreDurable`, from `GatewayInv`. A restart puts the checkpoint in the
place of the runtime, so both owe the transcript the same (`Sound`): what was settled
lies behind the cursor, what lies behind the cursor was heard, and every answer held by
a client is passed or expected. That needs to know what a queued request may still show
(`BacklogFits`: a prefix of the transcript, and all of it while the client waits for
this very request) and what the handler has done between settlement, save and reply
(`PhaseFits`).

`Consequences_proofs`, for `PartnerActions` with any partners, programs, size of bank,
life of a ticket and bound, however often the adult is saved, killed and reopened:

* `RowsSayWhatWasChosen`, `TicketsReturnOnce`, `TicketsCanBeSaved`. `PartnerInv` holds
  of the living adult and of the stored one, because either may be the next to live.
  A credited ticket is gone from bank and action and never minted again (`Unspent`); a
  role credits the ticket of the choice that made it, parked or not (`RoleFits`).
* `ActionsWaitTheirTurn`: the action property, from the same invariant and a relation
  between two adults, `Follows`, that composes along the calls one step makes.

and for `DialogueReceipts` with any sessions, surfaces and banks:

* `ActsAreCreditedOnce`, `ContinuationsAreEarned`, from `Lived`: an act that still waits,
  as a receipt or echoed and without consequence, was performed, waits in one place and
  has no credit. A request that is refused halfway keeps what it did, so each operator
  of settling and of speaking is shown to give only lives that are `Lived`.

`MotorPublication_proofs`, for any number of ports and any size of ring, efference ring
and page: `MotorTypeCorrect`, `EventsAreReadInOrder`, `WordsAgree`, `CopiesAreKept`,
from `MotorInv`. `AccountsAgree` compares the four accounts of an event between epochs
only; the invariant compares each with the efference copy at every moment, inside the
motor phase, before publication and while the client holds what it has copied. It counts
tickets, copies and events together (`Counted`), so that the n-th event has ticket n
wherever it is kept (`Numbered`).

`AuthenticatedProbe_proofs`, for any witnesses, commands and bounds:
`EvidenceStaysCurrent`, `EpisodesMeetTheirDeadline`, `ClockNeverFallsBehind`, from
`ProbeInv`. A restore puts a checkpoint in force, so the kept pair of resident and body
must be `Coherent` as the living pair is, and an open episode must rest on no withdrawn
source before its return can become evidence.

`PublicTools_proofs`, for any shells, contacts and length of a surface:

* `ContactsAreDeliveredOnce`: a delivered contact lies behind the boundary, whatever the
  client sends again (`DeliveryInv`).
* `SurfacesAreWhole`: the pump meets the lines of a trajectory long after the adult has
  gone on. `SurfaceInv` orders what the adult emits, what is in the pipe, what is
  gathered and what is out: gathered bytes are a prefix of one trajectory, and anything
  still to be read of any trajectory was emitted after them.
* `SavesOnlyExtend`: with one shell inside the lock (`OneInside`) and no writer outside
  it (`WriterInside`), the one who saves is the one whose memory extends the file, and
  a contact that is lived only makes it longer; what is refused, fails to be saved or
  dies with its process leaves the file as it was.
* `ProvenanceIsOfTheAdult`: what each step of a build has left on disk (`BuildLeft`)
  shows that a kill at any of them leaves provenance of the adult that is there, or one
  of the two missing. Both theorems are claims until a launcher is killed, as the
  properties are: a gateway that outlives its launcher breaks them.

Only model-checked, and why:

* `PublishedIsConsumed`, `CallsReturn` and `PostedIsAnswered`: liveness under fairness
  needs `ENABLED`, which the prover does not handle;
* the properties of the runs that expect a violation: they are false. `HeardInOrder` is
  so under the resident executor only, and proved without it;
* recursive operators: the modules with theorems have none of their own. Facts about
  recursion over data are proved where a theorem needs them (`FlattenSeq`).

## 14. Not modelled

With their reasons in `PROJECT.json`:

* the numeric phases of the kernel - development, topology, delayed packets, credit
  arithmetic: data-parallel computations between grid barriers, whose interaction with
  the rest is the history page, modelled as `Learn`;
* `step_direct_adult_epochs`: sequential, and driven by no client of the persistent
  executor;
* the bytes of checkpoints, archive objects, frames and signatures: conversions no
  property here tells apart;
* the other foundry references (organism, language learning, chunk relations, curricula,
  recipes) and the `*_verify.py` scripts: sequential computations over numeric evidence,
  and the tests of the references. Their results enter the models as inputs: who wins,
  what is said, which prediction chains;
* the legacy `bcc32_*` stack, which the direct adult's clients do not reach;
* power loss, CUDA errors and a machine that runs two copies of one directory.

The repository has about a hundred thousand lines of implementation. The models are
of the part where order, failure and memory of earlier steps decide correctness; most
of the rest is arithmetic that is right or wrong line by line.
