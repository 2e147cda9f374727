------------------------------ MODULE PublicAdult ------------------------------
(***************************************************************************)
(* The state directory of the reference adult: ./adult (public_adult.py)   *)
(* and ./build (public_materialize_adult.py) on adult.json and             *)
(* adult.provenance.json, under the lock of adult.lock.                    *)
(*                                                                         *)
(* A launcher holds the lock and runs the gateway, a process of its own    *)
(* that holds no lock, loads the adult once and saves it at the end of     *)
(* each request it does not refuse; or it becomes the terminal, which      *)
(* keeps the lock and saves once, when its input ends.  So the adult in    *)
(* memory runs ahead of the file, and what is not saved dies with its      *)
(* process.  A launcher that is killed leaves its gateway running.  Writes *)
(* are replacements of a whole file.                                       *)
(***************************************************************************)
EXTENDS Integers, Sequences, SequencesExt

CONSTANTS
  Shell,        \* shells in which ./adult or ./build is run
  MaxHeard,     \* bound on the contacts of a run
  MaxBirths     \* bound on the adults materialized

ASSUME PublicAssumption == MaxHeard \in Nat /\ MaxBirths \in Nat

VARIABLES
  shell,   \* [Shell -> step of the process that holds, or waits for, the lock]
  writer,  \* [Shell -> <<>> or <<adult>>]: in memory of the gateway or terminal
           \* it started
  busy,    \* the gateway has lived a request that it has neither saved nor refused
  disk,    \* checkpoint and provenance, <<>> or <<content>>
  heard,   \* contacts so far
  births,  \* adults materialized so far
  orphaned \* a launcher was killed while its gateway ran

publicVars == <<shell, writer, busy, disk, heard, births, orphaned>>

PublicInit ==
  /\ shell = [s \in Shell |-> "out"] /\ writer = [s \in Shell |-> <<>>]
  /\ busy = [s \in Shell |-> FALSE]
  /\ disk = [checkpoint |-> <<>>, provenance |-> <<>>]
  /\ heard = 0 /\ births = 0 /\ orphaned = FALSE

\* state_lock: nobody else is inside; a busy state refuses.
Locks(s, step) ==
  /\ shell[s] = "out" /\ \A q \in Shell : shell[q] = "out"
  /\ shell' = [shell EXCEPT ![s] = step]

Leaves(s) == shell' = [shell EXCEPT ![s] = "out"]

-----------------------------------------------------------------------------
(* ./adult.                                                                *)

\* backend_available; one writer a shell, so that a gateway left behind is kept.
Launch(s) ==
  /\ disk.checkpoint # <<>> /\ writer[s] = <<>>
  /\ Locks(s, "launcher")
  /\ UNCHANGED <<writer, busy, disk, heard, births, orphaned>>

\* The gateway loads the adult, then says that it is ready.
SpawnGateway(s) ==
  /\ shell[s] = "launcher" /\ writer[s] = <<>>
  /\ writer' = [writer EXCEPT ![s] = disk.checkpoint]
  /\ shell' = [shell EXCEPT ![s] = "session"]
  /\ UNCHANGED <<busy, disk, heard, births, orphaned>>

\* --terminal: the same process, which has kept the lock's descriptor.
BecomeTerminal(s) ==
  /\ shell[s] = "launcher" /\ writer[s] = <<>>
  /\ writer' = [writer EXCEPT ![s] = disk.checkpoint]
  /\ shell' = [shell EXCEPT ![s] = "terminal"]
  /\ UNCHANGED <<busy, disk, heard, births, orphaned>>

\* A contact or a quiet opportunity is lived, in memory.  A gateway owes its
\* request a save; a terminal goes on to its next line.
Heard(s) ==
  /\ writer[s] # <<>> /\ ~busy[s] /\ heard < MaxHeard
  /\ heard' = heard + 1
  /\ writer' = [writer EXCEPT ![s][1].contacts = Append(@, heard + 1)]
  /\ busy' = [busy EXCEPT ![s] = shell[s] # "terminal"]
  /\ UNCHANGED <<shell, disk, births, orphaned>>

Handled(s) ==
  /\ writer[s] # <<>> /\ busy[s]
  /\ busy' = [busy EXCEPT ![s] = FALSE]

\* save_runtime at the end of a request: the whole adult, with whatever earlier
\* refusals have left in it, replaces the file.
Saves(s) ==
  /\ Handled(s)
  /\ disk' = [disk EXCEPT !.checkpoint = writer[s]]
  /\ UNCHANGED <<shell, writer, heard, births, orphaned>>

\* A refusal after the contact was lived, or an OSError of save_runtime: nothing
\* is undone in memory and nothing is saved.
Unsaved(s) ==
  /\ Handled(s)
  /\ UNCHANGED <<shell, writer, disk, heard, births, orphaned>>

Stopped(s) == busy' = [busy EXCEPT ![s] = FALSE]

\* Mutant of StopsFirst: the lock is released while the gateway ends by itself.
StopsFirstNever(s) == UNCHANGED writer

StopsFirst(s) == writer' = [writer EXCEPT ![s] = <<>>]

\* The client is done: the gateway is terminated, whatever it is at, and waited
\* for; then the lock is released.
EndSession(s) ==
  /\ shell[s] = "session"
  /\ StopsFirst(s) /\ Stopped(s) /\ Leaves(s)
  /\ UNCHANGED <<disk, heard, births, orphaned>>

\* The terminal's input ends, or an exception does: it saves, and ends with its lock.
EndTerminal(s) ==
  /\ shell[s] = "terminal"
  /\ disk' = [disk EXCEPT !.checkpoint = writer[s]]
  /\ writer' = [writer EXCEPT ![s] = <<>>] /\ Leaves(s)
  /\ UNCHANGED <<busy, heard, births, orphaned>>

\* The terminal is killed, or its save fails: all it has lived is gone.
KillTerminal(s) ==
  /\ shell[s] = "terminal"
  /\ writer' = [writer EXCEPT ![s] = <<>>] /\ Leaves(s)
  /\ UNCHANGED <<busy, disk, heard, births, orphaned>>

\* Killed, the launcher stops nothing.
KillLauncher(s) ==
  /\ shell[s] \in {"launcher", "session"}
  /\ orphaned' = (orphaned \/ shell[s] = "session")
  /\ Leaves(s)
  /\ UNCHANGED <<writer, busy, disk, heard, births>>

\* A gateway dies, its launcher's or one left behind, whatever it is at.
KillGateway(s) ==
  /\ shell[s] # "terminal" /\ writer[s] # <<>>
  /\ writer' = [writer EXCEPT ![s] = <<>>] /\ Stopped(s)
  /\ UNCHANGED <<shell, disk, heard, births, orphaned>>

-----------------------------------------------------------------------------
(* ./build: an adult and its provenance are kept, unless --reset-reference. *)

Build(s, reset) ==
  /\ reset \/ disk.checkpoint = <<>> \/ disk.provenance = <<>>
  /\ births < MaxBirths
  /\ Locks(s, "unlinking")
  /\ births' = births + 1
  /\ UNCHANGED <<writer, busy, disk, heard, orphaned>>

UnlinkCheckpoint(s) ==
  /\ shell[s] = "unlinking"
  /\ disk' = [disk EXCEPT !.checkpoint = <<>>]
  /\ shell' = [shell EXCEPT ![s] = "unlinked"]
  /\ UNCHANGED <<writer, busy, heard, births, orphaned>>

\* Mutant of Unlinked: the old provenance stays until the new one replaces it.
UnlinkedLater == disk

Unlinked == [disk EXCEPT !.provenance = <<>>]

UnlinkProvenance(s) ==
  /\ shell[s] = "unlinked"
  /\ disk' = Unlinked
  /\ shell' = [shell EXCEPT ![s] = "born"]
  /\ UNCHANGED <<writer, busy, heard, births, orphaned>>

\* The curriculum has been lived; checkpoint first, then provenance.
WriteCheckpoint(s) ==
  /\ shell[s] = "born"
  /\ disk' = [disk EXCEPT !.checkpoint = <<[birth |-> births, contacts |-> <<>>]>>]
  /\ shell' = [shell EXCEPT ![s] = "written"]
  /\ UNCHANGED <<writer, busy, heard, births, orphaned>>

WriteProvenance(s) ==
  /\ shell[s] = "written"
  /\ disk' = [disk EXCEPT !.provenance = <<births>>]
  /\ Leaves(s)
  /\ UNCHANGED <<writer, busy, heard, births, orphaned>>

KillBuild(s) ==
  /\ shell[s] \in {"unlinking", "unlinked", "born", "written"}
  /\ Leaves(s)
  /\ UNCHANGED <<writer, busy, disk, heard, births, orphaned>>

PublicNext ==
  \E s \in Shell :
    \/ Launch(s) \/ SpawnGateway(s) \/ BecomeTerminal(s)
    \/ Heard(s) \/ Saves(s) \/ Unsaved(s)
    \/ EndSession(s) \/ EndTerminal(s)
    \/ KillLauncher(s) \/ KillTerminal(s) \/ KillGateway(s)
    \/ Build(s, TRUE) \/ Build(s, FALSE)
    \/ UnlinkCheckpoint(s) \/ UnlinkProvenance(s) \/ WriteCheckpoint(s) \/ WriteProvenance(s)
    \/ KillBuild(s)

PublicSpec == PublicInit /\ [][PublicNext]_publicVars

-----------------------------------------------------------------------------
(* Properties.  A gateway that outlived its launcher breaks them: what the  *)
(* lock promises is promised of launchers.                                 *)

\* Until a launcher was killed, a live writer holds in memory the adult of the
\* file, and has lived all that the file holds and perhaps more: so a save, after
\* a request or at the end of a terminal, undoes no contact saved before, and no
\* build meets a session.
WriterExtendsSaved ==
  ~orphaned => \A s \in Shell : writer[s] # <<>> =>
    /\ disk.checkpoint # <<>>
    /\ writer[s][1].birth = disk.checkpoint[1].birth
    /\ IsPrefix(disk.checkpoint[1].contacts, writer[s][1].contacts)

\* Until then, provenance on disk is that of the adult on disk, if both are
\* there, whichever step a build was killed at: the pair a plain ./build keeps.
ProvenanceMatches ==
  ~orphaned /\ disk.checkpoint # <<>> /\ disk.provenance # <<>> =>
    disk.provenance[1] = disk.checkpoint[1].birth

=============================================================================
