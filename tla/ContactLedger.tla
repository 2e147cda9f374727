---------------------------- MODULE ContactLedger ----------------------------
(***************************************************************************)
(* What the rings of a resident adult promise their client, without rings, *)
(* streams or epochs: every admitted event is decided exactly once, in the *)
(* order of its admission, and under the name it was admitted with.        *)
(***************************************************************************)
EXTENDS Naturals, Sequences

CONSTANTS
  Ring,   \* the independent channels
  Fate    \* what may become of an event

VARIABLES
  admitted,  \* events admitted to each channel so far
  decided    \* [event, fate] in the order of decision

ledger == <<admitted, decided>>

Init ==
  /\ admitted = [r \in Ring |-> 0]
  /\ decided = [r \in Ring |-> <<>>]

\* The next n events of the channel, with their fates.
Batch(r, n) ==
  {[i \in 1 .. n |-> [event |-> Len(decided[r]) + i, fate |-> fate[i]]] :
     fate \in [1 .. n -> Fate]}

Admit(r) ==
  /\ admitted' = [admitted EXCEPT ![r] = @ + 1]
  /\ UNCHANGED decided

Decide(r) ==
  \E n \in 1 .. admitted[r] - Len(decided[r]) :
    \E batch \in Batch(r, n) :
      /\ decided' = [decided EXCEPT ![r] = @ \o batch]
      /\ UNCHANGED admitted

\* An event decided before its admission returns: nothing may wait before it.
DecideAtOnce(r) ==
  /\ admitted[r] = Len(decided[r])
  /\ admitted' = [admitted EXCEPT ![r] = @ + 1]
  /\ \E batch \in Batch(r, 1) : decided' = [decided EXCEPT ![r] = @ \o batch]

Next == \E r \in Ring : Admit(r) \/ Decide(r) \/ DecideAtOnce(r)

Spec == Init /\ [][Next]_ledger
=============================================================================
