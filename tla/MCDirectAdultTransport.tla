----------------------- MODULE MCDirectAdultTransport -----------------------
(* Small instances of DirectAdultTransport for TLC. *)
EXTENDS DirectAdultTransport

\* Two-slot rings: with more than two events both wrap.
MCCapacity == [r \in Ring |-> 2]

\* One-slot rings: every second admission waits for the reclaim frontier.
MCTightCapacity == [r \in Ring |-> 1]

\* Events admitted to each ring of an instance.
Events(i, c) == [r \in Ring |-> IF r = "ingress" THEN i ELSE c]
MCEvents11 == Events(1, 1)
MCEvents22 == Events(2, 2)
MCEvents33 == Events(3, 3)
MCEvents42 == Events(4, 2)
MCEvents44 == Events(4, 4)

=============================================================================
