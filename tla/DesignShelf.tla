------------------------------ MODULE DesignShelf ------------------------------
(***************************************************************************)
(* What design_system.py promises of the files it keeps under              *)
(* design-system/<project>/: a file appears at once and whole, and what is *)
(* there is replaced only by an agent that was told to.                    *)
(***************************************************************************)
CONSTANTS Paths, Agents, Absent, Earlier

VARIABLES
    shelf,      \* what each path holds
    forced      \* the agents that were told to overwrite

Design(who) == [by |-> who, whole |-> TRUE]

Init ==
    /\ shelf \in [Paths -> {Design(Earlier), Absent}]
    /\ forced \subseteq Agents

Put(a, p) ==
    /\ a \in forced \/ shelf[p] = Absent
    /\ shelf' = [shelf EXCEPT ![p] = Design(a)]
    /\ UNCHANGED forced

Next == \E a \in Agents, p \in Paths : Put(a, p)

Spec == Init /\ [][Next]_<<shelf, forced>>
=============================================================================
