------------------------------ MODULE PrivateMemory ------------------------------
(***************************************************************************)
(* What an address space promises: every process has a memory of its own,  *)
(* where an address holds what that process stored there last, and what it *)
(* was given, or zero, before that.                                        *)
(***************************************************************************)
CONSTANTS
  Process,    \* the processes
  Address,    \* the addresses they use
  Value,      \* what they store
  Given       \* Given[p][a]: what is there when the process starts

VARIABLE memory

Init == memory = [p \in Process |-> [a \in Address |-> Given[p][a]]]

Write(p, a, v) == memory' = [memory EXCEPT ![p][a] = v]

Next == \E p \in Process, a \in Address, v \in Value : Write(p, a, v)

Spec == Init /\ [][Next]_memory
==================================================================================
