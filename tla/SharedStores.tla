---------------------------- MODULE SharedStores ----------------------------
(***************************************************************************)
(* What the registry of informers promises to the evaluations: the first   *)
(* one of a target opens a store for it, and all that follow share that    *)
(* store for the life of the process, whoever runs them.  No store is      *)
(* opened for two targets, closed, or replaced.                            *)
(*                                                                         *)
(* InformerRefinement shows that InformerRegistry implements it.           *)
(***************************************************************************)
EXTENDS Naturals

CONSTANTS Workers, Keys

VARIABLES
    opened,     \* the store of a target, 0 as long as there is none
    target,     \* what a worker evaluates, or is going to
    read        \* the store it reads, 0 between evaluations

vars == <<opened, target, read>>

Init ==
    /\ opened = [k \in Keys |-> 0]
    /\ target \in [Workers -> Keys] /\ read = [w \in Workers |-> 0]

Choose(w, k) ==
    /\ read[w] = 0 /\ target' = [target EXCEPT ![w] = k]
    /\ UNCHANGED <<opened, read>>

\* An evaluation begins, on the store of its target.
Open(w) ==
    /\ read[w] = 0 /\ opened[target[w]] = 0
    /\ opened' = [opened EXCEPT ![target[w]] = read'[w]]
    /\ read'[w] # 0 /\ \A k \in Keys : opened[k] # read'[w]
    /\ read' = [read EXCEPT ![w] = read'[w]]
    /\ UNCHANGED target

Share(w) ==
    /\ read[w] = 0 /\ opened[target[w]] # 0
    /\ read' = [read EXCEPT ![w] = opened[target[w]]]
    /\ UNCHANGED <<opened, target>>

End(w) ==
    /\ read[w] # 0 /\ read' = [read EXCEPT ![w] = 0]
    /\ UNCHANGED <<opened, target>>

Next == \E w \in Workers : (\E k \in Keys : Choose(w, k)) \/ Open(w) \/ Share(w) \/ End(w)

Spec == Init /\ [][Next]_vars
=============================================================================
