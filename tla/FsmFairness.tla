----------------------------- MODULE FsmFairness -----------------------------
(***************************************************************************)
(* The fair states of every relation a client can assemble out of some     *)
(* transitions: the trans setter of fsm.py adds and masks transitions, and *)
(* the Emerson-Lei computation of BddFsm.c is compared with the definition *)
(* of fairness.                                                            *)
(***************************************************************************)
EXTENDS FsmImages

CONSTANT Edges    \* the transitions in play

ASSUME EdgesAssumption == Edges \subseteq Transition

VARIABLE trans

Init == trans = {}

\* fsm.trans = fsm.trans with a transition more, or less.
SetTrans(t) == trans' = t

Next == \E e \in Edges : SetTrans(trans \cup {e}) \/ SetTrans(trans \ {e})

Spec == Init /\ [][Next]_trans

-----------------------------------------------------------------------------
\* A pair survives the nested fixpoints exactly when it lies on or leads to a
\* cycle of legal steps that meets every justice constraint, whatever illegal
\* transitions and dead ends the relation has; the restriction to the
\* reachable states removes the others and no more (BddFsm.c:2724-3058).
FairnessIsMeant ==
    /\ FairStatesInputs(trans, State) = FairPairs(trans)
    /\ FairStatesInputs(trans, Reach(trans)) = Within(Reach(trans), FairPairs(trans))

=============================================================================
