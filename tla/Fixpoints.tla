----------------------------- MODULE Fixpoints -------------------------------
(***************************************************************************)
(* pynusmv.utils.fixpoint, which every tool computes with (arctl has a     *)
(* copy of its own, _fp).                                                  *)
(***************************************************************************)

\* From start, until a round, a function on sets, changes nothing.
Fixpoint(round, start) ==
    LET Loop[old \in DOMAIN round] ==
            LET new == round[old] IN IF new = old THEN old ELSE Loop[new]
    IN Loop[start]

=============================================================================
