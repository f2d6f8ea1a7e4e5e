----------------------------- MODULE MCFsmCache -----------------------------
(* FsmCache on four relations over five states: a chain that ends in a      *)
(* deadlock (its only ways on take a forbidden input or leave the invar), a *)
(* ring, a fork, and the empty relation.                                    *)
EXTENDS FsmCache

CONSTANTS s0, s1, s2, s3, out, a, b, forbidden, f1, f2

MCState == {s0, s1, s2, s3, out}
MCInput == {a, b, forbidden}
MCInitial == {s0, out}
MCInvar == {s0, s1, s2, s3}
MCInvarInput == {a, b}
MCJustice == {{s2, s3} \X MCInput, MCState \X {a}}

Chain == {<<s0, a, s1>>, <<s1, b, s2>>, <<s2, a, s3>>,
          <<s3, forbidden, s0>>, <<s3, a, out>>}
Ring == {<<s0, a, s1>>, <<s1, a, s2>>, <<s2, a, s0>>,
         <<s0, b, s3>>, <<s3, b, s3>>}
Fork == {<<s0, a, s1>>, <<s0, b, s2>>, <<s1, b, s1>>, <<s2, a, s2>>,
         <<s3, a, s3>>, <<out, a, s3>>}

MCModels == {Chain, Fork, {}}
MCReplacements == {Ring}
MCOverrides == {{s0, s1}}
MCBads == {{s3, out}, {s1, s2}}
MCFsm == {f1, f2}

=============================================================================
