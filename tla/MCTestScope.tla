----------------------------- MODULE MCTestScope -----------------------------
(* Two subtests with two subtests each, one of which the filter excludes.  *)
EXTENDS TestScope

CONSTANTS a, b

SomeSelected == {<<a>>, <<b>>, <<a, b>>, <<b, a>>}
Symmetry == Permutations(Names)
=============================================================================
