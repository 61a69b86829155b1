----------------------------- MODULE MCService ------------------------------
(***************************************************************************)
(* Service for TLC.                                                        *)
(***************************************************************************)
EXTENDS Service, TLC

CONSTANTS e1, e2, e3

OneExt == {e1}
TwoExt == {e1, e2}
ThreeExt == {e1, e2, e3}
NoCallback == {FALSE}
WithCallback == {TRUE}
AnyCallback == {TRUE, FALSE}

Symmetry == Permutations(Ext)

=============================================================================
