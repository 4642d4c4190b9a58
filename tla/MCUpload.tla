------------------------------ MODULE MCUpload ------------------------------
(* Small instances of Upload for TLC.                                      *)
EXTENDS Upload, TLC

CONSTANTS r1, r2

\* Every unit differs from the others, so that nothing moves unnoticed.
SomeBodies == {<<>>, <<1>>, <<1, 2, 3, 4>>}

SomeTargets ==
    {[hash |-> b, compression |-> "none"] : b \in SomeBodies}
    \cup {[hash |-> <<1>>, compression |-> "xz"]}
=============================================================================
