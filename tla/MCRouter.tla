------------------------------ MODULE MCRouter ------------------------------
(* Every pattern and subject of up to three tokens over two literals.       *)
EXTENDS Router

Literals == {<<"a">>, <<"b">>}
UpTo3(S) == UNION {[1..n -> S] : n \in 1..3}
AllPatterns == UpTo3(Literals \cup {Star, Rest})
AllSubjects == UpTo3(Literals)
=============================================================================
