------------------------------- MODULE MCWindow -------------------------------
(* A window over lists of up to two roots and one target, to which more    *)
(* may be added.                                                           *)
EXTENDS Window, TLC

CONSTANTS r1, r2, t1

Rows(r, t) == ("roots" :> r) @@ ("targets" :> t)
MCStored == {Rows(<< >>, << >>), Rows(<<r1>>, <<t1>>), Rows(<<r1, r2>>, <<t1>>)}
=============================================================================
