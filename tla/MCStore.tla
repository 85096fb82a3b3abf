------------------------------ MODULE MCStore ------------------------------
EXTENDS Store, TLC
MCPath == {"a", "b"}
MCTime == 1..2
MCBelow == {}
MCMoves == {<<"a", "b">>, <<"b","a">>}
MCRebase(d, n, p) == IF p = d THEN n ELSE p
=============================================================================
