---------------------------- MODULE MCFreshStore ----------------------------
EXTENDS FreshStore, TLC
MCPath == {"d", "d/f", "e", "e/f"}
MCTime == 1..4
MCBelow == {<<"d", "d/f">>, <<"e", "e/f">>}
MCMoves == {<<"d", "e">>, <<"d/f", "e/f">>, <<"e/f", "d/f">>}
MCRebase(d, n, p) ==
  IF p = d THEN n ELSE IF p = "d/f" THEN "e/f" ELSE IF p = "e/f" THEN "d/f" ELSE p
=============================================================================
