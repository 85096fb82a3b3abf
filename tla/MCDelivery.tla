----------------------------- MODULE MCDelivery -----------------------------
EXTENDS Delivery, TLC
\* A directory d with one file, renamed to e; the file d/f, renamed to e/f and
\* back: so two files, too, may be renamed into each other's places.
DirTime == 1..6
DirPath == {"d", "d/f", "e", "e/f"}
DirBelow == {<<"d", "d/f">>, <<"e", "e/f">>}
DirMoves == {<<"d", "e">>, <<"e/f", "d/f">>, <<"d/f", "e/f">>}
DirRebase(d, n, p) ==
  IF p = d THEN n ELSE IF p = "d/f" THEN "e/f" ELSE IF p = "e/f" THEN "d/f" ELSE p
=============================================================================
