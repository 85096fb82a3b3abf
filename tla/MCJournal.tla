------------------------------ MODULE MCJournal ------------------------------
EXTENDS Journal, TLC

(* The operations a journal holds; CHMOD, APPLY and VERSION are never issued. *)
Bits == <<"move", "write">>

NameSymmetry == Permutations(Name) \cup Permutations(Worker)
=============================================================================
