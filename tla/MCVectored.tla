----------------------------- MODULE MCVectored -----------------------------
(* Small instances of VectoredInterface for TLC.                           *)
EXTENDS VectoredInterface, TLC

\* Single reads and writes, and a mixed transaction.
MixedShapes == {<<"GET">>, <<"SET">>, <<"SET", "GET">>}
\* A read and a write share the budget, so a flush wait can meet a read in flight.
FlushShapes == {<<"GET">>, <<"SET">>, <<"GET", "SET">>}
Symmetry == Permutations(Txn) \cup Permutations(Tag)
=============================================================================
