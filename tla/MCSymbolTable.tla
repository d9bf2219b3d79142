---------------------------- MODULE MCSymbolTable ----------------------------
(* SymbolTableMachine on small sets, with names as strings so that a base  *)
(* name can itself look like a numbered one.                               *)
EXTENDS SymbolTableMachine, TLC

MCNumbered(base, n) == base \o ToString(n)
MCName == STRING

Symmetry == Permutations(Location)
=============================================================================
