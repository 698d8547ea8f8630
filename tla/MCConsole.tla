------------------------------ MODULE MCConsole ------------------------------
EXTENDS Console

\* The ids the clock may draw differ by nothing the console looks at.
Symmetry == Permutations(Ids)

=============================================================================
