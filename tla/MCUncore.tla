------------------------------ MODULE MCUncore ------------------------------
(***************************************************************************)
(* Small instances of UncoreController for TLC: a package of two dies and  *)
(* a package of one.                                                       *)
(***************************************************************************)
EXTENDS UncoreController

MCCPUs == {0, 1, 2}
MCPackages == [c \in MCCPUs |-> IF c = 2 THEN 1 ELSE 0]
MCDies == [c \in MCCPUs |-> IF c = 1 THEN 1 ELSE 0]

pair(a, b) == [min |-> a, max |-> b]
at(p, f) == [at |-> p, freq |-> f]

\* Frequencies for the host, a package and a die of it, not all of them steps.
Layered == [sys |-> pair(4, 5), dies |-> <<at(<<0, 1>>, pair(5, 6)), at(<<0>>, pair(2, 3))>>]
\* A package only.
OnePackage == [sys |-> Nil, dies |-> <<at(<<1>>, pair(5, 6))>>]
\* A package that the node does not have, frequencies it does not have.
Unfit == [sys |-> pair(1, 7), dies |-> <<at(<<9>>, pair(2, 4)), at(<<0, 0>>, pair(2, 2))>>]
Empty == [sys |-> Nil, dies |-> <<>>]

MCSpecs == {Layered, OnePackage, Unfit, Empty}

=============================================================================
