------------------------------- MODULE MCLogger -------------------------------
(* Logger with numbers at the edges of an int, and interchangeable threads. *)
EXTENDS Logger, TLC

\* The smallest int; a last digit of zero; zero; a zero inside.
SomeNumbers == {-2147483647 - 1, -70, 0, 1009}

Symmetry == Permutations(Threads)
=============================================================================
