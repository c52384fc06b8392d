----------------------------- MODULE MCStartup -----------------------------
(* A small instance of Startup. *)
EXTENDS Startup

CONSTANTS i1, i2

TwoInstances == {i1, i2}

\* The files 001 to 005: only 002 and 004 have statements that cannot be repeated.
OfTheFiles == {1, 3, 5}
=============================================================================
