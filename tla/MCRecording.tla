----------------------------- MODULE MCRecording -----------------------------
(* Small instances of Recording for TLC. *)
EXTENDS Recording, TLC

CONSTANTS u1, u2, p1, p2, c1, c2

OneUrl   == {u1}
TwoUrls  == {u1, u2}
Pids     == {p1, p2}
Clients  == {c1, c2}
OneClient == {c1}
OnePid    == {p1}
ClientSymmetry == Permutations(Clients)
PidSymmetry    == Permutations(Pids)

\* A write that failed and a shutdown are followed one at a time.
UpOrWritten == phase = "up" \/ lost = {}

Symmetry       == ClientSymmetry \cup PidSymmetry
=============================================================================
