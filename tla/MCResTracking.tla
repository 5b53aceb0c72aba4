--------------------------- MODULE MCResTracking ---------------------------
\* The resource objects with small quantities and few objects.
EXTENDS ResTracking, TLC
CONSTANTS q1, q2
MCQualities == {q1, q2}
Symmetry == Permutations(MCQualities)

\* Programs that follow decay over time, and programs that use copies.
MCPrograms ==
    {[decay |-> "lazy", stable |-> FALSE, copies |-> FALSE, rows |-> 6, time |-> 2],
     [decay |-> "manual", stable |-> TRUE, copies |-> TRUE, rows |-> 4, time |-> 0]}
=============================================================================
