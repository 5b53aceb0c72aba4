----------------------------- MODULE MCRecorder -----------------------------
\* The recorder with a few back ends and small dump counts.
EXTENDS Recorder, TLC
CONSTANTS b1, b2
MCBackends == {b1, b2}
Symmetry == Permutations(MCBackends)
=============================================================================
