--------------------------- MODULE MCComposition ---------------------------
\* A recipe that decays noticeably in one time step and one that needs two.
EXTENDS Composition
MCRecipes    == {"fast", "slow"}
MCNoticeable == [fast |-> 1, slow |-> 2]
=============================================================================
