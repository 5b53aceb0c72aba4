---------------------------- MODULE MCSqliteBack ----------------------------
\* Two titles, values of two supported types, and one of an unsupported type.
EXTENDS SqliteBack, TLC
CONSTANTS t1, t2
MCTitles == {t1, t2}
MCShapes == {<<"int">>, <<"str">>, <<"int", "str">>, <<"int", "odd">>}
Symmetry == Permutations(MCTitles)
=============================================================================
