----------------------------- MODULE MCArchive -----------------------------
EXTENDS Archive
MCHours == {0, 1}
MCNames == {1, 2}
MCTables == {1, 2}
=============================================================================
