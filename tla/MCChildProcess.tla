--------------------------- MODULE MCChildProcess ---------------------------
\* Small instance of ChildProcess for TLC.
EXTENDS ChildProcess
=============================================================================
