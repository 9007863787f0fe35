--------------------------- MODULE MCIngestCircuit ---------------------------
\* Small instances of IngestCircuit for TLC.
EXTENDS IngestCircuit
=============================================================================
