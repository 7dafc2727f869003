----------------------------- MODULE MCSnapshot -----------------------------
EXTENDS Snapshot
=============================================================================
