----------------------------- MODULE MCSession -----------------------------
EXTENDS SessionProperties
=============================================================================
