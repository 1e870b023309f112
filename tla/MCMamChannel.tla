---------------------------- MODULE MCMamChannel ----------------------------
EXTENDS MamChannel, TLC
=============================================================================
