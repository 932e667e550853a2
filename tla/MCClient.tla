------------------------------- MODULE MCClient -------------------------------
EXTENDS ClientInv
=============================================================================
