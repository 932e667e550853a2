----------------------------- MODULE MCPresence -----------------------------
EXTENDS PresenceInv
=============================================================================
