----------------------------- MODULE MCMessages -----------------------------
EXTENDS MessagesInv

\* Below, at, in and above the range of limits the server accepts.
MCRequested == {-1, 0, 1, 2, 3}
=============================================================================
