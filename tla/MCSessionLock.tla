--------------------------- MODULE MCSessionLock ---------------------------
EXTENDS SessionLock

\* What the user began at the lock comes to an end: an unlock that is carried
\* by its first surface, and a password check.
LockConcludes == UnlockCompletes /\ CheckAnswered
=============================================================================
