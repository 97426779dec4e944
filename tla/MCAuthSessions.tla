--------------------------- MODULE MCAuthSessions ---------------------------
\* An instance of AuthSessions for TLC.
EXTENDS AuthSessions, TLC

\* Registrations, requests and processes are alike.
Alike == Permutations(Registration) \cup Permutations(Request) \cup Permutations(Process)
=============================================================================
