---------------------------- MODULE MCAuthSessions ----------------------------
(* The instances of AuthSessions that TLC checks.                            *)
EXTENDS AuthSessions, TLC

\* Requests, session rows and links are interchangeable.
Symmetry == Permutations(Requests) \cup Permutations(Sessions) \cup Permutations(Links)
==============================================================================
