--------------------------- MODULE MCLiveSession ---------------------------
EXTENDS LiveSession, TLC

\* Workers, requests and sessions are interchangeable.
Symmetry == Permutations(Workers) \cup Permutations(Clients) \cup Permutations(Sessions)
=============================================================================
