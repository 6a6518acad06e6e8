--------------------------- MODULE MCLiveIdentity ---------------------------
EXTENDS LiveIdentity, TLC

CONSTANTS t1, t2

\* One track goes through its epochs while another competes for the queues.
Evidences == t1 :> 4 @@ t2 :> 1

Symmetry == Permutations(Faces)
=============================================================================
