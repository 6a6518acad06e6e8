-------------------------- MODULE MCVideoUpload --------------------------
EXTENDS VideoUpload, TLC
CONSTANTS u1, u2
\* Parameters that each mode refuses, and some that are taken.
Asked ==
    {[mode |-> "none", n |-> n, fps |-> -1] : n \in {-1, 2}}
    \cup {[mode |-> "every_frame", n |-> -1, fps |-> 0]}
    \cup {[mode |-> "every_n_frames", n |-> n, fps |-> -1] : n \in {0, 3}}
    \cup {[mode |-> "frames_per_second", n |-> -1, fps |-> f] : f \in {0, 2, 6}}
=============================================================================
