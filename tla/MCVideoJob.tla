----------------------------- MODULE MCVideoJob -----------------------------
(* Small instances of VideoJob for TLC.                                    *)
EXTENDS VideoJob, TLC

=============================================================================
