---------------------------- MODULE MCFaceSample ----------------------------
EXTENDS FaceSample, TLC

CONSTANTS r1, r2

\* A video job, which may be retried, beside a request with an image.
JobAndImage == r1 :> {"video"} @@ r2 :> {"enroll", "recognize"}
=============================================================================
