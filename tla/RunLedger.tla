----------------------------- MODULE RunLedger -----------------------------
(***************************************************************************)
(* What the runs of a camera promise to everybody who reads them: runs are *)
(* numbered by generations, a run is open until it is closed, opening a    *)
(* run closes whatever was open before, and a closed run is never opened   *)
(* again.  LiveRun implements this ledger.                                 *)
(***************************************************************************)
EXTENDS Naturals

CONSTANT Cameras

VARIABLES
    newest,  \* the newest generation of each camera
    open     \* the generations of each camera that are open

Init ==
    /\ newest = [c \in Cameras |-> 0]
    /\ open = [c \in Cameras |-> {}]

OpenRun(c) ==
    /\ newest' = [newest EXCEPT ![c] = newest[c] + 1]
    /\ open' = [open EXCEPT ![c] = {newest[c] + 1}]

CloseRun(c) ==
    /\ open[c] # {}
    /\ open' = [open EXCEPT ![c] = {}]
    /\ UNCHANGED newest

Next == \E c \in Cameras : OpenRun(c) \/ CloseRun(c)

Spec == Init /\ [][Next]_<<newest, open>>
=============================================================================
