-------------------------- MODULE MCImageWorker --------------------------
EXTENDS ImageWorker, TLC
CONSTANTS c1, c2, c3, c4
Sizes == c1 :> 1 @@ c2 :> 2 @@ c3 :> 2 @@ c4 :> 0
Bad == {<<c1, 1>>}
Odd == {<<c2, 2>>}
=============================================================================
