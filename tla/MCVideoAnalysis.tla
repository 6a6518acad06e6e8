------------------------- MODULE MCVideoAnalysis -------------------------
EXTENDS VideoAnalysis
CONSTANTS a, b
Seen1 == {{0}, {0, 4}}
Seen2 == {{2}, {0, 4}}
Seen3 == {{4}, {2, 4}, {0, 2, 4}}
Clips ==
    {[f \in 0..4 |-> IF f % 2 = 1 THEN {1, 2, 3}
                     ELSE {t \in {1, 2, 3} : f \in <<x, y, z>>[t]}]
        : x \in Seen1, y \in Seen2, z \in Seen3}
Likeness == << <<100, 96, 80>>, <<96, 100, 97>>, <<80, 97, 100>> >>
Matches == [i \in {a, b} |-> IF i = a THEN <<90, 80, 30>> ELSE <<80, 90, 60>>]
Weights == <<17, 21, 24>>
=============================================================================
