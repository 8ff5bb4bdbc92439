------------------------------ MODULE MCTabTree ------------------------------
EXTENDS TabTree, TLC
MCSizes == {<<5, 5>>, <<7, 3>>}
MCStart == <<7, 3>>
Ask(dir, second, top) ==
    [dir |-> dir, second |-> second, top |-> top,
     portion |-> IF dir = Cols THEN "half" ELSE "cell"]
MCRequests == {Ask(Cols, TRUE, FALSE), Ask(Rows, FALSE, FALSE), Ask(Cols, FALSE, TRUE)}
MCSymmetry == Permutations(Pane)
=============================================================================
