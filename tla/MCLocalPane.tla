---------------------------- MODULE MCLocalPane ----------------------------
(* A pane under seven sets of bounds.  All of them at once make twenty times *)
(* as many states; each of these has the cases of one question.              *)
EXTENDS LocalPane

Scene(command, connecting, output, upsets) ==
    [command |-> command, connecting |-> connecting, output |-> output, upsets |-> upsets]

Output == {Scene(FALSE, FALSE, 2, 0), Scene(FALSE, FALSE, 1, 1)}
Connection == {Scene(FALSE, TRUE, 1, 1), Scene(FALSE, TRUE, 0, 2)}
Command == {Scene(TRUE, FALSE, 1, 0), Scene(TRUE, FALSE, 0, 1), Scene(TRUE, TRUE, 0, 1)}

Scenes == Output \cup Connection \cup Command
=============================================================================
