----------------------------- MODULE MCGuiMirror ------------------------------
(* Two attributes of two values.  One remote change and two local ones on    *)
(* its way are enough for echoes to be mistaken; a transaction needs two     *)
(* commands to be merged and a third to be joined.                           *)
EXTENDS GuiMirror

CONSTANTS gain, pan, low, high

Run(edits, undos, redos, saves, remotes, losses, alerts) ==
  [d \in Deeds |-> CASE d = "edits" -> edits [] d = "undos" -> undos
                     [] d = "redos" -> redos [] d = "saves" -> saves
                     [] d = "remotes" -> remotes [] d = "losses" -> losses
                     [] d = "alerts" -> alerts]

(* Echoes that cross with a remote change and with what undoes it; saves     *)
(* among commands that replace each other; undo and redo of merged commands; *)
(* and what is lost on the way or while the user is asked.                   *)
MCBudgets == {Run(2, 1, 0, 0, 1, 0, 0), Run(3, 0, 0, 1, 0, 0, 0), Run(3, 2, 1, 0, 0, 0, 0),
              Run(2, 0, 0, 0, 1, 1, 1), Run(2, 1, 1, 1, 0, 0, 0)}
=============================================================================
