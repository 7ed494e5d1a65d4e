------------------------------ MODULE MCTetris ------------------------------
(***************************************************************************)
(* Tetris on the lowest grid that has room for every shape.  A line and     *)
(* four squares fill two rows of eight with one landing while other squares *)
(* stay above them, a line standing upright ends the game, and the last     *)
(* block is a T that turns over whatever has been built.                    *)
(***************************************************************************)
EXTENDS Tetris

MCGroups == <<{2}, {4}, {4}, {4}, {4}, {3}>>

=============================================================================
