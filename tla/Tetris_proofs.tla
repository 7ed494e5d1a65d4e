--------------------------- MODULE Tetris_proofs ---------------------------
(***************************************************************************)
(* The falling block stays on the grid and off the settled squares, the    *)
(* window shows both, and no settled square is lost or invented, for every *)
(* grid with room for a new block, every choice of shapes and colours and  *)
(* every number of blocks.                                                 *)
(***************************************************************************)
EXTENDS Tetris, FiniteSetTheorems, WellFoundedInduction, TLAPS

\* The squares of a shape lie at most three rows and columns from its block's
\* position, and there is one.
Small(shape) ==
  shape # {} /\ shape \subseteq (0 .. 3) \X (0 .. 3)

\* There are four groups (tetris.c 69-71).
LEMMA FourGroups == DOMAIN shape_grps = 1 .. 4
  <1>1. \A a, b, c, d : DOMAIN <<a, b, c, d>> = 1 .. 4
    OBVIOUS
  <1> QED
    BY <1>1 DEF shape_grps

\* The shapes are small and a group has at least one (tetris.c 9-71).
LEMMA Shapes ==
  \A g \in DOMAIN shape_grps :
    /\ Len(shape_grps[g]) \in Nat \ {0}
    /\ DOMAIN shape_grps[g] = 1 .. Len(shape_grps[g])
    /\ \A i \in DOMAIN shape_grps[g] : Small(shape_grps[g][i])
  <1> DEFINE Good(shapes) == /\ Len(shapes) \in Nat \ {0}
                           /\ DOMAIN shapes = 1 .. Len(shapes)
                           /\ \A i \in DOMAIN shapes : Small(shapes[i])
  <1>1. ASSUME NEW a, NEW b, NEW c, NEW d,
               Small(a), Small(b), Small(c), Small(d)
        PROVE  Good(<<a>>) /\ Good(<<a, b>>) /\ Good(<<a, b, c, d>>)
    <2>1. Good(<<a>>)
      BY <1>1
    <2>2. Good(<<a, b>>)
      BY <1>1
    <2>3. Good(<<a, b, c, d>>)
      BY <1>1
    <2> QED
      BY <2>1, <2>2, <2>3
  <1> HIDE DEF Good
  <1>3. Small({<<0, 0>>, <<0, 1>>, <<1, 1>>, <<1, 2>>})
    BY DEF Small
  <1>4. Small({<<0, 1>>, <<1, 1>>, <<1, 0>>, <<2, 0>>})
    BY DEF Small
  <1>5. Small({<<0, 0>>, <<1, 0>>, <<2, 0>>, <<3, 0>>})
    BY DEF Small
  <1>6. Small({<<0, 0>>, <<0, 1>>, <<0, 2>>, <<0, 3>>})
    BY DEF Small
  <1>7. Small({<<0, 1>>, <<1, 0>>, <<1, 1>>, <<1, 2>>})
    BY DEF Small
  <1>8. Small({<<0, 0>>, <<1, 0>>, <<1, 1>>, <<2, 0>>})
    BY DEF Small
  <1>9. Small({<<0, 0>>, <<0, 1>>, <<0, 2>>, <<1, 1>>})
    BY DEF Small
  <1>10. Small({<<0, 1>>, <<1, 0>>, <<1, 1>>, <<2, 1>>})
    BY DEF Small
  <1>11. Small({<<0, 0>>, <<0, 1>>, <<1, 0>>, <<1, 1>>})
    BY DEF Small
  <1>12. Good(<< {<<0, 0>>, <<0, 1>>, <<1, 1>>, <<1, 2>>},
                {<<0, 1>>, <<1, 1>>, <<1, 0>>, <<2, 0>>} >>)
    BY <1>1, <1>3, <1>4, Zenon
  <1>13. Good(<< {<<0, 0>>, <<1, 0>>, <<2, 0>>, <<3, 0>>},
                {<<0, 0>>, <<0, 1>>, <<0, 2>>, <<0, 3>>} >>)
    BY <1>1, <1>5, <1>6, Zenon
  <1>14. Good(<< {<<0, 1>>, <<1, 0>>, <<1, 1>>, <<1, 2>>},
                {<<0, 0>>, <<1, 0>>, <<1, 1>>, <<2, 0>>},
                {<<0, 0>>, <<0, 1>>, <<0, 2>>, <<1, 1>>},
                {<<0, 1>>, <<1, 0>>, <<1, 1>>, <<2, 1>>} >>)
    BY <1>1, <1>7, <1>8, <1>9, <1>10, Zenon
  <1>15. Good(<< {<<0, 0>>, <<0, 1>>, <<1, 0>>, <<1, 1>>} >>)
    BY <1>1, <1>11, Zenon
  <1>16. /\ DOMAIN shape_grps = 1 .. 4
        /\ Good(shape_grps[1]) /\ Good(shape_grps[2])
        /\ Good(shape_grps[3]) /\ Good(shape_grps[4])
    BY <1>12, <1>13, <1>14, <1>15 DEF shape_grps
  <1>17. \A g \in DOMAIN shape_grps : Good(shape_grps[g])
    BY <1>16
  <1> QED
    BY <1>17 DEF Good

\* A block that does not clash has all its squares on the grid, over unset
\* cells (is_block_clashing, tetris.c 146-164).
LEMMA ClearInside ==
  ASSUME NEW g, NEW b, ~is_block_clashing(g, b)
  PROVE  /\ Squares(b) \subseteq Rows \X Columns
         /\ \A p \in Squares(b) : g[p[1]][p[2]] = Unset
  <1>1. \A p \in Squares(b) : /\ p[1] \in Rows
                              /\ p[2] \in Columns
                              /\ g[p[1]][p[2]] = Unset
    BY DEF is_block_clashing
  <1>2. \A p \in Squares(b) : p = <<p[1], p[2]>>
    BY DEF Squares
  <1> QED
    BY <1>1, <1>2

-----------------------------------------------------------------------------
Block == [plotted : BOOLEAN, x_pos : Int, y_pos : Int, color : Colors \cup {Unset},
          shp : SUBSET ((0 .. 3) \X (0 .. 3)), grp : 0 .. 4]

\* b has the shape of one of its group's rotations.
Dealt(b) ==
  b.grp \in 1 .. 4 /\ \E i \in DOMAIN shape_grps[b.grp] : b.shp = shape_grps[b.grp][i]

\* The two properties with what makes them inductive: the block of a started
\* game is one new_block has dealt, and nothing settles before the first Enter.
IInv ==
  /\ blk \in Block
  /\ is_running \in BOOLEAN /\ started \in BOOLEAN /\ overrun \in BOOLEAN
  /\ BlockInside
  /\ NoOverlap
  /\ started => Dealt(blk)
  /\ ~started => grid = EmptyGrid

\* A dealt block has the shape of a block (tetris.c 9-71).
LEMMA DealtSmall ==
  ASSUME NEW b, Dealt(b)
  PROVE  Small(b.shp)
  BY Shapes, FourGroups DEF Dealt

\* new_block (tetris.c 220-233) puts its block on the grid.
LEMMA NewBlock ==
  ASSUME NEW old \in Block, NEW b \in new_block(old)
  PROVE  /\ b \in Block /\ Dealt(b)
         /\ Squares(b) \subseteq Rows \X Columns
  <1>1. /\ b.grp \in DOMAIN shape_grps /\ b.color \in Colors /\ b.plotted = old.plotted
        /\ b.x_pos = GRID_WIDTH \div 2 /\ b.y_pos = 0
        /\ b = [plotted |-> b.plotted, x_pos |-> b.x_pos, y_pos |-> b.y_pos,
                color |-> b.color, shp |-> b.shp, grp |-> b.grp]
    BY DEF new_block
  <1>2. Dealt(b)
    BY <1>1, FourGroups DEF new_block, Dealt
  <1>3. Small(b.shp)
    BY <1>2, DealtSmall
  <1>4. GRID_WIDTH \div 2 \in Nat
    BY GridAssumption
  <1>5. b.shp \in SUBSET ((0 .. 3) \X (0 .. 3))
    BY <1>3 DEF Small
  <1>6. b.plotted \in BOOLEAN
    BY <1>1 DEF Block
  <1>7. b \in Block
    BY <1>1, <1>4, <1>5, <1>6, FourGroups DEF Block
  <1>8. Squares(b) \subseteq Rows \X Columns
    <2>1. SUFFICES ASSUME NEW p \in b.shp
                   PROVE  <<b.y_pos + p[1], b.x_pos + p[2]>> \in Rows \X Columns
      BY DEF Squares
    <2>2. p[1] \in 0 .. 3 /\ p[2] \in 0 .. 3
      BY <1>3 DEF Small
    <2>3. b.y_pos + p[1] \in Rows
      BY <1>1, <2>2, GridAssumption DEF Rows
    <2>4. b.x_pos + p[2] \in Columns
      BY <1>1, <1>4, <2>2, GridAssumption DEF Columns
    <2> QED
      BY <2>3, <2>4
  <1> QED
    BY <1>2, <1>7, <1>8

\* A block on the grid does not clash with an empty one.
LEMMA EmptyClear ==
  ASSUME NEW b, Squares(b) \subseteq Rows \X Columns
  PROVE  ~is_block_clashing(EmptyGrid, b)
  BY DEF is_block_clashing, EmptyGrid

\* rotate_block (tetris.c 125-144) goes on to another shape of the group.
LEMMA Rotated ==
  ASSUME NEW b \in Block, Dealt(b)
  PROVE  rotate_block(b) \in Block /\ Dealt(rotate_block(b))
  <1> DEFINE shapes == shape_grps[b.grp]
             current == CHOOSE i \in DOMAIN shapes : shapes[i] = b.shp
             next == (current % Len(shapes)) + 1
  <1>1. /\ Len(shapes) \in Nat \ {0} /\ DOMAIN shapes = 1 .. Len(shapes)
        /\ \A i \in DOMAIN shapes : Small(shapes[i])
    BY Shapes, FourGroups DEF Dealt
  <1>2. current \in DOMAIN shapes
    BY DEF Dealt
  <1>3. next \in DOMAIN shapes
    <2> HIDE DEF current, shapes
    <2> QED
      BY <1>1, <1>2
  <1>4. rotate_block(b) = [b EXCEPT !.shp = shapes[next]]
    BY DEF rotate_block
  <1>5. shapes[next] \in SUBSET ((0 .. 3) \X (0 .. 3))
    <2>1. Small(shapes[next])
      BY <1>1, <1>3, Zenon
    <2> QED
      BY <2>1, Zenon DEF Small
  <1> HIDE DEF next
  <1>6. rotate_block(b) \in Block
    BY <1>4, <1>5 DEF Block
  <1>7. rotate_block(b).grp = b.grp /\ rotate_block(b).shp = shapes[next]
    BY <1>4 DEF Block
  <1> QED
    BY <1>3, <1>6, <1>7 DEF Dealt

\* plot_block (tetris.c 108-113) changes nothing but the flag.
LEMMA Plotted ==
  ASSUME NEW b \in Block, NEW c, c = [b EXCEPT !.plotted = TRUE]
  PROVE  /\ c \in Block /\ Squares(c) = Squares(b) /\ c.shp = b.shp
         /\ Dealt(b) => Dealt(c)
         /\ \A g : is_block_clashing(g, c) <=> is_block_clashing(g, b)
  <1>1. c \in Block
    BY Zenon DEF Block
  <1>2. /\ c.shp = b.shp /\ c.grp = b.grp
        /\ c.x_pos = b.x_pos /\ c.y_pos = b.y_pos
    BY DEF Block
  <1>3. Squares(c) = Squares(b)
    BY <1>2 DEF Squares
  <1>4. Dealt(b) => Dealt(c)
    BY <1>2 DEF Dealt
  <1>5. \A g : is_block_clashing(g, c) <=> is_block_clashing(g, b)
    BY <1>3, Zenon DEF is_block_clashing
  <1> QED
    BY <1>1, <1>2, <1>3, <1>4, <1>5, Zenon

-----------------------------------------------------------------------------
\* A move that is_block_clashing admits (tetris.c 234-306).
LEMMA MoveKeeps ==
  ASSUME IInv, NEW moved \in Block, Dealt(moved), Move(moved)
  PROVE  IInv'
  <1>1. ~is_block_clashing(grid, moved) /\ blk' = [moved EXCEPT !.plotted = TRUE]
    BY DEF Move
  <1>2. UNCHANGED <<grid, is_running, started, overrun>>
    BY DEF Move
  <1>3. /\ blk' \in Block /\ Dealt(blk') /\ Squares(blk') = Squares(moved)
        /\ blk'.shp = moved.shp /\ ~is_block_clashing(grid, blk')
    BY <1>1, Plotted
  <1>4. Squares(blk') \subseteq Rows \X Columns
    BY <1>1, <1>3, ClearInside
  <1>5. blk'.shp # {}
    BY <1>3, DealtSmall DEF Small
  <1>6. BlockInside'
    BY <1>2, <1>4, <1>5 DEF IInv, BlockInside, Squares, Rows, Columns
  <1>7. NoOverlap'
    BY <1>2, <1>3 DEF NoOverlap, is_block_clashing, Squares, Rows, Columns
  <1>8. (started => Dealt(blk))'
    BY <1>3 DEF Dealt, shape_grps
  <1> QED
    BY <1>2, <1>3, <1>6, <1>7, <1>8 DEF IInv, EmptyGrid, Rows, Columns, Block, Unset

\* What the steps that deal a block have in common.
LEMMA DealKeeps ==
  ASSUME IInv, NEW b \in new_block(blk), blk' = b \/ blk' = [b EXCEPT !.plotted = TRUE],
         started' \in BOOLEAN, is_running' \in BOOLEAN, overrun' \in BOOLEAN, started',
         is_running' /\ ~overrun' => ~is_block_clashing(grid', b)
  PROVE  IInv'
  <1>1. blk \in Block
    BY DEF IInv
  <1>2. /\ b \in Block /\ Dealt(b) /\ Squares(b) \subseteq Rows \X Columns
    BY <1>1, NewBlock
  <1>3. /\ blk' \in Block /\ Dealt(blk') /\ Squares(blk') = Squares(b)
        /\ is_running' /\ ~overrun' => ~is_block_clashing(grid', blk')
    BY <1>2, Plotted
  <1>4. blk'.shp # {}
    BY <1>3, DealtSmall DEF Small
  <1>5. BlockInside'
    BY <1>2, <1>3, <1>4 DEF BlockInside, Squares, Rows, Columns
  <1>6. NoOverlap'
    BY <1>3 DEF NoOverlap, is_block_clashing, Squares, Rows, Columns
  <1>7. (started => Dealt(blk))'
    BY <1>3 DEF Dealt, shape_grps
  <1> QED
    BY <1>3, <1>5, <1>6, <1>7 DEF IInv, Block, Unset

\* A block that lands and the next one (tetris.c 260-270).
LEMMA LandKeeps ==
  ASSUME IInv, Land
  PROVE  IInv'
  <1> DEFINE purged == purge_grid(finalize_block(grid, blk))
  <1>1. /\ is_running /\ grid' = purged /\ UNCHANGED <<started, overrun>>
        /\ \E b \in new_block(blk) :
             IF is_block_clashing(grid', b)
             THEN blk' = b /\ is_running' = FALSE
             ELSE blk' = [b EXCEPT !.plotted = TRUE] /\ is_running' = TRUE
    BY DEF Land
  <1>2. started' /\ started' \in BOOLEAN /\ overrun' \in BOOLEAN
    BY <1>1 DEF IInv, BlockInside
  <1> HIDE DEF purged
  <1>3. PICK b \in new_block(blk) :
             IF is_block_clashing(grid', b)
             THEN blk' = b /\ is_running' = FALSE
             ELSE blk' = [b EXCEPT !.plotted = TRUE] /\ is_running' = TRUE
    BY <1>1
  <1>4. CASE is_block_clashing(grid', b)
    BY <1>2, <1>3, <1>4, DealKeeps, Zenon
  <1>5. CASE ~is_block_clashing(grid', b)
    BY <1>1, <1>2, <1>3, <1>5, DealKeeps
  <1> QED
    BY <1>4, <1>5

\* Enter (tetris.c 341-353): the first one, and the ones that suspend and
\* resume, after the end of a game included.
LEMMA StartKeeps ==
  ASSUME IInv, tetris_start
  PROVE  IInv'
  <1>1. /\ started' = TRUE /\ is_running' = ~is_running /\ grid' = grid
        /\ overrun' = (overrun \/ (started /\ ~is_running /\ is_block_clashing(grid, blk)))
    BY DEF tetris_start
  <1>2. is_running' \in BOOLEAN /\ overrun' \in BOOLEAN
    BY <1>1
  <1>3. CASE ~started
    <2>1. PICK b \in new_block(blk) : blk' = b
      BY <1>3 DEF tetris_start
    <2>2. grid' = EmptyGrid
      BY <1>1, <1>3 DEF IInv
    <2>3. Squares(b) \subseteq Rows \X Columns
      BY NewBlock DEF IInv
    <2>4. ~is_block_clashing(grid', b)
      BY <2>2, <2>3, EmptyClear
    <2> QED
      BY <1>1, <1>2, <2>1, <2>4, DealKeeps
  <1>4. CASE started
    <2>1. blk' = blk
      BY <1>4 DEF tetris_start
    <2>2. BlockInside'
      BY <1>1, <1>4, <2>1 DEF IInv, BlockInside, Squares, Rows, Columns
    <2>3. NoOverlap'
      BY <1>1, <1>4, <2>1, Zenon DEF NoOverlap, is_block_clashing, Squares, Rows, Columns
    <2>4. (started => Dealt(blk))'
      BY <1>4, <2>1 DEF IInv, Dealt, shape_grps
    <2> QED
      BY <1>1, <1>2, <2>1, <2>2, <2>3, <2>4 DEF IInv, Block, Unset
  <1>5. started \in BOOLEAN
    BY DEF IInv
  <1> QED
    BY <1>3, <1>4, <1>5

\* Ctrl-R (tetris.c 355-365).
LEMMA ResetKeeps ==
  ASSUME IInv, tetris_reset
  PROVE  IInv'
  <1>1. /\ started /\ UNCHANGED started /\ grid' = EmptyGrid
        /\ is_running' = TRUE /\ overrun' = FALSE
    BY DEF tetris_reset
  <1>2. PICK b \in new_block(blk) : blk' = b
    BY DEF tetris_reset
  <1>3. Squares(b) \subseteq Rows \X Columns
    BY NewBlock DEF IInv
  <1>4. ~is_block_clashing(grid', b)
    BY <1>1, <1>3, EmptyClear
  <1>5. started' /\ started' \in BOOLEAN
    BY <1>1 DEF IInv
  <1> QED
    BY <1>1, <1>2, <1>4, <1>5, DealKeeps, Zenon

\* A step that leaves the game alone.
LEMMA OtherKeeps ==
  ASSUME IInv, UNCHANGED <<grid, blk, is_running, started, overrun>>
  PROVE  IInv'
  <1>1. /\ grid' = grid /\ blk' = blk /\ overrun' = overrun
        /\ is_running' = is_running /\ started' = started
    OBVIOUS
  <1>2. BlockInside'
    BY <1>1, SMTT(60) DEF IInv, BlockInside, Squares, Rows, Columns
  <1>3. NoOverlap'
    BY <1>1, SMTT(60) DEF IInv, NoOverlap, is_block_clashing, Squares, Rows, Columns, Unset
  <1>4. blk' \in Block
    BY <1>1, SMTT(60) DEF IInv, Block
  <1>5. (started => Dealt(blk))'
    <2>1. started' => Dealt(blk')
      BY <1>1 DEF IInv
    <2>. QED
      BY <2>1 DEF Dealt, shape_grps
  <1>6. ~started' => grid' = EmptyGrid'
    BY <1>1, SMTT(60) DEF IInv, EmptyGrid, Rows, Columns, Unset
  <1> QED
    BY <1>1, <1>2, <1>3, <1>4, <1>5, <1>6 DEF IInv

\* The four moves: down, left, right and the rotation (tetris.c 234-306).
LEMMA MovesKeep ==
  ASSUME IInv,
         \/ Move([blk EXCEPT !.y_pos = @ + 1]) \/ Move([blk EXCEPT !.x_pos = @ - 1])
         \/ Move([blk EXCEPT !.x_pos = @ + 1]) \/ Move(rotate_block(blk))
  PROVE  IInv'
  <1>1. is_running
    BY DEF Move
  <1>2. blk \in Block /\ Dealt(blk)
    BY <1>1 DEF IInv, BlockInside
  <1>3. CASE Move([blk EXCEPT !.y_pos = @ + 1])
    <2> DEFINE moved == [blk EXCEPT !.y_pos = @ + 1]
    <2>1. moved \in Block /\ moved.grp = blk.grp /\ moved.shp = blk.shp
      BY <1>2 DEF Block
    <2>2. Dealt(moved)
      BY <1>2, <2>1 DEF Dealt
    <2> QED
      BY <1>3, <2>1, <2>2, MoveKeeps
  <1>4. CASE Move([blk EXCEPT !.x_pos = @ - 1])
    <2> DEFINE moved == [blk EXCEPT !.x_pos = @ - 1]
    <2>1. moved \in Block /\ moved.grp = blk.grp /\ moved.shp = blk.shp
      BY <1>2 DEF Block
    <2>2. Dealt(moved)
      BY <1>2, <2>1 DEF Dealt
    <2> QED
      BY <1>4, <2>1, <2>2, MoveKeeps
  <1>5. CASE Move([blk EXCEPT !.x_pos = @ + 1])
    <2> DEFINE moved == [blk EXCEPT !.x_pos = @ + 1]
    <2>1. moved \in Block /\ moved.grp = blk.grp /\ moved.shp = blk.shp
      BY <1>2 DEF Block
    <2>2. Dealt(moved)
      BY <1>2, <2>1 DEF Dealt
    <2> QED
      BY <1>5, <2>1, <2>2, MoveKeeps
  <1>6. CASE Move(rotate_block(blk))
    BY <1>2, <1>6, Rotated, MoveKeeps
  <1> QED
    BY <1>3, <1>4, <1>5, <1>6

\* The inductive invariant holds in every game (tetris.c, guest/keyboard.c
\* 25-64 and guest/timer.c 11-27), on every grid with room for a new block.
THEOREM Invariance == Spec => []IInv
  <1>1. Init => IInv
    <2> SUFFICES ASSUME Init PROVE IInv
      OBVIOUS
    <2>1. blk = NoBlock /\ is_running = FALSE /\ started = FALSE /\ overrun = FALSE
      BY DEF Init
    <2>2. NoBlock \in Block
      BY DEF NoBlock, Block
    <2> QED
      BY <2>1, <2>2, Zenon DEF Init, IInv, BlockInside, NoOverlap
  <1>2. IInv /\ [Next]_vars => IInv'
    <2> SUFFICES ASSUME IInv, [Next]_vars PROVE IInv'
      OBVIOUS
    <2>1. CASE tetris_start
      BY <2>1, StartKeeps
    <2>2. CASE tetris_reset
      BY <2>2, ResetKeeps
    <2>3. CASE \E down \in BOOLEAN : CtrlKey(down)
      BY <2>3, OtherKeeps DEF CtrlKey
    <2>4. CASE on_key_arrow_down
      BY <2>4, LandKeeps, MovesKeep DEF on_key_arrow_down
    <2>5. CASE on_key_arrow_left
      BY <2>5, MovesKeep DEF on_key_arrow_left
    <2>6. CASE on_key_arrow_right
      BY <2>6, MovesKeep DEF on_key_arrow_right
    <2>7. CASE on_key_blank
      BY <2>7, MovesKeep DEF on_key_blank
    <2>8. CASE UNCHANGED vars
      BY <2>8, OtherKeeps DEF vars
    <2> QED
      BY <2>1, <2>2, <2>3, <2>4, <2>5, <2>6, <2>7, <2>8
         DEF Next, keyboard_interrupt_handler, timer_interrupt_handler
  <1> QED
    BY <1>1, <1>2, PTL DEF Spec

\* The block of a started game lies on the grid, so grid[y][x] is never indexed
\* outside the array by finalize_block (tetris.c 166-178).
THEOREM Inside == Spec => []BlockInside
  <1>1. IInv => BlockInside
    BY DEF IInv
  <1> QED
    BY <1>1, Invariance, PTL

\* Short of a game resumed after its end, the block of a running game is never
\* over a settled square, so landing never paints over one (tetris.c 252-276).
THEOREM Apart == Spec => []NoOverlap
  <1>1. IInv => NoOverlap
    BY DEF IInv
  <1> QED
    BY <1>1, Invariance, PTL

-----------------------------------------------------------------------------
(* What purge_grid does.                                                   *)

\* A set of natural numbers that has an element has a least one.
LEMMA Least ==
  ASSUME NEW T, T \subseteq Nat, T # {}
  PROVE  \E x \in T : \A y \in T : x <= y
  <1> DEFINE R == OpToRel(<, Nat)
  <1>1. IsWellFoundedOn(R, Nat)
    BY NatLessThanWellFounded, Zenon
  <1>2. \A x, y \in Nat : <<x, y>> \in R <=> x < y
    BY Zenon DEF OpToRel
  <1> HIDE DEF R
  <1>3. PICK x \in T : \A y \in T : ~(<<y, x>> \in R)
    BY <1>1, WFMin, Zenon
  <1>4. \A y \in T : ~(y < x)
    BY <1>2, <1>3, Zenon
  <1>. QED
    BY <1>4

\* T has 0, and with each number below n the next.
Climbs(T, n) == 0 \in T /\ \A i \in 0 .. n - 1 : i \in T => i + 1 \in T

LEMMA Climb ==
  ASSUME NEW n \in Nat, NEW T, Climbs(T, n), NEW j \in 0 .. n
  PROVE  j \in T
  <1> DEFINE U == {i \in 0 .. n : i \notin T}
  <1> SUFFICES ASSUME j \notin T PROVE FALSE
    OBVIOUS
  <1>1. U \subseteq Nat /\ U # {}
    OBVIOUS
  <1>2. PICK x \in U : \A y \in U : x <= y
    <2> HIDE DEF U
    <2>. QED
      BY <1>1, Least, Zenon
  <1>3. x # 0
    BY DEF Climbs
  <1>4. x - 1 \in 0 .. n - 1 /\ x - 1 \notin U /\ x - 1 + 1 = x
    BY <1>2, <1>3
  <1>. QED
    BY <1>4 DEF Climbs

\* What the loops compute turn by turn: g[i] is the value after turn i.
Run(g, m, x, step, S) ==
  /\ g \in [0 .. m -> S]
  /\ g[0] = x
  /\ \A i \in 1 .. m : g[i] = step[i][g[i - 1]]

\* A loop of n turns has a run.
LEMMA Runs ==
  ASSUME NEW n \in Nat, NEW S, NEW x \in S, NEW step \in [1 .. n -> [S -> S]]
  PROVE  \E g : Run(g, n, x, step, S)
  <1> DEFINE T == {m \in 0 .. n : \E g : Run(g, m, x, step, S)}
  <1>1. 0 \in T
    <2>1. Run([i \in 0 .. 0 |-> x], 0, x, step, S)
      BY DEF Run
    <2>. QED
      BY <2>1
  <1>2. ASSUME NEW m \in 0 .. n - 1, m \in T
        PROVE  m + 1 \in T
    <2>1. PICK g : Run(g, m, x, step, S)
      BY <1>2, Zenon
    <2> DEFINE h == [i \in 0 .. m + 1 |-> IF i = m + 1 THEN step[m + 1][g[m]] ELSE g[i]]
    <2>2. m \in 0 .. m /\ m + 1 \in 1 .. n /\ m + 1 \in 0 .. m + 1
      OBVIOUS
    <2>3. g[m] \in S /\ step[m + 1][g[m]] \in S
      BY <2>1, <2>2, Zenon DEF Run
    <2>4. h \in [0 .. m + 1 -> S]
      <3>1. \A i \in 0 .. m + 1 : i = m + 1 \/ i \in 0 .. m
        OBVIOUS
      <3>. QED
        BY <2>1, <2>3, <3>1, Zenon DEF Run
    <2>5. h[0] = x /\ h[m + 1] = step[m + 1][g[m]] /\ \A i \in 0 .. m : h[i] = g[i]
      BY <2>1 DEF Run
    <2> HIDE DEF h
    <2>6. ASSUME NEW i \in 1 .. m + 1 PROVE h[i] = step[i][h[i - 1]]
      <3>1. CASE i = m + 1
        BY <2>2, <2>5, <3>1
      <3>2. CASE i # m + 1
        <4>1. i \in 1 .. m /\ i \in 0 .. m /\ i - 1 \in 0 .. m
          BY <3>2
        <4>. QED
          BY <2>1, <2>5, <4>1, Zenon DEF Run
      <3>. QED
        BY <3>1, <3>2, Zenon
    <2>7. Run(h, m + 1, x, step, S)
      BY <2>4, <2>5, <2>6, Zenon DEF Run
    <2>. QED
      BY <2>2, <2>7
  <1>3. Climbs(T, n)
    <2> HIDE DEF T
    <2>. QED
      BY <1>1, <1>2, Zenon DEF Climbs
  <1> HIDE DEF T
  <1>4. n \in T
    BY <1>3, Climb
  <1>. QED
    BY <1>4, Zenon DEF T


-----------------------------------------------------------------------------
\* s lists the numbers of S, each once.
Lists(s, S) ==
  /\ s \in Seq(Int)
  /\ \A k \in 1 .. Len(s) : s[k] \in S
  /\ \A y \in S : \E k \in 1 .. Len(s) : s[k] = y
  /\ \A j, k \in 1 .. Len(s) : s[j] = s[k] => j = k

\* Listing one number more.
LEMMA ListsOneMore ==
  ASSUME NEW s, NEW S, Lists(s, S), NEW y \in Int, y \notin S
  PROVE  Lists(s \o <<y>>, S \cup {y})
  <1> DEFINE t == s \o <<y>>
  <1>1. s \in Seq(Int) /\ Len(s) \in Nat
    BY DEF Lists
  <1>2. /\ t \in Seq(Int) /\ Len(t) = Len(s) + 1
        /\ t[Len(s) + 1] = y
        /\ \A k \in 1 .. Len(s) : t[k] = s[k]
    BY <1>1
  <1> HIDE DEF t
  <1>3. \A k \in 1 .. Len(t) : k \in 1 .. Len(s) \/ k = Len(s) + 1
    BY <1>1, <1>2
  <1>4. \A k \in 1 .. Len(s) : k \in 1 .. Len(t)
    BY <1>1, <1>2
  <1>5. Len(s) + 1 \in 1 .. Len(t)
    BY <1>1, <1>2
  <1>6. \A k \in 1 .. Len(t) : t[k] \in S \cup {y}
    BY <1>2, <1>3, Zenon DEF Lists
  <1>7. \A z \in S \cup {y} : \E k \in 1 .. Len(t) : t[k] = z
    BY <1>2, <1>4, <1>5, Zenon DEF Lists
  <1>8. \A k \in 1 .. Len(s) : t[k] \in S
    BY <1>2, Zenon DEF Lists
  <1>9. \A j, k \in 1 .. Len(t) : t[j] = t[k] => j = k
    BY <1>2, <1>3, <1>8, Zenon DEF Lists
  <1>. QED
    BY <1>2, <1>6, <1>7, <1>9, Zenon DEF Lists, t

\* The rows with a gap, and those among the lowest n.
Gaps(g) == {y \in Rows : ~FullRow(g, y)}
LowGaps(g, n) == {y \in Gaps(g) : y >= GRID_HEIGHT - n}

\* One turn of the loop of purge_grid that collects rows_left.
LEMMA Turn ==
  ASSUME NEW g, NEW n \in 1 .. GRID_HEIGHT, NEW s, Lists(s, LowGaps(g, n - 1))
  PROVE  Lists(s \o Gathered(g, GRID_HEIGHT - n), LowGaps(g, n))
  <1> DEFINE y == GRID_HEIGHT - n
  <1>1. y \in Rows /\ y \in Int /\ y >= GRID_HEIGHT - n /\ ~(y >= GRID_HEIGHT - (n - 1))
    BY GridAssumption DEF Rows
  <1>2. \A z \in Rows : z >= GRID_HEIGHT - n <=> (z = y \/ z >= GRID_HEIGHT - (n - 1))
    BY GridAssumption DEF Rows
  <1> HIDE DEF y
  <1>3. CASE FullRow(g, y)
    <2>1. LowGaps(g, n) = LowGaps(g, n - 1)
      BY <1>2, <1>3, Zenon DEF LowGaps, Gaps
    <2>2. Gathered(g, y) = <<>>
      BY <1>3, Zenon DEF Gathered
    <2>3. s \o <<>> = s
      BY DEF Lists
    <2>. QED
      BY <2>1, <2>2, <2>3, Zenon DEF y
  <1>4. CASE ~FullRow(g, y)
    <2>1. LowGaps(g, n) = LowGaps(g, n - 1) \cup {y}
      BY <1>1, <1>2, <1>4, Zenon DEF LowGaps, Gaps
    <2>2. Gathered(g, y) = <<y>>
      BY <1>4, Zenon DEF Gathered
    <2>3. y \notin LowGaps(g, n - 1)
      BY <1>1, Zenon DEF LowGaps
    <2>. QED
      <3>1. Lists(s \o <<y>>, LowGaps(g, n - 1) \cup {y})
        BY <1>1, <2>3, ListsOneMore, Zenon
      <3>. QED
        BY <2>1, <2>2, <3>1, Zenon DEF y
  <1>. QED
    BY <1>3, <1>4, Zenon

\* rows_left holds the rows with a gap, each once (tetris.c 188-198).
LEMMA RowsLeftLists ==
  ASSUME NEW g
  PROVE  Lists(RowsLeft(g), Gaps(g))
  <1> DEFINE h == GRID_HEIGHT
             S == Seq(Int)
             add == [i \in 1 .. h |-> Gathered(g, GRID_HEIGHT - i)]
             step == [i \in 1 .. h |-> [s \in S |-> s \o add[i]]]
             Eq(f) == f = [n \in 0 .. GRID_HEIGHT |->
                             IF n = 0 THEN <<>>
                             ELSE f[n - 1] \o Gathered(g, GRID_HEIGHT - n)]
             turn == CHOOSE f : Eq(f)
  <1>0. h \in Nat
    BY GridAssumption
  <1>1. \A i \in 1 .. h : add[i] \in S
    <2>1. \A i \in 1 .. h : GRID_HEIGHT - i \in Int
      BY <1>0
    <2>2. <<>> \in Seq(Int) /\ \A y \in Int : <<y>> \in Seq(Int)
      OBVIOUS
    <2>3. \A i \in 1 .. h : Gathered(g, GRID_HEIGHT - i) \in Seq(Int)
      BY <2>1, <2>2, Zenon DEF Gathered
    <2>. QED
      BY <2>3, Zenon
  <1>2. step \in [1 .. h -> [S -> S]]
    <2>1. \A s, t \in S : s \o t \in S
      OBVIOUS
    <2> HIDE DEF S, add, h
    <2>. QED
      BY <1>1, <2>1, Zenon
  <1>3. \E f : Eq(f)
    <2>1. PICK f : Run(f, h, <<>>, step, S)
      <3>1. <<>> \in S
        OBVIOUS
      <3> HIDE DEF S, step, h
      <3>. QED
        BY <1>0, <1>2, <3>1, Runs, Zenon
    <2>2. \A i \in 1 .. h : i - 1 \in 0 .. h
      BY <1>0
    <2>3. \A i \in 1 .. h : f[i] = f[i - 1] \o Gathered(g, GRID_HEIGHT - i)
      <3>1. \A i \in 1 .. h : f[i - 1] \in S /\ f[i] = step[i][f[i - 1]]
        BY <2>1, <2>2, Zenon DEF Run
      <3> HIDE DEF S, h
      <3>. QED
        BY <3>1, Zenon
    <2>4. \A i \in 0 .. h : i # 0 => i \in 1 .. h
      BY <1>0
    <2>5. \A i \in 0 .. h : f[i] = IF i = 0 THEN <<>>
                                   ELSE f[i - 1] \o Gathered(g, GRID_HEIGHT - i)
      BY <2>1, <2>3, <2>4, Zenon DEF Run
    <2>. QED
      BY <2>1, <2>5, Zenon DEF Run
  <1>4. Eq(turn)
    BY <1>3, Zenon
  <1>5. RowsLeft(g) = turn[GRID_HEIGHT]
    BY Zenon DEF RowsLeft
  <1> HIDE DEF turn
  <1>6. /\ turn[0] = <<>>
        /\ \A i \in 1 .. GRID_HEIGHT : turn[i] = turn[i - 1] \o Gathered(g, GRID_HEIGHT - i)
    <2>1. 0 \in 0 .. GRID_HEIGHT /\ \A i \in 1 .. GRID_HEIGHT : i \in 0 .. GRID_HEIGHT /\ i # 0
      BY <1>0
    <2>. QED
      BY <1>4, <2>1, Zenon
  <1> DEFINE T == {i \in 0 .. GRID_HEIGHT : Lists(turn[i], LowGaps(g, i))}
  <1>7. 0 \in T
    <2>1. LowGaps(g, 0) = {}
      BY GridAssumption DEF LowGaps, Gaps, Rows
    <2>2. Lists(<<>>, {})
      BY DEF Lists
    <2>3. Lists(turn[0], LowGaps(g, 0)) /\ 0 \in 0 .. GRID_HEIGHT
      BY <1>0, <1>6, <2>1, <2>2
    <2>. QED
      BY <2>3, Zenon
  <1>8. ASSUME NEW i \in 0 .. GRID_HEIGHT - 1, i \in T PROVE i + 1 \in T
    <2>1. i + 1 \in 1 .. GRID_HEIGHT /\ (i + 1) - 1 = i /\ i + 1 \in 0 .. GRID_HEIGHT
      BY <1>0
    <2>2. Lists(turn[(i + 1) - 1], LowGaps(g, (i + 1) - 1))
      BY <1>8, <2>1
    <2>3. Lists(turn[i + 1], LowGaps(g, i + 1))
      BY <1>6, <2>1, <2>2, Turn, Zenon
    <2>. QED
      BY <2>1, <2>3
  <1>9. GRID_HEIGHT \in T
    <2> HIDE DEF T
    <2>1. Climbs(T, GRID_HEIGHT)
      BY <1>7, <1>8, Zenon DEF Climbs
    <2>2. GRID_HEIGHT \in 0 .. GRID_HEIGHT /\ GRID_HEIGHT \in Nat
      BY <1>0
    <2>. QED
      BY <2>1, <2>2, Climb, Zenon
  <1>10. LowGaps(g, GRID_HEIGHT) = Gaps(g)
    BY GridAssumption DEF LowGaps, Gaps, Rows
  <1>. QED
    BY <1>5, <1>9, <1>10, Zenon

\* The window is finite.
LEMMA WindowFinite ==
  /\ IsFiniteSet(Rows) /\ Cardinality(Rows) = GRID_HEIGHT
  /\ IsFiniteSet(Columns) /\ Cardinality(Columns) = GRID_WIDTH
  /\ IsFiniteSet(Rows \X Columns)
  /\ GRID_HEIGHT \in Nat /\ GRID_WIDTH \in Nat /\ 0 \in Columns
  <1>1. /\ GRID_HEIGHT \in Nat /\ GRID_WIDTH \in Nat /\ GRID_HEIGHT > 0 /\ GRID_WIDTH > 0
        /\ GRID_HEIGHT - 1 \in Int /\ GRID_WIDTH - 1 \in Int
        /\ ~(0 > GRID_HEIGHT - 1) /\ ~(0 > GRID_WIDTH - 1)
        /\ (GRID_HEIGHT - 1) - 0 + 1 = GRID_HEIGHT /\ (GRID_WIDTH - 1) - 0 + 1 = GRID_WIDTH
        /\ 0 \in Int
    BY GridAssumption
  <1>2. IsFiniteSet(Rows) /\ Cardinality(Rows) = GRID_HEIGHT
    <2>1. /\ IsFiniteSet(0 .. (GRID_HEIGHT - 1))
          /\ Cardinality(0 .. (GRID_HEIGHT - 1)) =
               IF 0 > GRID_HEIGHT - 1 THEN 0 ELSE (GRID_HEIGHT - 1) - 0 + 1
      BY <1>1, FS_Interval, Zenon
    <2>. QED
      BY <1>1, <2>1, Zenon DEF Rows
  <1>3. IsFiniteSet(Columns) /\ Cardinality(Columns) = GRID_WIDTH
    <2>1. /\ IsFiniteSet(0 .. (GRID_WIDTH - 1))
          /\ Cardinality(0 .. (GRID_WIDTH - 1)) =
               IF 0 > GRID_WIDTH - 1 THEN 0 ELSE (GRID_WIDTH - 1) - 0 + 1
      BY <1>1, FS_Interval, Zenon
    <2>. QED
      BY <1>1, <2>1, Zenon DEF Columns
  <1>4. IsFiniteSet(Rows \X Columns)
    BY <1>2, <1>3, FS_Product, Zenon
  <1>5. 0 \in Columns
    BY <1>1 DEF Columns
  <1>. QED
    BY <1>1, <1>2, <1>3, <1>4, <1>5, Zenon

\* A map between finite sets that misses nothing and merges nothing.
LEMMA SameCount ==
  ASSUME NEW S, NEW T, IsFiniteSet(S), NEW f \in [S -> T],
         \A a, b \in S : f[a] = f[b] => a = b, \A t \in T : \E s \in S : f[s] = t
  PROVE  IsFiniteSet(T) /\ Cardinality(T) = Cardinality(S)
  <1>1. f \in Injection(S, T) /\ f \in Surjection(S, T)
    BY Zenon DEF Injection, IsInjective, Surjection
  <1>2. ExistsBijection(S, T)
    BY <1>1, Zenon DEF ExistsBijection, Bijection
  <1>. QED
    BY <1>2, FS_Bijection, Zenon

\* A finite set is counted in two parts.
Parts(S, A, B) == S = A \cup B /\ A \cap B = {}
Counted(S, A, B) ==
  /\ IsFiniteSet(A) /\ IsFiniteSet(B)
  /\ Cardinality(S) \in Nat /\ Cardinality(A) \in Nat /\ Cardinality(B) \in Nat
  /\ Cardinality(S) = Cardinality(A) + Cardinality(B)
LEMMA TwoParts ==
  ASSUME NEW S, NEW A, NEW B, IsFiniteSet(S), Parts(S, A, B)
  PROVE  Counted(S, A, B)
  <1>1. IsFiniteSet(A) /\ IsFiniteSet(B)
    <2>1. A \in SUBSET S /\ B \in SUBSET S
      BY Zenon DEF Parts
    <2>. QED
      BY <2>1, FS_Subset, Zenon
  <1>2. Cardinality(S) \in Nat /\ Cardinality(A) \in Nat /\ Cardinality(B) \in Nat
    BY <1>1, FS_CardinalityType, Zenon
  <1>3. Cardinality(A \cup B) = Cardinality(A) + Cardinality(B) - Cardinality(A \cap B)
    BY <1>1, FS_Union, Zenon
  <1>4. Cardinality(A \cap B) = 0
    BY FS_EmptySet, Zenon DEF Parts
  <1>5. Cardinality(S) = Cardinality(A) + Cardinality(B) - 0
    BY <1>3, <1>4, Zenon DEF Parts
  <1>. QED
    BY <1>1, <1>2, <1>5 DEF Counted

\* rows_left is as long as there are rows with a gap, and purged_count counts
\* the others (tetris.c 188-198).
LEMMA PurgedCounts ==
  ASSUME NEW g
  PROVE  /\ Len(RowsLeft(g)) \in Nat /\ Len(RowsLeft(g)) <= GRID_HEIGHT
         /\ IsFiniteSet(Rows \ Gaps(g)) /\ Cardinality(Rows \ Gaps(g)) = PurgedCount(g)
         /\ PurgedCount(g) \in Nat
  <1> DEFINE kept == RowsLeft(g)
             n == Len(kept)
             f == [k \in 1 .. n |-> kept[k]]
  <1>1. Lists(kept, Gaps(g))
    BY RowsLeftLists
  <1> HIDE DEF kept
  <1>2. n \in Nat /\ 1 \in Int /\ n \in Int /\ n - 1 + 1 = n /\ (1 > n => n = 0)
    BY <1>1 DEF Lists
  <1>3. IsFiniteSet(1 .. n) /\ Cardinality(1 .. n) = n
    <2> HIDE DEF n
    <2>1. IsFiniteSet(1 .. n) /\ Cardinality(1 .. n) = IF 1 > n THEN 0 ELSE n - 1 + 1
      BY <1>2, FS_Interval, Zenon
    <2>. QED
      BY <1>2, <2>1, Zenon
  <1>4. f \in [1 .. n -> Gaps(g)]
    BY <1>1, Zenon DEF Lists
  <1>5. /\ \A j, k \in 1 .. n : f[j] = f[k] => j = k
        /\ \A y \in Gaps(g) : \E k \in 1 .. n : f[k] = y
    BY <1>1, Zenon DEF Lists
  <1> HIDE DEF f, n
  <1>6. Cardinality(Gaps(g)) = n
    BY <1>3, <1>4, <1>5, SameCount, Zenon
  <1>7. /\ IsFiniteSet(Rows \ Gaps(g))
        /\ Cardinality(Rows) = Cardinality(Gaps(g)) + Cardinality(Rows \ Gaps(g))
        /\ Cardinality(Rows \ Gaps(g)) \in Nat
    <2> DEFINE full == Rows \ Gaps(g)
    <2>1. Parts(Rows, Gaps(g), full)
      BY Zenon DEF Gaps, Parts
    <2>2. IsFiniteSet(Rows)
      BY WindowFinite, Zenon
    <2> HIDE DEF full
    <2>3. Counted(Rows, Gaps(g), full)
      BY <2>1, <2>2, TwoParts, Zenon
    <2>. QED
      BY <2>3, Zenon DEF Counted, full
  <1>8. PurgedCount(g) = GRID_HEIGHT - n
    BY Zenon DEF PurgedCount, n, kept
  <1>9. GRID_HEIGHT = n + Cardinality(Rows \ Gaps(g)) /\ GRID_HEIGHT \in Nat
    BY <1>6, <1>7, WindowFinite, Zenon
  <1>10. n <= GRID_HEIGHT /\ Cardinality(Rows \ Gaps(g)) = GRID_HEIGHT - n
    BY <1>2, <1>7, <1>9
  <1>. QED
    BY <1>2, <1>7, <1>8, <1>10, Zenon DEF n, kept

\* What purge_grid leaves in a cell (tetris.c 204-217).
LEMMA PurgedCell ==
  ASSUME NEW g, NEW y \in Rows, NEW x \in Columns
  PROVE  purge_grid(g)[y][x] = IF GRID_HEIGHT - y <= Len(RowsLeft(g))
                               THEN g[RowsLeft(g)[GRID_HEIGHT - y]][x] ELSE Unset
  <1> DEFINE kept == RowsLeft(g)
  <1> HIDE DEF kept
  <1>1. purge_grid(g)[y] = IF GRID_HEIGHT - y <= Len(kept) THEN g[kept[GRID_HEIGHT - y]]
                           ELSE [z \in Columns |-> Unset]
    BY Zenon DEF purge_grid, kept
  <1>2. CASE GRID_HEIGHT - y <= Len(kept)
    BY <1>1, <1>2, Zenon DEF kept
  <1>3. CASE ~(GRID_HEIGHT - y <= Len(kept))
    <2>1. purge_grid(g)[y] = [z \in Columns |-> Unset]
      BY <1>1, <1>3, Zenon
    <2>2. purge_grid(g)[y][x] = Unset
      BY <2>1, Zenon
    <2>. QED
      BY <1>3, <2>2, Zenon DEF kept
  <1>. QED
    BY <1>2, <1>3, Zenon

\* The row that ends up in row y has a gap.
LEMMA SourceRow ==
  ASSUME NEW g, NEW y \in Rows, GRID_HEIGHT - y <= Len(RowsLeft(g))
  PROVE  /\ GRID_HEIGHT - y \in 1 .. Len(RowsLeft(g))
         /\ RowsLeft(g)[GRID_HEIGHT - y] \in Gaps(g)
  <1> DEFINE kept == RowsLeft(g)
  <1>1. Lists(kept, Gaps(g)) /\ Len(kept) \in Nat
    BY RowsLeftLists, PurgedCounts
  <1> HIDE DEF kept
  <1>2. GRID_HEIGHT - y <= Len(kept)
    BY DEF kept
  <1>3. GRID_HEIGHT - y \in 1 .. Len(kept)
    BY <1>1, <1>2, GridAssumption DEF Rows
  <1>. QED
    BY <1>1, <1>3, Zenon DEF Lists, kept

\* No full row is left.
LEMMA NoFullRowLeft ==
  ASSUME NEW g, NEW y \in Rows
  PROVE  ~FullRow(purge_grid(g), y)
  <1>1. CASE GRID_HEIGHT - y <= Len(RowsLeft(g))
    <2> DEFINE r == RowsLeft(g)[GRID_HEIGHT - y]
    <2>1. ~FullRow(g, r)
      BY <1>1, SourceRow, Zenon DEF Gaps
    <2>2. PICK x \in Columns : g[r][x] = Unset
      BY <2>1, Zenon DEF FullRow
    <2>3. purge_grid(g)[y][x] = Unset
      BY <1>1, <2>2, PurgedCell, Zenon
    <2>. QED
      BY <2>3, Zenon DEF FullRow
  <1>2. CASE ~(GRID_HEIGHT - y <= Len(RowsLeft(g)))
    <2>1. 0 \in Columns
      BY WindowFinite, Zenon
    <2>2. purge_grid(g)[y][0] = Unset
      BY <1>2, <2>1, PurgedCell, Zenon
    <2>. QED
      BY <2>1, <2>2, Zenon DEF FullRow
  <1>. QED
    BY <1>1, <1>2, Zenon

\* The settled squares, and those in rows with a gap.
Settled(g) == {p \in Rows \X Columns : g[p[1]][p[2]] # Unset}
Kept(g) == {p \in Settled(g) : p[1] \in Gaps(g)}

\* The squares in rows with a gap are what purge_grid keeps.
LEMMA KeptCount ==
  ASSUME NEW g
  PROVE  Cardinality(Settled(purge_grid(g))) = Cardinality(Kept(g))
  <1> DEFINE n == purge_grid(g)
             kept == RowsLeft(g)
             S == Settled(n)
             f == [p \in S |-> <<kept[GRID_HEIGHT - p[1]], p[2]>>]
  <1>0. IsFiniteSet(S)
    <2>1. S \in SUBSET (Rows \X Columns) /\ IsFiniteSet(Rows \X Columns)
      BY WindowFinite, Zenon DEF Settled
    <2> HIDE DEF S
    <2>. QED
      BY <2>1, FS_Subset, Zenon
  <1>1. \A p \in Rows \X Columns : p[1] \in Rows /\ p[2] \in Columns /\ p = <<p[1], p[2]>>
    OBVIOUS
  <1>2. \A p \in S : /\ p[1] \in Rows /\ p[2] \in Columns /\ p = <<p[1], p[2]>>
                     /\ n[p[1]][p[2]] # Unset
    BY <1>1, Zenon DEF Settled
  <1>3. \A p \in S : /\ GRID_HEIGHT - p[1] \in 1 .. Len(kept)
                     /\ kept[GRID_HEIGHT - p[1]] \in Gaps(g)
                     /\ g[kept[GRID_HEIGHT - p[1]]][p[2]] # Unset
    <2> TAKE p \in S
    <2>1. p[1] \in Rows /\ p[2] \in Columns /\ n[p[1]][p[2]] # Unset
      BY <1>2, Zenon
    <2>2. GRID_HEIGHT - p[1] <= Len(kept) /\ g[kept[GRID_HEIGHT - p[1]]][p[2]] # Unset
      BY <2>1, PurgedCell, Zenon
    <2>. QED
      BY <2>1, <2>2, SourceRow, Zenon
  <1>4. f \in [S -> Kept(g)]
    <2> SUFFICES ASSUME NEW p \in S
                 PROVE  <<kept[GRID_HEIGHT - p[1]], p[2]>> \in Kept(g)
      BY Zenon
    <2> DEFINE q == kept[GRID_HEIGHT - p[1]]
    <2>1. q \in Rows /\ q \in Gaps(g) /\ g[q][p[2]] # Unset /\ p[2] \in Columns
      BY <1>2, <1>3, Zenon DEF Gaps
    <2> HIDE DEF q
    <2>2. <<q, p[2]>> \in Rows \X Columns /\ <<q, p[2]>>[1] = q /\ <<q, p[2]>>[2] = p[2]
      BY <2>1
    <2>3. <<q, p[2]>> \in Kept(g)
      BY <2>1, <2>2, Zenon DEF Kept, Settled
    <2>. QED
      BY <2>3, Zenon DEF q
  <1>5. ASSUME NEW a \in S, NEW b \in S, f[a] = f[b]
        PROVE  a = b
    <2>1. <<kept[GRID_HEIGHT - a[1]], a[2]>> = <<kept[GRID_HEIGHT - b[1]], b[2]>>
      BY <1>5, Zenon
    <2>2. kept[GRID_HEIGHT - a[1]] = kept[GRID_HEIGHT - b[1]] /\ a[2] = b[2]
      BY <2>1, Zenon
    <2>3. GRID_HEIGHT - a[1] = GRID_HEIGHT - b[1]
      <3>1. \A j, k \in 1 .. Len(kept) : kept[j] = kept[k] => j = k
        BY RowsLeftLists, Zenon DEF Lists
      <3>2. GRID_HEIGHT - a[1] \in 1 .. Len(kept) /\ GRID_HEIGHT - b[1] \in 1 .. Len(kept)
        BY <1>3, Zenon
      <3> HIDE DEF kept
      <3>. QED
        BY <2>2, <3>1, <3>2, Zenon
    <2>4. a[1] \in Int /\ b[1] \in Int /\ GRID_HEIGHT \in Int
      <3>1. Rows \subseteq Int /\ GRID_HEIGHT \in Int
        BY GridAssumption DEF Rows
      <3>. QED
        BY <1>2, <3>1, Zenon
    <2>5. a[1] = b[1]
      BY <2>3, <2>4
    <2>. QED
      BY <1>2, <2>2, <2>5, Zenon
  <1>6. ASSUME NEW q \in Kept(g)
        PROVE  \E p \in S : f[p] = q
    <2>1. /\ q[1] \in Gaps(g) /\ q[2] \in Columns /\ q = <<q[1], q[2]>>
          /\ g[q[1]][q[2]] # Unset
      BY <1>1, Zenon DEF Kept, Settled
    <2>2. PICK k \in 1 .. Len(kept) : kept[k] = q[1]
      BY <2>1, RowsLeftLists, Zenon DEF Lists
    <2> DEFINE y == GRID_HEIGHT - k
               p == <<y, q[2]>>
    <2>3. y \in Rows /\ GRID_HEIGHT - y = k /\ GRID_HEIGHT - y <= Len(kept)
      <3>1. Len(kept) \in Nat /\ Len(kept) <= GRID_HEIGHT /\ GRID_HEIGHT \in Nat
        BY PurgedCounts, WindowFinite, Zenon
      <3> HIDE DEF kept
      <3>. QED
        BY <3>1 DEF Rows
    <2> HIDE DEF y
    <2>4. n[y][q[2]] # Unset
      BY <2>1, <2>2, <2>3, PurgedCell, Zenon
    <2>5. p \in Rows \X Columns /\ p[1] = y /\ p[2] = q[2]
      BY <2>1, <2>3
    <2>6. p \in S
      BY <2>4, <2>5, Zenon DEF Settled
    <2>7. f[p] = <<kept[GRID_HEIGHT - p[1]], p[2]>>
      BY <2>6, Zenon
    <2>8. f[p] = q
      BY <2>1, <2>2, <2>3, <2>5, <2>7, Zenon
    <2>. QED
      BY <2>6, <2>8, Zenon
  <1> HIDE DEF S, f
  <1>7. Cardinality(Kept(g)) = Cardinality(S)
    BY <1>0, <1>4, <1>5, <1>6, SameCount, Zenon
  <1>. QED
    BY <1>7, Zenon DEF S

\* purge_grid takes a row's worth of squares for each row it counts
\* (tetris.c 180-218).
LEMMA PurgeCount ==
  ASSUME NEW g
  PROVE  /\ SettledCount(purge_grid(g)) \in Nat
         /\ SettledCount(g) = SettledCount(purge_grid(g)) + PurgedCount(g) * GRID_WIDTH
  <1> DEFINE full == Rows \ Gaps(g)
             A == Kept(g)
             B == full \X Columns
             S == Settled(g)
  <1>1. IsFiniteSet(S)
    <2>1. S \in SUBSET (Rows \X Columns) /\ IsFiniteSet(Rows \X Columns)
      BY WindowFinite, Zenon DEF Settled
    <2> HIDE DEF S
    <2>. QED
      BY <2>1, FS_Subset, Zenon
  <1>2. IsFiniteSet(full) /\ Cardinality(full) = PurgedCount(g)
    BY PurgedCounts, Zenon
  <1>3. \A y \in full : FullRow(g, y) /\ y \in Rows /\ y \notin Gaps(g)
    BY Zenon DEF Gaps
  <1>4. \A y \in Rows : y \in full \/ y \in Gaps(g)
    BY Zenon
  <1> HIDE DEF full
  <1>5. \A p \in B : /\ p[1] \in full /\ p[2] \in Columns /\ p \in Rows \X Columns
    BY <1>3
  <1>6. \A p \in Rows \X Columns : p[1] \in Rows /\ (p[1] \in full => p \in B)
    OBVIOUS
  <1>7. S = A \cup B
    <2>1. \A p \in B : p \in S
      BY <1>3, <1>5, Zenon DEF FullRow, Settled
    <2>2. \A p \in S : p \in A \/ p \in B
      BY <1>4, <1>6, Zenon DEF Kept, Settled
    <2>3. \A p \in A : p \in S
      BY Zenon DEF Kept
    <2> HIDE DEF A, B, S
    <2>. QED
      BY <2>1, <2>2, <2>3, Zenon
  <1>8. A \cap B = {}
    <2>1. \A p \in A : p[1] \in Gaps(g)
      BY Zenon DEF Kept
    <2>2. \A p \in B : p[1] \notin Gaps(g)
      BY <1>3, <1>5, Zenon
    <2> HIDE DEF A, B
    <2>. QED
      BY <2>1, <2>2, Zenon
  <1>9. Cardinality(B) = PurgedCount(g) * GRID_WIDTH
    <2>1. IsFiniteSet(Columns) /\ Cardinality(Columns) = GRID_WIDTH
      BY WindowFinite, Zenon
    <2>2. Cardinality(full \X Columns) = Cardinality(full) * Cardinality(Columns)
      BY <1>2, <2>1, FS_Product, Zenon
    <2>. QED
      BY <1>2, <2>1, <2>2, Zenon
  <1> HIDE DEF A, B, S
  <1>10. Cardinality(S) = Cardinality(A) + Cardinality(B) /\ Cardinality(A) \in Nat
    <2>1. Parts(S, A, B)
      BY <1>7, <1>8, Zenon DEF Parts
    <2>2. Counted(S, A, B)
      BY <1>1, <2>1, TwoParts, Zenon
    <2>. QED
      BY <2>2, Zenon DEF Counted
  <1>11. Cardinality(A) = SettledCount(purge_grid(g)) /\ Cardinality(S) = SettledCount(g)
    BY KeptCount, Zenon DEF A, S, Settled, SettledCount
  <1>. QED
    BY <1>9, <1>10, <1>11, Zenon

\* After purge_grid the grid is still an array of its size.
LEMMA PurgedArray ==
  ASSUME NEW g, \A y \in Rows : g[y] = [x \in Columns |-> g[y][x]]
  PROVE  init_grid(purge_grid(g)) = purge_grid(g)
  <1> DEFINE kept == RowsLeft(g)
             R(y) == IF GRID_HEIGHT - y <= Len(kept) THEN g[kept[GRID_HEIGHT - y]]
                     ELSE [x \in Columns |-> Unset]
  <1>1. ASSUME NEW y \in Rows PROVE R(y) = [x \in Columns |-> R(y)[x]]
    <2>1. CASE GRID_HEIGHT - y <= Len(kept)
      <3> DEFINE r == kept[GRID_HEIGHT - y]
      <3>1. r \in Rows
        BY <2>1, SourceRow, Zenon DEF Gaps
      <3>2. R(y) = g[r]
        BY <2>1, Zenon
      <3> HIDE DEF r, R
      <3>. QED
        BY <3>1, <3>2, Zenon
    <2>2. CASE ~(GRID_HEIGHT - y <= Len(kept))
      <3>1. R(y) = [x \in Columns |-> Unset]
        BY <2>2, Zenon
      <3> HIDE DEF R
      <3>. QED
        BY <3>1
    <2>. QED
      BY <2>1, <2>2, Zenon
  <1>2. purge_grid(g) = [y \in Rows |-> R(y)]
    BY Zenon DEF purge_grid
  <1> HIDE DEF R
  <1>. QED
    BY <1>1, <1>2, Zenon DEF init_grid

-----------------------------------------------------------------------------
\* What is on the screen, as an invariant: grid and window are arrays of the
\* same size, and a block is only on the screen while its flag says so; the
\* flag may also be set with no block drawn.
Drawn ==
  /\ grid = init_grid(grid)
  /\ started /\ ~overrun =>
       screen = grid \/ (blk.plotted /\ screen = plot_shape(grid, blk))

\* Unplotting a block that covers no settled square leaves the grid, whether
\* the block was drawn or not.
LEMMA Erased ==
  ASSUME NEW g, NEW b, g = init_grid(g), ~is_block_clashing(g, b)
  PROVE  /\ Paint(g, b, Unset) = g
         /\ Paint(plot_shape(g, b), b, Unset) = g
  <1> DEFINE squares == Squares(b)
  <1>1. \A y \in Rows, x \in Columns : <<y, x>> \in squares => g[y][x] = Unset
    BY ClearInside
  <1>2. g = [y \in Rows |-> [x \in Columns |-> g[y][x]]]
    BY DEF init_grid
  <1> HIDE DEF squares
  <1>3. ASSUME NEW s, \A y \in Rows, x \in Columns : <<y, x>> \notin squares => s[y][x] = g[y][x]
        PROVE  [y \in Rows |-> [x \in Columns |-> IF <<y, x>> \in squares THEN Unset ELSE s[y][x]]] = g
    <2>1. \A y \in Rows, x \in Columns :
            (IF <<y, x>> \in squares THEN Unset ELSE s[y][x]) = g[y][x]
      BY <1>1, <1>3, Zenon
    <2>2. \A y \in Rows :
            [x \in Columns |-> IF <<y, x>> \in squares THEN Unset ELSE s[y][x]] =
              [x \in Columns |-> g[y][x]]
      BY <2>1
    <2>. QED
      BY <1>2, <2>2
  <1>4. Paint(g, b, Unset) = g
    BY <1>3 DEF Paint, squares
  <1>5. \A y \in Rows, x \in Columns :
          <<y, x>> \notin squares => plot_shape(g, b)[y][x] = g[y][x]
    BY DEF plot_shape, Paint, squares
  <1>6. Paint(plot_shape(g, b), b, Unset) = g
    BY <1>3, <1>5 DEF Paint, squares
  <1>. QED
    BY <1>4, <1>6

\* What is drawn afresh from an array is that array.
LEMMA Afresh ==
  ASSUME NEW g
  PROVE  /\ init_grid(init_grid(g)) = init_grid(g)
         /\ init_grid(EmptyGrid) = EmptyGrid
         /\ \A b : init_grid(purge_grid(finalize_block(g, b))) = purge_grid(finalize_block(g, b))
  <1>2. init_grid(init_grid(g)) = init_grid(g)
    BY DEF init_grid
  <1>3. init_grid(EmptyGrid) = EmptyGrid
    BY DEF init_grid, EmptyGrid
  <1>4. ASSUME NEW b
        PROVE  init_grid(purge_grid(finalize_block(g, b))) = purge_grid(finalize_block(g, b))
    <2> DEFINE h == finalize_block(g, b)
    <2>1. \A y \in Rows : h[y] = [x \in Columns |-> h[y][x]]
      BY DEF finalize_block, Paint
    <2> HIDE DEF h
    <2>2. init_grid(purge_grid(h)) = purge_grid(h)
      BY <2>1, PurgedArray, Zenon
    <2>. QED
      BY <2>2, Zenon DEF h
  <1>. QED
    BY <1>2, <1>3, <1>4, Zenon

\* The flag is no part of what a block looks like.
LEMMA SamePlot ==
  ASSUME NEW b \in Block, NEW c, c = [b EXCEPT !.plotted = TRUE]
  PROVE  c.plotted /\ \A g : plot_shape(g, c) = plot_shape(g, b)
  <1>1. c.plotted /\ c.color = b.color
    BY DEF Block
  <1>2. Squares(c) = Squares(b)
    BY Plotted
  <1>. QED
    BY <1>1, <1>2 DEF plot_shape, Paint

\* A move erases what there was of the block and draws it elsewhere.
LEMMA MoveDraws ==
  ASSUME IInv, Drawn, NEW moved \in Block, Move(moved)
  PROVE  Drawn'
  <1>1. /\ is_running /\ blk' = [moved EXCEPT !.plotted = TRUE]
        /\ screen' = plot_shape(unplot_block(screen, blk), moved)
        /\ UNCHANGED <<grid, started, overrun>>
    BY DEF Move
  <1>2. started /\ ~overrun => unplot_block(screen, blk) = grid
    <2> SUFFICES ASSUME started, ~overrun PROVE unplot_block(screen, blk) = grid
      OBVIOUS
    <2>1. ~is_block_clashing(grid, blk) /\ grid = init_grid(grid)
      BY <1>1 DEF IInv, NoOverlap, Drawn
    <2>2. Paint(grid, blk, Unset) = grid /\ Paint(plot_shape(grid, blk), blk, Unset) = grid
      BY <2>1, Erased
    <2>. QED
      BY <2>2 DEF Drawn, unplot_block
  <1>3. blk'.plotted /\ plot_shape(grid, blk') = plot_shape(grid, moved)
    BY <1>1, SamePlot
  <1>4. started' /\ ~overrun' => screen' = plot_shape(grid', blk')
    BY <1>1, <1>2, <1>3
  <1>5. grid' = init_grid(grid')
    BY <1>1 DEF Drawn
  <1>. QED
    BY <1>3, <1>4, <1>5 DEF Drawn, init_grid, plot_shape, Paint, Squares, Rows, Columns

\* A landing redraws the window from the grid.
LEMMA LandDraws ==
  ASSUME IInv, Land
  PROVE  Drawn'
  <1> DEFINE purged == purge_grid(finalize_block(grid, blk))
  <1>1. init_grid(purged) = purged
    BY Afresh
  <1>2. PICK b \in new_block(blk) :
             IF is_block_clashing(grid', b)
             THEN blk' = b /\ screen' = init_grid(grid')
             ELSE /\ blk' = [b EXCEPT !.plotted = TRUE]
                  /\ screen' = plot_shape(init_grid(grid'), b)
    BY DEF Land
  <1>3. grid' = purged
    BY DEF Land
  <1> HIDE DEF purged
  <1>4. b \in Block
    BY NewBlock DEF IInv
  <1>5. grid' = init_grid(grid')
    BY <1>1, <1>3
  <1>6. screen' = grid' \/ (blk'.plotted /\ screen' = plot_shape(grid', blk'))
    BY <1>1, <1>2, <1>3, <1>4, SamePlot
  <1>. QED
    BY <1>5, <1>6 DEF Drawn, init_grid, plot_shape, Paint, Squares, Rows, Columns

\* Enter and Ctrl-R: the first Enter and the reset draw the window afresh.
LEMMA StartDraws ==
  ASSUME IInv, Drawn, tetris_start \/ tetris_reset
  PROVE  Drawn'
  <1>1. CASE tetris_start /\ started
    <2>1. /\ UNCHANGED <<grid, screen, blk>>
          /\ started' /\ (overrun => overrun')
      BY <1>1, Zenon DEF tetris_start
    <2>2. grid' = init_grid(grid')
      BY <2>1 DEF Drawn
    <2>3. started' /\ ~overrun' =>
            screen' = grid' \/ (blk'.plotted /\ screen' = plot_shape(grid', blk'))
      BY <1>1, <2>1 DEF Drawn
    <2>. QED
      BY <2>2, <2>3 DEF Drawn, init_grid, plot_shape, Paint, Squares, Rows, Columns
  <1>2. CASE (tetris_start /\ ~started) \/ tetris_reset
    <2>1. grid' = init_grid(grid') /\ screen' = grid'
      BY <1>2, Afresh DEF tetris_start, tetris_reset, Drawn
    <2>. QED
      BY <2>1 DEF Drawn, init_grid, plot_shape, Paint, Squares, Rows, Columns
  <1>. QED
    BY <1>1, <1>2

\* The window shows the settled squares and at most the block over them, as
\* long as no game was resumed after its end (tetris.c 79-123 and 234-365).
THEOREM ScreenSafe == Spec => []ScreenAgrees
  <1>1. Init => Drawn
    <2> SUFFICES ASSUME Init PROVE Drawn
      OBVIOUS
    <2>1. grid = EmptyGrid /\ ~started
      BY DEF Init
    <2>. QED
      BY <2>1, Afresh DEF Drawn
  <1>2. IInv /\ Drawn /\ [Next]_vars => Drawn'
    <2> SUFFICES ASSUME IInv, Drawn, [Next]_vars PROVE Drawn'
      OBVIOUS
    <2>1. CASE tetris_start \/ tetris_reset
      BY <2>1, StartDraws
    <2>2. CASE UNCHANGED <<grid, blk, screen, started, overrun>>
      <3>1. /\ grid' = init_grid(grid')
            /\ started' /\ ~overrun' =>
                 screen' = grid' \/ (blk'.plotted /\ screen' = plot_shape(grid', blk'))
        BY <2>2 DEF Drawn
      <3>. QED
        BY <3>1 DEF Drawn, init_grid, plot_shape, Paint, Squares, Rows, Columns
    <2>3. CASE Land
      BY <2>3, LandDraws
    <2>4. CASE \/ Move([blk EXCEPT !.y_pos = @ + 1]) \/ Move([blk EXCEPT !.x_pos = @ - 1])
               \/ Move([blk EXCEPT !.x_pos = @ + 1]) \/ Move(rotate_block(blk))
      <3>1. blk \in Block /\ Dealt(blk)
        BY <2>4 DEF Move, IInv, BlockInside
      <3>2. /\ [blk EXCEPT !.y_pos = @ + 1] \in Block
            /\ [blk EXCEPT !.x_pos = @ - 1] \in Block
            /\ [blk EXCEPT !.x_pos = @ + 1] \in Block
        BY <3>1 DEF Block
      <3>3. rotate_block(blk) \in Block
        BY <3>1, Rotated
      <3>. QED
        BY <2>4, <3>2, <3>3, MoveDraws
    <2>5. CASE \E down \in BOOLEAN : CtrlKey(down)
      BY <2>2, <2>5 DEF CtrlKey
    <2>6. CASE UNCHANGED vars
      BY <2>2, <2>6 DEF vars
    <2>. QED
      BY <2>1, <2>3, <2>4, <2>5, <2>6 DEF Next, keyboard_interrupt_handler,
         timer_interrupt_handler, on_key_arrow_down, on_key_arrow_left, on_key_arrow_right,
         on_key_blank
  <1>3. Drawn => ScreenAgrees
    BY DEF Drawn, ScreenAgrees
  <1>. QED
    BY <1>1, <1>2, <1>3, Invariance, PTL DEF Spec

-----------------------------------------------------------------------------
(* No settled square is lost or invented.                                  *)

\* Four different squares are four.
Four(shape) == IsFiniteSet(shape) /\ Cardinality(shape) = 4
Different(a, b, c, d) == a # b /\ a # c /\ a # d /\ b # c /\ b # d /\ c # d

LEMMA FourDifferent ==
  ASSUME NEW a, NEW b, NEW c, NEW d, Different(a, b, c, d)
  PROVE  Four({a, b, c, d})
  <1>1. IsFiniteSet({a}) /\ Cardinality({a}) = 1
    BY FS_Singleton, Zenon
  <1>2. IsFiniteSet({a} \cup {b}) /\ Cardinality({a} \cup {b}) = Cardinality({a}) + 1
    <2>1. b \notin {a}
      BY Zenon DEF Different
    <2>. QED
      BY <1>1, <2>1, FS_AddElement, Zenon
  <1>3. /\ IsFiniteSet(({a} \cup {b}) \cup {c})
        /\ Cardinality(({a} \cup {b}) \cup {c}) = Cardinality({a} \cup {b}) + 1
    <2>1. c \notin {a} \cup {b}
      BY Zenon DEF Different
    <2>. QED
      BY <1>2, <2>1, FS_AddElement, Zenon
  <1>4. /\ IsFiniteSet((({a} \cup {b}) \cup {c}) \cup {d})
        /\ Cardinality((({a} \cup {b}) \cup {c}) \cup {d}) =
             Cardinality(({a} \cup {b}) \cup {c}) + 1
    <2>1. d \notin ({a} \cup {b}) \cup {c}
      BY Zenon DEF Different
    <2>. QED
      BY <1>3, <2>1, FS_AddElement, Zenon
  <1>5. (({a} \cup {b}) \cup {c}) \cup {d} = {a, b, c, d}
    BY Zenon
  <1>6. Cardinality((({a} \cup {b}) \cup {c}) \cup {d}) = 4
    BY <1>1, <1>2, <1>3, <1>4
  <1>. QED
    BY <1>4, <1>5, <1>6, Zenon DEF Four

\* Every shape has four squares (tetris.c 9-71).
LEMMA ShapesFour ==
  \A g \in 1 .. 4 : \A i \in DOMAIN shape_grps[g] : Four(shape_grps[g][i])
  <1> DEFINE Good(shapes) == \A i \in DOMAIN shapes : Four(shapes[i])
  <1>1. ASSUME NEW a, NEW b, NEW c, NEW d, Four(a), Four(b), Four(c), Four(d)
        PROVE  Good(<<a>>) /\ Good(<<a, b>>) /\ Good(<<a, b, c, d>>)
    BY <1>1
  <1> HIDE DEF Good
  <1>2. /\ Different(<<0, 0>>, <<0, 1>>, <<1, 1>>, <<1, 2>>)
        /\ Different(<<0, 1>>, <<1, 1>>, <<1, 0>>, <<2, 0>>)
        /\ Different(<<0, 0>>, <<1, 0>>, <<2, 0>>, <<3, 0>>)
        /\ Different(<<0, 0>>, <<0, 1>>, <<0, 2>>, <<0, 3>>)
        /\ Different(<<0, 1>>, <<1, 0>>, <<1, 1>>, <<1, 2>>)
        /\ Different(<<0, 0>>, <<1, 0>>, <<1, 1>>, <<2, 0>>)
        /\ Different(<<0, 0>>, <<0, 1>>, <<0, 2>>, <<1, 1>>)
        /\ Different(<<0, 1>>, <<1, 0>>, <<1, 1>>, <<2, 1>>)
        /\ Different(<<0, 0>>, <<0, 1>>, <<1, 0>>, <<1, 1>>)
    BY DEF Different
  <1>3. Four({<<0, 0>>, <<0, 1>>, <<1, 1>>, <<1, 2>>})
    BY <1>2, FourDifferent, Zenon
  <1>4. Four({<<0, 1>>, <<1, 1>>, <<1, 0>>, <<2, 0>>})
    BY <1>2, FourDifferent, Zenon
  <1>5. Four({<<0, 0>>, <<1, 0>>, <<2, 0>>, <<3, 0>>})
    BY <1>2, FourDifferent, Zenon
  <1>6. Four({<<0, 0>>, <<0, 1>>, <<0, 2>>, <<0, 3>>})
    BY <1>2, FourDifferent, Zenon
  <1>7. Four({<<0, 1>>, <<1, 0>>, <<1, 1>>, <<1, 2>>})
    BY <1>2, FourDifferent, Zenon
  <1>8. Four({<<0, 0>>, <<1, 0>>, <<1, 1>>, <<2, 0>>})
    BY <1>2, FourDifferent, Zenon
  <1>9. Four({<<0, 0>>, <<0, 1>>, <<0, 2>>, <<1, 1>>})
    BY <1>2, FourDifferent, Zenon
  <1>10. Four({<<0, 1>>, <<1, 0>>, <<1, 1>>, <<2, 1>>})
    BY <1>2, FourDifferent, Zenon
  <1>11. Four({<<0, 0>>, <<0, 1>>, <<1, 0>>, <<1, 1>>})
    BY <1>2, FourDifferent, Zenon
  <1>12. Good(<< {<<0, 0>>, <<0, 1>>, <<1, 1>>, <<1, 2>>},
                {<<0, 1>>, <<1, 1>>, <<1, 0>>, <<2, 0>>} >>)
    BY <1>1, <1>3, <1>4, Zenon
  <1>13. Good(<< {<<0, 0>>, <<1, 0>>, <<2, 0>>, <<3, 0>>},
                {<<0, 0>>, <<0, 1>>, <<0, 2>>, <<0, 3>>} >>)
    BY <1>1, <1>5, <1>6, Zenon
  <1>14. Good(<< {<<0, 1>>, <<1, 0>>, <<1, 1>>, <<1, 2>>},
                {<<0, 0>>, <<1, 0>>, <<1, 1>>, <<2, 0>>},
                {<<0, 0>>, <<0, 1>>, <<0, 2>>, <<1, 1>>},
                {<<0, 1>>, <<1, 0>>, <<1, 1>>, <<2, 1>>} >>)
    BY <1>1, <1>7, <1>8, <1>9, <1>10, Zenon
  <1>15. Good(<< {<<0, 0>>, <<0, 1>>, <<1, 0>>, <<1, 1>>} >>)
    BY <1>1, <1>11, Zenon
  <1>16. /\ Good(shape_grps[1]) /\ Good(shape_grps[2])
         /\ Good(shape_grps[3]) /\ Good(shape_grps[4])
    BY <1>12, <1>13, <1>14, <1>15 DEF shape_grps
  <1>17. \A g \in 1 .. 4 : Good(shape_grps[g])
    BY <1>16
  <1>. QED
    BY <1>17, Zenon DEF Good

\* A dealt block covers four squares, wherever it is.
LEMMA SquaresFour ==
  ASSUME NEW b \in Block, Dealt(b)
  PROVE  Four(Squares(b))
  <1> DEFINE S == b.shp
             f == [p \in S |-> <<b.y_pos + p[1], b.x_pos + p[2]>>]
  <1>1. Four(S)
    BY ShapesFour, Zenon DEF Dealt
  <1>2. b.y_pos \in Int /\ b.x_pos \in Int /\ S \subseteq (0 .. 3) \X (0 .. 3)
    BY DEF Block
  <1>3. f \in [S -> Squares(b)] /\ \A q \in Squares(b) : \E p \in S : f[p] = q
    BY Zenon DEF Squares
  <1>4. ASSUME NEW p \in S, NEW q \in S, f[p] = f[q] PROVE p = q
    <2>1. <<b.y_pos + p[1], b.x_pos + p[2]>> = <<b.y_pos + q[1], b.x_pos + q[2]>>
      BY <1>4, Zenon
    <2>2. b.y_pos + p[1] = b.y_pos + q[1] /\ b.x_pos + p[2] = b.x_pos + q[2]
      BY <2>1, Zenon
    <2>3. /\ p[1] \in Int /\ p[2] \in Int /\ q[1] \in Int /\ q[2] \in Int
          /\ p = <<p[1], p[2]>> /\ q = <<q[1], q[2]>>
      BY <1>2
    <2>4. p[1] = q[1] /\ p[2] = q[2]
      BY <1>2, <2>2, <2>3
    <2>. QED
      BY <2>3, <2>4, Zenon
  <1> HIDE DEF S, f
  <1>5. IsFiniteSet(Squares(b)) /\ Cardinality(Squares(b)) = Cardinality(S)
    BY <1>1, <1>3, <1>4, SameCount, Zenon DEF Four
  <1>. QED
    BY <1>1, <1>5, Zenon DEF Four

\* A block that settles on free squares adds four (finalize_block, tetris.c
\* 166-178).
LEMMA SettleCount ==
  ASSUME NEW g, NEW b \in Block, Dealt(b), b.color # Unset, ~is_block_clashing(g, b)
  PROVE  /\ SettledCount(g) \in Nat
         /\ SettledCount(finalize_block(g, b)) = SettledCount(g) + 4
  <1> DEFINE h == finalize_block(g, b)
             S == Settled(h)
             A == Settled(g)
             B == Squares(b)
  <1>1. B \subseteq Rows \X Columns /\ \A p \in B : g[p[1]][p[2]] = Unset
    BY ClearInside, Zenon
  <1>2. \A p \in Rows \X Columns : p[1] \in Rows /\ p[2] \in Columns /\ <<p[1], p[2]>> = p
    OBVIOUS
  <1>3. \A y \in Rows : \A x \in Columns :
          h[y][x] = IF <<y, x>> \in B THEN b.color ELSE g[y][x]
    BY Zenon DEF finalize_block, Paint
  <1>4. \A p \in Rows \X Columns : h[p[1]][p[2]] = IF p \in B THEN b.color ELSE g[p[1]][p[2]]
    <2> HIDE DEF h, B
    <2>. QED
      BY <1>2, <1>3, Zenon
  <1> HIDE DEF h, B
  <1>5. Parts(S, A, B)
    <2>1. \A p \in S : p \in A \/ p \in B
      BY <1>4, Zenon DEF Settled
    <2>2. \A p \in A : p \in S /\ p \notin B
      BY <1>1, <1>4, Zenon DEF Settled
    <2>3. \A p \in B : p \in S
      BY <1>1, <1>4, Zenon DEF Settled
    <2> HIDE DEF S, A
    <2>. QED
      BY <2>1, <2>2, <2>3, Zenon DEF Parts
  <1>6. IsFiniteSet(S)
    <2>1. S \in SUBSET (Rows \X Columns) /\ IsFiniteSet(Rows \X Columns)
      BY WindowFinite, Zenon DEF Settled
    <2> HIDE DEF S
    <2>. QED
      BY <2>1, FS_Subset, Zenon
  <1> HIDE DEF S, A
  <1>7. Counted(S, A, B)
    BY <1>5, <1>6, TwoParts, Zenon
  <1>8. Cardinality(B) = 4
    BY SquaresFour, Zenon DEF B, Four
  <1>9. Cardinality(S) = SettledCount(h) /\ Cardinality(A) = SettledCount(g)
    BY Zenon DEF S, A, Settled, SettledCount
  <1>10. SettledCount(g) \in Nat /\ SettledCount(h) = SettledCount(g) + 4
    BY <1>7, <1>8, <1>9, Zenon DEF Counted
  <1>. QED
    BY <1>10, Zenon DEF h

\* What the count rests on: a full row never stays, and a block has a colour.
Tally ==
  /\ \A y \in Rows : ~FullRow(grid, y)
  /\ score \in Nat
  /\ started => blk.color \in Colors

\* What CellsConserved says of a step.
Conserved ==
  /\ \A y \in Rows : ~FullRow(grid', y)
  /\ \/ grid' = EmptyGrid /\ score' = score
     \/ overrun
     \/ SettledCount(grid') + GRID_WIDTH * (score' - score)
          \in {SettledCount(grid), SettledCount(grid) + 4}

\* A grid has finitely many settled squares.
LEMMA CountType ==
  ASSUME NEW g
  PROVE  SettledCount(g) \in Nat
  <1>1. Settled(g) \in SUBSET (Rows \X Columns) /\ IsFiniteSet(Rows \X Columns)
    BY WindowFinite, Zenon DEF Settled
  <1>2. IsFiniteSet(Settled(g))
    BY <1>1, FS_Subset, Zenon
  <1>3. Cardinality(Settled(g)) \in Nat
    BY <1>2, FS_CardinalityType, Zenon
  <1>. QED
    BY <1>3, Zenon DEF Settled, SettledCount

\* A new block has a colour (tetris.c 220-232).
LEMMA NewColor ==
  ASSUME NEW c, NEW b \in new_block(c)
  PROVE  b.color \in Colors /\ [b EXCEPT !.plotted = TRUE].color = b.color
  <1> DEFINE shapes(gs) == UNION { {shape_grps[g][s] : s \in DOMAIN shape_grps[g]} : g \in gs }
             groups == DOMAIN shape_grps \cap Groups[dealt + 1]
             types == shapes(groups)
  <1>1. b \in [plotted : {c.plotted}, x_pos : {GRID_WIDTH \div 2}, y_pos : {0},
               color : Colors, shp : types, grp : groups]
    BY Zenon DEF new_block
  <1> HIDE DEF types, groups
  <1>. QED
    BY <1>1

\* A landing: the block's squares settle, full rows go and are scored.
LEMMA LandTallies ==
  ASSUME IInv, Tally, Land
  PROVE  Tally' /\ Conserved
  <1> DEFINE settled == finalize_block(grid, blk)
             P == PurgedCount(settled)
  <1>1. /\ is_running /\ grid' = purge_grid(settled) /\ score' = score + P
        /\ started' = started
        /\ \E b \in new_block(blk) : blk' = b \/ blk' = [b EXCEPT !.plotted = TRUE]
    BY DEF Land
  <1>2. started
    BY <1>1 DEF IInv, BlockInside
  <1> HIDE DEF settled, P
  <1>3. \A y \in Rows : ~FullRow(grid', y)
    BY <1>1, NoFullRowLeft, Zenon
  <1>4. P \in Nat
    BY PurgedCounts, Zenon DEF P
  <1>5. score' \in Nat
    BY <1>1, <1>4 DEF Tally
  <1>6. blk'.color \in Colors
    <2>1. PICK b \in new_block(blk) : blk' = b \/ blk' = [b EXCEPT !.plotted = TRUE]
      BY <1>1, Zenon
    <2>2. b.color \in Colors /\ [b EXCEPT !.plotted = TRUE].color = b.color
      BY NewColor, Zenon
    <2>. QED
      BY <2>1, <2>2, Zenon
  <1>7. ASSUME ~overrun
        PROVE  SettledCount(grid') + GRID_WIDTH * (score' - score) = SettledCount(grid) + 4
    <2>1. ~is_block_clashing(grid, blk)
      BY <1>1, <1>7, Zenon DEF IInv, NoOverlap
    <2>2. blk \in Block /\ Dealt(blk) /\ blk.color # Unset
      BY <1>2, DealAssumption, Zenon DEF IInv, Tally
    <2>3. SettledCount(settled) = SettledCount(grid) + 4
      BY <2>1, <2>2, SettleCount, Zenon DEF settled
    <2>4. SettledCount(settled) = SettledCount(grid') + P * GRID_WIDTH
      BY <1>1, PurgeCount, Zenon DEF P
    <2>5. SettledCount(grid') \in Nat /\ SettledCount(grid) \in Nat
      BY CountType, Zenon
    <2>6. GRID_WIDTH \in Nat
      BY WindowFinite, Zenon
    <2>7. score' - score = P
      BY <1>1, <1>4 DEF Tally
    <2>8. \A w, p \in Nat : w * p = p * w
      OBVIOUS
    <2>9. GRID_WIDTH * (score' - score) = P * GRID_WIDTH
      BY <1>4, <2>6, <2>7, <2>8, Zenon
    <2>. QED
      BY <2>3, <2>4, <2>9, Zenon
  <1>8. overrun \in BOOLEAN
    BY DEF IInv
  <1>9. Conserved
    BY <1>3, <1>7, <1>8, Zenon DEF Conserved
  <1>10. Tally'
    BY <1>3, <1>5, <1>6, Zenon DEF Tally, FullRow, Rows, Columns, Unset
  <1>. QED
    BY <1>9, <1>10, Zenon

\* A step that leaves grid and score alone.
LEMMA OthersTally ==
  ASSUME IInv, Tally, UNCHANGED <<grid, score>>, started' => blk'.color \in Colors
  PROVE  Tally' /\ Conserved
  <1>1. grid' = grid /\ score' = score
    BY Zenon
  <1>2. \A y \in Rows : ~FullRow(grid', y)
    BY <1>1, Zenon DEF Tally
  <1>3. SettledCount(grid') + GRID_WIDTH * (score' - score) = SettledCount(grid)
    <2>1. SettledCount(grid) \in Nat /\ GRID_WIDTH \in Nat /\ score \in Nat
      BY CountType, WindowFinite, Zenon DEF Tally
    <2>2. \A n, w, s \in Nat : n + w * (s - s) = n
      OBVIOUS
    <2>. QED
      BY <1>1, <2>1, <2>2, Zenon
  <1>4. Tally'
    BY <1>1, <1>2, Zenon DEF Tally, FullRow, Rows, Columns, Unset
  <1>. QED
    BY <1>2, <1>3, <1>4, Zenon DEF Conserved

\* Every step keeps the tally.
LEMMA StepTallies ==
  ASSUME IInv, Tally, [Next]_vars
  PROVE  Tally' /\ (Conserved \/ UNCHANGED vars)
  <1>1. CASE tetris_start
    <2>1. UNCHANGED <<grid, score>>
      BY <1>1 DEF tetris_start
    <2>2. blk'.color \in Colors
      <3>1. CASE started
        <4>1. blk' = blk
          BY <1>1, <3>1 DEF tetris_start
        <4>. QED
          BY <3>1, <4>1, Zenon DEF Tally
      <3>2. CASE ~started
        <4>1. blk' \in new_block(blk)
          BY <1>1, <3>2, Zenon DEF tetris_start
        <4>. QED
          BY <4>1, NewColor, Zenon
      <3>. QED
        BY <3>1, <3>2, Zenon
    <2>. QED
      BY <2>1, <2>2, OthersTally, Zenon
  <1>2. CASE tetris_reset
    <2>1. grid' = EmptyGrid /\ score' = score /\ blk' \in new_block(blk)
      BY <1>2, Zenon DEF tetris_reset
    <2>2. blk'.color \in Colors
      BY <2>1, NewColor, Zenon
    <2>3. \A y \in Rows : ~FullRow(grid', y)
      <3>1. 0 \in Columns
        BY WindowFinite, Zenon
      <3>. QED
        BY <2>1, <3>1, Zenon DEF FullRow, EmptyGrid
    <2>4. Tally'
      BY <2>1, <2>2, <2>3, Zenon DEF Tally, FullRow, Rows, Columns, Unset
    <2>. QED
      BY <2>1, <2>3, <2>4, Zenon DEF Conserved
  <1>3. CASE Land
    BY <1>3, LandTallies, Zenon
  <1>4. CASE \/ Move([blk EXCEPT !.y_pos = @ + 1]) \/ Move([blk EXCEPT !.x_pos = @ - 1])
             \/ Move([blk EXCEPT !.x_pos = @ + 1]) \/ Move(rotate_block(blk))
    <2>1. PICK moved : /\ Move(moved)
                       /\ \/ moved = [blk EXCEPT !.y_pos = @ + 1]
                          \/ moved = [blk EXCEPT !.x_pos = @ - 1]
                          \/ moved = [blk EXCEPT !.x_pos = @ + 1]
                          \/ moved = rotate_block(blk)
      BY <1>4, Zenon
    <2>2. /\ UNCHANGED <<grid, score>> /\ is_running
          /\ blk' = [moved EXCEPT !.plotted = TRUE]
      BY <2>1, Zenon DEF Move
    <2>3. blk \in Block /\ Dealt(blk) /\ started
      BY <2>2 DEF IInv, BlockInside
    <2>4. moved \in Block /\ moved.color = blk.color
      <3>1. \A s : [blk EXCEPT !.shp = s].color = blk.color
        BY <2>3 DEF Block
      <3>2. rotate_block(blk).color = blk.color
        BY <3>1, Zenon DEF rotate_block
      <3>3. rotate_block(blk) \in Block
        BY <2>3, Rotated
      <3>4. CASE moved = rotate_block(blk)
        BY <3>2, <3>3, <3>4, Zenon
      <3>5. CASE \/ moved = [blk EXCEPT !.y_pos = @ + 1]
                 \/ moved = [blk EXCEPT !.x_pos = @ - 1]
                 \/ moved = [blk EXCEPT !.x_pos = @ + 1]
        BY <2>3, <3>5 DEF Block
      <3>. QED
        BY <2>1, <3>4, <3>5, Zenon
    <2>5. blk'.color = blk.color
      BY <2>2, <2>4 DEF Block
    <2>6. blk'.color \in Colors
      BY <2>3, <2>5, Zenon DEF Tally
    <2>. QED
      BY <2>2, <2>6, OthersTally, Zenon
  <1>5. CASE \E down \in BOOLEAN : CtrlKey(down)
    <2>1. UNCHANGED <<grid, score>> /\ blk' = blk /\ started' = started
      BY <1>5 DEF CtrlKey
    <2>2. started' => blk'.color \in Colors
      BY <2>1, Zenon DEF Tally
    <2>. QED
      BY <2>1, <2>2, OthersTally, Zenon
  <1>6. CASE UNCHANGED vars
    <2>1. UNCHANGED <<grid, score>> /\ blk' = blk /\ started' = started
      BY <1>6 DEF vars
    <2>2. started' => blk'.color \in Colors
      BY <2>1, Zenon DEF Tally
    <2>. QED
      BY <2>1, <2>2, OthersTally, Zenon
  <1>. QED
    BY <1>1, <1>2, <1>3, <1>4, <1>5, <1>6 DEF Next, keyboard_interrupt_handler,
       timer_interrupt_handler, on_key_arrow_down, on_key_arrow_left, on_key_arrow_right,
       on_key_blank

\* CellsConserved holds: short of a game resumed after its end, a step adds the
\* four squares of the block that lands or none, takes a row's worth for each
\* point scored, and leaves no full row (tetris.c 166-218 and 252-276).
THEOREM SquaresConserved == Spec => CellsConserved
  <1>1. Init => Tally
    <2> SUFFICES ASSUME Init PROVE Tally
      OBVIOUS
    <2>1. grid = EmptyGrid /\ score = 0 /\ ~started
      BY DEF Init
    <2>2. 0 \in Columns
      BY WindowFinite, Zenon
    <2>3. \A y \in Rows : ~FullRow(grid, y)
      BY <2>1, <2>2, Zenon DEF FullRow, EmptyGrid
    <2>. QED
      BY <2>1, <2>3 DEF Tally
  <1>2. IInv /\ Tally /\ [Next]_vars => Tally'
    BY StepTallies, Zenon
  <1>3. IInv /\ Tally /\ [Next]_vars => [Conserved]_vars
    BY StepTallies, Zenon
  <1>. QED
    BY <1>1, <1>2, <1>3, Invariance, PTL DEF Spec, CellsConserved, Conserved
=============================================================================
