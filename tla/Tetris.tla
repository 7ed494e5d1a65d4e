------------------------------- MODULE Tetris -------------------------------
(***************************************************************************)
(* The game the guest runs: guest/tetris.c, and the two guest interrupt     *)
(* handlers that drive it, guest/keyboard.c and guest/timer.c.  Both run    *)
(* behind interrupt gates on one virtual CPU, so a handler is one step.     *)
(*                                                                          *)
(* A grid cell is the colour of the settled square or Unset.  A cell of the *)
(* window the game draws in video memory is a colour (a blank on that       *)
(* background), Unset (a dot on black), or Text (what video memory held     *)
(* before the game drew there).  The frame around the window is left out.   *)
(***************************************************************************)
EXTENDS Integers, Sequences, FiniteSets

CONSTANTS
    GRID_WIDTH, GRID_HEIGHT,
    Colors,     \* what rand() can pick from colors[]
    MaxBlocks,  \* bound on the blocks dealt by new_block
    Groups      \* Groups[n]: what rand() can pick from shape_grps for the n-th block,
                \* a bound; all four groups in the code

Unset == "."
Text == "text"

\* The squares of a shape, as <<y offset, x offset>>; a group's shapes are
\* the rotations of one another, in turning order.
shape_grps ==
    << << {<<0, 0>>, <<0, 1>>, <<1, 1>>, <<1, 2>>},
          {<<0, 1>>, <<1, 1>>, <<1, 0>>, <<2, 0>>} >>,
       << {<<0, 0>>, <<1, 0>>, <<2, 0>>, <<3, 0>>},
          {<<0, 0>>, <<0, 1>>, <<0, 2>>, <<0, 3>>} >>,
       << {<<0, 1>>, <<1, 0>>, <<1, 1>>, <<1, 2>>},
          {<<0, 0>>, <<1, 0>>, <<1, 1>>, <<2, 0>>},
          {<<0, 0>>, <<0, 1>>, <<0, 2>>, <<1, 1>>},
          {<<0, 1>>, <<1, 0>>, <<1, 1>>, <<2, 1>>} >>,
       << {<<0, 0>>, <<0, 1>>, <<1, 0>>, <<1, 1>>} >> >>

\* A new block lies at column GRID_WIDTH / 2 of row 0 and spans at most four
\* columns and rows; the code's 16 x 20 grid leaves it room.
ASSUME GridAssumption ==
    /\ GRID_WIDTH \in Nat /\ GRID_HEIGHT \in Nat
    /\ (GRID_WIDTH \div 2) + 4 <= GRID_WIDTH
    /\ 4 <= GRID_HEIGHT

ASSUME DealAssumption ==
    /\ DOMAIN Groups = 1 .. MaxBlocks
    /\ Unset \notin Colors /\ Text \notin Colors

Rows == 0 .. (GRID_HEIGHT - 1)
Columns == 0 .. (GRID_WIDTH - 1)

VARIABLES
    grid,       \* grid[y][x]
    blk,        \* the falling block
    screen,     \* screen[y][x]: the game's window in video memory
    is_running, started, score, ctrl_down,
    dealt,      \* blocks dealt so far, for the bound
    overrun     \* history: Enter resumed a game that was over, and no reset since

vars == <<grid, blk, screen, is_running, started, score, ctrl_down, dealt, overrun>>

\* struct block after tetris_init's memset: no shape yet.
NoBlock == [plotted |-> FALSE, x_pos |-> 0, y_pos |-> 0,
            color |-> Unset, shp |-> {}, grp |-> 0]

\* memset(grid, 0x0, ...) copies the guest's page 0, which holds zeroes only.
EmptyGrid == [y \in Rows |-> [x \in Columns |-> Unset]]

\* The positions <<y, x>> a block covers.
Squares(b) == {<<b.y_pos + p[1], b.x_pos + p[2]>> : p \in b.shp}

-----------------------------------------------------------------------------

\* Every cell of the window drawn afresh, a blank on the colour of a settled
\* square or a dot: the cell of the grid it stands for.
init_grid(g) == [y \in Rows |-> [x \in Columns |-> g[y][x]]]

\* The window with the squares of block b painted in cell value c.
Paint(s, b, c) ==
    LET squares == Squares(b)
    IN  [y \in Rows |-> [x \in Columns |-> IF <<y, x>> \in squares THEN c ELSE s[y][x]]]

plot_shape(s, b) == Paint(s, b, b.color)

\* unplot_block and unplot_shape: nothing to erase unless the flag is set.
unplot_block(s, b) == IF b.plotted THEN Paint(s, b, Unset) ELSE s

\* Mutant: a rotation puts the block back at the top.
rotate_block_from_the_top(b) == [b EXCEPT !.y_pos = 0]

\* The next shape of the block's group, at the same position.
rotate_block(b) ==
    LET shapes  == shape_grps[b.grp]
        current == CHOOSE i \in DOMAIN shapes : shapes[i] = b.shp
    IN  [b EXCEPT !.shp = shapes[(current % Len(shapes)) + 1]]

\* Mutant: the right edge is not tested.
is_block_clashing_no_right(g, b) ==
    ~ \A p \in Squares(b) : /\ p[1] \in Rows
                             /\ p[2] >= 0
                             /\ p[2] \in Columns => g[p[1]][p[2]] = Unset

\* Off the grid, or over a settled square.
is_block_clashing(g, b) ==
    ~ \A p \in Squares(b) : /\ p[1] \in Rows
                             /\ p[2] \in Columns
                             /\ g[p[1]][p[2]] = Unset

finalize_block(g, b) == Paint(g, b, b.color)

FullRow(g, y) == \A x \in Columns : g[y][x] # Unset

\* What a turn of the first loop adds to rows_left: a row with a gap.
Gathered(g, y) == IF FullRow(g, y) THEN <<>> ELSE <<y>>

\* rows_left: the rows with a gap, from the bottom up.
RowsLeft(g) ==
    LET turn[n \in 0 .. GRID_HEIGHT] ==
          IF n = 0 THEN <<>> ELSE turn[n - 1] \o Gathered(g, GRID_HEIGHT - n)
    IN  turn[GRID_HEIGHT]

PurgedCount(g) == GRID_HEIGHT - Len(RowsLeft(g))

\* Mutant: the rows above the ones left keep their squares.
purge_grid_uncleared(g) ==
    LET kept == RowsLeft(g)
    IN  [y \in Rows |-> IF GRID_HEIGHT - y <= Len(kept) THEN g[kept[GRID_HEIGHT - y]]
                        ELSE g[y]]

\* The rows left settle at the bottom in their order, the rest is cleared.
purge_grid(g) ==
    LET kept == RowsLeft(g)
    IN  [y \in Rows |-> IF GRID_HEIGHT - y <= Len(kept) THEN g[kept[GRID_HEIGHT - y]]
                        ELSE [x \in Columns |-> Unset]]

\* The blocks new_block may leave in *b: the plotted flag is not touched.
new_block(b) ==
    LET groups == DOMAIN shape_grps \cap Groups[dealt + 1]
        shapes == UNION { {shape_grps[g][s] : s \in DOMAIN shape_grps[g]} : g \in groups }
    IN  { n \in [plotted : {b.plotted}, x_pos : {GRID_WIDTH \div 2}, y_pos : {0},
                 color : Colors, shp : shapes, grp : groups] :
            \E s \in DOMAIN shape_grps[n.grp] : n.shp = shape_grps[n.grp][s] }

-----------------------------------------------------------------------------

Init ==
    /\ grid = EmptyGrid
    /\ blk = NoBlock
    /\ screen = [y \in Rows |-> [x \in Columns |-> Text]]
    /\ is_running = FALSE /\ started = FALSE
    /\ score = 0
    /\ ctrl_down = FALSE
    /\ dealt = 0
    /\ overrun = FALSE

\* Mutant: the block is drawn again without erasing it.
Move_no_unplot(moved) ==
    /\ is_running
    /\ ~is_block_clashing(grid, moved)
    /\ blk' = [moved EXCEPT !.plotted = TRUE]
    /\ screen' = plot_shape(screen, moved)
    /\ UNCHANGED <<grid, is_running, started, score, dealt, overrun>>

\* The tail of every move: unplot, change, plot, unless the moved block clashes.
Move(moved) ==
    /\ is_running
    /\ ~is_block_clashing(grid, moved)
    /\ blk' = [moved EXCEPT !.plotted = TRUE]
    /\ screen' = plot_shape(unplot_block(screen, blk), moved)
    /\ UNCHANGED <<grid, is_running, started, score, dealt, overrun>>

on_key_blank == is_running /\ Move(rotate_block(blk))

on_key_arrow_left == Move([blk EXCEPT !.x_pos = @ - 1])

on_key_arrow_right == Move([blk EXCEPT !.x_pos = @ + 1])

\* The block cannot fall any further: it settles, full rows go, the window is
\* redrawn from the grid and the next block is dealt.  When that one has no
\* room the game stops, with the clashing block in blk and not drawn.
Land ==
    LET settled == finalize_block(grid, blk)
    IN  /\ is_running
        /\ is_block_clashing(grid, [blk EXCEPT !.y_pos = @ + 1])
        /\ dealt < MaxBlocks
        /\ dealt' = dealt + 1
        /\ grid' = purge_grid(settled)
        /\ score' = score + PurgedCount(settled)
        /\ \E b \in new_block(blk) :
              IF is_block_clashing(grid', b)
              THEN /\ blk' = b
                   /\ is_running' = FALSE
                   /\ screen' = init_grid(grid')
              ELSE /\ blk' = [b EXCEPT !.plotted = TRUE]
                   /\ is_running' = TRUE
                   /\ screen' = plot_shape(init_grid(grid'), b)
        /\ UNCHANGED <<started, overrun>>

on_key_arrow_down == Land \/ Move([blk EXCEPT !.y_pos = @ + 1])

\* The first call clears the screen (video_remap), draws the empty window and
\* deals a block; every call switches between running and suspended.
tetris_start ==
    /\ IF started
       THEN UNCHANGED <<screen, blk, dealt>>
       ELSE /\ dealt < MaxBlocks
            /\ dealt' = dealt + 1
            /\ screen' = init_grid(grid)
            /\ blk' \in new_block(blk)
    /\ started' = TRUE
    /\ is_running' = ~is_running
    /\ overrun' = (overrun \/ (started /\ ~is_running /\ is_block_clashing(grid, blk)))
    /\ UNCHANGED <<grid, score>>

\* The score is kept, and so is blk.plotted, although nothing is drawn.
tetris_reset ==
    /\ started
    /\ dealt < MaxBlocks
    /\ dealt' = dealt + 1
    /\ grid' = EmptyGrid
    /\ screen' = init_grid(EmptyGrid)
    /\ blk' \in new_block(blk)
    /\ is_running' = TRUE
    /\ overrun' = FALSE
    /\ UNCHANGED <<started, score>>

CtrlKey(down) ==
    /\ ctrl_down' = down
    /\ UNCHANGED <<grid, blk, screen, is_running, started, score, dealt, overrun>>

\* One scan code.  When the data port has none (inb returns 0) the handler
\* switches on an uninitialised byte: any of these, or nothing.
keyboard_interrupt_handler ==
    \/ tetris_start /\ UNCHANGED ctrl_down
    \/ ctrl_down /\ tetris_reset /\ UNCHANGED ctrl_down
    \/ \E down \in BOOLEAN : CtrlKey(down)
    \/ on_key_arrow_down /\ UNCHANGED ctrl_down
    \/ on_key_arrow_left /\ UNCHANGED ctrl_down
    \/ on_key_arrow_right /\ UNCHANGED ctrl_down
    \/ on_key_blank /\ UNCHANGED ctrl_down

\* A tick at least 500 ms after the last one that counted; the others only
\* read the time-stamp counter.
timer_interrupt_handler == on_key_arrow_down /\ UNCHANGED ctrl_down

Next == keyboard_interrupt_handler \/ timer_interrupt_handler

\* Timer interrupts keep coming and tsc_last only moves when a tick counts, so
\* a tick that finds 500 ms gone is never put off for ever.
Spec == Init /\ [][Next]_vars /\ WF_vars(timer_interrupt_handler)

-----------------------------------------------------------------------------

\* grid[y][x] is only ever indexed inside the array by finalize_block and by
\* the drawing code: the block of a started game lies on the grid at every
\* step, after a rotation at the edge, a reset, and a game resumed after it
\* was over included.
BlockInside ==
    /\ is_running => started
    /\ started => blk.shp # {} /\ Squares(blk) \subseteq Rows \X Columns

\* The window shows the settled squares and at most the block over them,
\* although the plotted flag goes stale (new_block keeps it, reset does not
\* draw) and the window is redrawn only when a block lands.  Enter after the
\* game is over resumes it with a block over settled squares; unplot_block
\* then erases squares of the grid from the screen, so such games are excluded.
ScreenAgrees ==
    started /\ ~overrun => screen \in {grid, plot_shape(grid, blk)}

\* A running game that was not resumed after it was over never has its block
\* over settled squares, so landing never paints over one.
NoOverlap == is_running /\ ~overrun => ~is_block_clashing(grid, blk)

SettledCount(g) == Cardinality({p \in Rows \X Columns : g[p[1]][p[2]] # Unset})

\* No step loses or invents settled squares: the grid is reset, or gains the
\* block's four squares less one row's worth for each point scored, or none;
\* and it never keeps a full row.
CellsConserved ==
    [][ /\ \A y \in Rows : ~FullRow(grid', y)
        /\ \/ grid' = EmptyGrid /\ score' = score
           \/ overrun
           \/ SettledCount(grid') + GRID_WIDTH * (score' - score)
                \in {SettledCount(grid), SettledCount(grid) + 4} ]_vars

\* Whatever keys are pressed, the blocks of a running game keep landing until
\* the game stops or is suspended (or every block of the bound is dealt): the
\* moves a player makes never hold a block up for ever.
BlocksLand == is_running ~> (~is_running \/ dealt = MaxBlocks)

=============================================================================
