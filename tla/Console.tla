------------------------------ MODULE Console ------------------------------
(***************************************************************************)
(* The console's output side (kernel/chr_drv/console.c): con_write() takes *)
(* one character after the other through the escape-sequence parser and    *)
(* moves the cursor, scrolls and erases.  One action is one character, and *)
(* set_cursor() behind the last; only csi_M() is one action per line that  *)
(* it deletes.                                                             *)
(*                                                                         *)
(* Video memory is counted in cells (two bytes) from video_mem_start.      *)
(* What a cell shows is left out; con.erased is history: the cells the     *)
(* last character wrote, as an interval.  The words are ConWord wide       *)
(* (2^32), and character codes that are compared with a column are         *)
(* parameters, so that a narrow screen has them.                           *)
(***************************************************************************)
EXTENDS Integers, Sequences

CONSTANTS
  ConCols, ConLines,   \* video_num_columns, video_num_lines
  ConMem,              \* video_mem_end - video_mem_start, in cells
  ConWord,             \* 2^32
  ConNpar,             \* NPAR
  ConDigits,           \* the digits that are typed
  ConSeven, ConEight   \* codes of '7' and '8'

ASSUME ConAssumption ==
  /\ ConCols \in Nat /\ ConCols >= 8
  /\ ConLines \in Nat /\ ConLines >= 1
  /\ ConMem \in Nat /\ ConMem >= ConLines * ConCols
  /\ ConWord \in Nat /\ ConWord > ConCols + ConLines + 10
  /\ ConNpar \in Nat /\ ConNpar >= 2
  /\ ConDigits \subseteq 0 .. 9
  /\ ConSeven \in Nat /\ ConEight \in Nat

VARIABLES
  con,      \* ega (an EGA or VGA), origin, scr_end, pos, x, y, top, bottom, saved_x, saved_y,
            \* erased
  conState, \* state: "normal", "esc", "square", "pars" (0 to 3); "delete": in csi_M()
  conPar    \* par[0 .. npar]; a parameter that is not there is 0; in csi_M() its nr

conVars == <<con, conState, conPar>>

NoCells == [from |-> 0, to |-> 0]
Cells(from, n) == [from |-> from, to |-> from + n]

\* parameter i; the code has cleared those that were not given
Par(i) == IF i < Len(conPar) THEN conPar[i + 1] ELSE 0
Sub(a, b) == (a - b) % ConWord
Add(a, b) == (a + b) % ConWord

ConTypeOK ==
  /\ con.origin \in Nat /\ con.scr_end \in Nat /\ con.pos \in Nat
  /\ con.x \in 0 .. ConWord - 1 /\ con.y \in 0 .. ConWord - 1
  /\ conState \in {"normal", "esc", "square", "pars", "delete"}
  /\ conPar \in Seq(0 .. ConWord - 1) /\ Len(conPar) \in 1 .. ConNpar

\* con_init(), for each kind of display and wherever the BIOS left the cursor
ConInit ==
  /\ con \in {[ega |-> ega, origin |-> 0, scr_end |-> ConLines * ConCols, pos |-> y * ConCols + x,
               x |-> x, y |-> y, top |-> 0, bottom |-> ConLines,
               saved_x |-> 0, saved_y |-> 0, erased |-> NoCells]
                : ega \in BOOLEAN, x \in 0 .. ConCols - 1, y \in 0 .. ConLines - 1}
  /\ conState = "normal" /\ conPar = <<0>>

----------------------------------------------------------------------------
\* gotoxy()
Gotoxy(c, x, y) ==
  IF x > ConCols \/ y >= ConLines THEN c
  ELSE [c EXCEPT !.x = x, !.y = y, !.pos = c.origin + y * ConCols + x]

\* the cells between top and bottom, moved by a line up or down
Region(c) == Cells(c.origin + c.top * ConCols, (c.bottom - c.top) * ConCols)

\* scrup(): a whole EGA screen scrolls by moving its origin, and is copied to the
\* start of video memory when it reaches the end
Scrup(c) ==
  LET origin == c.origin + ConCols
      end == c.scr_end + ConCols
  IN IF ~c.ega \/ c.top # 0 \/ c.bottom # ConLines THEN [c EXCEPT !.erased = Region(c)]
     ELSE IF end > ConMem
       THEN [c EXCEPT !.origin = 0, !.scr_end = end - origin,
                      !.pos = @ + ConCols - origin, !.erased = Cells(0, ConLines * ConCols)]
     ELSE [c EXCEPT !.origin = origin, !.scr_end = end, !.pos = @ + ConCols,
                    !.erased = Cells(end - ConCols, ConCols)]

\* scrdown()
Scrdown(c) == [c EXCEPT !.erased = Region(c)]

\* lf(), ri(), cr(), del()
Lf(c) == IF c.y + 1 < c.bottom THEN [c EXCEPT !.y = @ + 1, !.pos = @ + ConCols] ELSE Scrup(c)
Ri(c) == IF c.y > c.top THEN [c EXCEPT !.y = @ - 1, !.pos = @ - ConCols] ELSE Scrdown(c)
Cr(c) == [c EXCEPT !.pos = @ - c.x, !.x = 0]
Bs(c) == IF c.x > 0 THEN [c EXCEPT !.x = @ - 1, !.pos = @ - 1] ELSE c
Del(c) == IF c.x > 0 THEN [Bs(c) EXCEPT !.erased = Cells(c.pos - 1, 1)] ELSE c

\* an overlong line continues on the next
Wrap(c) == Lf([c EXCEPT !.x = @ - ConCols, !.pos = @ - ConCols])

\* a printing character
Put(c) ==
  LET d == IF c.x >= ConCols THEN Wrap(c) ELSE c
  IN [d EXCEPT !.x = @ + 1, !.pos = @ + 1, !.erased = Cells(d.pos, 1)]

\* a tab
Tab(c) ==
  LET n == 8 - (c.x % 8)
      d == [c EXCEPT !.x = @ + n, !.pos = @ + n]
  IN IF d.x > ConCols THEN Wrap(d) ELSE d

\* csi_J() and csi_K()
CsiJ(c, par) ==
  [c EXCEPT !.erased = CASE par = 0 -> Cells(c.pos, c.scr_end - c.pos)
                         [] par = 1 -> Cells(c.origin, c.pos - c.origin)
                         [] par = 2 -> Cells(c.origin, ConCols * ConLines)
                         [] OTHER -> NoCells]
CsiK(c, par) ==
  [c EXCEPT !.erased =
     CASE par = 0 /\ c.x < ConCols -> Cells(c.pos, ConCols - c.x)
       [] par = 1 -> Cells(c.pos - c.x, IF c.x < ConCols THEN c.x ELSE ConCols)
       [] par = 2 -> Cells(c.pos - c.x, ConCols)
       [] OTHER -> NoCells]

\* insert_char() and delete_char(): the rest of the line is written
RestOfLine(c) ==
  IF c.x >= ConCols THEN c ELSE [c EXCEPT !.erased = Cells(c.pos, ConCols - c.x)]

\* insert_line() and delete_line() scroll the region from the cursor's line down
FromHere(c) == [c EXCEPT !.top = c.y, !.bottom = ConLines]
Restore(c, d) == [d EXCEPT !.top = c.top, !.bottom = c.bottom]
InsertLine(c) == Restore(c, Scrdown(FromHere(c)))
DeleteLine(c) == Restore(c, Scrup(FromHere(c)))

\* csi_M() deletes nr lines, at least one, at most a screen
Times(nr) == IF nr > ConLines THEN ConLines ELSE IF nr = 0 THEN 1 ELSE nr

\* save_cur() and restore_cur()
SaveCur(c) == [c EXCEPT !.saved_x = c.x, !.saved_y = c.y]
RestoreCur(c) == Gotoxy(c, c.saved_x, c.saved_y)

Less1(n) == IF n > 0 THEN n - 1 ELSE 0      \* if (par) par--
More1(n) == IF n = 0 THEN 1 ELSE n          \* if (!par) par++

\* 'r': the scrolling region
MutGoodRegion(t, b) == t < b
GoodRegion(t, b) == t < b /\ b <= ConLines
SetRegion(c) ==
  LET t == Less1(Par(0))
      b == IF Par(1) = 0 THEN ConLines ELSE Par(1)
  IN IF GoodRegion(t, b) THEN [c EXCEPT !.top = t, !.bottom = b] ELSE c

\* the character that ends an escape sequence with parameters ('M' is csi_M() below)
Final(c, ch) ==
  LET n == More1(Par(0))
  IN CASE ch = "G" -> Gotoxy(c, Less1(Par(0)), c.y)
       [] ch = "A" -> Gotoxy(c, c.x, Sub(c.y, n))
       [] ch = "B" -> Gotoxy(c, c.x, Add(c.y, n))
       [] ch = "C" -> Gotoxy(c, Add(c.x, n), c.y)
       [] ch = "D" -> Gotoxy(c, Sub(c.x, n), c.y)
       [] ch = "E" -> Gotoxy(c, 0, Add(c.y, n))
       [] ch = "F" -> Gotoxy(c, 0, Sub(c.y, n))
       [] ch = "d" -> Gotoxy(c, c.x, Less1(Par(0)))
       [] ch = "H" -> Gotoxy(c, Less1(Par(1)), Less1(Par(0)))
       [] ch = "J" -> CsiJ(c, Par(0))
       [] ch = "K" -> CsiK(c, Par(0))
       [] ch = "L" -> InsertLine(c)
       [] ch \in {"P", "@"} -> RestOfLine(c)
       [] ch = "r" -> SetRegion(c)
       [] ch = "s" -> SaveCur(c)
       [] ch = "u" -> RestoreCur(c)
       [] OTHER -> c
Finals == {"G", "A", "B", "C", "D", "E", "F", "d", "H", "J", "K", "L", "M", "P", "r", "s", "u", "m"}

Quiet == [con EXCEPT !.erased = NoCells]    \* nothing written yet

\* state 0
PutChar(ch) ==
  /\ conState = "normal"
  /\ con' = CASE ch = "print" -> Put(Quiet) [] ch = "lf" -> Lf(Quiet) [] ch = "cr" -> Cr(Quiet)
              [] ch = "erase" -> Del(Quiet) [] ch = "bs" -> Bs(Quiet) [] ch = "tab" -> Tab(Quiet)
              [] OTHER -> Quiet
  /\ conState' = IF ch = "esc" THEN "esc" ELSE "normal"
  /\ UNCHANGED conPar

\* state 1; ESC 7 and ESC 8 look at the column x instead of the character
EscChar(ch) ==
  /\ conState = "esc"
  /\ con' = CASE ch = "E" -> Gotoxy(Quiet, 0, con.y + 1) [] ch = "M" -> Ri(Quiet)
              [] ch = "D" -> Lf(Quiet)
              [] ch = "other" /\ con.x = ConSeven -> SaveCur(Quiet)
              [] ch = "other" /\ con.x = ConEight -> RestoreCur(Quiet)
              [] OTHER -> Quiet
  /\ conState' = IF ch = "[" THEN "square" ELSE "normal"
  /\ UNCHANGED conPar

\* state 2 clears the parameters and, unless it meets '?', goes on as state 3
Question ==
  /\ conState = "square"
  /\ con' = Quiet /\ conState' = "pars" /\ conPar' = <<0>>

\* state 3: a semicolon starts the next parameter, a digit belongs to the last;
\* anything else ends the sequence
Pars == IF conState = "square" THEN <<0>> ELSE conPar

MutRoomForPar(n) == n <= ConNpar
RoomForPar(n) == n < ConNpar

Semicolon ==
  /\ conState \in {"square", "pars"} /\ RoomForPar(Len(Pars))
  /\ con' = Quiet /\ conState' = "pars"
  /\ conPar' = Append(Pars, 0)

Digit(d) ==
  /\ conState \in {"square", "pars"}
  /\ con' = Quiet /\ conState' = "pars"
  /\ conPar' = [Pars EXCEPT ![Len(Pars)] = (10 * @ + d) % ConWord]

FinalChar(ch) ==
  /\ conState \in {"square", "pars"}
  /\ con' = Final(Quiet, ch)
  /\ conState' = IF ch = "M" THEN "delete" ELSE "normal"
  /\ conPar' = IF ch = "M" THEN <<Times(Par(0))>> ELSE <<0>>

\* a round of the loop of csi_M()
CsiM ==
  /\ conState = "delete"
  /\ con' = DeleteLine(Quiet)
  /\ conState' = IF conPar[1] = 1 THEN "normal" ELSE "delete"
  /\ conPar' = <<conPar[1] - 1>>

ConNext ==
  \/ \E ch \in {"print", "esc", "lf", "cr", "erase", "bs", "tab", "beep"} : PutChar(ch)
  \/ \E ch \in {"[", "E", "M", "D", "other"} : EscChar(ch)
  \/ Question
  \/ Semicolon
  \/ \E d \in ConDigits : Digit(d)
  \/ \E ch \in Finals : FinalChar(ch)
  \/ CsiM

ConSpec == ConInit /\ [][ConNext]_conVars

----------------------------------------------------------------------------
\* For every sequence of characters, escape sequences with absurd or overflowing
\* parameters included: pos is the cell of column x and line y, the screen lies
\* in video memory, the scrolling region is not empty and lies on the screen, and
\* nothing outside the screen was written.  ("gotoxy thinks x==video_num_columns
\* is ok": a cursor there must not be written through.)
ConInside ==
  /\ con.pos = con.origin + con.y * ConCols + con.x
  /\ con.x <= ConCols /\ con.y < ConLines
  /\ con.scr_end = con.origin + ConLines * ConCols /\ con.scr_end <= ConMem
  /\ con.top < con.bottom /\ con.bottom <= ConLines
  /\ con.erased.from < con.erased.to =>
       con.origin <= con.erased.from /\ con.erased.to <= con.scr_end
=============================================================================
