--------------------------- MODULE TerminalProofs ---------------------------
(***************************************************************************)
(* The console and the terminals, for every value of the constants.        *)
(*                                                                         *)
(* The console: for every size of screen and of video memory, every width  *)
(* of a word and every sequence of characters.  Good(c) is ConInside for a *)
(* console c, with its types: each function of console.c takes a good      *)
(* console to a good one, which is one lemma per function, and con_write() *)
(* is built from them.  The lemmas about whole lines come first: they are  *)
(* where columns times lines are multiplied.                               *)
(*                                                                         *)
(* The terminal: for every size of its queues and every input.  What was   *)
(* received is a part P that copy_to_cooked() has taken from the read      *)
(* queue, with the read queue behind it; LineOK() relates P to what was    *)
(* read and what is queued for the readers, one lemma per thing that can   *)
(* happen to a character (accepted, skipped, taken back, read).  The two   *)
(* loops of copy_to_cooked() keep it: a loop is a recursive function, and  *)
(* LoopExists and LoopStays are what is needed of one.                     *)
(***************************************************************************)
EXTENDS MCTerminals, SequenceTheorems, FiniteSetTheorems, WellFoundedInduction, TLAPS

Consoles ==
  [ega : BOOLEAN, origin : Nat, scr_end : Nat, pos : Nat, x : Nat, y : Nat, top : Nat,
   bottom : Nat, saved_x : Nat, saved_y : Nat, erased : [from : Nat, to : Nat]]

\* the cells of e lie on the screen of c
OnScreen(c, e) == e.from < e.to => c.origin <= e.from /\ e.to <= c.scr_end

\* the number of cells above a line
Line == [n \in Nat |-> n * ConCols]

Good(c) ==
  /\ c \in Consoles
  /\ c.pos = c.origin + Line[c.y] + c.x
  /\ c.x <= ConCols /\ c.y < ConLines
  /\ c.scr_end = c.origin + Line[ConLines] /\ c.scr_end <= ConMem
  /\ c.top < c.bottom /\ c.bottom <= ConLines
  /\ OnScreen(c, c.erased)

GoodPars ==
  /\ conState \in {"normal", "esc", "square", "pars", "delete"}
  /\ conPar \in Seq(0 .. ConWord - 1) /\ Len(conPar) \in 1 .. ConNpar
  /\ conState = "delete" => conPar[1] # 0

IInv == Good(con) /\ GoodPars

-----------------------------------------------------------------------------
\* Lines have ConCols cells each and follow one another, and the screen fits in
\* video memory.
LEMMA LineFacts ==
  /\ \A n \in Nat : Line[n] \in Nat
  /\ \A n, m \in Nat : m = n + 1 => Line[m] = Line[n] + ConCols
  /\ \A n, m \in Nat : n <= m => Line[n] <= Line[m]
  /\ Line[0] = 0 /\ ConCols \in Nat /\ ConLines \in Nat \ {0} /\ ConMem \in Nat
  /\ Line[ConLines] <= ConMem /\ ConCols >= 8
  BY ConAssumption DEF Line

\* What the lemmas need of a good console: its fields are numbers and the
\* cursor's line lies on the screen.
Facts(c) ==
  /\ c.origin \in Nat /\ c.scr_end \in Nat /\ c.pos \in Nat /\ c.x \in Nat /\ c.y \in Nat
  /\ c.top \in Nat /\ c.bottom \in Nat /\ c.saved_x \in Nat /\ c.saved_y \in Nat
  /\ c.pos = c.origin + Line[c.y] + c.x /\ c.x <= ConCols /\ c.y < ConLines
  /\ c.scr_end = c.origin + Line[ConLines] /\ c.scr_end <= ConMem
  /\ c.top < c.bottom /\ c.bottom <= ConLines
  /\ Line[c.y] \in Nat /\ Line[ConLines] \in Nat /\ Line[c.y] + ConCols <= Line[ConLines]
  /\ Line[c.y + 1] = Line[c.y] + ConCols
  /\ ConCols \in Nat /\ ConCols >= 8 /\ ConLines \in Nat /\ ConMem \in Nat

\* They follow from what it is for a console to be good.
LEMMA FactsHold == ASSUME NEW c, Good(c) PROVE Facts(c)
  <1>1. /\ c.y \in Nat /\ c.y + 1 \in Nat /\ ConLines \in Nat /\ c.y + 1 <= ConLines
    BY LineFacts DEF Good, Consoles
  <1>2. /\ Line[c.y] \in Nat /\ Line[ConLines] \in Nat /\ Line[c.y] + ConCols <= Line[ConLines]
        /\ Line[c.y + 1] = Line[c.y] + ConCols
    BY <1>1, LineFacts
  <1> QED BY <1>1, <1>2, LineFacts DEF Good, Consoles, Facts

\* The cursor may be moved about on the screen ...
LEMMA MoveGood ==
  ASSUME NEW c, Good(c), NEW x \in Nat, NEW y \in Nat, x <= ConCols, y < ConLines
  PROVE  Good([c EXCEPT !.x = x, !.y = y, !.pos = c.origin + Line[y] + x])
  <1> DEFINE p == c.origin + Line[y] + x
             r == [c EXCEPT !.x = x, !.y = y, !.pos = p]
  <1>1. p \in Nat
    BY FactsHold, LineFacts DEF Facts
  <1>2. r \in Consoles
    BY <1>1 DEF Good, Consoles
  <1>3. /\ r.x = x /\ r.y = y /\ r.pos = p /\ r.origin = c.origin /\ r.scr_end = c.scr_end
        /\ r.top = c.top /\ r.bottom = c.bottom /\ r.erased = c.erased
    BY DEF Good, Consoles
  <1> HIDE DEF r
  <1>4. Good(r)
    BY <1>2, <1>3 DEF Good, OnScreen
  <1> QED BY <1>4 DEF r

\* ... and any cells of the screen be written ...
LEMMA WriteGood ==
  ASSUME NEW c, Good(c), NEW e \in [from : Nat, to : Nat], OnScreen(c, e)
  PROVE  Good([c EXCEPT !.erased = e])
  <1> DEFINE r == [c EXCEPT !.erased = e]
  <1>1. r \in Consoles
    BY DEF Good, Consoles
  <1>2. /\ r.x = c.x /\ r.y = c.y /\ r.pos = c.pos /\ r.origin = c.origin /\ r.scr_end = c.scr_end
        /\ r.top = c.top /\ r.bottom = c.bottom /\ r.erased = e
    BY DEF Good, Consoles
  <1> HIDE DEF r
  <1>3. Good(r)
    BY <1>1, <1>2 DEF Good, OnScreen
  <1> QED BY <1>3 DEF r

\* ... and any part of it scroll.
LEMMA RegionGood ==
  ASSUME NEW c, Good(c), NEW t \in Nat, NEW b \in Nat, t < b, b <= ConLines
  PROVE  Good([c EXCEPT !.top = t, !.bottom = b])
  <1> DEFINE r == [c EXCEPT !.top = t, !.bottom = b]
  <1>1. r \in Consoles
    BY DEF Good, Consoles
  <1>2. /\ r.x = c.x /\ r.y = c.y /\ r.pos = c.pos /\ r.origin = c.origin /\ r.scr_end = c.scr_end
        /\ r.top = t /\ r.bottom = b /\ r.erased = c.erased
    BY DEF Good, Consoles
  <1> HIDE DEF r
  <1>3. Good(r)
    BY <1>1, <1>2 DEF Good, OnScreen
  <1> QED BY <1>3 DEF r

\* The screen itself may move in video memory, the cursor with it.
LEMMA ScreenGood ==
  ASSUME NEW c, Good(c), NEW o \in Nat, NEW s \in Nat, NEW p \in Nat,
         NEW e \in [from : Nat, to : Nat],
         s = o + Line[ConLines], s <= ConMem, p = o + Line[c.y] + c.x,
         o <= e.from, e.to <= s
  PROVE  Good([c EXCEPT !.origin = o, !.scr_end = s, !.pos = p, !.erased = e])
  <1> DEFINE r == [c EXCEPT !.origin = o, !.scr_end = s, !.pos = p, !.erased = e]
  <1>1. r \in Consoles
    BY DEF Good, Consoles
  <1>2. /\ r.x = c.x /\ r.y = c.y /\ r.pos = p /\ r.origin = o /\ r.scr_end = s
        /\ r.top = c.top /\ r.bottom = c.bottom /\ r.erased = e
    BY DEF Good, Consoles
  <1> HIDE DEF r
  <1>3. Good(r)
    BY <1>1, <1>2 DEF Good, OnScreen
  <1> QED BY <1>3 DEF r

-----------------------------------------------------------------------------
\* gotoxy() refuses what is not on the screen.
LEMMA GotoxyGood ==
  ASSUME NEW c, Good(c), NEW x \in Nat, NEW y \in Nat
  PROVE  Good(Gotoxy(c, x, y))
  <1>1. CASE x > ConCols \/ y >= ConLines
    BY <1>1 DEF Gotoxy
  <1>2. CASE ~(x > ConCols \/ y >= ConLines)
    <2>1. x <= ConCols /\ y < ConLines
      BY <1>2, LineFacts
    <2>2. Gotoxy(c, x, y) = [c EXCEPT !.x = x, !.y = y, !.pos = c.origin + Line[y] + x]
      BY <1>2 DEF Gotoxy, Line
    <2>3. Good([c EXCEPT !.x = x, !.y = y, !.pos = c.origin + Line[y] + x])
      BY <2>1, MoveGood
    <2> QED BY <2>2, <2>3
  <1> QED BY <1>1, <1>2

\* The scrolling region lies on the screen.
LEMMA RegionOnScreen ==
  ASSUME NEW c, Good(c)
  PROVE  Region(c) \in [from : Nat, to : Nat] /\ OnScreen(c, Region(c))
  <1>0. Facts(c)
    BY FactsHold
  <1>1. c.top \in Nat /\ c.bottom \in Nat /\ c.top < c.bottom /\ c.bottom <= ConLines
    BY <1>0 DEF Facts
  <1>2. /\ Line[c.top] \in Nat /\ Line[c.bottom] \in Nat /\ Line[c.top] <= Line[c.bottom]
        /\ Line[c.bottom] <= Line[ConLines]
    BY <1>1, LineFacts
  <1>3. (c.bottom - c.top) * ConCols = Line[c.bottom] - Line[c.top]
    BY <1>1, LineFacts DEF Line
  <1>4. Line[c.top] = c.top * ConCols
    BY <1>1 DEF Line
  <1>5. Region(c) = [from |-> c.origin + Line[c.top],
                     to |-> c.origin + Line[c.top] + (Line[c.bottom] - Line[c.top])]
    BY <1>3, <1>4 DEF Region, Cells
  <1> QED BY <1>0, <1>2, <1>5 DEF OnScreen, Facts

\* scrup() keeps the cursor's column.
LEMMA ScrupGood ==
  ASSUME NEW c, Good(c)
  PROVE  Good(Scrup(c)) /\ Scrup(c).x = c.x
  <1> DEFINE origin == c.origin + ConCols
             end == c.scr_end + ConCols
  <1>0. Facts(c)
    BY FactsHold
  <1>1. CASE ~c.ega \/ c.top # 0 \/ c.bottom # ConLines
    <2>1. Scrup(c) = [c EXCEPT !.erased = Region(c)]
      BY <1>1 DEF Scrup
    <2>2. Scrup(c).x = c.x
      BY <2>1 DEF Good, Consoles
    <2> QED BY <2>1, <2>2, RegionOnScreen, WriteGood
  <1>2. CASE c.ega /\ c.top = 0 /\ c.bottom = ConLines /\ end > ConMem
    <2> DEFINE e == Cells(0, ConLines * ConCols)
               s == end - origin
               p == c.pos + ConCols - origin
    <2>1. Scrup(c) = [c EXCEPT !.origin = 0, !.scr_end = s, !.pos = p, !.erased = e]
      BY <1>2 DEF Scrup, Good, Consoles
    <2>2. /\ s = 0 + Line[ConLines] /\ p = 0 + Line[c.y] + c.x /\ s \in Nat /\ p \in Nat
          /\ s <= ConMem
      <3>1. s = Line[ConLines] /\ p = Line[c.y] + c.x
        BY <1>0 DEF Facts
      <3>2. s \in Nat /\ p \in Nat /\ s <= ConMem
        BY <1>0, <3>1, LineFacts DEF Facts
      <3> QED BY <1>0, <3>1, <3>2 DEF Facts
    <2>3. e \in [from : Nat, to : Nat] /\ 0 <= e.from /\ e.to = s
      BY <1>0, <2>2, LineFacts DEF Cells, Line, Facts
    <2>4. e.to <= s
      BY <2>2, <2>3
    <2> HIDE DEF e, s, p
    <2>5. Good([c EXCEPT !.origin = 0, !.scr_end = s, !.pos = p, !.erased = e])
      BY <2>2, <2>3, <2>4, ScreenGood
    <2>6. Scrup(c).x = c.x
      BY <2>1 DEF Good, Consoles
    <2> QED BY <2>1, <2>5, <2>6
  <1>3. CASE c.ega /\ c.top = 0 /\ c.bottom = ConLines /\ ~(end > ConMem)
    <2> DEFINE e == Cells(end - ConCols, ConCols)
               p == c.pos + ConCols
    <2>1. Scrup(c) = [c EXCEPT !.origin = origin, !.scr_end = end, !.pos = p, !.erased = e]
      BY <1>3 DEF Scrup, Good, Consoles
    <2>2. /\ end = origin + Line[ConLines] /\ p = origin + Line[c.y] + c.x
          /\ end \in Nat /\ p \in Nat /\ origin \in Nat /\ end <= ConMem
      BY <1>0, <1>3 DEF Facts
    <2>3. e \in [from : Nat, to : Nat] /\ origin <= e.from /\ e.to <= end
      BY <1>0 DEF Facts, Cells
    <2> HIDE DEF e, end, origin, p
    <2>4. Good([c EXCEPT !.origin = origin, !.scr_end = end, !.pos = p, !.erased = e])
      BY <2>2, <2>3, ScreenGood
    <2>5. Scrup(c).x = c.x
      BY <2>1 DEF Good, Consoles
    <2> QED BY <2>1, <2>4, <2>5
  <1> QED BY <1>0, <1>1, <1>2, <1>3 DEF Facts

\* scrdown()
LEMMA ScrdownGood == ASSUME NEW c, Good(c) PROVE Good(Scrdown(c))
  BY RegionOnScreen, WriteGood DEF Scrdown

\* lf() keeps the cursor's column.
LEMMA LfGood ==
  ASSUME NEW c, Good(c)
  PROVE  Good(Lf(c)) /\ Lf(c).x = c.x
  <1>1. CASE c.y + 1 < c.bottom
    <2>1. /\ c.y + 1 \in Nat /\ c.y + 1 < ConLines /\ c.x \in Nat /\ c.x <= ConCols
          /\ c.pos + ConCols = c.origin + Line[c.y + 1] + c.x
      BY <1>1, FactsHold DEF Facts
    <2>2. Lf(c) = [c EXCEPT !.x = c.x, !.y = c.y + 1, !.pos = c.pos + ConCols]
      BY <1>1 DEF Lf, Good, Consoles
    <2>3. Lf(c).x = c.x
      BY <2>2 DEF Good, Consoles
    <2>4. Good([c EXCEPT !.x = c.x, !.y = c.y + 1, !.pos = c.origin + Line[c.y + 1] + c.x])
      BY <2>1, MoveGood
    <2> QED BY <2>1, <2>2, <2>3, <2>4
  <1>2. CASE ~(c.y + 1 < c.bottom)
    BY <1>2, ScrupGood DEF Lf
  <1> QED BY <1>1, <1>2

\* ri()
LEMMA RiGood == ASSUME NEW c, Good(c) PROVE Good(Ri(c))
  <1>0. Facts(c)
    BY FactsHold
  <1>1. CASE c.y > c.top
    <2> DEFINE y == c.y - 1
    <2>1. y \in Nat /\ y < ConLines /\ c.y = y + 1 /\ c.x \in Nat /\ c.x <= ConCols
      BY <1>0, <1>1 DEF Facts
    <2>2. Line[c.y] = Line[y] + ConCols /\ Line[y] \in Nat
      BY <2>1, LineFacts
    <2>3. c.pos - ConCols = c.origin + Line[y] + c.x
      BY <1>0, <2>2 DEF Facts
    <2>4. Ri(c) = [c EXCEPT !.x = c.x, !.y = y, !.pos = c.pos - ConCols]
      BY <1>1 DEF Ri, Good, Consoles
    <2> HIDE DEF y
    <2>5. Good([c EXCEPT !.x = c.x, !.y = y, !.pos = c.origin + Line[y] + c.x])
      BY <2>1, MoveGood
    <2> QED BY <2>3, <2>4, <2>5
  <1>2. CASE ~(c.y > c.top)
    BY <1>2, ScrdownGood DEF Ri
  <1> QED BY <1>1, <1>2

\* cr(), a backspace and del()
LEMMA CrGood == ASSUME NEW c, Good(c) PROVE Good(Cr(c)) /\ Good(Bs(c)) /\ Good(Del(c))
  <1>0. Facts(c)
    BY FactsHold
  <1>1. Good(Cr(c))
    <2>1. Cr(c) = [c EXCEPT !.x = 0, !.y = c.y, !.pos = c.pos - c.x]
      BY DEF Cr, Good, Consoles
    <2>2. c.pos - c.x = c.origin + Line[c.y] + 0 /\ 0 <= ConCols /\ c.y \in Nat /\ c.y < ConLines
      BY <1>0 DEF Facts
    <2>3. Good([c EXCEPT !.x = 0, !.y = c.y, !.pos = c.origin + Line[c.y] + 0])
      BY <2>2, MoveGood
    <2> QED BY <2>1, <2>2, <2>3
  <1>2. CASE c.x > 0
    <2> DEFINE x == c.x - 1
    <2>1. Bs(c) = [c EXCEPT !.x = x, !.y = c.y, !.pos = c.pos - 1]
      BY <1>2 DEF Bs, Good, Consoles
    <2>2. /\ c.pos - 1 = c.origin + Line[c.y] + x /\ x <= ConCols /\ x \in Nat
          /\ c.y \in Nat /\ c.y < ConLines
      BY <1>0, <1>2 DEF Facts
    <2> HIDE DEF x
    <2>3. Good([c EXCEPT !.x = x, !.y = c.y, !.pos = c.origin + Line[c.y] + x])
      BY <2>2, MoveGood
    <2>4. Good(Bs(c))
      BY <2>1, <2>2, <2>3
    <2>5. Bs(c).origin = c.origin /\ Bs(c).scr_end = c.scr_end
      BY <2>1 DEF Good, Consoles
    <2>6. OnScreen(Bs(c), Cells(c.pos - 1, 1)) /\ Cells(c.pos - 1, 1) \in [from : Nat, to : Nat]
      BY <1>0, <1>2, <2>5 DEF OnScreen, Cells, Facts
    <2>7. Good(Del(c))
      BY <1>2, <2>4, <2>6, WriteGood DEF Del
    <2> QED BY <1>1, <2>4, <2>7
  <1>3. CASE ~(c.x > 0)
    BY <1>1, <1>3 DEF Bs, Del
  <1> QED BY <1>2, <1>3

\* A line that is too long continues on the next.
LEMMA WrapGood ==
  ASSUME NEW c, Good(c), NEW x \in Nat, x <= ConCols, NEW d,
         [d EXCEPT !.x = @ - ConCols, !.pos = @ - ConCols]
           = [c EXCEPT !.x = x, !.y = c.y, !.pos = c.origin + Line[c.y] + x]
  PROVE  Good(Wrap(d)) /\ Wrap(d).x = x
  <1> DEFINE e == [c EXCEPT !.x = x, !.y = c.y, !.pos = c.origin + Line[c.y] + x]
  <1>1. Wrap(d) = Lf(e)
    BY DEF Wrap
  <1>2. c.y \in Nat /\ c.y < ConLines
    BY DEF Good, Consoles
  <1>3. Good(e)
    BY <1>2, MoveGood
  <1>4. e.x = x
    BY DEF Good, Consoles
  <1> HIDE DEF e
  <1> QED BY <1>1, <1>3, <1>4, LfGood

\* Two ways to move the cursor on its line.
LEMMA SameLine ==
  ASSUME NEW c, Good(c), NEW a, NEW b, NEW x, NEW p
  PROVE  /\ [c EXCEPT !.x = x, !.pos = p] = [c EXCEPT !.x = x, !.y = c.y, !.pos = p]
         /\ [[c EXCEPT !.x = a, !.pos = b] EXCEPT !.x = x, !.pos = p]
              = [c EXCEPT !.x = x, !.y = c.y, !.pos = p]
  BY DEF Good, Consoles

\* Where the cursor is after such a move.
LEMMA Moved ==
  ASSUME NEW c, Good(c), NEW x, NEW p
  PROVE  [c EXCEPT !.x = x, !.pos = p].x = x /\ [c EXCEPT !.x = x, !.pos = p].pos = p
  BY DEF Good, Consoles

\* A printing character goes to a cell of the screen.
LEMMA PutGood == ASSUME NEW c, Good(c) PROVE Good(Put(c))
  <1> DEFINE d == IF c.x >= ConCols THEN Wrap(c) ELSE c
  <1>0. Facts(c)
    BY FactsHold
  <1>1. Good(d) /\ d.x < ConCols
    <2>1. CASE c.x >= ConCols
      <3> DEFINE x == c.x - ConCols
                 p == c.pos - ConCols
      <3>1. x \in Nat /\ x = 0 /\ x <= ConCols /\ p = c.origin + Line[c.y] + x
        BY <1>0, <2>1 DEF Facts
      <3>2. [c EXCEPT !.x = @ - ConCols, !.pos = @ - ConCols] = [c EXCEPT !.x = x, !.pos = p]
        BY DEF Good, Consoles
      <3> HIDE DEF x, p
      <3>3. [c EXCEPT !.x = @ - ConCols, !.pos = @ - ConCols]
              = [c EXCEPT !.x = x, !.y = c.y, !.pos = c.origin + Line[c.y] + x]
        BY <3>1, <3>2, SameLine
      <3>4. Good(Wrap(c)) /\ Wrap(c).x = x
        BY <3>1, <3>3, WrapGood
      <3> QED BY <1>0, <2>1, <3>1, <3>4 DEF Facts
    <2> QED BY <1>0, <2>1 DEF Facts
  <1> HIDE DEF d
  <1>2. Facts(d)
    BY <1>1, FactsHold
  <1> DEFINE x == d.x + 1
             e == [d EXCEPT !.x = x, !.y = d.y, !.pos = d.origin + Line[d.y] + x]
  <1>3. x \in Nat /\ x <= ConCols /\ d.pos + 1 = d.origin + Line[d.y] + x
    BY <1>1, <1>2 DEF Facts
  <1>4. Good(e)
    <2> HIDE DEF x
    <2> QED BY <1>1, <1>2, <1>3, MoveGood DEF Facts
  <1>5. Cells(d.pos, 1) \in [from : Nat, to : Nat] /\ OnScreen(e, Cells(d.pos, 1))
    BY <1>1, <1>2 DEF Cells, OnScreen, Facts, Good, Consoles
  <1>6. Put(c) = [d EXCEPT !.x = @ + 1, !.pos = @ + 1, !.erased = Cells(d.pos, 1)]
    BY DEF Put, d
  <1>7. [d EXCEPT !.x = @ + 1, !.pos = @ + 1, !.erased = Cells(d.pos, 1)]
          = [[d EXCEPT !.x = x, !.y = d.y, !.pos = d.pos + 1] EXCEPT !.erased = Cells(d.pos, 1)]
    BY <1>1 DEF Good, Consoles
  <1>8. Put(c) = [e EXCEPT !.erased = Cells(d.pos, 1)]
    BY <1>3, <1>6, <1>7
  <1> HIDE DEF e
  <1> QED BY <1>4, <1>5, <1>8, WriteGood

\* A tab moves by 1 to 8 columns.
LEMMA TabGood == ASSUME NEW c, Good(c) PROVE Good(Tab(c))
  <1>0. Facts(c)
    BY FactsHold
  <1> DEFINE n == 8 - (c.x % 8)
             x == c.x + n
             p == c.pos + n
             d == [c EXCEPT !.x = x, !.pos = p]
  <1>1. n \in 1 .. 8
    <2>1. c.x \in Nat
      BY <1>0 DEF Facts
    <2> QED BY <2>1
  <1>2. Tab(c) = IF d.x > ConCols THEN Wrap(d) ELSE d
    BY DEF Tab, Good, Consoles
  <1> HIDE DEF n
  <1>3. /\ x \in Nat /\ p = c.origin + Line[c.y] + x /\ x <= ConCols + ConCols
        /\ c.y \in Nat /\ c.y < ConLines /\ ConCols \in Nat
    BY <1>0, <1>1 DEF Facts
  <1> HIDE DEF x, p
  <1>4. d.x = x /\ d.pos = p
    BY Moved
  <1>5. CASE x > ConCols
    <2> DEFINE x1 == x - ConCols
               p1 == p - ConCols
    <2>1. x1 \in Nat /\ x1 <= ConCols /\ p1 = c.origin + Line[c.y] + x1
      BY <1>0, <1>3, <1>5 DEF Facts
    <2>2. [d EXCEPT !.x = @ - ConCols, !.pos = @ - ConCols] = [d EXCEPT !.x = x1, !.pos = p1]
      BY <1>4 DEF Good, Consoles
    <2> HIDE DEF x1, p1
    <2>3. [d EXCEPT !.x = x1, !.pos = p1] = [c EXCEPT !.x = x1, !.y = c.y, !.pos = p1]
      BY SameLine
    <2>4. [d EXCEPT !.x = @ - ConCols, !.pos = @ - ConCols]
            = [c EXCEPT !.x = x1, !.y = c.y, !.pos = c.origin + Line[c.y] + x1]
      BY <2>1, <2>2, <2>3
    <2> HIDE DEF d
    <2>5. Good(Wrap(d))
      BY <2>1, <2>4, WrapGood
    <2> QED BY <1>2, <1>4, <1>5, <2>5
  <1>6. CASE ~(x > ConCols)
    <2>1. d = [c EXCEPT !.x = x, !.y = c.y, !.pos = c.origin + Line[c.y] + x]
      BY <1>3, SameLine
    <2>2. x <= ConCols
      BY <1>3, <1>6
    <2>3. Good([c EXCEPT !.x = x, !.y = c.y, !.pos = c.origin + Line[c.y] + x])
      BY <1>3, <2>2, MoveGood
    <2> QED BY <1>2, <1>4, <1>6, <2>1, <2>3
  <1> QED BY <1>5, <1>6

\* csi_J(), csi_K(), insert_char() and delete_char() write cells of the screen.
LEMMA EraseGood ==
  ASSUME NEW c, Good(c), NEW n
  PROVE  Good(CsiJ(c, n)) /\ Good(CsiK(c, n)) /\ Good(RestOfLine(c))
  <1>0. Facts(c)
    BY FactsHold
  <1> DEFINE CellSet == [from : Nat, to : Nat]
             Ok(e) == e \in CellSet /\ OnScreen(c, e)
  <1>1. /\ Ok(Cells(c.pos, c.scr_end - c.pos)) /\ Ok(Cells(c.origin, c.pos - c.origin))
        /\ Ok(NoCells)
    BY <1>0 DEF Facts, Cells, OnScreen, NoCells
  <1>2. ConCols * ConLines = Line[ConLines]
    BY LineFacts DEF Line
  <1>3. Ok(Cells(c.origin, ConCols * ConLines))
    BY <1>0, <1>2 DEF Facts, Cells, OnScreen
  <1>4. /\ c.x < ConCols => Ok(Cells(c.pos, ConCols - c.x))
        /\ Ok(Cells(c.pos - c.x, IF c.x < ConCols THEN c.x ELSE ConCols))
        /\ Ok(Cells(c.pos - c.x, ConCols))
    BY <1>0 DEF Facts, Cells, OnScreen
  <1>5. \A e : Ok(e) => Good([c EXCEPT !.erased = e])
    BY WriteGood
  <1> HIDE DEF Ok
  <1>6. Good(CsiJ(c, n))
    BY <1>1, <1>3, <1>5 DEF CsiJ
  <1>7. Good(CsiK(c, n))
    BY <1>1, <1>4, <1>5 DEF CsiK
  <1>8. Good(RestOfLine(c))
    BY <1>0, <1>4, <1>5 DEF RestOfLine, Facts
  <1> QED BY <1>6, <1>7, <1>8

\* insert_line() and delete_line() put the scrolling region back.
LEMMA LineGood ==
  ASSUME NEW c, Good(c)
  PROVE  Good(InsertLine(c)) /\ Good(DeleteLine(c))
  <1>0. Facts(c)
    BY FactsHold
  <1>1. Good(FromHere(c))
    <2>1. c.y \in Nat /\ ConLines \in Nat /\ c.y < ConLines /\ ConLines <= ConLines
      BY <1>0 DEF Facts
    <2>2. Good([c EXCEPT !.top = c.y, !.bottom = ConLines])
      BY <2>1, RegionGood
    <2> QED BY <2>2 DEF FromHere
  <1>2. \A d : Good(d) => Good(Restore(c, d))
    BY <1>0, RegionGood DEF Restore, Facts
  <1> QED BY <1>1, <1>2, ScrupGood, ScrdownGood DEF InsertLine, DeleteLine

\* save_cur() and restore_cur(); what was saved may be anything.
LEMMA SaveGood ==
  ASSUME NEW c, Good(c)
  PROVE  Good(SaveCur(c)) /\ Good(RestoreCur(c))
  <1>0. Facts(c)
    BY FactsHold
  <1> DEFINE r == SaveCur(c)
  <1>1. r \in Consoles
    BY <1>0 DEF SaveCur, Good, Consoles, Facts
  <1>2. /\ r.x = c.x /\ r.y = c.y /\ r.pos = c.pos /\ r.origin = c.origin /\ r.scr_end = c.scr_end
        /\ r.top = c.top /\ r.bottom = c.bottom /\ r.erased = c.erased
    BY DEF SaveCur, Good, Consoles
  <1> HIDE DEF r
  <1>3. Good(r)
    BY <1>1, <1>2 DEF Good, OnScreen
  <1>4. Good(RestoreCur(c))
    BY <1>0, GotoxyGood DEF RestoreCur, Facts
  <1> QED BY <1>3, <1>4 DEF r

\* Arithmetic on words gives words.
LEMMA WordFacts ==
  /\ \A a \in Int : a % ConWord \in 0 .. ConWord - 1
  /\ 0 \in 0 .. ConWord - 1 /\ ConWord \in Nat /\ ConNpar \in Nat /\ ConNpar >= 2
  /\ ConLines \in Nat /\ ConLines < ConWord /\ ConLines >= 1
  BY ConAssumption

\* Sequences of words
LEMMA WordSeqs ==
  /\ \A s \in Seq(0 .. ConWord - 1) :
       /\ Len(s) \in Nat
       /\ \A i \in Nat : 1 <= i /\ i <= Len(s) => s[i] \in 0 .. ConWord - 1
  /\ \A w \in 0 .. ConWord - 1 :
       <<w>> \in Seq(0 .. ConWord - 1) /\ Len(<<w>>) = 1 /\ <<w>>[1] = w
  <1> DEFINE Word == 0 .. ConWord - 1
  <1> HIDE DEF Word
  <1>1. \A s \in Seq(Word) :
          Len(s) \in Nat /\ \A i \in Nat : 1 <= i /\ i <= Len(s) => s[i] \in Word
    OBVIOUS
  <1>2. \A w \in Word : <<w>> \in Seq(Word) /\ Len(<<w>>) = 1 /\ <<w>>[1] = w
    OBVIOUS
  <1> QED BY <1>1, <1>2 DEF Word

\* A parameter is a word, given or not.
LEMMA ParWord == ASSUME GoodPars, NEW i \in Nat PROVE Par(i) \in 0 .. ConWord - 1
  <1>1. CASE i < Len(conPar)
    <2>1. conPar \in Seq(0 .. ConWord - 1) /\ Len(conPar) \in Nat
      BY WordSeqs DEF GoodPars
    <2>2. i + 1 \in Nat /\ 1 <= i + 1 /\ i + 1 <= Len(conPar)
      BY <1>1, <2>1
    <2> QED BY <1>1, <2>1, <2>2, WordSeqs DEF Par
  <1>2. CASE ~(i < Len(conPar))
    BY <1>2, WordFacts DEF Par
  <1> QED BY <1>1, <1>2

\* The steps of a sequence that leave con alone, apart from what was written.
LEMMA QuietGood == ASSUME Good(con) PROVE Good(Quiet)
  <1>1. NoCells \in [from : Nat, to : Nat] /\ OnScreen(con, NoCells)
    BY DEF NoCells, OnScreen
  <1> QED BY <1>1, WriteGood DEF Quiet

\* A scrolling region is taken only when it is not empty and lies on the screen.
LEMMA SetRegionGood == ASSUME NEW c, Good(c), GoodPars PROVE Good(SetRegion(c))
  <1> DEFINE t == Less1(Par(0))
             b == IF Par(1) = 0 THEN ConLines ELSE Par(1)
  <1>1. Par(0) \in Nat /\ Par(1) \in Nat
    BY ParWord, WordFacts
  <1>2. t \in Nat /\ b \in Nat
    BY <1>1, WordFacts DEF Less1
  <1>3. SetRegion(c) = IF GoodRegion(t, b) THEN [c EXCEPT !.top = t, !.bottom = b] ELSE c
    BY DEF SetRegion
  <1> HIDE DEF t, b
  <1>4. CASE GoodRegion(t, b)
    <2>1. t < b /\ b <= ConLines
      BY <1>4 DEF GoodRegion
    <2>2. Good([c EXCEPT !.top = t, !.bottom = b])
      BY <1>2, <2>1, RegionGood
    <2> QED BY <1>3, <1>4, <2>2
  <1> QED BY <1>3, <1>4

\* Every sequence that ends, whatever its parameters and however they overflow.
LEMMA FinalGood == ASSUME NEW c, Good(c), GoodPars, NEW ch PROVE Good(Final(c, ch))
  <1> DEFINE n == More1(Par(0))
  <1>1. Par(0) \in Nat /\ Par(1) \in Nat
    BY ParWord, WordFacts
  <1>2. n \in Nat /\ Less1(Par(0)) \in Nat /\ Less1(Par(1)) \in Nat
    BY <1>1 DEF Less1, More1
  <1>3. c.x \in Nat /\ c.y \in Nat
    BY FactsHold DEF Facts
  <1> HIDE DEF n
  <1>4. Sub(c.y, n) \in Nat /\ Add(c.y, n) \in Nat /\ Sub(c.x, n) \in Nat /\ Add(c.x, n) \in Nat
    <2>1. c.y - n \in Int /\ c.y + n \in Int /\ c.x - n \in Int /\ c.x + n \in Int
      BY <1>2, <1>3
    <2>2. \A a \in Int : a % ConWord \in Nat
      BY WordFacts
    <2> QED BY <2>1, <2>2 DEF Sub, Add
  <1>5. \A x, y \in Nat : Good(Gotoxy(c, x, y))
    BY GotoxyGood
  <1>6. ch \in {"G", "A", "B", "C", "D", "E", "F", "d", "H"} => Good(Final(c, ch))
    BY <1>2, <1>3, <1>4, <1>5 DEF Final, n
  <1>7. /\ Good(CsiJ(c, Par(0))) /\ Good(CsiK(c, Par(0))) /\ Good(RestOfLine(c))
        /\ Good(InsertLine(c)) /\ Good(SetRegion(c)) /\ Good(SaveCur(c)) /\ Good(RestoreCur(c))
    BY EraseGood, LineGood, SetRegionGood, SaveGood
  <1>8. ch \notin {"G", "A", "B", "C", "D", "E", "F", "d", "H"} => Good(Final(c, ch))
    BY <1>7 DEF Final
  <1> QED BY <1>6, <1>8

-----------------------------------------------------------------------------
\* con_init()
LEMMA InitInv == ConInit => IInv
  <1> SUFFICES ASSUME ConInit PROVE IInv
    OBVIOUS
  <1> PICK ega \in BOOLEAN, x \in 0 .. ConCols - 1, y \in 0 .. ConLines - 1 :
        con = [ega |-> ega, origin |-> 0, scr_end |-> ConLines * ConCols, pos |-> y * ConCols + x,
               x |-> x, y |-> y, top |-> 0, bottom |-> ConLines,
               saved_x |-> 0, saved_y |-> 0, erased |-> NoCells]
    BY DEF ConInit
  <1>1. x \in Nat /\ y \in Nat /\ x <= ConCols /\ y < ConLines
    BY LineFacts
  <1>2. y * ConCols = Line[y] /\ ConLines * ConCols = Line[ConLines]
    BY <1>1, LineFacts DEF Line
  <1>3. /\ Line[y] \in Nat /\ Line[ConLines] \in Nat /\ Line[y] + x \in Nat
        /\ NoCells \in [from : Nat, to : Nat]
    BY <1>1, LineFacts DEF NoCells
  <1>4. con \in Consoles
    BY <1>1, <1>2, <1>3, LineFacts DEF Consoles
  <1>5. Good(con)
    BY <1>1, <1>2, <1>3, <1>4, LineFacts DEF Good, OnScreen, NoCells
  <1>6. GoodPars
    <2>1. conPar \in Seq(0 .. ConWord - 1) /\ Len(conPar) = 1
      BY WordFacts, WordSeqs DEF ConInit
    <2>2. conState = "normal"
      BY DEF ConInit
    <2>3. 1 \in 1 .. ConNpar
      BY ConAssumption
    <2> QED BY <2>1, <2>2, <2>3 DEF GoodPars
  <1> QED BY <1>5, <1>6 DEF IInv

\* A character of plain text (state 0) and one behind an ESC (state 1)
LEMMA TextGood ==
  ASSUME IInv, NEW ch, PutChar(ch) \/ EscChar(ch)
  PROVE  IInv'
  <1>1. Good(con) /\ GoodPars /\ con.y + 1 \in Nat
    <2>1. Good(con) /\ GoodPars
      BY DEF IInv
    <2>2. Facts(con)
      BY <2>1, FactsHold
    <2> QED BY <2>1, <2>2 DEF Facts
  <1>2. Good(Quiet)
    BY <1>1, QuietGood
  <1>3. /\ Good(Put(Quiet)) /\ Good(Lf(Quiet)) /\ Good(Cr(Quiet)) /\ Good(Del(Quiet))
        /\ Good(Bs(Quiet)) /\ Good(Tab(Quiet)) /\ Good(Ri(Quiet))
        /\ Good(SaveCur(Quiet)) /\ Good(RestoreCur(Quiet))
    BY <1>2, PutGood, LfGood, CrGood, TabGood, RiGood, SaveGood
  <1>4. Good(Gotoxy(Quiet, 0, con.y + 1))
    BY <1>1, <1>2, GotoxyGood
  <1>5. Good(con')
    <2>1. CASE PutChar(ch)
      BY <1>2, <1>3, <2>1 DEF PutChar
    <2>2. CASE EscChar(ch)
      BY <1>2, <1>3, <1>4, <2>2 DEF EscChar
    <2> QED BY <2>1, <2>2
  <1>6. GoodPars'
    BY <1>1 DEF GoodPars, PutChar, EscChar
  <1> QED BY <1>5, <1>6 DEF IInv

\* The characters of a sequence's parameters: never more than NPAR of them, each a word.
LEMMA ParsGood ==
  ASSUME IInv, Question \/ Semicolon \/ \E d \in ConDigits : Digit(d)
  PROVE  IInv'
  <1>1. Good(con) /\ GoodPars
    BY DEF IInv
  <1>2. con' = Quiet /\ conState' = "pars"
    BY DEF Question, Semicolon, Digit
  <1>3. Good(con')
    BY <1>1, <1>2, QuietGood
  <1>4. <<0>> \in Seq(0 .. ConWord - 1) /\ Len(<<0>>) \in 1 .. ConNpar
    BY WordFacts, WordSeqs
  <1>5. Pars \in Seq(0 .. ConWord - 1) /\ Len(Pars) \in 1 .. ConNpar
    BY <1>1, <1>4 DEF Pars, GoodPars
  <1>6. conPar' \in Seq(0 .. ConWord - 1) /\ Len(conPar') \in 1 .. ConNpar
    <2>1. CASE Question
      BY <1>4, <2>1 DEF Question
    <2>2. CASE Semicolon
      <3>1. conPar' = Append(Pars, 0) /\ Len(Pars) < ConNpar
        BY <2>2 DEF Semicolon, RoomForPar
      <3> HIDE DEF Pars
      <3> QED BY <1>5, <3>1, WordFacts
    <2>3. ASSUME NEW d \in ConDigits, Digit(d)
          PROVE  conPar' \in Seq(0 .. ConWord - 1) /\ Len(conPar') \in 1 .. ConNpar
      <3> DEFINE k == Len(Pars)
                 v == (10 * Pars[k] + d) % ConWord
      <3>1. conPar' = [Pars EXCEPT ![k] = v]
        BY <2>3 DEF Digit
      <3>2. k \in 1 .. ConNpar /\ k \in 1 .. Len(Pars) /\ Pars[k] \in 0 .. ConWord - 1
        BY <1>5, WordSeqs
      <3>3. 10 * Pars[k] + d \in Int
        BY <3>2, WordFacts, ConAssumption
      <3>4. v \in 0 .. ConWord - 1
        BY <3>3, WordFacts
      <3> HIDE DEF v
      <3> QED BY <1>5, <3>1, <3>2, <3>4
    <2> QED BY <2>1, <2>2, <2>3
  <1>7. GoodPars'
    BY <1>2, <1>6 DEF GoodPars
  <1> QED BY <1>3, <1>7 DEF IInv

\* The end of a sequence
LEMMA EndGood == ASSUME IInv, NEW ch, FinalChar(ch) PROVE IInv'
  <1>1. Good(con) /\ GoodPars
    BY DEF IInv
  <1>2. con' = Final(Quiet, ch)
    BY DEF FinalChar
  <1>3. Good(con')
    BY <1>1, <1>2, QuietGood, FinalGood
  <1>4. Par(0) \in 0 .. ConWord - 1
    BY <1>1, ParWord
  <1>5. Times(Par(0)) \in 0 .. ConWord - 1 /\ Times(Par(0)) # 0
    BY <1>4, WordFacts DEF Times
  <1>6. conPar' \in Seq(0 .. ConWord - 1) /\ Len(conPar') = 1
    BY <1>5, WordFacts, WordSeqs DEF FinalChar
  <1>7. conState' = "delete" => conPar'[1] # 0
    BY <1>5 DEF FinalChar
  <1>8. GoodPars'
    BY <1>6, <1>7, WordFacts DEF GoodPars, FinalChar
  <1> QED BY <1>3, <1>8 DEF IInv

\* A line that csi_M() deletes
LEMMA CsiMGood == ASSUME IInv, CsiM PROVE IInv'
  <1>1. Good(con) /\ GoodPars
    BY DEF IInv
  <1>2. con' = DeleteLine(Quiet)
    BY DEF CsiM
  <1>3. Good(con')
    BY <1>1, <1>2, QuietGood, LineGood
  <1>4. conPar[1] \in 0 .. ConWord - 1 /\ conPar[1] # 0
    BY <1>1, WordSeqs DEF GoodPars, CsiM
  <1>5. conPar[1] - 1 \in 0 .. ConWord - 1
    <2>1. ConWord \in Nat
      BY ConAssumption
    <2> QED BY <1>4, <2>1
  <1>6. GoodPars'
    <2> DEFINE n == conPar[1] - 1
    <2>1. conPar' = <<n>> /\ conState' \in {"normal", "delete"}
      BY DEF CsiM
    <2>2. conState' = "delete" => n # 0
      BY <1>4 DEF CsiM
    <2> HIDE DEF n
    <2>3. <<n>> \in Seq(0 .. ConWord - 1) /\ Len(<<n>>) = 1 /\ <<n>>[1] = n
      BY <1>5, WordSeqs DEF n
    <2>4. 1 \in 1 .. ConNpar
      BY ConAssumption
    <2> QED BY <2>1, <2>2, <2>3, <2>4 DEF GoodPars
  <1> QED BY <1>3, <1>6 DEF IInv

\* IInv is inductive.
LEMMA StepInv == IInv /\ [ConNext]_conVars => IInv'
  <1> SUFFICES ASSUME IInv, [ConNext]_conVars PROVE IInv'
    OBVIOUS
  <1>1. CASE UNCHANGED conVars
    BY <1>1 DEF conVars, IInv, GoodPars
  <1>2. CASE ConNext
    BY <1>2, TextGood, ParsGood, EndGood, CsiMGood DEF ConNext
  <1> QED BY <1>1, <1>2

-----------------------------------------------------------------------------
\* What IInv says in the terms of the specification
LEMMA InvInside == IInv => ConInside
  <1> SUFFICES ASSUME IInv PROVE ConInside
    OBVIOUS
  <1>1. Good(con)
    BY DEF IInv
  <1>2. Facts(con)
    BY <1>1, FactsHold
  <1>3. Line[con.y] = con.y * ConCols /\ Line[ConLines] = ConLines * ConCols
    BY <1>2 DEF Line, Facts
  <1> QED BY <1>1, <1>2, <1>3 DEF ConInside, Good, OnScreen, Facts

\* The cursor, the screen, the scrolling region and every cell that is written stay
\* inside video memory (ConInside), whatever con_write() is given and whatever the
\* screen's size: the guards of gotoxy(), of 'r' and of lf() are enough.
THEOREM ConsoleStaysInside == ConSpec => []ConInside
  BY InitInv, StepInv, InvInside, PTL DEF ConSpec

-----------------------------------------------------------------------------
(* Loops: a recursive function on 0 .. N *)

\* The order of the natural numbers is well founded.
LEMMA NatOrder ==
  \E R : IsWellFoundedOn(R, Nat) /\ \A x, y \in Nat : y < x => <<y, x>> \in R
<1>1. \A x, y \in Nat : y < x => <<y, x>> \in OpToRel(<, Nat)
  BY DEF OpToRel
<1> QED
  BY <1>1, NatLessThanWellFounded, Zenon

\* Induction, for a set instead of a predicate.
LEMMA Induct ==
  ASSUME NEW T, 0 \in T, \A n \in Nat : n \in T => n + 1 \in T
  PROVE  Nat \subseteq T
<1> DEFINE B == Nat \ T
<1>1. ASSUME B # {} PROVE FALSE
  <2>1. PICK R : IsWellFoundedOn(R, Nat) /\ \A x, y \in Nat : y < x => <<y, x>> \in R
    BY NatOrder
  <2>2. PICK n \in B : \A m \in B : ~ (<<m, n>> \in R)
    BY <1>1, <2>1, WFMin
  <2>3. n \in Nat /\ n # 0 /\ n - 1 \in Nat /\ n - 1 < n
    OBVIOUS
  <2>4. n - 1 \notin B
    BY <2>1, <2>2, <2>3
  <2>5. (n - 1) + 1 \in T
    BY <2>3, <2>4
  <2> QED
    BY <2>3, <2>5
<1> QED
  BY <1>1

\* What one turn of a loop keeps, the loop keeps.
LEMMA LoopStays ==
  ASSUME NEW N \in Nat, NEW g, NEW D, g[0] \in D, \A n \in 1 .. N : g[n - 1] \in D => g[n] \in D
  PROVE  \A n \in 0 .. N : g[n] \in D
<1> DEFINE T == {n \in Nat : n <= N => g[n] \in D}
<1>1. 0 \in T
  OBVIOUS
<1>2. ASSUME NEW n \in Nat, n \in T PROVE n + 1 \in T
  <2>1. PICK m : m = n + 1
    OBVIOUS
  <2>2. ASSUME m <= N PROVE g[m] \in D
    <3>1. m \in 1 .. N /\ m - 1 = n /\ n <= N
      BY <2>1, <2>2
    <3>2. g[n] \in D
      BY <1>2, <3>1
    <3> QED
      BY <3>1, <3>2
  <2> QED
    BY <2>1, <2>2
<1> HIDE DEF T
<1>3. Nat \subseteq T
  BY <1>1, <1>2, Induct
<1> QED
  BY <1>3 DEF T

\* g[n] is what n turns of F make of t.
IsLoop(g, N, D, F, t) ==
  /\ g \in [0 .. N -> D] /\ g[0] = t
  /\ \A n \in 1 .. N : g[n] = F[g[n - 1]]

\* The function of a loop exists.
LEMMA LoopExists ==
  ASSUME NEW N \in Nat, NEW D, NEW F \in [D -> D], NEW t \in D
  PROVE  \E g : IsLoop(g, N, D, F, t)
<1> DEFINE P(m) == \E g \in [0 .. m -> D] : g[0] = t /\ \A n \in 1 .. m : g[n] = F[g[n - 1]]
           T == {m \in Nat : P(m)}
<1>1. P(0)
  <2> DEFINE g == [n \in 0 .. 0 |-> t]
  <2>1. g \in [0 .. 0 -> D] /\ g[0] = t /\ \A n \in 1 .. 0 : g[n] = F[g[n - 1]]
    OBVIOUS
  <2> QED
    BY <2>1
<1>2. ASSUME NEW m \in Nat, P(m) PROVE P(m + 1)
  <2>1. PICK g \in [0 .. m -> D] : g[0] = t /\ \A n \in 1 .. m : g[n] = F[g[n - 1]]
    BY <1>2
  <2>2. PICK k : k = m + 1
    OBVIOUS
  <2> DEFINE h == [n \in 0 .. k |-> IF n = k THEN F[g[m]] ELSE g[n]]
  <2>3. k \in Nat /\ 0 # k /\ (\A n \in 0 .. k : n # k => n \in 0 .. m) /\ m \in 0 .. m /\ 0 \in 0 .. k
    BY <2>2
  <2>4. h \in [0 .. k -> D]
    BY <2>3
  <2>5. h[0] = t
    BY <2>1, <2>3
  <2>6. ASSUME NEW n \in 1 .. k PROVE h[n] = F[h[n - 1]]
    <3>1. n \in 0 .. k /\ n - 1 \in 0 .. k /\ n - 1 # k
      BY <2>3
    <3>2. h[n - 1] = g[n - 1]
      BY <3>1
    <3>3. CASE n = k
      <4>1. n - 1 = m
        BY <3>3, <2>2
      <4> QED
        BY <3>1, <3>2, <3>3, <4>1
    <3>4. CASE n # k
      <4>1. n \in 1 .. m
        BY <3>4, <2>2
      <4> QED
        BY <3>1, <3>2, <3>4, <4>1, <2>1
    <3> QED
      BY <3>3, <3>4
  <2> HIDE DEF h
  <2>7. P(k)
    BY <2>4, <2>5, <2>6
  <2> QED
    BY <2>2, <2>7
<1>3. 0 \in T
  BY <1>1
<1>5. ASSUME NEW n \in Nat, n \in T PROVE n + 1 \in T
  <2>1. P(n)
    BY <1>5
  <2>2. P(n + 1)
    BY <1>2, <2>1
  <2> QED
    BY <2>2
<1> HIDE DEF T
<1>4. Nat \subseteq T
  BY <1>3, <1>5, Induct
<1>6. P(N)
  BY <1>4 DEF T
<1> QED
  BY <1>6 DEF IsLoop

-----------------------------------------------------------------------------
(* Sequences *)

\* The characters of a kind in a sequence can be counted.
LEMMA CountType ==
  ASSUME NEW cs, NEW S, NEW s \in Seq(S)
  PROVE  IsFiniteSet({i \in DOMAIN s : s[i] \in cs}) /\ Count(cs, s) \in Nat
<1>1. DOMAIN s = 1 .. Len(s) /\ Len(s) \in Nat
  BY LenProperties
<1>2. IsFiniteSet(1 .. Len(s))
  BY <1>1, FS_Interval
<1>3. IsFiniteSet({i \in DOMAIN s : s[i] \in cs})
  BY <1>1, <1>2, FS_Subset
<1> QED
  BY <1>3, FS_CardinalityType DEF Count

\* The count over two sequences, one behind the other.
LEMMA CountCat ==
  ASSUME NEW cs, NEW S, NEW s \in Seq(S), NEW t \in Seq(S)
  PROVE  Count(cs, s \o t) = Count(cs, s) + Count(cs, t)
<1> DEFINE m == Len(s)
           U == {i \in DOMAIN s : s[i] \in cs}
           V == {i \in DOMAIN t : t[i] \in cs}
           W == {i \in DOMAIN (s \o t) : (s \o t)[i] \in cs}
           X == {i + m : i \in V}
<1>1. /\ m \in Nat /\ Len(t) \in Nat /\ DOMAIN s = 1 .. m /\ DOMAIN t = 1 .. Len(t)
      /\ s \o t \in Seq(S) /\ Len(s \o t) = m + Len(t) /\ DOMAIN (s \o t) = 1 .. m + Len(t)
      /\ \A i \in 1 .. m + Len(t) : (s \o t)[i] = IF i <= m THEN s[i] ELSE t[i - m]
  BY LenProperties, ConcatProperties
<1>2. IsFiniteSet(U) /\ IsFiniteSet(V)
  BY CountType
<1>3. W = U \cup X
  <2> HIDE DEF m
  <2>1. ASSUME NEW i \in W PROVE i \in U \cup X
    <3>1. i \in 1 .. m + Len(t) /\ (s \o t)[i] \in cs
      BY <1>1
    <3>2. CASE i <= m
      BY <3>1, <3>2, <1>1
    <3>3. CASE ~(i <= m)
      <4>1. i - m \in 1 .. Len(t) /\ t[i - m] \in cs /\ i = (i - m) + m
        BY <3>1, <3>3, <1>1
      <4>2. i - m \in V
        BY <4>1, <1>1
      <4> QED
        BY <4>1, <4>2
    <3> QED
      BY <3>2, <3>3
  <2>2. ASSUME NEW i \in U PROVE i \in W
    BY <1>1
  <2>3. ASSUME NEW i \in X PROVE i \in W
    <3>1. PICK j \in V : i = j + m
      OBVIOUS
    <3>2. j \in 1 .. Len(t) /\ t[j] \in cs
      BY <1>1
    <3>3. i \in 1 .. m + Len(t) /\ ~(i <= m) /\ i - m = j
      BY <3>1, <3>2, <1>1
    <3>4. (s \o t)[i] = t[j]
      BY <3>3, <1>1
    <3> QED
      BY <3>2, <3>3, <3>4, <1>1
  <2> QED
    BY <2>1, <2>2, <2>3
<1>4. U \cap X = {}
  <2> SUFFICES ASSUME NEW i \in U, NEW j \in V, i = j + m PROVE FALSE
    OBVIOUS
  <2>1. i \in 1 .. m /\ j \in 1 .. Len(t)
    BY <1>1
  <2> HIDE DEF m
  <2> QED
    BY <2>1, <1>1
<1>5. IsFiniteSet(X) /\ Cardinality(X) = Cardinality(V)
  <2> DEFINE f == [i \in V |-> i + m]
  <2>1. \A i \in V : i \in Nat
    BY <1>1
  <2>2. f \in [V -> X] /\ \A j \in X : \E i \in V : f[i] = j
    OBVIOUS
  <2>3. \A i, j \in V : f[i] = f[j] => i = j
    <3> SUFFICES ASSUME NEW i \in V, NEW j \in V, f[i] = f[j] PROVE i = j
      OBVIOUS
    <3>1. f[i] = i + m /\ f[j] = j + m /\ i \in Nat /\ j \in Nat
      BY <2>1
    <3>2. i + m = j + m /\ i \in Nat /\ j \in Nat /\ m \in Nat
      BY <3>1, <1>1
    <3> HIDE DEF f, V, m
    <3> QED
      BY <3>2
  <2> HIDE DEF V, X, f
  <2>4. f \in Bijection(V, X)
    <3>1. f \in Injection(V, X)
      BY <2>2, <2>3 DEF Injection, IsInjective
    <3>2. f \in Surjection(V, X)
      BY <2>2 DEF Surjection
    <3> QED
      BY <3>1, <3>2 DEF Bijection
  <2>5. ExistsBijection(V, X)
    BY <2>4 DEF ExistsBijection
  <2> QED
    BY <2>5, <1>2, FS_Bijection
<1> HIDE DEF U, V, X, W, m
<1>6. Cardinality(W) = Cardinality(U) + Cardinality(X) - Cardinality(U \cap X) /\ Cardinality({}) = 0
  BY <1>2, <1>3, <1>5, FS_Union, FS_EmptySet
<1>7. Cardinality(U) \in Nat /\ Cardinality(V) \in Nat
  BY <1>2, FS_CardinalityType
<1>8. PICK u, v : u = Cardinality(U) /\ v = Cardinality(V)
  OBVIOUS
<1>9. Cardinality(W) = u + v - 0
  BY <1>4, <1>5, <1>6, <1>8
<1>10. u + v - 0 = u + v
  BY <1>7, <1>8
<1> QED
  BY <1>8, <1>9, <1>10 DEF Count, U, V, W

\* The count over one character.
LEMMA CountOne ==
  ASSUME NEW cs, NEW c
  PROVE  Count(cs, <<c>>) = IF c \in cs THEN 1 ELSE 0
<1>1. DOMAIN <<c>> = {1} /\ <<c>>[1] = c
  OBVIOUS
<1>2. c \in cs => {i \in DOMAIN <<c>> : <<c>>[i] \in cs} = {1}
  BY <1>1
<1>3. c \notin cs => {i \in DOMAIN <<c>> : <<c>>[i] \in cs} = {}
  BY <1>1
<1>4. Cardinality({1}) = 1 /\ Cardinality({}) = 0
  BY FS_Singleton, FS_EmptySet
<1> QED
  BY <1>2, <1>3, <1>4 DEF Count

\* Two sequences taken out of two others, one behind the other.
LEMMA SubCat ==
  ASSUME NEW S, NEW s \in Seq(S), NEW t \in Seq(S), NEW u \in Seq(S), NEW v \in Seq(S),
         Subsequence(s, t), Subsequence(u, v)
  PROVE  Subsequence(s \o u, t \o v)
<1>1. PICK at \in [DOMAIN s -> DOMAIN t] :
        /\ \A i, j \in DOMAIN s : i < j => at[i] < at[j]
        /\ \A i \in DOMAIN s : s[i] = t[at[i]] \/ (s[i] = "nl" /\ t[at[i]] = "cr")
  BY DEF Subsequence
<1>2. PICK bt \in [DOMAIN u -> DOMAIN v] :
        /\ \A i, j \in DOMAIN u : i < j => bt[i] < bt[j]
        /\ \A i \in DOMAIN u : u[i] = v[bt[i]] \/ (u[i] = "nl" /\ v[bt[i]] = "cr")
  BY DEF Subsequence
<1>3. PICK a, b, c, d : a = Len(s) /\ b = Len(t) /\ c = Len(u) /\ d = Len(v)
  OBVIOUS
<1>4. /\ a \in Nat /\ b \in Nat /\ c \in Nat /\ d \in Nat
      /\ DOMAIN s = 1 .. a /\ DOMAIN t = 1 .. b /\ DOMAIN u = 1 .. c /\ DOMAIN v = 1 .. d
  BY <1>3, LenProperties
<1>5. PICK p, q : p = s \o u /\ q = t \o v
  OBVIOUS
<1>6. /\ DOMAIN p = 1 .. a + c /\ DOMAIN q = 1 .. b + d
      /\ \A i \in 1 .. a + c : p[i] = IF i <= a THEN s[i] ELSE u[i - a]
      /\ \A i \in 1 .. b + d : q[i] = IF i <= b THEN t[i] ELSE v[i - b]
  BY <1>3, <1>5, LenProperties, ConcatProperties
<1> DEFINE f == [i \in 1 .. a + c |-> IF i <= a THEN at[i] ELSE bt[i - a] + b]
<1>7. ASSUME NEW i \in 1 .. a + c, i <= a
      PROVE  f[i] = at[i] /\ f[i] \in 1 .. b /\ i \in 1 .. a /\ f[i] \in 1 .. b + d
  <2>1. i \in 1 .. a
    BY <1>7, <1>4
  <2>2. at[i] \in 1 .. b
    BY <2>1, <1>1, <1>4
  <2> QED
    BY <1>7, <2>1, <2>2, <1>4
<1>8. ASSUME NEW i \in 1 .. a + c, ~(i <= a)
      PROVE  /\ f[i] = bt[i - a] + b /\ bt[i - a] \in 1 .. d /\ i - a \in 1 .. c
             /\ f[i] \in 1 .. b + d /\ f[i] > b /\ f[i] - b = bt[i - a]
  <2>1. i - a \in 1 .. c
    BY <1>8, <1>4
  <2>2. PICK k : k = bt[i - a]
    OBVIOUS
  <2>3. k \in 1 .. d
    BY <2>1, <2>2, <1>2, <1>4
  <2>4. f[i] = k + b
    BY <1>8, <2>2
  <2> HIDE DEF f
  <2>5. k + b \in 1 .. b + d /\ k + b > b /\ (k + b) - b = k
    BY <2>3, <1>4
  <2> QED
    BY <2>1, <2>2, <2>3, <2>4, <2>5
<1>9. f \in [DOMAIN p -> DOMAIN q]
  <2>1. f = [i \in 1 .. a + c |-> f[i]]
    OBVIOUS
  <2> HIDE DEF f
  <2>2. \A i \in 1 .. a + c : f[i] \in 1 .. b + d
    BY <1>7, <1>8
  <2> QED
    BY <2>1, <2>2, <1>6
<1> HIDE DEF f
<1>10. ASSUME NEW i \in DOMAIN p, NEW j \in DOMAIN p, i < j PROVE f[i] < f[j]
  <2>1. i \in 1 .. a + c /\ j \in 1 .. a + c
    BY <1>6
  <2>2. CASE j <= a
    <3>1. i <= a
      BY <2>1, <2>2, <1>4, <1>10
    <3> QED
      BY <2>1, <2>2, <3>1, <1>7, <1>1, <1>4, <1>10
  <2>3. CASE ~(j <= a) /\ i <= a
    <3>1. f[i] \in 1 .. b /\ f[j] \in 1 .. b + d /\ f[j] > b
      BY <2>1, <2>3, <1>7, <1>8
    <3> QED
      BY <3>1, <1>4
  <2>4. CASE ~(j <= a) /\ ~(i <= a)
    <3>1. i - a < j - a /\ i - a \in DOMAIN u /\ j - a \in DOMAIN u
      BY <2>1, <2>4, <1>4, <1>10
    <3>2. bt[i - a] < bt[j - a]
      BY <3>1, <1>2
    <3>3. PICK k, l : k = bt[i - a] /\ l = bt[j - a]
      OBVIOUS
    <3>4. f[i] = k + b /\ f[j] = l + b /\ k \in 1 .. d /\ l \in 1 .. d
      BY <2>1, <2>4, <1>8, <3>3
    <3>5. k < l
      BY <3>2, <3>3
    <3>6. k + b < l + b
      BY <3>4, <3>5, <1>4
    <3> QED
      BY <3>4, <3>6
  <2> QED
    BY <2>2, <2>3, <2>4
<1>11. ASSUME NEW i \in DOMAIN p PROVE p[i] = q[f[i]] \/ (p[i] = "nl" /\ q[f[i]] = "cr")
  <2>1. i \in 1 .. a + c
    BY <1>6
  <2>2. CASE i <= a
    <3>1. i \in DOMAIN s /\ f[i] = at[i] /\ f[i] <= b /\ f[i] \in 1 .. b + d
      BY <2>1, <2>2, <1>7, <1>4
    <3>2. p[i] = s[i] /\ q[f[i]] = t[at[i]]
      BY <3>1, <2>1, <2>2, <1>6
    <3> QED
      BY <3>1, <3>2, <1>1
  <2>3. CASE ~(i <= a)
    <3>1. PICK k, n : k = i - a /\ n = f[i]
      OBVIOUS
    <3>5. k \in 1 .. c /\ n \in 1 .. b + d /\ n > b /\ n - b = bt[k]
      BY <2>1, <2>3, <1>8, <3>1
    <3>6. ~(n <= b)
      BY <3>5, <1>4
    <3>2. k \in DOMAIN u /\ n \in 1 .. b + d /\ ~(n <= b) /\ n - b = bt[k]
      BY <3>5, <3>6, <1>4
    <3>3. p[i] = u[k]
      BY <2>1, <2>3, <1>6, <3>1
    <3>4. q[n] = v[bt[k]]
      BY <3>2, <1>6
    <3> QED
      BY <3>1, <3>2, <3>3, <3>4, <1>2
  <2> QED
    BY <2>2, <2>3
<1>12. Subsequence(p, q)
  <2> SUFFICES \E g \in [DOMAIN p -> DOMAIN q] :
                 /\ \A i, j \in DOMAIN p : i < j => g[i] < g[j]
                 /\ \A i \in DOMAIN p : p[i] = q[g[i]] \/ (p[i] = "nl" /\ q[g[i]] = "cr")
    BY DEF Subsequence
  <2> USE <1>9
  <2> WITNESS f \in [DOMAIN p -> DOMAIN q]
  <2> QED
    BY <1>10, <1>11
<1> QED
  BY <1>5, <1>12

\* A sequence is taken out of itself.
LEMMA SubSame == ASSUME NEW S, NEW s \in Seq(S) PROVE Subsequence(s, s)
<1>1. DOMAIN s = 1 .. Len(s) /\ Len(s) \in Nat
  BY LenProperties
<1> DEFINE f == [i \in DOMAIN s |-> i]
<1>2. f \in [DOMAIN s -> DOMAIN s] /\ \A i \in DOMAIN s : f[i] = i
  OBVIOUS
<1> HIDE DEF f
<1> QED
  BY <1>2 DEF Subsequence

\* A character is taken as it is, or a carriage return as a newline, or not at all.
LEMMA SubOne ==
  /\ \A c, raw : c = raw \/ (c = "nl" /\ raw = "cr") => Subsequence(<<c>>, <<raw>>)
  /\ \A raw : Subsequence(<<>>, <<raw>>)
<1>1. ASSUME NEW c, NEW raw, c = raw \/ (c = "nl" /\ raw = "cr") PROVE Subsequence(<<c>>, <<raw>>)
  <2>1. DOMAIN <<c>> = {1} /\ DOMAIN <<raw>> = {1} /\ <<c>>[1] = c /\ <<raw>>[1] = raw
    OBVIOUS
  <2> DEFINE f == [i \in {1} |-> 1]
  <2>2. f \in [{1} -> {1}] /\ f[1] = 1
    OBVIOUS
  <2> HIDE DEF f
  <2>3. \A i, j \in {1} : i < j => f[i] < f[j]
    BY <2>2
  <2>4. \A i \in {1} : <<c>>[i] = <<raw>>[f[i]] \/ (<<c>>[i] = "nl" /\ <<raw>>[f[i]] = "cr")
    BY <2>1, <2>2, <1>1
  <2> QED
    BY <2>1, <2>2, <2>3, <2>4 DEF Subsequence
<1>2. ASSUME NEW raw PROVE Subsequence(<<>>, <<raw>>)
  <2>1. DOMAIN <<>> = {}
    OBVIOUS
  <2> DEFINE f == [i \in {} |-> 1]
  <2>2. f \in [{} -> DOMAIN <<raw>>]
    OBVIOUS
  <2> QED
    BY <2>1, <2>2 DEF Subsequence
<1> QED
  BY <1>1, <1>2, Zenon

\* One character less may be taken.
LEMMA SubFront ==
  ASSUME NEW S, NEW s \in Seq(S), NEW c \in S, NEW t, Subsequence(s \o <<c>>, t)
  PROVE  Subsequence(s, t)
<1>1. PICK p : p = s \o <<c>>
  OBVIOUS
<1>2. /\ DOMAIN s \subseteq DOMAIN p /\ DOMAIN s = 1 .. Len(s) /\ Len(s) \in Nat
      /\ \A i \in DOMAIN s : p[i] = s[i]
  <2>1. <<c>> \in Seq(S) /\ Len(<<c>>) = 1
    OBVIOUS
  <2> QED
    BY <1>1, <2>1, LenProperties, ConcatProperties
<1>3. PICK at \in [DOMAIN p -> DOMAIN t] :
        /\ \A i, j \in DOMAIN p : i < j => at[i] < at[j]
        /\ \A i \in DOMAIN p : p[i] = t[at[i]] \/ (p[i] = "nl" /\ t[at[i]] = "cr")
  BY <1>1 DEF Subsequence
<1> DEFINE f == [i \in DOMAIN s |-> at[i]]
<1>4. f \in [DOMAIN s -> DOMAIN t] /\ \A i \in DOMAIN s : f[i] = at[i]
  BY <1>2, <1>3
<1> HIDE DEF f
<1>5. \A i, j \in DOMAIN s : i < j => f[i] < f[j]
  BY <1>2, <1>3, <1>4
<1>6. \A i \in DOMAIN s : s[i] = t[f[i]] \/ (s[i] = "nl" /\ t[f[i]] = "cr")
  BY <1>2, <1>3, <1>4
<1> QED
  BY <1>4, <1>5, <1>6 DEF Subsequence

-----------------------------------------------------------------------------
(* A line of input: what was read and what is queued, out of what was received *)

Ends == {"nl", "eof"}
Edits == {"erase", "kill", "intr", "stop"}

LineOK(out, s, d, P) ==
  /\ Subsequence(out \o s, P)
  /\ Count(Ends, out \o s) >= Count(Ends, P)
  /\ Count(Edits, P) = 0 => Len(out \o s) = Len(P)
  /\ d = Count(Ends, s)

\* A character behind a sequence.
LEMMA OneMore ==
  ASSUME NEW s \in Seq(TtyChars), NEW c \in TtyChars
  PROVE  /\ s \o <<c>> \in Seq(TtyChars) /\ Len(s \o <<c>>) = Len(s) + 1
         /\ Len(s) \in Nat /\ <<c>> \in Seq(TtyChars)
         /\ \A cs : /\ Count(cs, s) \in Nat
                    /\ c \in cs => Count(cs, s \o <<c>>) = Count(cs, s) + 1
                    /\ c \notin cs => Count(cs, s \o <<c>>) = Count(cs, s)
<1>1. <<c>> \in Seq(TtyChars) /\ Len(<<c>>) = 1
  OBVIOUS
<1>2. s \o <<c>> \in Seq(TtyChars) /\ Len(s \o <<c>>) = Len(s) + 1 /\ Len(s) \in Nat
  BY <1>1, ConcatProperties, LenProperties
<1>3. ASSUME NEW cs
      PROVE  /\ Count(cs, s) \in Nat
             /\ c \in cs => Count(cs, s \o <<c>>) = Count(cs, s) + 1
             /\ c \notin cs => Count(cs, s \o <<c>>) = Count(cs, s)
  <2>1. Count(cs, s \o <<c>>) = Count(cs, s) + Count(cs, <<c>>)
    BY <1>1, CountCat
  <2>2. Count(cs, <<c>>) = IF c \in cs THEN 1 ELSE 0
    BY CountOne
  <2>3. Count(cs, s) \in Nat
    BY CountType
  <2> QED
    BY <2>1, <2>2, <2>3
<1> QED
  BY <1>1, <1>2, <1>3

\* A character is accepted.
LEMMA LineAccept ==
  ASSUME NEW out \in Seq(TtyChars), NEW s \in Seq(TtyChars), NEW d, NEW P \in Seq(TtyChars),
         LineOK(out, s, d, P),
         NEW c \in TtyChars, NEW raw \in TtyChars, c = raw \/ (c = "nl" /\ raw = "cr")
  PROVE  LineOK(out, s \o <<c>>, IF c \in Ends THEN d + 1 ELSE d, P \o <<raw>>)
<1>1. PICK k : k = out \o s
  OBVIOUS
<1>2. k \in Seq(TtyChars) /\ out \o (s \o <<c>>) = k \o <<c>>
  <2>1. <<c>> \in Seq(TtyChars)
    OBVIOUS
  <2> QED
    BY <1>1, <2>1, ConcatProperties, ConcatAssociative
<1>3. /\ Subsequence(k, P) /\ Count(Ends, k) >= Count(Ends, P)
      /\ Count(Edits, P) = 0 => Len(k) = Len(P)
      /\ d = Count(Ends, s)
  BY <1>1 DEF LineOK
<1>4. Subsequence(k \o <<c>>, P \o <<raw>>)
  <2>1. <<c>> \in Seq(TtyChars) /\ <<raw>> \in Seq(TtyChars) /\ Subsequence(<<c>>, <<raw>>)
    BY SubOne
  <2> QED
    BY <2>1, <1>2, <1>3, SubCat
<1>5. Count(Ends, k \o <<c>>) >= Count(Ends, P \o <<raw>>)
  <2>1. raw \in Ends => c \in Ends
    BY DEF Ends
  <2>2. PICK m, n : m = Count(Ends, k) /\ n = Count(Ends, P)
    OBVIOUS
  <2>3. m \in Nat /\ Count(Ends, k \o <<c>>) = IF c \in Ends THEN m + 1 ELSE m
    BY <2>2, <1>2, OneMore
  <2>4. n \in Nat /\ Count(Ends, P \o <<raw>>) = IF raw \in Ends THEN n + 1 ELSE n
    BY <2>2, OneMore
  <2> QED
    BY <2>1, <2>2, <2>3, <2>4, <1>3
<1>6. Count(Edits, P \o <<raw>>) = 0 => Len(k \o <<c>>) = Len(P \o <<raw>>)
  <2>1. Count(Edits, P \o <<raw>>) = 0 => Count(Edits, P) = 0
    <3>1. PICK n : n = Count(Edits, P)
      OBVIOUS
    <3>2. n \in Nat /\ Count(Edits, P \o <<raw>>) = IF raw \in Edits THEN n + 1 ELSE n
      BY <3>1, OneMore
    <3> QED
      BY <3>1, <3>2
  <2> QED
    BY <2>1, <1>2, <1>3, OneMore
<1>7. (IF c \in Ends THEN d + 1 ELSE d) = Count(Ends, s \o <<c>>)
  BY <1>3, OneMore
<1> QED
  BY <1>2, <1>4, <1>5, <1>6, <1>7 DEF LineOK

\* An editing character is not accepted.
LEMMA LineSkip ==
  ASSUME NEW out \in Seq(TtyChars), NEW s \in Seq(TtyChars), NEW d, NEW P \in Seq(TtyChars),
         LineOK(out, s, d, P), NEW raw \in Edits
  PROVE  LineOK(out, s, d, P \o <<raw>>) /\ Count(Edits, P \o <<raw>>) # 0
<1>1. PICK k : k = out \o s
  OBVIOUS
<1>2. raw \in TtyChars /\ raw \notin Ends /\ k \in Seq(TtyChars)
  BY <1>1, ConcatProperties DEF Edits, Ends, TtyChars
<1>3. Subsequence(k, P \o <<raw>>)
  <2>1. <<>> \in Seq(TtyChars) /\ <<raw>> \in Seq(TtyChars) /\ k \o <<>> = k
    BY <1>2, ConcatEmptySeq
  <2>2. Subsequence(<<>>, <<raw>>) /\ Subsequence(k, P)
    BY <1>1, SubOne DEF LineOK
  <2>3. Subsequence(k \o <<>>, P \o <<raw>>)
    BY <2>1, <2>2, <1>2, SubCat
  <2> QED
    BY <2>1, <2>3
<1>4. Count(Ends, P \o <<raw>>) = Count(Ends, P)
  BY <1>2, OneMore
<1>5. Count(Edits, P \o <<raw>>) # 0
  <2>1. PICK n : n = Count(Edits, P)
    OBVIOUS
  <2>2. n \in Nat /\ Count(Edits, P \o <<raw>>) = n + 1
    BY <1>2, <2>1, OneMore
  <2> QED
    BY <2>2
<1> QED
  BY <1>1, <1>3, <1>4, <1>5 DEF LineOK

\* A sequence that is not empty has a last character, which DecHead() takes away.
LEMMA FrontLast ==
  ASSUME NEW s \in Seq(TtyChars), s # <<>>
  PROVE  /\ DecHead(s) \in Seq(TtyChars) /\ Last(s) \in TtyChars
         /\ s = DecHead(s) \o <<Last(s)>> /\ Len(DecHead(s)) = Len(s) - 1
<1>1. Len(s) \in Nat \ {0} /\ DOMAIN s = 1 .. Len(s) /\ \A i \in 1 .. Len(s) : s[i] \in TtyChars
  BY EmptySeq, LenProperties, ElementOfSeq
<1>2. PICK n : n = Len(s)
  OBVIOUS
<1>3. 1 \in 1 .. n /\ n \in 1 .. n /\ n - 1 \in Int /\ \A i \in 1 .. n - 1 : s[i] \in TtyChars
  BY <1>1, <1>2
<1>4. s = SubSeq(s, 1, n - 1) \o <<s[n]>>
  BY <1>2, <1>3, SubSeqRecursiveSecond, SubSeqFull
<1>5. /\ SubSeq(s, 1, n - 1) \in Seq(TtyChars)
      /\ Len(SubSeq(s, 1, n - 1)) = IF 1 <= n - 1 THEN (n - 1) - 1 + 1 ELSE 0
  BY <1>3, SubSeqProperties
<1>6. n \in Nat \ {0}
  BY <1>1, <1>2
<1>7. Len(SubSeq(s, 1, n - 1)) = n - 1
  BY <1>5, <1>6
<1> QED
  BY <1>1, <1>2, <1>3, <1>4, <1>5, <1>7 DEF DecHead, Last

\* The last character of an unfinished line is taken back.
LEMMA LineErase ==
  ASSUME NEW out \in Seq(TtyChars), NEW s \in Seq(TtyChars), NEW d, NEW P \in Seq(TtyChars),
         LineOK(out, s, d, P), Count(Edits, P) # 0, s # <<>>, Last(s) \notin Ends
  PROVE  LineOK(out, DecHead(s), d, P)
<1>1. PICK u, c : u = DecHead(s) /\ c = Last(s)
  OBVIOUS
<1>2. u \in Seq(TtyChars) /\ c \in TtyChars /\ s = u \o <<c>> /\ c \notin Ends
  BY <1>1, FrontLast
<1>3. PICK k : k = out \o u
  OBVIOUS
<1>4. k \in Seq(TtyChars) /\ out \o s = k \o <<c>>
  <2>1. <<c>> \in Seq(TtyChars)
    BY <1>2
  <2> QED
    BY <1>2, <1>3, <2>1, ConcatProperties, ConcatAssociative
<1>5. Subsequence(k, P)
  BY <1>2, <1>4, SubFront DEF LineOK
<1>6. Count(Ends, k) = Count(Ends, out \o s)
  <2>1. Count(Ends, k \o <<c>>) = Count(Ends, k)
    BY <1>2, <1>4, OneMore
  <2> QED
    BY <2>1, <1>4
<1>7. Count(Ends, u) = Count(Ends, s)
  BY <1>2, OneMore
<1> QED
  BY <1>1, <1>3, <1>5, <1>6, <1>7 DEF LineOK

\* The first character of the queue is read.
LEMMA LineRead ==
  ASSUME NEW out \in Seq(TtyChars), NEW s \in Seq(TtyChars), NEW d, NEW P \in Seq(TtyChars),
         LineOK(out, s, d, P), s # <<>>
  PROVE  LineOK(out \o <<Head(s)>>, Tail(s), IF Head(s) \in Ends THEN d - 1 ELSE d, P)
<1>1. PICK c, u : c = Head(s) /\ u = Tail(s)
  OBVIOUS
<1>2. c \in TtyChars /\ u \in Seq(TtyChars) /\ s = <<c>> \o u /\ <<c>> \in Seq(TtyChars)
  <2>1. c \in TtyChars /\ u \in Seq(TtyChars)
    BY <1>1, HeadTailProperties
  <2>2. s = <<c>> \o u
    BY <1>1
  <2> QED
    BY <2>1, <2>2
<1>3. (out \o <<c>>) \o u = out \o s
  BY <1>2, ConcatAssociative
<1>4. Count(Ends, s) = Count(Ends, <<c>>) + Count(Ends, u)
  BY <1>2, CountCat
<1>5. Count(Ends, <<c>>) = IF c \in Ends THEN 1 ELSE 0
  BY CountOne
<1>6. Count(Ends, u) \in Nat
  BY <1>2, CountType
<1>7. PICK m : m = Count(Ends, u)
  OBVIOUS
<1>8. d = (IF c \in Ends THEN 1 ELSE 0) + m
  BY <1>4, <1>5, <1>7 DEF LineOK
<1>9. (IF c \in Ends THEN d - 1 ELSE d) = m
  BY <1>6, <1>7, <1>8
<1> QED
  BY <1>1, <1>3, <1>7, <1>9 DEF LineOK

-----------------------------------------------------------------------------
(* copy_to_cooked() *)

Terminal ==
  [readQ : Seq(TtyChars), writeN : 0 .. Room, second : Seq(TtyChars), data : Int,
   mode : TtyModes, thre : BOOLEAN]
Fits(t) == t \in Terminal /\ Len(t.readQ) <= Room /\ Len(t.second) <= Room

\* The room of a queue.
LEMMA SizeFacts == TtySize \in Nat /\ Room \in Nat /\ Room >= 1 /\ Room = TtySize - 1
  BY TtyAssumption DEF Room

\* An echo touches the write queue alone.
LEMMA EchoKeeps ==
  ASSUME NEW t \in Terminal, NEW n \in Nat
  PROVE  LET u == WithEcho(n, t)
         IN /\ u \in Terminal
            /\ u.readQ = t.readQ /\ u.second = t.second /\ u.data = t.data /\ u.mode = t.mode
<1>1. PICK w : w = (t.writeN + n) % TtySize
  OBVIOUS
<1>2. w \in 0 .. Room
  <2>1. t.writeN + n \in Nat
    BY SizeFacts DEF Terminal
  <2>2. TtySize \in Nat /\ TtySize > 0
    BY TtyAssumption
  <2>3. PICK v : v = t.writeN + n
    OBVIOUS
  <2>4. v % TtySize \in 0 .. TtySize - 1
    BY <2>1, <2>2, <2>3
  <2> QED
    BY <2>3, <2>4, <1>1 DEF Room
<1>3. PICK b \in BOOLEAN : b = (t.thre \/ w > 0)
  OBVIOUS
<1>4. WithEcho(n, t) = [t EXCEPT !.writeN = w, !.thre = b]
  BY <1>1, <1>3 DEF WithEcho, RsWrite, PutWrite, Terminal
<1>5. [t EXCEPT !.writeN = w, !.thre = b] \in Terminal
  BY <1>2, ZenonT(30) DEF Terminal
<1> QED
  BY <1>4, <1>5 DEF Terminal

\* The terminals that copy_to_cooked() passes through while it kills a line: the
\* read queue is q and P was taken from it.
Killing(q, out, P, raced) ==
  {t \in Terminal : /\ t.readQ = q /\ Len(t.second) <= Room
                    /\ ~raced => LineOK(out, t.second, t.data, P)}

\* A character is taken back, with its echo.
LEMMA EraseKeeps ==
  ASSUME NEW out \in Seq(TtyChars), NEW P \in Seq(TtyChars), NEW q, NEW raced,
         Count(Edits, P) # 0,
         NEW t \in Killing(q, out, P, raced), Erasable(t)
  PROVE  Erase(t) \in Killing(q, out, P, raced)
<1>1. t \in Terminal /\ t.readQ = q /\ Len(t.second) <= Room /\ t.second \in Seq(TtyChars)
  BY DEF Killing, Terminal
<1>2. t.second # <<>> /\ Last(t.second) \notin Ends
  BY DEF Erasable, Empty, EndsLine, Ends
<1>3. PICK u : u = WithEcho(Echoed(Last(t.second)), t)
  OBVIOUS
<1>4. u \in Terminal /\ u.readQ = q /\ u.second = t.second /\ u.data = t.data
  <2>1. Echoed(Last(t.second)) \in Nat
    BY DEF Echoed
  <2> QED
    BY <1>1, <1>3, <2>1, EchoKeeps
<1>5. PICK s : s = DecHead(t.second)
  OBVIOUS
<1>6. s \in Seq(TtyChars) /\ Len(s) <= Room
  <2>1. s \in Seq(TtyChars) /\ Len(s) = Len(t.second) - 1
    BY <1>1, <1>2, <1>5, FrontLast
  <2>2. PICK n : n = Len(t.second)
    OBVIOUS
  <2>3. n \in Nat /\ n <= Room
    BY <1>1, <2>2, LenProperties
  <2> QED
    BY <2>1, <2>2, <2>3, SizeFacts
<1>7. Erase(t) = [u EXCEPT !.second = s]
  BY <1>3, <1>4, <1>5 DEF Erase, Terminal
<1>8. [u EXCEPT !.second = s] \in Terminal
  BY <1>4, <1>6, ZenonT(30) DEF Terminal
<1>9. ASSUME ~raced PROVE LineOK(out, s, t.data, P)
  <2>1. LineOK(out, t.second, t.data, P)
    BY <1>9 DEF Killing
  <2> QED
    BY <2>1, <1>1, <1>2, <1>5, LineErase
<1>10. /\ [u EXCEPT !.second = s].readQ = q /\ [u EXCEPT !.second = s].second = s
       /\ [u EXCEPT !.second = s].data = t.data
  BY <1>4 DEF Terminal
<1> QED
  BY <1>6, <1>7, <1>8, <1>9, <1>10 DEF Killing

\* The loop that takes back the unfinished line.
LEMMA KillKeeps ==
  ASSUME NEW out \in Seq(TtyChars), NEW P \in Seq(TtyChars), NEW q, NEW raced,
         Count(Edits, P) # 0,
         NEW t \in Killing(q, out, P, raced)
  PROVE  KillLine(t) \in Killing(q, out, P, raced)
<1>1. PICK D : D = Killing(q, out, P, raced)
  OBVIOUS
<1> DEFINE Turn(k) == [n \in 0 .. TtySize |->
                         IF n = 0 THEN t
                         ELSE IF Erasable(k[n - 1]) THEN Erase(k[n - 1]) ELSE k[n - 1]]
           killed == CHOOSE k : k = Turn(k)
           F == [x \in D |-> IF Erasable(x) THEN Erase(x) ELSE x]
<1>2. KillLine(t) = killed[TtySize]
  BY DEF KillLine
<1>3. \A x \in D : Erasable(x) => Erase(x) \in D
  BY <1>1, EraseKeeps
<1>4. F \in [D -> D] /\ \A x \in D : F[x] = IF Erasable(x) THEN Erase(x) ELSE x
  BY <1>3
<1>5. \E k : k = Turn(k)
  <2> HIDE DEF F
  <2>6. t \in D /\ F \in [D -> D] /\ TtySize \in Nat
    BY <1>1, <1>4, SizeFacts
  <2>7. PICK g : IsLoop(g, TtySize, D, F, t)
    BY <2>6, LoopExists
  <2>1. g \in [0 .. TtySize -> D] /\ g[0] = t /\ \A n \in 1 .. TtySize : g[n] = F[g[n - 1]]
    BY <2>7 DEF IsLoop
  <2>2. ASSUME NEW n \in 0 .. TtySize PROVE g[n] = Turn(g)[n]
    <3>1. CASE n = 0
      BY <2>1, <3>1
    <3>2. CASE n # 0
      <4>1. n \in 1 .. TtySize /\ n - 1 \in 0 .. TtySize
        BY <3>2, SizeFacts
      <4>2. g[n - 1] \in D
        BY <4>1, <2>1
      <4> QED
        BY <3>2, <4>1, <4>2, <2>1, <1>4
    <3> QED
      BY <3>1, <3>2
  <2>3. g = [n \in 0 .. TtySize |-> g[n]]
    BY <2>1
  <2>4. Turn(g) = [n \in 0 .. TtySize |-> Turn(g)[n]]
    OBVIOUS
  <2> HIDE DEF Turn
  <2>5. g = Turn(g)
    BY <2>2, <2>3, <2>4
  <2> QED
    BY <2>5
<1>6. PICK h : h = killed
  OBVIOUS
<1>7. h = Turn(h)
  <2> HIDE DEF Turn
  <2> QED
    BY <1>5, <1>6
<1> HIDE DEF killed
<1>8. h[0] \in D
  BY <1>1, <1>7, SizeFacts
<1>9. ASSUME NEW n \in 1 .. TtySize, h[n - 1] \in D PROVE h[n] \in D
  <2>1. n \in 0 .. TtySize /\ n # 0
    BY SizeFacts
  <2>2. h[n] = IF Erasable(h[n - 1]) THEN Erase(h[n - 1]) ELSE h[n - 1]
    BY <1>7, <2>1
  <2> QED
    BY <1>3, <1>9, <2>2
<1>10. h[TtySize] \in D
  <2> HIDE DEF Turn
  <2>1. \A n \in 0 .. TtySize : h[n] \in D
    BY <1>8, <1>9, SizeFacts, LoopStays
  <2> QED
    BY <2>1, SizeFacts
<1> QED
  BY <1>1, <1>2, <1>6, <1>10

\* The terminals whose queues go with what was received and read, unless a
\* character was taken from an empty queue.
Cooking(in, out, raced) ==
  {t \in Terminal : /\ Len(t.readQ) <= Room /\ Len(t.second) <= Room
                    /\ \E P \in Seq(TtyChars) :
                         ~raced => in = P \o t.readQ /\ LineOK(out, t.second, t.data, P)}

\* A character behind a queue that has room.
LEMMA PutFits ==
  ASSUME NEW s \in Seq(TtyChars), Len(s) <= Room, ~Full(s), NEW c \in TtyChars
  PROVE  /\ Putch(c, s) = s \o <<c>> /\ Append(s, c) = s \o <<c>>
         /\ s \o <<c>> \in Seq(TtyChars) /\ Len(s \o <<c>>) <= Room
<1>1. Len(s) \in Nat /\ Len(s) # Room
  BY SizeFacts, LenProperties DEF Full, Left
<1>2. Append(s, c) = s \o <<c>> /\ Putch(c, s) = Append(s, c)
  BY AppendIsConcat DEF Putch
<1>3. s \o <<c>> \in Seq(TtyChars) /\ Len(s \o <<c>>) = Len(s) + 1
  BY OneMore
<1>4. PICK n : n = Len(s)
  OBVIOUS
<1>5. n + 1 <= Room
  BY <1>1, <1>4, SizeFacts
<1> QED
  BY <1>2, <1>3, <1>4, <1>5

\* What Accept() does to the queue for the readers.
LEMMA AcceptKeeps ==
  ASSUME NEW out \in Seq(TtyChars), NEW P \in Seq(TtyChars), NEW q, NEW raced,
         NEW t \in Killing(q, out, P, raced), ~Full(t.second),
         NEW c \in TtyChars, NEW raw \in TtyChars, c = raw \/ (c = "nl" /\ raw = "cr")
  PROVE  Accept(c, t) \in Killing(q, out, P \o <<raw>>, raced)
<1>1. /\ t \in Terminal /\ t.readQ = q /\ Len(t.second) <= Room /\ t.second \in Seq(TtyChars)
      /\ t.data \in Int
  BY DEF Killing, Terminal
<1>2. PICK u : u = IF Canon(t) THEN WithEcho(Echoed(c), t) ELSE t
  OBVIOUS
<1>3. u \in Terminal /\ u.readQ = q /\ u.second = t.second /\ u.data = t.data
  <2>1. Echoed(c) \in Nat
    BY DEF Echoed
  <2> QED
    BY <1>1, <1>2, <2>1, EchoKeeps
<1>4. PICK s, d : s = t.second \o <<c>> /\ d = IF c \in Ends THEN t.data + 1 ELSE t.data
  OBVIOUS
<1>5. s \in Seq(TtyChars) /\ Len(s) <= Room /\ Putch(c, t.second) = s /\ d \in Int
  BY <1>1, <1>4, PutFits
<1>6. Accept(c, t) = [u EXCEPT !.second = s, !.data = d]
  <2>1. Accept(c, t) = [u EXCEPT !.second = Putch(c, @), !.data = IF c \in Ends THEN @ + 1 ELSE @]
    BY <1>2 DEF Accept, EndsLine, Ends
  <2> QED
    BY <2>1, <1>3, <1>4, <1>5 DEF Terminal
<1>7. [u EXCEPT !.second = s, !.data = d] \in Terminal
  BY <1>3, <1>5, ZenonT(30) DEF Terminal
<1>8. /\ [u EXCEPT !.second = s, !.data = d].readQ = q
      /\ [u EXCEPT !.second = s, !.data = d].second = s
      /\ [u EXCEPT !.second = s, !.data = d].data = d
  BY <1>3 DEF Terminal
<1>9. ASSUME ~raced PROVE LineOK(out, s, d, P \o <<raw>>)
  <2>1. LineOK(out, t.second, t.data, P)
    BY <1>9 DEF Killing
  <2> QED
    BY <2>1, <1>1, <1>4, LineAccept
<1> QED
  BY <1>5, <1>6, <1>7, <1>8, <1>9 DEF Killing

\* One turn of the loop of copy_to_cooked().
LEMMA CookKeeps ==
  ASSUME NEW in, NEW out \in Seq(TtyChars), NEW raced,
         NEW t \in Cooking(in, out, raced), ~Empty(t.readQ), ~Full(t.second)
  PROVE  Cook(t) \in Cooking(in, out, raced)
<1>1. /\ t \in Terminal /\ Len(t.readQ) <= Room /\ Len(t.second) <= Room
      /\ t.readQ \in Seq(TtyChars) /\ t.second \in Seq(TtyChars) /\ t.readQ # <<>>
  BY DEF Cooking, Terminal, Empty
<1>2. PICK P \in Seq(TtyChars) :
        ~raced => in = P \o t.readQ /\ LineOK(out, t.second, t.data, P)
  BY DEF Cooking
<1>3. PICK raw, q : raw = Head(t.readQ) /\ q = Tail(t.readQ)
  OBVIOUS
<1>4. /\ raw \in TtyChars /\ q \in Seq(TtyChars) /\ Len(q) <= Room
      /\ Getch(t.readQ) = q /\ t.readQ = <<raw>> \o q
  <2>1. raw \in TtyChars /\ q \in Seq(TtyChars) /\ Len(q) = Len(t.readQ) - 1
    BY <1>1, <1>3, HeadTailProperties
  <2>2. Getch(t.readQ) = q
    BY <1>1, <1>3 DEF Getch, Empty
  <2>3. t.readQ = <<raw>> \o q
    BY <1>1, <1>3
  <2>4. Len(q) <= Room
    <3>1. PICK n : n = Len(t.readQ)
      OBVIOUS
    <3>2. n \in Nat /\ n <= Room /\ Len(q) = n - 1
      BY <1>1, <3>1, <2>1, LenProperties
    <3> QED
      BY <3>2, SizeFacts
  <2> QED
    BY <2>1, <2>2, <2>3, <2>4
<1>5. PICK Q : Q = P \o <<raw>>
  OBVIOUS
<1>6. Q \in Seq(TtyChars) /\ <<raw>> \in Seq(TtyChars)
  BY <1>4, <1>5, OneMore
<1>7. ~raced => in = Q \o q
  <2>1. Q \o q = P \o t.readQ
    BY <1>4, <1>5, <1>6, ConcatAssociative
  <2> QED
    BY <1>2, <2>1
<1>8. Killing(q, out, Q, raced) \subseteq Cooking(in, out, raced)
  BY <1>4, <1>6, <1>7 DEF Killing, Cooking
<1>9. PICK u : u = [t EXCEPT !.readQ = q]
  OBVIOUS
<1>10. /\ u \in Terminal /\ u.readQ = q /\ u.second = t.second /\ u.data = t.data /\ u.mode = t.mode
       /\ [t EXCEPT !.readQ = Getch(@)] = u
  <2>1. u \in Terminal
    BY <1>1, <1>4, <1>9, ZenonT(30) DEF Terminal
  <2> QED
    BY <1>1, <1>4, <1>9, <2>1 DEF Terminal
<1>11. u \in Killing(q, out, P, raced)
  BY <1>1, <1>2, <1>10 DEF Killing
<1>12. raw \in Edits => u \in Killing(q, out, Q, raced) /\ Count(Edits, Q) # 0
  <2> SUFFICES ASSUME raw \in Edits PROVE u \in Killing(q, out, Q, raced) /\ Count(Edits, Q) # 0
    OBVIOUS
  <2>1. Count(Edits, Q) # 0
    <3>1. PICK n : n = Count(Edits, P)
      OBVIOUS
    <3>2. n \in Nat /\ Count(Edits, Q) = n + 1
      BY <1>4, <1>5, <3>1, OneMore
    <3> QED
      BY <3>2
  <2>2. ASSUME ~raced PROVE LineOK(out, u.second, u.data, Q)
    BY <2>2, <1>1, <1>2, <1>5, <1>10, LineSkip
  <2> QED
    BY <2>1, <2>2, <1>1, <1>10 DEF Killing
<1>13. PICK c : c = IF Canon(t) /\ raw = "cr" THEN "nl" ELSE raw
  OBVIOUS
<1>14. c \in TtyChars /\ (c = raw \/ (c = "nl" /\ raw = "cr")) /\ (c \in Edits => c = raw)
  BY <1>4, <1>13 DEF TtyChars, Edits
<1>15. Accept(c, u) \in Killing(q, out, Q, raced)
  BY <1>4, <1>5, <1>10, <1>11, <1>14, AcceptKeeps
<1>16. Cook(t) = IF ~Canon(t) THEN Accept(c, u)
                 ELSE CASE c = "kill" -> KillLine(u)
                        [] c = "erase" -> IF Erasable(u) THEN Erase(u) ELSE u
                        [] c \in {"stop", "intr"} -> u
                        [] OTHER -> Accept(c, u)
  BY <1>3, <1>10, <1>13 DEF Cook
<1>17. Cook(t) \in Killing(q, out, Q, raced)
  <2>1. CASE Canon(t) /\ c = "kill"
    <3>1. Cook(t) = KillLine(u)
      BY <1>16, <2>1
    <3>2. raw \in Edits
      BY <1>14, <2>1 DEF Edits
    <3> QED
      BY <1>6, <1>12, <3>1, <3>2, KillKeeps
  <2>2. CASE Canon(t) /\ c = "erase"
    <3>1. Cook(t) = IF Erasable(u) THEN Erase(u) ELSE u
      BY <1>16, <2>2
    <3>2. raw \in Edits
      BY <1>14, <2>2 DEF Edits
    <3> QED
      BY <1>6, <1>12, <3>1, <3>2, EraseKeeps
  <2>3. CASE Canon(t) /\ c \in {"stop", "intr"}
    <3>1. Cook(t) = u
      BY <1>16, <2>3
    <3>2. raw \in Edits
      BY <1>14, <2>3 DEF Edits
    <3> QED
      BY <1>12, <3>1, <3>2
  <2>4. CASE ~Canon(t) \/ c \notin {"kill", "erase", "stop", "intr"}
    <3>1. Cook(t) = Accept(c, u)
      BY <1>16, <2>4
    <3> QED
      BY <1>15, <3>1
  <2> QED
    BY <2>1, <2>2, <2>3, <2>4
<1> QED
  BY <1>8, <1>17

\* The loop of copy_to_cooked().
LEMMA CopyKeeps ==
  ASSUME NEW in, NEW out \in Seq(TtyChars), NEW raced, NEW t \in Cooking(in, out, raced)
  PROVE  CopyToCooked(t) \in [tty : Cooking(in, out, raced), intr : BOOLEAN]
<1>1. PICK C : C = Cooking(in, out, raced)
  OBVIOUS
<1> DEFINE D == [tty : C, intr : BOOLEAN]
           Step(x) == IF Empty(x.tty.readQ) \/ Full(x.tty.second) THEN x
                      ELSE [tty |-> Cook(x.tty),
                            intr |-> x.intr \/ (Canon(x.tty) /\ Head(x.tty.readQ) = "intr")]
           Turn(k) == [n \in 0 .. TtySize |->
                         IF n = 0 THEN [tty |-> t, intr |-> FALSE]
                         ELSE LET u == k[n - 1].tty
                              IN IF Empty(u.readQ) \/ Full(u.second) THEN k[n - 1]
                                 ELSE [tty |-> Cook(u),
                                       intr |-> k[n - 1].intr \/ (Canon(u) /\ Head(u.readQ) = "intr")]]
           Stepped(k) == [n \in 0 .. TtySize |->
                           IF n = 0 THEN [tty |-> t, intr |-> FALSE] ELSE Step(k[n - 1])]
           cooked == CHOOSE k : k = Turn(k)
           F == [x \in D |-> Step(x)]
<1>2. CopyToCooked(t) = cooked[TtySize]
  BY DEF CopyToCooked
<1>3. ASSUME NEW x \in D PROVE Step(x) \in D
  <2>1. x.tty \in C /\ x.intr \in BOOLEAN
    OBVIOUS
  <2>2. CASE Empty(x.tty.readQ) \/ Full(x.tty.second)
    BY <2>2
  <2>3. CASE ~(Empty(x.tty.readQ) \/ Full(x.tty.second))
    <3>1. Cook(x.tty) \in C
      BY <1>1, <2>1, <2>3, CookKeeps
    <3> QED
      BY <2>3, <3>1
  <2> QED
    BY <2>2, <2>3
<1>4. \A k : Turn(k) = Stepped(k)
  OBVIOUS
<1> HIDE DEF Step
<1>5. F \in [D -> D] /\ \A x \in D : F[x] = Step(x)
  BY <1>3
<1>6. [tty |-> t, intr |-> FALSE] \in D
  BY <1>1
<1>7. PICK i : i = [tty |-> t, intr |-> FALSE]
  OBVIOUS
<1> HIDE DEF D, F, Turn
<1>8. \E k : k = Turn(k)
  <2>1. i \in D /\ TtySize \in Nat
    BY <1>6, <1>7, SizeFacts
  <2>2. PICK g : IsLoop(g, TtySize, D, F, i)
    BY <2>1, <1>5, LoopExists
  <2>3. g \in [0 .. TtySize -> D] /\ g[0] = i /\ \A n \in 1 .. TtySize : g[n] = F[g[n - 1]]
    BY <2>2 DEF IsLoop
  <2>4. ASSUME NEW n \in 0 .. TtySize PROVE g[n] = Stepped(g)[n]
    <3>1. CASE n = 0
      BY <2>3, <3>1, <1>7
    <3>2. CASE n # 0
      <4>1. n \in 1 .. TtySize /\ n - 1 \in 0 .. TtySize
        BY <3>2, SizeFacts
      <4>2. g[n - 1] \in D
        BY <4>1, <2>3
      <4> QED
        BY <3>2, <4>1, <4>2, <2>3, <1>5
    <3> QED
      BY <3>1, <3>2
  <2>5. g = [n \in 0 .. TtySize |-> g[n]]
    BY <2>3
  <2>6. Stepped(g) = [n \in 0 .. TtySize |-> Stepped(g)[n]]
    OBVIOUS
  <2> HIDE DEF Stepped
  <2>7. g = Stepped(g)
    BY <2>4, <2>5, <2>6
  <2> QED
    BY <2>7, <1>4
<1>9. PICK h : h = cooked
  OBVIOUS
<1>10. h = Stepped(h)
  <2> HIDE DEF Stepped
  <2> QED
    BY <1>8, <1>9, <1>4
<1> HIDE DEF cooked
<1>11. h[0] \in D
  BY <1>6, <1>10, SizeFacts
<1>12. ASSUME NEW n \in 1 .. TtySize, h[n - 1] \in D PROVE h[n] \in D
  <2>1. n \in 0 .. TtySize /\ n # 0
    BY SizeFacts
  <2>2. h[n] = Step(h[n - 1])
    BY <1>10, <2>1
  <2> QED
    BY <1>3, <1>12, <2>2
<1>13. h[TtySize] \in D
  <2> HIDE DEF Stepped
  <2>1. \A n \in 0 .. TtySize : h[n] \in D
    BY <1>11, <1>12, SizeFacts, LoopStays
  <2> QED
    BY <2>1, SizeFacts
<1> QED
  BY <1>1, <1>2, <1>9, <1>13 DEF D

-----------------------------------------------------------------------------
(* The steps of the terminal *)

TtyPcs == ttyCpu \in {"none", "reader", "writer"}
ReaderOK ==
  ttyR \in [pc : {"user", "test", "get", "asleep", "woken"}, nr : Int, got : Int, flag : BOOLEAN]
WriterOK ==
  /\ ttyW \in [pc : {"user", "full", "fill", "put", "asleep", "woken"},
              text : Seq(TtyChars), cr : BOOLEAN]
  /\ ttyW.pc = "put" => ttyW.text # <<>>
SignalsOK == ttySig \in [{"reader", "writer"} -> SUBSET {"int", "alrm"}]
LinesOK ==
  /\ ttyIn \in Seq(TtyChars) /\ ttyOut \in Seq(TtyChars) /\ ttyRaced \in BOOLEAN
  /\ tty \in Cooking(ttyIn, ttyOut, ttyRaced)

TtyInv == TtyPcs /\ ReaderOK /\ WriterOK /\ SignalsOK /\ LinesOK

\* What Cooking() asks of a terminal, field by field.
LEMMA CookingFacts ==
  ASSUME NEW in, NEW out, NEW raced, NEW t \in Cooking(in, out, raced)
  PROVE  /\ t \in Terminal /\ t.readQ \in Seq(TtyChars) /\ t.second \in Seq(TtyChars)
         /\ t.writeN \in 0 .. Room /\ t.data \in Int /\ t.mode \in TtyModes /\ t.thre \in BOOLEAN
         /\ Len(t.readQ) <= Room /\ Len(t.second) <= Room
  BY DEF Cooking, Terminal

\* What is neither the read queue nor the queue for the readers may change.
LEMMA CookingSame ==
  ASSUME NEW in, NEW out, NEW raced, NEW t \in Cooking(in, out, raced), NEW u \in Terminal,
         u.readQ = t.readQ, u.second = t.second, u.data = t.data
  PROVE  u \in Cooking(in, out, raced)
  BY DEF Cooking

\* A process that is woken keeps what it was doing.
LEMMA WokenKeeps ==
  /\ \A b : ReaderOK =>
       WokenIf(b, ttyR) \in [pc : {"user", "test", "get", "asleep", "woken"},
                             nr : Int, got : Int, flag : BOOLEAN]
  /\ \A b : WriterOK =>
       /\ WokenIf(b, ttyW) \in [pc : {"user", "full", "fill", "put", "asleep", "woken"},
                                text : Seq(TtyChars), cr : BOOLEAN]
       /\ WokenIf(b, ttyW).pc = "put" => WokenIf(b, ttyW).text # <<>>
  BY DEF WokenIf, ReaderOK, WriterOK

\* The terminal as tty_init() leaves it.
LEMMA InitTty == TtyInit => TtyInv
<1> SUFFICES ASSUME TtyInit PROVE TtyInv
  OBVIOUS
<1>1. TtyPcs /\ ReaderOK /\ SignalsOK
  BY DEF TtyInit, TtyPcs, ReaderOK, SignalsOK
<1>2. WriterOK
  BY DEF TtyInit, WriterOK
<1>3. /\ ttyIn = <<>> /\ ttyOut = <<>> /\ ttyRaced = FALSE /\ tty.readQ = <<>>
      /\ tty.second = <<>> /\ tty.data = 0
  BY DEF TtyInit
<1>4. tty \in Terminal
  <2>1. <<>> \in Seq(TtyChars) /\ 0 \in 0 .. Room /\ 0 \in Int
    BY SizeFacts
  <2> QED
    BY <2>1 DEF TtyInit, Terminal
<1>5. \A cs : Count(cs, <<>>) = 0
  <2>1. \A cs : {i \in DOMAIN <<>> : <<>>[i] \in cs} = {}
    OBVIOUS
  <2> QED
    BY <2>1, FS_EmptySet DEF Count
<1>9. PICK e : e = <<>>
  OBVIOUS
<1>6. e \in Seq(TtyChars) /\ e \o e = e /\ Len(e) = 0
  <2>1. <<>> \in Seq(TtyChars) /\ <<>> \o <<>> = <<>> /\ Len(<<>>) = 0
    OBVIOUS
  <2> QED
    BY <1>9, <2>1
<1>7. LineOK(e, e, 0, e)
  <2>1. Subsequence(e, e)
    BY <1>6, SubSame
  <2>2. Count(Ends, e) = 0
    BY <1>5, <1>9
  <2>3. 0 >= 0
    OBVIOUS
  <2> QED
    BY <1>6, <2>1, <2>2, <2>3 DEF LineOK
<1>8. tty \in Cooking(e, e, FALSE)
  <2>1. tty.readQ = e /\ tty.second = e /\ tty.data = 0
    BY <1>3, <1>9
  <2>2. e = e \o tty.readQ /\ LineOK(e, tty.second, tty.data, e)
    BY <1>6, <1>7, <2>1
  <2>3. Len(tty.readQ) <= Room /\ Len(tty.second) <= Room
    BY <1>6, <2>1, SizeFacts
  <2> QED
    BY <1>4, <1>6, <2>2, <2>3 DEF Cooking
<1>10. ttyIn = e /\ ttyOut = e /\ ttyRaced = FALSE
  BY <1>3, <1>9
<1> QED
  BY <1>1, <1>2, <1>6, <1>8, <1>10 DEF TtyInv, LinesOK

\* A serial interrupt puts a character behind the read queue and cooks it.
LEMMA ReceiveKeeps == ASSUME TtyInv, NEW c \in TtyChars, Receive(c) PROVE TtyInv'
<1>1. PICK C : C = Cooking(ttyIn, ttyOut, ttyRaced)
  OBVIOUS
<1>2. /\ tty \in C /\ ttyIn \in Seq(TtyChars) /\ ttyOut \in Seq(TtyChars) /\ ttyRaced \in BOOLEAN
      /\ tty \in Terminal /\ tty.readQ \in Seq(TtyChars) /\ Len(tty.readQ) <= Room
  BY <1>1, CookingFacts DEF TtyInv, LinesOK
<1>3. PICK room, q, in : /\ room = ~Full(tty.readQ)
                         /\ q = IF room THEN Append(tty.readQ, c) ELSE tty.readQ
                         /\ in = IF room THEN Append(ttyIn, c) ELSE ttyIn
  OBVIOUS
<1>4. PICK u : u = [tty EXCEPT !.readQ = q]
  OBVIOUS
<1>5. PICK t : t = CopyToCooked(u)
  OBVIOUS
<1>6. /\ tty' = t.tty /\ ttyIn' = in
      /\ ttySig' = IF t.intr THEN WithSignal({"int"}) ELSE ttySig
      /\ ttyR' = WokenIf(TRUE, ttyR) /\ ttyW' = WokenIf(t.intr, ttyW)
      /\ UNCHANGED <<ttyCpu, ttyAlarm, ttyOut, ttyRaced>>
  BY <1>3, <1>4, <1>5 DEF Receive
<1>7. in \in Seq(TtyChars) /\ u \in Cooking(in, ttyOut, ttyRaced)
  <2>1. CASE Full(tty.readQ)
    <3>1. u = tty /\ in = ttyIn
      BY <2>1, <1>2, <1>3, <1>4 DEF Terminal
    <3> QED
      BY <3>1, <1>1, <1>2
  <2>2. CASE ~Full(tty.readQ)
    <3>1. q = tty.readQ \o <<c>> /\ q \in Seq(TtyChars) /\ Len(q) <= Room /\ <<c>> \in Seq(TtyChars)
      <4>1. q = Append(tty.readQ, c)
        BY <2>2, <1>3
      <4>2. <<c>> \in Seq(TtyChars)
        OBVIOUS
      <4> QED
        BY <4>1, <4>2, <2>2, <1>2, PutFits
    <3>2. in = ttyIn \o <<c>> /\ in \in Seq(TtyChars)
      <4>1. in = Append(ttyIn, c)
        BY <2>2, <1>3
      <4>2. Append(ttyIn, c) = ttyIn \o <<c>>
        BY <1>2, AppendIsConcat
      <4> QED
        BY <4>1, <4>2, <1>2, OneMore
    <3>3. u \in Terminal
      BY <1>2, <1>4, <3>1, ZenonT(30) DEF Terminal
    <3>4. u.readQ = q /\ u.second = tty.second /\ u.data = tty.data /\ Len(tty.second) <= Room
      BY <1>1, <1>2, <1>4, CookingFacts DEF Terminal
    <3>5. PICK P \in Seq(TtyChars) :
            ~ttyRaced => ttyIn = P \o tty.readQ /\ LineOK(ttyOut, tty.second, tty.data, P)
      BY <1>1, <1>2 DEF Cooking
    <3>6. (P \o tty.readQ) \o <<c>> = P \o q
      <4>1. PICK r : r = tty.readQ
        OBVIOUS
      <4>2. r \in Seq(TtyChars) /\ <<c>> \in Seq(TtyChars) /\ q = r \o <<c>>
        BY <4>1, <1>2, <3>1
      <4>3. (P \o r) \o <<c>> = P \o (r \o <<c>>)
        BY <4>2, ConcatAssociative
      <4> QED
        BY <4>1, <4>2, <4>3
    <3>7. ~ttyRaced => in = P \o u.readQ /\ LineOK(ttyOut, u.second, u.data, P)
      BY <3>2, <3>4, <3>5, <3>6
    <3> QED
      BY <3>1, <3>2, <3>3, <3>4, <3>7 DEF Cooking
  <2> QED
    BY <2>1, <2>2
<1>8. t.tty \in Cooking(in, ttyOut, ttyRaced) /\ t.intr \in BOOLEAN
  BY <1>2, <1>5, <1>7, CopyKeeps
<1>9. LinesOK'
  BY <1>2, <1>6, <1>7, <1>8 DEF LinesOK
<1>10. SignalsOK'
  BY <1>6 DEF TtyInv, SignalsOK, WithSignal
<1>11. ReaderOK' /\ WriterOK'
  BY <1>6, WokenKeeps DEF TtyInv, ReaderOK, WriterOK
<1>12. TtyPcs'
  BY <1>6 DEF TtyInv, TtyPcs
<1> QED
  BY <1>9, <1>10, <1>11, <1>12 DEF TtyInv

\* The transmit interrupt and the alarm touch no input.
LEMMA TransmitKeeps == ASSUME TtyInv, Transmit \/ AlarmFires PROVE TtyInv'
<1>1. tty \in Cooking(ttyIn, ttyOut, ttyRaced) /\ tty \in Terminal /\ tty.writeN \in 0 .. Room
  BY CookingFacts DEF TtyInv, LinesOK
<1>2. CASE Transmit
  <2>1. PICK left, b : left = (IF tty.writeN = 0 THEN 0 ELSE tty.writeN - 1) /\ b = (left > 0)
    OBVIOUS
  <2>2. /\ tty' = [tty EXCEPT !.writeN = left, !.thre = b]
        /\ ttyW' = WokenIf(WakesWriter(tty.writeN), ttyW)
        /\ UNCHANGED <<ttyR, ttyCpu, ttySig, ttyAlarm, ttyIn, ttyOut, ttyRaced>>
    BY <1>2, <2>1 DEF Transmit
  <2>3. left \in 0 .. Room
    <3>1. PICK n : n = tty.writeN
      OBVIOUS
    <3> QED
      BY <1>1, <2>1, <3>1, SizeFacts
  <2>4. b \in BOOLEAN
    BY <2>1
  <2>5. PICK u : u = [tty EXCEPT !.writeN = left, !.thre = b]
    OBVIOUS
  <2>6. u \in Terminal
    BY <1>1, <2>3, <2>4, <2>5, ZenonT(30) DEF Terminal
  <2>7. u.readQ = tty.readQ /\ u.second = tty.second /\ u.data = tty.data
    BY <1>1, <2>5 DEF Terminal
  <2>8. u \in Cooking(ttyIn, ttyOut, ttyRaced)
    BY <1>1, <2>6, <2>7, CookingSame
  <2>9. LinesOK'
    BY <2>2, <2>5, <2>8 DEF TtyInv, LinesOK
  <2>10. WriterOK'
    BY <2>2, WokenKeeps DEF TtyInv, WriterOK
  <2>11. TtyPcs' /\ ReaderOK' /\ SignalsOK'
    BY <2>2 DEF TtyInv, TtyPcs, ReaderOK, SignalsOK
  <2> QED
    BY <2>9, <2>10, <2>11 DEF TtyInv
<1>3. CASE AlarmFires
  <2>1. LinesOK' /\ WriterOK' /\ TtyPcs'
    BY <1>3 DEF AlarmFires, TtyInv, LinesOK, WriterOK, TtyPcs
  <2>2. ReaderOK'
    BY <1>3, WokenKeeps DEF AlarmFires, TtyInv, ReaderOK
  <2>3. SignalsOK'
    BY <1>3 DEF AlarmFires, TtyInv, SignalsOK
  <2> QED
    BY <2>1, <2>2, <2>3 DEF TtyInv
<1> QED
  BY <1>2, <1>3

\* The start of a sequence.
LEMMA FrontOfCat ==
  ASSUME NEW p \in Seq(TtyChars), NEW r \in Seq(TtyChars)
  PROVE  SubSeq(p \o r, 1, Len(p \o r) - Len(r)) = p
<1>1. PICK n, m, s : n = Len(p) /\ m = Len(r) /\ s = p \o r
  OBVIOUS
<1>2. /\ n \in Nat /\ m \in Nat /\ Len(s) = n + m /\ s \in Seq(TtyChars)
      /\ \A i \in 1 .. n + m : s[i] = IF i <= n THEN p[i] ELSE r[i - n]
  BY <1>1, LenProperties, ConcatProperties
<1>3. Len(s) - m = n
  BY <1>2
<1>4. \A i \in 1 .. n : s[i] = p[i] /\ s[i] \in TtyChars
  <2> SUFFICES ASSUME NEW i \in 1 .. n PROVE s[i] = p[i] /\ s[i] \in TtyChars
    OBVIOUS
  <2>1. i \in 1 .. n + m /\ i <= n /\ i \in 1 .. Len(p)
    BY <1>1, <1>2
  <2> QED
    BY <2>1, <1>2, ElementOfSeq
<1>5. PICK u : u = SubSeq(s, 1, n)
  OBVIOUS
<1>6. /\ u \in Seq(TtyChars) /\ Len(u) = IF 1 <= n THEN n - 1 + 1 ELSE 0
      /\ \A i \in 1 .. n - 1 + 1 : u[i] = s[1 + i - 1]
  BY <1>2, <1>4, <1>5, SubSeqProperties
<1>7. Len(u) = n
  BY <1>2, <1>6
<1>8. ASSUME NEW i \in 1 .. n PROVE u[i] = p[i]
  <2>1. i \in 1 .. n - 1 + 1 /\ 1 + i - 1 = i
    BY <1>2
  <2> QED
    BY <2>1, <1>4, <1>6
<1>9. u = p
  BY <1>1, <1>6, <1>7, <1>8, SeqEqual
<1> QED
  BY <1>1, <1>3, <1>5, <1>9

\* A flush drops what copy_to_cooked() has not taken yet, and no more.
LEMMA IoctlKeeps == ASSUME TtyInv, TtyIoctl PROVE TtyInv'
<1>1. /\ tty \in Cooking(ttyIn, ttyOut, ttyRaced) /\ tty \in Terminal /\ tty.writeN \in 0 .. Room
      /\ tty.readQ \in Seq(TtyChars) /\ Len(tty.readQ) <= Room /\ Len(tty.second) <= Room
      /\ ttyIn \in Seq(TtyChars) /\ ttyOut \in Seq(TtyChars) /\ ttyRaced \in BOOLEAN
  BY CookingFacts DEF TtyInv, LinesOK
<1>2. PICK m \in TtyModes, input \in BOOLEAN, output \in BOOLEAN :
        /\ tty' = [tty EXCEPT !.mode = m, !.readQ = IF input THEN <<>> ELSE @,
                             !.writeN = IF output THEN 0 ELSE @]
        /\ ttyIn' = IF input THEN SubSeq(ttyIn, 1, Len(ttyIn) - Len(tty.readQ)) ELSE ttyIn
  BY DEF TtyIoctl
<1>3. PICK q, w : /\ q = (IF input THEN <<>> ELSE tty.readQ)
                  /\ w = (IF output THEN 0 ELSE tty.writeN)
  OBVIOUS
<1>4. q \in Seq(TtyChars) /\ Len(q) <= Room /\ w \in 0 .. Room
  BY <1>1, <1>3, SizeFacts, EmptySeq
<1>5. PICK u : u = [tty EXCEPT !.mode = m, !.readQ = q, !.writeN = w]
  OBVIOUS
<1>6. tty' = u
  BY <1>1, <1>2, <1>3, <1>5 DEF Terminal
<1>7. u \in Terminal
  BY <1>1, <1>4, <1>5, ZenonT(30) DEF Terminal
<1>8. u.readQ = q /\ u.second = tty.second /\ u.data = tty.data
  BY <1>1, <1>5 DEF Terminal
<1>9. PICK P \in Seq(TtyChars) :
        ~ttyRaced => ttyIn = P \o tty.readQ /\ LineOK(ttyOut, tty.second, tty.data, P)
  BY <1>1 DEF Cooking
<1>10. ttyIn' \in Seq(TtyChars) /\ (~ttyRaced => ttyIn' = P \o q)
  <2>1. CASE input
    <3>1. PICK r, n, k : r = tty.readQ /\ n = Len(ttyIn) /\ k = Len(r)
      OBVIOUS
    <3>2. ttyIn' = SubSeq(ttyIn, 1, n - k) /\ q = <<>> /\ r \in Seq(TtyChars) /\ n \in Nat /\ k \in Nat
      BY <1>1, <1>2, <1>3, <2>1, <3>1, LenProperties
    <3>3. \A i \in 1 .. n - k : i \in 1 .. Len(ttyIn)
      BY <3>1, <3>2
    <3>4. \A i \in 1 .. n - k : ttyIn[i] \in TtyChars
      BY <1>1, <3>3, ElementOfSeq
    <3>5. ttyIn' \in Seq(TtyChars)
      BY <3>2, <3>4, SubSeqProperties
    <3>6. ASSUME ~ttyRaced PROVE ttyIn' = P \o q
      <4>1. ttyIn = P \o r
        BY <1>9, <3>1, <3>6
      <4>2. SubSeq(ttyIn, 1, Len(ttyIn) - Len(r)) = P
        BY <3>2, <4>1, FrontOfCat
      <4>3. P \o <<>> = P
        BY ConcatEmptySeq
      <4> QED
        BY <3>1, <3>2, <4>2, <4>3
    <3> QED
      BY <3>5, <3>6
  <2>2. CASE ~input
    BY <1>1, <1>2, <1>3, <1>9, <2>2
  <2> QED
    BY <2>1, <2>2
<1>11. u \in Cooking(ttyIn', ttyOut, ttyRaced)
  BY <1>1, <1>4, <1>7, <1>8, <1>9, <1>10 DEF Cooking
<1>12. UNCHANGED <<ttyR, ttyW, ttyCpu, ttySig, ttyAlarm, ttyOut, ttyRaced>>
  BY DEF TtyIoctl
<1>13. LinesOK'
  BY <1>1, <1>6, <1>10, <1>11, <1>12 DEF LinesOK
<1>14. TtyPcs' /\ ReaderOK' /\ WriterOK' /\ SignalsOK'
  BY <1>12 DEF TtyInv, TtyPcs, ReaderOK, WriterOK, SignalsOK
<1> QED
  BY <1>13, <1>14 DEF TtyInv

\* A process goes back to user mode.
LEMMA ReturnKeeps ==
  /\ SignalsOK /\ ReaderReturns => ReaderOK' /\ TtyPcs' /\ SignalsOK'
  /\ SignalsOK /\ WriterOK /\ WriterReturns => WriterOK' /\ TtyPcs' /\ SignalsOK'
<1>1. ASSUME SignalsOK, ReaderReturns PROVE ReaderOK' /\ TtyPcs' /\ SignalsOK'
  BY <1>1 DEF ReaderReturns, ReaderOK, TtyPcs, SignalsOK
<1>2. ASSUME SignalsOK, WriterOK, WriterReturns PROVE WriterOK' /\ TtyPcs' /\ SignalsOK'
  <2>1. TtyPcs' /\ SignalsOK'
    BY <1>2 DEF WriterReturns, TtyPcs, SignalsOK
  <2>2. <<>> \in Seq(TtyChars)
    OBVIOUS
  <2>3. WriterOK'
    BY <1>2, <2>2 DEF WriterReturns, WriterOK
  <2> QED
    BY <2>1, <2>3
<1> QED
  BY <1>1, <1>2

\* Steps that touch no queue.
LEMMA LinesUnchanged ==
  ASSUME LinesOK, UNCHANGED <<tty, ttyIn, ttyOut, ttyRaced>> PROVE LinesOK'
  BY DEF LinesOK

\* tty_read() up to its GETCH.
LEMMA ReadKeeps == ASSUME TtyInv, ReadCall \/ ReadTest \/ ReadWakes PROVE TtyInv'
<1>1. UNCHANGED <<tty, ttyW, ttyIn, ttyOut, ttyRaced>>
  BY DEF ReadCall, ReadTest, ReadWakes
<1>2. LinesOK' /\ WriterOK'
  <2>1. LinesOK'
    BY <1>1, LinesUnchanged DEF TtyInv
  <2>2. WriterOK'
    BY <1>1 DEF TtyInv, WriterOK
  <2> QED
    BY <2>1, <2>2
<1>3. CASE ReadCall
  <2>1. ReaderOK'
    <3>1. TtyNr \in Int
      BY TtyAssumption
    <3>2. (tty.mode = "timed") \in BOOLEAN
      OBVIOUS
    <3> QED
      BY <1>3, <3>1, <3>2 DEF ReadCall, ReaderOK
  <2>2. TtyPcs' /\ SignalsOK'
    BY <1>3 DEF ReadCall, TtyInv, TtyPcs, SignalsOK
  <2> QED
    BY <1>2, <2>1, <2>2 DEF TtyInv
<1>4. CASE ReadTest
  <2>1. CASE ReaderReturns
    BY <1>2, <2>1, ReturnKeeps DEF TtyInv
  <2>2. CASE ~ReaderReturns
    <3>1. ReaderOK'
      BY <1>4, <2>2 DEF ReadTest, TtyInv, ReaderOK
    <3>2. TtyPcs' /\ SignalsOK'
      BY <1>4, <2>2 DEF ReadTest, TtyInv, TtyPcs, SignalsOK
    <3> QED
      BY <1>2, <3>1, <3>2 DEF TtyInv
  <2> QED
    BY <2>1, <2>2
<1>5. CASE ReadWakes
  <2>1. ReaderOK'
    BY <1>5 DEF ReadWakes, TtyInv, ReaderOK
  <2>2. TtyPcs' /\ SignalsOK'
    BY <1>5 DEF ReadWakes, TtyInv, TtyPcs, SignalsOK
  <2> QED
    BY <1>2, <2>1, <2>2 DEF TtyInv
<1> QED
  BY <1>3, <1>4, <1>5

\* GETCH: the first queued character is read, or one that nobody put there.
LEMMA ReadGetKeeps == ASSUME TtyInv, ReadGet PROVE TtyInv'
<1>1. /\ tty \in Cooking(ttyIn, ttyOut, ttyRaced) /\ tty \in Terminal
      /\ tty.second \in Seq(TtyChars) /\ Len(tty.second) <= Room
      /\ Len(tty.readQ) <= Room /\ tty.data \in Int
      /\ ttyIn \in Seq(TtyChars) /\ ttyOut \in Seq(TtyChars) /\ ttyRaced \in BOOLEAN
  BY CookingFacts DEF TtyInv, LinesOK
<1>2. PICK s, c, s1, d : /\ s = tty.second
                         /\ c = (IF Empty(s) THEN "a" ELSE Head(s))
                         /\ s1 = Getch(s)
                         /\ d = (IF c \in Ends THEN tty.data - 1 ELSE tty.data)
  OBVIOUS
<1>3. /\ tty' = [tty EXCEPT !.second = s1, !.data = IF c \in Ends THEN @ - 1 ELSE @]
      /\ ttyRaced' = (ttyRaced \/ Empty(s))
      /\ ttyOut' = IF ttyRaced' THEN <<>> ELSE Append(ttyOut, c)
      /\ UNCHANGED <<ttyW, ttyIn>>
  BY <1>2 DEF ReadGet, EndsLine, Ends
<1>4. c \in TtyChars /\ s1 \in Seq(TtyChars) /\ Len(s1) <= Room /\ d \in Int
  <2>1. d \in Int
    BY <1>1, <1>2
  <2>2. CASE s = <<>>
    <3>1. c = "a" /\ s1 = [i \in 1 .. Room |-> "a"]
      BY <1>2, <2>2 DEF Empty, Getch
    <3>2. s1 \in Seq(TtyChars) /\ Len(s1) = Room
      BY <3>1, SizeFacts DEF TtyChars
    <3> QED
      BY <2>1, <3>1, <3>2, SizeFacts DEF TtyChars
  <2>3. CASE s # <<>>
    <3>1. c = Head(s) /\ s1 = Tail(s)
      BY <1>2, <2>3 DEF Empty, Getch
    <3>2. c \in TtyChars /\ s1 \in Seq(TtyChars) /\ Len(s1) = Len(s) - 1
      BY <1>1, <1>2, <2>3, <3>1, HeadTailProperties
    <3>3. PICK n : n = Len(s)
      OBVIOUS
    <3>4. n \in Nat /\ n <= Room
      BY <1>1, <1>2, <3>3, LenProperties
    <3> QED
      BY <2>1, <3>2, <3>3, <3>4, SizeFacts
  <2> QED
    BY <2>2, <2>3
<1>5. PICK u : u = [tty EXCEPT !.second = s1, !.data = d]
  OBVIOUS
<1>6. tty' = u
  BY <1>1, <1>2, <1>3, <1>5 DEF Terminal
<1>7. u \in Terminal
  BY <1>1, <1>4, <1>5, ZenonT(30) DEF Terminal
<1>8. u.readQ = tty.readQ /\ u.second = s1 /\ u.data = d
  BY <1>1, <1>5 DEF Terminal
<1>9. PICK P \in Seq(TtyChars) :
        ~ttyRaced => ttyIn = P \o tty.readQ /\ LineOK(ttyOut, tty.second, tty.data, P)
  BY <1>1 DEF Cooking
<1>10. ttyRaced' \in BOOLEAN
  BY <1>1, <1>3
<1>11. ttyOut' \in Seq(TtyChars) /\ (~ttyRaced' => LineOK(ttyOut', s1, d, P))
  <2>1. CASE ttyRaced'
    <3>1. <<>> \in Seq(TtyChars)
      OBVIOUS
    <3> QED
      BY <1>3, <2>1, <3>1
  <2>2. CASE ~ttyRaced'
    <3>1. ~ttyRaced /\ s # <<>>
      BY <1>3, <2>2 DEF Empty
    <3>2. c = Head(s) /\ s1 = Tail(s)
      BY <1>2, <3>1 DEF Empty, Getch
    <3>3. ttyOut' = ttyOut \o <<c>>
      BY <1>1, <1>3, <1>4, <2>2, AppendIsConcat
    <3>4. ttyOut \o <<c>> \in Seq(TtyChars)
      BY <1>1, <1>4, OneMore
    <3>5. LineOK(ttyOut, s, tty.data, P)
      BY <1>2, <1>9, <3>1
    <3>6. s \in Seq(TtyChars)
      BY <1>1, <1>2
    <3>7. LineOK(ttyOut \o <<c>>, s1, d, P)
      BY <1>1, <1>2, <3>1, <3>2, <3>5, <3>6, LineRead
    <3> QED
      BY <3>3, <3>4, <3>7
  <2> QED
    BY <2>1, <2>2
<1>12. ~ttyRaced' => ttyIn = P \o tty.readQ
  BY <1>3, <1>9
<1>13. u \in Cooking(ttyIn, ttyOut', ttyRaced')
  BY <1>1, <1>4, <1>7, <1>8, <1>11, <1>12 DEF Cooking
<1>14. LinesOK'
  BY <1>1, <1>3, <1>6, <1>10, <1>11, <1>13 DEF LinesOK
<1>15. WriterOK'
  BY <1>3 DEF TtyInv, WriterOK
<1>16. CASE ReaderReturns
  BY <1>14, <1>15, <1>16, ReturnKeeps DEF TtyInv
<1>17. CASE ~ReaderReturns
  <2>1. PICK nr, got : nr = ttyR.nr - 1 /\ got = ttyR.got + 1
    OBVIOUS
  <2>2. nr \in Int /\ got \in Int
    BY <2>1 DEF TtyInv, ReaderOK
  <2>3. /\ \/ ttyR' = [ttyR EXCEPT !.nr = nr, !.got = got]
           \/ ttyR' = [ttyR EXCEPT !.pc = "test", !.nr = nr, !.got = got]
        /\ UNCHANGED <<ttyCpu, ttySig>>
    BY <1>17, <2>1 DEF ReadGet
  <2>4. ReaderOK'
    BY <2>2, <2>3 DEF TtyInv, ReaderOK
  <2>5. TtyPcs' /\ SignalsOK'
    BY <2>3 DEF TtyInv, TtyPcs, SignalsOK
  <2> QED
    BY <1>14, <1>15, <2>4, <2>5 DEF TtyInv
<1> QED
  BY <1>16, <1>17

\* tty_write() touches the write queue alone.
LEMMA WriteKeeps == ASSUME TtyInv, TtyWriter PROVE TtyInv'
<1>1. ReaderOK'
  BY DEF TtyInv, TtyWriter, WriteCall, WriteFull, WriteFill, WritePut, ReaderOK
<1>2. tty \in Cooking(ttyIn, ttyOut, ttyRaced) /\ tty \in Terminal /\ tty.writeN \in 0 .. Room
  BY CookingFacts DEF TtyInv, LinesOK
<1>3. UNCHANGED <<ttyIn, ttyOut, ttyRaced>>
  BY DEF TtyWriter, WriteCall, WriteFull, WriteFill, WritePut
<1>4. LinesOK'
  <2>1. CASE tty' = tty
    BY <1>3, <2>1, LinesUnchanged DEF TtyInv
  <2>2. CASE tty' = RsWrite(tty) \/ tty' = PutWrite(1, tty)
    <3>1. PICK w : w = (tty.writeN + 1) % TtySize
      OBVIOUS
    <3>2. w \in 0 .. Room
      <4>1. PICK n : n = tty.writeN + 1
        OBVIOUS
      <4>2. n \in Nat
        BY <1>2, <4>1, SizeFacts
      <4>3. n % TtySize \in 0 .. TtySize - 1
        BY <4>2, TtyAssumption
      <4> QED
        BY <3>1, <4>1, <4>3 DEF Room
    <3>3. PICK b \in BOOLEAN : b = (tty.thre \/ tty.writeN > 0)
      OBVIOUS
    <3>4. tty' = [tty EXCEPT !.thre = b] \/ tty' = [tty EXCEPT !.writeN = w]
      BY <1>2, <2>2, <3>1, <3>3 DEF RsWrite, PutWrite, Terminal
    <3>5. [tty EXCEPT !.thre = b] \in Terminal /\ [tty EXCEPT !.writeN = w] \in Terminal
      <4>1. [tty EXCEPT !.thre = b] \in Terminal
        BY <1>2, ZenonT(30) DEF Terminal
      <4>2. [tty EXCEPT !.writeN = w] \in Terminal
        BY <1>2, <3>2, ZenonT(30) DEF Terminal
      <4> QED
        BY <4>1, <4>2
    <3>6. PICK u : u = tty'
      OBVIOUS
    <3>7. u \in Terminal
      BY <3>4, <3>5, <3>6
    <3>8. u.readQ = tty.readQ /\ u.second = tty.second /\ u.data = tty.data
      BY <1>2, <3>4, <3>6 DEF Terminal
    <3>9. u \in Cooking(ttyIn, ttyOut, ttyRaced)
      BY <1>2, <3>7, <3>8, CookingSame
    <3> QED
      BY <1>3, <3>6, <3>9 DEF TtyInv, LinesOK
  <2>3. tty' = tty \/ tty' = RsWrite(tty) \/ tty' = PutWrite(1, tty)
    BY DEF TtyWriter, WriteCall, WriteFull, WriteFill, WritePut
  <2> QED
    BY <2>1, <2>2, <2>3
<1>5. CASE WriterReturns
  BY <1>1, <1>4, <1>5, ReturnKeeps DEF TtyInv
<1>6. CASE WriteCall
  <2>1. PICK text \in TtyTexts : ttyW' = [ttyW EXCEPT !.pc = "full", !.text = text]
    BY <1>6 DEF WriteCall
  <2>2. text \in Seq(TtyChars)
    BY TtyAssumption
  <2>3. WriterOK'
    BY <2>1, <2>2 DEF TtyInv, WriterOK
  <2>4. TtyPcs' /\ SignalsOK'
    BY <1>6 DEF WriteCall, TtyInv, TtyPcs, SignalsOK
  <2> QED
    BY <1>1, <1>4, <2>3, <2>4 DEF TtyInv
<1>7. CASE WriteFull /\ ~WriterReturns
  <2>1. WriterOK'
    BY <1>7 DEF WriteFull, TtyInv, WriterOK
  <2>2. TtyPcs' /\ SignalsOK'
    BY <1>7 DEF WriteFull, TtyInv, TtyPcs, SignalsOK
  <2> QED
    BY <1>1, <1>4, <2>1, <2>2 DEF TtyInv
<1>8. CASE WriteFill /\ ~WriterReturns
  <2>1. WriterOK'
    BY <1>8 DEF WriteFill, TtyInv, WriterOK
  <2>2. TtyPcs' /\ SignalsOK'
    BY <1>8 DEF WriteFill, TtyInv, TtyPcs, SignalsOK
  <2> QED
    BY <1>1, <1>4, <2>1, <2>2 DEF TtyInv
<1>9. CASE WritePut
  <2>1. PICK cr \in BOOLEAN :
          ttyW' = [pc |-> "fill", cr |-> cr, text |-> IF cr THEN ttyW.text ELSE Tail(ttyW.text)]
    BY <1>9 DEF WritePut
  <2>2. ttyW.text \in Seq(TtyChars) /\ ttyW.text # <<>>
    BY <1>9 DEF WritePut, TtyInv, WriterOK
  <2>3. Tail(ttyW.text) \in Seq(TtyChars)
    BY <2>2, HeadTailProperties
  <2>4. WriterOK'
    BY <2>1, <2>2, <2>3 DEF WriterOK
  <2>5. TtyPcs' /\ SignalsOK'
    BY <1>9 DEF WritePut, TtyInv, TtyPcs, SignalsOK
  <2> QED
    BY <1>1, <1>4, <2>4, <2>5 DEF TtyInv
<1> QED
  BY <1>5, <1>6, <1>7, <1>8, <1>9 DEF TtyWriter

\* TtyInv is inductive.
LEMMA TtyStepKeeps ==
  ASSUME TtyInv, TtyLine(TtyChars) \/ TtyReader \/ TtyWriter \/ UNCHANGED ttyVars
  PROVE  TtyInv'
<1>1. CASE TtyLine(TtyChars)
  <2>1. CASE \E c \in TtyChars : Receive(c)
    BY <2>1, ReceiveKeeps
  <2>2. CASE Transmit \/ AlarmFires
    BY <2>2, TransmitKeeps
  <2>3. CASE TtyIoctl
    BY <2>3, IoctlKeeps
  <2> QED
    BY <1>1, <2>1, <2>2, <2>3 DEF TtyLine
<1>2. CASE TtyReader
  BY <1>2, ReadKeeps, ReadGetKeeps DEF TtyReader
<1>3. CASE TtyWriter
  BY <1>3, WriteKeeps
<1>4. CASE UNCHANGED ttyVars
  BY <1>4 DEF ttyVars, TtyInv, TtyPcs, ReaderOK, WriterOK, SignalsOK, LinesOK
<1> QED
  BY <1>1, <1>2, <1>3, <1>4

\* What TtyInv says in the terms of the specification.
LEMMA InvLines == TtyInv => TtyLinesExact
<1> SUFFICES ASSUME TtyInv, ~ttyRaced
             PROVE  LET kept == ttyOut \o tty.second \o tty.readQ
                    IN /\ Subsequence(kept, ttyIn)
                       /\ Count(Ends, kept) >= Count(Ends, ttyIn)
                       /\ Count(Edits, ttyIn) = 0 => Len(kept) = Len(ttyIn)
                       /\ tty.data = Count(Ends, tty.second)
  BY DEF TtyLinesExact, Ends, Edits
<1>1. /\ tty \in Cooking(ttyIn, ttyOut, ttyRaced) /\ ttyOut \in Seq(TtyChars)
      /\ tty.second \in Seq(TtyChars) /\ tty.readQ \in Seq(TtyChars)
  BY CookingFacts DEF TtyInv, LinesOK
<1>2. PICK P \in Seq(TtyChars) : ttyIn = P \o tty.readQ /\ LineOK(ttyOut, tty.second, tty.data, P)
  BY <1>1 DEF Cooking
<1>3. PICK k, r : k = ttyOut \o tty.second /\ r = tty.readQ
  OBVIOUS
<1>4. k \in Seq(TtyChars) /\ r \in Seq(TtyChars)
  BY <1>1, <1>3, ConcatProperties
<1>5. /\ Subsequence(k, P) /\ Count(Ends, k) >= Count(Ends, P)
      /\ Count(Edits, P) = 0 => Len(k) = Len(P)
      /\ tty.data = Count(Ends, tty.second)
  BY <1>2, <1>3 DEF LineOK
<1>6. Subsequence(k \o r, P \o r)
  BY <1>4, <1>5, SubSame, SubCat
<1>7. Count(Ends, k \o r) >= Count(Ends, P \o r)
  <2>1. Count(Ends, k \o r) = Count(Ends, k) + Count(Ends, r)
    BY <1>4, CountCat
  <2>2. Count(Ends, P \o r) = Count(Ends, P) + Count(Ends, r)
    BY <1>4, CountCat
  <2>3. Count(Ends, k) \in Nat /\ Count(Ends, r) \in Nat /\ Count(Ends, P) \in Nat
    BY <1>4, CountType
  <2> QED
    BY <2>1, <2>2, <2>3, <1>5
<1>8. Count(Edits, P \o r) = 0 => Len(k \o r) = Len(P \o r)
  <2>1. Count(Edits, P \o r) = Count(Edits, P) + Count(Edits, r)
    BY <1>4, CountCat
  <2>2. Count(Edits, P) \in Nat /\ Count(Edits, r) \in Nat
    BY <1>4, CountType
  <2>3. Count(Edits, P \o r) = 0 => Count(Edits, P) = 0
    BY <2>1, <2>2
  <2>4. Len(k \o r) = Len(k) + Len(r)
    BY <1>4, ConcatProperties
  <2>5. Len(P \o r) = Len(P) + Len(r)
    BY <1>4, ConcatProperties
  <2> QED
    BY <2>3, <2>4, <2>5, <1>5
<1> QED
  BY <1>2, <1>3, <1>5, <1>6, <1>7, <1>8

\* The types of the terminal.
LEMMA InvTtyTypes == TtyInv => TtyTypeOK
<1> SUFFICES ASSUME TtyInv PROVE TtyTypeOK
  OBVIOUS
<1>1. /\ tty.readQ \in Seq(TtyChars) /\ tty.second \in Seq(TtyChars)
      /\ tty.writeN \in 0 .. Room /\ tty.data \in Int /\ tty.mode \in TtyModes /\ tty.thre \in BOOLEAN
      /\ Len(tty.readQ) <= Room /\ Len(tty.second) <= Room
  BY CookingFacts DEF TtyInv, LinesOK
<1>2. /\ ttyR.pc \in {"user", "test", "get", "asleep", "woken"}
      /\ ttyW.pc \in {"user", "full", "fill", "put", "asleep", "woken"}
  BY DEF TtyInv, ReaderOK, WriterOK
<1>3. /\ ttyCpu \in {"none", "reader", "writer"}
      /\ ttySig.reader \subseteq {"int", "alrm"} /\ ttySig.writer \subseteq {"int", "alrm"}
  BY DEF TtyInv, TtyPcs, SignalsOK
<1> QED
  BY <1>1, <1>2, <1>3 DEF TtyTypeOK

-----------------------------------------------------------------------------
(* The console and a terminal *)

\* The types of the console.
LEMMA InvConTypes == IInv => ConTypeOK
<1> SUFFICES ASSUME IInv PROVE ConTypeOK
  OBVIOUS
<1>1. Facts(con) /\ GoodPars
  BY FactsHold DEF IInv
<1>2. PICK x, y : x = con.x /\ y = con.y
  OBVIOUS
<1>3. x \in Nat /\ y \in Nat /\ x <= ConCols /\ y < ConLines
  BY <1>1, <1>2 DEF Facts
<1>4. x \in 0 .. ConWord - 1 /\ y \in 0 .. ConWord - 1
  BY <1>3, ConAssumption
<1>5. con.origin \in Nat /\ con.scr_end \in Nat /\ con.pos \in Nat
  BY <1>1 DEF Facts
<1> QED
  BY <1>1, <1>2, <1>4, <1>5 DEF GoodPars, ConTypeOK

\* The two invariants hold at the start.
LEMMA InitTerminals == Init => IInv /\ TtyInv
  BY InitInv, InitTty DEF Init

\* A step of one leaves the other alone.
LEMMA StepTerminals == IInv /\ TtyInv /\ [Next]_terminalsVars => IInv' /\ TtyInv'
<1> SUFFICES ASSUME IInv, TtyInv, [Next]_terminalsVars PROVE IInv' /\ TtyInv'
  OBVIOUS
<1>1. [ConNext]_conVars
  BY DEF Next, terminalsVars, conVars
<1>2. TtyLine(TtyChars) \/ TtyReader \/ TtyWriter \/ UNCHANGED ttyVars
  <2>1. ASSUME NEW keys, keys \subseteq TtyKeys, TtyLine(keys) PROVE TtyLine(TtyChars)
    <3>1. keys \subseteq TtyChars
      BY <2>1, TtyAssumption
    <3> QED
      BY <2>1, <3>1 DEF TtyLine
  <2>2. TtyKeys \ {"intr"} \subseteq TtyKeys /\ FewKeys \subseteq TtyKeys
    BY DEF FewKeys
  <2> QED
    BY <2>1, <2>2 DEF Next, terminalsVars, ttyVars
<1> QED
  BY <1>1, <1>2, StepInv, TtyStepKeeps

\* Fairness is not needed.
LEMMA TerminalsInv == Spec => [](IInv /\ TtyInv)
<1>1. Spec => Init /\ [][Next]_terminalsVars
  BY PTL DEF Spec
<1> QED
  BY <1>1, InitTerminals, StepTerminals, PTL

\* What the types of the console and the terminal allow is all that happens: the
\* queues never hold more than TTY_BUF_SIZE - 1 characters, the cursor's column and
\* line never wrap around, and there are never more parameters than par[] has room
\* for, although the echo and the writer fill a queue without asking for room.
THEOREM TerminalsTypesHold == Spec => []TerminalsTypeOK
<1>1. IInv /\ TtyInv => TerminalsTypeOK
  BY InvConTypes, InvTtyTypes DEF TerminalsTypeOK
<1> QED
  BY <1>1, TerminalsInv, PTL

\* Input comes to read() in order, nothing twice and nothing invented; a line end is
\* never taken back; and secondary.data counts the line ends that are queued: for
\* every size of the queues and every input to copy_to_cooked(), whatever tty_read()
\* and tty_ioctl() do in between, until a character is taken from an empty queue.
THEOREM TtyLinesAreExact == Spec => []TtyLinesExact
<1>1. IInv /\ TtyInv => TtyLinesExact
  BY InvLines
<1> QED
  BY <1>1, TerminalsInv, PTL
=============================================================================
