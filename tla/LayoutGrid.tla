------------------------------ MODULE LayoutGrid ------------------------------
(***************************************************************************)
(* The cells of one layout and the requests of the visual layout editor    *)
(* (service-admin-http/routes-admin.ts) that place, grow, push and delete  *)
(* them.  Every statement is a database round trip of its own and only the *)
(* quick layouts run in a transaction, so a request is split where it      *)
(* awaits: what it read may be stale by the time it writes.                *)
(***************************************************************************)
EXTENDS Integers, Sequences, FiniteSets, TLC, SequencesExt, FiniteSetsExt

CONSTANTS Editors,      \* the requests that may be in progress at once
          CellIds,      \* ids the database may give to cells: naturals, in insertion order
          MaxSpan,      \* bound on the spans a request may ask for
          MaxPlace,     \* bound on the row and column a request may ask for
          StartCells,   \* bound on the cells of the layout a behaviour starts from
          MaxEdits      \* bound on the requests of a behaviour

ASSUME GridAssumption ==
  /\ CellIds \subseteq Nat /\ IsFiniteSet(CellIds)
  /\ MaxSpan \in Nat \ {0} /\ MaxPlace \in Nat /\ MaxEdits \in Nat /\ StartCells \in Nat

VARIABLES
  cells,    \* the rows of layout_cells: id -> [row, col, rs, cs]
  nextCell, \* the next id (uuidv7: ids are never reused)
  edit,     \* what each request is doing
  edits     \* how many requests have begun

gridVars == <<cells, nextCell, edit, edits>>

Axes == {"row", "col"}
Directions == {"left", "right", "above", "bottom"}
Rect(r, c, h, w) == [row |-> r, col |-> c, rs |-> h, cs |-> w]

Idle == [op |-> "idle"]
Larger(a, b) == IF a > b THEN a ELSE b
-----------------------------------------------------------------------------
(* Geometry *)

rangesOverlap(aStart, aEnd, bStart, bEnd) == aStart < bEnd /\ bStart < aEnd

cellsOverlap(a, b) ==
  /\ rangesOverlap(a.col, a.col + a.cs, b.col, b.col + b.cs)
  /\ rangesOverlap(a.row, a.row + a.rs, b.row, b.row + b.rs)

\* No two of the cells cover the same square.
NoOverlap(pos) == \A i, j \in DOMAIN pos : i # j => ~cellsOverlap(pos[i], pos[j])

\* Where b lands when a pushes it along the axis.
PushedBy(a, b, axis) ==
  IF axis = "col" THEN [b EXCEPT !.col = a.col + a.cs]
                  ELSE [b EXCEPT !.row = a.row + a.rs]

\* ORDER BY "row", col, and the in-memory sort along the axis; ids break ties.
Before(pos, axis, i, j) ==
  LET key(k) == IF axis = "col" THEN <<pos[k].col, pos[k].row, k>>
                                ELSE <<pos[k].row, pos[k].col, k>>
      a == key(i)
      b == key(j)
  IN  \/ a[1] < b[1]
      \/ a[1] = b[1] /\ a[2] < b[2]
      \/ a[1] = b[1] /\ a[2] = b[2] /\ a[3] < b[3]

IdsUpTo(n) == [k \in 1..n |-> k]
RowsOf(pos) == SelectSeq(IdsUpTo(nextCell - 1), LAMBDA k : k \in DOMAIN pos)
SortedAlong(pos, axis) == SortSeq(RowsOf(pos), LAMBDA i, j : Before(pos, axis, i, j))

\* Mutant: pushed cells are not checked against each other.
CascadeSkipped(pos, axis) == [pos |-> pos, cascaded |-> FALSE]

\* "Cascade: pushed cells may now overlap each other": in the order of the axis,
\* every cell pushes those after it.
Cascade(pos, axis) ==
  LET order == SortedAlong(pos, axis)
      push(i, acc, j) ==
        IF cellsOverlap(acc.pos[i], acc.pos[j])
        THEN [pos |-> [acc.pos EXCEPT ![j] = PushedBy(acc.pos[i], acc.pos[j], axis)],
              cascaded |-> TRUE]
        ELSE acc
      pushAll(acc, k) ==
        FoldLeft(LAMBDA x, j : push(order[k], x, j), acc, SubSeq(order, k + 1, Len(order)))
  IN  FoldLeft(pushAll, [pos |-> pos, cascaded |-> FALSE], IdsUpTo(Len(order)))

\* Everything the anchor covers is put right behind it.
ClearAnchor(pos, anchor, axis) ==
  [k \in DOMAIN pos |->
     IF k # anchor /\ cellsOverlap(pos[anchor], pos[k])
     THEN PushedBy(pos[anchor], pos[k], axis) ELSE pos[k]]

\* resolveOverlaps' in-memory part: rounds of pushing, at most |cells|^2 of them.
resolveOverlaps(pos, anchor, axis) ==
  LET n == Cardinality(DOMAIN pos)
      iterate(acc, k) ==
        IF acc.done THEN acc
        ELSE LET cleared == ClearAnchor(acc.pos, anchor, axis)
                 next == Cascade(cleared, axis)
             IN  IF cleared = acc.pos THEN [acc EXCEPT !.done = TRUE]
                 ELSE [pos |-> next.pos, done |-> ~next.cascaded]
  IN  IF anchor \notin DOMAIN pos THEN pos
      ELSE FoldLeft(iterate, [pos |-> pos, done |-> FALSE], [k \in 1..(n * n) |-> k]).pos
-----------------------------------------------------------------------------
(* Templates *)

gridQuickLayout(size) ==
  [k \in 1..(size * size) |-> Rect((k - 1) \div size, (k - 1) % size, 1, 1)]

Presets == {"single", "grid-2", "grid-4", "grid-8", "left-focus", "focus-right-bottom"}

quickLayoutCells(preset) ==
  CASE preset = "single" -> <<Rect(0, 0, 1, 1)>>
    [] preset = "grid-2" -> gridQuickLayout(2)
    [] preset = "grid-4" -> gridQuickLayout(4)
    [] preset = "grid-8" -> gridQuickLayout(8)
    [] preset = "left-focus" ->
         <<Rect(0, 0, 4, 3)>> \o [r \in 1..4 |-> Rect(r - 1, 3, 1, 1)]
    [] preset = "focus-right-bottom" ->
         <<Rect(0, 0, 3, 3)>> \o [r \in 1..3 |-> Rect(r - 1, 3, 1, 1)]
                              \o [c \in 1..4 |-> Rect(3, c - 1, 1, 1)]

\* The enabled cameras of a device, row by row on a square grid.
deviceGridPositions(count) ==
  LET cols == Min({c \in 0..count : c * c >= count}) IN
  [i \in 1..count |-> Rect((i - 1) \div cols, (i - 1) % cols, 1, 1)]

\* A camera without an entity leaves its square empty.
DeviceCells(count, missing) ==
  LET at == deviceGridPositions(count) IN
  [k \in 1..Cardinality((1..count) \ missing) |->
     at[SelectSeq(IdsUpTo(count), LAMBDA i : i \notin missing)[k]]]
-----------------------------------------------------------------------------
(* Statements of repository.ts *)

\* UPDATE ... WHERE id = ?: nothing happens when the row is gone.
updateLayoutCell(id, c) ==
  cells' = IF id \in DOMAIN cells THEN [cells EXCEPT ![id] = c] ELSE cells

createLayoutCell(c) ==
  /\ nextCell \in CellIds
  /\ cells' = cells @@ (nextCell :> c)
  /\ nextCell' = nextCell + 1

deleteLayoutCell(id) == cells' = [k \in DOMAIN cells \ {id} |-> cells[k]]
-----------------------------------------------------------------------------
(* Requests.  `alone` is a history flag: the layout was free of overlaps    *)
(* when the request began and nobody else has changed it since.             *)

Begin(e) == edit[e] = Idle /\ edits < MaxEdits /\ edits' = edits + 1
Running(e, op) == edit[e].op = op /\ edits' = edits

\* Request e goes on as r; the others learn that the cells changed under them.
Becomes(e, r) ==
  edit' = [x \in Editors |->
             IF x = e THEN r
             ELSE IF edit[x] = Idle \/ cells' = cells THEN edit[x]
             ELSE [edit[x] EXCEPT !.alone = FALSE]]

\* The handler has read the cell and computed the columns to change.
GrowRead(e, id, patch, axis) ==
  /\ Begin(e) /\ id \in DOMAIN cells
  /\ edit' = [edit EXCEPT ![e] = [op |-> "grow", anchor |-> id, patch |-> patch, axis |-> axis,
                                  alone |-> NoOverlap(cells)]]
  /\ UNCHANGED <<cells, nextCell>>

\* The cell is updated; the request goes on to resolveOverlaps.
GrowWrite(e) ==
  LET r == edit[e]
      c == IF r.anchor \in DOMAIN cells THEN r.patch @@ cells[r.anchor] ELSE Rect(0, 0, 1, 1)
  IN
  /\ Running(e, "grow")
  /\ updateLayoutCell(r.anchor, c)
  /\ Becomes(e, [op |-> "resolve", anchor |-> r.anchor, at |-> <<c.row, c.col>>,
                 axis |-> r.axis, alone |-> r.alone])
  /\ UNCHANGED nextCell

\* shiftCellsForExpansion: POST .../resize with a direction.
Expand(e, id, dir) ==
  LET c == cells[id]
      wider == [cs |-> c.cs + 1]
      taller == [rs |-> c.rs + 1]
  IN
  /\ IF dir \in {"left", "right"} THEN c.cs < MaxSpan ELSE c.rs < MaxSpan
  /\ \/ dir = "right"  /\ GrowRead(e, id, wider, "col")
     \/ dir = "bottom" /\ GrowRead(e, id, taller, "row")
     \/ dir = "left"   /\ GrowRead(e, id, [col |-> Larger(0, c.col - 1)] @@ wider, "col")
     \/ dir = "above"  /\ GrowRead(e, id, [row |-> Larger(0, c.row - 1)] @@ taller, "row")

SpanOf(id, dim) == IF dim = "row" THEN cells[id].rs ELSE cells[id].cs
NewSpan(dim, n) == IF dim = "row" THEN [rs |-> n] ELSE [cs |-> n]

\* POST .../resize with dim and delta.
Resize(e, id, dim, delta) ==
  LET next == Larger(1, SpanOf(id, dim) + delta) IN
  /\ next <= MaxSpan /\ next # SpanOf(id, dim)
  /\ GrowRead(e, id, NewSpan(dim, next), dim)

\* POST .../cells/:cellId with new spans: the column axis wins when both are given.
UpdateSpans(e, id, h, w) == GrowRead(e, id, [rs |-> h, cs |-> w], "col")

\* resolveOverlaps reads the cells and computes; its writes follow one by one.
ResolveRead(e) ==
  LET r == edit[e]
      after == resolveOverlaps(cells, r.anchor, r.axis)
  IN
  /\ Running(e, "resolve")
  /\ edit' = [edit EXCEPT ![e] =
       [op |-> "push", anchor |-> r.anchor, at |-> r.at, alone |-> r.alone,
        todo |-> {<<k, after[k].row, after[k].col>> :
                    k \in {x \in DOMAIN cells : after[x] # cells[x]}}]]
  /\ UNCHANGED <<cells, nextCell>>

\* One updateLayoutCell({row, col}) of resolveOverlaps or shiftCellsForInsertion.
WriteOne(e) ==
  /\ \E op \in {"push", "shift"} : Running(e, op)
  /\ \E w \in edit[e].todo :
       /\ updateLayoutCell(w[1], IF w[1] \in DOMAIN cells
                                 THEN [cells[w[1]] EXCEPT !.row = w[2], !.col = w[3]] ELSE Idle)
       /\ Becomes(e, [edit[e] EXCEPT !.todo = @ \ {w}])
  /\ UNCHANGED nextCell

ResolveDone(e) ==
  /\ Running(e, "push") /\ edit[e].todo = {}
  /\ edit' = [edit EXCEPT ![e] = Idle]
  /\ UNCHANGED <<cells, nextCell>>

\* POST .../cells next to a cell: find the place, then shift what is in the way.
InsertNextTo(e, ref, dir) ==
  LET c == cells[ref]
      at == CASE dir = "right"  -> <<c.row, c.col + c.cs>>
              [] dir = "bottom" -> <<c.row + c.rs, c.col>>
              [] dir = "left"   -> <<c.row, Larger(0, c.col - 1)>>
              [] dir = "above"  -> <<Larger(0, c.row - 1), c.col>>
  IN
  /\ Begin(e) /\ ref \in DOMAIN cells
  /\ edit' = [edit EXCEPT ![e] = [op |-> "insert", at |-> at, alone |-> NoOverlap(cells),
                                  axis |-> IF dir \in {"left", "right"} THEN "col" ELSE "row"]]
  /\ UNCHANGED <<cells, nextCell>>

shiftCellsForInsertion(e) ==
  LET r == edit[e]
      row == r.at[1]
      col == r.at[2]
      inWay(c) == IF r.axis = "col"
                  THEN c.col >= col /\ rangesOverlap(c.row, c.row + c.rs, row, row + 1)
                  ELSE c.row >= row /\ rangesOverlap(c.col, c.col + c.cs, col, col + 1)
      moved(c) == IF r.axis = "col" THEN <<c.row, c.col + 1>> ELSE <<c.row + 1, c.col>>
  IN
  /\ Running(e, "insert")
  /\ edit' = [edit EXCEPT ![e] =
       [op |-> "shift", at |-> r.at, alone |-> r.alone,
        todo |-> {<<k>> \o moved(cells[k]) : k \in {x \in DOMAIN cells : inWay(cells[x])}}]]
  /\ UNCHANGED <<cells, nextCell>>

InsertDone(e) ==
  /\ Running(e, "shift") /\ edit[e].todo = {}
  /\ createLayoutCell(Rect(edit[e].at[1], edit[e].at[2], 1, 1))
  /\ Becomes(e, Idle)

\* POST .../cells with an explicit position: nothing is shifted.
CreateAt(e, row, col) ==
  /\ Begin(e)
  /\ createLayoutCell(Rect(row, col, 1, 1))
  /\ Becomes(e, Idle)

Move(e, id, row, col) ==
  /\ Begin(e) /\ id \in DOMAIN cells
  /\ updateLayoutCell(id, [cells[id] EXCEPT !.row = row, !.col = col])
  /\ Becomes(e, Idle)
  /\ UNCHANGED nextCell

DeleteCell(e, id) ==
  /\ Begin(e) /\ id \in DOMAIN cells
  /\ deleteLayoutCell(id)
  /\ Becomes(e, Idle)
  /\ UNCHANGED nextCell

\* Quick and device layouts replace all cells in one transaction; the cells to
\* delete are read first, so a cell another request adds meanwhile survives.
ReplaceRead(e, template) ==
  /\ Begin(e) /\ nextCell + Len(template) - 1 <= Max(CellIds)
  /\ edit' = [edit EXCEPT ![e] = [op |-> "replace", old |-> DOMAIN cells, template |-> template,
                                  alone |-> TRUE]]
  /\ UNCHANGED <<cells, nextCell>>

ReplaceCommit(e) ==
  LET template == edit[e].template IN
  /\ Running(e, "replace")
  /\ nextCell + Len(template) - 1 <= Max(CellIds)
  /\ cells' = [k \in (DOMAIN cells \ edit[e].old) \cup nextCell..(nextCell + Len(template) - 1) |->
                 IF k < nextCell THEN cells[k] ELSE template[k - nextCell + 1]]
  /\ nextCell' = nextCell + Len(template)
  /\ Becomes(e, Idle)
-----------------------------------------------------------------------------
Places == 0..MaxPlace
Spans == 1..MaxSpan

\* A layout as earlier requests may have left it.
GridInit ==
  /\ \E n \in 0..StartCells : cells \in [1..n -> [row : Places, col : Places, rs : 1..2, cs : 1..2]]
  /\ NoOverlap(cells)
  /\ \A i, j \in DOMAIN cells : i < j => Before(cells, "row", i, j)
  /\ nextCell = Cardinality(DOMAIN cells) + 1
  /\ edit = [e \in Editors |-> Idle]
  /\ edits = 0

GridNext ==
  \E e \in Editors :
    \/ \E id \in DOMAIN cells :
         \/ \E dir \in Directions : Expand(e, id, dir) \/ InsertNextTo(e, id, dir)
         \/ \E dim \in Axes, delta \in {-1, 1} : Resize(e, id, dim, delta)
         \/ \E h, w \in Spans : UpdateSpans(e, id, h, w)
         \/ \E row, col \in Places : Move(e, id, row, col)
         \/ DeleteCell(e, id)
    \/ \E row, col \in Places : CreateAt(e, row, col)
    \/ \E preset \in Presets : ReplaceRead(e, quickLayoutCells(preset))
    \/ \E count \in 0..3, missing \in SUBSET {1, 2} : ReplaceRead(e, DeviceCells(count, missing))
    \/ GrowWrite(e) \/ ResolveRead(e) \/ WriteOne(e) \/ ResolveDone(e)
    \/ shiftCellsForInsertion(e) \/ InsertDone(e)
    \/ ReplaceCommit(e)

GridSpec == GridInit /\ [][GridNext]_gridVars
-----------------------------------------------------------------------------
(* Properties *)

\* Type correctness: cells lie in the quarter plane and keep a positive size,
\* whatever spans, pushes and shifts the requests of the editor add up to.
GridTypeOK ==
  /\ \A k \in DOMAIN cells : cells[k].row >= 0 /\ cells[k].col >= 0 /\ cells[k].rs >= 1 /\ cells[k].cs >= 1
  /\ DOMAIN cells \subseteq 1..(nextCell - 1)
  /\ edits \in 0..MaxEdits

\* Growing a cell (resize, expand, new spans) in a layout without overlaps, undisturbed
\* by other requests, ends in a layout without overlaps: resolveOverlaps pushes far enough.
ResizeLeavesNoOverlap ==
  [][\A e \in Editors :
       edit[e].op = "push" /\ edit'[e] = Idle /\ edit[e].alone => NoOverlap(cells')]_gridVars

\* The cell the user grows stays where the user put it: pushing moves the others.
ResizedCellStays ==
  [][\A e \in Editors :
       edit[e].op = "push" /\ edit'[e] = Idle /\ edit[e].alone =>
         <<cells[edit[e].anchor].row, cells[edit[e].anchor].col>> = edit[e].at]_gridVars

\* A quick or device layout that nobody disturbs leaves its template and nothing else,
\* without overlaps: the transaction deletes what it read and nothing is added meanwhile.
ReplaceLeavesTemplate ==
  [][\A e \in Editors :
       edit[e].op = "replace" /\ edit'[e] = Idle /\ edit[e].alone =>
         /\ Range(cells') = Range(edit[e].template)
         /\ NoOverlap(cells')]_gridVars

\* What the editing steps never do, as a whole: the claims above.
GridSteps == [][GridTypeOK']_gridVars /\ ResizeLeavesNoOverlap /\ ResizedCellStays /\ ReplaceLeavesTemplate
=============================================================================
