----------------------------- MODULE TextInput -----------------------------
(***************************************************************************)
(* The text buffer of the SQL editor and of the semantic query            *)
(* (ui/state/text_input): lines of UTF-8, a cursor and a selection anchor, *)
(* both (row, byte column).                                                *)
(*                                                                         *)
(* A line is a sequence of bytes; a character is its first byte, followed  *)
(* for a wide one by the byte More.  Rust cuts a string only between       *)
(* characters and panics elsewhere: "ok" turns false in every operation    *)
(* that cuts at such a place, and the session is over.                     *)
(***************************************************************************)
EXTENDS Naturals, Sequences, FiniteSets, SequencesExt, FiniteSetsExt

CONSTANTS Letters,      \* the characters of identifiers
          Wide,         \* those that take two bytes
          Marks,        \* the characters of none, spaces apart
          IndentWidth   \* spaces of an indent

ASSUME TextInputAssumption ==
    /\ Wide \subseteq Letters /\ Letters \cap Marks = {}
    /\ (Letters \cup Marks) \cap {" ", "+", "nl"} = {}
    /\ IndentWidth \in Nat \ {0}

Space   == " "
More    == "+"       \* the second byte of a wide character
NewLine == "nl"
Chars   == Letters \cup Marks \cup {Space}

NoAnchor == [set |-> FALSE, row |-> 0, col |-> 0]
At(pos)  == [set |-> TRUE, row |-> pos.row, col |-> pos.col]
Pos(r, c) == [row |-> r, col |-> c]

MinOf(a, b) == IF a < b THEN a ELSE b
Minus(a, b) == IF a < b THEN 0 ELSE a - b

Bytes(ch) == IF ch \in Wide THEN <<ch, More>> ELSE <<ch>>

(***************************************************************************)
(* The buffer.  Rows and columns count from 0.                             *)
(***************************************************************************)
Buffer(lines, r, c) ==
    [lines |-> lines, row |-> r, col |-> c, anchor |-> NoAnchor, ok |-> TRUE]

Line(t, r) == t.lines[r + 1]
LastRow(t) == Len(t.lines) - 1

Boundary(line, i) ==
    i <= Len(line) /\ (i \in 1 .. Len(line) - 1 => line[i + 1] # More)

Before(line, i) == SubSeq(line, 1, i)
After(line, i)  == SubSeq(line, i + 1, Len(line))
CharCount(line) == Cardinality({i \in DOMAIN line : line[i] # More})

\* The bytes of a sequence of characters.
InBytes(chars) == FlattenSeq([i \in DOMAIN chars |-> Bytes(chars[i])])

\* TextInputState::text, in bytes: a newline before every line but the first.
Text(lines) ==
    FlattenSeq([i \in DOMAIN lines |-> IF i = 1 THEN lines[i] ELSE <<NewLine>> \o lines[i]])

\* The bytes of a text, cut at its newlines: what the first n of them make.
Cut(bytes) ==
    LET cut[n \in 0 .. Len(bytes)] ==
          IF n = 0 THEN <<<<>>>>
          ELSE LET ls == cut[n - 1]
               IN  IF bytes[n] = NewLine THEN Append(ls, <<>>)
                   ELSE [ls EXCEPT ![Len(ls)] = Append(@, bytes[n])]
    IN  cut[Len(bytes)]

LinesOf(chars) == Cut(InBytes(chars))

\* str::lines gives no line for what follows a final newline.
Lines(bytes) ==
    LET ls == Cut(bytes)
    IN  IF Len(ls) > 1 /\ ls[Len(ls)] = <<>> THEN Front(ls) ELSE ls

\* cursor_position, clamp_position
Clamp(t, pos) ==
    LET r == MinOf(pos.row, LastRow(t)) IN Pos(r, MinOf(pos.col, Len(Line(t, r))))
CursorPosition(t) == Clamp(t, Pos(t.row, t.col))

SetCursor(t, pos) ==
    LET p == Clamp(t, pos) IN [t EXCEPT !.row = p.row, !.col = p.col]

MoveToEnd(t) ==
    [t EXCEPT !.row = LastRow(t), !.col = Len(Line(t, LastRow(t)))]

\* set_text
SetText(text) == MoveToEnd(Buffer(Lines(text), 0, 0))

(***************************************************************************)
(* The selection.                                                          *)
(***************************************************************************)
ClearSelection(t) == [t EXCEPT !.anchor = NoAnchor]

PrepareSelection(t, extend) ==
    CASE ~extend                 -> ClearSelection(t)
      [] extend /\ ~t.anchor.set -> [t EXCEPT !.anchor = At(CursorPosition(t))]
      [] OTHER                   -> t

HasSelection(t) == t.anchor.set /\ Pos(t.anchor.row, t.anchor.col) # CursorPosition(t)

Precedes(a, b) == a.row < b.row \/ (a.row = b.row /\ a.col <= b.col)

\* selection_range: the anchor and the head, in order.
SelectionRange(t) ==
    LET a == Pos(t.anchor.row, t.anchor.col)
        h == CursorPosition(t)
    IN  IF Precedes(a, h) THEN [start |-> a, end |-> h] ELSE [start |-> h, end |-> a]

InText(t, r) == r <= LastRow(t)
ColOf(t, pos) == MinOf(pos.col, Len(Line(t, pos.row)))

\* Mutant: the last line of the selection stays.
KeepsLastLine(t, range) ==
    LET s == range.start
        e == range.end
        tail == IF InText(t, e.row) THEN After(Line(t, e.row), ColOf(t, e)) ELSE <<>>
        joined == Before(Line(t, s.row), ColOf(t, s)) \o tail
    IN  [t EXCEPT !.lines = SubSeq(@, 1, s.row) \o <<joined>>
                            \o SubSeq(@, IF s.row = e.row THEN s.row + 2 ELSE e.row + 1, Len(@))]

\* remove_range: the place of an end outside the text is that of no line.
RemoveRange(t, range) ==
    LET s == range.start
        e == range.end
        from == ColOf(t, s)
        inText == InText(t, e.row)
        to == IF inText THEN ColOf(t, e) ELSE 0
        tail == IF inText THEN After(Line(t, e.row), to) ELSE <<>>
        cuts == /\ Boundary(Line(t, s.row), from)
                /\ inText => Boundary(Line(t, e.row), to)
        joined == Before(Line(t, s.row), from) \o tail
        kept == IF inText THEN SubSeq(t.lines, e.row + 2, Len(t.lines))
                ELSE SubSeq(t.lines, s.row + 2, Len(t.lines))
    IN  IF s.row = e.row /\ from >= to THEN t
        ELSE [t EXCEPT !.lines = SubSeq(t.lines, 1, s.row) \o <<joined>> \o kept,
                       !.ok = @ /\ cuts]

\* collapse_selection
CutOut(t, range) == ClearSelection(SetCursor(RemoveRange(t, range), range.start))
Collapse(t) == IF HasSelection(t) THEN CutOut(t, SelectionRange(t)) ELSE t

\* selected_text, its length, and the slices that it takes.
SelectedText(t) ==
    LET r == SelectionRange(t)
        piece(i) == LET line == Line(t, i)
                        from == IF i = r.start.row THEN ColOf(t, r.start) ELSE 0
                        to   == IF i = r.end.row THEN ColOf(t, r.end) ELSE Len(line)
                    IN  SubSeq(line, from + 1, to)
        rows == MinOf(r.end.row, LastRow(t)) - r.start.row + 1
    IN  Text([i \in 1 .. rows |-> piece(r.start.row + i - 1)])

SelectedChars(t) == IF HasSelection(t) THEN CharCount(SelectedText(t)) ELSE 0

SelectionCuts(t) ==
    HasSelection(t) =>
        \A p \in {SelectionRange(t).start, SelectionRange(t).end} :
            InText(t, p.row) => Boundary(Line(t, p.row), ColOf(t, p))

(***************************************************************************)
(* Moving the cursor.                                                      *)
(***************************************************************************)
PrevBoundary(line, i) ==
    Max({j \in 0 .. i - 1 : j = 0 \/ Boundary(line, j)})
NextBoundary(line, i) == Min({j \in i + 1 .. Len(line) : Boundary(line, j)})

\* move_up, move_down: the column is clamped to the bytes of the line.
MoveToRow(t, r) ==
    [t EXCEPT !.row = r, !.col = MinOf(@, Len(t.lines[r + 1]))]
MoveUp(t)   == IF t.row > 0 THEN MoveToRow(t, t.row - 1) ELSE t
MoveDown(t) == IF t.row < LastRow(t) THEN MoveToRow(t, t.row + 1) ELSE t

MoveLeft(t) ==
    IF t.col > 0
    THEN [t EXCEPT !.col = PrevBoundary(Line(t, t.row), @),
                   !.ok = @ /\ Boundary(Line(t, t.row), t.col)]
    ELSE IF t.row > 0
    THEN [t EXCEPT !.row = @ - 1, !.col = Len(Line(t, t.row - 1))]
    ELSE t

MoveRight(t) ==
    IF t.col < Len(Line(t, t.row))
    THEN [t EXCEPT !.col = NextBoundary(Line(t, t.row), @),
                   !.ok = @ /\ Boundary(Line(t, t.row), t.col)]
    ELSE IF t.row < LastRow(t)
    THEN [t EXCEPT !.row = @ + 1, !.col = 0]
    ELSE t

(***************************************************************************)
(* Editing.                                                                *)
(***************************************************************************)
\* The lines, with those from row r to row s replaced.
Splice(t, r, s, lines) ==
    SubSeq(t.lines, 1, r) \o lines \o SubSeq(t.lines, s + 2, Len(t.lines))

\* insert_char and insert_text put text, one line or several, at the cursor;
\* newline is the insertion of a newline.
InsertParts(t, parts) ==
    LET line  == Line(t, t.row)
        at    == MinOf(t.col, Len(line))
        n     == Len(parts)
        last  == IF n = 1 THEN Before(line, at) \o parts[1] ELSE parts[n]
        first == IF n = 1 THEN <<>> ELSE <<Before(line, at) \o parts[1]>>
        new   == first \o SubSeq(parts, 2, n - 1) \o <<last \o After(line, at)>>
    IN  [t EXCEPT !.lines = Splice(t, t.row, t.row, new),
                  !.row = @ + n - 1, !.col = Len(last),
                  !.ok = @ /\ Boundary(line, at)]

InsertText(t, text) ==
    IF text = <<>> THEN t ELSE InsertParts(Collapse(t), LinesOf(text))

Newline(t) == InsertText(t, <<NewLine>>)

\* backspace: the selection, or the character before the cursor, or the end of
\* the line above.
Backspace(t) ==
    LET line == Line(t, t.row)
        prev == PrevBoundary(line, t.col)
    IN  CASE HasSelection(t) -> Collapse(t)
          [] ~HasSelection(t) /\ t.col > 0 ->
               [t EXCEPT !.lines[t.row + 1] = Before(line, prev) \o After(line, t.col),
                         !.col = prev, !.ok = @ /\ Boundary(line, t.col)]
          [] ~HasSelection(t) /\ t.col = 0 /\ t.row > 0 ->
               [t EXCEPT !.lines = Splice(t, t.row - 1, t.row, <<Line(t, t.row - 1) \o line>>),
                         !.row = @ - 1, !.col = Len(Line(t, t.row - 1))]
          [] OTHER -> t

\* insert_tab and outdent: every line of the selection, or the cursor's.
Indent == [i \in 1 .. IndentWidth |-> Space]

SelectedRows(t) == SelectionRange(t).start.row .. MinOf(SelectionRange(t).end.row, LastRow(t))

Spaces(line) ==
    LET others == {i \in DOMAIN line : line[i] # Space}
    IN  MinOf(IndentWidth, IF others = {} THEN Len(line) ELSE Min(others) - 1)

\* The anchor and the cursor follow their lines (adjust_selection_positions).
IndentSelection(t) ==
    LET rows == SelectedRows(t)
        shifted(pos) == IF pos.row \in rows THEN [pos EXCEPT !.col = @ + IndentWidth] ELSE pos
        lines == [i \in DOMAIN t.lines |->
                    IF i - 1 \in rows THEN Indent \o t.lines[i] ELSE t.lines[i]]
    IN  SetCursor([t EXCEPT !.lines = lines, !.anchor = shifted(t.anchor)], shifted(Pos(t.row, t.col)))

InsertTab(t) == IF HasSelection(t) THEN IndentSelection(t) ELSE InsertText(t, Indent)

Outdent(t) ==
    LET rows == IF HasSelection(t) THEN SelectedRows(t) ELSE {t.row}
        gone(r) == IF r \in rows THEN Spaces(Line(t, r)) ELSE 0
        shifted(pos) == IF pos.row \in rows
                        THEN [pos EXCEPT !.col = Minus(@, gone(pos.row))] ELSE pos
        lines == [i \in DOMAIN t.lines |-> After(t.lines[i], gone(i - 1))]
        cut == [t EXCEPT !.lines = lines]
    IN  IF HasSelection(t) /\ \E r \in rows : gone(r) > 0
        THEN SetCursor([cut EXCEPT !.anchor = shifted(t.anchor)], shifted(Pos(t.row, t.col)))
        ELSE [cut EXCEPT !.col = Minus(@, gone(t.row))]

\* ensure_line_count
EnsureLines(t, n) ==
    [t EXCEPT !.lines = @ \o [i \in 1 .. Minus(n, Len(@)) |-> <<>>]]
=============================================================================
