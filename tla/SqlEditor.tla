----------------------------- MODULE SqlEditor -----------------------------
(***************************************************************************)
(* The text panels of the session (ui/app/editor.rs, key_handling, mouse): *)
(* the SQL editor, with its completion popup and the preview that an edit  *)
(* of the grid shows in it, and the semantic query.  The two share a text  *)
(* buffer type and nothing else: a behaviour follows one of them.          *)
(*                                                                         *)
(* What the completion service offers, and what the engine answers, may be *)
(* anything.  A text that panics in its operation ends the session.        *)
(***************************************************************************)
EXTENDS TextInput

CONSTANTS Pastes,        \* texts of the clipboard, sequences of characters
          Batches,       \* what the completion service may offer
          Placeholder,   \* the text the editor starts with
          Preview,       \* the statement of a grid edit
          SelectTopSql,  \* the statement of a table preview
          Limit,         \* MAX_QUERY_LEN, in characters
          MaxBytes,      \* bound: bytes of a text
          MaxLines,      \* bound: lines of a text
          MaxHeld,       \* bound: bytes of a text that a preview hides, or that
                         \* is typed while the grid is at work
          DragStarts     \* bound: where a drag starts

Quote == "quote"   \* the mark around an identifier
Dot   == "."       \* the mark after a schema

\* A completion is the name of something, a keyword or a snippet: it is never
\* empty and has one line.
Kinds == {"Table", "Column", "Keyword", "Snippet"}

ASSUME SqlEditorAssumption ==
    /\ Quote \notin Letters
    /\ Pastes \cup {Placeholder, Preview, SelectTopSql} \subseteq Seq(Chars \cup {NewLine})
    /\ Batches \subseteq Seq([text : Seq(Chars) \ {<<>>}, kind : Kinds, score : Nat])
    /\ {Limit, MaxBytes, MaxLines, MaxHeld} \subseteq Nat

VARIABLES panel,     \* the text panel that the behaviour follows
          text,      \* its buffer
          popup,     \* the completion popup: items, and the selected one or 0
          focus,     \* the keys go to the panel or to another one
          overlay,   \* EditorOverlay: a preview is shown, and the text it hides
          grid,      \* an edit session is open, a delete is armed
          active,    \* the request that the session tracks
          own        \* the text that the user left in the editor

vars == <<panel, text, popup, focus, overlay, grid, active, own>>
gridVars == <<overlay, grid, active>>

NoPopup   == [items |-> <<>>, selected |-> 0]
NoOverlay == [shown |-> FALSE, original |-> <<>>]
Idle      == [editing |-> FALSE, armed |-> FALSE]
Over      == [Buffer(<<<<>>>>, 0, 0) EXCEPT !.ok = FALSE]

Init ==
    /\ panel \in {"editor", "semantic"}
    /\ text = SetText(IF panel = "editor" THEN InBytes(Placeholder) ELSE <<>>)
    /\ popup = NoPopup /\ focus = "text" /\ overlay = NoOverlay
    /\ grid = Idle /\ active = "none"
    /\ own = Text(text.lines)

(***************************************************************************)
(* A handler leaves a text.  The editor asks for completions where the     *)
(* cursor is, and the service cuts the text there (current_token).         *)
(***************************************************************************)
Bound == IF overlay.shown \/ grid # Idle \/ active # "none" THEN MaxHeld ELSE MaxBytes

Leaves(t) ==
    /\ t.ok => Len(Text(t.lines)) <= Bound /\ Len(t.lines) <= MaxLines
    /\ text' = IF t.ok THEN t ELSE Over
    /\ own' = IF overlay.shown \/ ~t.ok \/ t.lines = text.lines THEN own
              ELSE Text(t.lines)

AtCursor(t) ==
    [t EXCEPT !.ok = @ /\ Boundary(Line(t, t.row), t.col)]

\* refresh_editor_post_edit and refresh_editor_after_cursor_move
Refreshed(t) ==
    IF panel = "editor"
    THEN /\ Leaves(IF t.ok THEN AtCursor(t) ELSE t)
         /\ IF text'.ok
            THEN \E batch \in Batches : popup' = [items |-> batch, selected |-> 0]
            ELSE popup' = NoPopup
    ELSE Leaves(t) /\ UNCHANGED popup

TextKey == text.ok /\ focus = "text" /\ UNCHANGED <<panel, focus, overlay, grid, active>>
EditorKey == panel = "editor" /\ TextKey

(***************************************************************************)
(* Completions.                                                            *)
(***************************************************************************)
Visible == popup.items # <<>>
Current == popup.items[popup.selected]
IdentifierByte(b) == b \in Letters \cup {More}

\* identifier_components goes over a line from its start.  A quote opens a
\* component and the next one closes it, unless one more follows at once: then
\* the component goes on.  One that nothing closes goes on to the end.
Scan(line) ==
    LET scan[n \in 0 .. Len(line)] ==
          IF n = 0 THEN "none"
          ELSE IF line[n] = Quote
          THEN IF scan[n - 1] = "open" THEN "closed" ELSE "open"
          ELSE IF scan[n - 1] = "open" THEN "open"
          ELSE IF IdentifierByte(line[n]) THEN "word" ELSE "none"
    IN  scan

Parts(line) ==
    LET scan == Scan(line)
    IN  [n \in DOMAIN line |-> IF scan[n] \in {"open", "closed"} THEN "quoted" ELSE scan[n]]

\* The component that byte i of a line belongs to: these bytes, or none.
Component(line, i) ==
    LET part == Parts(line)
        same(j, k) == \A n \in j .. k : part[n] = part[i]
    IN  {j \in DOMAIN line : part[i] # "none" /\ IF j <= i THEN same(j, i) ELSE same(i, j)}

\* The cursor's line, with the bytes from start to end replaced.
ReplaceInLine(t, start, end, with) ==
    LET line == Line(t, t.row)
    IN  [t EXCEPT !.lines[t.row + 1] = Before(line, start) \o with \o After(line, end),
                  !.col = start + Len(with),
                  !.anchor = NoAnchor,
                  !.ok = @ /\ end <= Len(line) /\ Boundary(line, start) /\ Boundary(line, end)]

\* replace_current_token: the component that ends or continues at the cursor,
\* the one that holds the selection, or the selection.
ReplaceCurrentToken(t, with) ==
    LET range == SelectionRange(t)
        from == IF HasSelection(t) THEN range.start.col ELSE t.col
        to   == IF HasSelection(t) THEN range.end.col ELSE t.col
        line == Line(t, t.row)
        whole == IF to \in DOMAIN line THEN Component(line, to) ELSE {}
        inside == (IF HasSelection(t) THEN from + 1 ELSE to) \in whole
        start == IF inside THEN CHOOSE i \in whole : i - 1 \notin whole ELSE from + 1
        end   == IF inside THEN CHOOSE i \in whole : i + 1 \notin whole ELSE to
    IN  IF HasSelection(t) /\ range.start.row # range.end.row
        THEN InsertText(t, with)
        ELSE ReplaceInLine(t, start - 1, end, LinesOf(with)[1])

\* Mutant: the quotes are not counted, and one that opens is taken to close.
AfterAnyQuote(t) ==
    LET line == Line(t, t.row)
    IN  /\ ~HasSelection(t) /\ t.col \in DOMAIN line
        /\ line[t.col] = Quote
        /\ t.col + 1 \notin Component(line, t.col)

\* after_closed_quoted_identifier
AfterClosedQuote(t) ==
    LET line == Line(t, t.row)
    IN  /\ ~HasSelection(t) /\ t.col \in DOMAIN line
        /\ Scan(line)[t.col] = "closed"
        /\ t.col + 1 \notin Component(line, t.col)

\* insert_completion_text: a keyword leaves a quoted identifier as it is.
InsertCompletion(t, item) ==
    IF item.kind = "Keyword" /\ AfterClosedQuote(t)
    THEN InsertText(t, <<Space>> \o item.text)
    ELSE ReplaceCurrentToken(t, item.text)

\* It asks again after a table or a dot.
AcceptCompletion(item) ==
    LET t == InsertCompletion(text, item)
    IN  IF item.kind = "Table" \/ Last(item.text) = Dot
        THEN Refreshed(t)
        ELSE Leaves(t) /\ popup' = NoPopup

SelectCompletion ==
    /\ EditorKey /\ Visible
    /\ popup' \in {[popup EXCEPT !.selected = IF @ = 0 THEN 1 ELSE MinOf(@ + 1, Len(popup.items))],
                   [popup EXCEPT !.selected = IF @ = 0 THEN Len(popup.items)
                                              ELSE IF @ = 1 THEN 1 ELSE @ - 1]}
    /\ UNCHANGED <<text, own>>

CloseCompletions ==
    /\ EditorKey /\ Visible
    /\ popup' = NoPopup
    /\ UNCHANGED <<text, own>>

EnterAccepts == EditorKey /\ popup.selected > 0 /\ AcceptCompletion(Current)

(***************************************************************************)
(* Keys.                                                                   *)
(***************************************************************************)
\* The semantic query holds Limit characters, those of the selection apart.
Length(t) == CharCount(Text(t.lines))
Room(t) == Minus(Limit, Length(t)) + SelectedChars(t)

InsertLimited(t, with) ==
    LET u == InsertText(t, SubSeq(with, 1, MinOf(Room(t), Len(with))))
    IN  [u EXCEPT !.ok = @ /\ SelectionCuts(t)]

Insert(t, with) ==
    IF panel = "editor" THEN InsertText(t, with) ELSE InsertLimited(t, with)

\* A space commits the selected completion when it is an exact match
\* (maybe_commit_completion).
Committed(ch) ==
    IF panel = "editor" /\ ch = Space /\ popup.selected > 0 /\ Current.score = 0
    THEN InsertCompletion(text, Current)
    ELSE text

TypeChar(ch) == TextKey /\ Refreshed(Insert(Committed(ch), <<ch>>))

\* The clipboard is read as it is; insert_text takes CR LF for a newline.
Paste(with) == TextKey /\ with # <<>> /\ Refreshed(Insert(text, with))

\* Enter in the semantic query starts the search.
EnterBreaks == EditorKey /\ popup.selected = 0 /\ Refreshed(Newline(text))

BackspaceKey == TextKey /\ Refreshed(Backspace(text))

TabKey ==
    /\ TextKey
    /\ IF panel = "editor" \/ HasSelection(text) \/ Minus(Limit, Length(text)) >= IndentWidth
       THEN Refreshed(InsertTab(text))
       ELSE Refreshed(text)

BackTabKey == TextKey /\ Refreshed(Outdent(text))

\* The popup takes the plain arrows up and down.
MoveKey(extend) ==
    LET t == PrepareSelection(text, extend)
    IN  /\ TextKey
        /\ \/ (extend \/ ~Visible) /\ Refreshed(MoveUp(t))
           \/ (extend \/ ~Visible) /\ Refreshed(MoveDown(t))
           \/ Refreshed(MoveLeft(t))
           \/ Refreshed(MoveRight(t))

(***************************************************************************)
(* The mouse.  A click focuses the panel first, which puts the cursor of   *)
(* the editor at its end; then it hits a character, or a row of the gutter *)
(* or below the text, where the editor adds lines, or a completion.        *)
(***************************************************************************)
Places(t) == {Pos(r, c) : r \in 0 .. LastRow(t), c \in 0 .. MaxBytes}
Hits(t) == {p \in Places(t) : Boundary(Line(t, p.row), p.col)}

Focused == IF focus = "text" THEN text ELSE MoveToEnd(text)
Click == text.ok /\ focus' = "text" /\ UNCHANGED <<panel, overlay, grid, active>>

ClickText(p, extend) ==
    /\ Click /\ p \in Hits(text)
    /\ Refreshed(SetCursor(PrepareSelection(Focused, extend), p))

ClickRow(r, extend) ==
    LET t == PrepareSelection(EnsureLines(Focused, r + 1), extend)
    IN  /\ Click /\ panel = "editor"
        /\ Refreshed(SetCursor(t, Pos(r, CursorPosition(Focused).col)))

ClickCompletion(i) ==
    Click /\ panel = "editor" /\ focus = "text" /\ AcceptCompletion(popup.items[i])

\* A press and a drag with nothing between them.
Drag(from, to) ==
    /\ Click /\ {from, to} \subseteq Hits(text)
    /\ LET t == SetCursor(ClearSelection(Focused), from)
       IN  Refreshed(SetCursor([t EXCEPT !.anchor = At(from)], to))

\* focus_window, from the panel selector.
FocusOther ==
    /\ text.ok /\ panel = "editor" /\ focus = "text"
    /\ focus' = "other" /\ popup' = NoPopup
    /\ UNCHANGED <<panel, text, own, overlay, grid, active>>

FocusEditor ==
    /\ text.ok /\ focus = "other"
    /\ focus' = "text" /\ Leaves(MoveToEnd(text))
    /\ UNCHANGED <<panel, popup, overlay, grid, active>>

(***************************************************************************)
(* The preview.  A grid edit shows its statement in the editor; the text   *)
(* of the user comes back when the edit is over.  Both leave the popup.    *)
(***************************************************************************)
Panels == [text |-> text, overlay |-> overlay]

\* Mutant: a preview that follows another keeps the one before as the text.
HidesWhatIsShown(s) ==
    [text |-> SetText(InBytes(Preview)),
     overlay |-> [shown |-> TRUE, original |-> Text(s.text.lines)]]

ShowEditorOverlay(s) ==
    [text |-> SetText(InBytes(Preview)),
     overlay |-> IF s.overlay.shown THEN s.overlay
                 ELSE [shown |-> TRUE, original |-> Text(s.text.lines)]]

ClearEditorOverlay(s) ==
    IF s.overlay.shown
    THEN [text |-> SetText(s.overlay.original), overlay |-> NoOverlay]
    ELSE s

Sets(s) == text' = s.text /\ overlay' = s.overlay

Elsewhere ==
    /\ text.ok /\ panel = "editor" /\ focus = "other"
    /\ UNCHANGED <<panel, popup, focus>>

GridKey ==
    /\ Elsewhere
    /\ overlay.shown \/ Len(Text(text.lines)) <= MaxHeld
    /\ UNCHANGED own

\* Enter, Backspace, a character or Ctrl+N (finalize_results_edit_input).  A
\* key that is not Delete drops an armed delete first.
EditCell ==
    /\ GridKey
    /\ grid' = [editing |-> TRUE, armed |-> FALSE]
    /\ Sets(ShowEditorOverlay(IF grid.armed /\ ~grid.editing
                              THEN ClearEditorOverlay(Panels) ELSE Panels))
    /\ UNCHANGED active

\* Enter.  An unchanged cell, or an engine that is gone, ends the edit at once.
SubmitEdit ==
    /\ GridKey /\ grid.editing /\ active # "update"
    /\ grid' = [grid EXCEPT !.editing = FALSE]
    /\ \/ Sets(ClearEditorOverlay(Panels)) /\ UNCHANGED active
       \/ Sets(Panels) /\ active' = "update"

\* Esc, or with a delete armed any key but Delete.
CancelEdit ==
    /\ GridKey /\ grid # Idle
    /\ grid' = IF grid.editing THEN [grid EXCEPT !.editing = FALSE] ELSE Idle
    /\ Sets(ClearEditorOverlay(Panels))
    /\ UNCHANGED active

\* Delete, and Delete again (trigger_row_delete, submit_row_delete).
ArmDelete ==
    /\ GridKey /\ ~grid.armed
    /\ grid' = [grid EXCEPT !.armed = TRUE]
    /\ Sets(ShowEditorOverlay(Panels))
    /\ UNCHANGED active

ConfirmDelete ==
    /\ GridKey /\ grid.armed /\ active # "delete"
    /\ grid' = [grid EXCEPT !.armed = FALSE]
    /\ \/ Sets(ClearEditorOverlay(Panels)) /\ UNCHANGED active
       \/ Sets(Panels) /\ active' = "delete"

\* Another cell is focused (set_focus): the preview stays.
FocusCell ==
    /\ GridKey /\ grid # Idle
    /\ grid' = Idle
    /\ Sets(Panels) /\ UNCHANGED active

\* A table preview writes its statement into the editor.
SelectTop ==
    /\ Elsewhere
    /\ Leaves(SetCursor(SetText(InBytes(SelectTopSql)), Pos(0, 0)))
    /\ active' = "query"
    /\ UNCHANGED <<overlay, grid>>

\* Alt+Enter runs the text that the editor shows.
RunQuery ==
    /\ text.ok /\ panel = "editor" /\ focus = "text"
    /\ \E i \in DOMAIN text.lines : Spaces(text.lines[i]) < Len(text.lines[i])
    /\ active' = "query"
    /\ UNCHANGED <<panel, text, popup, focus, overlay, grid, own>>

(***************************************************************************)
(* The answer of the tracked request (requests/handlers.rs).               *)
(***************************************************************************)
Answer ==
    /\ text.ok /\ active # "none"
    /\ UNCHANGED <<panel, popup, focus, own>>

AnswerSuccess ==
    /\ Answer
    /\ grid' = IF active \in {"query", "delete"} THEN Idle ELSE grid
    /\ Sets(IF active = "row" THEN Panels ELSE ClearEditorOverlay(Panels))
    /\ active' \in CASE active = "update" -> {"none", "query", "row"}
                     [] active = "delete" -> {"none", "query"}
                     [] OTHER -> {"none"}

\* A query that failed leaves the grid and the preview as they are.
AnswerError ==
    LET mutation == active \in {"update", "delete"}
    IN  /\ Answer
        /\ grid' = IF mutation THEN [grid EXCEPT !.armed = FALSE] ELSE grid
        /\ Sets(IF mutation THEN ClearEditorOverlay(Panels) ELSE Panels)
        /\ active' = "none"

AnswerCanceled ==
    /\ Answer
    /\ grid' = [grid EXCEPT !.armed = FALSE]
    /\ Sets(ClearEditorOverlay(Panels))
    /\ active' = "none"

(***************************************************************************)
(* The specification.                                                      *)
(***************************************************************************)
PopupKey == SelectCompletion \/ CloseCompletions \/ EnterAccepts
EditKey ==
    \/ \E ch \in Chars : TypeChar(ch)
    \/ \E with \in Pastes : Paste(with)
    \/ EnterBreaks \/ BackspaceKey \/ TabKey \/ BackTabKey
Mouse ==
    \/ \E p \in Hits(text), extend \in BOOLEAN : ClickText(p, extend)
    \/ \E r \in 0 .. MaxLines - 1, extend \in BOOLEAN : ClickRow(r, extend)
    \/ \E i \in DOMAIN popup.items : ClickCompletion(i)
    \/ \E from \in DragStarts, to \in Hits(text) : Drag(from, to)
Grid ==
    \/ EditCell \/ SubmitEdit \/ CancelEdit \/ ArmDelete \/ ConfirmDelete
    \/ FocusCell \/ SelectTop \/ RunQuery
Answers == AnswerSuccess \/ AnswerError \/ AnswerCanceled

Next ==
    \/ PopupKey \/ EditKey \/ (\E extend \in BOOLEAN : MoveKey(extend))
    \/ Mouse \/ FocusOther \/ FocusEditor \/ Grid \/ Answers

Spec == Init /\ [][Next]_vars

(***************************************************************************)
(* Properties.                                                             *)
(***************************************************************************)

\* The text that the user left in the editor is the one it shows, or the one
\* that the preview hides and gives back, whatever edits, deletes, answers and
\* previews come in between (App::show_editor_overlay, clear_editor_overlay).
\* Each preview loses an empty last line; what is typed into one is not kept.
WithoutLastLines(s) == Before(s, Max({0} \cup {i \in DOMAIN s : s[i] # NewLine}))

OverlayRestoresText ==
    text.ok => WithoutLastLines(IF overlay.shown THEN overlay.original ELSE Text(text.lines))
               = WithoutLastLines(own)

\* The reference: the text as one sequence of bytes, and offsets into it.
Offset(lines, pos) == Len(Text(SubSeq(lines, 1, pos.row) \o <<Before(lines[pos.row + 1], pos.col)>>))
Valid(t, pos) == InText(t, pos.row) /\ Boundary(Line(t, pos.row), pos.col)
Cursor(t) == Offset(t.lines, Pos(t.row, t.col))
Anchor(t) == IF t.anchor.set THEN Offset(t.lines, t.anchor) ELSE Cursor(t)
From(t) == MinOf(Cursor(t), Anchor(t))
To(t) == Cursor(t) + Anchor(t) - From(t)

Replaces(u, t, from, to, with) ==
    /\ u.ok
    /\ Text(u.lines) = Before(Text(t.lines), from) \o with \o After(Text(t.lines), to)
    /\ Cursor(u) = from + Len(with)

\* When cursor and anchor stand between characters of the text, an edit puts
\* what was typed or pasted in the place of the selection and nothing else
\* changes, across lines and wide characters; Backspace takes the selection or
\* one whole character; a query never grows past its limit (text_input,
\* SemanticSearchState).
CursorsValid(t) == Valid(t, Pos(t.row, t.col)) /\ (t.anchor.set => Valid(t, t.anchor))

EditsReplaceSelection ==
    LET typed == {<<ch>> : ch \in Chars} \cup (Pastes \ {<<>>})
        from == From(text)
        to == To(text)
        back == IF from < to THEN from
                ELSE Max({0} \cup {i \in 0 .. from - 1 : Boundary(Text(text.lines), i)})
    IN  text.ok /\ CursorsValid(text) =>
          /\ Replaces(Backspace(text), text, back, to, <<>>)
          /\ panel = "editor" =>
               \A with \in typed : Replaces(Insert(text, with), text, from, to, InBytes(with))
          /\ panel = "semantic" => \A with \in typed :
               LET u == Insert(text, with)
                   fits == Replaces(Insert(text, with), text, from, to, InBytes(with))
               IN  /\ CharCount(Text(u.lines)) <= Max({Limit, CharCount(Text(text.lines))})
                   /\ CharCount(Text(u.lines)) < Limit => fits

\* The reference for identifiers: byte n of a line is quoted when it is a quote,
\* or has an odd number of them before it.
Odd(line, n) == Cardinality({i \in 1 .. n : line[i] = Quote}) % 2 = 1

PartAt(line, n) ==
    IF line[n] = Quote \/ Odd(line, n) THEN "quoted"
    ELSE IF IdentifierByte(line[n]) THEN "word" ELSE "none"

\* The identifier around the bytes of a line from .. to, or these bytes alone.
Token(line, from, to) ==
    LET first == IF from < to THEN from + 1 ELSE from
        one(i, j) == \A n \in i + 1 .. j : PartAt(line, n) = PartAt(line, first)
        grown == {r \in (0 .. from) \X (to .. Len(line)) : one(r[1], r[2])}
        widest == CHOOSE r \in grown : \A q \in grown : r[1] <= q[1] /\ q[2] <= r[2]
    IN  IF first > 0 /\ PartAt(line, first) # "none" /\ one(from, to) THEN widest ELSE <<from, to>>

\* What a completion is for: the part of the text from .. to.
Completed(t) ==
    LET start == Offset(t.lines, Pos(t.row, 0))
        token == Token(Line(t, t.row), From(t) - start, To(t) - start)
    IN  IF t.anchor.set /\ t.anchor.row # t.row THEN [from |-> From(t), to |-> To(t)]
        ELSE [from |-> start + token[1], to |-> start + token[2]]

\* The cursor is where a quoted identifier ends.
Closes(t) ==
    LET line == Line(t, t.row)
        n == t.col
    IN  /\ From(t) = To(t) /\ n > 0
        /\ line[n] = Quote /\ ~Odd(line, n) /\ (n < Len(line) => line[n + 1] # Quote)

\* When cursor and anchor stand between characters of the text, an accepted
\* completion takes the place of the identifier at the cursor, or of the one
\* that holds the selection, or of the selection, and nothing else changes; a
\* keyword after a quoted identifier follows it (insert_completion_text).  An
\* identifier is a run of letters of a line, or what stands between quotes, a
\* doubled quote included; the quotes of a line pair from its start, and one in
\* a string or a comment counts like any other.
CompletionReplacesComponent ==
    text.ok /\ CursorsValid(text) /\ panel = "editor" =>
        \A batch \in Batches : \A i \in DOMAIN batch :
            LET item == batch[i]
                after == InsertCompletion(text, item)
            IN  IF item.kind = "Keyword" /\ Closes(text)
                THEN Replaces(after, text, From(text), To(text), InBytes(<<Space>> \o item.text))
                ELSE Replaces(after, text, Completed(text).from, Completed(text).to,
                              InBytes(item.text))
=============================================================================
