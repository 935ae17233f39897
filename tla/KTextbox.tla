------------------------------ MODULE KTextbox ------------------------------
(***************************************************************************)
(* Reading a text: dialog_textbox of menuconfig (lxdialog/textbox.c), from *)
(* which search_conf() takes the keys that jump to a result, and           *)
(* show_scroll_win of nconfig (nconf.gui.c).                               *)
(*                                                                         *)
(* A text is a number of lines that end in a newline and possibly one that *)
(* does not.  The pointer page is the number of the line it is at the      *)
(* start of, End when it is at the '\0'.                                   *)
(***************************************************************************)
EXTENDS Integers

CONSTANTS
    MaxLines,       \* bound: lines of a text
    BoxHeights      \* rows a window may have for its text

ASSUME KTextboxAssumption ==
    /\ MaxLines \in Nat
    /\ BoxHeights \subseteq Nat \ {0}

VARIABLES
    text,       \* dialog_textbox: its text, its statics, what it shows
    pad         \* show_scroll_win: its text and what it shows

NOT_OPEN == [open |-> FALSE]
Least(x, y) == IF x < y THEN x ELSE y
Most(x, y) == IF x > y THEN x ELSE y

(***************************************************************************)
(* get_line and back_lines, many at a time.  A position is where page is   *)
(* and what begin_reached and end_reached say of it.                       *)
(***************************************************************************)
Lines(t) == IF t.tail THEN t.lines + 1 ELSE t.lines
End(t) == Lines(t)
At(page, begin, end) == [page |-> page, begin_reached |-> begin, end_reached |-> end]

\* n > 0 times get_line: at the '\0' it says so, and so it does on the line
\* that stops there.
get_lines(t, at, n) ==
    At(Least(at.page + n, End(t)), at.begin_reached, at.page + n > t.lines)

\* At the end of the text the first line back is the empty one after it.
back_lines(t, at, n) ==
    LET empty == n > 0 /\ at.page = End(t) /\ at.end_reached
        m == IF empty THEN n - 1 ELSE n
    IN  At(Most(at.page - Most(m, 0), 0), m > 0 /\ at.page <= m, at.end_reached /\ ~empty)

(***************************************************************************)
(* print_page.  With an update_text the page is read once before: what is  *)
(* to be seen gets its keys, the lines from first up to end.               *)
(***************************************************************************)
print_page(t, at, boxh) ==
    LET read == get_lines(t, at, boxh)
        from == IF t.update_text THEN back_lines(t, read, boxh) ELSE at
        all == t.lines - from.page < boxh       \* the text ends in the window
    IN  [t EXCEPT !.boxh = boxh, !.top = from.page,
                  !.at = get_lines(t, from, boxh),
                  !.page_length = IF all THEN Most(t.lines - from.page, 0) + 1 ELSE boxh,
                  !.keys = IF t.update_text THEN from.page..read.page - 1 ELSE {}]

(***************************************************************************)
(* dialog_textbox of a text, from the line _vscroll says; search_conf      *)
(* opens it again where it was, after the jump to a result.                *)
(***************************************************************************)
Opened(t, vscroll, boxh) ==
    LET start == At(0, TRUE, FALSE)
    IN  print_page(t, IF vscroll = 0 THEN start
                      ELSE get_lines(t, [start EXCEPT !.begin_reached = FALSE], vscroll), boxh)

dialog_textbox(lines, tail, update_text, boxh) ==
    /\ text = NOT_OPEN
    /\ text' = Opened([open |-> TRUE, lines |-> lines, tail |-> tail,
                       update_text |-> update_text, boxh |-> boxh, top |-> 0,
                       at |-> At(0, TRUE, FALSE), page_length |-> 0, keys |-> {},
                       vscroll |-> 0], 0, boxh)

text_again(boxh) ==
    /\ text # NOT_OPEN
    /\ ~text.open
    /\ text' = Opened([text EXCEPT !.open = TRUE], text.vscroll, boxh)

Reading == text # NOT_OPEN /\ text.open
Page(at) == text' = print_page(text, at, text.boxh)
PageBack(n) == back_lines(text, text.at, n)

text_home ==
    /\ Reading
    /\ ~text.at.begin_reached
    /\ Page(At(0, TRUE, text.at.end_reached))

text_end ==
    /\ Reading
    /\ Page(back_lines(text, At(End(text), text.at.begin_reached, TRUE), text.boxh))

text_up(paged) ==
    /\ Reading
    /\ ~text.at.begin_reached
    /\ Page(PageBack(text.page_length + IF paged THEN text.boxh ELSE 1))

text_down ==
    /\ Reading
    /\ ~text.at.end_reached
    /\ Page(PageBack(text.page_length - 1))

text_page_down ==
    /\ Reading
    /\ ~text.at.end_reached
    /\ Page([text.at EXCEPT !.begin_reached = FALSE])

\* Left and right: hscroll, and the page is printed again.
text_sideways ==
    /\ Reading
    /\ Page(PageBack(text.page_length))

\* The page goes back the height of the dialog, four more than the box has.
text_resize(boxh) ==
    /\ Reading
    /\ text' = print_page(text, PageBack(text.boxh + 4), boxh)

\* Exit, or a key of a result: where the page is, is remembered.
text_done(jump) ==
    /\ Reading
    /\ jump => text.keys # {}
    /\ text' = IF jump THEN [text EXCEPT !.open = FALSE, !.vscroll = PageBack(text.page_length).page]
               ELSE NOT_OPEN

(***************************************************************************)
(* show_scroll_win: LINES is the height of the screen, the window as high  *)
(* as the text needs or the screen allows.                                 *)
(***************************************************************************)
show_scroll_win(total_lines, LINES) ==
    /\ pad = NOT_OPEN
    /\ pad' = [open |-> TRUE, total_lines |-> total_lines, start_y |-> 0,
               text_lines |-> Most(Least(total_lines + 4, LINES - 2) - 4, 0)]

Clamped(y) ==
    LET last == pad.total_lines - pad.text_lines
        start_y == Most(y, 0)
    IN  pad' = [pad EXCEPT !.start_y = IF start_y >= last THEN last ELSE start_y]

\* Mutant of pad_key: a page is text_lines.
pad_key_whole(key) ==
    /\ pad # NOT_OPEN
    /\ Clamped([npage |-> pad.start_y + pad.text_lines,
                 ppage |-> pad.start_y - pad.text_lines,
                 home |-> 0, end |-> pad.total_lines - pad.text_lines,
                 down |-> pad.start_y + 1, up |-> pad.start_y - 1][key])

pad_key(key) ==
    /\ pad # NOT_OPEN
    /\ Clamped([npage |-> pad.start_y + pad.text_lines - 2,
                 ppage |-> pad.start_y - (pad.text_lines + 2),
                 home |-> 0, end |-> pad.total_lines - pad.text_lines,
                 down |-> pad.start_y + 1, up |-> pad.start_y - 1][key])

pad_done ==
    /\ pad # NOT_OPEN
    /\ pad' = NOT_OPEN

\* copywin fills the rows 2 to text_lines of the window, from line start_y on.
PadEnd(p) == p.start_y + p.text_lines - 1

-----------------------------------------------------------------------------
textbox_init == text = NOT_OPEN /\ pad = NOT_OPEN

text_next ==
    \/ text_home \/ text_end \/ text_down \/ text_page_down \/ text_sideways
    \/ \E flag \in BOOLEAN : text_up(flag) \/ text_done(flag)
    \/ \E boxh \in BoxHeights : text_resize(boxh) \/ text_again(boxh)

pad_next ==
    \/ \E key \in {"npage", "ppage", "home", "end", "down", "up"} : pad_key(key)
    \/ pad_done
-----------------------------------------------------------------------------
(***************************************************************************)
(* A key is refused at the beginning and at the end of the text and nowhere*)
(* else: the flags the keys test say whether the first line, and whether   *)
(* the last one, is in the window; page is where the rows end; and the keys*)
(* that jump are those of the results in the window.                       *)
(***************************************************************************)
InWindow == {l \in 0..Lines(text) - 1 : text.top <= l /\ l < text.top + text.boxh}

TextTrue ==
    Reading =>
        /\ text.at.begin_reached <=> text.top = 0
        /\ text.at.end_reached <=> text.top + text.boxh > text.lines
        /\ text.at.page = Least(text.top + text.boxh, End(text))
        /\ text.update_text => text.keys = InWindow

\* The same text again in a window as high, where every line has its newline.
TextReturns ==
    /\ text # NOT_OPEN /\ ~text.open /\ text'.open
    /\ text'.boxh = text.boxh
    /\ ~text.tail

(***************************************************************************)
(* Going down a page, in either reader, and up one in menuconfig, passes no*)
(* line by that was not in the window before or is in it then.             *)
(***************************************************************************)
NothingSkipped ==
    [][/\ (text_page_down \/ text_up(TRUE)) /\ ~text.tail =>
            text'.top \in text.top - text.boxh..text.top + text.boxh
       /\ pad_key("npage") => pad'.start_y <= PadEnd(pad)]_<<text, pad>>
=============================================================================
