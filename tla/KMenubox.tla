------------------------------ MODULE KMenubox ------------------------------
(***************************************************************************)
(* The lists of menuconfig: dialog_menu (lxdialog/menubox.c), from which   *)
(* conf() takes the entry a key acts upon, and dialog_checklist            *)
(* (lxdialog/checklist.c), in which conf_choice() offers the values of a   *)
(* choice.                                                                 *)
(*                                                                         *)
(* Items are numbers: where an item is in the list.  What a row of the     *)
(* window shows is kept beside the numbers the program computes with,      *)
(* because only the rows that change are printed: rows[r] is the item that *)
(* was printed in row r, and whether it was highlighted.  A list without   *)
(* items prints as rows of nothing; of a list with items, none may be      *)
(* printed that does not exist: item_set leaves no item, and item_str and  *)
(* item_is_tag go through a null pointer.                                  *)
(***************************************************************************)
EXTENDS Integers

CONSTANTS
    MaxItems,       \* bound: items of a list
    Tall,           \* the numbers of lines the terminal may have
    ListHeight,     \* rows of a checklist (conf_choice asks for 6)
    MaxBlind        \* bound: how far the cursor walks in an empty checklist

ASSUME KMenuboxAssumption ==
    /\ MaxItems \in Nat
    /\ Tall \subseteq Nat
    /\ ListHeight \in Nat \ {0}
    /\ MaxBlind \in Nat

MIN(x, y) == IF x < y THEN x ELSE y
MAX(x, y) == IF x > y THEN x ELSE y

NoItem == -1
Items(n) == 0..n - 1

VARIABLES
    menu,       \* dialog_menu: its locals, its window, the list it is given
    list        \* dialog_checklist

(***************************************************************************)
(* The window: print_item and do_scroll.                                   *)
(***************************************************************************)
Row(item, lit) == [item |-> item, lit |-> lit]
Fresh(height, first, choice) == [r \in 0..height - 1 |-> Row(first + r, r = choice)]
print_item(rows, item, r, lit) ==
    IF r \in DOMAIN rows THEN [rows EXCEPT ![r] = Row(item, lit)] ELSE rows
scrolled(rows, n) ==
    [r \in DOMAIN rows |-> IF r + n \in DOMAIN rows THEN rows[r + n] ELSE Row(NoItem, FALSE)]

(***************************************************************************)
(* dialog_menu from do_resize on: n items, the one to select (if it is in  *)
(* the list), the saved scroll position; choice and first_item are what    *)
(* they were before the window changed its size.                           *)
(***************************************************************************)
menu_height(lines) == lines - 14
TooSmall(lines) == lines < 15

Layout(n, selected, s_scroll, lines, choice, first_item, button) ==
    LET max_choice == MIN(menu_height(lines), n)
        at == IF selected \in Items(n) THEN selected ELSE choice
        saved == /\ s_scroll <= at /\ s_scroll + max_choice > at
                 /\ s_scroll >= 0 /\ s_scroll + max_choice <= n
        off == at >= max_choice     \* it is below the window
        scroll == IF saved THEN s_scroll
                  ELSE IF ~off THEN 0
                  ELSE IF at >= n - max_choice \div 2 THEN n - max_choice
                  ELSE at - max_choice \div 2
        first == IF saved \/ off THEN scroll ELSE first_item
    IN  [open |-> TRUE, n |-> n, selected |-> selected, s_scroll |-> s_scroll,
         max_choice |-> max_choice, choice |-> at - scroll, scroll |-> scroll,
         first_item |-> first, button |-> button, shown |-> 0,
         rows |-> Fresh(max_choice, first, at - scroll), picked |-> NoItem,
         lines |-> lines, stale |-> first # scroll \/ button # 0]

Closed == [open |-> FALSE, n |-> 0, selected |-> NoItem, s_scroll |-> 0, max_choice |-> 0,
           choice |-> 0, scroll |-> 0, first_item |-> 0, button |-> 0, shown |-> 0,
           rows |-> <<>>, picked |-> NoItem, lines |-> 0, stale |-> FALSE]

\* The program was killed by the rows it printed: first_item, from a smaller
\* window, is too far down for this one.
Crashed == [Closed EXCEPT !.lines = -1]
Printed(w) ==
    IF w.max_choice > 0 /\ w.first_item + w.max_choice > w.n THEN Crashed ELSE w

\* conf() enters a menu.
dialog_menu(n, selected, lines) ==
    /\ menu = Closed
    /\ menu' = IF TooSmall(lines) THEN Closed
               ELSE Printed(Layout(n, selected, 0, lines, 0, 0, 0))

\* The loop of conf(): the list is built again, with the item last acted on
\* as the active one (gone: NoItem) and the scroll position that was saved.
conf_again(n, active) ==
    /\ ~menu.open
    /\ menu \notin {Closed, Crashed}
    /\ menu' = Printed(Layout(n, active, menu.s_scroll, menu.lines, 0, 0, 0))

\* The user starts menuconfig again.
menuconfig ==
    /\ menu = Crashed
    /\ menu' = Closed

(***************************************************************************)
(* The keys that move.  The highlight is taken off the row it is on, the   *)
(* window scrolled or not, and put on the row choice then names.           *)
(***************************************************************************)
Moved(rows, choice, scroll) ==
    menu' = [menu EXCEPT !.choice = choice, !.scroll = scroll,
                         !.rows = print_item(rows, scroll + choice, choice, TRUE)]
Unlit == print_item(menu.rows, menu.scroll + menu.choice, menu.choice, FALSE)
below == menu.n - menu.max_choice - menu.scroll    \* items under the window

menu_up ==
    /\ menu.open
    /\ IF menu.choice < 2 /\ menu.scroll # 0
       THEN Moved(print_item(scrolled(Unlit, -1), menu.scroll - 1, 0, FALSE),
                  menu.choice, menu.scroll - 1)
       ELSE Moved(Unlit, MAX(menu.choice - 1, 0), menu.scroll)

\* Mutant of menu_down: the row scrolled in is taken for the one above it.
menu_down_row_above ==
    /\ menu.open
    /\ IF menu.choice > menu.max_choice - 3 /\ below > 0
       THEN Moved(print_item(scrolled(Unlit, 1), menu.scroll + menu.max_choice - 1,
                             menu.max_choice - 1, FALSE),
                  menu.choice, menu.scroll + 1)
       ELSE Moved(Unlit, MIN(menu.choice + 1, menu.max_choice - 1), menu.scroll)

menu_down ==
    /\ menu.open
    /\ IF menu.choice > menu.max_choice - 3 /\ below > 0
       THEN Moved(print_item(scrolled(Unlit, 1), menu.scroll + menu.max_choice,
                             menu.max_choice - 1, FALSE),
                  menu.choice, menu.scroll + 1)
       ELSE Moved(Unlit, MIN(menu.choice + 1, menu.max_choice - 1), menu.scroll)

\* Each of max_choice turns of the loop scrolls a line and prints the row it
\* uncovers or, at the end of the list, moves the highlight.
menu_page_up ==
    /\ menu.open
    /\ LET n == MIN(menu.scroll, menu.max_choice)
           paged == [r \in DOMAIN menu.rows |->
                        IF r < n THEN Row(menu.scroll - n + r, FALSE) ELSE Unlit[r - n]]
       IN  Moved(paged, MIN(menu.choice, MAX(menu.choice - (menu.max_choice - n), 0)),
                 menu.scroll - n)

menu_page_down ==
    /\ menu.open
    /\ LET n == MIN(MAX(below, 0), menu.max_choice)
           paged == [r \in DOMAIN menu.rows |->
                        IF r >= menu.max_choice - n THEN Row(menu.scroll + n + r, FALSE)
                        ELSE Unlit[r + n]]
       IN  Moved(paged, MAX(menu.choice, MIN(menu.choice + (menu.max_choice - n),
                                             menu.max_choice - 1)),
                 menu.scroll + n)

\* A hotkey: a row whose item has it.
menu_hotkey(i) ==
    /\ menu.open
    /\ i \in Items(menu.max_choice)
    /\ Moved(Unlit, i, menu.scroll)

(***************************************************************************)
(* The other keys: the buttons, the commands, the way out.                 *)
(***************************************************************************)
menu_buttons(key) ==
    /\ menu.open
    /\ LET button == (menu.button + (IF key = "left" THEN 4 ELSE 1)) % 5
       IN  menu' = [menu EXCEPT !.button = button, !.shown = button]

\* Mutant of menu_act: *s_scroll is not set.
menu_act_forgets ==
    /\ menu.open
    /\ LET item == menu.scroll + menu.choice
       IN  menu' = [menu EXCEPT !.open = FALSE,
                                !.picked = IF item \in Items(menu.n) THEN item ELSE NoItem]

\* Enter does what the button says, the letters are commands: the item under
\* the cursor is selected, and conf() acts upon it.
menu_act ==
    /\ menu.open
    /\ LET item == menu.scroll + menu.choice
       IN  menu' = [menu EXCEPT !.open = FALSE, !.s_scroll = menu.scroll,
                                !.picked = IF item \in Items(menu.n) THEN item ELSE NoItem]

\* Escape, and Enter on Exit: conf() leaves the menu.
menu_exit ==
    /\ menu.open
    /\ menu' = Closed

\* KEY_RESIZE: goto do_resize, with the locals as they are.
menu_resize(lines) ==
    /\ menu.open
    /\ menu' = IF TooSmall(lines) THEN Closed
               ELSE Printed(Layout(menu.n, menu.selected, menu.s_scroll, lines,
                                   menu.choice, menu.first_item, menu.button))

(***************************************************************************)
(* dialog_checklist: x is the value of the choice (the last item tagged    *)
(* 'X'), selected the one conf_choice wants highlighted instead.           *)
(***************************************************************************)
ClosedList == [open |-> FALSE, n |-> 0, max_choice |-> 0, choice |-> 0, scroll |-> 0,
               button |-> 0, shown |-> 0, rows |-> <<>>, picked |-> NoItem, stale |-> FALSE]

DrawList(n, choice, scroll, button) ==
    LET over == choice >= ListHeight
        top == IF over THEN choice - ListHeight + 1 ELSE scroll
        row == IF over THEN choice - top ELSE choice
        max_choice == MIN(ListHeight, n)
    IN  [open |-> TRUE, n |-> n, max_choice |-> max_choice, choice |-> row, scroll |-> top,
         button |-> button, shown |-> 0, rows |-> Fresh(max_choice, top, row),
         picked |-> NoItem, stale |-> button # 0]

dialog_checklist(n, x, selected) ==
    /\ ~list.open
    /\ list' = DrawList(n, IF selected \in Items(n) THEN selected
                           ELSE IF x \in Items(n) THEN x ELSE 0, 0, 0)

\* The highlight moves to row i; the two rows are printed.
list_to(i) ==
    IF i = list.choice THEN UNCHANGED list
    ELSE list' = [list EXCEPT !.choice = i,
                    !.rows = print_item(print_item(list.rows, list.scroll + list.choice,
                                                   list.choice, FALSE),
                                        list.scroll + i, i, TRUE)]

\* At an end of the window the list scrolls a line and the row stays lit; a
\* list of one row is only printed again.
list_scroll(by, row) ==
    LET off == print_item(list.rows, list.scroll + row, row, FALSE)
        rows == IF ListHeight > 1 THEN scrolled(off, by) ELSE list.rows
    IN  list' = [list EXCEPT !.scroll = list.scroll + by,
                             !.rows = print_item(rows, list.scroll + by + row, row, TRUE)]

list_up ==
    /\ list.open
    /\ IF list.choice # 0 THEN list_to(list.choice - 1)
       ELSE list.scroll # 0 /\ list_scroll(-1, 0)

list_down ==
    /\ list.open
    /\ list.n = 0 => list.choice < MaxBlind
    /\ IF list.choice # list.max_choice - 1 THEN list_to(list.choice + 1)
       ELSE list.scroll + list.choice < list.n - 1 /\ list_scroll(1, list.max_choice - 1)

\* The first letter of a row's text.
list_hotkey(i) ==
    /\ list.open
    /\ i \in Items(list.max_choice)
    /\ list_to(i)

list_buttons ==
    /\ list.open
    /\ list' = [list EXCEPT !.button = 1 - @, !.shown = 1 - list.button]

\* h, ? and the button Help: conf_choice shows the help of the value.
list_help ==
    /\ list.open
    /\ LET item == list.scroll + list.choice
       IN  list' = [list EXCEPT !.open = FALSE,
                                !.picked = IF item \in Items(list.n) THEN item ELSE NoItem]

\* Escape, or the value is set: conf_choice returns.
list_exit ==
    /\ list.open
    /\ list' = ClosedList

list_resize ==
    /\ list.open
    /\ list' = DrawList(list.n, list.choice, list.scroll, list.button)

\* The loop of conf_choice: after the help the same value is highlighted.
choice_again ==
    /\ ~list.open
    /\ list # ClosedList
    /\ dialog_checklist(list.n, NoItem, list.picked)

-----------------------------------------------------------------------------
menubox_init == menu = Closed /\ list = ClosedList

\* A key in the menu, and what the loop of conf() does with it.
menu_next ==
    \/ menu_up \/ menu_down \/ menu_page_up \/ menu_page_down
    \/ \E i \in Items(MaxItems) : menu_hotkey(i)
    \/ \E key \in {"left", "right"} : menu_buttons(key)
    \/ menu_act \/ menu_exit \/ menuconfig
    \/ \E lines \in Tall : menu_resize(lines)
    \/ \E n \in 0..MaxItems, active \in Items(MaxItems) \union {NoItem} : conf_again(n, active)

\* A key in the checklist, and what the loop of conf_choice does with it.
list_next ==
    \/ list_up \/ list_down
    \/ \E i \in Items(ListHeight) : list_hotkey(i)
    \/ list_buttons
    \/ list_help \/ list_exit \/ list_resize \/ choice_again
-----------------------------------------------------------------------------
(***************************************************************************)
(* Although only the rows that change are printed, every row shows the item*)
(* the program takes to be there, the highlight is on the item under the   *)
(* cursor and on no other, the window shows as much of the list as it can  *)
(* hold and the button that looks pressed is the one Enter obeys.          *)
(***************************************************************************)
Shows(w) ==
    /\ w.shown = w.button
    /\ w.n > 0 => /\ w.choice \in Items(w.max_choice)
                  /\ w.scroll \in 0..w.n - w.max_choice
    /\ \A r \in Items(w.max_choice) : w.rows[r] = Row(w.scroll + r, r = w.choice)

ListsTrue ==
    /\ menu.open /\ ~menu.stale => Shows(menu)
    /\ list.open /\ ~list.stale => Shows(list)

\* conf() comes back to a list of as many items and to the one it acted upon.
MenuReturns ==
    /\ ~menu.open /\ menu \notin {Closed, Crashed} /\ menu'.open
    /\ menu'.n = menu.n
    /\ menu'.selected = menu.picked
=============================================================================
