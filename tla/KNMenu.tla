------------------------------- MODULE KNMenu -------------------------------
(***************************************************************************)
(* The lists of nconfig (nconf.c): conf() and conf_choice() build a list,  *)
(* show it at the item they were at, and look for what the user types.     *)
(*                                                                         *)
(* The list itself is a menu of the curses library, which keeps the item   *)
(* under the cursor in its window: set_top_row, set_current_item and the   *)
(* keys that move are external.  What is typed is not spelled out: each    *)
(* character narrows the set of the items that contain the pattern.        *)
(***************************************************************************)
EXTENDS Integers, Sequences

CONSTANTS
    MaxRows,        \* bound: items of a list
    mwin_max_lines, \* rows of the window
    MaxPattern      \* bound: characters of a pattern

ASSUME KNMenuAssumption ==
    /\ MaxRows \in Nat \ {0}
    /\ mwin_max_lines \in Nat \ {0}
    /\ MaxPattern \in Nat

VARIABLE nmenu

NO_MENU == [open |-> FALSE]
Rows(n) == 0..n - 1
Down == {"NEXT_DOWN", "TINKER_DOWN"}
Arrows == {"NEXT_DOWN", "NEXT_UP"}

(***************************************************************************)
(* The menu of the library: the first row shown and the current item.      *)
(***************************************************************************)
Window(n) == IF n < mwin_max_lines THEN n ELSE mwin_max_lines
set_top_row(m, row) ==
    IF row \in 0..m.n - Window(m.n) /\ row # m.top
    THEN [m EXCEPT !.top = row, !.cur = row] ELSE m
set_current_item(m, item) ==
    IF item \notin Rows(m.n) THEN m
    ELSE [m EXCEPT !.cur = item,
                   !.top = IF item < m.top THEN item
                           ELSE IF item >= m.top + Window(m.n) THEN item - Window(m.n) + 1
                           ELSE m.top]

(***************************************************************************)
(* center_item, "prefer not to scroll the menu if possible".  The top row  *)
(* is the one last remembered, not the one the keys have moved to.         *)
(***************************************************************************)
center_item(m, selected) ==
    LET shown == set_top_row(m, m.last_top_row)
        half == IF selected > mwin_max_lines \div 2 THEN selected - mwin_max_lines \div 2 ELSE 0
        toprow == IF half < m.n - mwin_max_lines THEN half ELSE m.n - mwin_max_lines
        out == selected < shown.top \/ selected >= shown.top + mwin_max_lines
        at == IF out THEN toprow ELSE shown.top
    IN  [set_current_item(set_top_row(shown, at), selected) EXCEPT !.last_top_row = at]

\* reset_menu, the items, show_menu.
show_menu(m, n, selected) ==
    center_item([m EXCEPT !.open = TRUE, !.n = n, !.top = 0, !.cur = 0], selected)

\* conf() of a menu, or conf_choice() with the value the choice has: its list
\* starts with the top row of the one it is called from.
nmenu_open(n, active, toprow) ==
    /\ nmenu = NO_MENU
    /\ nmenu' = show_menu([open |-> TRUE, n |-> n, top |-> 0, cur |-> 0, active |-> active,
                           last_top_row |-> IF active = -1 THEN 0 ELSE toprow, in_search |-> FALSE,
                           direction |-> "TINKER_DOWN", pattern |-> <<>>, hung |-> FALSE],
                          n, IF active \in Rows(n) THEN active ELSE 0)

Listing == nmenu # NO_MENU /\ nmenu.open /\ ~nmenu.hung
InChoice == nmenu.active # -1

\* The keys that move.  In a search the arrows search on, and Page Up, Page Down
\* and End are taken for characters that are typed, as only a byte of the key is
\* looked at: of these keys Home alone ends it.
nmenu_key(key) ==
    /\ Listing
    /\ nmenu.in_search => key = "home"
    /\ LET n == nmenu.n
           page == Window(n)
           to == [down |-> nmenu.cur + 1, up |-> nmenu.cur - 1,
                  npage |-> nmenu.cur + page, ppage |-> nmenu.cur - page,
                  home |-> 0, end |-> n - 1][key]
           item == IF to < 0 THEN 0 ELSE IF to >= n THEN n - 1 ELSE to
       IN  nmenu' = [set_current_item(nmenu, item) EXCEPT
                        !.in_search = FALSE, !.pattern = <<>>]

\* A key conf() acts upon: it remembers where it is, and builds the list
\* again.  conf_choice goes back to the value the choice has.
nmenu_act ==
    /\ Listing
    /\ nmenu' = [nmenu EXCEPT !.open = FALSE, !.in_search = FALSE, !.pattern = <<>>,
                              !.last_top_row = nmenu.top]

nmenu_again(n) ==
    /\ nmenu # NO_MENU
    /\ ~nmenu.open
    /\ InChoice => n = nmenu.n
    /\ nmenu' = show_menu(nmenu, n, IF InChoice THEN nmenu.active ELSE nmenu.cur)

\* Escape or the left arrow; or the user kills a program that hangs.
nmenu_leave ==
    /\ nmenu # NO_MENU
    /\ nmenu.open
    /\ nmenu' = NO_MENU

(***************************************************************************)
(* The search, do_match.  '/' begins and ends it (Escape ends it, too).    *)
(***************************************************************************)
search_toggle ==
    /\ Listing
    /\ nmenu' = [nmenu EXCEPT !.in_search = ~@, !.pattern = <<>>, !.direction = "TINKER_DOWN"]

\* Contain what is typed so far: everything contains the empty pattern.
Hits == IF nmenu.pattern = <<>> THEN Rows(nmenu.n) ELSE nmenu.pattern[Len(nmenu.pattern)]

(***************************************************************************)
(* get_mext_match from the current item, or from the one after it.  The    *)
(* walk ends when it is back at match_start; when that is one past an end  *)
(* of the list it never is, as the index is taken modulo items_num.        *)
(***************************************************************************)
Nowhere == -1
ForEver == -2

\* Mutant of get_mext_match: the next match may be the item itself.
get_mext_match_same(hits, flag) ==
    LET n == nmenu.n
        step == IF flag \in Down THEN 1 ELSE -1
        walk == [d \in 0..n - 1 |-> (nmenu.cur + n + step * d) % n]
        found == {d \in DOMAIN walk : walk[d] \in hits}
    IN  IF found # {} THEN walk[CHOOSE d \in found : \A e \in found : d <= e] ELSE Nowhere

get_mext_match(hits, flag) ==
    LET n == nmenu.n
        step == IF flag \in Down THEN 1 ELSE -1
        match_start == IF flag \in Arrows THEN nmenu.cur + step ELSE nmenu.cur
        walk == [d \in 0..n - 1 |-> (match_start + n + step * d) % n]
        found == {d \in DOMAIN walk : walk[d] \in hits}
    IN  IF found # {} THEN walk[CHOOSE d \in found : \A e \in found : d <= e]
        ELSE IF match_start \in Rows(n) THEN Nowhere ELSE ForEver

look(pattern, hits, flag) ==
    LET to == get_mext_match(hits, flag)
        m == [nmenu EXCEPT !.pattern = pattern, !.direction = flag]
    IN  nmenu' = IF to = ForEver THEN [m EXCEPT !.hung = TRUE]
                 ELSE IF to = Nowhere THEN m ELSE center_item(m, to)

Searching == Listing /\ nmenu.in_search

search_char(hits) ==
    /\ Searching
    /\ Len(nmenu.pattern) < MaxPattern
    /\ hits \subseteq Hits
    /\ look(Append(nmenu.pattern, hits), hits,
            IF nmenu.direction \in Down THEN "TINKER_DOWN" ELSE "TINKER_UP")

search_arrow(flag) ==
    /\ Searching
    /\ look(nmenu.pattern, Hits, flag)

\* A character less; the cursor stays where it is.
search_backspace ==
    /\ Searching
    /\ nmenu.pattern # <<>>
    /\ nmenu' = [nmenu EXCEPT
                   !.pattern = SubSeq(@, 1, Len(@) - 1),
                   !.direction = IF @ \in Down THEN "TINKER_DOWN" ELSE "TINKER_UP"]

-----------------------------------------------------------------------------
nmenu_init == nmenu = NO_MENU

nmenu_next ==
    \/ \E key \in {"down", "up", "npage", "ppage", "home", "end"} : nmenu_key(key)
    \/ nmenu_act \/ nmenu_leave
    \/ \E n \in 1..MaxRows : nmenu_again(n)
    \/ search_toggle \/ search_backspace
    \/ \E hits \in SUBSET Rows(MaxRows) : search_char(hits)
    \/ \E flag \in Arrows : search_arrow(flag)
-----------------------------------------------------------------------------
(***************************************************************************)
(* The search goes to the nearest item that contains what is typed, in the *)
(* direction of the last arrow and round the ends of the list, and stays   *)
(* where it is when there is none; it hangs only when an arrow is to go    *)
(* past an end of a list that has none.                                    *)
(***************************************************************************)
Distance(from, to, flag) ==
    (IF flag \in Down THEN to - from ELSE from - to) % nmenu.n
Looked ==
    /\ Listing /\ nmenu.in_search
    /\ nmenu'.open /\ nmenu'.in_search
    /\ Len(nmenu'.pattern) > Len(nmenu.pattern) \/ nmenu'.direction \in Arrows

FindsNearest ==
    LET flag == nmenu'.direction
        next == IF flag \in Arrows THEN 1 ELSE 0
        start == nmenu.cur + (IF flag \in Down THEN next ELSE -next)
        hits == Hits'
    IN  IF hits = {} THEN /\ nmenu'.cur = nmenu.cur
                          /\ nmenu'.hung <=> start \notin Rows(nmenu.n)
        ELSE /\ ~nmenu'.hung
             /\ nmenu'.cur \in hits
             /\ \A h \in hits : Distance(start, nmenu'.cur, flag) <= Distance(start, h, flag)

SearchFinds == [][Looked => FindsNearest]_nmenu

\* The cursor is on an item of the window.
InView == nmenu # NO_MENU /\ nmenu.open => nmenu.cur \in nmenu.top..nmenu.top + Window(nmenu.n) - 1

\* conf() shows a list of as many items again.
NMenuReturns ==
    /\ nmenu # NO_MENU /\ ~nmenu.open /\ nmenu'.open
    /\ nmenu'.n = nmenu.n
    /\ ~InChoice
=============================================================================
