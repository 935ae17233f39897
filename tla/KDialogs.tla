------------------------------ MODULE KDialogs ------------------------------
(***************************************************************************)
(* The dialogs of menuconfig and nconfig, one at a time: the program is in *)
(* one of them, and what it acts upon is what the dialog gave it.  A list, *)
(* a string or a text may be any: what the program makes of them is in     *)
(* KMenu and KConf.                                                        *)
(***************************************************************************)
EXTENDS KMenubox, KInputbox, KTextbox, KNMenu

CONSTANT Strings    \* the values a string may have when its dialog opens

ASSUME KDialogsAssumption == Strings \subseteq Seq(Chars)

Dialogs == <<menu, list, input, form, left, right, text, pad, nmenu>>

Init == menubox_init /\ inputbox_init /\ textbox_init /\ nmenu_init

\* No dialog is open: conf() of either program is about to call one.
Idle == /\ menu = Closed /\ list = ClosedList
        /\ input = ClosedInput /\ form = ClosedForm
        /\ text = NOT_OPEN /\ pad = NOT_OPEN /\ nmenu = NO_MENU

MenuOpens ==
    /\ \E n \in 0..MaxItems, selected \in Items(MaxItems) \union {NoItem}, lines \in Tall :
          dialog_menu(n, selected, lines)
    /\ UNCHANGED <<list, input, form, left, right, text, pad, nmenu>>
ListOpens ==
    /\ \E n \in 0..MaxItems, x, selected \in Items(MaxItems) \union {NoItem} :
          dialog_checklist(n, x, selected)
    /\ UNCHANGED <<menu, input, form, left, right, text, pad, nmenu>>
InputOpens ==
    /\ \E init \in Strings :
          \/ dialog_inputbox(init) /\ UNCHANGED form
          \/ form_inputbox(init) /\ UNCHANGED input
    /\ UNCHANGED <<menu, list, text, pad, nmenu>>
TextOpens ==
    /\ \E lines \in 1..MaxLines, tail, update_text \in BOOLEAN, boxh \in BoxHeights :
          dialog_textbox(lines, tail, update_text, boxh)
    /\ UNCHANGED <<menu, list, input, form, left, right, pad, nmenu>>
PadOpens ==
    /\ \E lines \in 1..MaxLines, boxh \in BoxHeights : show_scroll_win(lines, boxh + 6)
    /\ UNCHANGED <<menu, list, input, form, left, right, text, nmenu>>
NMenuOpens ==
    /\ \E n \in 1..MaxRows, active \in {-1} \union Rows(MaxRows), toprow \in Rows(MaxRows) :
          nmenu_open(n, active, toprow)
    /\ UNCHANGED <<menu, list, input, form, left, right, text, pad>>

Opens == Idle /\ \/ MenuOpens \/ ListOpens \/ InputOpens
                 \/ TextOpens \/ PadOpens \/ NMenuOpens

MenuStep == menu_next /\ UNCHANGED <<list, input, form, left, right, text, pad, nmenu>>
ListStep == list_next /\ UNCHANGED <<menu, input, form, left, right, text, pad, nmenu>>
InputStep == input_next /\ UNCHANGED <<menu, list, form, text, pad, nmenu>>
FormStep == form_next /\ UNCHANGED <<menu, list, input, text, pad, nmenu>>
TextStep == text_next /\ UNCHANGED <<menu, list, input, form, left, right, pad, nmenu>>
PadStep == pad_next /\ UNCHANGED <<menu, list, input, form, left, right, text, nmenu>>
NMenuStep == nmenu_next /\ UNCHANGED <<menu, list, input, form, left, right, text, pad>>

Next == \/ Opens
        \/ MenuStep \/ ListStep \/ InputStep \/ FormStep
        \/ TextStep \/ PadStep \/ NMenuStep

Spec == Init /\ [][Next]_Dialogs
-----------------------------------------------------------------------------
(***************************************************************************)
(* What a key acts upon is what the user sees: in the lists of menuconfig  *)
(* (Shows), in its texts (TextTrue), in the lists of nconfig (InView).     *)
(* After the terminal has changed its size the first does not hold for the *)
(* lists of menuconfig until they are opened again, and one that was       *)
(* scrolled may kill the program (Printed).                                *)
(***************************************************************************)
ScreenTrue == ListsTrue /\ TextTrue /\ InView

(***************************************************************************)
(* A list or a text that is opened again as it was, after the program has  *)
(* acted on what was selected, is where it was.                            *)
(***************************************************************************)
PlaceKept ==
    [][/\ MenuReturns /\ ~menu.stale => menu'.rows = menu.rows
       /\ TextReturns => text'.top = text.top
       /\ NMenuReturns => nmenu'.cur = nmenu.cur /\ nmenu'.top = nmenu.top]_Dialogs
=============================================================================
