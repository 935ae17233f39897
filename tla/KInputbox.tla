------------------------------ MODULE KInputbox ------------------------------
(***************************************************************************)
(* Typing a value: dialog_inputbox of menuconfig (lxdialog/inputbox.c) and *)
(* of nconfig (nconf.gui.c), each with the string it edits, the cursor,    *)
(* and the part of the string its field shows.  The cells of menuconfig's  *)
(* field are kept, because it prints the text again but not the field.     *)
(*                                                                         *)
(* left and right are what the user means the text before and after the    *)
(* cursor to be: the keys as one reads them on the keyboard.               *)
(***************************************************************************)
EXTENDS Integers, Sequences

CONSTANTS
    Chars,          \* the characters one may type
    MAX_LEN,        \* the longest string menuconfig takes (bound for nconfig)
    box_width,      \* cells of menuconfig's field
    prompt_width    \* cells of nconfig's field

ASSUME KInputboxAssumption ==
    /\ MAX_LEN \in Nat
    /\ box_width \in Nat \ {0}
    /\ prompt_width \in Nat \ {0}

VARIABLES
    input,      \* menuconfig: its locals and its field
    form,       \* nconfig: its locals
    left, right

Blank == " "
ClosedInput == [open |-> FALSE, instr |-> <<>>, pos |-> 0, show_x |-> 0, input_x |-> 0,
                button |-> -1, field |-> <<>>]
ClosedForm == [open |-> FALSE, result |-> <<>>, cursor_position |-> 0, cursor_form_win |-> 0]

First(s) == SubSeq(s, 1, Len(s) - 1)
Insert(s, pos, c) == SubSeq(s, 1, pos) \o <<c>> \o SubSeq(s, pos + 1, Len(s))
Delete(s, pos) == SubSeq(s, 1, pos - 1) \o SubSeq(s, pos + 1, Len(s))

(***************************************************************************)
(* What the keys mean.                                                     *)
(***************************************************************************)
Typed(c) == left' = Append(left, c) /\ UNCHANGED right
Rubbed == left' = First(left) /\ UNCHANGED right
Deleted == right' = Tail(right) /\ UNCHANGED left
Leftward == left' = First(left) /\ right' = <<left[Len(left)]>> \o right
Rightward == left' = Append(left, Head(right)) /\ right' = Tail(right)
Start(s) == left' = s /\ right' = <<>>

(***************************************************************************)
(* menuconfig.  The cursor is in cell input_x, on character show_x +       *)
(* input_x; strings are counted from 0 in C.                               *)
(***************************************************************************)
\* From do_resize on, with the string as it is.
DrawInput(s, button) ==
    LET len == Len(s)
        over == len >= box_width
        show_x == IF over THEN len - box_width + 1 ELSE 0
    IN  [open |-> TRUE, instr |-> s, pos |-> len, show_x |-> show_x,
         input_x |-> IF over THEN box_width - 1 ELSE len, button |-> button,
         field |-> [i \in 0..box_width - 1 |->
                      IF show_x + i < len THEN s[show_x + i + 1] ELSE Blank]]

dialog_inputbox(init) ==
    /\ input = ClosedInput
    /\ input' = DrawInput(init, -1)
    /\ Start(init)

\* The text is printed from show_x on: to the end of the field, or of the
\* text and one blank.
reprint(s, show_x) ==
    [i \in DOMAIN input.field |-> IF show_x + i < Len(s) THEN s[show_x + i + 1]
                                  ELSE IF show_x + i = Len(s) THEN Blank
                                  ELSE input.field[i]]
Typing == input.open /\ input.button = -1

input_char(c) ==
    /\ Typing
    /\ Len(input.instr) < MAX_LEN
    /\ LET s == Insert(input.instr, input.pos, c)
           edge == input.input_x = box_width - 1
           show_x == IF edge THEN input.show_x + 1 ELSE input.show_x
       IN  input' = [input EXCEPT !.instr = s, !.pos = @ + 1, !.show_x = show_x,
                                  !.input_x = IF edge THEN @ ELSE @ + 1,
                                  !.field = reprint(s, show_x)]
    /\ Typed(c)

input_backspace ==
    /\ Typing
    /\ input.pos > 0
    /\ LET s == Delete(input.instr, input.pos)
           show_x == IF input.input_x = 0 THEN input.show_x - 1 ELSE input.show_x
       IN  input' = [input EXCEPT !.instr = s, !.pos = @ - 1, !.show_x = show_x,
                                  !.input_x = IF @ = 0 THEN 0 ELSE @ - 1,
                                  !.field = reprint(s, show_x)]
    /\ Rubbed

input_left ==
    /\ Typing
    /\ input.pos > 0
    /\ input' = IF input.input_x > 0
                THEN [input EXCEPT !.pos = @ - 1, !.input_x = @ - 1]
                ELSE [input EXCEPT !.pos = @ - 1, !.show_x = @ - 1,
                                   !.field = reprint(input.instr, input.show_x - 1)]
    /\ Leftward

input_right ==
    /\ Typing
    /\ input.pos < Len(input.instr)
    /\ input' = IF input.input_x < box_width - 1
                THEN [input EXCEPT !.pos = @ + 1, !.input_x = @ + 1]
                ELSE [input EXCEPT !.pos = @ + 1, !.show_x = @ + 1,
                                   !.field = reprint(input.instr, input.show_x + 1)]
    /\ Rightward

\* Tab and the arrows go round: the field (-1), Ok (0), Help (1).
input_buttons(forward) ==
    /\ input.open
    /\ input' = [input EXCEPT !.button = ((@ + 1 + (IF forward THEN 1 ELSE 2)) % 3) - 1]
    /\ UNCHANGED <<left, right>>

\* Enter, Ok, Help, Escape: the caller goes on with dialog_input_result.
input_done ==
    /\ input.open
    /\ input' = ClosedInput
    /\ left' = <<>> /\ right' = <<>>

input_resize ==
    /\ input.open
    /\ input' = DrawInput(input.instr, input.button)
    /\ Start(input.instr)

(***************************************************************************)
(* nconfig.  The field is printed whole, from the character cursor_position*)
(* - cursor_form_win on; after every key the cursor is put back into it.   *)
(***************************************************************************)
Within(cell) ==
    IF cell < 0 THEN 0 ELSE IF cell > prompt_width - 1 THEN prompt_width - 1 ELSE cell
Edit(s, pos, cell) ==
    form' = [form EXCEPT !.result = s, !.cursor_position = pos, !.cursor_form_win = Within(cell)]

form_inputbox(init) ==
    /\ form = ClosedForm
    /\ form' = [open |-> TRUE, result |-> init, cursor_position |-> Len(init),
                cursor_form_win |-> Within(Len(init))]
    /\ Start(init)

form_char(c) ==
    /\ form.open
    /\ Len(form.result) < MAX_LEN
    /\ Edit(Insert(form.result, form.cursor_position, c),
            form.cursor_position + 1, form.cursor_form_win + 1)
    /\ Typed(c)

form_backspace ==
    /\ form.open
    /\ form.cursor_position > 0
    /\ Edit(Delete(form.result, form.cursor_position),
            form.cursor_position - 1, form.cursor_form_win - 1)
    /\ Rubbed

\* Mutant of form_delete: at the end of the string there is one to delete.
form_delete_before ==
    /\ form.open
    /\ form.cursor_position > 0
    /\ form.cursor_position < Len(form.result)
    /\ Edit(Delete(form.result, form.cursor_position),
            form.cursor_position, form.cursor_form_win)
    /\ Deleted

form_delete ==
    /\ form.open
    /\ form.cursor_position < Len(form.result)
    /\ Edit(Delete(form.result, form.cursor_position + 1),
            form.cursor_position, form.cursor_form_win)
    /\ Deleted

form_right ==
    /\ form.open
    /\ form.cursor_position < Len(form.result)
    /\ Edit(form.result, form.cursor_position + 1, form.cursor_form_win + 1)
    /\ Rightward

form_left ==
    /\ form.open
    /\ form.cursor_position > 0
    /\ Edit(form.result, form.cursor_position - 1, form.cursor_form_win - 1)
    /\ Leftward

form_home ==
    /\ form.open
    /\ Edit(form.result, 0, 0)
    /\ left' = <<>> /\ right' = left \o right

form_end ==
    /\ form.open
    /\ Edit(form.result, Len(form.result), Within(Len(form.result)))
    /\ Start(left \o right)

form_done ==
    /\ form.open
    /\ form' = ClosedForm
    /\ left' = <<>> /\ right' = <<>>

-----------------------------------------------------------------------------
inputbox_init == input = ClosedInput /\ form = ClosedForm /\ left = <<>> /\ right = <<>>

input_next ==
    \/ \E c \in Chars : input_char(c)
    \/ input_backspace \/ input_left \/ input_right
    \/ \E forward \in BOOLEAN : input_buttons(forward)
    \/ input_done \/ input_resize

form_next ==
    \/ \E c \in Chars : form_char(c)
    \/ form_backspace \/ form_delete \/ form_right \/ form_left
    \/ form_home \/ form_end \/ form_done
-----------------------------------------------------------------------------
(***************************************************************************)
(* The string is what was typed, and the cursor is in the field, on the    *)
(* character the next key works on.                                        *)
(***************************************************************************)
InField ==
    /\ input.open =>
        /\ input.pos = input.show_x + input.input_x
        /\ input.pos \in 0..Len(input.instr)
        /\ input.show_x >= 0
        /\ input.input_x \in 0..box_width - 1
    /\ form.open =>
        /\ form.cursor_position \in 0..Len(form.result)
        /\ form.cursor_form_win \in 0..prompt_width - 1
        /\ form.cursor_form_win <= form.cursor_position

AsTyped ==
    /\ input.open => input.instr = left \o right /\ input.pos = Len(left)
    /\ form.open => form.result = left \o right /\ form.cursor_position = Len(left)

\* What menuconfig's field shows is the text from show_x on, and nothing else.
FieldTrue ==
    input.open => \A i \in 0..box_width - 1 :
        input.field[i] = IF input.show_x + i < Len(input.instr)
                         THEN input.instr[input.show_x + i + 1] ELSE Blank

Editing == InField /\ AsTyped /\ FieldTrue
=============================================================================
