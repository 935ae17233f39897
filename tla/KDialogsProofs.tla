--------------------------- MODULE KDialogsProofs ---------------------------
(***************************************************************************)
(* Theorems about KDialogs, for lists, strings and texts of any length and *)
(* windows of any size: what is on the screen is what the program computes *)
(* with, and a string is what was typed.                                   *)
(***************************************************************************)
EXTENDS KDialogs, SequenceTheorems, WellFoundedInduction, TLAPS

-----------------------------------------------------------------------------
(* Strings: what the keys mean, and what the two programs make of them, is  *)
(* the same, the cursor being between l and r.                              *)

LEMMA PartIs ==
    ASSUME NEW s \in Seq(Chars), NEW m \in 1..Len(s) + 1, NEW n \in m - 1..Len(s)
    PROVE  /\ SubSeq(s, m, n) \in Seq(Chars)
           /\ Len(SubSeq(s, m, n)) = n - m + 1
           /\ \A i \in 1..n - m + 1 : SubSeq(s, m, n)[i] = s[m + i - 1]
  <1>1. Len(s) \in Nat /\ m \in Int /\ n \in Int /\ \A i \in m..n : s[i] \in Chars
    BY LenProperties, ElementOfSeq
  <1> QED BY <1>1, SubSeqProperties

LEMMA PartsAre ==
    ASSUME NEW l \in Seq(Chars), NEW r \in Seq(Chars)
    PROVE  /\ SubSeq(l \o r, 1, Len(l)) = l
           /\ SubSeq(l \o r, Len(l) + 1, Len(l \o r)) = r
  <1>1. /\ l \o r \in Seq(Chars) /\ Len(l \o r) = Len(l) + Len(r)
        /\ \A i \in 1..Len(l) + Len(r) : (l \o r)[i] = IF i <= Len(l) THEN l[i] ELSE r[i - Len(l)]
    BY ConcatProperties
  <1>2. Len(l) \in Nat /\ Len(r) \in Nat
    BY LenProperties
  <1>3. SubSeq(l \o r, 1, Len(l)) = l
    <2> DEFINE s == SubSeq(l \o r, 1, Len(l))
    <2>1. s \in Seq(Chars) /\ Len(s) = Len(l) /\ \A i \in 1..Len(l) : s[i] = (l \o r)[i]
      <3>1. 1 \in 1..Len(l \o r) + 1 /\ Len(l) \in 1 - 1..Len(l \o r)
        BY <1>1, <1>2
      <3> QED BY <1>1, <1>2, <3>1, PartIs
    <2> HIDE DEF s
    <2>2. \A i \in 1..Len(s) : s[i] = l[i]
      BY <1>1, <1>2, <2>1
    <2>3. s = l
      BY <2>1, <2>2, SeqEqual
    <2> QED BY <2>3 DEF s
  <1>4. SubSeq(l \o r, Len(l) + 1, Len(l \o r)) = r
    <2> DEFINE s == SubSeq(l \o r, Len(l) + 1, Len(l \o r))
    <2>1. s \in Seq(Chars) /\ Len(s) = Len(r) /\ \A i \in 1..Len(r) : s[i] = (l \o r)[Len(l) + i]
      <3>1. /\ Len(l) + 1 \in 1..Len(l \o r) + 1 /\ Len(l \o r) \in Len(l) + 1 - 1..Len(l \o r)
            /\ Len(l \o r) - (Len(l) + 1) + 1 = Len(r)
            /\ \A i \in 1..Len(r) : Len(l) + 1 + i - 1 = Len(l) + i
        BY <1>1, <1>2
      <3> QED BY <1>1, <1>2, <3>1, PartIs
    <2> HIDE DEF s
    <2>2. \A i \in 1..Len(s) : s[i] = r[i]
      BY <1>1, <1>2, <2>1
    <2>3. s = r
      BY <2>1, <2>2, SeqEqual
    <2> QED BY <2>3 DEF s
  <1> QED BY <1>3, <1>4

LEMMA OneIs ==
    ASSUME NEW c \in Chars
    PROVE  <<c>> \in Seq(Chars) /\ Len(<<c>>) = 1
  OBVIOUS

LEMMA Regroup ==
    ASSUME NEW a \in Seq(Chars), NEW b \in Seq(Chars), NEW c \in Seq(Chars)
    PROVE  (a \o b) \o c = a \o (b \o c) /\ a \o b \in Seq(Chars) /\ b \o c \in Seq(Chars)
  BY ConcatAssociative, ConcatProperties

\* The last character, the first one, and the rest.
LEMMA EndsAre ==
    ASSUME NEW s \in Seq(Chars), Len(s) > 0
    PROVE  /\ s[Len(s)] \in Chars /\ First(s) \in Seq(Chars) /\ Len(First(s)) = Len(s) - 1
           /\ First(s) \o <<s[Len(s)]>> = s
           /\ Head(s) \in Chars /\ Tail(s) \in Seq(Chars) /\ Len(Tail(s)) = Len(s) - 1
           /\ <<Head(s)>> \o Tail(s) = s
  <1>1. Len(s) \in Nat /\ s # <<>> /\ 1 \in 1..Len(s) /\ Len(s) \in 1..Len(s)
    BY LenProperties, EmptySeq
  <1>2. s[Len(s)] \in Chars
    BY <1>1, ElementOfSeq
  <1>3. First(s) \in Seq(Chars) /\ Len(First(s)) = Len(s) - 1
    <2>1. 1 \in 1..Len(s) + 1 /\ Len(s) - 1 \in 1 - 1..Len(s) /\ Len(s) - 1 - 1 + 1 = Len(s) - 1
      BY <1>1
    <2> QED BY <2>1, PartIs DEF First
  <1>4. First(s) \o <<s[Len(s)]>> = s
    <2>1. s = SubSeq(s, 1, Len(s))
      BY SubSeqFull
    <2>2. SubSeq(s, 1, Len(s)) = SubSeq(s, 1, Len(s) - 1) \o <<s[Len(s)]>>
      BY <1>1, SubSeqRecursiveSecond
    <2> QED BY <2>1, <2>2 DEF First
  <1>5. Head(s) \in Chars /\ Tail(s) \in Seq(Chars) /\ Len(Tail(s)) = Len(s) - 1
    BY <1>1, HeadTailProperties
  <1>6. <<Head(s)>> \o Tail(s) = s
    <2>1. s = SubSeq(s, 1, Len(s))
      BY SubSeqFull
    <2>2. SubSeq(s, 1, Len(s)) = <<s[1]>> \o SubSeq(s, 2, Len(s))
      <3>1. SubSeq(s, 1, Len(s)) = <<s[1]>> \o SubSeq(s, 1 + 1, Len(s))
        BY <1>1, SubSeqRecursiveFirst
      <3> QED BY <3>1
    <2>3. Tail(s) = SubSeq(s, 2, Len(s))
      BY <1>1, TailIsSubSeq
    <2>4. Head(s) = s[1]
      BY <1>1
    <2> QED BY <2>1, <2>2, <2>3, <2>4
  <1> QED BY <1>2, <1>3, <1>4, <1>5, <1>6

LEMMA WholeIs ==
    ASSUME NEW l \in Seq(Chars), NEW r \in Seq(Chars)
    PROVE  /\ <<>> \o (l \o r) = l \o r /\ (l \o r) \o <<>> = l \o r
           /\ l \o r \in Seq(Chars)
           /\ Len(l \o r) = Len(l) + Len(r) /\ Len(l) \in Nat /\ Len(r) \in Nat
           /\ Len(<<>>) = 0 /\ <<>> \in Seq(Chars)
  BY ConcatProperties, ConcatEmptySeq, LenProperties, EmptySeq

LEMMA InsertIs ==
    ASSUME NEW l \in Seq(Chars), NEW r \in Seq(Chars), NEW c \in Chars
    PROVE  /\ Insert(l \o r, Len(l), c) = Append(l, c) \o r
           /\ Append(l, c) \in Seq(Chars) /\ Len(Append(l, c)) = Len(l) + 1
  <1>1. Append(l, c) = l \o <<c>> /\ Append(l, c) \in Seq(Chars) /\ Len(Append(l, c)) = Len(l) + 1
    BY AppendIsConcat, AppendProperties
  <1> QED BY <1>1, PartsAre DEF Insert

LEMMA LeftwardIs ==
    ASSUME NEW l \in Seq(Chars), NEW r \in Seq(Chars), Len(l) > 0
    PROVE  /\ First(l) \o (<<l[Len(l)]>> \o r) = l \o r
           /\ <<l[Len(l)]>> \o r \in Seq(Chars)
  <1>1. First(l) \in Seq(Chars) /\ <<l[Len(l)]>> \in Seq(Chars) /\ First(l) \o <<l[Len(l)]>> = l
    BY EndsAre, OneIs
  <1> DEFINE a == First(l)
             b == <<l[Len(l)]>>
  <1> HIDE DEF a, b
  <1>2. (a \o b) \o r = a \o (b \o r) /\ b \o r \in Seq(Chars)
    BY <1>1, Regroup DEF a, b
  <1>3. a \o b = l
    BY <1>1 DEF a, b
  <1> QED BY <1>2, <1>3 DEF a, b

LEMMA RightwardIs ==
    ASSUME NEW l \in Seq(Chars), NEW r \in Seq(Chars), Len(r) > 0
    PROVE  /\ Append(l, Head(r)) \o Tail(r) = l \o r
           /\ Append(l, Head(r)) \in Seq(Chars) /\ Len(Append(l, Head(r))) = Len(l) + 1
  <1>1. Head(r) \in Chars /\ Tail(r) \in Seq(Chars) /\ <<Head(r)>> \o Tail(r) = r
    BY EndsAre
  <1>2. /\ Append(l, Head(r)) = l \o <<Head(r)>> /\ Append(l, Head(r)) \in Seq(Chars)
        /\ Len(Append(l, Head(r))) = Len(l) + 1
    BY <1>1, AppendIsConcat, AppendProperties
  <1> QED BY <1>1, <1>2, OneIs, ConcatAssociative

LEMMA DeleteIs ==
    ASSUME NEW l \in Seq(Chars), NEW r \in Seq(Chars), Len(l) > 0
    PROVE  Delete(l \o r, Len(l)) = First(l) \o r
  <1> DEFINE a == First(l)
             b == <<l[Len(l)]>> \o r
  <1>1. a \in Seq(Chars) /\ Len(a) = Len(l) - 1 /\ b \in Seq(Chars) /\ a \o b = l \o r
    BY EndsAre, LeftwardIs
  <1> HIDE DEF a, b
  <1>2. SubSeq(a \o b, 1, Len(a)) = a
    BY <1>1, PartsAre
  <1>3. SubSeq(l \o r, Len(l) + 1, Len(l \o r)) = r
    BY PartsAre
  <1>4. Delete(l \o r, Len(l)) = a \o r
    BY <1>1, <1>2, <1>3 DEF Delete
  <1> QED BY <1>4 DEF a

LEMMA DeleteNextIs ==
    ASSUME NEW l \in Seq(Chars), NEW r \in Seq(Chars), Len(r) > 0
    PROVE  Delete(l \o r, Len(l) + 1) = l \o Tail(r)
  <1> DEFINE a == Append(l, Head(r))
             b == Tail(r)
  <1>1. a \in Seq(Chars) /\ Len(a) = Len(l) + 1 /\ b \in Seq(Chars) /\ a \o b = l \o r
    BY EndsAre, RightwardIs
  <1> HIDE DEF a, b
  <1>2. SubSeq(a \o b, Len(a) + 1, Len(a \o b)) = b
    BY <1>1, PartsAre
  <1>3. SubSeq(l \o r, 1, Len(l)) = l /\ Len(l) \in Nat
    BY PartsAre, LenProperties
  <1> DEFINE n == Len(l) + 1
  <1>4. n - 1 = Len(l) /\ n = Len(a)
    BY <1>1, <1>3
  <1> HIDE DEF n
  <1>5. SubSeq(l \o r, 1, n - 1) = l /\ SubSeq(l \o r, n + 1, Len(l \o r)) = b
    BY <1>1, <1>2, <1>3, <1>4
  <1>6. Delete(l \o r, n) = l \o b
    BY <1>5 DEF Delete
  <1> QED BY <1>6 DEF b, n

-----------------------------------------------------------------------------
(* Typing a value.                                                           *)

Cells == 0..box_width - 1
OpenInput == [open : {TRUE}, instr : Seq(Chars), pos : Nat, show_x : Nat, input_x : Cells,
              button : {-1, 0, 1}, field : [Cells -> Chars \cup {Blank}]]
OpenForm == [open : {TRUE}, result : Seq(Chars), cursor_position : Nat,
             cursor_form_win : 0..prompt_width - 1]

\* Editing, and that no two dialogs that edit are open at a time.
EditInv ==
    /\ left \in Seq(Chars) /\ right \in Seq(Chars)
    /\ input # ClosedInput => input \in OpenInput /\ form = ClosedForm
    /\ form # ClosedForm => form \in OpenForm
    /\ Editing

\* What a field shows of s from show_x on.
Displays(field, s, show_x) ==
    \A i \in Cells : field[i] = IF show_x + i < Len(s) THEN s[show_x + i + 1] ELSE Blank

\* It is enough to print the text and one blank behind it, where the text
\* gets no more than one character shorter.
LEMMA ReprintTrue ==
    ASSUME input \in OpenInput, FieldTrue, NEW s \in Seq(Chars), NEW show_x \in Nat,
           Len(input.instr) - input.show_x <= Len(s) - show_x + 1
    PROVE  /\ reprint(s, show_x) \in [Cells -> Chars \cup {Blank}]
           /\ Displays(reprint(s, show_x), s, show_x)
  <1> DEFINE f == reprint(s, show_x)
  <1>1. /\ input.open /\ input.instr \in Seq(Chars) /\ input.show_x \in Nat
        /\ input.field \in [Cells -> Chars \cup {Blank}] /\ Cells \subseteq Nat
        /\ Len(s) \in Nat /\ Len(input.instr) \in Nat
    <2>1. /\ input.open /\ input.instr \in Seq(Chars) /\ input.show_x \in Nat
          /\ input.field \in [Cells -> Chars \cup {Blank}]
      BY DEF OpenInput
    <2>2. Cells \subseteq Nat
      BY KInputboxAssumption DEF Cells
    <2> QED BY <2>1, <2>2, LenProperties
  <1>2. DOMAIN input.field = Cells
    BY <1>1
  <1>3. /\ f = [i \in Cells |-> f[i]]
        /\ \A i \in Cells : f[i] = IF show_x + i < Len(s) THEN s[show_x + i + 1]
                                   ELSE IF show_x + i = Len(s) THEN Blank
                                   ELSE input.field[i]
    BY <1>2 DEF reprint
  <1> HIDE DEF f
  <1>4. \A i \in Cells : f[i] = IF show_x + i < Len(s) THEN s[show_x + i + 1] ELSE Blank
    <2> TAKE i \in Cells
    <2>1. i \in Nat
      BY <1>1
    <2>2. CASE show_x + i <= Len(s)
      BY <1>1, <1>3, <2>1, <2>2
    <2>3. CASE show_x + i > Len(s)
      <3>1. ~(input.show_x + i < Len(input.instr)) /\ ~(show_x + i < Len(s)) /\ show_x + i # Len(s)
        BY <1>1, <2>1, <2>3
      <3>2. input.field[i] = Blank
        BY <1>1, <3>1 DEF FieldTrue, Cells
      <3> QED BY <1>3, <3>1, <3>2
    <2> QED BY <1>1, <2>1, <2>2, <2>3
  <1>5. \A i \in Cells : f[i] \in Chars \cup {Blank}
    <2> TAKE i \in Cells
    <2>1. CASE show_x + i < Len(s)
      <3>1. show_x + i + 1 \in 1..Len(s)
        BY <1>1, <2>1
      <3> QED BY <1>4, <2>1, <3>1, ElementOfSeq
    <2> QED BY <1>4, <2>1
  <1> QED BY <1>3, <1>4, <1>5 DEF f, Displays

\* The dialog as it is drawn when it opens, and when the terminal changes.
LEMMA DrawInputTrue ==
    ASSUME NEW s \in Seq(Chars), NEW button \in {-1, 0, 1}
    PROVE  LET w == DrawInput(s, button)
           IN  /\ w \in OpenInput /\ Displays(w.field, s, w.show_x)
               /\ w.instr = s /\ w.pos = Len(s) /\ w.pos = w.show_x + w.input_x
  <1> DEFINE w == DrawInput(s, button)
  <1>1. Len(s) \in Nat /\ box_width \in Nat \ {0}
    BY KInputboxAssumption, LenProperties
  <1>2. /\ w.show_x \in Nat /\ w.input_x \in Cells /\ Len(s) = w.show_x + w.input_x
    BY <1>1 DEF DrawInput, Cells
  <1>3. w.show_x = IF Len(s) >= box_width THEN Len(s) - box_width + 1 ELSE 0
    BY DEF DrawInput
  <1>4. w.field = [i \in Cells |-> IF w.show_x + i < Len(s) THEN s[w.show_x + i + 1] ELSE Blank]
    BY <1>3 DEF DrawInput, Cells
  <1>5. w = [open |-> TRUE, instr |-> s, pos |-> Len(s), show_x |-> w.show_x,
             input_x |-> w.input_x, button |-> button, field |-> w.field]
    BY DEF DrawInput
  <1> HIDE DEF w
  <1>6. w.field \in [Cells -> Chars \cup {Blank}]
    <2>1. \A i \in Cells : w.show_x + i < Len(s) => s[w.show_x + i + 1] \in Chars
      <3> TAKE i \in Cells
      <3> HAVE w.show_x + i < Len(s)
      <3>1. w.show_x + i + 1 \in 1..Len(s)
        BY <1>1, <1>2 DEF Cells
      <3> QED BY <3>1, ElementOfSeq
    <2> QED BY <1>4, <2>1
  <1>7. Displays(w.field, s, w.show_x)
    BY <1>4 DEF Displays
  <1>8. w \in OpenInput /\ w.instr = s /\ w.pos = Len(s)
    <2>1. \A x \in Nat, y \in Cells, f \in [Cells -> Chars \cup {Blank}] :
              [open |-> TRUE, instr |-> s, pos |-> Len(s), show_x |-> x,
               input_x |-> y, button |-> button, field |-> f] \in OpenInput
      BY <1>1 DEF OpenInput
    <2> QED BY <1>2, <1>5, <1>6, <2>1
  <1>9. /\ w \in OpenInput /\ Displays(w.field, s, w.show_x)
        /\ w.instr = s /\ w.pos = Len(s) /\ w.pos = w.show_x + w.input_x
    BY <1>2, <1>7, <1>8
  <1> QED BY <1>9 DEF w


\* What has to be shown of a key of menuconfig, and of one of nconfig.
InputTrue(w, l, r) ==
    /\ l \in Seq(Chars) /\ r \in Seq(Chars)
    /\ w \in OpenInput
    /\ w.instr = l \o r /\ w.pos = Len(l) /\ w.pos = w.show_x + w.input_x
    /\ Displays(w.field, w.instr, w.show_x)
FormTrue(w, l, r) ==
    /\ l \in Seq(Chars) /\ r \in Seq(Chars)
    /\ w \in OpenForm
    /\ w.result = l \o r /\ w.cursor_position = Len(l)
    /\ w.cursor_form_win <= w.cursor_position

LEMMA ClosedIsClosed == ~ClosedInput.open /\ ~ClosedForm.open
  BY DEF ClosedInput, ClosedForm

LEMMA InputWell == InputTrue(input, left, right) /\ form = ClosedForm => EditInv
  <1> SUFFICES ASSUME InputTrue(input, left, right), form = ClosedForm
               PROVE  EditInv
    OBVIOUS
  <1>1. /\ left \in Seq(Chars) /\ right \in Seq(Chars) /\ input \in OpenInput
        /\ input.instr = left \o right /\ input.pos = Len(left)
        /\ input.pos = input.show_x + input.input_x
        /\ Displays(input.field, input.instr, input.show_x)
    BY DEF InputTrue
  <1>2. Len(input.instr) = Len(left) + Len(right) /\ Len(left) \in Nat /\ Len(right) \in Nat
    <2>1. Len(left \o right) = Len(left) + Len(right) /\ Len(left) \in Nat /\ Len(right) \in Nat
      BY <1>1, WholeIs
    <2> QED BY <1>1, <2>1
  <1>3. input.open /\ input.show_x \in Nat /\ input.input_x \in Cells
    BY <1>1 DEF OpenInput
  <1>4. InField
    BY <1>1, <1>2, <1>3, ClosedIsClosed DEF InField, Cells
  <1>5. AsTyped /\ FieldTrue
    BY <1>1, ClosedIsClosed DEF AsTyped, FieldTrue, Displays, Cells
  <1> QED BY <1>1, <1>4, <1>5 DEF EditInv, Editing

LEMMA FormWell == FormTrue(form, left, right) /\ input = ClosedInput => EditInv
  <1> SUFFICES ASSUME FormTrue(form, left, right), input = ClosedInput
               PROVE  EditInv
    OBVIOUS
  <1>1. /\ left \in Seq(Chars) /\ right \in Seq(Chars) /\ form \in OpenForm
        /\ form.result = left \o right /\ form.cursor_position = Len(left)
        /\ form.cursor_form_win <= form.cursor_position
    BY DEF FormTrue
  <1>2. Len(form.result) = Len(left) + Len(right) /\ Len(left) \in Nat /\ Len(right) \in Nat
    BY <1>1, WholeIs
  <1>3. form.open /\ form.cursor_form_win \in 0..prompt_width - 1
    BY <1>1 DEF OpenForm
  <1>4. InField
    BY <1>1, <1>2, <1>3, ClosedIsClosed DEF InField
  <1>5. AsTyped /\ FieldTrue
    BY <1>1, ClosedIsClosed DEF AsTyped, FieldTrue
  <1> QED BY <1>1, <1>4, <1>5 DEF EditInv, Editing

LEMMA ClosedWell ==
    /\ input = ClosedInput /\ form = ClosedForm
    /\ left \in Seq(Chars) /\ right \in Seq(Chars)
    => EditInv
  BY ClosedIsClosed DEF EditInv, Editing, InField, AsTyped, FieldTrue

\* What is open satisfies it.
LEMMA InputIs ==
    ASSUME EditInv, input # ClosedInput
    PROVE  InputTrue(input, left, right) /\ form = ClosedForm /\ FieldTrue /\ input.open
  <1>1. input \in OpenInput /\ form = ClosedForm /\ left \in Seq(Chars) /\ right \in Seq(Chars)
    BY DEF EditInv
  <1>2. input.open
    BY <1>1 DEF OpenInput
  <1> QED BY <1>1, <1>2 DEF EditInv, Editing, InField, AsTyped, FieldTrue, InputTrue, Displays, Cells

LEMMA FormIs ==
    ASSUME EditInv, form # ClosedForm
    PROVE  FormTrue(form, left, right) /\ input = ClosedInput /\ form.open
  <1>1. form \in OpenForm /\ input = ClosedInput /\ left \in Seq(Chars) /\ right \in Seq(Chars)
    BY DEF EditInv
  <1>2. form.open
    BY <1>1 DEF OpenForm
  <1> QED BY <1>1, <1>2 DEF EditInv, Editing, InField, AsTyped, FormTrue


\* A key that leaves the text s, and show_x and the cell as the code sets them.
LEMMA KeyTrue ==
    ASSUME EditInv, input # ClosedInput,
           NEW l \in Seq(Chars), NEW r \in Seq(Chars), NEW x \in Nat, NEW y \in Cells,
           Len(l) = x + y, Len(input.instr) - input.show_x <= Len(l \o r) - x + 1
    PROVE  InputTrue([input EXCEPT !.instr = l \o r, !.pos = Len(l), !.show_x = x, !.input_x = y,
                                   !.field = reprint(l \o r, x)], l, r)
  <1> DEFINE s == l \o r
             f == reprint(s, x)
             w == [input EXCEPT !.instr = s, !.pos = Len(l), !.show_x = x, !.input_x = y,
                                !.field = f]
  <1>1. input \in OpenInput /\ FieldTrue
    BY InputIs DEF InputTrue
  <1>2. s \in Seq(Chars) /\ Len(l) \in Nat
    BY WholeIs
  <1>3. f \in [Cells -> Chars \cup {Blank}] /\ Displays(f, s, x)
    BY <1>1, <1>2, ReprintTrue
  <1> HIDE DEF s, f
  <1>4. w \in OpenInput
    BY <1>1, <1>2, <1>3 DEF OpenInput
  <1>5. w.instr = s /\ w.pos = Len(l) /\ w.show_x = x /\ w.input_x = y /\ w.field = f
    BY <1>1 DEF OpenInput
  <1> HIDE DEF w
  <1>6. InputTrue(w, l, r)
    BY <1>2, <1>3, <1>4, <1>5 DEF InputTrue, s
  <1> QED BY <1>6 DEF w, s, f

\* A key that moves the cursor to another cell.
LEMMA CellTrue ==
    ASSUME EditInv, input # ClosedInput,
           NEW l \in Seq(Chars), NEW r \in Seq(Chars), NEW y \in Cells,
           l \o r = input.instr, Len(l) = input.show_x + y
    PROVE  InputTrue([input EXCEPT !.pos = Len(l), !.input_x = y], l, r)
  <1> DEFINE w == [input EXCEPT !.pos = Len(l), !.input_x = y]
  <1>1. input \in OpenInput /\ Displays(input.field, input.instr, input.show_x)
    BY InputIs DEF InputTrue
  <1>2. Len(l) \in Nat
    BY LenProperties
  <1>3. w \in OpenInput
    BY <1>1, <1>2 DEF OpenInput
  <1>4. /\ w.pos = Len(l) /\ w.input_x = y /\ w.show_x = input.show_x
        /\ w.instr = input.instr /\ w.field = input.field
    BY <1>1 DEF OpenInput
  <1> HIDE DEF w
  <1>5. InputTrue(w, l, r)
    BY <1>1, <1>3, <1>4 DEF InputTrue
  <1> QED BY <1>5 DEF w

\* A key that moves the text by one character in its field.
LEMMA ScrollTrue ==
    ASSUME EditInv, input # ClosedInput,
           NEW l \in Seq(Chars), NEW r \in Seq(Chars), NEW x \in Nat,
           l \o r = input.instr, Len(l) = x + input.input_x,
           x \in {input.show_x - 1, input.show_x + 1}
    PROVE  InputTrue([input EXCEPT !.pos = Len(l), !.show_x = x,
                                   !.field = reprint(input.instr, x)], l, r)
  <1>1. input \in OpenInput
    BY InputIs DEF InputTrue
  <1>2. Len(input.instr) - input.show_x <= Len(l \o r) - x + 1
    <2> DEFINE n == Len(input.instr)
    <2>1. n \in Nat /\ n = Len(l \o r) /\ input.show_x \in Nat
      BY <1>1, LenProperties DEF OpenInput
    <2> HIDE DEF n
    <2>2. n - input.show_x <= n - x + 1
      BY <2>1
    <2> QED BY <2>1, <2>2 DEF n
  <1>3. input.input_x \in Cells
    BY <1>1 DEF OpenInput
  <1>4. InputTrue([input EXCEPT !.instr = l \o r, !.pos = Len(l), !.show_x = x,
                                !.input_x = input.input_x, !.field = reprint(l \o r, x)], l, r)
    BY <1>2, <1>3, KeyTrue
  <1>5. [input EXCEPT !.instr = l \o r, !.pos = Len(l), !.show_x = x,
                      !.input_x = input.input_x, !.field = reprint(l \o r, x)]
        = [input EXCEPT !.pos = Len(l), !.show_x = x, !.field = reprint(input.instr, x)]
    BY <1>1 DEF OpenInput
  <1> QED BY <1>4, <1>5

LEMMA InputStepTrue ==
    ASSUME EditInv, input_next, UNCHANGED form
    PROVE  EditInv'
  <1> USE KInputboxAssumption
  <1>1. input # ClosedInput
    BY ClosedIsClosed DEF input_next, input_char, input_backspace, input_left, input_right,
          input_buttons, input_done, input_resize, Typing
  <1>2. InputTrue(input, left, right) /\ form = ClosedForm /\ FieldTrue
    BY <1>1, InputIs
  <1>3. /\ left \in Seq(Chars) /\ right \in Seq(Chars) /\ input \in OpenInput
        /\ input.instr = left \o right /\ input.pos = Len(left)
        /\ input.pos = input.show_x + input.input_x
    BY <1>2 DEF InputTrue
  <1>4. /\ input.show_x \in Nat /\ input.input_x \in 0..box_width - 1
        /\ Len(input.instr) = Len(left) + Len(right) /\ Len(left) \in Nat /\ Len(right) \in Nat
        /\ Len(left) = input.show_x + input.input_x
    <2>1. Len(left \o right) = Len(left) + Len(right) /\ Len(left) \in Nat /\ Len(right) \in Nat
      BY <1>3, WholeIs
    <2> QED BY <1>3, <2>1 DEF OpenInput, Cells
  <1>5. ASSUME NEW c \in Chars, input_char(c)
        PROVE  InputTrue(input', left', right')
    <2> DEFINE l == Append(left, c)
               edge == input.input_x = box_width - 1
               x == IF edge THEN input.show_x + 1 ELSE input.show_x
               y == IF edge THEN input.input_x ELSE input.input_x + 1
    <2>1. l \in Seq(Chars) /\ Len(l) = Len(left) + 1 /\ Insert(input.instr, input.pos, c) = l \o right
      BY <1>3, InsertIs
    <2>2. Len(l \o right) = Len(l) + Len(right)
      BY <1>3, <2>1, WholeIs
    <2>3. /\ x \in Nat /\ y \in Cells /\ Len(l) = x + y
          /\ Len(input.instr) - input.show_x <= Len(l \o right) - x + 1
      <3>1. Len(l \o right) = Len(left) + 1 + Len(right) /\ Len(l) = Len(left) + 1
        BY <2>1, <2>2
      <3> DEFINE k == Len(l)
                 m == Len(l \o right)
                 n == Len(input.instr)
                 h == Len(left)
                 t == Len(right)
      <3>2. /\ input.show_x \in Nat /\ input.input_x \in 0..box_width - 1 /\ n = h + t
            /\ h \in Nat /\ t \in Nat /\ h = input.show_x + input.input_x
            /\ m = h + 1 + t /\ k = h + 1
        BY <1>4, <3>1
      <3> HIDE DEF k, m, n, h, t
      <3>3. x \in Nat /\ y \in Cells /\ k = x + y /\ n - input.show_x <= m - x + 1
        BY <3>2 DEF Cells
      <3> QED BY <3>3 DEF k, m, n
    <2>4. input' = [input EXCEPT !.instr = l \o right, !.pos = Len(l), !.show_x = x,
                                 !.input_x = y, !.field = reprint(l \o right, x)]
      <3>1. input' = [input EXCEPT !.instr = Insert(input.instr, input.pos, c),
                                   !.pos = input.pos + 1, !.show_x = x, !.input_x = y,
                                   !.field = reprint(Insert(input.instr, input.pos, c), x)]
        BY <1>5 DEF input_char
      <3>2. input.pos + 1 = Len(l)
        BY <1>3, <2>1
      <3> HIDE DEF l, x, y
      <3> QED BY <2>1, <3>1, <3>2
    <2>5. left' = l /\ right' = right
      BY <1>5 DEF input_char, Typed
    <2> HIDE DEF l, x, y
    <2>6. InputTrue([input EXCEPT !.instr = l \o right, !.pos = Len(l), !.show_x = x,
                                  !.input_x = y, !.field = reprint(l \o right, x)], l, right)
      BY <1>1, <1>3, <2>1, <2>3, KeyTrue
    <2> QED BY <2>4, <2>5, <2>6
  <1>6. ASSUME input_backspace
        PROVE  InputTrue(input', left', right')
    <2> DEFINE l == First(left)
               x == IF input.input_x = 0 THEN input.show_x - 1 ELSE input.show_x
               y == IF input.input_x = 0 THEN 0 ELSE input.input_x - 1
    <2>1. Len(left) > 0
      BY <1>3, <1>6 DEF input_backspace
    <2>2. l \in Seq(Chars) /\ Len(l) = Len(left) - 1 /\ Delete(input.instr, input.pos) = l \o right
      <3>1. l \in Seq(Chars) /\ Len(l) = Len(left) - 1
        BY <1>3, <2>1, EndsAre
      <3>2. Delete(left \o right, Len(left)) = l \o right
        BY <1>3, <2>1, DeleteIs
      <3> QED BY <1>3, <3>1, <3>2
    <2>3. Len(l \o right) = Len(l) + Len(right)
      BY <1>3, <2>2, WholeIs
    <2>4. /\ x \in Nat /\ y \in Cells /\ Len(l) = x + y
          /\ Len(input.instr) - input.show_x <= Len(l \o right) - x + 1
      <3>1. Len(l \o right) = Len(left) - 1 + Len(right) /\ Len(l) = Len(left) - 1
        BY <2>2, <2>3
      <3> DEFINE k == Len(l)
                 m == Len(l \o right)
                 n == Len(input.instr)
                 h == Len(left)
                 t == Len(right)
      <3>2. /\ input.show_x \in Nat /\ input.input_x \in 0..box_width - 1 /\ n = h + t
            /\ h \in Nat /\ t \in Nat /\ h = input.show_x + input.input_x
            /\ m = h - 1 + t /\ k = h - 1 /\ h > 0
        BY <1>4, <2>1, <3>1
      <3> HIDE DEF k, m, n, h, t
      <3>3. x \in Nat /\ y \in Cells /\ k = x + y /\ n - input.show_x <= m - x + 1
        BY <3>2 DEF Cells
      <3> QED BY <3>3 DEF k, m, n
    <2>5. input' = [input EXCEPT !.instr = l \o right, !.pos = Len(l), !.show_x = x,
                                 !.input_x = y, !.field = reprint(l \o right, x)]
      <3>1. input' = [input EXCEPT !.instr = Delete(input.instr, input.pos),
                                   !.pos = input.pos - 1, !.show_x = x, !.input_x = y,
                                   !.field = reprint(Delete(input.instr, input.pos), x)]
        BY <1>6 DEF input_backspace
      <3>2. input.pos - 1 = Len(l)
        BY <1>3, <2>2
      <3> HIDE DEF l, x, y
      <3> QED BY <2>2, <3>1, <3>2
    <2>6. left' = l /\ right' = right
      BY <1>6 DEF input_backspace, Rubbed
    <2> HIDE DEF l, x, y
    <2>7. InputTrue([input EXCEPT !.instr = l \o right, !.pos = Len(l), !.show_x = x,
                                  !.input_x = y, !.field = reprint(l \o right, x)], l, right)
      BY <1>1, <1>3, <2>2, <2>4, KeyTrue
    <2> QED BY <2>5, <2>6, <2>7
  <1>7. ASSUME input_left
        PROVE  InputTrue(input', left', right')
    <2> DEFINE l == First(left)
               r == <<left[Len(left)]>> \o right
               k == Len(l)
               h == Len(left)
    <2>1. Len(left) > 0
      BY <1>3, <1>7 DEF input_left
    <2>2. /\ l \in Seq(Chars) /\ Len(l) = Len(left) - 1
          /\ r \in Seq(Chars) /\ l \o r = input.instr
      BY <1>3, <2>1, EndsAre, LeftwardIs
    <2>3. /\ input.show_x \in Nat /\ input.input_x \in 0..box_width - 1
          /\ h \in Nat /\ h = input.show_x + input.input_x /\ k = h - 1 /\ h > 0
      BY <1>4, <2>1, <2>2
    <2>4. left' = l /\ right' = r
      BY <1>7 DEF input_left, Leftward
    <2> HIDE DEF l, r, k, h
    <2>5. CASE input.input_x > 0
      <3> DEFINE y == input.input_x - 1
      <3>1. input' = [input EXCEPT !.pos = input.pos - 1, !.input_x = y]
        BY <1>7, <2>5 DEF input_left
      <3>2. y \in Cells /\ k = input.show_x + y /\ k = h - 1
        BY <2>3, <2>5 DEF Cells
      <3> HIDE DEF y
      <3>3. input.pos - 1 = Len(l) /\ Len(l) = input.show_x + y
        BY <1>3, <3>2 DEF h, k
      <3>4. InputTrue([input EXCEPT !.pos = Len(l), !.input_x = y], l, r)
        BY <1>1, <2>2, <3>2, <3>3, CellTrue
      <3> QED BY <2>4, <3>1, <3>3, <3>4
    <2>6. CASE ~(input.input_x > 0)
      <3> DEFINE x == input.show_x - 1
      <3>1. input' = [input EXCEPT !.pos = input.pos - 1, !.show_x = x,
                                   !.field = reprint(input.instr, x)]
        BY <1>7, <2>6 DEF input_left
      <3>2. /\ x \in Nat /\ k = x + input.input_x /\ k = h - 1
            /\ x \in {input.show_x - 1, input.show_x + 1}
        BY <2>3, <2>6
      <3> HIDE DEF x
      <3>3. input.pos - 1 = Len(l) /\ Len(l) = x + input.input_x
        BY <1>3, <3>2 DEF h, k
      <3>4. InputTrue([input EXCEPT !.pos = Len(l), !.show_x = x,
                                    !.field = reprint(input.instr, x)], l, r)
        BY <1>1, <2>2, <3>2, <3>3, ScrollTrue
      <3> QED BY <2>4, <3>1, <3>3, <3>4
    <2> QED BY <2>5, <2>6
  <1>8. ASSUME input_right
        PROVE  InputTrue(input', left', right')
    <2> DEFINE l == Append(left, Head(right))
               r == Tail(right)
               k == Len(l)
               h == Len(left)
    <2>1. Len(right) > 0
      BY <1>3, <1>4, <1>8 DEF input_right
    <2>2. /\ l \in Seq(Chars) /\ Len(l) = Len(left) + 1
          /\ r \in Seq(Chars) /\ l \o r = input.instr
      BY <1>3, <2>1, EndsAre, RightwardIs
    <2>3. /\ input.show_x \in Nat /\ input.input_x \in 0..box_width - 1
          /\ h \in Nat /\ h = input.show_x + input.input_x /\ k = h + 1
      BY <1>4, <2>1, <2>2
    <2>4. left' = l /\ right' = r
      BY <1>8 DEF input_right, Rightward
    <2> HIDE DEF l, r, k, h
    <2>5. CASE input.input_x < box_width - 1
      <3> DEFINE y == input.input_x + 1
      <3>1. input' = [input EXCEPT !.pos = input.pos + 1, !.input_x = y]
        BY <1>8, <2>5 DEF input_right
      <3>2. y \in Cells /\ k = input.show_x + y /\ k = h + 1
        BY <2>3, <2>5 DEF Cells
      <3> HIDE DEF y
      <3>3. input.pos + 1 = Len(l) /\ Len(l) = input.show_x + y
        BY <1>3, <3>2 DEF h, k
      <3>4. InputTrue([input EXCEPT !.pos = Len(l), !.input_x = y], l, r)
        BY <1>1, <2>2, <3>2, <3>3, CellTrue
      <3> QED BY <2>4, <3>1, <3>3, <3>4
    <2>6. CASE ~(input.input_x < box_width - 1)
      <3> DEFINE x == input.show_x + 1
      <3>1. input' = [input EXCEPT !.pos = input.pos + 1, !.show_x = x,
                                   !.field = reprint(input.instr, x)]
        BY <1>8, <2>6 DEF input_right
      <3>2. /\ x \in Nat /\ k = x + input.input_x /\ k = h + 1
            /\ x \in {input.show_x - 1, input.show_x + 1}
        BY <2>3, <2>6
      <3> HIDE DEF x
      <3>3. input.pos + 1 = Len(l) /\ Len(l) = x + input.input_x
        BY <1>3, <3>2 DEF h, k
      <3>4. InputTrue([input EXCEPT !.pos = Len(l), !.show_x = x,
                                    !.field = reprint(input.instr, x)], l, r)
        BY <1>1, <2>2, <3>2, <3>3, ScrollTrue
      <3> QED BY <2>4, <3>1, <3>3, <3>4
    <2> QED BY <2>5, <2>6
  <1>9. ASSUME NEW forward \in BOOLEAN, input_buttons(forward)
        PROVE  InputTrue(input', left', right')
    <2> DEFINE b == ((input.button + 1 + (IF forward THEN 1 ELSE 2)) % 3) - 1
    <2>1. input' = [input EXCEPT !.button = b] /\ UNCHANGED <<left, right>>
      BY <1>9 DEF input_buttons
    <2>2. b \in {-1, 0, 1}
      <3>1. input.button \in {-1, 0, 1}
        BY <1>3 DEF OpenInput
      <3> QED BY <3>1
    <2> HIDE DEF b
    <2>3. /\ input' \in OpenInput /\ input'.instr = input.instr /\ input'.pos = input.pos
          /\ input'.show_x = input.show_x /\ input'.input_x = input.input_x
          /\ input'.field = input.field
      BY <1>3, <2>1, <2>2 DEF OpenInput
    <2> QED BY <1>2, <2>1, <2>3 DEF InputTrue
  <1>10. ASSUME input_resize
         PROVE  InputTrue(input', left', right')
    <2> DEFINE s == input.instr
    <2>1. input' = DrawInput(s, input.button) /\ left' = s /\ right' = <<>>
      BY <1>10 DEF input_resize, Start
    <2>2. s \in Seq(Chars) /\ input.button \in {-1, 0, 1}
      BY <1>3 DEF OpenInput
    <2>3. s \o <<>> = s /\ <<>> \in Seq(Chars)
      BY <2>2, ConcatEmptySeq, EmptySeq
    <2> HIDE DEF s
    <2> QED BY <2>1, <2>2, <2>3, DrawInputTrue DEF InputTrue
  <1>11. CASE input_done
    <2>1. input' = ClosedInput /\ form' = ClosedForm /\ left' = <<>> /\ right' = <<>>
      BY <1>2, <1>11 DEF input_done
    <2>2. left' \in Seq(Chars) /\ right' \in Seq(Chars)
      BY <2>1, EmptySeq
    <2>3. (/\ input = ClosedInput /\ form = ClosedForm
           /\ left \in Seq(Chars) /\ right \in Seq(Chars)
           => EditInv)'
      BY ClosedWell, PTL
    <2> QED BY <2>1, <2>2, <2>3
  <1>12. InputTrue(input', left', right') => EditInv'
    <2>1. (InputTrue(input, left, right) /\ form = ClosedForm => EditInv)'
      BY InputWell, PTL
    <2> QED BY <1>2, <2>1
  <1> QED BY <1>5, <1>6, <1>7, <1>8, <1>9, <1>10, <1>11, <1>12 DEF input_next


LEMMA WithinIs ==
    ASSUME NEW cell \in Int, NEW n \in Nat, cell <= n
    PROVE  Within(cell) \in 0..prompt_width - 1 /\ Within(cell) <= n
  BY KInputboxAssumption DEF Within

LEMMA EditTrue ==
    ASSUME form \in OpenForm, NEW l \in Seq(Chars), NEW r \in Seq(Chars),
           NEW cell \in Int, cell <= Len(l),
           Edit(l \o r, Len(l), cell), left' = l, right' = r
    PROVE  FormTrue(form', left', right')
  <1> DEFINE s == l \o r
             n == Len(l)
             c == Within(cell)
  <1>1. s \in Seq(Chars) /\ n \in Nat /\ c \in 0..prompt_width - 1 /\ c <= n
    BY WholeIs, WithinIs
  <1>2. form' = [form EXCEPT !.result = s, !.cursor_position = n, !.cursor_form_win = c]
    BY DEF Edit
  <1> HIDE DEF s, n, c
  <1>3. /\ form' \in OpenForm /\ form'.result = s /\ form'.cursor_position = n
        /\ form'.cursor_form_win = c
    BY <1>1, <1>2 DEF OpenForm
  <1> QED BY <1>1, <1>3 DEF FormTrue, s, n

LEMMA FormStepTrue ==
    ASSUME EditInv, form_next, UNCHANGED input
    PROVE  EditInv'
  <1>1. form # ClosedForm
    BY ClosedIsClosed DEF form_next, form_char, form_backspace, form_delete, form_right,
          form_left, form_home, form_end, form_done
  <1>2. FormTrue(form, left, right) /\ input = ClosedInput
    BY <1>1, FormIs
  <1> DEFINE p == form.cursor_position
             c == form.cursor_form_win
  <1>3. /\ left \in Seq(Chars) /\ right \in Seq(Chars) /\ form \in OpenForm
        /\ form.result = left \o right /\ p = Len(left) /\ p \in Nat /\ c \in Int /\ c <= p
        /\ Len(left) \in Nat /\ Len(right) \in Nat /\ Len(form.result) = Len(left) + Len(right)
    <2>1. /\ left \in Seq(Chars) /\ right \in Seq(Chars) /\ form \in OpenForm
          /\ form.result = left \o right /\ p = Len(left) /\ c <= p
      BY <1>2 DEF FormTrue
    <2>2. p \in Nat /\ c \in Int
      BY <2>1, KInputboxAssumption DEF OpenForm
    <2>3. /\ Len(left) \in Nat /\ Len(right) \in Nat
          /\ Len(left \o right) = Len(left) + Len(right)
      BY <2>1, WholeIs
    <2> QED BY <2>1, <2>2, <2>3
  <1> HIDE DEF p, c
  <1>4. ASSUME NEW ch \in Chars, form_char(ch)
        PROVE  FormTrue(form', left', right')
    <2> DEFINE l == Append(left, ch)
    <2>1. Edit(Insert(form.result, p, ch), p + 1, c + 1) /\ left' = l /\ right' = right
      BY <1>4 DEF form_char, Typed, p, c
    <2>2. l \in Seq(Chars) /\ Len(l) = p + 1 /\ Insert(form.result, p, ch) = l \o right
      BY <1>3, InsertIs
    <2> HIDE DEF l
    <2>3. c + 1 \in Int /\ c + 1 <= Len(l)
      BY <1>3, <2>2
    <2> QED BY <1>3, <2>1, <2>2, <2>3, EditTrue
  <1>5. ASSUME form_backspace
        PROVE  FormTrue(form', left', right')
    <2> DEFINE l == First(left)
    <2>1. Edit(Delete(form.result, p), p - 1, c - 1) /\ left' = l /\ right' = right /\ p > 0
      BY <1>5 DEF form_backspace, Rubbed, p, c
    <2>2. l \in Seq(Chars) /\ Len(l) = p - 1
      BY <1>3, <2>1, EndsAre
    <2>3. Delete(form.result, p) = l \o right
      BY <1>3, <2>1, DeleteIs
    <2> HIDE DEF l
    <2>4. c - 1 \in Int /\ c - 1 <= Len(l)
      BY <1>3, <2>2
    <2> QED BY <1>3, <2>1, <2>2, <2>3, <2>4, EditTrue
  <1>6. ASSUME form_delete
        PROVE  FormTrue(form', left', right')
    <2> DEFINE r == Tail(right)
    <2>1. /\ Edit(Delete(form.result, p + 1), p, c) /\ left' = left /\ right' = r
          /\ p < Len(form.result)
      BY <1>6 DEF form_delete, Deleted, p, c
    <2>2. Len(right) > 0
      BY <1>3, <2>1
    <2>3. r \in Seq(Chars)
      BY <1>3, <2>2, EndsAre
    <2>4. Delete(form.result, p + 1) = left \o r
      BY <1>3, <2>2, DeleteNextIs
    <2> HIDE DEF r
    <2> QED BY <1>3, <2>1, <2>3, <2>4, EditTrue
  <1>7. ASSUME form_right
        PROVE  FormTrue(form', left', right')
    <2> DEFINE l == Append(left, Head(right))
               r == Tail(right)
    <2>1. /\ Edit(form.result, p + 1, c + 1) /\ left' = l /\ right' = r
          /\ p < Len(form.result)
      BY <1>7 DEF form_right, Rightward, p, c
    <2>2. Len(right) > 0
      BY <1>3, <2>1
    <2>3. /\ l \in Seq(Chars) /\ r \in Seq(Chars) /\ Len(l) = p + 1 /\ l \o r = form.result
      BY <1>3, <2>2, EndsAre, RightwardIs
    <2> HIDE DEF l, r
    <2>4. c + 1 \in Int /\ c + 1 <= Len(l)
      BY <1>3, <2>3
    <2> QED BY <1>3, <2>1, <2>3, <2>4, EditTrue
  <1>8. ASSUME form_left
        PROVE  FormTrue(form', left', right')
    <2> DEFINE l == First(left)
               r == <<left[Len(left)]>> \o right
    <2>1. Edit(form.result, p - 1, c - 1) /\ left' = l /\ right' = r /\ p > 0
      BY <1>8 DEF form_left, Leftward, p, c
    <2>2. /\ l \in Seq(Chars) /\ r \in Seq(Chars) /\ Len(l) = p - 1 /\ l \o r = form.result
      BY <1>3, <2>1, EndsAre, LeftwardIs
    <2> HIDE DEF l, r
    <2>3. c - 1 \in Int /\ c - 1 <= Len(l)
      BY <1>3, <2>2
    <2> QED BY <1>3, <2>1, <2>2, <2>3, EditTrue
  <1>9. ASSUME form_home
        PROVE  FormTrue(form', left', right')
    <2> DEFINE s == left \o right
               none == <<>>
    <2>1. Edit(s, 0, 0) /\ left' = none /\ right' = s
      BY <1>3, <1>9 DEF form_home
    <2>2. s \in Seq(Chars) /\ none \in Seq(Chars) /\ Len(none) = 0 /\ none \o s = s
      BY <1>3, WholeIs
    <2> HIDE DEF s, none
    <2>3. Edit(none \o s, Len(none), 0) /\ 0 <= Len(none) /\ 0 \in Int
      BY <2>1, <2>2
    <2>4. form \in OpenForm /\ left' = none /\ right' = s
      BY <1>3, <2>1
    <2> QED BY <2>2, <2>3, <2>4, EditTrue
  <1>10. ASSUME form_end
         PROVE  FormTrue(form', left', right')
    <2> DEFINE s == left \o right
    <2>1. Edit(s, Len(s), Within(Len(s))) /\ left' = s /\ right' = <<>>
      BY <1>3, <1>10 DEF form_end, Start
    <2>2. s \in Seq(Chars) /\ <<>> \in Seq(Chars) /\ Len(s) \in Nat /\ s \o <<>> = s
      BY <1>3, WholeIs, LenProperties
    <2> HIDE DEF s
    <2>3. Within(Len(s)) \in Int /\ Within(Len(s)) <= Len(s)
      BY <2>2, WithinIs, KInputboxAssumption
    <2> QED BY <1>3, <2>1, <2>2, <2>3, EditTrue
  <1>11. CASE form_done
    <2>1. input' = ClosedInput /\ form' = ClosedForm /\ left' = <<>> /\ right' = <<>>
      BY <1>2, <1>11 DEF form_done
    <2>2. left' \in Seq(Chars) /\ right' \in Seq(Chars)
      BY <2>1, EmptySeq
    <2>3. (/\ input = ClosedInput /\ form = ClosedForm
           /\ left \in Seq(Chars) /\ right \in Seq(Chars)
           => EditInv)'
      BY ClosedWell, PTL
    <2> QED BY <2>1, <2>2, <2>3
  <1>12. FormTrue(form', left', right') => EditInv'
    <2>1. (FormTrue(form, left, right) /\ input = ClosedInput => EditInv)'
      BY FormWell, PTL
    <2> QED BY <1>2, <2>1
  <1> QED BY <1>4, <1>5, <1>6, <1>7, <1>8, <1>9, <1>10, <1>11, <1>12 DEF form_next

LEMMA EditOpens ==
    ASSUME InputOpens, input = ClosedInput, form = ClosedForm
    PROVE  EditInv'
  <1>1. PICK init \in Strings : \/ dialog_inputbox(init) /\ UNCHANGED form
                                \/ form_inputbox(init) /\ UNCHANGED input
    BY DEF InputOpens
  <1>2. init \in Seq(Chars) /\ init \o <<>> = init /\ <<>> \in Seq(Chars) /\ Len(init) \in Nat
    BY KDialogsAssumption, ConcatEmptySeq, EmptySeq, LenProperties
  <1>3. CASE dialog_inputbox(init) /\ UNCHANGED form
    <2>1. input' = DrawInput(init, -1) /\ left' = init /\ right' = <<>> /\ form' = ClosedForm
      BY <1>3 DEF dialog_inputbox, Start
    <2>2. InputTrue(input', left', right')
      BY <1>2, <2>1, DrawInputTrue DEF InputTrue
    <2>3. (InputTrue(input, left, right) /\ form = ClosedForm => EditInv)'
      BY InputWell, PTL
    <2> QED BY <2>1, <2>2, <2>3
  <1>4. CASE form_inputbox(init) /\ UNCHANGED input
    <2> DEFINE n == Len(init)
               c == Within(n)
    <2>1. /\ form' = [open |-> TRUE, result |-> init, cursor_position |-> n, cursor_form_win |-> c]
          /\ left' = init /\ right' = <<>> /\ input' = ClosedInput
      BY <1>4 DEF form_inputbox, Start
    <2>2. n \in Nat /\ c \in 0..prompt_width - 1 /\ c <= n
      BY <1>2, WithinIs
    <2> HIDE DEF c
    <2>3. form' \in OpenForm
      BY <1>2, <2>1, <2>2 DEF OpenForm
    <2>4. FormTrue(form', left', right')
      BY <1>2, <2>1, <2>2, <2>3 DEF FormTrue
    <2>5. (FormTrue(form, left, right) /\ input = ClosedInput => EditInv)'
      BY FormWell, PTL
    <2> QED BY <2>1, <2>4, <2>5
  <1> QED BY <1>1, <1>3, <1>4

(***************************************************************************)
(* Typing a value: at any time the string of the dialog is what the keys   *)
(* mean, the cursor is where the user means it to be and in the field, and *)
(* the field of menuconfig, which is never printed whole, shows the string.*)
(***************************************************************************)
THEOREM EditingCorrect == Spec => []Editing
  <1>1. Init => EditInv
    <2> SUFFICES ASSUME Init PROVE EditInv
      OBVIOUS
    <2>1. left \in Seq(Chars) /\ right \in Seq(Chars)
      BY EmptySeq DEF Init, inputbox_init
    <2> QED BY <2>1, ClosedWell DEF Init, inputbox_init
  <1>2. EditInv /\ [Next]_Dialogs => EditInv'
    <2> SUFFICES ASSUME EditInv, [Next]_Dialogs
                 PROVE  EditInv'
      OBVIOUS
    <2>1. CASE UNCHANGED <<input, form, left, right>>
      BY <2>1 DEF EditInv, Editing, InField, AsTyped, FieldTrue
    <2>2. CASE Opens
      <3>1. CASE InputOpens
        BY <2>2, <3>1, EditOpens DEF Opens, Idle
      <3>2. CASE ~InputOpens
        BY <2>1, <2>2, <3>2
        DEF Opens, MenuOpens, ListOpens, TextOpens, PadOpens, NMenuOpens
      <3> QED BY <3>1, <3>2
    <2>3. CASE InputStep
      BY <2>3, InputStepTrue DEF InputStep
    <2>4. CASE FormStep
      BY <2>4, FormStepTrue DEF FormStep
    <2>5. CASE MenuStep \/ ListStep \/ TextStep \/ PadStep \/ NMenuStep
      BY <2>1, <2>5 DEF MenuStep, ListStep, TextStep, PadStep, NMenuStep
    <2>6. CASE UNCHANGED Dialogs
      BY <2>1, <2>6 DEF Dialogs
    <2> QED BY <2>2, <2>3, <2>4, <2>5, <2>6 DEF Next
  <1>3. EditInv => Editing
    BY DEF EditInv
  <1> QED BY <1>1, <1>2, <1>3, PTL DEF Spec


-----------------------------------------------------------------------------
(* The lists of menuconfig: the rows of a window, with one highlighted      *)
(* (Fresh) or none (Dark).  h rows, the first of which shows item s.         *)

Dark(h, s) == [r \in 0..h - 1 |-> Row(s + r, FALSE)]

LEMMA FreshRows ==
    ASSUME NEW h, NEW s, NEW c
    PROVE  /\ DOMAIN Fresh(h, s, c) = 0..h - 1
           /\ \A r \in 0..h - 1 : Fresh(h, s, c)[r] = Row(s + r, r = c)
  BY DEF Fresh

LEMMA DarkRows ==
    ASSUME NEW h, NEW s
    PROVE  /\ DOMAIN Dark(h, s) = 0..h - 1
           /\ \A r \in 0..h - 1 : Dark(h, s)[r] = Row(s + r, FALSE)
  BY DEF Dark

\* The highlight is taken off a row and put on another.
LEMMA OffIs ==
    ASSUME NEW h \in Nat, NEW s \in Int, NEW c \in Int
    PROVE  print_item(Fresh(h, s, c), s + c, c, FALSE) = Dark(h, s)
  BY DEF print_item, Fresh, Dark, Row

LEMMA OnIs ==
    ASSUME NEW h \in Nat, NEW s \in Int, NEW c \in Int
    PROVE  print_item(Dark(h, s), s + c, c, TRUE) = Fresh(h, s, c)
  BY DEF print_item, Fresh, Dark, Row

LEMMA ScrolledIs ==
    ASSUME NEW h \in Nat, NEW s \in Int, NEW n \in {-1, 1}
    PROVE  /\ DOMAIN scrolled(Dark(h, s), n) = 0..h - 1
           /\ scrolled(Dark(h, s), n) = [r \in 0..h - 1 |-> scrolled(Dark(h, s), n)[r]]
           /\ \A r \in 0..h - 1 : r + n \in 0..h - 1 =>
                  scrolled(Dark(h, s), n)[r] = Row(s + n + r, FALSE)
  <1> DEFINE f == scrolled(Dark(h, s), n)
  <1>1. f = [r \in 0..h - 1 |-> IF r + n \in 0..h - 1 THEN Dark(h, s)[r + n] ELSE Row(NoItem, FALSE)]
    BY DarkRows DEF scrolled
  <1>2. \A r \in 0..h - 1 : r + n \in 0..h - 1 => f[r] = Row(s + n + r, FALSE)
    <2> TAKE r \in 0..h - 1
    <2> HAVE r + n \in 0..h - 1
    <2>1. f[r] = Row(s + (r + n), FALSE)
      BY <1>1, DarkRows
    <2>2. s + (r + n) = s + n + r
      OBVIOUS
    <2> QED BY <2>1, <2>2
  <1>3. DOMAIN f = 0..h - 1 /\ f = [r \in 0..h - 1 |-> f[r]]
    BY <1>1
  <1> QED BY <1>2, <1>3

\* The row that is scrolled in is printed.
LEMMA ScrollIs ==
    ASSUME NEW h \in Nat, NEW s \in Int, NEW n \in {-1, 1}, NEW row \in Int, NEW lit \in BOOLEAN,
           h > 0 => row = IF n = 1 THEN h - 1 ELSE 0
    PROVE  /\ print_item(scrolled(Dark(h, s), n), s + n + row, row, FALSE) = Dark(h, s + n)
           /\ print_item(scrolled(Dark(h, s), n), s + n + row, row, TRUE) = Fresh(h, s + n, row)
  <1> DEFINE f == scrolled(Dark(h, s), n)
             off == print_item(f, s + n + row, row, FALSE)
             on == print_item(f, s + n + row, row, TRUE)
  <1>1. /\ DOMAIN f = 0..h - 1 /\ f = [r \in 0..h - 1 |-> f[r]]
        /\ \A r \in 0..h - 1 : r + n \in 0..h - 1 => f[r] = Row(s + n + r, FALSE)
    BY ScrolledIs
  <1> HIDE DEF f, off, on
  <1>2. ASSUME h = 0
        PROVE  off = Dark(h, s + n) /\ on = Fresh(h, s + n, row)
    <2>1. 0..h - 1 = {}
      BY <1>2
    <2>2. off = f /\ on = f
      BY <1>1, <2>1 DEF print_item, off, on
    <2>3. f = Dark(h, s + n) /\ f = Fresh(h, s + n, row)
      BY <1>1, <2>1 DEF Dark, Fresh
    <2> QED BY <2>2, <2>3
  <1>3. ASSUME h > 0
        PROVE  off = Dark(h, s + n) /\ on = Fresh(h, s + n, row)
    <2>1. row \in 0..h - 1 /\ \A r \in 0..h - 1 : r # row => r + n \in 0..h - 1
      BY <1>3
    <2>2. /\ off = [f EXCEPT ![row] = Row(s + n + row, FALSE)]
          /\ on = [f EXCEPT ![row] = Row(s + n + row, TRUE)]
      BY <1>1, <2>1 DEF print_item, off, on
    <2>3. /\ off = [r \in 0..h - 1 |-> Row(s + n + r, FALSE)]
          /\ on = [r \in 0..h - 1 |-> Row(s + n + r, r = row)]
      BY <1>1, <2>1, <2>2 DEF Row
    <2> QED BY <2>3 DEF Dark, Fresh
  <1>4. h = 0 \/ h > 0
    OBVIOUS
  <1> QED BY <1>2, <1>3, <1>4 DEF f, off, on

LEMMA UpIs ==
    ASSUME NEW h \in Nat, NEW s \in Int
    PROVE  print_item(scrolled(Dark(h, s), -1), s - 1, 0, FALSE) = Dark(h, s - 1)
  <1>1. print_item(scrolled(Dark(h, s), -1), s + (-1) + 0, 0, FALSE) = Dark(h, s + (-1))
    <2>1. -1 \in {-1, 1} /\ 0 \in Int /\ (h > 0 => 0 = IF -1 = 1 THEN h - 1 ELSE 0)
      OBVIOUS
    <2> QED BY <2>1, ScrollIs
  <1>2. s + (-1) + 0 = s - 1 /\ s + (-1) = s - 1
    OBVIOUS
  <1> QED BY <1>1, <1>2

LEMMA DownIs ==
    ASSUME NEW h \in Nat, NEW s \in Int
    PROVE  print_item(scrolled(Dark(h, s), 1), s + h, h - 1, FALSE) = Dark(h, s + 1)
  <1>1. print_item(scrolled(Dark(h, s), 1), s + 1 + (h - 1), h - 1, FALSE) = Dark(h, s + 1)
    <2>1. 1 \in {-1, 1} /\ h - 1 \in Int /\ (h > 0 => h - 1 = IF 1 = 1 THEN h - 1 ELSE 0)
      OBVIOUS
    <2> QED BY <2>1, ScrollIs
  <1>2. s + 1 + (h - 1) = s + h
    OBVIOUS
  <1> QED BY <1>1, <1>2

\* A window of one row, or of none, is printed over.
LEMMA FewRowsIs ==
    ASSUME NEW h \in Nat, NEW s \in Int, NEW t \in Int, NEW c \in Int, h = 0 \/ (h = 1 /\ c = 0)
    PROVE  print_item(Fresh(h, s, c), t + c, c, TRUE) = Fresh(h, t, c)
  <1> DEFINE f == Fresh(h, s, c)
             g == print_item(f, t + c, c, TRUE)
  <1>1. DOMAIN f = 0..h - 1 /\ f = [r \in 0..h - 1 |-> f[r]]
    BY DEF Fresh
  <1> HIDE DEF f, g
  <1>2. ASSUME h = 0
        PROVE  g = Fresh(h, t, c)
    <2>1. 0..h - 1 = {}
      BY <1>2
    <2> QED BY <1>1, <2>1 DEF print_item, Fresh, g
  <1>3. ASSUME h = 1, c = 0
        PROVE  g = Fresh(h, t, c)
    <2>1. 0..h - 1 = {0}
      BY <1>3
    <2>2. g = [f EXCEPT ![0] = Row(t + c, TRUE)]
      BY <1>1, <1>3, <2>1 DEF print_item, g
    <2>3. g = [r \in {0} |-> Row(t + c, TRUE)]
      BY <1>1, <2>1, <2>2
    <2>4. Fresh(h, t, c) = [r \in {0} |-> Row(t + r, r = c)]
      BY <2>1 DEF Fresh
    <2> QED BY <1>3, <2>3, <2>4 DEF Row
  <1> QED BY <1>2, <1>3 DEF f, g

\* Pages of n lines.
LEMMA PageUpIs ==
    ASSUME NEW h \in Nat, NEW s \in Int, NEW n \in 0..h
    PROVE  [r \in 0..h - 1 |-> IF r < n THEN Row(s - n + r, FALSE) ELSE Dark(h, s)[r - n]]
           = Dark(h, s - n)
  BY DEF Dark, Row

LEMMA PageDownIs ==
    ASSUME NEW h \in Nat, NEW s \in Int, NEW n \in 0..h
    PROVE  [r \in 0..h - 1 |-> IF r >= h - n THEN Row(s + n + r, FALSE) ELSE Dark(h, s)[r + n]]
           = Dark(h, s + n)
  <1>1. ASSUME NEW r \in 0..h - 1, ~(r >= h - n)
        PROVE  Dark(h, s)[r + n] = Row(s + n + r, FALSE)
    <2>1. r + n \in 0..h - 1 /\ s + (r + n) = s + n + r
      BY <1>1
    <2>2. Dark(h, s)[r + n] = Row(s + (r + n), FALSE)
      BY <2>1, DarkRows
    <2> QED BY <2>1, <2>2
  <1>2. \A r \in 0..h - 1 :
            (IF r >= h - n THEN Row(s + n + r, FALSE) ELSE Dark(h, s)[r + n]) = Row(s + n + r, FALSE)
    BY <1>1
  <1> QED BY <1>2 DEF Dark

\* The cursor is on a row, the rows are rows of the list, and the window is as
\* one that is printed anew.
WindowTrue(w) ==
    /\ w.n > 0 => /\ w.max_choice \in 1..w.n
                  /\ w.choice \in 0..w.max_choice - 1
                  /\ w.scroll \in 0..w.n - w.max_choice
    /\ ~w.stale => w.rows = Fresh(w.max_choice, w.scroll, w.choice) /\ w.shown = w.button

MenuTrue(w) ==
    /\ w \in [open : BOOLEAN, n : Nat, selected : Int, s_scroll : Int, max_choice : Nat,
              choice : Int, scroll : Int, first_item : Int, button : Int, shown : Int,
              rows : {w.rows}, picked : Int, lines : Nat, stale : BOOLEAN]
    /\ ~TooSmall(w.lines)
    /\ w.max_choice = MIN(menu_height(w.lines), w.n)
    /\ w.n = 0 => w.scroll = 0
    /\ WindowTrue(w)
    /\ ~w.open => /\ w.s_scroll = w.scroll
                  /\ w.n > 0 => w.picked = w.scroll + w.choice

MenuInv == menu \notin {Closed, Crashed} => MenuTrue(menu)

\* A window that is laid out, whatever scroll position was saved.
LEMMA LayoutTrue ==
    ASSUME NEW n \in Nat, NEW selected \in Int, NEW s_scroll \in Int, NEW lines \in Nat,
           NEW choice \in Int, NEW first_item \in Int, NEW button \in Int,
           ~TooSmall(lines), n > 0 => choice \in 0..n - 1
    PROVE  LET w == Layout(n, selected, s_scroll, lines, choice, first_item, button)
           IN  MenuTrue(w) /\ w.open
  <1> DEFINE w == Layout(n, selected, s_scroll, lines, choice, first_item, button)
             h == MIN(menu_height(lines), n)
             at == IF selected \in Items(n) THEN selected ELSE choice
             saved == /\ s_scroll <= at /\ s_scroll + h > at
                      /\ s_scroll >= 0 /\ s_scroll + h <= n
             off == at >= h
             half == h \div 2
             scroll == IF saved THEN s_scroll
                       ELSE IF ~off THEN 0
                       ELSE IF at >= n - half THEN n - h
                       ELSE at - half
             first == IF saved \/ off THEN scroll ELSE first_item
  <1>1. /\ h \in Nat /\ h <= n /\ (n > 0 => h > 0) /\ half \in Nat /\ half <= h
        /\ (h > 0 => half < h) /\ h <= 2 * half + 1
    <2>1. h \in Nat /\ h <= n /\ (n > 0 => h > 0)
      BY DEF MIN, menu_height, TooSmall
    <2> HIDE DEF h
    <2> QED BY <2>1
  <1>2. at \in Int /\ (n > 0 => at \in 0..n - 1) /\ (n = 0 => at = choice)
    BY DEF Items
  <1> HIDE DEF h, at, half
  <1>3. /\ scroll \in Int /\ (n = 0 => scroll = 0)
        /\ n > 0 => at - scroll \in 0..h - 1 /\ scroll \in 0..n - h
    BY <1>1, <1>2
  <1>4. first \in Int
    BY <1>3
  <1>5. w = [open |-> TRUE, n |-> n, selected |-> selected, s_scroll |-> s_scroll,
             max_choice |-> h, choice |-> at - scroll, scroll |-> scroll,
             first_item |-> first, button |-> button, shown |-> 0,
             rows |-> Fresh(h, first, at - scroll), picked |-> NoItem,
             lines |-> lines, stale |-> first # scroll \/ button # 0]
    BY DEF Layout, h, at, half
  <1> HIDE DEF w, scroll, first
  <1>6. w \in [open : BOOLEAN, n : Nat, selected : Int, s_scroll : Int, max_choice : Nat,
               choice : Int, scroll : Int, first_item : Int, button : Int, shown : Int,
               rows : {w.rows}, picked : Int, lines : Nat, stale : BOOLEAN]
    BY <1>1, <1>2, <1>3, <1>4, <1>5 DEF NoItem
  <1>7. WindowTrue(w)
    <2>1. /\ w.n = n /\ w.max_choice = h /\ w.choice = at - scroll /\ w.scroll = scroll
          /\ w.shown = 0 /\ w.button = button /\ w.rows = Fresh(h, first, at - scroll)
          /\ w.stale = (first # scroll \/ button # 0)
      BY <1>5
    <2>2. ~w.stale => w.rows = Fresh(w.max_choice, w.scroll, w.choice) /\ w.shown = w.button
      BY <2>1
    <2>3. n > 0 => h \in 1..n
      BY <1>1
    <2> QED BY <1>3, <2>1, <2>2, <2>3 DEF WindowTrue
  <1>8. w.open /\ w.n = n /\ w.lines = lines /\ w.max_choice = h /\ w.scroll = scroll
    BY <1>5
  <1>9. MenuTrue(w) /\ w.open
    BY <1>3, <1>6, <1>7, <1>8 DEF MenuTrue, h
  <1> QED BY <1>9 DEF w


\* A key that moves, given rows that are printed and have no highlight.
LEMMA MovedTrue ==
    ASSUME MenuTrue(menu), menu.open, NEW c \in Int, NEW s \in Int, NEW rows,
           menu.n > 0 => /\ c \in 0..menu.max_choice - 1
                         /\ s \in 0..menu.n - menu.max_choice,
           menu.n = 0 => s = 0,
           ~menu.stale => rows = Dark(menu.max_choice, s),
           Moved(rows, c, s)
    PROVE  MenuTrue(menu')
  <1> DEFINE f == print_item(rows, s + c, c, TRUE)
  <1>1. menu' = [menu EXCEPT !.choice = c, !.scroll = s, !.rows = f]
    BY DEF Moved
  <1>2. ~menu.stale => f = Fresh(menu.max_choice, s, c)
    <2>1. menu.max_choice \in Nat
      BY DEF MenuTrue
    <2>2. print_item(Dark(menu.max_choice, s), s + c, c, TRUE) = Fresh(menu.max_choice, s, c)
      BY <2>1, OnIs, Zenon
    <2> QED BY <2>2
  <1> HIDE DEF f
  <1>3. /\ menu'.choice = c /\ menu'.scroll = s /\ menu'.rows = f /\ menu'.n = menu.n
        /\ menu'.max_choice = menu.max_choice /\ menu'.stale = menu.stale
        /\ menu'.shown = menu.shown /\ menu'.button = menu.button
        /\ menu'.lines = menu.lines /\ menu'.open
    BY <1>1 DEF MenuTrue
  <1>4. menu' \in [open : BOOLEAN, n : Nat, selected : Int, s_scroll : Int, max_choice : Nat,
                   choice : Int, scroll : Int, first_item : Int, button : Int, shown : Int,
                   rows : {menu'.rows}, picked : Int, lines : Nat, stale : BOOLEAN]
    BY <1>1, <1>3 DEF MenuTrue
  <1>5. WindowTrue(menu')
    BY <1>2, <1>3 DEF MenuTrue, WindowTrue
  <1> QED BY <1>3, <1>4, <1>5 DEF MenuTrue

LEMMA MenuStepTrue ==
    ASSUME MenuInv, menu_next
    PROVE  MenuInv'
  <1> SUFFICES ASSUME ~menuconfig PROVE MenuInv'
    BY DEF menuconfig, MenuInv
  <1>1. menu \notin {Closed, Crashed}
    <2>1. menu.open \/ menu \notin {Closed, Crashed}
      BY DEF menu_next, menu_up, menu_down, menu_page_up, menu_page_down, menu_hotkey,
            menu_buttons, menu_act, menu_exit, menu_resize, conf_again
    <2>2. ~Closed.open /\ ~Crashed.open
      BY DEF Closed, Crashed
    <2> QED BY <2>1, <2>2
  <1>2. MenuTrue(menu)
    BY <1>1 DEF MenuInv
  <1> DEFINE n == menu.n
             h == menu.max_choice
             c == menu.choice
             s == menu.scroll
  <1>3. /\ n \in Nat /\ h \in Nat /\ c \in Int /\ s \in Int /\ (n = 0 => s = 0)
        /\ menu.lines \in Nat /\ menu.button \in Int /\ menu.s_scroll \in Int
        /\ menu.selected \in Int /\ menu.first_item \in Int /\ ~TooSmall(menu.lines)
    BY <1>2 DEF MenuTrue
  <1>4. n > 0 => h \in 1..n /\ c \in 0..h - 1 /\ s \in 0..n - h
    BY <1>2 DEF MenuTrue, WindowTrue
  <1>5. n = 0 => h = 0
    BY <1>2, <1>3 DEF MenuTrue, MIN, menu_height, TooSmall
  <1>6. ~menu.stale => Unlit = Dark(h, s) /\ menu.rows = Fresh(h, s, c)
    <2>1. print_item(Fresh(h, s, c), s + c, c, FALSE) = Dark(h, s)
      BY <1>3, OffIs, Zenon
    <2>2. ~menu.stale => menu.rows = Fresh(h, s, c)
      BY <1>2 DEF MenuTrue, WindowTrue
    <2> QED BY <2>1, <2>2 DEF Unlit
  <1>7. ASSUME menu_up
        PROVE  MenuTrue(menu')
    <2>1. CASE c < 2 /\ s # 0
      <3> DEFINE rows == print_item(scrolled(Unlit, -1), s - 1, 0, FALSE)
      <3>1. Moved(rows, c, s - 1) /\ menu.open
        BY <1>7, <2>1 DEF menu_up
      <3>2. s - 1 \in Int /\ n > 0 /\ s - 1 \in 0..n - h
        BY <1>3, <1>4, <2>1
      <3>3. ~menu.stale => rows = Dark(h, s - 1)
        BY <1>3, <1>6, UpIs
      <3> HIDE DEF rows
      <3> QED BY <1>2, <1>3, <1>4, <3>1, <3>2, <3>3, MovedTrue
    <2>2. CASE ~(c < 2 /\ s # 0)
      <3>1. Moved(Unlit, MAX(c - 1, 0), s) /\ menu.open
        BY <1>7, <2>2 DEF menu_up
      <3>2. MAX(c - 1, 0) \in Int /\ (n > 0 => MAX(c - 1, 0) \in 0..h - 1)
        BY <1>3, <1>4 DEF MAX
      <3> QED BY <1>2, <1>3, <1>4, <1>6, <3>1, <3>2, MovedTrue
    <2> QED BY <2>1, <2>2
  <1>8. ASSUME menu_down
        PROVE  MenuTrue(menu')
    <2>1. CASE c > h - 3 /\ below > 0
      <3> DEFINE rows == print_item(scrolled(Unlit, 1), s + h, h - 1, FALSE)
      <3>1. Moved(rows, c, s + 1) /\ menu.open
        BY <1>8, <2>1 DEF menu_down
      <3>2. s + 1 \in Int /\ n > 0 /\ s + 1 \in 0..n - h
        BY <1>3, <1>4, <1>5, <2>1 DEF below
      <3>3. ~menu.stale => rows = Dark(h, s + 1)
        BY <1>3, <1>6, DownIs
      <3> HIDE DEF rows
      <3> QED BY <1>2, <1>3, <1>4, <3>1, <3>2, <3>3, MovedTrue
    <2>2. CASE ~(c > h - 3 /\ below > 0)
      <3>1. Moved(Unlit, MIN(c + 1, h - 1), s) /\ menu.open
        BY <1>8, <2>2 DEF menu_down
      <3>2. MIN(c + 1, h - 1) \in Int /\ (n > 0 => MIN(c + 1, h - 1) \in 0..h - 1)
        BY <1>3, <1>4 DEF MIN
      <3> QED BY <1>2, <1>3, <1>4, <1>6, <3>1, <3>2, MovedTrue
    <2> QED BY <2>1, <2>2
  <1>9. ASSUME menu_page_up
        PROVE  MenuTrue(menu')
    <2> DEFINE k == MIN(s, h)
               rows == [r \in DOMAIN menu.rows |->
                           IF r < k THEN Row(s - k + r, FALSE) ELSE Unlit[r - k]]
               to == MIN(c, MAX(c - (h - k), 0))
    <2>1. Moved(rows, to, s - k) /\ menu.open
      BY <1>9 DEF menu_page_up
    <2>2. k \in 0..h /\ s - k \in Int /\ (n > 0 => s - k \in 0..n - h) /\ (n = 0 => s - k = 0)
      BY <1>3, <1>4, <1>5 DEF MIN
    <2>3. to \in Int /\ (n > 0 => to \in 0..h - 1)
      BY <1>3, <1>4, <2>2 DEF MIN, MAX
    <2>4. ~menu.stale => rows = Dark(h, s - k)
      <3> HIDE DEF k
      <3>1. ~menu.stale => DOMAIN menu.rows = 0..h - 1 /\ Unlit = Dark(h, s)
        BY <1>6, FreshRows
      <3>2. [r \in 0..h - 1 |-> IF r < k THEN Row(s - k + r, FALSE) ELSE Dark(h, s)[r - k]]
            = Dark(h, s - k)
        BY <1>3, <2>2, PageUpIs, Zenon
      <3> QED BY <3>1, <3>2
    <2> HIDE DEF k, rows, to
    <2> QED BY <1>2, <2>1, <2>2, <2>3, <2>4, MovedTrue
  <1>10. ASSUME menu_page_down
         PROVE  MenuTrue(menu')
    <2> DEFINE k == MIN(MAX(below, 0), h)
               rows == [r \in DOMAIN menu.rows |->
                           IF r >= h - k THEN Row(s + k + r, FALSE) ELSE Unlit[r + k]]
               to == MAX(c, MIN(c + (h - k), h - 1))
    <2>1. Moved(rows, to, s + k) /\ menu.open
      BY <1>10 DEF menu_page_down
    <2>2. k \in 0..h /\ s + k \in Int /\ (n > 0 => s + k \in 0..n - h) /\ (n = 0 => s + k = 0)
      BY <1>3, <1>4, <1>5 DEF MIN, MAX, below
    <2>3. to \in Int /\ (n > 0 => to \in 0..h - 1)
      BY <1>3, <1>4, <2>2 DEF MIN, MAX
    <2>4. ~menu.stale => rows = Dark(h, s + k)
      <3> HIDE DEF k
      <3>1. ~menu.stale => DOMAIN menu.rows = 0..h - 1 /\ Unlit = Dark(h, s)
        BY <1>6, FreshRows
      <3>2. [r \in 0..h - 1 |-> IF r >= h - k THEN Row(s + k + r, FALSE) ELSE Dark(h, s)[r + k]]
            = Dark(h, s + k)
        BY <1>3, <2>2, PageDownIs, Zenon
      <3> QED BY <3>1, <3>2
    <2> HIDE DEF k, rows, to
    <2> QED BY <1>2, <2>1, <2>2, <2>3, <2>4, MovedTrue
  <1>11. ASSUME NEW i \in Items(MaxItems), menu_hotkey(i)
         PROVE  MenuTrue(menu')
    <2>1. Moved(Unlit, i, s) /\ menu.open /\ i \in 0..h - 1
      BY <1>11 DEF menu_hotkey, Items
    <2> QED BY <1>2, <1>3, <1>4, <1>6, <2>1, MovedTrue
  <1>12. ASSUME NEW key, menu_buttons(key)
         PROVE  MenuTrue(menu')
    <2> DEFINE b == (menu.button + (IF key = "left" THEN 4 ELSE 1)) % 5
    <2>1. menu' = [menu EXCEPT !.button = b, !.shown = b] /\ menu.open
      BY <1>12 DEF menu_buttons
    <2>2. b \in Int
      BY <1>3
    <2> HIDE DEF b
    <2> QED BY <1>2, <2>1, <2>2 DEF MenuTrue, WindowTrue
  <1>13. ASSUME menu_act
         PROVE  MenuTrue(menu')
    <2> DEFINE item == s + c
               p == IF item \in Items(n) THEN item ELSE NoItem
    <2>1. menu' = [menu EXCEPT !.open = FALSE, !.s_scroll = s, !.picked = p]
      BY <1>13 DEF menu_act
    <2>2. p \in Int /\ (n > 0 => p = s + c)
      BY <1>3, <1>4 DEF Items, NoItem
    <2> HIDE DEF p
    <2>3. /\ ~menu'.open /\ menu'.s_scroll = s /\ menu'.picked = p /\ menu'.n = n
          /\ menu'.max_choice = h /\ menu'.choice = c /\ menu'.scroll = s
          /\ menu'.rows = menu.rows /\ menu'.stale = menu.stale /\ menu'.shown = menu.shown
          /\ menu'.button = menu.button /\ menu'.lines = menu.lines
      BY <1>2, <2>1 DEF MenuTrue
    <2>4. menu' \in [open : BOOLEAN, n : Nat, selected : Int, s_scroll : Int, max_choice : Nat,
                     choice : Int, scroll : Int, first_item : Int, button : Int, shown : Int,
                     rows : {menu'.rows}, picked : Int, lines : Nat, stale : BOOLEAN]
      BY <1>2, <1>3, <2>1, <2>2, <2>3 DEF MenuTrue
    <2>5. WindowTrue(menu')
      BY <1>2, <2>3 DEF MenuTrue, WindowTrue
    <2> QED BY <1>2, <2>2, <2>3, <2>4, <2>5 DEF MenuTrue
  <1>14. ASSUME NEW lines \in Tall, menu_resize(lines), ~TooSmall(lines), menu' # Crashed
         PROVE  MenuTrue(menu')
    <2>1. menu' = Layout(n, menu.selected, menu.s_scroll, lines, c, menu.first_item, menu.button)
      BY <1>14 DEF menu_resize, Printed
    <2>2. lines \in Nat /\ (n > 0 => c \in 0..n - 1)
      BY <1>3, <1>4, KMenuboxAssumption
    <2>3. MenuTrue(Layout(n, menu.selected, menu.s_scroll, lines, c, menu.first_item, menu.button))
      BY <1>3, <1>14, <2>2, LayoutTrue
    <2> QED BY <2>1, <2>3
  <1>15. ASSUME NEW m \in 0..MaxItems, NEW active \in Items(MaxItems) \union {NoItem},
                conf_again(m, active), menu' # Crashed
         PROVE  MenuTrue(menu')
    <2>1. menu' = Layout(m, active, menu.s_scroll, menu.lines, 0, 0, 0)
      BY <1>15 DEF conf_again, Printed
    <2>2. m \in Nat /\ active \in Int /\ 0 \in Int /\ (m > 0 => 0 \in 0..m - 1)
      BY KMenuboxAssumption DEF Items, NoItem
    <2>3. MenuTrue(Layout(m, active, menu.s_scroll, menu.lines, 0, 0, 0))
      BY <1>3, <2>2, LayoutTrue, Zenon
    <2> QED BY <2>1, <2>3
  <1>16. ASSUME menu_exit \/ \E lines \in Tall : menu_resize(lines) /\ TooSmall(lines)
         PROVE  menu' = Closed
    BY <1>16 DEF menu_exit, menu_resize
  <1> QED BY <1>7, <1>8, <1>9, <1>10, <1>11, <1>12, <1>13, <1>14, <1>15, <1>16
          DEF menu_next, MenuInv


LEMMA MenuOpensTrue ==
    ASSUME MenuInv, MenuOpens
    PROVE  MenuInv'
  <1>1. PICK n \in 0..MaxItems, selected \in Items(MaxItems) \union {NoItem}, lines \in Tall :
            dialog_menu(n, selected, lines)
    BY DEF MenuOpens
  <1>2. CASE TooSmall(lines)
    BY <1>1, <1>2 DEF dialog_menu, MenuInv
  <1>3. CASE ~TooSmall(lines) /\ menu' # Crashed
    <2>1. menu' = Layout(n, selected, 0, lines, 0, 0, 0)
      BY <1>1, <1>3 DEF dialog_menu, Printed
    <2>2. n \in Nat /\ selected \in Int /\ lines \in Nat /\ 0 \in Int /\ (n > 0 => 0 \in 0..n - 1)
      BY KMenuboxAssumption DEF Items, NoItem
    <2>3. MenuTrue(Layout(n, selected, 0, lines, 0, 0, 0))
      BY <1>3, <2>2, LayoutTrue, Zenon
    <2> QED BY <2>1, <2>3 DEF MenuInv
  <1>4. CASE menu' = Crashed
    BY <1>4 DEF MenuInv
  <1> QED BY <1>2, <1>3, <1>4

-----------------------------------------------------------------------------
(* The list of a choice.                                                     *)

ListTrue(w) ==
    /\ w \in [open : BOOLEAN, n : Nat, max_choice : Nat, choice : Int, scroll : Int,
              button : Int, shown : Int, rows : {w.rows}, picked : Int, stale : BOOLEAN]
    /\ w.max_choice = MIN(ListHeight, w.n)
    /\ WindowTrue(w)

ListInv == list # ClosedList => ListTrue(list)

LEMMA DrawListTrue ==
    ASSUME NEW n \in Nat, NEW choice \in Int, NEW scroll \in Int, NEW button \in Int,
           n > 0 => /\ choice \in 0..n - 1
                    /\ choice < ListHeight => scroll \in 0..n - MIN(ListHeight, n)
    PROVE  ListTrue(DrawList(n, choice, scroll, button))
  <1> DEFINE w == DrawList(n, choice, scroll, button)
             h == MIN(ListHeight, n)
             top == IF choice >= ListHeight THEN choice - ListHeight + 1 ELSE scroll
             row == IF choice >= ListHeight THEN choice - top ELSE choice
  <1>1. /\ h \in Nat /\ top \in Int /\ row \in Int
        /\ n > 0 => h \in 1..n /\ row \in 0..h - 1 /\ top \in 0..n - h
    BY KMenuboxAssumption DEF MIN
  <1>2. w = [open |-> TRUE, n |-> n, max_choice |-> h, choice |-> row, scroll |-> top,
             button |-> button, shown |-> 0, rows |-> Fresh(h, top, row),
             picked |-> NoItem, stale |-> button # 0]
    BY DEF DrawList
  <1>3. w.max_choice = MIN(ListHeight, w.n)
    BY <1>2
  <1> HIDE DEF w, h, top, row
  <1>4. w \in [open : BOOLEAN, n : Nat, max_choice : Nat, choice : Int, scroll : Int,
               button : Int, shown : Int, rows : {w.rows}, picked : Int, stale : BOOLEAN]
    BY <1>1, <1>2 DEF NoItem
  <1>5. /\ w.n = n /\ w.max_choice = h /\ w.choice = row /\ w.scroll = top /\ w.shown = 0
        /\ w.button = button /\ w.rows = Fresh(h, top, row) /\ w.stale = (button # 0)
    BY <1>2
  <1>6. WindowTrue(w)
    BY <1>1, <1>5 DEF WindowTrue
  <1>7. ListTrue(w)
    BY <1>3, <1>4, <1>6 DEF ListTrue
  <1> QED BY <1>7 DEF w

\* A key that moves, given what the rows then are.
LEMMA ListMovedTrue ==
    ASSUME ListTrue(list), NEW c \in Int, NEW s \in Int, NEW rows,
           list.n > 0 => /\ c \in 0..list.max_choice - 1
                         /\ s \in 0..list.n - list.max_choice,
           ~list.stale => rows = Fresh(list.max_choice, s, c),
           list' = [list EXCEPT !.choice = c, !.scroll = s, !.rows = rows]
    PROVE  ListTrue(list')
  <1>1. /\ list'.choice = c /\ list'.scroll = s /\ list'.rows = rows /\ list'.n = list.n
        /\ list'.max_choice = list.max_choice /\ list'.stale = list.stale
        /\ list'.shown = list.shown /\ list'.button = list.button
    BY DEF ListTrue
  <1>2. list' \in [open : BOOLEAN, n : Nat, max_choice : Nat, choice : Int, scroll : Int,
                   button : Int, shown : Int, rows : {list'.rows}, picked : Int,
                   stale : BOOLEAN]
    BY <1>1 DEF ListTrue
  <1>3. WindowTrue(list')
    BY <1>1 DEF ListTrue, WindowTrue
  <1> QED BY <1>1, <1>2, <1>3 DEF ListTrue

LEMMA ListStepTrue ==
    ASSUME ListInv, list_next
    PROVE  ListInv'
  <1>1. list # ClosedList
    <2>1. list.open \/ list # ClosedList
      BY DEF list_next, list_up, list_down, list_hotkey, list_buttons, list_help, list_exit,
             list_resize, choice_again
    <2> QED BY <2>1 DEF ClosedList
  <1>2. ListTrue(list)
    BY <1>1 DEF ListInv
  <1> DEFINE n == list.n
             h == list.max_choice
             c == list.choice
             s == list.scroll
  <1>3. /\ n \in Nat /\ h \in Nat /\ c \in Int /\ s \in Int /\ list.button \in Int
        /\ list.picked \in Int /\ h = MIN(ListHeight, n)
    BY <1>2 DEF ListTrue
  <1>4. n > 0 => h \in 1..n /\ c \in 0..h - 1 /\ s \in 0..n - h
    BY <1>2 DEF ListTrue, WindowTrue
  <1>5. ~list.stale => list.rows = Fresh(h, s, c)
    BY <1>2 DEF ListTrue, WindowTrue
  <1>6. (n = 0 => h = 0) /\ h <= ListHeight /\ (h > 1 => ListHeight > 1) /\ ListHeight \in Nat
    BY <1>3, KMenuboxAssumption DEF MIN
  <1>7. ASSUME NEW i \in Int, n > 0 => i \in 0..h - 1, list_to(i)
        PROVE  ListTrue(list')
    <2>1. CASE i = c
      BY <1>2, <1>7, <2>1 DEF list_to
    <2>2. CASE i # c
      <3> DEFINE rows == print_item(print_item(list.rows, s + c, c, FALSE), s + i, i, TRUE)
      <3>1. list' = [list EXCEPT !.choice = i, !.scroll = s, !.rows = rows]
        <4>1. list' = [list EXCEPT !.choice = i, !.rows = rows]
          BY <1>7, <2>2 DEF list_to
        <4> HIDE DEF rows
        <4> QED BY <1>2, <4>1 DEF ListTrue
      <3>2. print_item(Fresh(h, s, c), s + c, c, FALSE) = Dark(h, s)
        BY <1>3, OffIs, Zenon
      <3>3. print_item(Dark(h, s), s + i, i, TRUE) = Fresh(h, s, i)
        BY <1>3, <1>7, OnIs, Zenon
      <3>4. ~list.stale => rows = Fresh(h, s, i)
        BY <1>5, <3>2, <3>3
      <3> HIDE DEF rows
      <3> QED BY <1>2, <1>3, <1>4, <1>7, <3>1, <3>4, ListMovedTrue
    <2> QED BY <2>1, <2>2
  <1>8. ASSUME NEW by \in {-1, 1}, c \in Int, n > 0 => c = IF by = 1 THEN h - 1 ELSE 0,
               n > 0 => s + by \in 0..n - h, list_scroll(by, c)
        PROVE  ListTrue(list')
    <2> DEFINE off == print_item(list.rows, s + c, c, FALSE)
               moved == IF ListHeight > 1 THEN scrolled(off, by) ELSE list.rows
               rows == print_item(moved, s + by + c, c, TRUE)
    <2>1. list' = [list EXCEPT !.choice = c, !.scroll = s + by, !.rows = rows]
      <3>1. list' = [list EXCEPT !.scroll = s + by, !.rows = rows]
        BY <1>8 DEF list_scroll
      <3> HIDE DEF rows
      <3> QED BY <1>2, <3>1 DEF ListTrue
    <2>2. s + by \in Int
      BY <1>3
    <2>3. ~list.stale => rows = Fresh(h, s + by, c)
      <3> SUFFICES ASSUME ~list.stale
                   PROVE  rows = Fresh(h, s + by, c)
        OBVIOUS
      <3>1. off = Dark(h, s)
        <4>1. print_item(Fresh(h, s, c), s + c, c, FALSE) = Dark(h, s)
          BY <1>3, OffIs, Zenon
        <4> QED BY <1>5, <4>1
      <3>2. CASE ListHeight > 1
        <4>1. h > 0 => c = IF by = 1 THEN h - 1 ELSE 0
          BY <1>3, <1>6, <1>8
        <4>2. print_item(scrolled(Dark(h, s), by), s + by + c, c, TRUE) = Fresh(h, s + by, c)
          BY <1>3, <1>8, <4>1, ScrollIs, Zenon
        <4>3. rows = print_item(scrolled(off, by), s + by + c, c, TRUE)
          BY <3>2
        <4> HIDE DEF rows, off
        <4> QED BY <3>1, <4>2, <4>3
      <3>3. CASE ~(ListHeight > 1)
        <4>1. rows = print_item(Fresh(h, s, c), s + by + c, c, TRUE)
          BY <1>5, <3>3
        <4>2. (h = 0 \/ (h = 1 /\ c = 0))
          BY <1>3, <1>4, <1>6, <3>3
        <4>3. \A t \in Int : print_item(Fresh(h, s, c), t + c, c, TRUE) = Fresh(h, t, c)
          <5> TAKE t \in Int
          <5>1. h \in Nat /\ s \in Int /\ c \in Int
            BY <1>3
          <5> HIDE DEF h, s, c
          <5>2. CASE h = 0
            BY <5>1, <5>2, FewRowsIs
          <5>3. CASE h = 1 /\ c = 0
            BY <5>1, <5>3, FewRowsIs
          <5> QED BY <4>2, <5>2, <5>3
        <4>4. print_item(Fresh(h, s, c), s + by + c, c, TRUE) = Fresh(h, s + by, c)
          BY <2>2, <4>3, Zenon
        <4> QED BY <4>1, <4>4
      <3> QED BY <3>2, <3>3
    <2> HIDE DEF rows
    <2> QED BY <1>2, <1>3, <1>4, <1>8, <2>1, <2>2, <2>3, ListMovedTrue
  <1>9. ASSUME list_up
        PROVE  ListTrue(list')
    <2>1. CASE c # 0
      <3>1. list_to(c - 1) /\ c - 1 \in Int /\ (n > 0 => c - 1 \in 0..h - 1)
        BY <1>3, <1>4, <1>9, <2>1 DEF list_up
      <3> QED BY <1>7, <3>1
    <2>2. CASE c = 0
      <3>1. s # 0 /\ list_scroll(-1, c)
        BY <1>9, <2>2 DEF list_up
      <3>2. n > 0 => s + (-1) \in 0..n - h
        BY <1>3, <1>4, <3>1
      <3>3. -1 \in {-1, 1} /\ (n > 0 => c = IF -1 = 1 THEN h - 1 ELSE 0)
        BY <2>2
      <3> QED BY <1>3, <1>8, <3>1, <3>2, <3>3
    <2> QED BY <2>1, <2>2
  <1>10. ASSUME list_down
         PROVE  ListTrue(list')
    <2>1. CASE c # h - 1
      <3>1. list_to(c + 1) /\ c + 1 \in Int /\ (n > 0 => c + 1 \in 0..h - 1)
        BY <1>3, <1>4, <1>10, <2>1 DEF list_down
      <3> QED BY <1>7, <3>1
    <2>2. CASE c = h - 1
      <3>1. s + c < n - 1 /\ list_scroll(1, c)
        BY <1>10, <2>2 DEF list_down
      <3>2. n > 0 => s + 1 \in 0..n - h
        BY <1>3, <1>4, <2>2, <3>1
      <3>3. 1 \in {-1, 1} /\ (n > 0 => c = IF 1 = 1 THEN h - 1 ELSE 0)
        BY <2>2
      <3> QED BY <1>3, <1>8, <3>1, <3>2, <3>3
    <2> QED BY <2>1, <2>2
  <1>11. ASSUME NEW i \in Items(ListHeight), list_hotkey(i)
         PROVE  ListTrue(list')
    <2>1. i \in Int /\ i \in 0..h - 1 /\ list_to(i)
      BY <1>3, <1>11 DEF list_hotkey, Items
    <2> QED BY <1>7, <2>1
  <1>12. ASSUME list_buttons
         PROVE  ListTrue(list')
    <2> DEFINE b == 1 - list.button
    <2>1. list' = [list EXCEPT !.button = b, !.shown = b]
      BY <1>12 DEF list_buttons
    <2>2. b \in Int
      BY <1>3
    <2> HIDE DEF b
    <2> QED BY <1>2, <2>1, <2>2 DEF ListTrue, WindowTrue
  <1>13. ASSUME list_help
         PROVE  ListTrue(list')
    <2> DEFINE p == IF s + c \in Items(n) THEN s + c ELSE NoItem
    <2>1. list' = [list EXCEPT !.open = FALSE, !.picked = p]
      BY <1>13 DEF list_help
    <2>2. p \in Int
      BY <1>3 DEF NoItem
    <2> HIDE DEF p
    <2> QED BY <1>2, <2>1, <2>2 DEF ListTrue, WindowTrue
  <1>14. ASSUME list_resize
         PROVE  ListTrue(list')
    <2>1. list' = DrawList(n, c, s, list.button)
      BY <1>14 DEF list_resize
    <2>2. n > 0 => /\ c \in 0..n - 1
                   /\ c < ListHeight => s \in 0..n - MIN(ListHeight, n)
      BY <1>3, <1>4
    <2>3. ListTrue(DrawList(n, c, s, list.button))
      BY <1>3, <2>2, DrawListTrue, Zenon
    <2> QED BY <2>1, <2>3
  <1>15. ASSUME choice_again
         PROVE  ListTrue(list')
    <2> DEFINE at == IF list.picked \in Items(n) THEN list.picked ELSE 0
    <2>1. list' = DrawList(n, at, 0, 0)
      <3>1. NoItem \notin Items(n)
        BY DEF NoItem, Items
      <3> QED BY <1>15, <3>1 DEF choice_again, dialog_checklist
    <2>2. /\ at \in Int /\ 0 \in Int
          /\ n > 0 => /\ at \in 0..n - 1
                      /\ at < ListHeight => 0 \in 0..n - MIN(ListHeight, n)
      BY <1>3, KMenuboxAssumption DEF Items, MIN
    <2> HIDE DEF at
    <2>3. ListTrue(DrawList(n, at, 0, 0))
      BY <1>3, <2>2, DrawListTrue, Zenon
    <2> QED BY <2>1, <2>3
  <1>16. ASSUME list_exit
         PROVE  list' = ClosedList
    BY <1>16 DEF list_exit
  <1> QED BY <1>9, <1>10, <1>11, <1>12, <1>13, <1>14, <1>15, <1>16 DEF list_next, ListInv

LEMMA ListOpensTrue ==
    ASSUME ListOpens
    PROVE  ListInv'
  <1>1. PICK n \in 0..MaxItems, x \in Items(MaxItems) \union {NoItem},
             selected \in Items(MaxItems) \union {NoItem} : dialog_checklist(n, x, selected)
    BY DEF ListOpens
  <1> DEFINE at == IF selected \in Items(n) THEN selected ELSE IF x \in Items(n) THEN x ELSE 0
  <1>2. list' = DrawList(n, at, 0, 0)
    BY <1>1 DEF dialog_checklist
  <1>3. /\ n \in Nat /\ at \in Int /\ 0 \in Int
        /\ n > 0 => /\ at \in 0..n - 1
                    /\ at < ListHeight => 0 \in 0..n - MIN(ListHeight, n)
    BY KMenuboxAssumption DEF Items, MIN, NoItem
  <1> HIDE DEF at
  <1>4. ListTrue(DrawList(n, at, 0, 0))
    BY <1>3, DrawListTrue, Zenon
  <1> QED BY <1>2, <1>4 DEF ListInv

\* What the two say of the screen.
LEMMA ListsShown == MenuInv /\ ListInv => ListsTrue
  <1>1. ASSUME NEW w, WindowTrue(w), ~w.stale, w.max_choice \in Nat
        PROVE  Shows(w)
    BY <1>1, FreshRows DEF WindowTrue, Shows, Items
  <1>2. MenuTrue(menu) => menu.max_choice \in Nat /\ WindowTrue(menu)
    BY DEF MenuTrue
  <1>3. ListTrue(list) => list.max_choice \in Nat /\ WindowTrue(list)
    BY DEF ListTrue
  <1>4. ~Closed.open /\ ~Crashed.open /\ ~ClosedList.open
    BY DEF Closed, Crashed, ClosedList
  <1> QED BY <1>1, <1>2, <1>3, <1>4 DEF MenuInv, ListInv, ListsTrue


-----------------------------------------------------------------------------
(* Reading a text.                                                           *)

Positions == [page : Nat, begin_reached : BOOLEAN, end_reached : BOOLEAN]
Texts == [open : BOOLEAN, lines : Nat \ {0}, tail : BOOLEAN, update_text : BOOLEAN,
          boxh : Nat \ {0}, top : Nat, at : Positions, page_length : Nat,
          keys : SUBSET Nat, vscroll : Nat]

\* A page that is printed.  With keys, a page that shows the end of the text
\* is as far up as the window allows: what print_page reads back.
Paged(t) ==
    /\ t.top <= End(t)
    /\ t.at.page = Least(t.top + t.boxh, End(t))
    /\ t.at.begin_reached <=> t.top = 0
    /\ t.at.end_reached <=> t.top + t.boxh > t.lines
    /\ t.page_length = IF t.lines - t.top < t.boxh THEN Most(t.lines - t.top, 0) + 1 ELSE t.boxh
    /\ t.update_text => /\ t.keys = t.top..t.at.page - 1
                        /\ t.top + t.boxh > t.lines => t.top = Most(End(t) - (t.boxh - 1), 0)

\* Where a page may be begun.
Placed(t, at) ==
    /\ at \in Positions /\ at.page <= End(t)
    /\ at.begin_reached <=> at.page = 0

TextTrueInv ==
    text # NOT_OPEN => /\ text \in Texts /\ Paged(text)
                       /\ ~text.open /\ ~text.tail => text.vscroll = text.top

LEMMA EndIs ==
    ASSUME NEW t \in Texts
    PROVE  /\ End(t) \in Nat /\ End(t) >= 1 /\ End(t) \in {t.lines, t.lines + 1}
           /\ ~t.tail => End(t) = t.lines
  BY DEF End, Lines, Texts

\* The page as a number, and the flags, after n lines forward or back.
LEMMA GetLinesIs ==
    ASSUME NEW t \in Texts, NEW at \in Positions, NEW n \in Nat, at.page <= End(t)
    PROVE  LET to == get_lines(t, at, n)
           IN  /\ to \in Positions /\ to.page = Least(at.page + n, End(t))
               /\ to.begin_reached = at.begin_reached
               /\ to.end_reached = (at.page + n > t.lines)
               /\ to.page <= End(t)
  BY EndIs DEF get_lines, At, Least, Positions

LEMMA BackLinesIs ==
    ASSUME NEW t \in Texts, NEW at \in Positions, NEW n \in Nat, at.page \in 1..End(t)
    PROVE  LET to == back_lines(t, at, n)
               m == IF n > 0 /\ at.page = End(t) /\ at.end_reached THEN n - 1 ELSE n
           IN  /\ Placed(t, to) /\ to.page = Most(at.page - m, 0)
  <1> DEFINE e == End(t)
             p == at.page
             empty == n > 0 /\ p = e /\ at.end_reached
             m == IF empty THEN n - 1 ELSE n
             page == Most(p - m, 0)
             begin == m > 0 /\ p <= m
             end == at.end_reached /\ ~empty
             to == back_lines(t, at, n)
  <1>1. p \in Nat /\ at.end_reached \in BOOLEAN /\ e \in Nat /\ p >= 1 /\ p <= e
    BY EndIs DEF Positions
  <1>2. m \in Nat /\ (m = 0 => Most(m, 0) = m) /\ (m > 0 => Most(m, 0) = m)
    BY DEF Most
  <1>3. to = [page |-> page, begin_reached |-> begin, end_reached |-> end]
    BY <1>2 DEF back_lines, At
  <1>4. page \in Nat /\ page <= p /\ (begin <=> page = 0) /\ begin \in BOOLEAN /\ end \in BOOLEAN
    <2> HIDE DEF p, m
    <2> QED BY <1>1, <1>2 DEF Most
  <1> HIDE DEF to, page, begin, end
  <1>5. to.page = page /\ to \in Positions /\ to.begin_reached = begin
    BY <1>3, <1>4 DEF Positions
  <1>6. Placed(t, to) /\ to.page = page
    BY <1>1, <1>4, <1>5 DEF Placed
  <1> QED BY <1>6 DEF to, page

\* A page that is printed is as Paged says, wherever it is begun.
LEMMA PrintPageIs ==
    ASSUME NEW t \in Texts, NEW at \in Positions, NEW boxh \in Nat \ {0},
           at.page <= End(t), ~t.update_text => (at.begin_reached <=> at.page = 0)
    PROVE  LET w == print_page(t, at, boxh)
           IN  /\ w \in Texts /\ Paged(w)
               /\ w.boxh = boxh /\ w.open = t.open /\ w.lines = t.lines /\ w.tail = t.tail
               /\ w.update_text = t.update_text /\ w.vscroll = t.vscroll
               /\ w.top = IF t.update_text /\ at.page + boxh > t.lines
                          THEN Most(End(t) - (boxh - 1), 0) ELSE at.page
  <1> DEFINE e == End(t)
             read == get_lines(t, at, boxh)
             from == IF t.update_text THEN back_lines(t, read, boxh) ELSE at
             to == get_lines(t, from, boxh)
             top == from.page
             length == IF t.lines - top < boxh THEN Most(t.lines - top, 0) + 1 ELSE boxh
             keys == IF t.update_text THEN top..read.page - 1 ELSE {}
             w == print_page(t, at, boxh)
  <1>1. /\ e \in Nat /\ e >= 1 /\ e \in {t.lines, t.lines + 1} /\ t.lines \in Nat
        /\ at.page \in Nat /\ boxh \in Nat /\ boxh >= 1
    BY EndIs DEF Texts, Positions
  <1>2. /\ read \in Positions /\ read.page = Least(at.page + boxh, e)
        /\ read.end_reached = (at.page + boxh > t.lines) /\ read.page \in 1..e
    <2>1. /\ read \in Positions /\ read.page = Least(at.page + boxh, e)
          /\ read.end_reached = (at.page + boxh > t.lines)
      BY GetLinesIs
    <2> QED BY <1>1, <2>1 DEF Least
  <1> HIDE DEF e, read
  <1>3. /\ Placed(t, from)
        /\ top = IF t.update_text /\ at.page + boxh > t.lines THEN Most(e - (boxh - 1), 0)
                 ELSE at.page
    <2>1. CASE ~t.update_text
      BY <2>1 DEF Placed
    <2>2. CASE t.update_text
      <3> DEFINE m == IF boxh > 0 /\ read.page = End(t) /\ read.end_reached THEN boxh - 1 ELSE boxh
      <3>1. Placed(t, from) /\ top = Most(read.page - m, 0)
        BY <1>1, <1>2, <2>2, BackLinesIs DEF e
      <3>2. Most(read.page - m, 0) = IF at.page + boxh > t.lines THEN Most(e - (boxh - 1), 0)
                                     ELSE at.page
        <4>1. CASE at.page + boxh > t.lines
          <5>1. read.page = e
            BY <1>1, <1>2, <4>1 DEF Least
          <5>2. m = boxh - 1
            <6>1. read.end_reached
              BY <1>2, <4>1
            <6>2. boxh > 0
              BY <1>1
            <6> QED BY <5>1, <6>1, <6>2 DEF e
          <5> QED BY <4>1, <5>1, <5>2
        <4>2. CASE ~(at.page + boxh > t.lines)
          <5>1. read.page = at.page + boxh
            BY <1>1, <1>2, <4>2 DEF Least
          <5>2. m = boxh
            BY <1>2, <4>2
          <5> HIDE DEF m
          <5> QED BY <1>1, <4>2, <5>1, <5>2 DEF Most
        <4> QED BY <4>1, <4>2
      <3> QED BY <2>2, <3>1, <3>2
    <2> QED BY <2>1, <2>2
  <1> HIDE DEF from
  <1>4. from \in Positions /\ top \in Nat /\ top <= e /\ (from.begin_reached <=> top = 0)
    BY <1>3 DEF Placed, Positions, e
  <1>5. /\ to \in Positions /\ to.page = Least(top + boxh, e)
        /\ to.begin_reached = from.begin_reached /\ to.end_reached = (top + boxh > t.lines)
    BY <1>1, <1>4, GetLinesIs DEF e
  <1>6. length \in Nat
    BY <1>1, <1>4 DEF Most
  <1>7. keys \subseteq Nat /\ (t.update_text => keys = top..to.page - 1)
    <2>1. t.update_text => to.page = read.page
      BY <1>1, <1>2, <1>3, <1>5 DEF Least, Most
    <2>2. top..read.page - 1 \subseteq Nat
      BY <1>2, <1>4
    <2> QED BY <2>1, <2>2
  <1>8. w = [t EXCEPT !.boxh = boxh, !.top = top, !.at = to, !.page_length = length, !.keys = keys]
    BY DEF print_page, from, read
  <1> HIDE DEF w, to, top, length, keys
  <1>9. /\ w.boxh = boxh /\ w.open = t.open /\ w.lines = t.lines /\ w.tail = t.tail
        /\ w.update_text = t.update_text /\ w.vscroll = t.vscroll /\ w.top = top
        /\ w.at = to /\ w.page_length = length /\ w.keys = keys
    BY <1>8 DEF Texts
  <1>10. w \in Texts
    BY <1>1, <1>4, <1>5, <1>6, <1>7, <1>8 DEF Texts
  <1>11. End(w) = e
    BY <1>9 DEF End, Lines, e
  <1>12. t.update_text /\ top + boxh > t.lines => top = Most(e - (boxh - 1), 0)
    BY <1>1, <1>3
  <1>13. Paged(w)
    BY <1>4, <1>5, <1>7, <1>9, <1>11, <1>12 DEF Paged, length
  <1>14. top = IF t.update_text /\ at.page + boxh > t.lines THEN Most(e - (boxh - 1), 0)
               ELSE at.page
    BY <1>3 DEF top
  <1> QED BY <1>9, <1>10, <1>13, <1>14 DEF w, e


\* The text when it opens, from the line that was remembered.
LEMMA OpenedIs ==
    ASSUME NEW t \in Texts, NEW vscroll \in Nat, NEW boxh \in Nat \ {0}
    PROVE  LET w == Opened(t, vscroll, boxh)
               page == Least(vscroll, End(t))
           IN  /\ w \in Texts /\ Paged(w)
               /\ w.boxh = boxh /\ w.open = t.open /\ w.lines = t.lines /\ w.tail = t.tail
               /\ w.update_text = t.update_text
               /\ w.top = IF t.update_text /\ page + boxh > t.lines
                          THEN Most(End(t) - (boxh - 1), 0) ELSE page
  <1> DEFINE start == At(0, TRUE, FALSE)
             none == [start EXCEPT !.begin_reached = FALSE]
             at == IF vscroll = 0 THEN start ELSE get_lines(t, none, vscroll)
  <1>1. End(t) \in Nat /\ End(t) >= 1
    BY EndIs
  <1>2. /\ start \in Positions /\ start.page = 0 /\ start.begin_reached
        /\ none \in Positions /\ none.page = 0 /\ ~none.begin_reached
    BY DEF At, Positions
  <1> HIDE DEF start, none
  <1>3. at \in Positions /\ at.page = Least(vscroll, End(t)) /\ at.page <= End(t)
        /\ (at.begin_reached <=> at.page = 0)
    <2>1. CASE vscroll = 0
      BY <1>1, <1>2, <2>1 DEF Least
    <2>2. CASE vscroll # 0
      <3> DEFINE to == get_lines(t, none, vscroll)
      <3>0. none.page <= End(t)
        BY <1>1, <1>2
      <3>1. /\ to \in Positions /\ to.page = Least(none.page + vscroll, End(t))
            /\ to.begin_reached = none.begin_reached /\ to.page <= End(t)
        BY <1>2, <3>0, GetLinesIs
      <3>2. none.page + vscroll = vscroll /\ Least(vscroll, End(t)) # 0
        BY <1>1, <1>2, <2>2 DEF Least
      <3>3. at = to
        BY <2>2
      <3> HIDE DEF to, at
      <3> QED BY <1>2, <3>1, <3>2, <3>3
    <2> QED BY <2>1, <2>2
  <1>4. Opened(t, vscroll, boxh) = print_page(t, at, boxh)
    BY DEF Opened, start, none
  <1> HIDE DEF at
  <1> QED BY <1>3, <1>4, PrintPageIs

LEMMA PageAt ==
    ASSUME NEW t \in Texts, Paged(t)
    PROVE  /\ t.at \in Positions /\ t.at.page \in 1..End(t) /\ t.page_length >= 1
           /\ t.top \in Nat /\ t.top <= End(t) /\ t.boxh \in Nat /\ t.boxh >= 1
           /\ t.page_length \in Nat /\ t.lines \in Nat /\ End(t) \in Nat
  <1>1. /\ t.at \in Positions /\ t.top \in Nat /\ t.boxh \in Nat /\ t.boxh >= 1
        /\ t.page_length \in Nat /\ t.lines \in Nat
    BY DEF Texts
  <1> QED BY <1>1, EndIs DEF Paged, Least, Most

\* As many lines back as the page has: where the page was begun.
LEMMA BackToTop ==
    ASSUME NEW t \in Texts, Paged(t), ~t.tail
    PROVE  back_lines(t, t.at, t.page_length).page = t.top
  <1> DEFINE e == End(t)
             n == t.page_length
             p == t.at.page
             m == IF n > 0 /\ p = e /\ t.at.end_reached THEN n - 1 ELSE n
  <1>1. /\ t.at \in Positions /\ p \in 1..e /\ n >= 1 /\ n \in Nat /\ t.top \in Nat
        /\ t.top <= e /\ t.boxh \in Nat /\ t.boxh >= 1 /\ t.lines \in Nat /\ e = t.lines
    BY PageAt, EndIs
  <1>2. back_lines(t, t.at, n).page = Most(p - m, 0)
    BY <1>1, BackLinesIs
  <1>3. /\ p = Least(t.top + t.boxh, e)
        /\ t.at.end_reached <=> t.top + t.boxh > t.lines
        /\ n = IF t.lines - t.top < t.boxh THEN Most(t.lines - t.top, 0) + 1 ELSE t.boxh
    BY DEF Paged
  <1> HIDE DEF e, n, p
  <1>4. CASE t.top + t.boxh > t.lines
    <2>1. p = t.lines /\ n = t.lines - t.top + 1
      BY <1>1, <1>3, <1>4 DEF Least, Most
    <2>2. m = n - 1
      BY <1>1, <1>3, <1>4, <2>1
    <2> QED BY <1>1, <1>2, <2>1, <2>2 DEF Most, n
  <1>5. CASE ~(t.top + t.boxh > t.lines)
    <2>1. p = t.top + t.boxh /\ n = t.boxh
      BY <1>1, <1>3, <1>5 DEF Least
    <2>2. m = n
      BY <1>3, <1>5
    <2> QED BY <1>1, <1>2, <2>1, <2>2 DEF Most, n
  <1> QED BY <1>4, <1>5

LEMMA TextStepTrue ==
    ASSUME TextTrueInv, text_next
    PROVE  TextTrueInv'
  <1>1. text # NOT_OPEN
    BY DEF text_next, text_home, text_end, text_up, text_down, text_page_down, text_sideways,
           text_resize, text_done, text_again, Reading
  <1>2. text \in Texts /\ Paged(text) /\ (~text.open /\ ~text.tail => text.vscroll = text.top)
    BY <1>1 DEF TextTrueInv
  <1>3. /\ text.at \in Positions /\ text.at.page \in 1..End(text) /\ text.page_length >= 1
        /\ text.boxh \in Nat \ {0} /\ text.page_length \in Nat /\ End(text) \in Nat
        /\ End(text) >= 1
    BY <1>2, PageAt, EndIs
  <1>4. ASSUME NEW at, Placed(text, at), NEW boxh \in Nat \ {0}, text.open,
               text' = print_page(text, at, boxh)
        PROVE  TextTrueInv'
    <2>1. at \in Positions /\ at.page <= End(text) /\ (at.begin_reached <=> at.page = 0)
      BY <1>4 DEF Placed
    <2>2. /\ print_page(text, at, boxh) \in Texts /\ Paged(print_page(text, at, boxh))
          /\ print_page(text, at, boxh).open = text.open
      BY <1>2, <2>1, PrintPageIs
    <2> QED BY <1>4, <2>2 DEF TextTrueInv
  <1>5. ASSUME NEW n \in Nat
        PROVE  Placed(text, PageBack(n))
    BY <1>2, <1>3, BackLinesIs DEF PageBack
  <1>6. CASE text_home
    <2> DEFINE at == At(0, TRUE, text.at.end_reached)
    <2>1. Placed(text, at)
      BY <1>3 DEF Placed, At, Positions
    <2>2. text' = print_page(text, at, text.boxh) /\ text.open
      BY <1>6 DEF text_home, Page, Reading
    <2> QED BY <1>3, <1>4, <2>1, <2>2
  <1>7. CASE text_end
    <2> DEFINE end == At(End(text), text.at.begin_reached, TRUE)
               at == back_lines(text, end, text.boxh)
    <2>1. end \in Positions /\ end.page \in 1..End(text)
      BY <1>3 DEF At, Positions
    <2>2. text' = print_page(text, at, text.boxh) /\ text.open
      BY <1>7 DEF text_end, Page, Reading
    <2> HIDE DEF end
    <2>3. Placed(text, at)
      <3>1. text.boxh \in Nat
        BY <1>3
      <3> QED BY <1>2, <2>1, <3>1, BackLinesIs
    <2> QED BY <1>3, <1>4, <2>2, <2>3
  <1>8. ASSUME NEW paged \in BOOLEAN, text_up(paged)
        PROVE  TextTrueInv'
    <2> DEFINE n == text.page_length + IF paged THEN text.boxh ELSE 1
    <2>1. text' = print_page(text, PageBack(n), text.boxh) /\ text.open
      BY <1>8 DEF text_up, Page, Reading
    <2>2. n \in Nat
      BY <1>3
    <2> HIDE DEF n
    <2> QED BY <1>3, <1>4, <1>5, <2>1, <2>2
  <1>9. CASE text_down
    <2>1. text' = print_page(text, PageBack(text.page_length - 1), text.boxh) /\ text.open
      BY <1>9 DEF text_down, Page, Reading
    <2>2. text.page_length - 1 \in Nat
      BY <1>3
    <2> QED BY <1>3, <1>4, <1>5, <2>1, <2>2
  <1>10. CASE text_page_down
    <2> DEFINE at == [text.at EXCEPT !.begin_reached = FALSE]
    <2>1. text' = print_page(text, at, text.boxh) /\ text.open
      BY <1>10 DEF text_page_down, Page, Reading
    <2>2. Placed(text, at)
      <3>1. at \in Positions /\ at.page = text.at.page /\ at.begin_reached = FALSE
        BY <1>3 DEF Positions
      <3> HIDE DEF at
      <3> QED BY <1>3, <3>1 DEF Placed
    <2> QED BY <1>3, <1>4, <2>1, <2>2
  <1>11. CASE text_sideways
    <2>1. text' = print_page(text, PageBack(text.page_length), text.boxh) /\ text.open
      BY <1>11 DEF text_sideways, Page, Reading
    <2> QED BY <1>3, <1>4, <1>5, <2>1
  <1>12. ASSUME NEW boxh \in BoxHeights, text_resize(boxh)
         PROVE  TextTrueInv'
    <2>1. text' = print_page(text, PageBack(text.boxh + 4), boxh) /\ text.open
      BY <1>12 DEF text_resize, Reading
    <2>2. text.boxh + 4 \in Nat /\ boxh \in Nat \ {0}
      BY <1>3, KTextboxAssumption
    <2> QED BY <1>4, <1>5, <2>1, <2>2
  <1>13. ASSUME NEW jump \in BOOLEAN, text_done(jump)
         PROVE  TextTrueInv'
    <2>1. CASE ~jump
      BY <1>13, <2>1 DEF text_done, TextTrueInv
    <2>2. CASE jump
      <3> DEFINE v == PageBack(text.page_length).page
      <3>1. text' = [text EXCEPT !.open = FALSE, !.vscroll = v]
        BY <1>13, <2>2 DEF text_done
      <3>2. v \in Nat
        BY <1>3, <1>5 DEF Placed, Positions
      <3>3. ~text.tail => v = text.top
        BY <1>2, BackToTop DEF PageBack
      <3> HIDE DEF v
      <3>4. /\ text' \in Texts /\ text'.vscroll = v /\ text'.tail = text.tail
            /\ text'.top = text.top /\ text'.lines = text.lines /\ text'.at = text.at
            /\ text'.boxh = text.boxh /\ text'.page_length = text.page_length
            /\ text'.keys = text.keys /\ text'.update_text = text.update_text
        BY <1>2, <3>1, <3>2 DEF Texts
      <3>5. Paged(text')
        BY <1>2, <3>4 DEF Paged, End, Lines
      <3> QED BY <3>3, <3>4, <3>5 DEF TextTrueInv
    <2> QED BY <1>13, <2>1, <2>2
  <1>14. ASSUME NEW boxh \in BoxHeights, text_again(boxh)
         PROVE  TextTrueInv'
    <2> DEFINE t == [text EXCEPT !.open = TRUE]
    <2>1. text' = Opened(t, text.vscroll, boxh)
      BY <1>14 DEF text_again
    <2>2. t \in Texts /\ t.open /\ text.vscroll \in Nat /\ boxh \in Nat \ {0}
      BY <1>2, KTextboxAssumption DEF Texts
    <2> HIDE DEF t
    <2>3. /\ Opened(t, text.vscroll, boxh) \in Texts /\ Paged(Opened(t, text.vscroll, boxh))
          /\ Opened(t, text.vscroll, boxh).open = t.open
      BY <2>2, OpenedIs
    <2> QED BY <2>1, <2>2, <2>3 DEF TextTrueInv
  <1> QED BY <1>6, <1>7, <1>8, <1>9, <1>10, <1>11, <1>12, <1>13, <1>14 DEF text_next

LEMMA TextOpensTrue ==
    ASSUME TextOpens
    PROVE  TextTrueInv'
  <1>1. PICK lines \in 1..MaxLines, tail \in BOOLEAN, update_text \in BOOLEAN, boxh \in BoxHeights :
            dialog_textbox(lines, tail, update_text, boxh)
    BY DEF TextOpens
  <1> DEFINE t == [open |-> TRUE, lines |-> lines, tail |-> tail,
                   update_text |-> update_text, boxh |-> boxh, top |-> 0,
                   at |-> At(0, TRUE, FALSE), page_length |-> 0, keys |-> {}, vscroll |-> 0]
  <1>2. text' = Opened(t, 0, boxh)
    BY <1>1 DEF dialog_textbox
  <1>3. t \in Texts /\ t.open /\ boxh \in Nat \ {0} /\ 0 \in Nat
    BY KTextboxAssumption DEF Texts, At, Positions
  <1> HIDE DEF t
  <1>4. Opened(t, 0, boxh) \in Texts /\ Paged(Opened(t, 0, boxh)) /\ Opened(t, 0, boxh).open = t.open
    BY <1>3, OpenedIs, Zenon
  <1> QED BY <1>2, <1>3, <1>4 DEF TextTrueInv

LEMMA TextShown == TextTrueInv => TextTrue
  <1> SUFFICES ASSUME TextTrueInv, Reading
               PROVE  TextTrue
    BY DEF TextTrue
  <1>1. text \in Texts /\ Paged(text)
    BY DEF TextTrueInv, Reading
  <1>2. text.update_text => text.keys = InWindow
    <2> SUFFICES ASSUME text.update_text
                 PROVE  text.keys = InWindow
      OBVIOUS
    <2>1. /\ text.keys = text.top..text.at.page - 1
          /\ text.at.page = Least(text.top + text.boxh, End(text))
          /\ text.top \in Nat /\ text.boxh \in Nat /\ End(text) \in Nat
      BY <1>1, PageAt DEF Paged
    <2>2. InWindow = {l \in 0..End(text) - 1 : text.top <= l /\ l < text.top + text.boxh}
      BY DEF InWindow, End
    <2> QED BY <2>1, <2>2 DEF Least
  <1> QED BY <1>1, <1>2 DEF TextTrue, Paged


-----------------------------------------------------------------------------
(* The lists of nconfig.                                                     *)

\* The cursor is on an item of the window, and the window in the list.
Inside(m) == m.top \in 0..m.n - Window(m.n) /\ m.cur \in m.top..m.top + Window(m.n) - 1

Listed(m) ==
    m \in [open : BOOLEAN, n : Nat \ {0}, top : Int, cur : Int, active : Int,
           last_top_row : Int, in_search : BOOLEAN, direction : {m.direction},
           pattern : {m.pattern}, hung : BOOLEAN]

\* A list that is left remembers its top row, and that nothing is looked for.
NMenuTrue(m) ==
    /\ Listed(m) /\ Inside(m)
    /\ m.pattern \in Seq(SUBSET Rows(m.n))
    /\ ~m.open => m.last_top_row = m.top /\ ~m.in_search /\ m.pattern = <<>>

NMenuInv == nmenu # NO_MENU => NMenuTrue(nmenu)

LEMMA WindowIs ==
    ASSUME NEW n \in Nat \ {0}
    PROVE  Window(n) \in Nat /\ Window(n) >= 1 /\ Window(n) <= n /\ Window(n) <= mwin_max_lines
  BY KNMenuAssumption DEF Window

\* Fields that neither set_top_row nor set_current_item changes.
Same(m, w) ==
    /\ w.open = m.open /\ w.n = m.n /\ w.active = m.active /\ w.in_search = m.in_search
    /\ w.direction = m.direction /\ w.pattern = m.pattern /\ w.hung = m.hung

LEMMA SetTopIs ==
    ASSUME NEW m, Listed(m), Inside(m), NEW row \in Int
    PROVE  LET w == set_top_row(m, row)
           IN  /\ Listed(w) /\ Inside(w) /\ Same(m, w) /\ w.last_top_row = m.last_top_row
               /\ row \in 0..m.n - Window(m.n) => w.top = row
  <1> DEFINE w == set_top_row(m, row)
  <1>1. CASE row \in 0..m.n - Window(m.n) /\ row # m.top
    <2>1. w = [m EXCEPT !.top = row, !.cur = row]
      BY <1>1 DEF set_top_row
    <2> HIDE DEF w
    <2>2. w.top = row /\ w.cur = row /\ Same(m, w) /\ w.last_top_row = m.last_top_row
      BY <2>1 DEF Listed, Same
    <2>3. Listed(w)
      BY <2>1, <2>2 DEF Listed, Same
    <2>4. m.n \in Nat \ {0}
      BY DEF Listed
    <2>5. Window(m.n) \in Nat /\ Window(m.n) >= 1
      BY <2>4, WindowIs
    <2>6. Inside(w)
      <3>1. w.n = m.n
        BY <2>2 DEF Same
      <3> QED BY <1>1, <2>2, <2>4, <2>5, <3>1 DEF Inside
    <2> QED BY <1>1, <2>2, <2>3, <2>6 DEF w
  <1>2. CASE ~(row \in 0..m.n - Window(m.n) /\ row # m.top)
    <2>1. w = m
      BY <1>2 DEF set_top_row
    <2> QED BY <1>2, <2>1 DEF Same
  <1> QED BY <1>1, <1>2

LEMMA SetCurrentIs ==
    ASSUME NEW m, Listed(m), Inside(m), NEW item \in Int
    PROVE  LET w == set_current_item(m, item)
           IN  /\ Listed(w) /\ Inside(w) /\ Same(m, w) /\ w.last_top_row = m.last_top_row
               /\ item \in Rows(m.n) => w.cur = item
               /\ item \in m.top..m.top + Window(m.n) - 1 => w.top = m.top
  <1> DEFINE w == set_current_item(m, item)
             k == Window(m.n)
             top == IF item < m.top THEN item
                    ELSE IF item >= m.top + k THEN item - k + 1 ELSE m.top
  <1>1. m.n \in Nat \ {0} /\ m.top \in Int /\ m.cur \in Int
    BY DEF Listed
  <1>2. k \in Nat /\ k >= 1 /\ k <= m.n
    BY <1>1, WindowIs
  <1>3. m.top \in 0..m.n - k /\ m.cur \in m.top..m.top + k - 1
    BY DEF Inside
  <1> HIDE DEF k
  <1>4. CASE item \in Rows(m.n)
    <2>1. w = [m EXCEPT !.cur = item, !.top = top]
      BY <1>4 DEF set_current_item, k
    <2>2. /\ top \in 0..m.n - k /\ item \in top..top + k - 1
          /\ item \in m.top..m.top + k - 1 => top = m.top
      BY <1>1, <1>2, <1>3, <1>4 DEF Rows
    <2> HIDE DEF w, top
    <2>3. w.top = top /\ w.cur = item /\ Same(m, w) /\ w.last_top_row = m.last_top_row
      BY <2>1 DEF Listed, Same
    <2>4. Listed(w)
      <3>1. top \in Int
        BY <1>1, <1>2, <2>2
      <3> QED BY <2>1, <2>3, <3>1 DEF Listed, Same
    <2>5. Inside(w)
      <3>1. w.n = m.n
        BY <2>3 DEF Same
      <3> QED BY <2>2, <2>3, <3>1 DEF Inside, k
    <2> QED BY <2>2, <2>3, <2>4, <2>5 DEF w, k
  <1>5. CASE item \notin Rows(m.n)
    <2>1. w = m
      BY <1>5 DEF set_current_item
    <2> QED BY <1>5, <2>1 DEF Same
  <1> QED BY <1>4, <1>5

\* With last_top_row, the top row it finds is the one it leaves when the item
\* is in the window already.
LEMMA CenterIs ==
    ASSUME NEW m, Listed(m), Inside(m), NEW selected \in Int
    PROVE  LET w == center_item(m, selected)
           IN  /\ Listed(w) /\ Inside(w) /\ Same(m, w)
               /\ selected \in Rows(m.n) => w.cur = selected
               /\ /\ m.last_top_row \in 0..m.n - Window(m.n)
                  /\ selected \in m.last_top_row..m.last_top_row + Window(m.n) - 1
                  => w.top = m.last_top_row
  <1> DEFINE shown == set_top_row(m, m.last_top_row)
             half == IF selected > mwin_max_lines \div 2
                     THEN selected - mwin_max_lines \div 2 ELSE 0
             toprow == IF half < m.n - mwin_max_lines THEN half ELSE m.n - mwin_max_lines
             out == selected < shown.top \/ selected >= shown.top + mwin_max_lines
             at == IF out THEN toprow ELSE shown.top
             set == set_top_row(shown, at)
             cur == set_current_item(set, selected)
             w == center_item(m, selected)
  <1>1. m.n \in Nat \ {0} /\ m.last_top_row \in Int
    BY DEF Listed
  <1>2. /\ Listed(shown) /\ Inside(shown) /\ Same(m, shown)
        /\ m.last_top_row \in 0..m.n - Window(m.n) => shown.top = m.last_top_row
    BY <1>1, SetTopIs
  <1>3. w = [cur EXCEPT !.last_top_row = at]
    BY DEF center_item
  <1> HIDE DEF shown
  <1>4. shown.top \in Int /\ shown.n = m.n
    BY <1>2 DEF Listed, Same
  <1>5. at \in Int
    BY <1>1, <1>4, KNMenuAssumption
  <1>6. Window(m.n) \in Nat /\ Window(m.n) <= mwin_max_lines /\ mwin_max_lines \in Nat
    BY <1>1, WindowIs, KNMenuAssumption
  <1>7. selected \in shown.top..shown.top + Window(m.n) - 1 => at = shown.top
    BY <1>4, <1>6
  <1> HIDE DEF at
  <1>8. /\ Listed(set) /\ Inside(set) /\ Same(shown, set)
        /\ at \in 0..shown.n - Window(shown.n) => set.top = at
    BY <1>2, <1>5, SetTopIs
  <1> HIDE DEF set
  <1>9. /\ Listed(cur) /\ Inside(cur) /\ Same(set, cur)
        /\ selected \in Rows(set.n) => cur.cur = selected
        /\ selected \in set.top..set.top + Window(set.n) - 1 => cur.top = set.top
    BY <1>8, SetCurrentIs
  <1> HIDE DEF cur, w
  <1>10. Same(m, cur) /\ set.n = m.n
    BY <1>2, <1>8, <1>9 DEF Same
  <1>11. w.top = cur.top /\ w.cur = cur.cur /\ Same(m, w)
    BY <1>3, <1>9, <1>10 DEF Listed, Same
  <1>12. Listed(w)
    BY <1>3, <1>5, <1>9, <1>10, <1>11 DEF Listed, Same
  <1>13. Inside(w)
    <2>1. w.n = cur.n
      BY <1>10, <1>11 DEF Same
    <2> QED BY <1>9, <1>11, <2>1 DEF Inside
  <1>14. selected \in Rows(m.n) => w.cur = selected
    BY <1>9, <1>10, <1>11
  <1>15. ASSUME m.last_top_row \in 0..m.n - Window(m.n),
                selected \in m.last_top_row..m.last_top_row + Window(m.n) - 1
         PROVE  w.top = m.last_top_row
    <2>1. shown.top = m.last_top_row
      BY <1>2, <1>15
    <2>2. at = m.last_top_row
      BY <1>7, <1>15, <2>1
    <2>3. set.top = m.last_top_row
      BY <1>4, <1>8, <1>15, <2>2
    <2> QED BY <1>9, <1>10, <1>11, <1>15, <2>3
  <1> QED BY <1>11, <1>12, <1>13, <1>14, <1>15 DEF w


\* The list is shown from its first row; the window has the selected item, and
\* is where it was when that is where the item is.
LEMMA ShownIs ==
    ASSUME NEW m, Listed(m), NEW n \in Nat \ {0}, NEW selected \in Int
    PROVE  LET w == show_menu(m, n, selected)
           IN  /\ Listed(w) /\ Inside(w) /\ w.open /\ w.n = n
               /\ w.active = m.active /\ w.in_search = m.in_search
               /\ w.pattern = m.pattern /\ w.direction = m.direction /\ w.hung = m.hung
               /\ selected \in Rows(n) => w.cur = selected
               /\ /\ m.last_top_row \in 0..n - Window(n)
                  /\ selected \in m.last_top_row..m.last_top_row + Window(n) - 1
                  => w.top = m.last_top_row
  <1> DEFINE list0 == [m EXCEPT !.open = TRUE, !.n = n, !.top = 0, !.cur = 0]
  <1>1. show_menu(m, n, selected) = center_item(list0, selected)
    BY DEF show_menu
  <1>2. /\ list0.open = TRUE /\ list0.n = n /\ list0.top = 0 /\ list0.cur = 0
        /\ list0.active = m.active /\ list0.in_search = m.in_search
        /\ list0.pattern = m.pattern /\ list0.direction = m.direction /\ list0.hung = m.hung
        /\ list0.last_top_row = m.last_top_row
    BY DEF Listed
  <1>3. Listed(list0)
    <2> DEFINE opened == [m EXCEPT !.open = TRUE]
               filled == [opened EXCEPT !.n = n]
               atTop == [filled EXCEPT !.top = 0]
               atFirst == [atTop EXCEPT !.cur = 0]
    <2>1. Listed(opened)
      BY DEF Listed
    <2> HIDE DEF opened
    <2>2. Listed(filled)
      BY <2>1 DEF Listed
    <2> HIDE DEF filled
    <2>3. Listed(atTop)
      BY <2>2 DEF Listed
    <2> HIDE DEF atTop
    <2>4. Listed(atFirst)
      BY <2>3 DEF Listed
    <2>5. list0 = atFirst
      BY DEF opened, filled, atTop
    <2> QED BY <2>4, <2>5
  <1> HIDE DEF list0
  <1>4. Window(n) \in Nat /\ Window(n) >= 1 /\ Window(n) <= n
    BY WindowIs
  <1>5. Inside(list0)
    BY <1>2, <1>4 DEF Inside
  <1> DEFINE w == center_item(list0, selected)
  <1>6. /\ Listed(w) /\ Inside(w) /\ Same(list0, w)
        /\ selected \in Rows(list0.n) => w.cur = selected
        /\ /\ list0.last_top_row \in 0..list0.n - Window(list0.n)
           /\ selected \in list0.last_top_row..list0.last_top_row + Window(list0.n) - 1
           => w.top = list0.last_top_row
    BY <1>3, <1>5, CenterIs
  <1> HIDE DEF w
  <1> QED BY <1>1, <1>2, <1>6 DEF Same, w

\* A nonempty set of naturals has a least element.
LEMMA Smallest ==
    ASSUME NEW S \in SUBSET Nat, S # {}
    PROVE  \E n \in S : \A m \in S : n <= m
  <1> DEFINE lesser == {p \in Nat \X Nat : p[1] < p[2]}
  <1>1. IsWellFoundedOn(lesser, Nat)
    BY NatLessThanWellFounded DEF OpToRel
  <1> HIDE DEF lesser
  <1>2. PICK n \in S : \A m \in S : ~(<<m, n>> \in lesser)
    BY <1>1, WFMin
  <1>3. \A m \in S : m < n => <<m, n>> \in lesser
    BY DEF lesser
  <1>4. ASSUME NEW m \in S
        PROVE  n <= m
    <2>1. m \in Nat /\ n \in Nat
      OBVIOUS
    <2>2. ~(m < n)
      BY <1>2, <1>3
    <2> QED BY <2>1, <2>2
  <1> QED BY <1>4

\* The walk from match_start, and the first of its items that is a hit.
Step(flag) == IF flag \in Down THEN 1 ELSE -1
Origin(flag) == IF flag \in Arrows THEN nmenu.cur + Step(flag) ELSE nmenu.cur
Passed(flag, d) == (Origin(flag) + nmenu.n + Step(flag) * d) % nmenu.n

LEMMA RestIs ==
    ASSUME NEW i \in Int, NEW n \in Nat \ {0}
    PROVE  i % n \in 0..n - 1
  OBVIOUS

LEMMA MatchIs ==
    ASSUME NEW hits, NEW flag
    PROVE  LET to == get_mext_match(hits, flag)
               found == {d \in 0..nmenu.n - 1 : Passed(flag, d) \in hits}
           IN  \/ \E d \in found : to = Passed(flag, d) /\ \A e \in found : d <= e
               \/ found = {} /\ to = IF Origin(flag) \in Rows(nmenu.n) THEN Nowhere ELSE ForEver
  <1> DEFINE walk == [d \in 0..nmenu.n - 1 |-> Passed(flag, d)]
             hit == {d \in DOMAIN walk : walk[d] \in hits}
             first == CHOOSE d \in hit : \A e \in hit : d <= e
             found == {d \in 0..nmenu.n - 1 : Passed(flag, d) \in hits}
             to == get_mext_match(hits, flag)
  <1>1. to = IF hit # {} THEN walk[first]
             ELSE IF Origin(flag) \in Rows(nmenu.n) THEN Nowhere ELSE ForEver
    BY Zenon DEF get_mext_match, Passed, Origin, Step
  <1>2. hit = found /\ hit \in SUBSET Nat
    OBVIOUS
  <1>3. \A d \in hit : walk[d] = Passed(flag, d)
    OBVIOUS
  <1> HIDE DEF to, walk, hit, found
  <1>4. CASE hit # {}
    <2>1. \E d \in hit : \A e \in hit : d <= e
      BY <1>2, <1>4, Smallest
    <2>2. first \in hit /\ \A e \in hit : first <= e
      BY <2>1, Zenon
    <2> HIDE DEF first
    <2>3. to = Passed(flag, first)
      BY <1>1, <1>3, <1>4, <2>2
    <2>4. \E d \in found : to = Passed(flag, d) /\ \A e \in found : d <= e
      BY <1>2, <2>2, <2>3
    <2> QED BY <2>4 DEF to, found
  <1>5. CASE hit = {}
    <2>1. found = {} /\ to = IF Origin(flag) \in Rows(nmenu.n) THEN Nowhere ELSE ForEver
      BY <1>1, <1>2, <1>5
    <2> QED BY <2>1 DEF to, found
  <1> QED BY <1>4, <1>5

LEMMA MatchTyped ==
    ASSUME NMenuTrue(nmenu), NEW hits, NEW flag
    PROVE  get_mext_match(hits, flag) \in Int
  <1> DEFINE found == {d \in 0..nmenu.n - 1 : Passed(flag, d) \in hits}
             to == get_mext_match(hits, flag)
  <1>1. nmenu.n \in Nat \ {0} /\ nmenu.cur \in Int
    BY DEF NMenuTrue, Listed
  <1>2. ASSUME NEW d \in 0..nmenu.n - 1
        PROVE  Passed(flag, d) \in Int
    <2>1. Step(flag) \in Int /\ d \in Int
      BY <1>1 DEF Step
    <2>2. Origin(flag) \in Int /\ Step(flag) * d \in Int
      BY <1>1, <2>1 DEF Origin
    <2>3. Origin(flag) + nmenu.n + Step(flag) * d \in Int
      BY <1>1, <2>2
    <2> QED BY <1>1, <2>3, RestIs DEF Passed
  <1>3. \/ \E d \in found : to = Passed(flag, d) /\ \A e \in found : d <= e
        \/ found = {} /\ to = IF Origin(flag) \in Rows(nmenu.n) THEN Nowhere ELSE ForEver
    BY MatchIs
  <1>4. Nowhere \in Int /\ ForEver \in Int
    BY DEF Nowhere, ForEver
  <1> HIDE DEF to
  <1>5. to \in Int
    BY <1>2, <1>3, <1>4
  <1> QED BY <1>5 DEF to

\* A list whose search has found something, or has not.
LEMMA LookTrue ==
    ASSUME NMenuInv, Searching, NEW pattern \in Seq(SUBSET Rows(nmenu.n)),
           NEW hits, NEW flag, look(pattern, hits, flag)
    PROVE  NMenuInv'
  <1> DEFINE m == [nmenu EXCEPT !.pattern = pattern, !.direction = flag]
             to == get_mext_match(hits, flag)
  <1>1. NMenuTrue(nmenu) /\ nmenu.open
    BY DEF NMenuInv, Searching, Listing
  <1>2. /\ m.pattern = pattern /\ m.direction = flag /\ m.open /\ m.n = nmenu.n
        /\ m.top = nmenu.top /\ m.cur = nmenu.cur
    BY <1>1 DEF NMenuTrue, Listed
  <1>3. Listed(m)
    BY <1>1, <1>2 DEF NMenuTrue, Listed
  <1>4. Inside(m)
    BY <1>1, <1>2 DEF NMenuTrue, Inside
  <1>5. nmenu' = IF to = ForEver THEN [m EXCEPT !.hung = TRUE]
                 ELSE IF to = Nowhere THEN m ELSE center_item(m, to)
    BY DEF look
  <1>6. to \in Int
    BY <1>1, MatchTyped
  <1> HIDE DEF to
  <1>7. nmenu.pattern \in Seq(SUBSET Rows(nmenu.n))
    BY <1>1 DEF NMenuTrue
  <1>8. CASE to = ForEver
    <2> DEFINE w == [m EXCEPT !.hung = TRUE]
    <2>1. nmenu' = w
      BY <1>5, <1>8
    <2>2. /\ w.open /\ w.n = nmenu.n /\ w.top = m.top /\ w.cur = m.cur
          /\ w.pattern = pattern /\ w.direction = flag
      BY <1>2, <1>3 DEF Listed
    <2>3. Listed(w)
      BY <1>2, <1>3, <2>2 DEF Listed
    <2> HIDE DEF w, m
    <2>4. Inside(w)
      BY <1>2, <1>4, <2>2 DEF Inside
    <2> QED BY <2>1, <2>2, <2>3, <2>4 DEF NMenuInv, NMenuTrue
  <1> HIDE DEF m
  <1>9. CASE to = Nowhere /\ to # ForEver
    BY <1>2, <1>3, <1>4, <1>5, <1>9 DEF NMenuInv, NMenuTrue
  <1>10. CASE to # Nowhere /\ to # ForEver
    <2> DEFINE w == center_item(m, to)
    <2>1. nmenu' = w
      BY <1>5, <1>10
    <2>2. Listed(w) /\ Inside(w) /\ Same(m, w)
      BY <1>3, <1>4, <1>6, <1>10, CenterIs
    <2> HIDE DEF w
    <2> QED BY <1>2, <2>1, <2>2 DEF NMenuInv, NMenuTrue, Same
  <1> QED BY <1>8, <1>9, <1>10


LEMMA NMenuStepTrue ==
    ASSUME NMenuInv, nmenu_next
    PROVE  NMenuInv'
  <1>1. nmenu # NO_MENU => NMenuTrue(nmenu)
    BY DEF NMenuInv
  <1>2. ASSUME NEW key \in {"down", "up", "npage", "ppage", "home", "end"}, nmenu_key(key)
        PROVE  NMenuInv'
    <2>1. NMenuTrue(nmenu) /\ nmenu.open
      BY <1>1, <1>2 DEF nmenu_key, Listing
    <2>2. /\ nmenu.n \in Nat \ {0} /\ nmenu.cur \in Int
          /\ Window(nmenu.n) \in Nat
      BY <2>1, WindowIs DEF NMenuTrue, Listed
    <2> DEFINE to == [down |-> nmenu.cur + 1, up |-> nmenu.cur - 1,
                      npage |-> nmenu.cur + Window(nmenu.n), ppage |-> nmenu.cur - Window(nmenu.n),
                      home |-> 0, end |-> nmenu.n - 1][key]
               item == IF to < 0 THEN 0 ELSE IF to >= nmenu.n THEN nmenu.n - 1 ELSE to
               m == set_current_item(nmenu, item)
    <2>3. nmenu' = [m EXCEPT !.in_search = FALSE, !.pattern = <<>>]
      BY <1>2 DEF nmenu_key
    <2>4. to \in Int
      BY <2>2
    <2> HIDE DEF to
    <2>5. item \in Int
      BY <2>2, <2>4
    <2> HIDE DEF item
    <2>6. Listed(m) /\ Inside(m) /\ Same(nmenu, m)
      BY <2>1, <2>5, SetCurrentIs DEF NMenuTrue
    <2> HIDE DEF m
    <2> DEFINE v == [m EXCEPT !.in_search = FALSE]
    <2>7. nmenu' = [v EXCEPT !.pattern = <<>>]
      BY <2>3
    <2>8. Listed(v)
      BY <2>6 DEF Listed
    <2>9. v.open = m.open /\ v.n = m.n /\ v.top = m.top /\ v.cur = m.cur
      BY <2>6 DEF Listed
    <2> HIDE DEF v
    <2>10. /\ nmenu'.open = v.open /\ nmenu'.n = v.n /\ nmenu'.top = v.top /\ nmenu'.cur = v.cur
           /\ nmenu'.pattern = <<>> /\ nmenu'.direction = v.direction
      BY <2>7, <2>8 DEF Listed
    <2>11. Listed(nmenu')
      BY <2>7, <2>8, <2>10 DEF Listed
    <2>12. Inside(nmenu')
      BY <2>6, <2>9, <2>10 DEF Inside
    <2> QED BY <2>1, <2>6, <2>9, <2>10, <2>11, <2>12 DEF NMenuInv, NMenuTrue, Same
  <1>3. CASE nmenu_act
    <2>1. NMenuTrue(nmenu) /\ nmenu.open
      BY <1>1, <1>3 DEF nmenu_act, Listing
    <2> DEFINE shut == [nmenu EXCEPT !.open = FALSE]
               ended == [shut EXCEPT !.in_search = FALSE]
               w == [ended EXCEPT !.pattern = <<>>]
    <2>2. nmenu' = [w EXCEPT !.last_top_row = nmenu.top]
      BY <1>3 DEF nmenu_act
    <2>3. Listed(shut) /\ nmenu.top \in Int
      BY <2>1 DEF NMenuTrue, Listed
    <2>4. /\ shut.open = FALSE /\ shut.n = nmenu.n /\ shut.top = nmenu.top
          /\ shut.cur = nmenu.cur
      BY <2>1 DEF NMenuTrue, Listed
    <2> HIDE DEF shut
    <2>5. /\ Listed(ended) /\ ended.open = FALSE /\ ended.in_search = FALSE
          /\ ended.n = nmenu.n /\ ended.top = nmenu.top /\ ended.cur = nmenu.cur
      BY <2>3, <2>4 DEF Listed
    <2> HIDE DEF ended
    <2>6. /\ w.open = FALSE /\ w.in_search = FALSE /\ w.pattern = <<>>
          /\ w.n = nmenu.n /\ w.top = nmenu.top /\ w.cur = nmenu.cur
      BY <2>5 DEF Listed
    <2>7. Listed(w)
      BY <2>5, <2>6 DEF Listed
    <2> HIDE DEF w
    <2>8. /\ nmenu'.open = FALSE /\ nmenu'.in_search = FALSE /\ nmenu'.pattern = <<>>
          /\ nmenu'.n = nmenu.n /\ nmenu'.top = nmenu.top /\ nmenu'.cur = nmenu.cur
          /\ nmenu'.last_top_row = nmenu'.top
      BY <2>2, <2>3, <2>6, <2>7 DEF Listed
    <2>9. Listed(nmenu')
      BY <2>2, <2>3, <2>7, <2>8 DEF Listed
    <2>10. Inside(nmenu')
      BY <2>1, <2>8 DEF NMenuTrue, Inside
    <2> QED BY <2>8, <2>9, <2>10 DEF NMenuInv, NMenuTrue
  <1>4. ASSUME NEW n \in 1..MaxRows, nmenu_again(n)
        PROVE  NMenuInv'
    <2> DEFINE selected == IF InChoice THEN nmenu.active ELSE nmenu.cur
               w == show_menu(nmenu, n, selected)
    <2>1. NMenuTrue(nmenu) /\ ~nmenu.open /\ nmenu' = w
      BY <1>1, <1>4 DEF nmenu_again
    <2>2. Listed(nmenu) /\ nmenu.pattern = <<>>
      BY <2>1 DEF NMenuTrue
    <2>3. selected \in Int /\ n \in Nat \ {0}
      BY <2>2, KNMenuAssumption DEF Listed
    <2> HIDE DEF selected
    <2>4. Listed(w) /\ Inside(w) /\ w.open /\ w.n = n /\ w.pattern = nmenu.pattern
      BY <2>2, <2>3, ShownIs
    <2> HIDE DEF w
    <2> QED BY <2>1, <2>2, <2>4 DEF NMenuInv, NMenuTrue
  <1>5. CASE nmenu_leave
    BY <1>5 DEF nmenu_leave, NMenuInv
  <1>6. CASE search_toggle
    <2>1. NMenuTrue(nmenu) /\ nmenu.open
      BY <1>1, <1>6 DEF search_toggle, Listing
    <2> DEFINE m == [nmenu EXCEPT !.in_search = ~nmenu.in_search]
               w == [m EXCEPT !.pattern = <<>>]
    <2>2. Listed(m)
      BY <2>1 DEF NMenuTrue, Listed
    <2>3. m.open = nmenu.open /\ m.n = nmenu.n /\ m.top = nmenu.top /\ m.cur = nmenu.cur
      BY <2>1 DEF NMenuTrue, Listed
    <2>4. nmenu' = [w EXCEPT !.direction = "TINKER_DOWN"]
      BY <1>6 DEF search_toggle
    <2> HIDE DEF m
    <2>5. /\ w.open = m.open /\ w.n = m.n /\ w.top = m.top /\ w.cur = m.cur /\ w.pattern = <<>>
      BY <2>2 DEF Listed
    <2>6. Listed(w)
      BY <2>2, <2>5 DEF Listed
    <2> HIDE DEF w
    <2>7. /\ nmenu'.open = w.open /\ nmenu'.n = w.n /\ nmenu'.top = w.top /\ nmenu'.cur = w.cur
          /\ nmenu'.pattern = w.pattern
      BY <2>4, <2>6 DEF Listed
    <2>8. Listed(nmenu')
      BY <2>4, <2>6, <2>7 DEF Listed
    <2>9. Inside(nmenu')
      BY <2>1, <2>3, <2>5, <2>7 DEF NMenuTrue, Inside
    <2> QED BY <2>1, <2>3, <2>5, <2>7, <2>8, <2>9 DEF NMenuInv, NMenuTrue
  <1>7. ASSUME NEW hits \in SUBSET Rows(MaxRows), search_char(hits)
        PROVE  NMenuInv'
    <2>1. Searching /\ hits \subseteq Hits /\ NMenuTrue(nmenu)
      BY <1>1, <1>7 DEF search_char, Searching, Listing
    <2> DEFINE pattern == Append(nmenu.pattern, hits)
               flag == IF nmenu.direction \in Down THEN "TINKER_DOWN" ELSE "TINKER_UP"
    <2>2. nmenu.pattern \in Seq(SUBSET Rows(nmenu.n))
      BY <2>1 DEF NMenuTrue
    <2>3. Hits \in SUBSET Rows(nmenu.n)
      BY <2>2 DEF Hits
    <2>4. pattern \in Seq(SUBSET Rows(nmenu.n))
      BY <2>1, <2>2, <2>3
    <2>5. look(pattern, hits, flag)
      BY <1>7 DEF search_char
    <2> HIDE DEF pattern, flag
    <2> QED BY <2>1, <2>4, <2>5, LookTrue
  <1>8. ASSUME NEW flag \in Arrows, search_arrow(flag)
        PROVE  NMenuInv'
    <2>1. Searching /\ look(nmenu.pattern, Hits, flag) /\ NMenuTrue(nmenu)
      BY <1>1, <1>8 DEF search_arrow, Searching, Listing
    <2>2. nmenu.pattern \in Seq(SUBSET Rows(nmenu.n))
      BY <2>1 DEF NMenuTrue
    <2> QED BY <2>1, <2>2, LookTrue
  <1>9. CASE search_backspace
    <2> DEFINE pattern == SubSeq(nmenu.pattern, 1, Len(nmenu.pattern) - 1)
               flag == IF nmenu.direction \in Down THEN "TINKER_DOWN" ELSE "TINKER_UP"
               m == [nmenu EXCEPT !.pattern = pattern]
    <2>1. NMenuTrue(nmenu) /\ nmenu.open /\ nmenu.pattern # <<>>
      BY <1>1, <1>9 DEF search_backspace, Searching, Listing
    <2>2. nmenu' = [m EXCEPT !.direction = flag]
      BY <1>9 DEF search_backspace
    <2>3. pattern \in Seq(SUBSET Rows(nmenu.n))
      BY <2>1 DEF NMenuTrue
    <2> HIDE DEF pattern, flag
    <2>4. /\ m.open = nmenu.open /\ m.n = nmenu.n /\ m.top = nmenu.top /\ m.cur = nmenu.cur
          /\ m.pattern = pattern
      BY <2>1 DEF NMenuTrue, Listed
    <2>5. Listed(m)
      BY <2>1, <2>4 DEF NMenuTrue, Listed
    <2> HIDE DEF m
    <2>6. /\ nmenu'.open = m.open /\ nmenu'.n = m.n /\ nmenu'.top = m.top /\ nmenu'.cur = m.cur
          /\ nmenu'.pattern = m.pattern
      BY <2>2, <2>5 DEF Listed
    <2>7. Listed(nmenu')
      BY <2>2, <2>5, <2>6 DEF Listed
    <2>8. Inside(nmenu')
      BY <2>1, <2>4, <2>6 DEF NMenuTrue, Inside
    <2> QED BY <2>1, <2>3, <2>4, <2>6, <2>7, <2>8 DEF NMenuInv, NMenuTrue
  <1> QED BY <1>2, <1>3, <1>4, <1>5, <1>6, <1>7, <1>8, <1>9 DEF nmenu_next

LEMMA NMenuOpensTrue ==
    ASSUME NMenuOpens
    PROVE  NMenuInv'
  <1>1. PICK n \in 1..MaxRows, active \in {-1} \union Rows(MaxRows), toprow \in Rows(MaxRows) :
            nmenu_open(n, active, toprow)
    BY DEF NMenuOpens
  <1> DEFINE row == IF active = -1 THEN 0 ELSE toprow
             m == [open |-> TRUE, n |-> n, top |-> 0, cur |-> 0, active |-> active,
                   last_top_row |-> row, in_search |-> FALSE,
                   direction |-> "TINKER_DOWN", pattern |-> <<>>, hung |-> FALSE]
             selected == IF active \in Rows(n) THEN active ELSE 0
             w == show_menu(m, n, selected)
  <1>2. nmenu' = w
    BY <1>1 DEF nmenu_open
  <1>3. n \in Nat \ {0} /\ active \in Int /\ row \in Int /\ selected \in Int
    BY KNMenuAssumption DEF Rows
  <1> HIDE DEF row, selected
  <1>4. Listed(m) /\ m.pattern = <<>>
    BY <1>3 DEF Listed
  <1> HIDE DEF m
  <1>5. Listed(w) /\ Inside(w) /\ w.open /\ w.n = n /\ w.pattern = m.pattern
    BY <1>3, <1>4, ShownIs
  <1> HIDE DEF w
  <1> QED BY <1>2, <1>4, <1>5 DEF NMenuInv, NMenuTrue

LEMMA NMenuShown == NMenuInv => InView
  BY DEF NMenuInv, NMenuTrue, Inside, InView


-----------------------------------------------------------------------------
(* What a key acts upon is what the user sees.                               *)

DialogsInv == MenuInv /\ ListInv /\ TextTrueInv /\ NMenuInv

LEMMA DialogsInit == Init => DialogsInv
  BY DEF Init, menubox_init, textbox_init, nmenu_init,
         DialogsInv, MenuInv, ListInv, TextTrueInv, NMenuInv

LEMMA DialogsStep == DialogsInv /\ [Next]_Dialogs => DialogsInv'
  <1> SUFFICES ASSUME DialogsInv, [Next]_Dialogs
               PROVE  DialogsInv'
    OBVIOUS
  <1> USE DEF DialogsInv
  <1>1. UNCHANGED menu => MenuInv'
    BY DEF MenuInv
  <1>2. UNCHANGED list => ListInv'
    BY DEF ListInv
  <1>3. UNCHANGED text => TextTrueInv'
    BY DEF TextTrueInv
  <1>4. UNCHANGED nmenu => NMenuInv'
    BY DEF NMenuInv
  <1>5. CASE Opens
    <2>1. CASE MenuOpens
      BY <1>2, <1>3, <1>4, <2>1, MenuOpensTrue DEF MenuOpens
    <2>2. CASE ListOpens
      BY <1>1, <1>3, <1>4, <2>2, ListOpensTrue DEF ListOpens
    <2>3. CASE InputOpens
      BY <1>1, <1>2, <1>3, <1>4, <2>3 DEF InputOpens
    <2>4. CASE TextOpens
      BY <1>1, <1>2, <1>4, <2>4, TextOpensTrue DEF TextOpens
    <2>5. CASE PadOpens
      BY <1>1, <1>2, <1>3, <1>4, <2>5 DEF PadOpens
    <2>6. CASE NMenuOpens
      BY <1>1, <1>2, <1>3, <2>6, NMenuOpensTrue DEF NMenuOpens
    <2> QED BY <1>5, <2>1, <2>2, <2>3, <2>4, <2>5, <2>6 DEF Opens
  <1>6. CASE MenuStep
    BY <1>2, <1>3, <1>4, <1>6, MenuStepTrue DEF MenuStep
  <1>7. CASE ListStep
    BY <1>1, <1>3, <1>4, <1>7, ListStepTrue DEF ListStep
  <1>8. CASE InputStep \/ FormStep
    BY <1>1, <1>2, <1>3, <1>4, <1>8 DEF InputStep, FormStep
  <1>9. CASE TextStep
    BY <1>1, <1>2, <1>4, <1>9, TextStepTrue DEF TextStep
  <1>10. CASE PadStep
    BY <1>1, <1>2, <1>3, <1>4, <1>10 DEF PadStep
  <1>11. CASE NMenuStep
    BY <1>1, <1>2, <1>3, <1>11, NMenuStepTrue DEF NMenuStep
  <1>12. CASE UNCHANGED Dialogs
    BY <1>1, <1>2, <1>3, <1>4, <1>12 DEF Dialogs
  <1> QED BY <1>5, <1>6, <1>7, <1>8, <1>9, <1>10, <1>11, <1>12 DEF Next

\* The rows of a list of menuconfig are those its scroll and its choice say, as
\* long as the terminal keeps its size; the lines of a text are those its page
\* says; the cursor of a list of nconfig is in its window.
THEOREM ScreenCorrect == Spec => []ScreenTrue
  <1>1. DialogsInv => ScreenTrue
    BY ListsShown, TextShown, NMenuShown DEF DialogsInv, ScreenTrue
  <1> QED BY <1>1, DialogsInit, DialogsStep, PTL DEF Spec


-----------------------------------------------------------------------------
(* What is opened again is where it was.                                     *)

LEMMA MenuKept ==
    ASSUME MenuInv, menu_next, MenuReturns, ~menu.stale
    PROVE  menu'.rows = menu.rows
  <1>1. PICK n \in 0..MaxItems, active \in Items(MaxItems) \union {NoItem} : conf_again(n, active)
    <2>1. ~menu.open
      BY DEF MenuReturns
    <2> QED BY <2>1 DEF menu_next, menu_up, menu_down, menu_page_up, menu_page_down, menu_hotkey,
                        menu_buttons, menu_act, menu_exit, menu_resize, menuconfig, MenuReturns
  <1> DEFINE h == MIN(menu_height(menu.lines), n)
             at == IF active \in Items(n) THEN active ELSE 0
             saved == /\ menu.s_scroll <= at /\ menu.s_scroll + h > at
                      /\ menu.s_scroll >= 0 /\ menu.s_scroll + h <= n
             off == at >= h
             scroll == IF saved THEN menu.s_scroll
                       ELSE IF ~off THEN 0
                       ELSE IF at >= n - h \div 2 THEN n - h
                       ELSE at - h \div 2
             first == IF saved \/ off THEN scroll ELSE 0
             w == Layout(n, active, menu.s_scroll, menu.lines, 0, 0, 0)
  <1>2. menu' = w
    <2>1. menu' = Printed(w)
      BY <1>1 DEF conf_again
    <2>2. menu' # Crashed
      BY DEF MenuReturns, Crashed, Closed
    <2> HIDE DEF w
    <2> QED BY <2>1, <2>2 DEF Printed
  <1>3. w.n = n /\ w.selected = active /\ w.rows = Fresh(h, first, at - scroll)
    BY DEF Layout
  <1>4. n = menu.n /\ active = menu.picked
    BY <1>2, <1>3 DEF MenuReturns
  <1>5. /\ MenuTrue(menu) /\ menu.n \in Nat /\ menu.max_choice \in Nat
        /\ menu.choice \in Int /\ menu.scroll \in Int
        /\ menu.s_scroll = menu.scroll
        /\ menu.n > 0 => menu.picked = menu.scroll + menu.choice
    BY DEF MenuInv, MenuReturns, MenuTrue
  <1>6. h = menu.max_choice
    BY <1>4, <1>5 DEF MenuTrue
  <1>7. /\ menu.rows = Fresh(menu.max_choice, menu.scroll, menu.choice)
        /\ menu.n > 0 => /\ menu.max_choice \in 1..menu.n
                         /\ menu.choice \in 0..menu.max_choice - 1
                         /\ menu.scroll \in 0..menu.n - menu.max_choice
    BY <1>5 DEF MenuTrue, WindowTrue
  <1> HIDE DEF w, h
  <1>8. CASE menu.n > 0
    <2>1. at = menu.scroll + menu.choice
      BY <1>4, <1>5, <1>7, <1>8 DEF Items
    <2> HIDE DEF at
    <2>2. saved
      BY <1>4, <1>5, <1>6, <1>7, <1>8, <2>1
    <2>3. scroll = menu.scroll /\ first = menu.scroll
      BY <1>5, <2>2
    <2> HIDE DEF scroll, first
    <2>4. at - scroll = menu.choice
      BY <1>5, <2>1, <2>3
    <2> QED BY <1>2, <1>3, <1>6, <1>7, <2>3, <2>4
  <1>9. CASE menu.n = 0
    <2>1. h = 0
      <3>1. menu.max_choice = MIN(menu_height(menu.lines), 0) /\ menu.lines \in Nat
        BY <1>5, <1>9 DEF MenuTrue
      <3>2. menu_height(menu.lines) \in Int /\ menu_height(menu.lines) >= 1
        BY <1>5, <3>1 DEF MenuTrue, menu_height, TooSmall
      <3> QED BY <1>6, <3>1, <3>2 DEF MIN
    <2>2. \A s, c : Fresh(0, s, c) = [r \in {} |-> 0]
      <3>1. 0..0 - 1 = {}
        OBVIOUS
      <3> QED BY <3>1 DEF Fresh
    <2> QED BY <1>2, <1>3, <1>6, <1>7, <2>1, <2>2
  <1> QED BY <1>5, <1>8, <1>9

LEMMA TextKept ==
    ASSUME TextTrueInv, text_next, TextReturns
    PROVE  text'.top = text.top
  <1>1. text # NOT_OPEN /\ ~text.open /\ ~text.tail /\ text'.boxh = text.boxh
    BY DEF TextReturns
  <1>2. PICK boxh \in BoxHeights : text_again(boxh)
    BY <1>1 DEF text_next, text_home, text_end, text_down, text_page_down, text_sideways,
                text_up, text_done, text_resize, Reading
  <1>3. text \in Texts /\ Paged(text) /\ text.vscroll = text.top
    BY <1>1 DEF TextTrueInv
  <1> DEFINE t == [text EXCEPT !.open = TRUE]
             page == Least(text.top, End(t))
             w == Opened(t, text.top, boxh)
  <1>4. text' = w
    BY <1>2, <1>3 DEF text_again
  <1>5. /\ t \in Texts /\ t.lines = text.lines /\ t.tail = text.tail
        /\ t.update_text = text.update_text
    BY <1>3 DEF Texts
  <1>6. End(t) = End(text)
    BY <1>5 DEF End, Lines
  <1>7. /\ text.top \in Nat /\ text.top <= End(text) /\ End(text) \in Nat
        /\ boxh \in Nat \ {0}
    BY <1>3, PageAt, KTextboxAssumption
  <1> HIDE DEF t
  <1>8. /\ w.boxh = boxh
        /\ w.top = IF t.update_text /\ page + boxh > t.lines
                   THEN Most(End(t) - (boxh - 1), 0) ELSE page
    BY <1>5, <1>7, OpenedIs
  <1>9. page = text.top
    BY <1>6, <1>7 DEF Least
  <1> HIDE DEF w, page
  <1>10. boxh = text.boxh
    BY <1>1, <1>4, <1>8
  <1>11. text.update_text /\ text.top + text.boxh > text.lines
         => text.top = Most(End(text) - (text.boxh - 1), 0)
    BY <1>3 DEF Paged
  <1> QED BY <1>4, <1>5, <1>6, <1>8, <1>9, <1>10, <1>11

LEMMA NMenuKept ==
    ASSUME NMenuInv, nmenu_next, NMenuReturns
    PROVE  nmenu'.cur = nmenu.cur /\ nmenu'.top = nmenu.top
  <1>1. nmenu # NO_MENU /\ ~nmenu.open /\ nmenu'.n = nmenu.n /\ ~InChoice
    BY DEF NMenuReturns
  <1>2. PICK n \in 1..MaxRows : nmenu_again(n)
    <2>1. ~Listing /\ ~Searching /\ ~nmenu.open
      BY <1>1 DEF Searching, Listing
    <2> QED BY <2>1 DEF nmenu_next, nmenu_key, nmenu_act, nmenu_leave, search_toggle,
                        search_backspace, search_char, search_arrow
  <1>3. NMenuTrue(nmenu) /\ nmenu.last_top_row = nmenu.top
    BY <1>1 DEF NMenuInv, NMenuTrue
  <1> DEFINE w == show_menu(nmenu, n, nmenu.cur)
  <1>4. nmenu' = w
    BY <1>1, <1>2 DEF nmenu_again
  <1>5. Listed(nmenu) /\ n \in Nat \ {0} /\ nmenu.cur \in Int /\ nmenu.top \in Int
    BY <1>3, KNMenuAssumption DEF NMenuTrue, Listed
  <1>6. /\ w.n = n
        /\ nmenu.cur \in Rows(n) => w.cur = nmenu.cur
        /\ /\ nmenu.last_top_row \in 0..n - Window(n)
           /\ nmenu.cur \in nmenu.last_top_row..nmenu.last_top_row + Window(n) - 1
           => w.top = nmenu.last_top_row
    <2> DEFINE m == nmenu
               selected == nmenu.cur
    <2>1. Listed(m) /\ selected \in Int
      BY <1>5
    <2> HIDE DEF m, selected
    <2>2. /\ show_menu(m, n, selected).n = n
          /\ selected \in Rows(n) => show_menu(m, n, selected).cur = selected
          /\ /\ m.last_top_row \in 0..n - Window(n)
             /\ selected \in m.last_top_row..m.last_top_row + Window(n) - 1
             => show_menu(m, n, selected).top = m.last_top_row
      BY <1>5, <2>1, ShownIs
    <2> QED BY <2>2 DEF m, selected
  <1> HIDE DEF w
  <1>7. n = nmenu.n
    BY <1>1, <1>4, <1>6
  <1>8. Window(n) \in Nat
    BY <1>5, WindowIs
  <1>9. /\ nmenu.top \in 0..n - Window(n)
        /\ nmenu.cur \in nmenu.top..nmenu.top + Window(n) - 1
    BY <1>3, <1>7 DEF NMenuTrue, Inside
  <1>10. nmenu.cur \in Rows(n)
    BY <1>5, <1>8, <1>9 DEF Rows
  <1> QED BY <1>3, <1>4, <1>6, <1>9, <1>10

\* A list of menuconfig, a text or a list of nconfig that is opened again as it
\* was, after the program has acted on what was selected, is where it was.
THEOREM PlaceKeptCorrect == Spec => PlaceKept
  <1> DEFINE Kept == /\ MenuReturns /\ ~menu.stale => menu'.rows = menu.rows
                     /\ TextReturns => text'.top = text.top
                     /\ NMenuReturns => nmenu'.cur = nmenu.cur /\ nmenu'.top = nmenu.top
  <1>1. DialogsInv /\ [Next]_Dialogs => [Kept]_Dialogs
    <2> SUFFICES ASSUME DialogsInv, Next
                 PROVE  Kept
      OBVIOUS
    <2>1. MenuReturns => menu_next
      <3>1. MenuReturns => menu' # menu /\ menu # Closed
        BY DEF MenuReturns
      <3> QED BY <3>1 DEF Next, Opens, Idle, MenuStep, ListStep, InputStep, FormStep,
                          TextStep, PadStep, NMenuStep
    <2>2. TextReturns => text_next
      <3>1. TextReturns => text' # text /\ text # NOT_OPEN
        BY DEF TextReturns
      <3> QED BY <3>1 DEF Next, Opens, Idle, MenuStep, ListStep, InputStep, FormStep,
                          TextStep, PadStep, NMenuStep
    <2>3. NMenuReturns => nmenu_next
      <3>1. NMenuReturns => nmenu' # nmenu /\ nmenu # NO_MENU
        BY DEF NMenuReturns
      <3> QED BY <3>1 DEF Next, Opens, Idle, MenuStep, ListStep, InputStep, FormStep,
                          TextStep, PadStep, NMenuStep
    <2> QED BY <2>1, <2>2, <2>3, MenuKept, TextKept, NMenuKept DEF DialogsInv
  <1> QED BY <1>1, DialogsInit, DialogsStep, PTL DEF Spec, PlaceKept


-----------------------------------------------------------------------------
(* A page down, or up, passes no line by.                                    *)

\* The window of the other reader has a row at least, and no more than the text.
PadInv == pad # NOT_OPEN =>
    /\ pad \in [open : {TRUE}, total_lines : Nat, start_y : Nat, text_lines : Nat \ {0}]
    /\ pad.text_lines <= pad.total_lines

LEMMA PadInit == Init => PadInv
  BY DEF Init, textbox_init, PadInv

LEMMA PadStepTrue ==
    ASSUME PadInv, pad_next
    PROVE  PadInv'
  <1>1. ASSUME NEW key \in {"npage", "ppage", "home", "end", "down", "up"}, pad_key(key)
        PROVE  PadInv'
    <2> DEFINE y == [npage |-> pad.start_y + pad.text_lines - 2,
                     ppage |-> pad.start_y - (pad.text_lines + 2),
                     home |-> 0, end |-> pad.total_lines - pad.text_lines,
                     down |-> pad.start_y + 1, up |-> pad.start_y - 1][key]
               last == pad.total_lines - pad.text_lines
               start == IF Most(y, 0) >= last THEN last ELSE Most(y, 0)
    <2>1. pad # NOT_OPEN /\ pad' = [pad EXCEPT !.start_y = start]
      BY <1>1 DEF pad_key, Clamped
    <2>2. /\ pad \in [open : {TRUE}, total_lines : Nat, start_y : Nat, text_lines : Nat \ {0}]
          /\ pad.text_lines <= pad.total_lines
      BY <2>1 DEF PadInv
    <2>3. y \in Int
      BY <2>2
    <2> HIDE DEF y
    <2>4. start \in Nat
      BY <2>2, <2>3 DEF Most
    <2> HIDE DEF start
    <2> QED BY <2>1, <2>2, <2>4 DEF PadInv
  <1>2. CASE pad_done
    BY <1>2 DEF pad_done, PadInv
  <1> QED BY <1>1, <1>2 DEF pad_next

LEMMA PadOpensTrue ==
    ASSUME PadOpens
    PROVE  PadInv'
  <1>1. PICK lines \in 1..MaxLines, boxh \in BoxHeights : show_scroll_win(lines, boxh + 6)
    BY DEF PadOpens
  <1>2. lines \in Nat /\ lines >= 1 /\ boxh \in Nat /\ boxh >= 1
    BY KTextboxAssumption
  <1>3. /\ Most(Least(lines + 4, boxh + 6 - 2) - 4, 0) \in Nat \ {0}
        /\ Most(Least(lines + 4, boxh + 6 - 2) - 4, 0) <= lines
    BY <1>2 DEF Most, Least
  <1> QED BY <1>1, <1>2, <1>3 DEF show_scroll_win, PadInv

LEMMA PadKept == PadInv /\ [Next]_Dialogs => PadInv'
  <1> SUFFICES ASSUME PadInv, [Next]_Dialogs
               PROVE  PadInv'
    OBVIOUS
  <1>1. UNCHANGED pad => PadInv'
    BY DEF PadInv
  <1>2. CASE Opens
    BY <1>1, <1>2, PadOpensTrue DEF Opens, MenuOpens, ListOpens, InputOpens, TextOpens, NMenuOpens
  <1>3. CASE PadStep
    BY <1>3, PadStepTrue DEF PadStep
  <1>4. CASE MenuStep \/ ListStep \/ InputStep \/ FormStep \/ TextStep \/ NMenuStep
    BY <1>1, <1>4 DEF MenuStep, ListStep, InputStep, FormStep, TextStep, NMenuStep
  <1>5. CASE UNCHANGED Dialogs
    BY <1>1, <1>5 DEF Dialogs
  <1> QED BY <1>2, <1>3, <1>4, <1>5 DEF Next

LEMMA PageDownNear ==
    ASSUME TextTrueInv, text_page_down, ~text.tail
    PROVE  text'.top \in text.top - text.boxh..text.top + text.boxh
  <1> DEFINE at == [text.at EXCEPT !.begin_reached = FALSE]
             w == print_page(text, at, text.boxh)
  <1>1. text' = w
    BY DEF text_page_down, Page
  <1>2. text \in Texts /\ Paged(text) /\ ~text.at.end_reached
    BY DEF text_page_down, Reading, TextTrueInv
  <1>3. /\ text.at \in Positions /\ text.at.page \in 1..End(text)
        /\ text.top \in Nat /\ text.boxh \in Nat \ {0} /\ text.lines \in Nat
        /\ End(text) = text.lines
    BY <1>2, PageAt, EndIs
  <1>4. text.at.page = text.top + text.boxh /\ text.top + text.boxh <= text.lines
    BY <1>2, <1>3 DEF Paged, Least
  <1>5. /\ at \in Positions /\ at.page = text.at.page /\ at.begin_reached = FALSE
        /\ at.page <= End(text) /\ (~text.update_text => (at.begin_reached <=> at.page = 0))
    <2>1. at \in Positions /\ at.page = text.at.page /\ at.begin_reached = FALSE
      BY <1>3 DEF Positions
    <2>2. at.page \in 1..End(text) /\ at.page # 0 /\ at.page <= End(text)
      BY <1>3, <2>1
    <2> HIDE DEF at
    <2> QED BY <2>1, <2>2
  <1> HIDE DEF at
  <1>6. w.top = IF text.update_text /\ at.page + text.boxh > text.lines
                THEN Most(End(text) - (text.boxh - 1), 0) ELSE at.page
    BY <1>2, <1>3, <1>5, PrintPageIs
  <1> HIDE DEF w
  <1> QED BY <1>1, <1>3, <1>4, <1>5, <1>6 DEF Most

LEMMA PageUpNear ==
    ASSUME TextTrueInv, text_up(TRUE), ~text.tail
    PROVE  text'.top \in text.top - text.boxh..text.top + text.boxh
  <1> DEFINE n == text.page_length + text.boxh
             m == IF n > 0 /\ text.at.page = End(text) /\ text.at.end_reached THEN n - 1 ELSE n
             at == back_lines(text, text.at, n)
             w == print_page(text, at, text.boxh)
  <1>1. text' = w
    BY DEF text_up, Page, PageBack
  <1>2. text \in Texts /\ Paged(text) /\ ~text.at.begin_reached
    BY DEF text_up, Reading, TextTrueInv
  <1>3. /\ text.at \in Positions /\ text.at.page \in 1..End(text)
        /\ text.top \in Nat /\ text.top <= End(text)
        /\ text.boxh \in Nat \ {0} /\ text.lines \in Nat
        /\ text.page_length \in Nat /\ text.page_length >= 1
        /\ End(text) = text.lines /\ n \in Nat
    BY <1>2, PageAt, EndIs
  <1>4. Placed(text, at) /\ at.page = Most(text.at.page - m, 0)
    BY <1>2, <1>3, BackLinesIs
  <1>5. text.at.page - m = text.top - text.boxh
    <2>1. /\ text.at.page = Least(text.top + text.boxh, End(text))
          /\ text.at.end_reached <=> text.top + text.boxh > text.lines
          /\ text.page_length = IF text.lines - text.top < text.boxh
                                THEN Most(text.lines - text.top, 0) + 1 ELSE text.boxh
      BY <1>2 DEF Paged
    <2>2. CASE text.top + text.boxh > text.lines
      <3>1. text.at.page = text.lines /\ text.page_length = text.lines - text.top + 1
        BY <1>3, <2>1, <2>2 DEF Least, Most
      <3>2. m = n - 1
        BY <1>3, <2>1, <2>2, <3>1
      <3> QED BY <1>3, <3>1, <3>2
    <2>3. CASE ~(text.top + text.boxh > text.lines)
      <3>1. text.at.page = text.top + text.boxh /\ text.page_length = text.boxh
        BY <1>3, <2>1, <2>3 DEF Least
      <3>2. m = n
        BY <2>1, <2>3
      <3> QED BY <1>3, <3>1, <3>2
    <2> QED BY <2>2, <2>3
  <1> HIDE DEF at, n, m
  <1>6. at.page = Most(text.top - text.boxh, 0)
    BY <1>4, <1>5
  <1>7. w.top = IF text.update_text /\ at.page + text.boxh > text.lines
                THEN Most(End(text) - (text.boxh - 1), 0) ELSE at.page
    BY <1>2, <1>3, <1>4, PrintPageIs DEF Placed
  <1>8. text.top >= 1
    BY <1>2, <1>3 DEF Paged
  <1> HIDE DEF w
  <1> QED BY <1>1, <1>3, <1>6, <1>7, <1>8 DEF Most

LEMMA PadNear ==
    ASSUME PadInv, pad_key("npage")
    PROVE  pad'.start_y <= PadEnd(pad)
  <1> DEFINE y == pad.start_y + pad.text_lines - 2
             last == pad.total_lines - pad.text_lines
             start == IF Most(y, 0) >= last THEN last ELSE Most(y, 0)
  <1>1. pad # NOT_OPEN /\ pad' = [pad EXCEPT !.start_y = start]
    BY DEF pad_key, Clamped
  <1>2. /\ pad \in [open : {TRUE}, total_lines : Nat, start_y : Nat, text_lines : Nat \ {0}]
        /\ pad.text_lines <= pad.total_lines
    BY <1>1 DEF PadInv
  <1>3. pad.start_y \in Nat /\ pad.text_lines \in Nat \ {0} /\ pad.total_lines \in Nat
    BY <1>2
  <1>4. start <= pad.start_y + pad.text_lines - 1
    BY <1>3 DEF Most
  <1>5. pad'.start_y = start
    BY <1>1, <1>2
  <1> QED BY <1>4, <1>5 DEF PadEnd

\* A page down in either reader, or up in that of menuconfig, passes no line by
\* that was not in the window before or is in it then.
THEOREM NothingSkippedCorrect == Spec => NothingSkipped
  <1> DEFINE Near == /\ (text_page_down \/ text_up(TRUE)) /\ ~text.tail =>
                            text'.top \in text.top - text.boxh..text.top + text.boxh
                     /\ pad_key("npage") => pad'.start_y <= PadEnd(pad)
  <1>1. DialogsInv /\ PadInv => Near
    BY PageDownNear, PageUpNear, PadNear DEF DialogsInv
  <1> HIDE DEF Near
  <1>2. Spec => [](DialogsInv /\ PadInv)
    BY DialogsInit, DialogsStep, PadInit, PadKept, PTL DEF Spec
  <1>3. DialogsInv /\ PadInv => [Near]_<<text, pad>>
    BY <1>1
  <1>4. Spec => [][Near]_<<text, pad>>
    BY <1>2, <1>3, PTL
  <1> QED BY <1>4 DEF Near, NothingSkipped


-----------------------------------------------------------------------------
(* The search of nconfig goes to the nearest hit.                            *)

\* What the search does with what it finds.
LEMMA LookIs ==
    ASSUME NMenuInv, Searching, NEW pattern, NEW hits, NEW flag, look(pattern, hits, flag)
    PROVE  LET to == get_mext_match(hits, flag)
           IN  /\ nmenu'.n = nmenu.n /\ nmenu'.pattern = pattern /\ nmenu'.direction = flag
               /\ to = ForEver => nmenu'.cur = nmenu.cur /\ nmenu'.hung
               /\ to = Nowhere => nmenu'.cur = nmenu.cur /\ ~nmenu'.hung
               /\ to \in Rows(nmenu.n) => nmenu'.cur = to /\ ~nmenu'.hung
  <1> DEFINE m == [nmenu EXCEPT !.pattern = pattern, !.direction = flag]
             to == get_mext_match(hits, flag)
  <1>1. NMenuTrue(nmenu) /\ ~nmenu.hung /\ nmenu.n \in Nat \ {0}
    BY DEF NMenuInv, NMenuTrue, Listed, Searching, Listing
  <1>2. /\ m.pattern = pattern /\ m.direction = flag /\ m.n = nmenu.n /\ m.open = nmenu.open
        /\ m.top = nmenu.top /\ m.cur = nmenu.cur /\ m.hung = nmenu.hung
    BY <1>1 DEF NMenuTrue, Listed
  <1>3. Listed(m)
    BY <1>1, <1>2 DEF NMenuTrue, Listed
  <1>4. Inside(m)
    BY <1>1, <1>2 DEF NMenuTrue, Inside
  <1>5. nmenu' = IF to = ForEver THEN [m EXCEPT !.hung = TRUE]
                 ELSE IF to = Nowhere THEN m ELSE center_item(m, to)
    BY DEF look
  <1> HIDE DEF m, to
  <1>6. CASE to = ForEver
    <2>1. nmenu' = [m EXCEPT !.hung = TRUE]
      BY <1>5, <1>6
    <2>2. /\ nmenu'.n = m.n /\ nmenu'.pattern = m.pattern /\ nmenu'.direction = m.direction
          /\ nmenu'.cur = m.cur /\ nmenu'.hung
      BY <1>3, <2>1 DEF Listed
    <2>3. to # Nowhere /\ to \notin Rows(nmenu.n)
      BY <1>1, <1>6 DEF ForEver, Nowhere, Rows
    <2> QED BY <1>2, <2>2, <2>3 DEF to
  <1>7. CASE to = Nowhere
    <2>1. to # ForEver /\ to \notin Rows(nmenu.n)
      BY <1>1, <1>7 DEF ForEver, Nowhere, Rows
    <2> QED BY <1>1, <1>2, <1>5, <1>7, <2>1 DEF to
  <1>8. CASE to \notin {ForEver, Nowhere}
    <2>1. nmenu' = center_item(m, to)
      BY <1>5, <1>8
    <2>2. to \in Int
      BY <1>1, MatchTyped DEF to
    <2>3. Same(m, nmenu') /\ (to \in Rows(m.n) => nmenu'.cur = to)
      BY <1>3, <1>4, <2>1, <2>2, CenterIs
    <2> QED BY <1>1, <1>2, <1>8, <2>3 DEF Same, to
  <1> QED BY <1>6, <1>7, <1>8

LEMMA WrappedIs ==
    ASSUME NEW n \in Nat \ {0}
    PROVE  /\ \A i \in 0..n - 1 : i % n = i
           /\ \A i \in n..2 * n - 1 : i % n = i - n
           /\ \A i \in 2 * n..3 * n - 1 : i % n = i - 2 * n
           /\ \A i \in -n..-1 : i % n = i + n
  <1>1. ASSUME NEW i \in 0..n - 1
        PROVE  i % n = i
    OBVIOUS
  <1>2. ASSUME NEW i \in n..2 * n - 1
        PROVE  i % n = i - n
    OBVIOUS
  <1>3. ASSUME NEW i \in 2 * n..3 * n - 1
        PROVE  i % n = i - 2 * n
    OBVIOUS
  <1>4. ASSUME NEW i \in -n..-1
        PROVE  i % n = i + n
    OBVIOUS
  <1> QED BY <1>1, <1>2, <1>3, <1>4

\* From start, which may be one past an end, d items on is h just when the
\* distance of h is d.
LEMMA WalkIs ==
    ASSUME NEW n \in Nat \ {0}, NEW start \in -1..n, NEW d \in 0..n - 1, NEW h \in 0..n - 1
    PROVE  /\ (start + n + d) % n = h <=> (h - start) % n = d
           /\ (start + n - d) % n = h <=> (start - h) % n = d
  <1> DEFINE on == start + n + d
             back == start + n - d
             ahead == h - start
             behind == start - h
  <1>1. /\ on \in 0..n - 1 \/ on \in n..2 * n - 1 \/ on \in 2 * n..3 * n - 1
        /\ back \in 0..n - 1 \/ back \in n..2 * n - 1 \/ back \in 2 * n..3 * n - 1
        /\ ahead \in -n..-1 \/ ahead \in 0..n - 1 \/ ahead \in n..2 * n - 1
        /\ behind \in -n..-1 \/ behind \in 0..n - 1 \/ behind \in n..2 * n - 1
    OBVIOUS
  <1>2. (on % n = h) <=> on \in {h, h + n, h + 2 * n}
    <2> HIDE DEF on
    <2>1. on \in Int /\ on % n \in Int
      BY <1>1
    <2> QED BY <1>1, <2>1, WrappedIs
  <1>3. (back % n = h) <=> back \in {h, h + n, h + 2 * n}
    <2> HIDE DEF back
    <2>1. back \in Int /\ back % n \in Int
      BY <1>1
    <2> QED BY <1>1, <2>1, WrappedIs
  <1>4. (ahead % n = d) <=> ahead \in {d - n, d, d + n}
    <2> HIDE DEF ahead
    <2>1. ahead \in Int /\ ahead % n \in Int
      BY <1>1
    <2> QED BY <1>1, <2>1, WrappedIs
  <1>5. (behind % n = d) <=> behind \in {d - n, d, d + n}
    <2> HIDE DEF behind
    <2>1. behind \in Int /\ behind % n \in Int
      BY <1>1
    <2> QED BY <1>1, <2>1, WrappedIs
  <1>6. on \in {h, h + n, h + 2 * n} <=> ahead \in {d - n, d, d + n}
    OBVIOUS
  <1>7. back \in {h, h + n, h + 2 * n} <=> behind \in {d - n, d, d + n}
    OBVIOUS
  <1> QED BY <1>2, <1>3, <1>4, <1>5, <1>6, <1>7


LEMMA SearchNear ==
    ASSUME NMenuInv, Searching, NEW pattern, NEW hits \in SUBSET Rows(nmenu.n), NEW flag,
           hits = IF pattern = <<>> THEN Rows(nmenu.n) ELSE pattern[Len(pattern)],
           look(pattern, hits, flag)
    PROVE  FindsNearest
  <1> DEFINE n == nmenu.n
             start == Origin(flag)
             found == {d \in 0..n - 1 : Passed(flag, d) \in hits}
             to == get_mext_match(hits, flag)
  <1>1. /\ NMenuTrue(nmenu) /\ n \in Nat \ {0} /\ nmenu.cur \in Int
        /\ Window(n) \in Nat /\ Window(n) <= n
    BY WindowIs DEF NMenuInv, NMenuTrue, Listed, Searching, Listing
  <1>2. start \in -1..n
    <2>1. nmenu.top \in 0..n - Window(n) /\ nmenu.cur \in nmenu.top..nmenu.top + Window(n) - 1
      BY <1>1 DEF NMenuTrue, Inside
    <2>2. nmenu.cur \in 0..n - 1
      BY <1>1, <2>1
    <2> QED BY <1>1, <2>2 DEF Origin, Step
  <1>3. start = nmenu.cur + IF flag \in Down THEN (IF flag \in Arrows THEN 1 ELSE 0)
                            ELSE -(IF flag \in Arrows THEN 1 ELSE 0)
    BY <1>1 DEF Origin, Step
  <1>4. /\ nmenu'.n = n /\ nmenu'.pattern = pattern /\ nmenu'.direction = flag
        /\ to = ForEver => nmenu'.cur = nmenu.cur /\ nmenu'.hung
        /\ to = Nowhere => nmenu'.cur = nmenu.cur /\ ~nmenu'.hung
        /\ to \in Rows(n) => nmenu'.cur = to /\ ~nmenu'.hung
    BY LookIs
  <1>5. Hits' = hits
    BY <1>4 DEF Hits
  <1>6. \/ \E d \in found : to = Passed(flag, d) /\ \A e \in found : d <= e
        \/ found = {} /\ to = IF start \in Rows(n) THEN Nowhere ELSE ForEver
    BY MatchIs
  <1>7. ASSUME NEW d \in 0..n - 1, NEW h \in 0..n - 1
        PROVE  Passed(flag, d) = h <=> Distance(start, h, flag) = d
    <2>1. CASE flag \in Down
      <3>1. Passed(flag, d) = (start + n + d) % n /\ Distance(start, h, flag) = (h - start) % n
        BY <1>1, <1>2, <2>1 DEF Passed, Step, Distance
      <3>2. n \in Nat \ {0} /\ start \in -1..n /\ d \in 0..n - 1 /\ h \in 0..n - 1
        BY <1>1, <1>2
      <3> HIDE DEF start, n
      <3>3. (start + n + d) % n = h <=> (h - start) % n = d
        BY <3>2, WalkIs
      <3> QED BY <3>1, <3>3
    <2>2. CASE flag \notin Down
      <3>1. Passed(flag, d) = (start + n - d) % n /\ Distance(start, h, flag) = (start - h) % n
        <4>1. start \in Int /\ d \in Int /\ n \in Int
          BY <1>1, <1>2
        <4>2. start + n + (-1) * d = start + n - d
          BY <4>1
        <4> QED BY <2>2, <4>2 DEF Passed, Step, Distance
      <3>2. n \in Nat \ {0} /\ start \in -1..n /\ d \in 0..n - 1 /\ h \in 0..n - 1
        BY <1>1, <1>2
      <3> HIDE DEF start, n
      <3>3. (start + n - d) % n = h <=> (start - h) % n = d
        BY <3>2, WalkIs
      <3> QED BY <3>1, <3>3
    <2> QED BY <2>1, <2>2
  <1>8. \A h \in 0..n - 1 : Distance(start, h, flag) \in 0..n - 1
    <2> TAKE h \in 0..n - 1
    <2>1. h - start \in Int /\ start - h \in Int
      BY <1>2
    <2> HIDE DEF start
    <2> QED BY <1>1, <2>1, RestIs DEF Distance
  <1>9. hits \subseteq 0..n - 1
    BY DEF Rows
  <1>10. \A h \in hits : Distance(start, h, flag) \in found
    <2> TAKE h \in hits
    <2>1. h \in 0..n - 1 /\ Distance(start, h, flag) \in 0..n - 1
      BY <1>8, <1>9
    <2>2. Passed(flag, Distance(start, h, flag)) = h
      BY <1>7, <2>1
    <2> QED BY <2>1, <2>2
  <1> HIDE DEF to, start
  <1>11. CASE hits = {}
    <2>1. to = IF start \in Rows(n) THEN Nowhere ELSE ForEver
      BY <1>6, <1>11
    <2>2. nmenu'.cur = nmenu.cur /\ (nmenu'.hung <=> start \notin Rows(n))
      BY <1>4, <2>1
    <2> QED BY <1>3, <1>4, <1>5, <1>11, <2>2 DEF FindsNearest
  <1>12. CASE hits # {}
    <2>1. PICK d \in found : to = Passed(flag, d) /\ \A e \in found : d <= e
      BY <1>6, <1>10, <1>12
    <2>2. to \in hits /\ to \in 0..n - 1
      BY <1>9, <2>1
    <2>3. Distance(start, to, flag) = d
      BY <1>7, <2>1, <2>2
    <2>4. nmenu'.cur = to /\ ~nmenu'.hung
      BY <1>4, <2>2 DEF Rows
    <2>5. \A h \in hits : Distance(start, nmenu'.cur, flag) <= Distance(start, h, flag)
      BY <1>10, <2>1, <2>3, <2>4
    <2> HIDE DEF found
    <2> QED BY <1>3, <1>4, <1>5, <1>12, <2>2, <2>4, <2>5 DEF FindsNearest
  <1> QED BY <1>11, <1>12

\* The search goes to the nearest item that contains what is typed, round the
\* ends of the list, stays where it is when there is none, and hangs only when an
\* arrow is to go past an end of a list that has none.
THEOREM SearchCorrect == Spec => SearchFinds
  <1>1. ASSUME NMenuInv, nmenu_next, Looked
        PROVE  FindsNearest
    <2>1. /\ NMenuTrue(nmenu) /\ Searching /\ nmenu.open /\ nmenu.in_search
          /\ nmenu'.open /\ nmenu'.in_search
          /\ Len(nmenu'.pattern) > Len(nmenu.pattern) \/ nmenu'.direction \in Arrows
      BY <1>1 DEF Looked, NMenuInv, Searching, Listing
    <2>2. nmenu.pattern \in Seq(SUBSET Rows(nmenu.n)) /\ Listed(nmenu)
      BY <2>1 DEF NMenuTrue
    <2>3. Hits \in SUBSET Rows(nmenu.n)
      BY <2>2 DEF Hits
    <2>4. ASSUME NEW key \in {"down", "up", "npage", "ppage", "home", "end"}, nmenu_key(key)
          PROVE  FALSE
      <3> DEFINE to == [down |-> nmenu.cur + 1, up |-> nmenu.cur - 1,
                        npage |-> nmenu.cur + Window(nmenu.n),
                        ppage |-> nmenu.cur - Window(nmenu.n),
                        home |-> 0, end |-> nmenu.n - 1][key]
                 item == IF to < 0 THEN 0 ELSE IF to >= nmenu.n THEN nmenu.n - 1 ELSE to
                 m == set_current_item(nmenu, item)
      <3>1. nmenu' = [m EXCEPT !.in_search = FALSE, !.pattern = <<>>]
        BY <2>4 DEF nmenu_key
      <3> HIDE DEF item
      <3>2. m = [f \in DOMAIN nmenu |-> m[f]]
        BY <2>2 DEF set_current_item, Listed
      <3>3. "in_search" \in DOMAIN nmenu
        BY <2>2 DEF Listed
      <3> HIDE DEF m
      <3>4. nmenu'.in_search = FALSE
        BY <3>1, <3>2, <3>3
      <3> QED BY <2>1, <3>4
    <2>5. CASE nmenu_act
      <3>1. nmenu'.open = FALSE
        BY <2>2, <2>5 DEF nmenu_act, Listed
      <3> QED BY <2>1, <3>1
    <2>6. ASSUME NEW k \in 1..MaxRows, nmenu_again(k)
          PROVE  FALSE
      BY <2>1, <2>6 DEF nmenu_again
    <2>7. CASE nmenu_leave
      BY <2>1, <2>7 DEF nmenu_leave, NO_MENU
    <2>8. CASE search_toggle
      <3>1. nmenu'.in_search = ~nmenu.in_search
        BY <2>2, <2>8 DEF search_toggle, Listed
      <3> QED BY <2>1, <3>1
    <2>9. CASE search_backspace
      <3>1. /\ nmenu'.pattern = SubSeq(nmenu.pattern, 1, Len(nmenu.pattern) - 1)
            /\ nmenu'.direction \in {"TINKER_DOWN", "TINKER_UP"}
            /\ nmenu.pattern # <<>>
        BY <2>2, <2>9 DEF search_backspace, Listed
      <3>2. Len(nmenu'.pattern) = Len(nmenu.pattern) - 1
        BY <2>2, <3>1
      <3>3. Len(nmenu.pattern) \in Nat
        BY <2>2
      <3> QED BY <2>1, <3>1, <3>2, <3>3 DEF Arrows
    <2>10. ASSUME NEW hits \in SUBSET Rows(MaxRows), search_char(hits)
           PROVE  FindsNearest
      <3> DEFINE pattern == Append(nmenu.pattern, hits)
                 flag == IF nmenu.direction \in Down THEN "TINKER_DOWN" ELSE "TINKER_UP"
      <3>1. look(pattern, hits, flag) /\ hits \in SUBSET Rows(nmenu.n)
        BY <2>3, <2>10 DEF search_char
      <3>2. hits = IF pattern = <<>> THEN Rows(nmenu.n) ELSE pattern[Len(pattern)]
        <4>1. /\ Append(nmenu.pattern, hits) # <<>>
              /\ Len(Append(nmenu.pattern, hits)) = Len(nmenu.pattern) + 1
              /\ Append(nmenu.pattern, hits)[Len(nmenu.pattern) + 1] = hits
          BY <2>2, <3>1
        <4> QED BY <4>1
      <3> HIDE DEF pattern, flag
      <3> QED BY <1>1, <2>1, <3>1, <3>2, SearchNear
    <2>11. ASSUME NEW flag \in Arrows, search_arrow(flag)
           PROVE  FindsNearest
      <3> DEFINE pattern == nmenu.pattern
                 hits == Hits
      <3>1. look(pattern, hits, flag) /\ hits \in SUBSET Rows(nmenu.n)
        BY <2>3, <2>11 DEF search_arrow
      <3>2. hits = IF pattern = <<>> THEN Rows(nmenu.n) ELSE pattern[Len(pattern)]
        BY DEF Hits
      <3> HIDE DEF pattern, hits
      <3> QED BY <1>1, <2>1, <3>1, <3>2, SearchNear
    <2> QED BY <1>1, <2>4, <2>5, <2>6, <2>7, <2>8, <2>9, <2>10, <2>11 DEF nmenu_next
  <1> DEFINE Finds == Looked => FindsNearest
  <1>2. DialogsInv /\ [Next]_Dialogs => [Finds]_nmenu
    <2> SUFFICES ASSUME DialogsInv, [Next]_Dialogs, nmenu' # nmenu
                 PROVE  Finds
      OBVIOUS
    <2>1. CASE nmenu_next
      BY <1>1, <2>1 DEF DialogsInv
    <2>2. CASE Idle
      BY <2>2 DEF Idle, Looked, Listing
    <2> QED BY <2>1, <2>2 DEF Next, Opens, MenuStep, ListStep, InputStep, FormStep,
                              TextStep, PadStep, NMenuStep, Dialogs
  <1> HIDE DEF Finds
  <1>3. Spec => [][Finds]_nmenu
    BY <1>2, DialogsInit, DialogsStep, PTL DEF Spec
  <1> QED BY <1>3 DEF Finds, SearchFinds

=============================================================================
