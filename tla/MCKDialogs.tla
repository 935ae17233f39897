----------------------------- MODULE MCKDialogs -----------------------------
(***************************************************************************)
(* The dialogs of the configuration programs, for TLC.                     *)
(***************************************************************************)
EXTENDS KDialogs

MCStrings == {<<>>, <<"a">>, <<"a", "b", "a", "b", "a">>}
=============================================================================
