------------------------------ MODULE MCAppend ------------------------------
(***************************************************************************)
(* Append with buffers of 0 to 7 bytes, texts with a character of each     *)
(* length when escaped, and numbers of one to three digits.                *)
(***************************************************************************)
EXTENDS Append

MCCapacities == 0..7
MCChars == {"a", "b", "q", "o", "d", "t", "1", "2", "3", "4", "5", "6", "K", " ", ".", "B", "e", "7"}
MCTexts == {<<>>, <<"a">>, <<"a", "b">>, <<"q", "a">>, <<"a", "o", "b">>, <<"e", "7">>}
MCNumbers == {<<"1">>, <<"1", "2">>, <<"4", "5", "6">>}
MCWide == {<<"4", "5", "6">>}
MCScaled == {[i |-> <<"1">>, f |-> <<>>, suf |-> <<>>],
             [i |-> <<"1", "2">>, f |-> <<"3">>, suf |-> <<"K">>]}
MCDateText == <<"d", "t">>
=============================================================================
