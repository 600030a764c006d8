----------------------------- MODULE MCConvert ------------------------------
(***************************************************************************)
(* Convert for a value of two groups of five bytes.  The texts are uniform *)
(* but for two characters anywhere, and of the right length or one off.    *)
(***************************************************************************)
EXTENDS Convert

MCGarbage == {0, 165}
MCBehind == {0, 9, Bad}

Texts(len, fill, others) ==
  {[k \in 1..len |-> IF k = p THEN c ELSE IF k = q THEN d ELSE f] :
     p \in 1..len, q \in 1..len, c \in others, d \in others, f \in fill}

MCArguments ==
  {[urn |-> TRUE, text |-> t] :
     t \in Texts(16, {0, 21, Pad}, {1, 16, 31, Pad, Bad, Past}) \cup Texts(15, {21}, {31})
           \cup Texts(17, {21}, {31})} \cup
  {[urn |-> FALSE, text |-> t] :
     t \in Texts(20, {0, 10}, {1, 8, 15, Pad, Bad, Past}) \cup Texts(19, {10}, {15})
           \cup Texts(21, {10}, {15})}
=============================================================================
