------------------------------- MODULE Convert ------------------------------
(***************************************************************************)
(* The option -c of main.c: an SHA-1 value written in base 32 after        *)
(* "urn:sha1:", or in base 16, is decoded into the local buffer raw and    *)
(* printed in the other base.  RawSize is 20 in the code.                  *)
(***************************************************************************)
EXTENDS Codec

CONSTANTS
  RawSize,    \* sizeof raw.data, a multiple of 5
  Arguments,  \* what may follow -c: [urn |-> has the prefix, text |-> the rest]
  Garbage,    \* what an unwritten byte of raw may hold
  Behind      \* what is behind the maps: the value of a digit, or Bad for -1;
              \* a larger value makes no difference but for the bits stored

ASSUME RawAssumption == RawSize \in Nat \ {0} /\ RawSize % 5 = 0
ASSUME BehindAssumption == Behind \subseteq (0..15) \cup {Bad} /\ Behind # {}
(* An argument is a string, so that there is no NUL in it.                 *)
ASSUME ArgumentsAssumption ==
  Arguments \subseteq [urn : {TRUE}, text : Seq(0..Past)]
                        \cup [urn : {FALSE}, text : Seq((0..15) \cup {Pad, Bad, Past})]
ASSUME GarbageAssumption == Garbage \subseteq Byte /\ Garbage # {}

SHA1_BASE32_LEN == (RawSize \div 5) * 8
SHA1_BASE16_LEN == RawSize * 2

VARIABLES
  arg,      \* optarg
  raw,      \* the local buffer
  decoded,  \* what the decoder returned: ignored by main
  stored,   \* history: how many bytes of raw the decoder has stored
  printed,  \* what was printed: a [urn, text] record as in Arguments
  status,   \* exit status
  stage

convertVars == <<arg, raw, decoded, stored, printed, status, stage>>

Nothing == [urn |-> FALSE, text |-> <<>>]

ConvertInit ==
  /\ arg \in Arguments
  /\ \E g \in Garbage : raw = [k \in 1..RawSize |-> g]
  /\ decoded = 0 /\ stored = 0
  /\ printed = Nothing
  /\ status = "running"
  /\ stage = "length"

Expected == IF arg.urn THEN SHA1_BASE32_LEN ELSE SHA1_BASE16_LEN

WrongLength ==
  /\ stage = "length" /\ Len(arg.text) # Expected
  /\ status' = "failure"
  /\ stage' = "exited"
  /\ UNCHANGED <<arg, raw, decoded, stored, printed>>

(* The decoder stores into raw what it gets to before it stops.            *)
Stores(r) ==
  /\ raw' = [k \in 1..RawSize |-> IF k <= Len(r.dst) THEN r.dst[k] ELSE raw[k]]
  /\ decoded' = r.ret
  /\ stored' = Len(r.dst)

Decode ==
  /\ stage = "length" /\ Len(arg.text) = Expected
  /\ \E b \in Behind :
       IF arg.urn THEN Stores(Base32Decode(RawSize, LookedUp(arg.text, b)))
       ELSE Stores(Base16Decode(RawSize, LookedUp(arg.text, b)))
  /\ stage' = "print"
  /\ UNCHANGED <<arg, printed, status>>

(* sha1_to_base16 or sha1_to_base32, into a buffer with room for the NUL.  *)
PrintConverted ==
  /\ stage = "print"
  /\ printed' = IF arg.urn THEN [urn |-> FALSE, text |-> Base16Encode(raw)]
                ELSE [urn |-> TRUE, text |-> Base32Encode(SHA1_BASE32_LEN + 1, raw)]
  /\ status' = "success"
  /\ stage' = "exited"
  /\ UNCHANGED <<arg, raw, decoded, stored>>

ConvertNext == WrongLength \/ Decode \/ PrintConverted

ConvertSpec == ConvertInit /\ [][ConvertNext]_convertVars

-----------------------------------------------------------------------------
BitsPer(urn) == IF urn THEN 5 ELSE 4

WellFormed(a) ==
  /\ Len(a.text) = IF a.urn THEN SHA1_BASE32_LEN ELSE SHA1_BASE16_LEN
  /\ \A k \in 1..Len(a.text) : a.text[k] < (IF a.urn THEN 32 ELSE 16)

(* A well-formed value is printed in the other base, with the same bits,   *)
(* and what is printed is well-formed itself: it converts back.            *)
SameBits ==
  stage = "exited" /\ WellFormed(arg) =>
    /\ status = "success"
    /\ printed.urn # arg.urn /\ WellFormed(printed)
    /\ BitString(BitsPer(printed.urn), printed.text) = BitString(BitsPer(arg.urn), arg.text)

(* A character of neither base is noticed by the decoder, which says so,   *)
(* wherever it stands, unless three '=' ended the text before it; and      *)
(* nothing else is taken for one.  Exception: whether the byte 255 is      *)
(* noticed depends on what is behind the map (base32.c:150, base16.c:105). *)
BadNoticed ==
  LET pads(n) == Cardinality({k \in 1..n : arg.text[k] = Pad})
      bad(set) == \E k \in DOMAIN arg.text :
                    arg.text[k] \in set /\ (arg.urn => pads(k) < 3)
      neither == IF arg.urn THEN {Bad} ELSE {Pad, Bad}
  IN  stage = "print" =>
        /\ bad(neither) => decoded = -1
        /\ decoded = -1 => bad(neither \cup {Past})

(* README:97: "converting SHA-1 checksums from the hexadecimal            *)
(* representation to the base32 representation and vice-versa".  What is   *)
(* converted with exit status 0 is the argument: every byte that is        *)
(* printed was stored by the decoder, and is not what was on the stack.    *)
PrintedFromArgument ==
  status = "success" => stored = RawSize
=============================================================================
