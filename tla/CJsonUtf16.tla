------------------------------ MODULE CJsonUtf16 ------------------------------
(***************************************************************************)
(* The escapes \uXXXX of lib/cJSON.c: one or two code units of UTF-16      *)
(* become the bytes of UTF-8, written into a buffer that parse_string made *)
(* as long as the text of the string without one byte for each escape.     *)
(***************************************************************************)
EXTENDS Integers, Sequences

CONSTANTS
  HexDigits,      \* hexadecimal digits, and Bad for any other character
  Bad,
  Followers      \* what follows: no escape, or the four digits of one

ASSUME DigitsAssumption == HexDigits \ {Bad} \subseteq 0..15 /\ Bad \notin 0..15
ASSUME FollowersAssumption ==
  Followers \subseteq {<<>>} \cup [1..4 -> 0..15 \cup {Bad}]

VARIABLES firstUnit, secondUnit, written
escapeVars == <<firstUnit, secondUnit, written>>

Refused == [length |-> 0, bytes |-> <<>>]

(* parse_hex4: a character that is no digit makes the number 0.            *)
Hex4(d) ==
  IF \E k \in 1..4 : d[k] = Bad THEN 0
  ELSE ((d[1] * 16 + d[2]) * 16 + d[3]) * 16 + d[4]

Low(u) == u >= 56320 /\ u <= 57343        \* 0xDC00..0xDFFF
High(u) == u >= 55296 /\ u <= 56319       \* 0xD800..0xDBFF

(* The bits the masks leave are the remainders; | puts them below others.  *)

(* Mutant: the surrogate pair does not begin at 0x10000.                   *)
PairWithoutOffset(u, v) == (u % 1024) * 1024 + (v % 1024)

Pair(u, v) == 65536 + (u % 1024) * 1024 + (v % 1024)

Utf8Length(cp) == IF cp < 128 THEN 1 ELSE IF cp < 2048 THEN 2
                  ELSE IF cp < 65536 THEN 3 ELSE 4

(* Of the first byte: its upper bits, and how many values the others have. *)
FirstByteMark == <<0, 192, 224, 240>>
BelowMark == <<128, 64, 32, 16>>

SixBits == <<1, 64, 4096, 262144>>   \* what 6, 12, 18 bits to the right divide by

Utf8(cp) ==
  LET n == Utf8Length(cp)
      bits(k) == cp \div SixBits[n - k + 1]
  IN [k \in 1..n |-> IF k > 1 THEN 128 + (bits(k) % 64)
                     ELSE FirstByteMark[n] + (bits(k) % BelowMark[n])]

Utf16ToUtf8(a, b) ==
  LET u == Hex4(a)
      v == Hex4(b)
  IN IF Low(u) THEN Refused
     ELSE IF ~High(u) THEN [length |-> 6, bytes |-> Utf8(u)]
     ELSE IF b = <<>> THEN Refused
     ELSE IF ~Low(v) THEN Refused
     ELSE [length |-> 12, bytes |-> Utf8(Pair(u, v))]
------------------------------------------------------------------------------
NoEscape == firstUnit = <<>> /\ secondUnit = <<>> /\ written = <<>>

EscapeInit == firstUnit \in [1..4 -> HexDigits] /\ secondUnit \in Followers /\ written = <<>>

ParseEscape ==
  /\ written = <<>>
  /\ written' = <<Utf16ToUtf8(firstUnit, secondUnit)>>
  /\ UNCHANGED <<firstUnit, secondUnit>>

EscapeNext == ParseEscape

EscapeSpec == EscapeInit /\ [][EscapeNext]_escapeVars
------------------------------------------------------------------------------
IsByte(b) == b \in 0..255

EscapeTypeOK ==
  \A w \in {written[k] : k \in DOMAIN written} :
    w.length \in {0, 6, 12} /\ \A k \in DOMAIN w.bytes : IsByte(w.bytes[k])

WrittenBytes == written[1].bytes

(* What a reader of UTF-8 makes of the bytes.                              *)
Continues(b) == b \div 64 = 2
Decoded ==
  LET n == Len(WrittenBytes)
      Tail6(k) == WrittenBytes[k] % 64
  IN CASE n = 1 /\ WrittenBytes[1] < 128 -> WrittenBytes[1]
       [] n = 2 /\ WrittenBytes[1] \div 32 = 6 -> (WrittenBytes[1] % 32) * 64 + Tail6(2)
       [] n = 3 /\ WrittenBytes[1] \div 16 = 14 ->
            ((WrittenBytes[1] % 16) * 64 + Tail6(2)) * 64 + Tail6(3)
       [] n = 4 /\ WrittenBytes[1] \div 8 = 30 ->
            (((WrittenBytes[1] % 8) * 64 + Tail6(2)) * 64 + Tail6(3)) * 64 + Tail6(4)
       [] OTHER -> -1

(* Of four digits nothing is refused but half a surrogate pair, and that   *)
(* whatever follows it.  The bytes are the one encoding of the character   *)
(* that the escapes name: they decode to it, in no more bytes than it      *)
(* needs.                                                                  *)
EncodesTheCharacter ==
  written # <<>> =>
    LET u == Hex4(firstUnit)
        half == Low(u) \/ (High(u) /\ (secondUnit = <<>> \/ ~Low(Hex4(secondUnit))))
        cp == IF High(u) THEN (u - 55296) * 1024 + (Hex4(secondUnit) - 56320) + 65536 ELSE u
    IN IF half THEN written[1] = Refused
       ELSE /\ Decoded = cp
            /\ \A k \in 2..Len(WrittenBytes) : Continues(WrittenBytes[k])
            /\ cp >= <<0, 128, 2048, 65536>>[Len(WrittenBytes)]
==============================================================================
