------------------------------ MODULE CJsonText ------------------------------
(***************************************************************************)
(* The text side of lib/cJSON.c: cJSON_ParseWithLength, the printers and   *)
(* cJSON_Minify.  A text is a sequence of characters of a small alphabet;  *)
(* n stands for a literal of the language (null, true, false), 1 for a     *)
(* digit, a form feed for the characters up to 32 that are no white space  *)
(* of the language, and a blank for those that are.  Offsets count from 0, *)
(* as in the code.                                                         *)
(***************************************************************************)
EXTENDS Integers, FiniteSets, SequencesExt, TLC

CONSTANTS
  Alphabets,       \* sets of the characters below, and the length up to
                   \* which texts of them are tried
  LongTexts,       \* texts longer than that, tried with all their prefixes
  NestingLimit,    \* CJSON_NESTING_LIMIT
  MaxRoom          \* of the buffers callers bring, a bound of the model

ASSUME BoundsAssumption == NestingLimit \in Nat /\ MaxRoom \in Nat

Quote == "\""
Backslash == "\\"
Blank == " "
FormFeed == "\f"
Newline == "\n"
BomByte == "bom"    \* three of them are the byte order mark of UTF-8
Characters == {"[", "]", "{", "}", ",", ":", "n", "1", "-", Quote, Backslash,
               Blank, FormFeed, BomByte}
ASSUME AlphabetAssumption == Alphabets \subseteq (SUBSET Characters) \X Nat

Texts == UNION {BoundedSeq(a[1], a[2]) : a \in Alphabets}
         \cup UNION {{SubSeq(t, 1, n) : n \in 0..Len(t)} : t \in LongTexts}

VARIABLES
  text,      \* what a caller passes
  doc,       \* what the parser makes of it
  out        \* what a printer makes of that
textVars == <<text, doc, out>>
------------------------------------------------------------------------------
(* Parsing.  A result has the offset the parser stopped at, and over: it   *)
(* looked at a character without asking whether the text has it.           *)

Ok(at, val, over) == [ok |-> TRUE, at |-> at, val |-> val, over |-> over]
Fail(over) == [ok |-> FALSE, at |-> 0, val |-> <<"none">>, over |-> over]

Has(t, i) == i < Len(t)
Is(t, i, c) == Has(t, i) /\ t[i + 1] = c

(* The parser skips everything up to 32, and at the end of the text steps  *)
(* back on the last character.                                             *)
Skipped == {Blank, FormFeed}
SkipBlank(t, i) ==
  LET rest == {j \in i..Len(t) - 1 : t[j + 1] \notin Skipped}
      j == CHOOSE j \in rest : \A k \in rest : j <= k
  IN IF ~Has(t, i) THEN i ELSE IF rest = {} THEN Len(t) - 1 ELSE j

(* The quote that ends a string, or the length of the text.                *)
RECURSIVE StringEnd(_, _)
StringEnd(t, e) ==
  IF ~Has(t, e) \/ t[e + 1] = Quote THEN e
  ELSE IF t[e + 1] = Backslash
       THEN IF Has(t, e + 1) THEN StringEnd(t, e + 2) ELSE Len(t)
       ELSE StringEnd(t, e + 1)

(* Without the escapes, or <<Quote>> when there is one the parser does not *)
(* know.  \u is left to CJsonUtf16.                                        *)
Escaped == "n" :> Newline @@ "f" :> FormFeed @@ Quote :> Quote @@ Backslash :> Backslash
RECURSIVE Unescape(_)
Unescape(s) ==
  LET Then(c, rest) == IF rest.ok THEN [ok |-> TRUE, s |-> <<c>> \o rest.s] ELSE rest
  IN IF s = <<>> THEN [ok |-> TRUE, s |-> <<>>]
     ELSE IF s[1] # Backslash THEN Then(s[1], Unescape(Tail(s)))
     ELSE IF Len(s) > 1 /\ s[2] \in DOMAIN Escaped THEN Then(Escaped[s[2]], Unescape(Tail(Tail(s))))
     ELSE [ok |-> FALSE, s |-> <<>>]

ParseString(t, i) ==
  LET e == StringEnd(t, i + 1)
      u == Unescape(SubSeq(t, i + 2, e))
  IN IF ~Is(t, i, Quote) THEN Fail(~Has(t, i))
     ELSE IF ~Has(t, e) \/ ~u.ok THEN Fail(FALSE)
     ELSE Ok(e + 1, <<"string", u.s>>, FALSE)

(* The longest run of characters of numbers, of which strtod takes what it *)
(* understands: a sign and digits.                                         *)
ParseNumber(t, i) ==
  LET Digits(a, b) == \A k \in a..b : t[k + 1] = "1"
      ends == {b \in i..Len(t) - 1 :
                 Digits(i, b) \/ (t[i + 1] = "-" /\ i < b /\ Digits(i + 1, b))}
      b == CHOOSE b \in ends : \A c \in ends : c <= b
  IN IF ends = {} THEN Fail(FALSE)
     ELSE Ok(b + 1, <<"number", SubSeq(t, i + 1, b + 1)>>, FALSE)

RECURSIVE ParseValue(_, _, _), Elements(_, _, _, _), PairsFrom(_, _, _, _)

(* Mutant: the depth is compared before it counts this array.              *)
ParseArrayTooDeep(t, i, depth) ==
  LET j == SkipBlank(t, i + 1)
  IN IF depth > NestingLimit \/ ~Has(t, j) THEN Fail(FALSE)
     ELSE IF Is(t, j, "]") THEN Ok(j + 1, <<"array", <<>>>>, FALSE)
     ELSE Elements(t, j - 1, depth + 1, <<>>)

ParseArray(t, i, depth) ==
  LET j == SkipBlank(t, i + 1)
  IN IF depth >= NestingLimit \/ ~Has(t, j) THEN Fail(FALSE)
     ELSE IF Is(t, j, "]") THEN Ok(j + 1, <<"array", <<>>>>, FALSE)
     ELSE Elements(t, j - 1, depth + 1, <<>>)

(* t[i] is the character before the element.                               *)
Elements(t, i, depth, done) ==
  LET v == ParseValue(t, SkipBlank(t, i + 1), depth)
      k == SkipBlank(t, v.at)
      all == Append(done, v.val)
  IN IF ~v.ok THEN v
     ELSE IF Is(t, k, ",") THEN Elements(t, k, depth, all)
     ELSE IF Is(t, k, "]") THEN Ok(k + 1, <<"array", all>>, v.over)
     ELSE Fail(v.over)

ParseObject(t, i, depth) ==
  LET j == SkipBlank(t, i + 1)
  IN IF depth >= NestingLimit \/ ~Has(t, j) THEN Fail(FALSE)
     ELSE IF Is(t, j, "}") THEN Ok(j + 1, <<"object", <<>>>>, FALSE)
     ELSE PairsFrom(t, j - 1, depth + 1, <<>>)

PairsFrom(t, i, depth, done) ==
  LET key == ParseString(t, SkipBlank(t, i + 1))
      c == SkipBlank(t, key.at)
      v == ParseValue(t, SkipBlank(t, c + 1), depth)
      k == SkipBlank(t, v.at)
      all == Append(done, <<key.val[2], v.val>>)
  IN IF ~Has(t, i + 1) THEN Fail(FALSE)
     ELSE IF ~key.ok THEN key
     ELSE IF ~Is(t, c, ":") THEN Fail(FALSE)
     ELSE IF ~v.ok THEN v
     ELSE IF Is(t, k, ",") THEN PairsFrom(t, k, depth, all)
     ELSE IF Is(t, k, "}") THEN Ok(k + 1, <<"object", all>>, v.over)
     ELSE Fail(v.over)

ParseValue(t, i, depth) ==
  IF Is(t, i, "n") THEN Ok(i + 1, <<"literal">>, FALSE)
  ELSE IF Is(t, i, Quote) THEN ParseString(t, i)
  ELSE IF Is(t, i, "-") \/ Is(t, i, "1") THEN ParseNumber(t, i)
  ELSE IF Is(t, i, "[") THEN ParseArray(t, i, depth)
  ELSE IF Is(t, i, "{") THEN ParseObject(t, i, depth)
  ELSE Fail(FALSE)

(* The byte order mark is skipped where two more characters follow it.     *)
SkipBom(t) == IF Has(t, 4) /\ \A k \in 1..3 : t[k] = BomByte THEN 3 ELSE 0

Parse(t) ==
  IF t = <<>> THEN Fail(FALSE) ELSE ParseValue(t, SkipBlank(t, SkipBom(t)), 0)
------------------------------------------------------------------------------
(* Printing.  The buffer holds what was written so far; room is its size,  *)
(* fixed that it is the caller's and cannot grow, over that something was  *)
(* written behind its end.                                                 *)

Buffer(room, fixed) ==
  [ok |-> TRUE, out |-> <<>>, room |-> room, fixed |-> fixed, over |-> FALSE]

Ensure(b, needed) ==
  LET need == needed + Len(b.out) + 1
  IN IF ~b.ok THEN b
     ELSE IF b.room > 0 /\ Len(b.out) >= b.room THEN [b EXCEPT !.ok = FALSE]
     ELSE IF need <= b.room THEN b
     ELSE IF b.fixed THEN [b EXCEPT !.ok = FALSE]
     ELSE [b EXCEPT !.room = 2 * need]

(* ensure(needed), then the characters and nul bytes of 0 behind them.     *)
Put(b, needed, chars, nul) ==
  LET e == Ensure(b, needed)
  IN IF ~e.ok THEN e
     ELSE [e EXCEPT !.out = @ \o chars,
                    !.over = @ \/ Len(e.out) + Len(chars) + nul > e.room]

Escape(c) ==
  CASE c = Newline -> <<Backslash, "n">>
    [] c = FormFeed -> <<Backslash, "f">>
    [] c \in {Quote, Backslash} -> <<Backslash, c>>
    [] OTHER -> <<c>>

PrintString(b, s) ==
  LET e == FlattenSeq([k \in DOMAIN s |-> Escape(s[k])])
  IN Put(b, Len(e) + 3, <<Quote>> \o e \o <<Quote>>, 1)

(* The white space of the formatted text is blanks here.                   *)
Blanks(n) == [k \in 1..n |-> Blank]

RECURSIVE PrintValue(_, _, _, _), PrintElements(_, _, _, _), PrintPairs(_, _, _, _)

PrintArray(b, elements, fmt, depth) ==
  Put(PrintElements(Put(b, 1, <<"[">>, 0), elements, fmt, depth + 1), 2, <<"]">>, 1)

PrintElements(b, elements, fmt, depth) ==
  LET v == PrintValue(b, elements[1], fmt, depth)
      comma == <<",">> \o Blanks(IF fmt THEN 1 ELSE 0)
  IN IF elements = <<>> \/ ~b.ok THEN b
     ELSE IF Len(elements) = 1 THEN v
     ELSE PrintElements(Put(v, Len(comma) + 1, comma, 1), Tail(elements), fmt, depth)

PrintObject(b, pairs, fmt, depth) ==
  LET open == <<"{">> \o Blanks(IF fmt THEN 1 ELSE 0)
      inside == PrintPairs(Put(b, Len(open) + 1, open, 0), pairs, fmt, depth + 1)
  IN Put(inside, IF fmt THEN depth + 2 ELSE 2,
         Blanks(IF fmt THEN depth ELSE 0) \o <<"}">>, 1)


PrintPairs(b, pairs, fmt, depth) ==
  LET one == IF fmt THEN 1 ELSE 0
      tabs == IF fmt THEN Put(b, depth, Blanks(depth), 0) ELSE b
      key == PrintString(tabs, pairs[1][1])
      colon == Put(key, 1 + one, <<":">> \o Blanks(one), 0)
      v == PrintValue(colon, pairs[1][2], fmt, depth)
      end == (IF Len(pairs) > 1 THEN <<",">> ELSE <<>>) \o Blanks(one)
  IN IF pairs = <<>> \/ ~b.ok THEN b
     ELSE PrintPairs(Put(v, Len(end) + 1, end, 1), Tail(pairs), fmt, depth)

PrintValue(b, v, fmt, depth) ==
  CASE v[1] = "literal" -> Put(b, 2, <<"n">>, 1)
    [] v[1] = "number" -> Put(b, Len(v[2]) + 1, v[2], 1)
    [] v[1] = "string" -> PrintString(b, v[2])
    [] v[1] = "array" -> PrintArray(b, v[2], fmt, depth)
    [] v[1] = "object" -> PrintObject(b, v[2], fmt, depth)
------------------------------------------------------------------------------
(* cJSON_Minify, which reads up to a terminating 0.  Of what the parser    *)
(* skips it takes out the white space only.                                *)

(* The offset behind the string whose first character is at i.             *)
RECURSIVE MinifyString(_, _)
MinifyString(t, i) ==
  IF ~Has(t, i) THEN i
  ELSE IF t[i + 1] = Quote THEN i + 1
  ELSE IF t[i + 1] = Backslash /\ Is(t, i + 1, Quote) THEN MinifyString(t, i + 2)
  ELSE MinifyString(t, i + 1)

RECURSIVE Minified(_, _)
Minified(t, i) ==
  LET e == MinifyString(t, i + 1)
  IN IF ~Has(t, i) THEN <<>>
     ELSE IF t[i + 1] = Blank THEN Minified(t, i + 1)
     ELSE IF t[i + 1] = Quote THEN SubSeq(t, i + 1, e) \o Minified(t, e)
     ELSE <<t[i + 1]>> \o Minified(t, i + 1)
------------------------------------------------------------------------------
Nothing == [call |-> "none"]

NoText == text = <<>> /\ doc = Nothing /\ out = Nothing

TextInit == text \in Texts /\ doc = Nothing /\ out = Nothing

ParseWithLength ==
  /\ doc = Nothing /\ out = Nothing
  /\ doc' = [call |-> "parsed", result |-> Parse(text)]
  /\ UNCHANGED <<text, out>>

(* The printers are tried on texts that were read to their end, a bound of *)
(* the model: what follows is not part of the value.                       *)
Parsed ==
  /\ doc # Nothing /\ out = Nothing
  /\ doc.result.ok /\ doc.result.at = Len(text)

(* cJSON_Print and cJSON_PrintUnformatted, which begin with 256 bytes.     *)
PrintAll(fmt) ==
  /\ Parsed
  /\ out' = [call |-> "print", b |-> PrintValue(Buffer(256, FALSE), doc.result.val, fmt, 0)]
  /\ UNCHANGED <<text, doc>>

PrintBuffered(room, fmt) ==
  /\ Parsed
  /\ out' = [call |-> "print", b |-> PrintValue(Buffer(room, FALSE), doc.result.val, fmt, 0)]
  /\ UNCHANGED <<text, doc>>

PrintPreallocated(room, fmt) ==
  /\ Parsed
  /\ out' = [call |-> "preallocated", fmt |-> fmt,
             b |-> PrintValue(Buffer(room, TRUE), doc.result.val, fmt, 0)]
  /\ UNCHANGED <<text, doc>>

Minify ==
  /\ doc = Nothing /\ out = Nothing
  /\ out' = [call |-> "minified", text |-> Minified(text, 0)]
  /\ UNCHANGED <<text, doc>>

TextNext ==
  \/ ParseWithLength
  \/ \E fmt \in BOOLEAN :
       \/ PrintAll(fmt)
       \/ \E room \in 0..MaxRoom : PrintBuffered(room, fmt) \/ PrintPreallocated(room, fmt)
  \/ Minify

------------------------------------------------------------------------------
(* What texts mean, from the grammar: a set of values, empty for a text    *)
(* that is none; arrays and objects may be nested depth deep.              *)

Inner(s) == SubSeq(s, 2, Len(s) - 1)
Between(s, a, b) == Len(s) >= 2 /\ s[1] = a /\ Last(s) = b
AllBlank(s) == ToSet(s) \subseteq Skipped
Trim(s) ==
  LET solid == {k \in DOMAIN s : s[k] \notin Skipped}
  IN IF solid = {} THEN <<>>
     ELSE SubSeq(s, CHOOSE k \in solid : \A m \in solid : k <= m,
                    CHOOSE k \in solid : \A m \in solid : k >= m)

RECURSIVE Body(_)
Body(s) ==
  IF s = <<>> THEN {<<>>}
  ELSE {<<s[1]>> \o r : r \in IF s[1] \in {Quote, Backslash} THEN {} ELSE Body(Tail(s))}
       \cup (IF Len(s) > 1 /\ s[1] = Backslash /\ s[2] \in DOMAIN Escaped
             THEN {<<Escaped[s[2]]>> \o r : r \in Body(SubSeq(s, 3, Len(s)))}
             ELSE {})

StringMeaning(s) == IF Between(s, Quote, Quote) THEN Body(Inner(s)) ELSE {}

IsNumber(s) ==
  /\ "1" \in ToSet(s)
  /\ \A k \in DOMAIN s : s[k] = "1" \/ (k = 1 /\ s[k] = "-")

RECURSIVE Meaning(_, _), ListMeaning(_, _), PairMeaning(_, _), PairsMeaning(_, _)

Meaning(s, depth) ==
  (IF s = <<"n">> THEN {<<"literal">>} ELSE {})
  \cup (IF IsNumber(s) THEN {<<"number", s>>} ELSE {})
  \cup {<<"string", b>> : b \in StringMeaning(s)}
  \cup (IF depth = 0 \/ ~Between(s, "[", "]") THEN {}
        ELSE IF AllBlank(Inner(s)) THEN {<<"array", <<>>>>}
        ELSE {<<"array", l>> : l \in ListMeaning(Inner(s), depth - 1)})
  \cup (IF depth = 0 \/ ~Between(s, "{", "}") THEN {}
        ELSE IF AllBlank(Inner(s)) THEN {<<"object", <<>>>>}
        ELSE {<<"object", l>> : l \in PairsMeaning(Inner(s), depth - 1)})

ListMeaning(s, depth) ==
  {<<v>> : v \in Meaning(Trim(s), depth)}
  \cup UNION {{<<v>> \o l : v \in Meaning(Trim(SubSeq(s, 1, k - 1)), depth),
                           l \in ListMeaning(SubSeq(s, k + 1, Len(s)), depth)} :
                k \in {i \in DOMAIN s : s[i] = ","}}

PairMeaning(s, depth) ==
  UNION {{<<key, v>> : key \in StringMeaning(Trim(SubSeq(s, 1, k - 1))),
                       v \in Meaning(Trim(SubSeq(s, k + 1, Len(s))), depth)} :
           k \in {i \in DOMAIN s : s[i] = ":"}}

PairsMeaning(s, depth) ==
  {<<v>> : v \in PairMeaning(s, depth)}
  \cup UNION {{<<v>> \o l : v \in PairMeaning(SubSeq(s, 1, k - 1), depth),
                           l \in PairsMeaning(SubSeq(s, k + 1, Len(s)), depth)} :
                k \in {i \in DOMAIN s : s[i] = ","}}

(* The prefixes of the text, without byte order mark and leading blanks,   *)
(* that mean something.                                                    *)
Readings ==
  LET first == SkipBlank(text, SkipBom(text))
  IN {<<n, v>> \in UNION {{n} \X Meaning(SubSeq(text, first + 1, n), NestingLimit) :
                            n \in first + 1..Len(text)} : TRUE}
------------------------------------------------------------------------------
(* Properties.                                                             *)

(* The shape of the state; the offset of a result lies in the text.        *)
TextTypeOK ==
  /\ \A k \in DOMAIN text : text[k] \in Characters
  /\ doc.call \in {"none", "parsed"}
  /\ doc # Nothing => doc.result.at \in 0..Len(text)
  /\ out.call \in {"none", "print", "preallocated", "minified"}

(* cJSON accepts a text exactly when a prefix of it belongs to the         *)
(* language, takes the longest such prefix, and makes of it the value it   *)
(* means; and it decides without looking behind the length it was given:   *)
(* the controller passes a body that no 0 ends (REST_api.c:355).           *)
ParsesTheLanguage ==
  doc # Nothing =>
    LET r == doc.result
    IN /\ ~r.over
       /\ r.ok <=> Readings # {}
       /\ r.ok => /\ <<r.at, r.val>> \in Readings
                  /\ \A m \in Readings : m[1] <= r.at

Bufferful == out.call \in {"print", "preallocated"}

(* The text of a value, read back.                                         *)
ParsesBack(t) ==
  LET r == Parse(t)
  IN r.ok /\ r.at = Len(t) /\ r.val = doc.result.val

(* cJSON_PrintPreallocated and the size its comment asks for (cJSON.h:168).*)
FiveBytesMore ==
  out.call = "preallocated" =>
    LET whole == PrintValue(Buffer(256, FALSE), doc.result.val, out.fmt, 0)
    IN out.b.room >= Len(whole.out) + 1 + 5 => out.b.ok

(* cJSON_Minify (cJSON.h:263) takes a backslash that is escaped itself,    *)
(* before a quote, for one that escapes the quote (cJSON.c:2901), and does *)
(* not know the byte order mark: such texts are left out.                  *)
Minifiable(t) ==
  /\ BomByte \notin ToSet(t)
  /\ \A k \in 2..Len(t) : ~(t[k - 1] = Backslash /\ t[k] = Backslash)

MinifiedIsSolid ==
  out.call = "minified" /\ Minifiable(text) =>
    LET r == Parse(text)
        rest == SubSeq(text, r.at + 1, Len(text))
        m == Parse(out.text)
    IN r.ok /\ AllBlank(rest) =>
         /\ m.ok /\ m.val = r.val
         /\ FormFeed \notin ToSet(text) =>
              out.text = PrintValue(Buffer(256, FALSE), r.val, FALSE, 0).out

==============================================================================
