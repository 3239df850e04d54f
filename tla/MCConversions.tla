---------------------------- MODULE MCConversions ----------------------------
EXTENDS Conversions

(* Texts of arrays, texts of objects, and strings with their escapes.      *)
ArrayText == {"[", "]", ",", "1", Quote, Blank}
ObjectText == {"{", "}", ",", ":", "n", Quote}
StringText == {"[", "]", "n", Quote, Backslash, Blank}

(* Numbers, and characters that are skipped and are no white space.        *)
ControlText == {"[", "]", "1", "-", Quote, Blank, FormFeed}

MCAlphabets ==
  {<<ArrayText, 6>>, <<ObjectText, 6>>, <<StringText, 6>>, <<ControlText, 5>>}

(* Two pairs, two pairs with an object and white space, a comma too many,  *)
(* objects nested too deep, and byte order marks before a value.           *)
LongTextsTried ==
  { <<"{", FormFeed, "}">>, <<"{", Blank, Quote, Quote, ":", Blank, "n", Blank, "}">>,
    <<"{", Quote, Quote, ":", "n", ",", Quote, "n", Quote, ":", "{", "}", "}">>,
    <<"{", Blank, Quote, "n", Quote, Blank, ":", "{", Quote, Quote, ":", "n", "}",
      Blank, ",", Quote, Quote, ":", "n", Blank, "}", Blank>>,
    <<"{", Quote, Quote, ":", "n", ",", "}">>,
    <<"{", Quote, Quote, ":", "{", Quote, Quote, ":", "{", "}", "}", "}">>,
    <<BomByte, BomByte, BomByte, "[", "1", "]">>,
    <<BomByte, BomByte, BomByte, Blank, "1">>,
    <<BomByte, BomByte, BomByte, "1">>, <<BomByte, BomByte, "[", "1", "]">> }

(* Keys that differ in their case only, and one that does not.             *)
MCLowered == "a" :> "a" @@ "A" :> "a" @@ "b" :> "b"

(* A letter, the ends of the lower halves and what lies beside them.       *)
MCFollowers == { <<>>, <<0, 0, 4, 1>>, <<13, 12, 0, 0>>, <<13, 15, 15, 15>>,
                 <<13, 11, 15, 15>>, <<14, 0, 0, 0>>, <<13, 13, 5, 10>>,
                 <<13, 12, Bad, 0>> }

(* Ids of one manufacturer, 00:12:4B:..., scaled: the first three bytes of *)
(* a MAC address are the most significant ones of the number.              *)
OneManufacturer == {1 * Base ^ (Width - 2) + n : n \in 0..(Base ^ (Width - 3) - 1)}
==============================================================================
