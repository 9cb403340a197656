----------------------------- MODULE Encodings -----------------------------
(***************************************************************************)
(* The two encodings in which a browser's texts reach output_http: base64   *)
(* (credentials) and %XX (file names and commands).  A character is its     *)
(* code; a C string ends before its first 0.                                *)
(***************************************************************************)
EXTENDS Integers, Sequences, SequencesExt

CONSTANTS
  Characters,      \* that texts are made of, 0 not among them
  MaxText          \* bound: characters of a text

ASSUME EncodingsAssumption == Characters \subseteq 1 .. 255 /\ MaxText \in Nat

VARIABLE text

EncodingsInit == text = <<>>
EncodingsNext == Len(text) < MaxText /\ \E c \in Characters : text' = Append(text, c)

CString(s) ==
  LET z == SelectInSeq(s, LAMBDA c : c = 0) IN IF z = 0 THEN s ELSE SubSeq(s, 1, z - 1)

-----------------------------------------------------------------------------
(* decodeBase64                                                            *)

(* What a character stands for, or -1: it is passed over.                   *)
Six(c) ==
  CASE c \in 48 .. 57 -> c - 48 + 52 [] c \in 65 .. 90 -> c - 65 [] c \in 97 .. 122 -> c - 97 + 26
    [] c = 43 -> 62 [] c = 47 -> 63 [] c = 61 -> 0 [] OTHER -> -1

(* ch holds the last four; of an incomplete group at the end nothing is used. *)
decodeBase64(data) ==
  LET Take6(d, c) ==
        IF Six(c) = -1 THEN d
        ELSE LET ch == (d.ch * 64 + Six(c)) % 2^24
             IN  IF d.i < 3 THEN [d EXCEPT !.ch = ch, !.i = @ + 1]
                 ELSE [ch |-> ch, i |-> 0, out |-> d.out \o <<ch \div 2^16, (ch \div 2^8) % 2^8, ch % 2^8>>]
  IN  CString(FoldLeft(Take6, [ch |-> 0, i |-> 0, out |-> <<>>], data).out)

-----------------------------------------------------------------------------
(* unescape                                                                *)

hex_char_to_int(c) ==
  CASE c \in 48 .. 57 -> c - 48 [] c \in 97 .. 102 -> c - 97 + 10 [] c \in 65 .. 70 -> c - 65 + 10
    [] OTHER -> -1

(* Mutant: the second digit is taken to be the first.                       *)
ReplacedTwice(first, second) == hex_char_to_int(first) * 16 + hex_char_to_int(first)

Replaced(first, second) == hex_char_to_int(first) * 16 + hex_char_to_int(second)

(* The text, or -1.  What is beyond the string is its final 0.               *)
unescape(string) ==
  LET length == Len(string)
      At(k) == IF k <= length THEN string[k] ELSE 0
      from[k \in 1 .. length + 1] ==
        IF k > length THEN <<>>
        ELSE IF string[k] # 37 THEN <<string[k]>> \o from[k + 1]
        ELSE IF k + 1 > length \/ hex_char_to_int(At(k + 1)) = -1 \/ hex_char_to_int(At(k + 2)) = -1 THEN <<-1>>
        ELSE <<Replaced(At(k + 1), At(k + 2))>> \o from[k + 3]
  IN  IF -1 \in ToSet(from[1]) THEN <<-1>> ELSE CString(from[1])

-----------------------------------------------------------------------------
(* The encodings, as their definitions say.                                 *)

Digits64 == [v \in 0 .. 63 |-> CHOOSE c \in 43 .. 122 : c # 61 /\ Six(c) = v]

Base64(s) ==
  LET Byte(k) == IF k <= Len(s) THEN s[k] ELSE 0
      Group(g) == Byte(3 * g + 1) * 2^16 + Byte(3 * g + 2) * 2^8 + Byte(3 * g + 3)
      Digit(k) ==      \* of four in a group; padded with =
        LET g == (k - 1) \div 4
            n == (k - 1) % 4
        IN  IF 3 * g + n > Len(s) THEN 61 ELSE Digits64[(Group(g) \div 2^(18 - 6 * n)) % 64]
  IN  [k \in 1 .. 4 * ((Len(s) + 2) \div 3) |-> Digit(k)]

(* Every character as it is, or as % with two digits of either case.        *)
HexDigits(v) == {c \in 48 .. 102 : hex_char_to_int(c) = v}
Escapes(c) ==
  {<<37, a, b>> : a \in HexDigits(c \div 16), b \in HexDigits(c % 16)} \cup (IF c = 37 THEN {} ELSE {<<c>>})
Escaped(s) == FoldLeft(LAMBDA S, c : {e \o f : e \in S, f \in Escapes(c)}, {<<>>}, s)

(* A text that was encoded comes out as it was, whichever way, and wherever  *)
(* a line is broken in base64; one that ends within an escape does not.     *)
DecodedAsEncoded ==
  /\ \A k \in 0 .. Len(Base64(text)) :
       decodeBase64(SubSeq(Base64(text), 1, k) \o <<10>> \o SubSeq(Base64(text), k + 1, Len(Base64(text)))) = text
  /\ \A s \in Escaped(text) :
       /\ unescape(s) = text
       /\ unescape(s \o <<37>>) = <<-1>> /\ unescape(s \o <<37, 65>>) = <<-1>>
=============================================================================
