-------------------------------- MODULE Jcs --------------------------------
(***************************************************************************)
(* The canonical JSON a tool input is digested from (crypto.py, RFC 8785). *)
(*                                                                         *)
(* A character is a code point: 0 .. 3 stand for a control character, the  *)
(* quote, the backslash and a letter, 6 for a character above the          *)
(* surrogates and 8 for one outside the basic plane, whose UTF-16 form is  *)
(* the pair <<4, 5>>; 4 alone is a lone surrogate.  A double keeps         *)
(* Precision bits instead of 53, and the notation of a number changes at   *)
(* MaxPoint and -MinPoint digits instead of 21 and -6.  Odd is a refusal:  *)
(* ValueError, TypeError or UnicodeEncodeError.                            *)
(***************************************************************************)
EXTENDS Values, SequencesExt

CONSTANTS Precision, MaxPoint, MinPoint

Quote == 1
Backslash == 2
LoneSurrogate == 4
Astral == 8

Abs(n) == IF n < 0 THEN -n ELSE n
-----------------------------------------------------------------------------
(* Strings. *)

\* k.encode("utf-16-be").
Utf16(s) == FlattenSeq([i \in DOMAIN s |-> IF s[i] = Astral THEN <<4, 5>> ELSE <<s[i]>>])

\* Text that has no UTF-8 or UTF-16 form makes an encode raise.
Encodable(s) == \A i \in DOMAIN s : s[i] # LoneSurrogate

Literal == [c \in {3, 6, Astral} |-> CASE c = 3 -> "u" [] c = 6 -> "bmp" [] OTHER -> "astral"]

\* _jcs_string: the escapes JSON requires, everything else as it is.
JcsChar(c) ==
    CASE c = 0 -> <<"\\", "u", "0">>
      [] c = Quote -> <<"\\", "\"">>
      [] c = Backslash -> <<"\\", "\\">>
      [] OTHER -> <<Literal[c]>>

JcsString(s) == <<"\"">> \o FlattenSeq([i \in DOMAIN s |-> JcsChar(s[i])]) \o <<"\"">>
-----------------------------------------------------------------------------
(* Numbers.  A double is shown by repr as its shortest digits; digits and  *)
(* point give the value 0.digits * 10^point.                               *)

RECURSIVE DigitsOf(_)
DigitsOf(n) == IF n < 10 THEN <<n>> ELSE Append(DigitsOf(n \div 10), n % 10)

Zeros(n) == [i \in 1 .. n |-> 0]

\* Digits as characters.
Shown(ds) == [i \in DOMAIN ds |->
                 <<"0", "1", "2", "3", "4", "5", "6", "7", "8", "9">>[ds[i] + 1]]

\* Digits with the zeros at the end stripped.
Stripped(ds) ==
    LET keep == {i \in DOMAIN ds : ds[i] # 0} IN
    SubSeq(ds, 1, IF keep = {} THEN 0 ELSE CHOOSE i \in keep : \A j \in keep : j <= i)

\* _jcs_number over the shortest digits of a double that is not zero.
JcsDigits(negative, digits, point) ==
    LET k == Len(digits)
        body == IF k <= point /\ point <= MaxPoint THEN Shown(digits \o Zeros(point - k))
                ELSE IF 0 < point /\ point <= MaxPoint
                THEN Shown(SubSeq(digits, 1, point)) \o <<".">>
                     \o Shown(SubSeq(digits, point + 1, k))
                ELSE IF -MinPoint < point /\ point <= 0
                THEN <<"0", ".">> \o Shown(Zeros(-point) \o digits)
                ELSE Shown(<<digits[1]>>) \o (IF k > 1 THEN <<".">> \o Shown(Tail(digits)) ELSE <<>>)
                     \o <<"e", IF point - 1 >= 0 THEN "+" ELSE "-">>
                     \o Shown(DigitsOf(Abs(point - 1)))
    IN (IF negative THEN <<"-">> ELSE <<>>) \o body

\* float(n): the nearest integer of Precision significant bits, ties to even.
RoundTo(n, ulp) ==
    LET low == (n \div ulp) * ulp
        rest == n - low IN
    IF 2 * rest < ulp \/ (2 * rest = ulp /\ (low \div ulp) % 2 = 0) THEN low ELSE low + ulp

Float(n) ==
    LET e == CHOOSE k \in 0 .. 20 : Abs(n) < 2 ^ (Precision + k)
                                    /\ (k > 0 => Abs(n) >= 2 ^ (Precision + k - 1))
        r == RoundTo(Abs(n), 2 ^ e) IN
    IF n < 0 THEN -r ELSE r

\* The integers that with z zeros behind them round to the double x.
Candidates(x, z) ==
    {c \in ((x \div 10 ^ z) - 1) .. ((x \div 10 ^ z) + 1) : c > 0 /\ Float(c * 10 ^ z) = x}

Nearest(x, z, cs) == CHOOSE c \in cs : \A d \in cs : Abs(c * 10 ^ z - x) <= Abs(d * 10 ^ z - x)

Scientific(ds, z) == [digits |-> Stripped(ds), point |-> Len(ds) + z]

ShortestWith(x, z) == Scientific(DigitsOf(Nearest(x, z, Candidates(x, z))), z)

\* repr of an integral double: the fewest digits that round back to it, the
\* nearest of them.
Shortest(x) == ShortestWith(x, Max({z \in 0 .. Len(DigitsOf(x)) - 1 : Candidates(x, z) # {}}))

\* _jcs_number of an integral double x.
JcsNumber(x) ==
    IF x = 0 THEN <<"0">>
    ELSE LET s == Shortest(Abs(x)) IN JcsDigits(x < 0, s.digits, s.point)

\* int.__repr__.
Repr(n) == (IF n < 0 THEN <<"-">> ELSE <<>>) \o Shown(DigitsOf(Abs(n)))

\* _jcs_int: inside the safe range the digits themselves; outside it only an
\* integer that its double prints unchanged.
MaxSafeInt == 2 ^ Precision

JcsInt(n) ==
    IF Abs(n) <= MaxSafeInt \/ JcsNumber(Float(n)) = Repr(n) THEN Repr(n) ELSE Odd
-----------------------------------------------------------------------------
(* Values: [t |-> "null" | "true" | "false"], strings [t |-> "str", s],    *)
(* numbers [t |-> "int" | "float", n], lists [t |-> "list", items], dicts  *)
(* [t |-> "dict", entries] with entries in insertion order, and "other".   *)

\* Code-unit order of two keys.
UnitLess(a, b) ==
    \/ IsStrictPrefix(a, b)
    \/ \E i \in DOMAIN a \cap DOMAIN b : a[i] < b[i] /\ SubSeq(a, 1, i - 1) = SubSeq(b, 1, i - 1)

\* Mutant: the entries as they were inserted.
MutantInsertionOrder(entries) == entries

\* sorted(v, key=utf-16-be): the entries in the order they are written.
SortedEntries(entries) ==
    SortSeq(entries, LAMBDA a, b : UnitLess(Utf16(a.key), Utf16(b.key)))

Commas(parts) ==
    FlattenSeq([i \in DOMAIN parts |-> IF i > 1 THEN <<",">> \o parts[i] ELSE parts[i]])

\* _jcs_write and jcs_canonicalize.
RECURSIVE JcsWrite(_)
JcsWrite(v) ==
    CASE v.t \in {"null", "true", "false"} -> <<v.t>>
      [] v.t = "str" -> IF Encodable(v.s) THEN JcsString(v.s) ELSE Odd
      [] v.t = "int" -> JcsInt(v.n)
      [] v.t = "float" -> JcsNumber(v.n)
      [] v.t = "list" ->
           LET parts == [i \in DOMAIN v.items |-> JcsWrite(v.items[i])] IN
           IF \E i \in DOMAIN parts : parts[i] = Odd THEN Odd
           ELSE <<"[">> \o Commas(parts) \o <<"]">>
      [] v.t = "dict" ->
           LET sorted == SortedEntries(v.entries)
               parts == [i \in DOMAIN sorted |-> JcsWrite(sorted[i].value)] IN
           IF \E i \in DOMAIN parts : ~Encodable(sorted[i].key) \/ parts[i] = Odd THEN Odd
           ELSE <<"{">> \o Commas([i \in DOMAIN parts |->
                                      JcsString(sorted[i].key) \o <<":">> \o parts[i]]) \o <<"}">>
      [] OTHER -> Odd
=============================================================================
