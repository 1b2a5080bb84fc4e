----------------------------- MODULE WireProofs -----------------------------
(***************************************************************************)
(* Two things that cross the wire.                                         *)
(*                                                                         *)
(* The payloads of fixed shape are one to one: no two different requests,  *)
(* commitments, records or attestations share the bytes that are signed    *)
(* or hashed, whatever bytes their fields hold.                            *)
(*                                                                         *)
(* The event stream and its relay keep, for any number of rows and of      *)
(* streams opened, type correctness, delivery in order without a gap or a  *)
(* repetition through crashes, pruning and redrives, and what a cancelled  *)
(* iteration may end with.                                                 *)
(***************************************************************************)
EXTENDS Framing, EventStream, TLAPS

-------------------------------------------------------------------------------
(* The payloads. *)

\* Byte strings, with sequences and concatenation kept opaque.
Str == Seq(Byte)
Cat(s, t) == s \o t

LEMMA SameBytes ==
    ASSUME NEW S, NEW s \in Seq(S), NEW t \in Seq(S), Len(s) = Len(t),
           \A i \in 1 .. Len(s) : s[i] = t[i]
    PROVE  s = t
OBVIOUS

LEMMA Joined ==
    ASSUME NEW S, NEW s \in Seq(S), NEW t \in Seq(S)
    PROVE  /\ s \o t \in Seq(S) /\ Len(s \o t) = Len(s) + Len(t)
           /\ \A i \in 1 .. Len(s) + Len(t) : (s \o t)[i] = IF i <= Len(s) THEN s[i] ELSE t[i - Len(s)]
<1>1. s \o t \in Seq(S) /\ Len(s \o t) = Len(s) + Len(t)
  OBVIOUS
<1>2. \A i \in 1 .. Len(s) + Len(t) : (s \o t)[i] = IF i <= Len(s) THEN s[i] ELSE t[i - Len(s)]
  OBVIOUS
<1>. QED BY <1>1, <1>2

LEMMA CatFacts ==
    /\ \A s, t \in Str : Cat(s, t) \in Str
    /\ \A r, s, t \in Str : Cat(Cat(r, s), t) = Cat(r, Cat(s, t))
    /\ \A s \in Str : Cat(s, <<>>) = s
    /\ <<>> \in Str
<1>1. ASSUME NEW s \in Str, NEW t \in Str PROVE Cat(s, t) \in Str
  BY DEF Str, Cat
<1>2. ASSUME NEW r \in Str, NEW s \in Str, NEW t \in Str
      PROVE  Cat(Cat(r, s), t) = Cat(r, Cat(s, t))
  <2>1. r \in Seq(Byte) /\ s \in Seq(Byte) /\ t \in Seq(Byte)
    BY DEF Str
  <2>2. (r \o s) \o t = r \o (s \o t)
    <3>1. (r \o s) \o t \in Seq(Byte) /\ r \o (s \o t) \in Seq(Byte)
      BY <2>1
    <3>2. Len((r \o s) \o t) = Len(r \o (s \o t))
      BY <2>1
    <3>3. \A i \in 1 .. Len((r \o s) \o t) : ((r \o s) \o t)[i] = (r \o (s \o t))[i]
      BY <2>1
    <3> QED BY <3>1, <3>2, <3>3, SameBytes, Zenon
  <2> QED BY <2>2 DEF Cat
<1>3. ASSUME NEW s \in Str PROVE Cat(s, <<>>) = s
  <2>1. s \in Seq(Byte) /\ s \o <<>> \in Seq(Byte) /\ Len(s \o <<>>) = Len(s)
    BY DEF Str
  <2>2. \A i \in 1 .. Len(s \o <<>>) : (s \o <<>>)[i] = s[i]
    BY <2>1
  <2> QED BY <2>1, <2>2, SameBytes, Zenon DEF Cat
<1>4. <<>> \in Str
  BY DEF Str
<1> QED BY <1>1, <1>2, <1>3, <1>4

\* A fixed-width prefix can be cut off the front of a byte string.
LEMMA Cut ==
    \A p, q, s, t \in Str : Len(p) = Len(q) /\ Cat(p, s) = Cat(q, t) => p = q /\ s = t
<1> SUFFICES ASSUME NEW p \in Seq(Byte), NEW q \in Seq(Byte), NEW s \in Seq(Byte),
                    NEW t \in Seq(Byte), Len(p) = Len(q), p \o s = q \o t
             PROVE  p = q /\ s = t
  BY Zenon DEF Str, Cat
<1>1. /\ p \o s \in Seq(Byte)
      /\ Len(p \o s) = Len(p) + Len(s)
      /\ \A i \in 1 .. Len(p) + Len(s) :
            (p \o s)[i] = IF i <= Len(p) THEN p[i] ELSE s[i - Len(p)]
  BY Joined, Zenon
<1>2. /\ q \o t \in Seq(Byte)
      /\ Len(q \o t) = Len(q) + Len(t)
      /\ \A i \in 1 .. Len(q) + Len(t) :
            (q \o t)[i] = IF i <= Len(q) THEN q[i] ELSE t[i - Len(q)]
  BY Joined, Zenon
<1>3. Len(p) \in Nat /\ Len(q) \in Nat /\ Len(s) \in Nat /\ Len(t) \in Nat
  OBVIOUS
<1>4. Len(s) = Len(t)
  BY <1>1, <1>2, <1>3
<1>5. \A i \in 1 .. Len(p) : p[i] = q[i]
  <2> TAKE i \in 1 .. Len(p)
  <2>1. i <= Len(p) /\ i \in 1 .. Len(p) + Len(s) /\ i \in 1 .. Len(q) + Len(t)
    BY <1>3
  <2> QED BY <1>1, <1>2, <2>1
<1>6. \A i \in 1 .. Len(s) : s[i] = t[i]
  <2> TAKE i \in 1 .. Len(s)
  <2> DEFINE j == Len(p) + i
  <2>1. /\ j \in 1 .. Len(p) + Len(s) /\ j \in 1 .. Len(q) + Len(t)
        /\ ~(j <= Len(p)) /\ j - Len(p) = i /\ j - Len(q) = i
    BY <1>3, <1>4
  <2>2. (p \o s)[j] = s[i] /\ (q \o t)[j] = t[i]
    <3> HIDE DEF j
    <3> QED BY Zenon, <1>1, <1>2, <2>1
  <2> QED BY <2>2
<1>7. p = q
  BY <1>5, SameBytes, Zenon
<1>8. s = t
  BY <1>4, <1>6, SameBytes, Zenon
<1> QED BY <1>7, <1>8

\* Frames are byte strings, and cut off the front of one: a frame determines
\* its content and what follows it.
LEMMA FrameType ==
    \A a \in Text : a \in Str /\ Len(a) \in 0 .. MaxLen /\ Frame(a) \in Str /\ BeFrame(a) \in Str
<1> SUFFICES ASSUME NEW a \in Text
             PROVE  a \in Str /\ Len(a) \in 0 .. MaxLen /\ Frame(a) \in Str /\ BeFrame(a) \in Str
  OBVIOUS
<1>1. a \in Str /\ Len(a) \in 0 .. MaxLen
  BY FramingAssumption DEF Text, Str
<1>2. Le32(Len(a)) \in Str /\ Be64(Len(a)) \in Str
  BY <1>1, FramingAssumption DEF Str
<1>3. Frame(a) = Cat(Le32(Len(a)), a) /\ BeFrame(a) = Cat(Be64(Len(a)), a)
  BY DEF Frame, BeFrame, Cat
<1> QED BY <1>1, <1>2, <1>3, CatFacts

LEMMA FrameCut ==
    \A a, b \in Text : \A s, t \in Str :
        Cat(Frame(a), s) = Cat(Frame(b), t) => a = b /\ s = t
<1> SUFFICES ASSUME NEW a \in Text, NEW b \in Text, NEW s \in Str, NEW t \in Str,
                    Cat(Frame(a), s) = Cat(Frame(b), t)
             PROVE  a = b /\ s = t
  OBVIOUS
<1> DEFINE p == Le32(Len(a))
           q == Le32(Len(b))
<1>1. /\ a \in Str /\ Len(a) \in 0 .. MaxLen
      /\ b \in Str /\ Len(b) \in 0 .. MaxLen
  BY FrameType
<1>2. p \in Str /\ q \in Str /\ Len(p) = Len(q) /\ (p = q => Len(a) = Len(b))
  BY <1>1, FramingAssumption DEF Str
<1>3. Frame(a) = Cat(p, a) /\ Frame(b) = Cat(q, b)
  BY DEF Frame, Cat
<1> HIDE DEF p, q
<1>4. Cat(p, Cat(a, s)) = Cat(q, Cat(b, t)) /\ Cat(a, s) \in Str /\ Cat(b, t) \in Str
  BY <1>1, <1>2, <1>3, CatFacts
<1>5. p = q /\ Cat(a, s) = Cat(b, t)
  BY <1>2, <1>4, Cut
<1> QED BY <1>1, <1>2, <1>5, Cut

LEMMA BeFrameCut ==
    \A a, b \in Text : \A s, t \in Str :
        Cat(BeFrame(a), s) = Cat(BeFrame(b), t) => a = b /\ s = t
<1> SUFFICES ASSUME NEW a \in Text, NEW b \in Text, NEW s \in Str, NEW t \in Str,
                    Cat(BeFrame(a), s) = Cat(BeFrame(b), t)
             PROVE  a = b /\ s = t
  OBVIOUS
<1> DEFINE p == Be64(Len(a))
           q == Be64(Len(b))
<1>1. /\ a \in Str /\ Len(a) \in 0 .. MaxLen
      /\ b \in Str /\ Len(b) \in 0 .. MaxLen
  BY FrameType
<1>2. p \in Str /\ q \in Str /\ Len(p) = Len(q) /\ (p = q => Len(a) = Len(b))
  <2>1. Len(a) \in 0 .. MaxNum /\ Len(b) \in 0 .. MaxNum
    BY <1>1, FramingAssumption
  <2> QED BY <2>1, FramingAssumption DEF Str
<1>3. BeFrame(a) = Cat(p, a) /\ BeFrame(b) = Cat(q, b)
  BY DEF BeFrame, Cat
<1> HIDE DEF p, q
<1>4. Cat(p, Cat(a, s)) = Cat(q, Cat(b, t)) /\ Cat(a, s) \in Str /\ Cat(b, t) \in Str
  BY <1>1, <1>2, <1>3, CatFacts
<1>5. p = q /\ Cat(a, s) = Cat(b, t)
  BY <1>2, <1>4, Cut
<1> QED BY <1>1, <1>2, <1>5, Cut

\* The presence byte keeps an absent field apart from a present empty one.
LEMMA PresenceBytes ==
    /\ <<0>> \in Str /\ <<1>> \in Str
    /\ Len(<<0>>) = Len(<<1>>) /\ <<0>> # <<1>>
  BY FramingAssumption DEF Str

LEMMA OptType ==
    \A a \in OptText : Opt(a) \in Str /\ BeOpt(a) \in Str
<1> SUFFICES ASSUME NEW a \in OptText PROVE Opt(a) \in Str /\ BeOpt(a) \in Str
  OBVIOUS
<1>1. CASE a = Absent
  BY <1>1, PresenceBytes DEF Opt, BeOpt
<1>2. CASE a # Absent
  <2>1. Frame(a) \in Str /\ BeFrame(a) \in Str
    BY <1>2, FrameType DEF OptText
  <2>2. Opt(a) = Cat(<<1>>, Frame(a)) /\ BeOpt(a) = Cat(<<1>>, BeFrame(a))
    BY <1>2 DEF Opt, BeOpt, Cat
  <2> QED BY <2>1, <2>2, PresenceBytes, CatFacts
<1> QED BY <1>1, <1>2

LEMMA OptCut ==
    \A a, b \in OptText : \A s, t \in Str :
        Cat(Opt(a), s) = Cat(Opt(b), t) => a = b /\ s = t
<1> SUFFICES ASSUME NEW a \in OptText, NEW b \in OptText, NEW s \in Str, NEW t \in Str,
                    Cat(Opt(a), s) = Cat(Opt(b), t)
             PROVE  a = b /\ s = t
  OBVIOUS
<1> DEFINE Rest(x, r) == IF x = Absent THEN r ELSE Cat(Frame(x), r)
           Bit(x) == IF x = Absent THEN <<0>> ELSE <<1>>
<1>1. ASSUME NEW x \in OptText, NEW r \in Str
      PROVE  Cat(Opt(x), r) = Cat(Bit(x), Rest(x, r)) /\ Rest(x, r) \in Str /\ Bit(x) \in Str
  <2>1. CASE x = Absent
    BY <2>1, PresenceBytes DEF Opt
  <2>2. CASE x # Absent
    <3>1. x \in Text /\ Frame(x) \in Str
      BY <2>2, FrameType DEF OptText
    <3>2. Opt(x) = Cat(<<1>>, Frame(x))
      BY <2>2 DEF Opt, Cat
    <3>3. Cat(Cat(<<1>>, Frame(x)), r) = Cat(<<1>>, Cat(Frame(x), r)) /\ Cat(Frame(x), r) \in Str
      <4> DEFINE one == <<1>>
      <4>1. one \in Str
        BY PresenceBytes
      <4> HIDE DEF one
      <4>2. Cat(Cat(one, Frame(x)), r) = Cat(one, Cat(Frame(x), r)) /\ Cat(Frame(x), r) \in Str
        BY <3>1, <4>1, CatFacts
      <4> QED BY <4>2 DEF one
    <3> QED BY <2>2, <3>2, <3>3, PresenceBytes
  <2> QED BY <2>1, <2>2
<1>2. Len(Bit(a)) = Len(Bit(b)) /\ (Bit(a) = Bit(b) => (a = Absent) = (b = Absent))
  BY PresenceBytes
<1> HIDE DEF Bit
<1>3. Bit(a) = Bit(b) /\ Rest(a, s) = Rest(b, t)
  <2> HIDE DEF Rest
  <2> QED BY <1>1, <1>2, Cut
<1>4. CASE a = Absent
  BY <1>2, <1>3, <1>4
<1>5. CASE a # Absent
  <2>1. a \in Text /\ b \in Text /\ Cat(Frame(a), s) = Cat(Frame(b), t)
    BY <1>2, <1>3, <1>5 DEF OptText
  <2> QED BY <2>1, FrameCut
<1> QED BY <1>4, <1>5

LEMMA BeOptCut ==
    \A a, b \in OptText : \A s, t \in Str :
        Cat(BeOpt(a), s) = Cat(BeOpt(b), t) => a = b /\ s = t
<1> SUFFICES ASSUME NEW a \in OptText, NEW b \in OptText, NEW s \in Str, NEW t \in Str,
                    Cat(BeOpt(a), s) = Cat(BeOpt(b), t)
             PROVE  a = b /\ s = t
  OBVIOUS
<1> DEFINE Rest(x, r) == IF x = Absent THEN r ELSE Cat(BeFrame(x), r)
           Bit(x) == IF x = Absent THEN <<0>> ELSE <<1>>
<1>1. ASSUME NEW x \in OptText, NEW r \in Str
      PROVE  Cat(BeOpt(x), r) = Cat(Bit(x), Rest(x, r)) /\ Rest(x, r) \in Str /\ Bit(x) \in Str
  <2>1. CASE x = Absent
    BY <2>1, PresenceBytes DEF BeOpt
  <2>2. CASE x # Absent
    <3>1. x \in Text /\ BeFrame(x) \in Str
      BY <2>2, FrameType DEF OptText
    <3>2. BeOpt(x) = Cat(<<1>>, BeFrame(x))
      BY <2>2 DEF BeOpt, Cat
    <3>3. Cat(Cat(<<1>>, BeFrame(x)), r) = Cat(<<1>>, Cat(BeFrame(x), r)) /\ Cat(BeFrame(x), r) \in Str
      <4> DEFINE one == <<1>>
      <4>1. one \in Str
        BY PresenceBytes
      <4> HIDE DEF one
      <4>2. Cat(Cat(one, BeFrame(x)), r) = Cat(one, Cat(BeFrame(x), r)) /\ Cat(BeFrame(x), r) \in Str
        BY <3>1, <4>1, CatFacts
      <4> QED BY <4>2 DEF one
    <3> QED BY <2>2, <3>2, <3>3, PresenceBytes
  <2> QED BY <2>1, <2>2
<1>2. Len(Bit(a)) = Len(Bit(b)) /\ (Bit(a) = Bit(b) => (a = Absent) = (b = Absent))
  BY PresenceBytes
<1> HIDE DEF Bit
<1>3. Bit(a) = Bit(b) /\ Rest(a, s) = Rest(b, t)
  <2> HIDE DEF Rest
  <2> QED BY <1>1, <1>2, Cut
<1>4. CASE a = Absent
  BY <1>2, <1>3, <1>4
<1>5. CASE a # Absent
  <2>1. a \in Text /\ b \in Text /\ Cat(BeFrame(a), s) = Cat(BeFrame(b), t)
    BY <1>2, <1>3, <1>5 DEF OptText
  <2> QED BY <2>1, BeFrameCut
<1> QED BY <1>4, <1>5

\* Packed numbers are texts and keep their number; tags are texts.
LEMMA Packed ==
    /\ \A n \in 0 .. MaxNum : Le64(n) \in Text
    /\ \A n \in 0 .. MaxLen : Le32(n) \in Text
    /\ \A m, n \in 0 .. MaxNum : Le64(m) = Le64(n) => m = n
    /\ \A m, n \in 0 .. MaxLen : Le32(m) = Le32(n) => m = n
    /\ \A name \in TagNames : Tag[name] \in Text
    /\ <<>> \in Text
  BY FramingAssumption DEF Text

\* A field in front of a byte string, or alone, is a byte string.
LEMMA FieldType ==
    /\ \A a \in Text : \A s \in Str : Cat(Frame(a), s) \in Str /\ Cat(BeFrame(a), s) \in Str
    /\ \A a \in OptText : \A s \in Str : Cat(Opt(a), s) \in Str /\ Cat(BeOpt(a), s) \in Str
    /\ <<>> \in Str
  BY Zenon, FrameType, OptType, CatFacts

LEMMA FirstByte ==
    \A s, t \in Str : Len(s) > 0 => Cat(s, t)[1] = s[1]
<1> SUFFICES ASSUME NEW s \in Str, NEW t \in Str, Len(s) > 0 PROVE Cat(s, t)[1] = s[1]
  OBVIOUS
<1>1. s \in Seq(Byte) /\ t \in Seq(Byte) /\ Len(s) \in Nat /\ Len(t) \in Nat
  BY DEF Str
<1>2. 1 \in 1 .. Len(s) + Len(t) /\ 1 <= Len(s)
  BY <1>1
<1>3. \A i \in 1 .. Len(s) + Len(t) : (s \o t)[i] = IF i <= Len(s) THEN s[i] ELSE t[i - Len(s)]
  BY Zenon, <1>1, Joined
<1>4. (s \o t)[1] = IF 1 <= Len(s) THEN s[1] ELSE t[1 - Len(s)]
  BY Zenon, <1>2, <1>3
<1> QED BY Zenon, <1>2, <1>4 DEF Cat

\* The first byte of the three ways to open a payload.
LEMMA OpeningByte ==
    ASSUME NEW a \in TagNames
    PROVE  /\ Opening(a) \in Str
           /\ \A s \in Str : Cat(Opening(a), s)[1] =
                  IF a = "pop" THEN Tag["pop"][1]
                  ELSE IF a \in BeTagNames THEN Be64(Len(Tag[a]))[1] ELSE Le32(Len(Tag[a]))[1]
<1>1. Tag[a] \in Text /\ Tag[a] \in Str /\ Len(Tag[a]) \in 0 .. MaxLen /\ Len(Tag[a]) \in 0 .. MaxNum
  BY Packed, FramingAssumption DEF Text, Str
<1>2. /\ Le32(Len(Tag[a])) \in Str /\ Be64(Len(Tag[a])) \in Str
      /\ Len(Le32(Len(Tag[a]))) = Len(Le32(0)) /\ Len(Be64(Len(Tag[a]))) = Len(Be64(0))
  BY Zenon, <1>1, FramingAssumption DEF Str
<1>3. Frame(Tag[a]) = Cat(Le32(Len(Tag[a])), Tag[a]) /\ BeFrame(Tag[a]) = Cat(Be64(Len(Tag[a])), Tag[a])
  BY Zenon DEF Frame, BeFrame, Cat
<1>4. \A s \in Str : /\ Cat(Frame(Tag[a]), s) = Cat(Le32(Len(Tag[a])), Cat(Tag[a], s))
                     /\ Cat(BeFrame(Tag[a]), s) = Cat(Be64(Len(Tag[a])), Cat(Tag[a], s))
                     /\ Cat(Tag[a], s) \in Str
  <2> TAKE s \in Str
  <2>1. Cat(Cat(Le32(Len(Tag[a])), Tag[a]), s) = Cat(Le32(Len(Tag[a])), Cat(Tag[a], s))
    BY ZenonT(40), <1>1, <1>2, CatFacts
  <2>2. Cat(Cat(Be64(Len(Tag[a])), Tag[a]), s) = Cat(Be64(Len(Tag[a])), Cat(Tag[a], s))
    BY ZenonT(40), <1>1, <1>2, CatFacts
  <2>3. Cat(Tag[a], s) \in Str
    BY Zenon, <1>1, CatFacts
  <2> QED BY Zenon, <1>3, <2>1, <2>2, <2>3
<1>5. \A s \in Str : /\ Cat(Frame(Tag[a]), s)[1] = Le32(Len(Tag[a]))[1]
                     /\ Cat(BeFrame(Tag[a]), s)[1] = Be64(Len(Tag[a]))[1]
  <2> TAKE s \in Str
  <2>1. Len(Le32(Len(Tag[a]))) > 0 /\ Len(Be64(Len(Tag[a]))) > 0
    BY Zenon, <1>2, OpeningAssumption
  <2>2. Cat(Le32(Len(Tag[a])), Cat(Tag[a], s))[1] = Le32(Len(Tag[a]))[1]
    BY Zenon, <1>2, <1>4, <2>1, FirstByte
  <2>3. Cat(Be64(Len(Tag[a])), Cat(Tag[a], s))[1] = Be64(Len(Tag[a]))[1]
    BY Zenon, <1>2, <1>4, <2>1, FirstByte
  <2> QED BY Zenon, <1>4, <2>2, <2>3
<1>6. ASSUME a = "pop", NEW s \in Str PROVE Cat(Tag[a], s)[1] = Tag["pop"][1]
  <2>1. Tag[a] # <<>>
    BY Zenon, <1>6, OpeningAssumption
  <2>2. Len(Tag[a]) > 0
    BY <1>1, <2>1 DEF Str
  <2> QED BY Zenon, <1>1, <1>6, <2>2, FirstByte
<1>7. Frame(Tag[a]) \in Str /\ BeFrame(Tag[a]) \in Str
  BY Zenon, <1>1, FrameType
<1>8. Opening(a) \in Str
  BY Zenon, <1>1, <1>7 DEF Opening
<1>9. ASSUME NEW s \in Str
      PROVE  Cat(Opening(a), s)[1] =
                 IF a = "pop" THEN Tag["pop"][1]
                 ELSE IF a \in BeTagNames THEN Be64(Len(Tag[a]))[1] ELSE Le32(Len(Tag[a]))[1]
  BY Zenon, <1>5, <1>6 DEF Opening
<1> QED BY Zenon, <1>8, <1>9

\* Every payload begins with the opening of its kind, and no two kinds, framed
\* alike or not, have byte strings in common: what was signed or hashed as one
\* kind is never the bytes of another, whatever follows.
THEOREM KindsApart ==
    \A a, b \in TagNames : \A x, y \in Seq(Byte) :
        Opening(a) \o x = Opening(b) \o y => a = b /\ x = y
<1> SUFFICES ASSUME NEW a \in TagNames, NEW b \in TagNames, NEW x \in Str, NEW y \in Str,
                    Cat(Opening(a), x) = Cat(Opening(b), y)
             PROVE  a = b /\ x = y
  BY Zenon DEF Cat, Str
<1> DEFINE Byte1(k) == IF k = "pop" THEN Tag["pop"][1]
                       ELSE IF k \in BeTagNames THEN Be64(Len(Tag[k]))[1] ELSE Le32(Len(Tag[k]))[1]
           Family(k) == IF k = "pop" THEN "raw" ELSE IF k \in BeTagNames THEN "be" ELSE "le"
<1>1. Byte1(a) = Byte1(b)
  <2>1. Cat(Opening(a), x)[1] = Byte1(a)
    BY Zenon, OpeningByte
  <2>2. Cat(Opening(b), y)[1] = Byte1(b)
    BY Zenon, OpeningByte
  <2> QED BY Zenon, <2>1, <2>2
<1>2. Family(a) = Family(b)
  <2>1. \A k \in TagNames : k # "pop" /\ k \notin BeTagNames => Byte1(k) # Tag["pop"][1]
    BY Zenon, OpeningAssumption
  <2>2. \A k \in BeTagNames : k # "pop" => Byte1(k) # Tag["pop"][1]
    BY Zenon, OpeningAssumption
  <2>3. \A k \in TagNames, m \in BeTagNames :
            k # "pop" /\ k \notin BeTagNames /\ m # "pop" => Byte1(k) # Byte1(m)
    BY Zenon, OpeningAssumption
  <2>4. Byte1("pop") = Tag["pop"][1]
    BY Zenon
  <2> HIDE DEF Byte1
  <2> QED BY ZenonT(40), <1>1, <2>1, <2>2, <2>3, <2>4
<1>3. Tag[a] \in Text /\ Tag[b] \in Text /\ (Tag[a] = Tag[b] => a = b)
  BY Zenon, Packed, FramingAssumption
<1>4. CASE a = "pop"
  <2>1. b = "pop"
    BY <1>2, <1>4
  <2>2. Opening(a) = Tag["pop"] /\ Opening(b) = Tag["pop"] /\ Tag["pop"] \in Str
    BY Zenon, <1>3, <1>4, <2>1 DEF Opening, Text, Str
  <2>3. x = y
    BY Zenon, <2>2, Cut
  <2> QED BY Zenon, <1>4, <2>1, <2>3
<1>5. CASE a # "pop" /\ a \in BeTagNames
  <2>1. b # "pop" /\ b \in BeTagNames
    BY <1>2, <1>5
  <2>2. Cat(BeFrame(Tag[a]), x) = Cat(BeFrame(Tag[b]), y)
    BY Zenon, <1>5, <2>1 DEF Opening
  <2>3. Tag[a] = Tag[b] /\ x = y
    BY <1>3, <2>2, BeFrameCut
  <2> QED BY Zenon, <1>3, <2>3
<1>6. CASE a # "pop" /\ a \notin BeTagNames
  <2>1. b # "pop" /\ b \notin BeTagNames
    BY <1>2, <1>6
  <2>2. Cat(Frame(Tag[a]), x) = Cat(Frame(Tag[b]), y)
    BY Zenon, <1>6, <2>1 DEF Opening
  <2>3. Tag[a] = Tag[b] /\ x = y
    BY <1>3, <2>2, FrameCut
  <2> QED BY Zenon, <1>3, <2>3
<1> QED BY Zenon, <1>4, <1>5, <1>6

\* The same with concatenation kept opaque.
LEMMA OpeningCut ==
    \A a, b \in TagNames : \A s, t \in Str :
        Cat(Opening(a), s) = Cat(Opening(b), t) => a = b /\ s = t
BY Zenon, KindsApart DEF Cat, Str

\* call_sig_payload: a signature made for one (ticket, input digest, tool,
\* agent) is over the bytes of no other.
THEOREM CallSigInjective ==
    \A r, q \in SignedCalls : CallSigPayload(r) = CallSigPayload(q) => r = q
<1> SUFFICES ASSUME NEW r \in SignedCalls, NEW q \in SignedCalls, CallSigPayload(r) = CallSigPayload(q)
             PROVE  r = q
  OBVIOUS
<1> DEFINE t4(x) == Cat(Frame(x.agent_id), <<>>)
           t3(x) == Cat(Frame(x.tool_name), t4(x))
           t2(x) == Cat(Frame(x.input_digest), t3(x))
           t1(x) == Cat(Frame(x.ticket), t2(x))
<1>1. \A x \in SignedCalls :
          /\ x.ticket \in Text
          /\ x.input_digest \in Text
          /\ x.tool_name \in Text
          /\ x.agent_id \in Text
  BY Packed DEF SignedCalls
<1>2. \A x \in SignedCalls : CallSigPayload(x) = Cat(Opening("call v2"), t1(x))
  <2> TAKE x \in SignedCalls
  <2>1. t4(x) = Frame(x.agent_id)
    BY <1>1, FrameType, CatFacts
  <2> QED BY Zenon, <2>1 DEF CallSigPayload, Cat
<1> HIDE DEF t1, t2, t3, t4
<1>3. \A x \in SignedCalls : t4(x) \in Str
  BY <1>1, FieldType DEF t4
<1>4. \A x \in SignedCalls : t3(x) \in Str
  BY <1>1, <1>3, FieldType DEF t3
<1>5. \A x \in SignedCalls : t2(x) \in Str
  BY <1>1, <1>4, FieldType DEF t2
<1>6. \A x \in SignedCalls : t1(x) \in Str
  BY <1>1, <1>5, FieldType DEF t1
<1>7. t1(r) = t1(q)
  <2>1. "call v2" \in TagNames
    BY Zenon DEF TagNames
  <2> QED BY ZenonT(40), <1>2, <1>6, <2>1, OpeningCut
<1>8. r.ticket = q.ticket /\ t2(r) = t2(q)
  BY <1>1, <1>5, <1>7, FrameCut DEF t1
<1>9. r.input_digest = q.input_digest /\ t3(r) = t3(q)
  BY <1>1, <1>4, <1>8, FrameCut DEF t2
<1>10. r.tool_name = q.tool_name /\ t4(r) = t4(q)
  BY <1>1, <1>3, <1>9, FrameCut DEF t3
<1>11. r.agent_id = q.agent_id
  BY <1>1, <1>10, CatFacts, FrameCut DEF t4
<1> QED BY <1>8, <1>9, <1>10, <1>11, Packed DEF SignedCalls

\* request_sig_payload: the same for the per-request signature, so a signed
\* body is bound to its rpc, resource and ticket.
THEOREM RequestSigInjective ==
    \A r, q \in SignedRequests : RequestSigPayload(r) = RequestSigPayload(q) => r = q
<1> SUFFICES ASSUME NEW r \in SignedRequests, NEW q \in SignedRequests, RequestSigPayload(r) = RequestSigPayload(q)
             PROVE  r = q
  OBVIOUS
<1> DEFINE t4(x) == Cat(Frame(x.body_digest), <<>>)
           t3(x) == Cat(Frame(x.resource_id), t4(x))
           t2(x) == Cat(Frame(x.rpc_full_name), t3(x))
           t1(x) == Cat(Frame(x.ticket), t2(x))
<1>1. \A x \in SignedRequests :
          /\ x.ticket \in Text
          /\ x.rpc_full_name \in Text
          /\ x.resource_id \in Text
          /\ x.body_digest \in Text
  BY Packed DEF SignedRequests
<1>2. \A x \in SignedRequests : RequestSigPayload(x) = Cat(Opening("request"), t1(x))
  <2> TAKE x \in SignedRequests
  <2>1. t4(x) = Frame(x.body_digest)
    BY <1>1, FrameType, CatFacts
  <2> QED BY <2>1 DEF RequestSigPayload, Cat
<1> HIDE DEF t1, t2, t3, t4
<1>3. \A x \in SignedRequests : t4(x) \in Str
  BY <1>1, FieldType DEF t4
<1>4. \A x \in SignedRequests : t3(x) \in Str
  BY <1>1, <1>3, FieldType DEF t3
<1>5. \A x \in SignedRequests : t2(x) \in Str
  BY <1>1, <1>4, FieldType DEF t2
<1>6. \A x \in SignedRequests : t1(x) \in Str
  BY <1>1, <1>5, FieldType DEF t1
<1>7. t1(r) = t1(q)
  <2>1. "request" \in TagNames
    BY Zenon DEF TagNames
  <2> QED BY ZenonT(40), <1>2, <1>6, <2>1, OpeningCut
<1>8. r.ticket = q.ticket /\ t2(r) = t2(q)
  BY <1>1, <1>5, <1>7, FrameCut DEF t1
<1>9. r.rpc_full_name = q.rpc_full_name /\ t3(r) = t3(q)
  BY <1>1, <1>4, <1>8, FrameCut DEF t2
<1>10. r.resource_id = q.resource_id /\ t4(r) = t4(q)
  BY <1>1, <1>3, <1>9, FrameCut DEF t3
<1>11. r.body_digest = q.body_digest
  BY <1>1, <1>10, CatFacts, FrameCut DEF t4
<1> QED BY <1>8, <1>9, <1>10, <1>11, Packed DEF SignedRequests

\* enroll_pop_payload: a proof of possession speaks for one enrolment.
THEOREM EnrolmentInjective ==
    \A r, q \in Enrolments : EnrollPopPayload(r) = EnrollPopPayload(q) => r = q
<1> SUFFICES ASSUME NEW r \in Enrolments, NEW q \in Enrolments, EnrollPopPayload(r) = EnrollPopPayload(q)
             PROVE  r = q
  OBVIOUS
<1> DEFINE t5(x) == Cat(Frame(x.nonce), <<>>)
           t4(x) == Cat(Frame(Le64(x.issued_at_ms)), t5(x))
           t3(x) == Cat(Frame(x.namespace), t4(x))
           t2(x) == Cat(Frame(x.tenant), t3(x))
           t1(x) == Cat(Frame(x.subject_aid), t2(x))
<1>1. \A x \in Enrolments :
          /\ x.subject_aid \in Text
          /\ x.tenant \in Text
          /\ x.namespace \in Text
          /\ Le64(x.issued_at_ms) \in Text
          /\ x.nonce \in Text
  BY Packed DEF Enrolments
<1>2. \A x \in Enrolments : EnrollPopPayload(x) = Cat(Opening("enroll"), t1(x))
  <2> TAKE x \in Enrolments
  <2>1. t5(x) = Frame(x.nonce)
    BY Zenon, <1>1, FrameType, CatFacts
  <2> QED BY <2>1 DEF EnrollPopPayload, Cat
<1> HIDE DEF t1, t2, t3, t4, t5
<1>3. \A x \in Enrolments : t5(x) \in Str
  BY <1>1, FieldType DEF t5
<1>4. \A x \in Enrolments : t4(x) \in Str
  BY <1>1, <1>3, FieldType DEF t4
<1>5. \A x \in Enrolments : t3(x) \in Str
  BY <1>1, <1>4, FieldType DEF t3
<1>6. \A x \in Enrolments : t2(x) \in Str
  BY <1>1, <1>5, FieldType DEF t2
<1>7. \A x \in Enrolments : t1(x) \in Str
  BY <1>1, <1>6, FieldType DEF t1
<1>8. t1(r) = t1(q)
  <2>1. "enroll" \in TagNames
    BY Zenon DEF TagNames
  <2> QED BY ZenonT(40), <1>2, <1>7, <2>1, OpeningCut
<1>9. r.subject_aid = q.subject_aid /\ t2(r) = t2(q)
  BY <1>1, <1>6, <1>8, FrameCut DEF t1
<1>10. r.tenant = q.tenant /\ t3(r) = t3(q)
  BY <1>1, <1>5, <1>9, FrameCut DEF t2
<1>11. r.namespace = q.namespace /\ t4(r) = t4(q)
  BY <1>1, <1>4, <1>10, FrameCut DEF t3
<1>12. Le64(r.issued_at_ms) = Le64(q.issued_at_ms) /\ t5(r) = t5(q)
  BY <1>1, <1>3, <1>11, FrameCut DEF t4
<1>13. r.nonce = q.nonce
  BY <1>1, <1>12, CatFacts, FrameCut DEF t5
<1> QED BY <1>9, <1>10, <1>11, <1>12, <1>13, Packed DEF Enrolments

\* _seam_commitment_digest: one commitment never verifies under the digest of
\* another, an absent prior commitment is not an empty one, and only an absent
\* committer and an empty one hash alike.
THEOREM CommitmentInjective ==
    \A r, q \in Commitments : CommitmentPayload(r) = CommitmentPayload(q) => [r EXCEPT !.committer = Committer(r)] = [q EXCEPT !.committer = Committer(q)]
<1> SUFFICES ASSUME NEW r \in Commitments, NEW q \in Commitments, CommitmentPayload(r) = CommitmentPayload(q)
             PROVE  [r EXCEPT !.committer = Committer(r)] = [q EXCEPT !.committer = Committer(q)]
  OBVIOUS
<1> DEFINE t8(x) == Cat(BeFrame(x.explanation_digest), <<>>)
           t7(x) == Cat(BeFrame(Committer(x)), t8(x))
           t6(x) == Cat(BeFrame(x.trust_basis), t7(x))
           t5(x) == Cat(BeFrame(x.auth_method), t6(x))
           t4(x) == Cat(BeOpt(x.supersedes), t5(x))
           t3(x) == Cat(BeFrame(x.authority), t4(x))
           t2(x) == Cat(BeFrame(x.action), t3(x))
           t1(x) == Cat(BeFrame(x.id), t2(x))
<1>1. \A x \in Commitments :
          /\ x.id \in Text
          /\ x.action \in Text
          /\ x.authority \in Text
          /\ x.supersedes \in OptText
          /\ x.auth_method \in Text
          /\ x.trust_basis \in Text
          /\ Committer(x) \in Text
          /\ x.explanation_digest \in Text
  BY ZenonT(40), Packed DEF Commitments, Committer, OptText
<1>2. \A x \in Commitments : CommitmentPayload(x) = Cat(Opening("commitment"), t1(x))
  <2> TAKE x \in Commitments
  <2>1. t8(x) = BeFrame(x.explanation_digest)
    BY Zenon, <1>1, FrameType, CatFacts
  <2> QED BY Zenon, <2>1 DEF CommitmentPayload, Cat
<1> HIDE DEF t1, t2, t3, t4, t5, t6, t7, t8
<1>3. \A x \in Commitments : t8(x) \in Str
  BY <1>1, FieldType DEF t8
<1>4. \A x \in Commitments : t7(x) \in Str
  BY <1>1, <1>3, FieldType DEF t7
<1>5. \A x \in Commitments : t6(x) \in Str
  BY <1>1, <1>4, FieldType DEF t6
<1>6. \A x \in Commitments : t5(x) \in Str
  BY <1>1, <1>5, FieldType DEF t5
<1>7. \A x \in Commitments : t4(x) \in Str
  BY <1>1, <1>6, FieldType DEF t4
<1>8. \A x \in Commitments : t3(x) \in Str
  BY <1>1, <1>7, FieldType DEF t3
<1>9. \A x \in Commitments : t2(x) \in Str
  BY <1>1, <1>8, FieldType DEF t2
<1>10. \A x \in Commitments : t1(x) \in Str
  BY <1>1, <1>9, FieldType DEF t1
<1>11. t1(r) = t1(q)
  <2>1. "commitment" \in TagNames
    BY Zenon DEF TagNames
  <2> QED BY ZenonT(40), <1>2, <1>10, <2>1, OpeningCut
<1>12. r.id = q.id /\ t2(r) = t2(q)
  BY <1>1, <1>9, <1>11, BeFrameCut DEF t1
<1>13. r.action = q.action /\ t3(r) = t3(q)
  BY <1>1, <1>8, <1>12, BeFrameCut DEF t2
<1>14. r.authority = q.authority /\ t4(r) = t4(q)
  BY <1>1, <1>7, <1>13, BeFrameCut DEF t3
<1>15. r.supersedes = q.supersedes /\ t5(r) = t5(q)
  BY <1>1, <1>6, <1>14, BeOptCut DEF t4
<1>16. r.auth_method = q.auth_method /\ t6(r) = t6(q)
  BY <1>1, <1>5, <1>15, BeFrameCut DEF t5
<1>17. r.trust_basis = q.trust_basis /\ t7(r) = t7(q)
  BY <1>1, <1>4, <1>16, BeFrameCut DEF t6
<1>18. Committer(r) = Committer(q) /\ t8(r) = t8(q)
  BY <1>1, <1>3, <1>17, BeFrameCut DEF t7
<1>19. r.explanation_digest = q.explanation_digest
  BY SMT, SMTT(30), <1>1, <1>18, CatFacts, BeFrameCut DEF t8
<1> QED BY <1>12, <1>13, <1>14, <1>15, <1>16, <1>17, <1>18, <1>19, Packed DEF Commitments

\* record_digest_v4: two records that differ in any slot, or in whether an
\* optional slot is present, have different preimages.
THEOREM RecordInjective ==
    \A r, q \in Records : RecordPayload(r) = RecordPayload(q) => r = q
<1> SUFFICES ASSUME NEW r \in Records, NEW q \in Records, RecordPayload(r) = RecordPayload(q)
             PROVE  r = q
  OBVIOUS
<1> DEFINE t17(x) == Cat(Frame(Le32(x.schema_version)), <<>>)
           t16(x) == Cat(Frame(x.auth_method), t17(x))
           t15(x) == Cat(Frame(x.trust_basis_commitment), t16(x))
           t14(x) == Cat(Frame(x.participants_digest), t15(x))
           t13(x) == Cat(Frame(x.classification), t14(x))
           t12(x) == Cat(Opt(x.policy_rules_digest), t13(x))
           t11(x) == Cat(Frame(x.participation_digest), t12(x))
           t10(x) == Cat(Frame(x.context_digest), t11(x))
           t9(x) == Cat(Opt(x.supersedes), t10(x))
           t8(x) == Cat(Opt(x.policy_version), t9(x))
           t7(x) == Cat(Opt(x.mode), t8(x))
           t6(x) == Cat(Frame(x.outcome), t7(x))
           t5(x) == Cat(Frame(Le64(x.sealed_at)), t6(x))
           t4(x) == Cat(Frame(x.ciphertext_digest), t5(x))
           t3(x) == Cat(Frame(x.namespace), t4(x))
           t2(x) == Cat(Frame(x.tenant), t3(x))
           t1(x) == Cat(Frame(x.decision_id), t2(x))
<1>1. \A x \in Records :
          /\ x.decision_id \in Text
          /\ x.tenant \in Text
          /\ x.namespace \in Text
          /\ x.ciphertext_digest \in Text
          /\ Le64(x.sealed_at) \in Text
          /\ x.outcome \in Text
          /\ x.mode \in OptText
          /\ x.policy_version \in OptText
          /\ x.supersedes \in OptText
          /\ x.context_digest \in Text
          /\ x.participation_digest \in Text
          /\ x.policy_rules_digest \in OptText
          /\ x.classification \in Text
          /\ x.participants_digest \in Text
          /\ x.trust_basis_commitment \in Text
          /\ x.auth_method \in Text
          /\ Le32(x.schema_version) \in Text
  BY Packed, SMTT(20) DEF Records
<1>2. \A x \in Records : RecordPayload(x) = Cat(Opening("record"), t1(x))
  <2> TAKE x \in Records
  <2>1. t17(x) = Frame(Le32(x.schema_version))
    BY <1>1, FrameType, CatFacts
  <2> QED BY Zenon, <2>1 DEF RecordPayload, Cat
<1> HIDE DEF t1, t2, t3, t4, t5, t6, t7, t8, t9, t10, t11, t12, t13, t14, t15, t16, t17
<1>3. \A x \in Records : t17(x) \in Str
  BY <1>1, FieldType DEF t17
<1>4. \A x \in Records : t16(x) \in Str
  BY <1>1, <1>3, FieldType DEF t16
<1>5. \A x \in Records : t15(x) \in Str
  BY <1>1, <1>4, FieldType DEF t15
<1>6. \A x \in Records : t14(x) \in Str
  BY <1>1, <1>5, FieldType DEF t14
<1>7. \A x \in Records : t13(x) \in Str
  BY <1>1, <1>6, FieldType DEF t13
<1>8. \A x \in Records : t12(x) \in Str
  BY <1>1, <1>7, FieldType DEF t12
<1>9. \A x \in Records : t11(x) \in Str
  BY <1>1, <1>8, FieldType DEF t11
<1>10. \A x \in Records : t10(x) \in Str
  BY <1>1, <1>9, FieldType DEF t10
<1>11. \A x \in Records : t9(x) \in Str
  BY <1>1, <1>10, FieldType DEF t9
<1>12. \A x \in Records : t8(x) \in Str
  BY <1>1, <1>11, FieldType DEF t8
<1>13. \A x \in Records : t7(x) \in Str
  BY <1>1, <1>12, FieldType DEF t7
<1>14. \A x \in Records : t6(x) \in Str
  BY <1>1, <1>13, FieldType DEF t6
<1>15. \A x \in Records : t5(x) \in Str
  BY <1>1, <1>14, FieldType DEF t5
<1>16. \A x \in Records : t4(x) \in Str
  BY <1>1, <1>15, FieldType DEF t4
<1>17. \A x \in Records : t3(x) \in Str
  BY <1>1, <1>16, FieldType DEF t3
<1>18. \A x \in Records : t2(x) \in Str
  BY <1>1, <1>17, FieldType DEF t2
<1>19. \A x \in Records : t1(x) \in Str
  BY <1>1, <1>18, FieldType DEF t1
<1>20. t1(r) = t1(q)
  <2>1. "record" \in TagNames
    BY Zenon DEF TagNames
  <2> QED BY ZenonT(40), <1>2, <1>19, <2>1, OpeningCut
<1>21. r.decision_id = q.decision_id /\ t2(r) = t2(q)
  BY SMT, SMTT(30), <1>1, <1>18, <1>20, FrameCut DEF t1
<1>22. r.tenant = q.tenant /\ t3(r) = t3(q)
  BY SMT, SMTT(30), <1>1, <1>17, <1>21, FrameCut DEF t2
<1>23. r.namespace = q.namespace /\ t4(r) = t4(q)
  BY SMT, SMTT(30), <1>1, <1>16, <1>22, FrameCut DEF t3
<1>24. r.ciphertext_digest = q.ciphertext_digest /\ t5(r) = t5(q)
  BY SMT, SMTT(30), <1>1, <1>15, <1>23, FrameCut DEF t4
<1>25. Le64(r.sealed_at) = Le64(q.sealed_at) /\ t6(r) = t6(q)
  BY SMT, SMTT(30), <1>1, <1>14, <1>24, FrameCut DEF t5
<1>26. r.outcome = q.outcome /\ t7(r) = t7(q)
  BY SMT, SMTT(30), <1>1, <1>13, <1>25, FrameCut DEF t6
<1>27. r.mode = q.mode /\ t8(r) = t8(q)
  BY SMT, SMTT(30), <1>1, <1>12, <1>26, OptCut DEF t7
<1>28. r.policy_version = q.policy_version /\ t9(r) = t9(q)
  BY SMT, SMTT(30), <1>1, <1>11, <1>27, OptCut DEF t8
<1>29. r.supersedes = q.supersedes /\ t10(r) = t10(q)
  BY SMT, SMTT(30), <1>1, <1>10, <1>28, OptCut DEF t9
<1>30. r.context_digest = q.context_digest /\ t11(r) = t11(q)
  BY SMT, SMTT(30), <1>1, <1>9, <1>29, FrameCut DEF t10
<1>31. r.participation_digest = q.participation_digest /\ t12(r) = t12(q)
  BY SMT, SMTT(30), <1>1, <1>8, <1>30, FrameCut DEF t11
<1>32. r.policy_rules_digest = q.policy_rules_digest /\ t13(r) = t13(q)
  BY SMT, SMTT(30), <1>1, <1>7, <1>31, OptCut DEF t12
<1>33. r.classification = q.classification /\ t14(r) = t14(q)
  BY SMT, SMTT(30), <1>1, <1>6, <1>32, FrameCut DEF t13
<1>34. r.participants_digest = q.participants_digest /\ t15(r) = t15(q)
  BY SMT, SMTT(30), <1>1, <1>5, <1>33, FrameCut DEF t14
<1>35. r.trust_basis_commitment = q.trust_basis_commitment /\ t16(r) = t16(q)
  BY SMT, SMTT(30), <1>1, <1>4, <1>34, FrameCut DEF t15
<1>36. r.auth_method = q.auth_method /\ t17(r) = t17(q)
  BY SMT, SMTT(30), <1>1, <1>3, <1>35, FrameCut DEF t16
<1>37. Le32(r.schema_version) = Le32(q.schema_version)
  BY SMT, SMTT(30), <1>1, <1>36, CatFacts, FrameCut DEF t17
<1>38. r.sealed_at = q.sealed_at /\ r.schema_version = q.schema_version
  <2>1. /\ r.sealed_at \in 0 .. MaxNum /\ q.sealed_at \in 0 .. MaxNum
        /\ r.schema_version \in 0 .. MaxLen /\ q.schema_version \in 0 .. MaxLen
    BY DEF Records
  <2> QED BY Zenon, <1>25, <1>37, <2>1, Packed
<1> QED BY SMT, SMTT(30), <1>21, <1>22, <1>23, <1>24, <1>26, <1>27, <1>28, <1>29, <1>30, <1>31, <1>32, <1>33, <1>34, <1>35, <1>36, <1>38 DEF Records

\* _chain_head_attestation_digest: an attestation is over the bytes of no other,
\* of no other tenant, and never of the other framing, so the tenant cannot be
\* relabelled under either.
THEOREM ChainHeadInjective ==
    \A r, q \in Attestations : ChainHeadPayload(r) = ChainHeadPayload(q) => r = q
<1> SUFFICES ASSUME NEW r \in Attestations, NEW q \in Attestations,
                    ChainHeadPayload(r) = ChainHeadPayload(q)
             PROVE  r = q
  OBVIOUS
<1> DEFINE t6(x) == TenantFrame(x)
           t5(x) == Cat(Frame(x.issuer_aid), t6(x))
           t4(x) == Cat(Frame(Le32(x.digest_schema)), t5(x))
           t3(x) == Cat(Frame(Le64(x.attested_at)), t4(x))
           t2(x) == Cat(Frame(x.attested_head), t3(x))
           t1(x) == Cat(Frame(Le64(x.attested_len)), t2(x))
<1>1. \A x \in Attestations :
          /\ Le64(x.attested_len) \in Text
          /\ x.attested_head \in Text
          /\ Le64(x.attested_at) \in Text
          /\ Le32(x.digest_schema) \in Text
          /\ x.issuer_aid \in Text
          /\ x.tenant \in OptText
  BY ZenonT(40), Packed DEF Attestations
<1>2. \A x \in Attestations : ChainHeadPayload(x) = Cat(Opening(HeadKind(x)), t1(x))
  BY DEF ChainHeadPayload, Cat
<1>3. \A x \in Attestations : t6(x) \in Str
  BY Zenon, <1>1, FrameType, CatFacts DEF TenantFrame, OptText
<1>4. /\ HeadKind(r) \in TagNames /\ HeadKind(q) \in TagNames
      /\ HeadKind(r) = HeadKind(q) => ((r.tenant = Absent) <=> (q.tenant = Absent))
  BY Zenon DEF HeadKind, TagNames
<1> HIDE DEF t1, t2, t3, t4, t5, t6
<1>5. \A x \in Attestations : t5(x) \in Str
  BY <1>1, <1>3, FieldType DEF t5
<1>6. \A x \in Attestations : t4(x) \in Str
  BY <1>1, <1>5, FieldType DEF t4
<1>7. \A x \in Attestations : t3(x) \in Str
  BY <1>1, <1>6, FieldType DEF t3
<1>8. \A x \in Attestations : t2(x) \in Str
  BY <1>1, <1>7, FieldType DEF t2
<1>9. \A x \in Attestations : t1(x) \in Str
  BY <1>1, <1>8, FieldType DEF t1
<1>10. HeadKind(r) = HeadKind(q) /\ t1(r) = t1(q)
  <2>1. Cat(Opening(HeadKind(r)), t1(r)) = Cat(Opening(HeadKind(q)), t1(q))
    BY Zenon, <1>2
  <2>2. t1(r) \in Str /\ t1(q) \in Str
    BY Zenon, <1>9
  <2> QED BY ZenonT(40), <1>4, <2>1, <2>2, OpeningCut
<1>11. Le64(r.attested_len) = Le64(q.attested_len) /\ t2(r) = t2(q)
  BY SMT, SMTT(30), <1>1, <1>8, <1>10, FrameCut DEF t1
<1>12. r.attested_head = q.attested_head /\ t3(r) = t3(q)
  BY SMT, SMTT(30), <1>1, <1>7, <1>11, FrameCut DEF t2
<1>13. Le64(r.attested_at) = Le64(q.attested_at) /\ t4(r) = t4(q)
  BY SMT, SMTT(30), <1>1, <1>6, <1>12, FrameCut DEF t3
<1>14. Le32(r.digest_schema) = Le32(q.digest_schema) /\ t5(r) = t5(q)
  BY SMT, SMTT(30), <1>1, <1>5, <1>13, FrameCut DEF t4
<1>15. r.issuer_aid = q.issuer_aid /\ t6(r) = t6(q)
  BY <1>1, <1>3, <1>14, FrameCut DEF t5
<1>16. r.tenant = q.tenant
  <2>1. CASE r.tenant = Absent
    BY <1>4, <1>10, <2>1
  <2>2. CASE r.tenant # Absent
    <3>1. q.tenant # Absent /\ r.tenant \in Text /\ q.tenant \in Text
      BY <1>1, <1>4, <1>10, <2>2 DEF OptText
    <3>2. Frame(r.tenant) = Frame(q.tenant)
      BY <1>15, <2>2, <3>1 DEF t6, TenantFrame
    <3>3. Cat(Frame(r.tenant), <<>>) = Cat(Frame(q.tenant), <<>>)
      BY <3>2
    <3> QED BY SMT, SMTT(30), <3>1, <3>3, CatFacts, FrameCut
  <2> QED BY <2>1, <2>2
<1> QED BY <1>11, <1>12, <1>13, <1>14, <1>15, <1>16, Packed DEF Attestations

-------------------------------------------------------------------------------
(* The event stream and its relay. *)

Calls == [state : CallState, pos : 0 .. MaxRows]

\* A row carries its own event_id or, in a wrapper, one beyond all rows: no
\* event_id is carried twice.
OutboxInv == \A i \in 1 .. Len(outbox) : outbox[i] \in {i - 1, MaxRows + i - 1}

\* The sink is the outbox up to the durable cursor, or one row further when a
\* crash came between the delivery and the saved cursor.
DeliveryInv ==
    /\ watermark <= cursor /\ cursor <= Len(sink) /\ Len(sink) <= cursor + 1
    /\ Len(sink) <= Len(outbox)
    /\ \A i \in 1 .. Len(sink) : sink[i] = outbox[i]

\* Where a tail reads: at the cursor, or just past the row in hand.
PositionInv ==
    /\ held # -1 => pc = "idle" /\ call # NoCall /\ held < Len(outbox)
    /\ pc = "next" => call # NoCall
    /\ pc \in {"test", "start"} => call = NoCall
    /\ mode = "tail" =>
         /\ held # -1 => held = cursor
         /\ call # NoCall => call.pos = IF held = -1 THEN cursor ELSE cursor + 1
         /\ call = NoCall /\ pc \notin {"closed", "ended"} => fromSeq = cursor

\* What the two threads of the handle have seen of each other.
HandleInv ==
    /\ cancelPc = "flagged" => cancelled
    /\ cancelFirst => cancelled /\ call = NoCall /\ pc \in {"idle", "test", "ended"}
    /\ pc = "ended" => \/ cancelled /\ (call = NoCall \/ call.state = "cancelled")
                       \/ call # NoCall /\ call.state = "done"

StreamInv == StreamTypeOK /\ OutboxInv /\ DeliveryInv /\ PositionInv /\ HandleInv
-----------------------------------------------------------------------------
LEMMA InitStream == StreamInit => StreamInv
<1>. SUFFICES ASSUME StreamInit PROVE StreamInv
  OBVIOUS
<1>1. cancelled \in BOOLEAN /\ cancelFirst \in BOOLEAN
  BY Zenon DEF StreamInit
<1>2. StreamTypeOK
  BY <1>1, StreamAssumption DEF StreamInit, StreamTypeOK, Modes, Head0
<1>3. HandleInv
  BY Zenon DEF StreamInit, HandleInv
<1>. QED
  BY <1>2, <1>3 DEF StreamInit, StreamInv, OutboxInv, DeliveryInv, PositionInv

\* A record of a call is not Python's None.
LEMMA CallIsNoNone == \A c \in Calls : c # NoCall
BY StreamAssumption DEF Calls

\* No event_id is carried by two rows.
LEMMA SameRow ==
    ASSUME StreamTypeOK, OutboxInv, NEW i \in 1 .. Len(outbox), NEW j \in 1 .. Len(outbox),
           outbox[i] = outbox[j]
    PROVE  i = j
<1>1. Len(outbox) \in Nat /\ Len(outbox) <= MaxRows /\ MaxRows \in Nat
  BY StreamAssumption DEF StreamTypeOK, Head0
<1>2. outbox[i] = i - 1 \/ outbox[i] = MaxRows + i - 1
  BY DEF OutboxInv
<1>3. outbox[j] = j - 1 \/ outbox[j] = MaxRows + j - 1
  BY DEF OutboxInv
<1>4. i \in Int /\ j \in Int /\ i <= MaxRows /\ j <= MaxRows /\ 1 <= i /\ 1 <= j
  BY <1>1
<1>. QED
  BY <1>1, <1>2, <1>3, <1>4

\* A tail yields the row at its position: nothing it has yet to read is pruned.
LEMMA TailYieldsNext ==
    ASSUME StreamInv, pc = "next", mode = "tail", NEW n \in NextRows(call),
           \A j \in NextRows(call) : n <= j
    PROVE  n = call.pos
<1>1. held = -1 /\ call # NoCall /\ call.pos = cursor
  BY DEF StreamInv, PositionInv
<1>2. call.pos \in Nat /\ watermark <= call.pos
  BY <1>1 DEF StreamInv, StreamTypeOK, DeliveryInv
<1>3. n >= call.pos /\ n \in Int /\ n <= Head0 - 1 /\ Head0 \in Nat
  BY <1>2 DEF NextRows, StreamInv, StreamTypeOK, Head0
<1>4. call.pos \in NextRows(call)
  BY SMT, SMTT(30), <1>2, <1>3 DEF NextRows, Readable, StreamInv, StreamTypeOK
<1>. QED
  BY <1>2, <1>3, <1>4
-----------------------------------------------------------------------------
(* Every step keeps the invariant. *)

LEMMA AppendEventKeeps ==
    ASSUME StreamInv, AppendEvent
    PROVE  StreamInv'
<1>1. cancelled' \in BOOLEAN /\ cancelFirst' \in BOOLEAN
  BY Zenon DEF AppendEvent, StreamInv, StreamTypeOK, handle, relay
<1>2. StreamTypeOK'
  BY <1>1, StreamAssumption DEF AppendEvent, StreamInv, StreamTypeOK, Head0, handle, relay
<1>3. OutboxInv'
  BY DEF AppendEvent, StreamInv, StreamTypeOK, OutboxInv, Head0, handle, relay
<1>4. DeliveryInv'
  BY SMT, SMTT(30) DEF AppendEvent, StreamInv, StreamTypeOK, DeliveryInv, Head0, handle, relay
<1>5. PositionInv'
  BY CallIsNoNone, StreamAssumption DEF AppendEvent, StreamInv, StreamTypeOK, PositionInv,
     Head0, handle, relay
<1>6. HandleInv'
  BY CallIsNoNone DEF AppendEvent, StreamInv, StreamTypeOK, HandleInv, PositionInv, handle,
     relay
<1>. QED
  BY <1>2, <1>3, <1>4, <1>5, <1>6 DEF StreamInv

LEMMA StreamEventsKeeps ==
    ASSUME StreamInv, NEW m \in Modes, StreamEvents(m)
    PROVE  StreamInv'
<1>1. cancelled' \in BOOLEAN /\ cancelFirst' \in BOOLEAN
  BY Zenon DEF StreamEvents, StreamInv, StreamTypeOK, rows, relay
<1>2. StreamTypeOK'
  BY <1>1, StreamAssumption DEF StreamEvents, StreamInv, StreamTypeOK, Head0, Modes, rows, relay
<1>3. OutboxInv'
  BY DEF StreamEvents, StreamInv, StreamTypeOK, OutboxInv, Head0, rows, relay
<1>4. DeliveryInv'
  BY DEF StreamEvents, StreamInv, StreamTypeOK, DeliveryInv, Head0, rows, relay
<1>5. PositionInv'
  BY CallIsNoNone, StreamAssumption DEF StreamEvents, StreamInv, StreamTypeOK, PositionInv,
     Head0, rows, relay
<1>6. HandleInv'
  BY CallIsNoNone DEF StreamEvents, StreamInv, StreamTypeOK, HandleInv, PositionInv, rows, relay
<1>. QED
  BY <1>2, <1>3, <1>4, <1>5, <1>6 DEF StreamInv

LEMMA NextTestCallKeeps ==
    ASSUME StreamInv, NextTestCall
    PROVE  StreamInv'
<1>1. cancelled' \in BOOLEAN /\ cancelFirst' \in BOOLEAN
  BY Zenon DEF NextTestCall, StreamInv, StreamTypeOK, rows, relay
<1>2. StreamTypeOK'
  BY <1>1, StreamAssumption DEF NextTestCall, StreamInv, StreamTypeOK, Head0, rows, relay
<1>3. OutboxInv'
  BY DEF NextTestCall, StreamInv, StreamTypeOK, OutboxInv, Head0, rows, relay
<1>4. DeliveryInv'
  BY DEF NextTestCall, StreamInv, StreamTypeOK, DeliveryInv, Head0, rows, relay
<1>5. PositionInv'
  BY CallIsNoNone, StreamAssumption DEF NextTestCall, StreamInv, StreamTypeOK, PositionInv,
     Head0, rows, relay
<1>6. HandleInv'
  BY CallIsNoNone DEF NextTestCall, StreamInv, StreamTypeOK, HandleInv, PositionInv, rows, relay
<1>. QED
  BY <1>2, <1>3, <1>4, <1>5, <1>6 DEF StreamInv

LEMMA NextTestCancelledKeeps ==
    ASSUME StreamInv, NextTestCancelled
    PROVE  StreamInv'
<1>1. cancelled' \in BOOLEAN /\ cancelFirst' \in BOOLEAN
  BY Zenon DEF NextTestCancelled, StreamInv, StreamTypeOK, rows, relay
<1>2. StreamTypeOK'
  BY <1>1, StreamAssumption DEF NextTestCancelled, StreamInv, StreamTypeOK, Head0, rows, relay
<1>3. OutboxInv'
  BY DEF NextTestCancelled, StreamInv, StreamTypeOK, OutboxInv, Head0, rows, relay
<1>4. DeliveryInv'
  BY DEF NextTestCancelled, StreamInv, StreamTypeOK, DeliveryInv, Head0, rows, relay
<1>5. PositionInv'
  BY CallIsNoNone, StreamAssumption DEF NextTestCancelled, StreamInv, StreamTypeOK,
     PositionInv, Head0, rows, relay
<1>6. HandleInv'
  BY CallIsNoNone DEF NextTestCancelled, StreamInv, StreamTypeOK, HandleInv, PositionInv,
     rows, relay
<1>. QED
  BY <1>2, <1>3, <1>4, <1>5, <1>6 DEF StreamInv

LEMMA NextStartKeeps ==
    ASSUME StreamInv, NextStart
    PROVE  StreamInv'
<1>1. cancelled' \in BOOLEAN /\ cancelFirst' \in BOOLEAN
  BY Zenon DEF NextStart, StreamInv, StreamTypeOK, rows, relay
<1>2. StreamTypeOK'
  BY SMT, SMTT(30), <1>1, StreamAssumption DEF NextStart, StreamInv, StreamTypeOK, Head0, CallState, rows,
     relay
<1>3. OutboxInv'
  BY DEF NextStart, StreamInv, StreamTypeOK, OutboxInv, Head0, rows, relay
<1>4. DeliveryInv'
  BY DEF NextStart, StreamInv, StreamTypeOK, DeliveryInv, Head0, rows, relay
<1>5. PositionInv'
  BY SMT, SMTT(30), CallIsNoNone, StreamAssumption DEF NextStart, StreamInv, StreamTypeOK, PositionInv,
     Head0, Calls, CallState, rows, relay
<1>6. HandleInv'
  BY CallIsNoNone DEF NextStart, StreamInv, StreamTypeOK, HandleInv, PositionInv, Calls,
     CallState, rows, relay
<1>. QED
  BY <1>2, <1>3, <1>4, <1>5, <1>6 DEF StreamInv

LEMMA NextYieldKeeps ==
    ASSUME StreamInv, NextYield
    PROVE  StreamInv'
<1>d. PICK n \in NextRows(call) :
        /\ \A j \in NextRows(call) : n <= j
        /\ held' = n
        /\ call' = [call EXCEPT !.pos = n + 1]
        /\ published' = IF mode = "ackdrain" THEN published \cup {n} ELSE published
  BY Zenon DEF NextYield
<1>a. call \in Calls /\ held = -1 /\ call # NoCall /\ Head0 \in Nat /\ Head0 <= MaxRows
  BY DEF NextYield, StreamInv, StreamTypeOK, PositionInv, Calls, Head0
<1>b. n \in call.pos .. Head0 - 1 /\ call.pos \in Nat
  BY <1>a DEF NextRows, Calls
<1>e. n \in 0 .. MaxRows - 1 /\ n < Len(outbox)
  BY <1>a, <1>b, <1>d, StreamAssumption DEF Head0
<1>f. mode = "tail" => n = cursor
  BY <1>d, TailYieldsNext, <1>a DEF NextYield, StreamInv, PositionInv
<1>h. call' \in Calls /\ call'.pos = n + 1
  BY <1>a, <1>d, <1>e, StreamAssumption DEF Calls
<1>1. cancelled' \in BOOLEAN /\ cancelFirst' \in BOOLEAN
  BY Zenon DEF NextYield, StreamInv, StreamTypeOK
<1>2. StreamTypeOK'
  <2>1. published' \subseteq 0 .. MaxRows - 1
    BY <1>d, <1>e DEF StreamInv, StreamTypeOK
  <2>. QED
    BY SMT, SMTT(30), <1>1, <1>d, <1>e, <1>h, <2>1 DEF NextYield, StreamInv, StreamTypeOK, Head0, Calls
<1>3. OutboxInv'
  BY DEF NextYield, StreamInv, StreamTypeOK, OutboxInv, Head0
<1>4. DeliveryInv'
  BY DEF NextYield, StreamInv, StreamTypeOK, DeliveryInv, Head0
<1>5. PositionInv'
  <2>1. call' # NoCall /\ pc' = "idle" /\ UNCHANGED <<outbox, mode, cursor>>
    BY <1>h, CallIsNoNone DEF NextYield
  <2>2. held' # -1 /\ held' < Len(outbox) /\ call'.pos = held' + 1
    BY <1>d, <1>e, <1>h
  <2>3. mode = "tail" => held' = cursor
    BY <1>d, <1>f
  <2>. QED
    BY <2>1, <2>2, <2>3 DEF PositionInv
<1>6. HandleInv'
  BY CallIsNoNone DEF NextYield, StreamInv, StreamTypeOK, HandleInv, PositionInv, Calls,
     CallState
<1>. QED
  BY <1>2, <1>3, <1>4, <1>5, <1>6 DEF StreamInv

LEMMA NextOverKeeps ==
    ASSUME StreamInv, NextOver
    PROVE  StreamInv'
<1>1. cancelled' \in BOOLEAN /\ cancelFirst' \in BOOLEAN
  BY Zenon DEF NextOver, StreamInv, StreamTypeOK, rows, relay
<1>2. StreamTypeOK'
  BY <1>1, StreamAssumption DEF NextOver, StreamInv, StreamTypeOK, Head0, rows, relay
<1>3. OutboxInv'
  BY DEF NextOver, StreamInv, StreamTypeOK, OutboxInv, Head0, rows, relay
<1>4. DeliveryInv'
  BY DEF NextOver, StreamInv, StreamTypeOK, DeliveryInv, Head0, rows, relay
<1>5. PositionInv'
  BY CallIsNoNone, StreamAssumption DEF NextOver, StreamInv, StreamTypeOK, PositionInv, Head0,
     Calls, rows, relay
<1>6. HandleInv'
  BY CallIsNoNone DEF NextOver, StreamInv, StreamTypeOK, HandleInv, PositionInv, Calls, rows,
     relay
<1>. QED
  BY <1>2, <1>3, <1>4, <1>5, <1>6 DEF StreamInv

LEMMA CancelFlagKeeps ==
    ASSUME StreamInv, CancelFlag
    PROVE  StreamInv'
<1>1. cancelled' \in BOOLEAN /\ cancelFirst' \in BOOLEAN
  BY Zenon DEF CancelFlag, StreamInv, StreamTypeOK, rows, relay
<1>2. StreamTypeOK'
  BY <1>1, StreamAssumption DEF CancelFlag, StreamInv, StreamTypeOK, Head0, rows, relay
<1>3. OutboxInv'
  BY DEF CancelFlag, StreamInv, StreamTypeOK, OutboxInv, Head0, rows, relay
<1>4. DeliveryInv'
  BY DEF CancelFlag, StreamInv, StreamTypeOK, DeliveryInv, Head0, rows, relay
<1>5. PositionInv'
  BY CallIsNoNone, StreamAssumption DEF CancelFlag, StreamInv, StreamTypeOK, PositionInv,
     Head0, rows, relay
<1>6. HandleInv'
  BY CallIsNoNone DEF CancelFlag, StreamInv, StreamTypeOK, HandleInv, PositionInv, rows, relay
<1>. QED
  BY <1>2, <1>3, <1>4, <1>5, <1>6 DEF StreamInv

LEMMA CancelCallKeeps ==
    ASSUME StreamInv, CancelCall
    PROVE  StreamInv'
<1>1. cancelled' \in BOOLEAN /\ cancelFirst' \in BOOLEAN
  BY Zenon DEF CancelCall, StreamInv, StreamTypeOK, rows, relay
<1>2. StreamTypeOK'
  BY Zenon, <1>1, StreamAssumption DEF CancelCall, StreamInv, StreamTypeOK, Head0, CallState, rows,
     relay
<1>3. OutboxInv'
  BY DEF CancelCall, StreamInv, StreamTypeOK, OutboxInv, Head0, rows, relay
<1>4. DeliveryInv'
  BY DEF CancelCall, StreamInv, StreamTypeOK, DeliveryInv, Head0, rows, relay
<1>5. PositionInv'
  BY Zenon, CallIsNoNone, StreamAssumption DEF CancelCall, StreamInv, StreamTypeOK, PositionInv,
     Head0, Calls, CallState, rows, relay
<1>6. HandleInv'
  BY CallIsNoNone DEF CancelCall, StreamInv, StreamTypeOK, HandleInv, PositionInv, Calls,
     CallState, rows, relay
<1>. QED
  BY <1>2, <1>3, <1>4, <1>5, <1>6 DEF StreamInv

LEMMA ServerEndsKeeps ==
    ASSUME StreamInv, ServerEnds
    PROVE  StreamInv'
<1>1. cancelled' \in BOOLEAN /\ cancelFirst' \in BOOLEAN
  BY Zenon DEF ServerEnds, StreamInv, StreamTypeOK, rows, relay
<1>2. StreamTypeOK'
  BY Zenon, <1>1, StreamAssumption DEF ServerEnds, StreamInv, StreamTypeOK, Head0, CallState, rows,
     relay
<1>3. OutboxInv'
  BY DEF ServerEnds, StreamInv, StreamTypeOK, OutboxInv, Head0, rows, relay
<1>4. DeliveryInv'
  BY DEF ServerEnds, StreamInv, StreamTypeOK, DeliveryInv, Head0, rows, relay
<1>5. PositionInv'
  BY Zenon, CallIsNoNone, StreamAssumption DEF ServerEnds, StreamInv, StreamTypeOK, PositionInv,
     Head0, Calls, CallState, rows, relay
<1>6. HandleInv'
  BY CallIsNoNone DEF ServerEnds, StreamInv, StreamTypeOK, HandleInv, PositionInv, Calls,
     CallState, rows, relay
<1>. QED
  BY <1>2, <1>3, <1>4, <1>5, <1>6 DEF StreamInv

LEMMA CallBreaksKeeps ==
    ASSUME StreamInv, NEW how \in {"broken", "cancelled"}, CallBreaks(how)
    PROVE  StreamInv'
<1>1. cancelled' \in BOOLEAN /\ cancelFirst' \in BOOLEAN
  BY Zenon DEF CallBreaks, StreamInv, StreamTypeOK, rows, relay
<1>2. StreamTypeOK'
  BY Zenon, <1>1, StreamAssumption DEF CallBreaks, StreamInv, StreamTypeOK, Head0, CallState, rows,
     relay
<1>3. OutboxInv'
  BY DEF CallBreaks, StreamInv, StreamTypeOK, OutboxInv, Head0, rows, relay
<1>4. DeliveryInv'
  BY DEF CallBreaks, StreamInv, StreamTypeOK, DeliveryInv, Head0, rows, relay
<1>5. PositionInv'
  BY Zenon, CallIsNoNone, StreamAssumption DEF CallBreaks, StreamInv, StreamTypeOK, PositionInv,
     Head0, Calls, CallState, rows, relay
<1>6. HandleInv'
  BY CallIsNoNone DEF CallBreaks, StreamInv, StreamTypeOK, HandleInv, PositionInv, Calls,
     CallState, rows, relay
<1>. QED
  BY <1>2, <1>3, <1>4, <1>5, <1>6 DEF StreamInv

LEMMA DeliverKeeps ==
    ASSUME StreamInv, Deliver
    PROVE  StreamInv'
<1>a. /\ held = cursor /\ held < Len(outbox) /\ cursor \in Nat
      /\ outbox \in Seq(Nat) /\ sink \in Seq(Nat) /\ outbox[held + 1] \in Nat
  BY SMT, SMTT(30) DEF Deliver, StreamInv, PositionInv, StreamTypeOK
<1>1. cancelled' \in BOOLEAN /\ cancelFirst' \in BOOLEAN
  BY Zenon DEF Deliver, StreamInv, StreamTypeOK, rows, handle
<1>2. StreamTypeOK'
  <2>1. sink' \in Seq(Nat)
    BY SMT, SMTT(30), <1>a DEF Deliver
  <2>. QED
    BY <1>1, <2>1 DEF Deliver, StreamInv, StreamTypeOK, Head0, rows, handle
<1>3. OutboxInv'
  BY DEF Deliver, StreamInv, StreamTypeOK, OutboxInv, Head0, rows, handle
<1>4. DeliveryInv'
  <2>1. CASE outbox[held + 1] \in Range(sink)
    BY <2>1 DEF Deliver, StreamInv, DeliveryInv, rows
  <2>2. CASE outbox[held + 1] \notin Range(sink)
    <3>1. Len(sink) = cursor
      <4>1. Len(sink) # cursor + 1
        BY SMT, SMTT(30), <1>a, <2>2 DEF Range, StreamInv, DeliveryInv
      <4>. QED
        BY <1>a, <4>1 DEF StreamInv, DeliveryInv
    <3>2. sink' = Append(sink, outbox[cursor + 1])
      BY <1>a, <2>2 DEF Deliver
    <3>3. Len(sink') = cursor + 1 /\ \A i \in 1 .. Len(sink') : sink'[i] = outbox[i]
      BY <1>a, <3>1, <3>2 DEF StreamInv, DeliveryInv
    <3>. QED
      BY SMT, SMTT(30), <1>a, <3>3 DEF Deliver, StreamInv, DeliveryInv, rows
  <2>. QED
    BY <2>1, <2>2
<1>5. PositionInv'
  BY Zenon, CallIsNoNone, StreamAssumption DEF Deliver, StreamInv, StreamTypeOK, PositionInv, Head0,
     rows, handle
<1>6. HandleInv'
  BY CallIsNoNone DEF Deliver, StreamInv, StreamTypeOK, HandleInv, PositionInv, rows, handle
<1>. QED
  BY <1>2, <1>3, <1>4, <1>5, <1>6 DEF StreamInv

LEMMA SaveCursorKeeps ==
    ASSUME StreamInv, SaveCursor
    PROVE  StreamInv'
<1>a. held = cursor /\ held < Len(outbox) /\ cursor \in Nat
  BY DEF SaveCursor, StreamInv, PositionInv, StreamTypeOK
<1>b. PICK i \in 1 .. Len(sink) : sink[i] = outbox[cursor + 1]
  BY <1>a DEF SaveCursor, Range
<1>c. outbox[i] = outbox[cursor + 1] /\ i \in 1 .. Len(outbox) /\ cursor + 1 \in 1 .. Len(outbox)
  <2>1. Len(outbox) \in Nat /\ Len(sink) \in Nat
    BY SMT, SMTT(30) DEF StreamInv, StreamTypeOK
  <2>2. Len(sink) <= Len(outbox) /\ sink[i] = outbox[i]
    BY DEF StreamInv, DeliveryInv
  <2>. QED
    BY <1>a, <1>b, <2>1, <2>2
<1>d. i = cursor + 1
  BY <1>a, <1>c, SameRow DEF StreamInv
<1>1. cancelled' \in BOOLEAN /\ cancelFirst' \in BOOLEAN
  BY Zenon DEF SaveCursor, StreamInv, StreamTypeOK, rows, handle
<1>2. StreamTypeOK'
  BY SMT, SMTT(30), <1>1, StreamAssumption DEF SaveCursor, StreamInv, StreamTypeOK, Head0, rows, handle
<1>3. OutboxInv'
  BY DEF SaveCursor, StreamInv, StreamTypeOK, OutboxInv, Head0, rows, handle
<1>4. DeliveryInv'
  BY SMT, SMTT(30), <1>a, <1>d DEF SaveCursor, StreamInv, StreamTypeOK, DeliveryInv, rows
<1>5. PositionInv'
  BY CallIsNoNone, StreamAssumption DEF SaveCursor, StreamInv, StreamTypeOK, PositionInv,
     Head0, rows, handle
<1>6. HandleInv'
  BY CallIsNoNone DEF SaveCursor, StreamInv, StreamTypeOK, HandleInv, PositionInv, rows, handle
<1>. QED
  BY <1>2, <1>3, <1>4, <1>5, <1>6 DEF StreamInv

LEMMA InspectKeeps ==
    ASSUME StreamInv, Inspect
    PROVE  StreamInv'
<1>1. cancelled' \in BOOLEAN /\ cancelFirst' \in BOOLEAN
  BY Zenon DEF Inspect, StreamInv, StreamTypeOK, rows, handle
<1>2. StreamTypeOK'
  BY SMT, SMTT(30), <1>1, StreamAssumption DEF Inspect, StreamInv, StreamTypeOK, Head0, rows, handle
<1>3. OutboxInv'
  BY DEF Inspect, StreamInv, StreamTypeOK, OutboxInv, Head0, rows, handle
<1>4. DeliveryInv'
  BY DEF Inspect, StreamInv, StreamTypeOK, DeliveryInv, Head0, rows, handle
<1>5. PositionInv'
  BY CallIsNoNone, StreamAssumption DEF Inspect, StreamInv, StreamTypeOK, PositionInv, Head0,
     rows, handle
<1>6. HandleInv'
  BY CallIsNoNone DEF Inspect, StreamInv, StreamTypeOK, HandleInv, PositionInv, rows, handle
<1>. QED
  BY <1>2, <1>3, <1>4, <1>5, <1>6 DEF StreamInv

LEMMA CrashKeeps ==
    ASSUME StreamInv, Crash
    PROVE  StreamInv'
<1>1. cancelled' \in BOOLEAN /\ cancelFirst' \in BOOLEAN
  BY Zenon DEF Crash, StreamInv, StreamTypeOK, rows
<1>2. StreamTypeOK'
  BY SMT, SMTT(30), <1>1, StreamAssumption DEF Crash, StreamInv, StreamTypeOK, Head0, rows
<1>3. OutboxInv'
  BY DEF Crash, StreamInv, StreamTypeOK, OutboxInv, Head0, rows
<1>4. DeliveryInv'
  BY DEF Crash, StreamInv, StreamTypeOK, DeliveryInv, Head0, rows
<1>5. PositionInv'
  BY CallIsNoNone, StreamAssumption DEF Crash, StreamInv, StreamTypeOK, PositionInv, Head0, rows
<1>6. HandleInv'
  BY CallIsNoNone DEF Crash, StreamInv, StreamTypeOK, HandleInv, PositionInv, rows
<1>. QED
  BY <1>2, <1>3, <1>4, <1>5, <1>6 DEF StreamInv

LEMMA ReportEventsConsumedKeeps ==
    ASSUME StreamInv, ReportEventsConsumed
    PROVE  StreamInv'
<1>1. cancelled' \in BOOLEAN /\ cancelFirst' \in BOOLEAN
  BY Zenon DEF ReportEventsConsumed, StreamInv, StreamTypeOK, handle, relay
<1>2. StreamTypeOK'
  <2>1. watermark' \in 0 .. Head0
    BY SMT, SMTT(30) DEF ReportEventsConsumed, ConsumedCursor, StreamInv, StreamTypeOK, Head0
  <2>. QED
    BY <1>1, <2>1 DEF ReportEventsConsumed, StreamInv, StreamTypeOK, Head0, handle, relay
<1>3. OutboxInv'
  BY DEF ReportEventsConsumed, StreamInv, StreamTypeOK, OutboxInv, Head0, handle, relay
<1>4. DeliveryInv'
  <2>1. watermark' <= cursor
    BY DEF ReportEventsConsumed, ConsumedCursor, StreamInv, StreamTypeOK, DeliveryInv, Head0
  <2>. QED
    BY <2>1 DEF ReportEventsConsumed, StreamInv, DeliveryInv, relay
<1>5. PositionInv'
  BY Zenon, CallIsNoNone, StreamAssumption DEF ReportEventsConsumed, StreamInv, StreamTypeOK,
     PositionInv, Head0, handle, relay
<1>6. HandleInv'
  BY CallIsNoNone DEF ReportEventsConsumed, StreamInv, StreamTypeOK, HandleInv, PositionInv,
     handle, relay
<1>. QED
  BY <1>2, <1>3, <1>4, <1>5, <1>6 DEF StreamInv

LEMMA RedriveKeeps ==
    ASSUME StreamInv, NEW from \in 0 .. MaxRows - 1, NEW to \in 0 .. MaxRows - 1, Redrive(from, to)
    PROVE  StreamInv'
<1>. DEFINE again == {n \in from .. to : Readable(n) /\ outbox[n + 1] = n}
            c == Cardinality(again)
            more == [i \in 1 .. c |-> MaxRows + Head0 + i - 1]
<1>a. c \in 1 .. MaxRows - Head0 /\ outbox' = outbox \o more
  BY DEF Redrive
<1>b. c \in Nat /\ Head0 + c <= MaxRows
  BY SMT, SMTT(30), <1>a, StreamAssumption DEF StreamInv, StreamTypeOK, Head0
<1>. HIDE DEF c
<1>c. outbox \in Seq(Nat) /\ more \in Seq(Nat) /\ Len(more) = c
  BY <1>a, StreamAssumption DEF StreamInv, StreamTypeOK, Head0
<1>d. /\ outbox' \in Seq(Nat) /\ Len(outbox') = Len(outbox) + c
      /\ \A i \in 1 .. Len(outbox) : outbox'[i] = outbox[i]
      /\ \A i \in Len(outbox) + 1 .. Len(outbox) + c : outbox'[i] = MaxRows + i - 1
  BY SMT, SMTT(30), <1>a, <1>b, <1>c, StreamAssumption DEF Head0
<1>. HIDE DEF again, more
<1>e. /\ Len(outbox) \in Nat /\ Len(outbox) + c <= MaxRows
      /\ UNCHANGED <<published, watermark, mode, fromSeq, call, cancelled, pc, cancelPc, cancelFirst,
                     held, cursor, sink, opens>>
  BY <1>b, <1>c DEF Redrive, Head0, handle, relay
<1>1. cancelled' \in BOOLEAN /\ cancelFirst' \in BOOLEAN
  BY <1>e, Zenon DEF StreamInv, StreamTypeOK
<1>2. StreamTypeOK'
  <2>1. Head0' <= MaxRows /\ watermark' \in 0 .. Head0'
    <3>1. watermark \in 0 .. Len(outbox)
      BY DEF StreamInv, StreamTypeOK, Head0
    <3>. QED
      BY SMT, SMTT(30), <1>a, <1>d, <1>e, <3>1 DEF Head0
  <2>. QED
    BY <1>1, <1>d, <1>e, <2>1 DEF StreamInv, StreamTypeOK
<1>3. OutboxInv'
  <2>1. SUFFICES ASSUME NEW i \in 1 .. Len(outbox) + c
                 PROVE  outbox'[i] \in {i - 1, MaxRows + i - 1}
    BY <1>d DEF OutboxInv
  <2>2. CASE i \in 1 .. Len(outbox)
    BY Zenon, <1>d, <2>2 DEF StreamInv, OutboxInv
  <2>3. CASE i \in Len(outbox) + 1 .. Len(outbox) + c
    BY <1>d, <2>3
  <2>. QED
    BY SMT, SMTT(30), <1>b, <1>e, <2>2, <2>3
<1>4. DeliveryInv'
  <2>1. Len(sink) \in Nat /\ Len(sink) <= Len(outbox) /\ cursor \in Nat
    BY SMT, SMTT(30) DEF StreamInv, StreamTypeOK, DeliveryInv
  <2>2. Len(sink') <= Len(outbox') /\ \A i \in 1 .. Len(sink') : sink'[i] = outbox'[i]
    BY SMT, SMTT(30), <1>a, <1>d, <1>e, <2>1 DEF StreamInv, DeliveryInv
  <2>. QED
    BY Zenon, <1>e, <2>2 DEF StreamInv, DeliveryInv
<1>5. PositionInv'
  <2>1. held \in Int /\ Len(outbox) <= Len(outbox')
    BY SMT, SMTT(30), <1>a, <1>d, <1>e DEF StreamInv, StreamTypeOK
  <2>2. held' # -1 => held' < Len(outbox')
    BY SMT, SMTT(30), <1>a, <1>d, <1>e, <2>1 DEF StreamInv, PositionInv
  <2>. QED
    BY <1>e, <2>2 DEF StreamInv, PositionInv
<1>6. HandleInv'
  BY CallIsNoNone DEF Redrive, StreamInv, StreamTypeOK, HandleInv, PositionInv, Calls,
     CallState, handle, relay
<1>. QED
  BY <1>2, <1>3, <1>4, <1>5, <1>6 DEF StreamInv

LEMMA StreamNextKeeps == StreamInv /\ [StreamNext]_streamVars => StreamInv'
<1>. SUFFICES ASSUME StreamInv, [StreamNext]_streamVars PROVE StreamInv'
  OBVIOUS
<1>1. CASE UNCHANGED streamVars
  BY <1>1, ZenonT(40) DEF streamVars, StreamInv, StreamTypeOK, OutboxInv, DeliveryInv, PositionInv,
     HandleInv,
     Head0
<1>2. CASE StreamNext
  BY <1>2, AppendEventKeeps, StreamEventsKeeps, NextTestCallKeeps, NextTestCancelledKeeps,
     NextStartKeeps, NextYieldKeeps, NextOverKeeps, CancelFlagKeeps, CancelCallKeeps,
     ServerEndsKeeps, CallBreaksKeeps, DeliverKeeps, SaveCursorKeeps, InspectKeeps, CrashKeeps,
     ReportEventsConsumedKeeps, RedriveKeeps DEF StreamNext
<1>. QED
  BY <1>1, <1>2

LEMMA StreamInvariance == StreamSpec => []StreamInv
BY InitStream, StreamNextKeeps, PTL DEF StreamSpec
-----------------------------------------------------------------------------
(* The theorems. *)

\* The handle, the outbox and the relay keep their types.
THEOREM StreamTypes == StreamSpec => []StreamTypeOK
<1>1. StreamInv => StreamTypeOK
  BY DEF StreamInv
<1>. QED
  BY <1>1, StreamInvariance, PTL

\* A relay that resumes stream_events from its saved cursor and drops the
\* event_ids it knows delivers every row once and in order, however often it
\* crashes, the stream breaks, rows are pruned or redriven.
THEOREM DeliveredInOrder == StreamSpec => []RelayInOrder
<1>1. StreamInv => RelayInOrder
  <2>. SUFFICES ASSUME StreamInv PROVE RelayInOrder
    OBVIOUS
  <2>1. outbox \in Seq(Nat) /\ sink \in Seq(Nat) /\ Len(sink) <= Len(outbox)
    BY DEF StreamInv, StreamTypeOK, DeliveryInv
  <2>2. \A i \in 1 .. Len(sink) : sink[i] = outbox[i]
    BY DEF StreamInv, DeliveryInv
  <2>3. SubSeq(sink, 1, Len(sink)) = SubSeq(outbox, 1, Len(sink))
    BY SMT, SMTT(30), <2>1, <2>2
  <2>. QED
    BY <2>1, <2>3 DEF RelayInOrder
<1>. QED
  BY <1>1, StreamInvariance, PTL

\* No row is pruned before it was delivered, as long as what is passed to
\* report_events_consumed is the durable cursor.
THEOREM PruningLosesNothing == StreamSpec => []PrunedWereDelivered
<1>1. StreamInv => PrunedWereDelivered
  BY DEF StreamInv, StreamTypeOK, DeliveryInv, PrunedWereDelivered
<1>. QED
  BY <1>1, StreamInvariance, PTL

\* A handle cancelled before its first __next__ never starts its call.
THEOREM EarlyCancelSendsNothing == StreamSpec => []CancelFirstSendsNothing
<1>1. StreamInv => CancelFirstSendsNothing
  BY Zenon DEF StreamInv, HandleInv, CancelFirstSendsNothing
<1>. QED
  BY <1>1, StreamInvariance, PTL

\* __next__ ends without an error only for the server's end of the stream or
\* for the caller's own cancel, never for a call that failed.
THEOREM CleanEndsAreEarned == StreamSpec => []CleanEndIsEarned
<1>1. StreamInv => CleanEndIsEarned
  <2>1. "cancelled" # "broken"
    OBVIOUS
  <2>. QED
    BY <2>1, Zenon DEF StreamInv, HandleInv, CleanEndIsEarned
<1>. QED
  BY <1>1, StreamInvariance, PTL
==============================================================================
