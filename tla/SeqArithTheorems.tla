------------------------- MODULE SeqArithTheorems --------------------------
(***************************************************************************)
(* Facts about sequence numbers that hold for every even modulus: the      *)
(* signed distance of two wrapped numbers is the distance of the counters  *)
(* they were taken from, as long as the counters are at most Half apart.   *)
(* Then facts about the elements of sequences.                             *)
(***************************************************************************)
EXTENDS SeqArith, Sequences, Functions, TLAPS

\* Division with remainder by SeqMod.
LEMMA ModDef == \A x \in Int : /\ x = SeqMod * (x \div SeqMod) + (x % SeqMod)
                               /\ x % SeqMod \in 0..(SeqMod - 1)
                               /\ x \div SeqMod \in Int
  BY SeqModAssumption

\* Half is exactly half of the sequence space, because SeqMod is even.
LEMMA HalfDef == SeqMod = 2 * Half /\ Half \in Nat /\ Half > 0
  BY SeqModAssumption DEF Half

\* A remainder is determined up to multiples of SeqMod.
LEMMA ModUnique ==
  ASSUME NEW x \in Int, NEW k \in Int, x >= 0, x < SeqMod
  PROVE  (x + SeqMod * k) % SeqMod = x
  BY SeqModAssumption

\* The only multiple of SeqMod within less than SeqMod of zero is zero.
LEMMA MulMono ==
  ASSUME NEW k \in Int, SeqMod * k < SeqMod, SeqMod * k > -SeqMod
  PROVE  k = 0
  BY SeqModAssumption

\* Two counters less than SeqMod apart with the same sequence number are equal:
\* the comparison seq == pi.incomingSeq in onreadtcp identifies the message.
LEMMA SameMod ==
  ASSUME NEW x \in Int, NEW y \in Int, x % SeqMod = y % SeqMod,
         x - y < SeqMod, y - x < SeqMod
  PROVE  x = y
<1>1. /\ x = SeqMod * (x \div SeqMod) + (x % SeqMod) /\ x \div SeqMod \in Int
      /\ y = SeqMod * (y \div SeqMod) + (y % SeqMod) /\ y \div SeqMod \in Int
  BY ModDef
<1>2. x - y = SeqMod * ((x \div SeqMod) - (y \div SeqMod))
  BY <1>1, SeqModAssumption
<1>3. (x \div SeqMod) - (y \div SeqMod) = 0
  BY <1>1, <1>2, MulMono, SeqModAssumption
<1> QED BY <1>2, <1>3, SeqModAssumption

\* Subtracting wrapped numbers and wrapping again is the same as wrapping the
\* difference of the counters: uint32_t subtraction.
LEMMA DiffMod ==
  ASSUME NEW x \in Int, NEW y \in Int
  PROVE  ((x % SeqMod) - (y % SeqMod)) % SeqMod = (x - y) % SeqMod
<1>1. PICK k \in Int : (x % SeqMod) - (y % SeqMod) = (x - y) + SeqMod * k
  <2>1. /\ x = SeqMod * (x \div SeqMod) + (x % SeqMod) /\ x \div SeqMod \in Int
        /\ y = SeqMod * (y \div SeqMod) + (y % SeqMod) /\ y \div SeqMod \in Int
    BY ModDef
  <2>2. (x % SeqMod) - (y % SeqMod) = (x - y) + SeqMod * ((y \div SeqMod) - (x \div SeqMod))
    BY <2>1, SeqModAssumption
  <2> QED BY <2>1, <2>2
<1>2. PICK j \in Int : x - y = SeqMod * j + ((x - y) % SeqMod)
  BY ModDef
<1>3. (x - y) % SeqMod \in 0..(SeqMod - 1)
  BY ModDef
<1>4. (x % SeqMod) - (y % SeqMod) = ((x - y) % SeqMod) + SeqMod * (j + k)
  BY <1>1, <1>2, <1>3, SeqModAssumption
<1> QED BY <1>3, <1>4, ModUnique, SeqModAssumption

\* The signed comparison (int32_t)(seq - incomingSeq) of onreadtcp yields the
\* distance of the counters.
LEMMA DiffExact ==
  ASSUME NEW x \in Int, NEW y \in Int, x - y < Half, y - x <= Half
  PROVE  Diff(x % SeqMod, y % SeqMod) = x - y
<1>1. CASE x - y >= 0
  <2>1. (x - y) % SeqMod = x - y
    BY <1>1, HalfDef, SeqModAssumption, ModUnique, (x - y) + SeqMod * 0 = x - y
  <2> QED BY <2>1, <1>1, DiffMod DEF Diff
<1>2. CASE x - y < 0
  <2>1. (x - y) % SeqMod = x - y + SeqMod
    BY <1>2, HalfDef, SeqModAssumption, ModUnique, (x - y + SeqMod) + SeqMod * (-1) = x - y
  <2>2. ((x % SeqMod) - (y % SeqMod)) % SeqMod = x - y + SeqMod
    BY <2>1, DiffMod
  <2>3. ~ (x - y + SeqMod < Half) /\ (x - y + SeqMod) - SeqMod = x - y
    BY HalfDef, SeqModAssumption
  <2> QED BY <2>2, <2>3 DEF Diff
<1> QED BY <1>1, <1>2

\* Adding to a wrapped number and wrapping is wrapping the sum: ++ on uint32_t.
LEMMA AddMod ==
  ASSUME NEW x \in Int, NEW j \in Int
  PROVE  ((x % SeqMod) + j) % SeqMod = (x + j) % SeqMod
<1>1. PICK k \in Int : x = SeqMod * k + (x % SeqMod)
  BY ModDef
<1>2. PICK i \in Int : x + j = SeqMod * i + ((x + j) % SeqMod)
  BY ModDef
<1>3. (x + j) % SeqMod \in 0..(SeqMod - 1) /\ x % SeqMod \in Int
  BY ModDef
<1>4. (x % SeqMod) + j = ((x + j) % SeqMod) + SeqMod * (i - k)
  BY <1>1, <1>2, <1>3, SeqModAssumption
<1>5. (((x + j) % SeqMod) + SeqMod * (i - k)) % SeqMod = (x + j) % SeqMod
  <2> DEFINE rem == (x + j) % SeqMod
  <2>1. rem \in Int /\ rem >= 0 /\ rem < SeqMod /\ i - k \in Int
    BY <1>3, SeqModAssumption
  <2> HIDE DEF rem
  <2>2. (rem + SeqMod * (i - k)) % SeqMod = rem
    BY <2>1, ModUnique
  <2> QED BY <2>2 DEF rem
<1> QED BY <1>4, <1>5

----------------------------------------------------------------------------
(***************************************************************************)
(* The elements of sequences.                                              *)
(***************************************************************************)

\* A function on 1..n is a sequence.
LEMMA FnSeq ==
  ASSUME NEW S, NEW n \in Nat, NEW f \in [1..n -> S]
  PROVE  f \in Seq(S) /\ Len(f) = n /\ DOMAIN f = 1..n
  OBVIOUS

\* The length and the domain of a sequence.
LEMMA SeqLen ==
  ASSUME NEW S, NEW s \in Seq(S)
  PROVE  Len(s) \in Nat /\ s \in [1..Len(s) -> S] /\ DOMAIN s = 1..Len(s)
  OBVIOUS

\* The length and the elements of a concatenation.
LEMMA SeqConcat ==
  ASSUME NEW S, NEW s \in Seq(S), NEW t \in Seq(S)
  PROVE  /\ s \o t \in Seq(S) /\ Len(s \o t) = Len(s) + Len(t)
         /\ \A i \in 1..(Len(s) + Len(t)) :
              (s \o t)[i] = IF i <= Len(s) THEN s[i] ELSE t[i - Len(s)]
  OBVIOUS

\* Sequences with the same elements in the same places are equal.
LEMMA SeqSame ==
  ASSUME NEW S, NEW s \in Seq(S), NEW t \in Seq(S), Len(s) = Len(t),
         \A i \in 1..Len(s) : s[i] = t[i]
  PROVE  s = t
  OBVIOUS

\* The elements of a sequence over S are in S.
LEMMA RangeElem == \A S : \A s \in Seq(S) : Range(s) \subseteq S
  BY SeqLen DEF Range

\* The elements of a concatenation.
LEMMA RangeConcat ==
  ASSUME NEW S, NEW s \in Seq(S), NEW t \in Seq(S)
  PROVE  s \o t \in Seq(S) /\ Range(s \o t) = Range(s) \cup Range(t)
<1>1. /\ s \o t \in Seq(S) /\ Len(s \o t) = Len(s) + Len(t)
      /\ \A i \in 1..(Len(s) + Len(t)) :
           (s \o t)[i] = IF i <= Len(s) THEN s[i] ELSE t[i - Len(s)]
  BY SeqConcat
<1>2. DOMAIN (s \o t) = 1..(Len(s) + Len(t)) /\ DOMAIN s = 1..Len(s) /\ DOMAIN t = 1..Len(t)
      /\ Len(s) \in Nat /\ Len(t) \in Nat
  BY <1>1, SeqLen
<1>3. ASSUME NEW x \in Range(s \o t) PROVE x \in Range(s) \cup Range(t)
  <2>1. PICK i \in 1..(Len(s) + Len(t)) : x = (s \o t)[i]
    BY <1>2 DEF Range
  <2>2. CASE i <= Len(s)
    BY <2>1, <2>2, <1>1, <1>2 DEF Range
  <2>3. CASE i > Len(s)
    <3>1. i - Len(s) \in 1..Len(t) /\ x = t[i - Len(s)]
      BY <2>1, <2>3, <1>1, <1>2
    <3> QED BY <3>1, <1>2 DEF Range
  <2> QED BY <2>2, <2>3, <1>2
<1>4. ASSUME NEW x \in Range(s) PROVE x \in Range(s \o t)
  <2>1. PICK i \in 1..Len(s) : x = s[i]
    BY <1>2 DEF Range
  <2>2. i \in 1..(Len(s) + Len(t)) /\ (s \o t)[i] = x
    BY <2>1, <1>1, <1>2
  <2> QED BY <2>2, <1>2 DEF Range
<1>5. ASSUME NEW x \in Range(t) PROVE x \in Range(s \o t)
  <2>1. PICK i \in 1..Len(t) : x = t[i]
    BY <1>2 DEF Range
  <2>2. i + Len(s) \in 1..(Len(s) + Len(t)) /\ (s \o t)[i + Len(s)] = x
    BY <2>1, <1>1, <1>2
  <2> QED BY <2>2, <1>2 DEF Range
<1> QED BY <1>1, <1>3, <1>4, <1>5

\* Taking the head off a sequence.
LEMMA RangeTail ==
  ASSUME NEW S, NEW s \in Seq(S), s # <<>>
  PROVE  /\ Tail(s) \in Seq(S) /\ Range(Tail(s)) \subseteq Range(s)
         /\ Head(s) \in Range(s) /\ Head(s) \in S
<1>1. /\ Head(s) \in S /\ Tail(s) \in Seq(S) /\ Len(Tail(s)) = Len(s) - 1
      /\ \A i \in 1..Len(Tail(s)) : Tail(s)[i] = s[i + 1]
  OBVIOUS
<1>2. /\ Len(s) \in Nat \ {0} /\ DOMAIN s = 1..Len(s)
      /\ DOMAIN Tail(s) = 1..Len(Tail(s))
  BY <1>1, SeqLen
<1>3. Range(Tail(s)) \subseteq Range(s)
  BY <1>1, <1>2 DEF Range
<1>4. Head(s) = s[1] /\ 1 \in DOMAIN s
  BY <1>2
<1> QED BY <1>1, <1>3, <1>4 DEF Range

\* Cutting a sequence off.
LEMMA RangeSubSeq ==
  ASSUME NEW S, NEW s \in Seq(S), NEW i \in Nat, NEW j \in Nat, 1 <= i, j <= Len(s)
  PROVE  /\ SubSeq(s, i, j) \in Seq(S)
         /\ Range(SubSeq(s, i, j)) = {s[k] : k \in i..j}
<1>1. \A k \in i..j : s[k] \in S
  BY SeqLen
<1>2. /\ SubSeq(s, i, j) \in Seq(S)
      /\ Len(SubSeq(s, i, j)) = IF i <= j THEN j - i + 1 ELSE 0
      /\ \A k \in 1..(j - i + 1) : SubSeq(s, i, j)[k] = s[i + k - 1]
  BY <1>1
<1>3. DOMAIN SubSeq(s, i, j) = 1..(j - i + 1)
  BY <1>2, SeqLen
<1>4. ASSUME NEW k \in i..j PROVE s[k] \in Range(SubSeq(s, i, j))
  <2>1. k - i + 1 \in 1..(j - i + 1) /\ SubSeq(s, i, j)[k - i + 1] = s[k]
    BY <1>2
  <2> QED BY Zenon, <2>1, <1>3 DEF Range
<1>5. ASSUME NEW x \in Range(SubSeq(s, i, j)) PROVE x \in {s[k] : k \in i..j}
  <2>1. PICK k \in 1..(j - i + 1) : x = SubSeq(s, i, j)[k]
    BY <1>3 DEF Range
  <2>2. i + k - 1 \in i..j /\ x = s[i + k - 1]
    BY <2>1, <1>2
  <2> QED BY <2>2
<1> QED BY ZenonT(60), <1>2, <1>4, <1>5

\* The empty sequence and a sequence of one element.
LEMMA RangeShort ==
  /\ Range(<<>>) = {} /\ \A S : <<>> \in Seq(S)
  /\ \A x : Range(<<x>>) = {x} /\ \A S : x \in S => <<x>> \in Seq(S)
  BY DEF Range
=============================================================================
