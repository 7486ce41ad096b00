---------------------------- MODULE TextProofs ----------------------------
(***************************************************************************)
(* Theorems about what a program writes in one place and reads in another, *)
(* for all texts: the names and values of options (OptionsTree), addresses *)
(* (Jid) and vCards (VCard).                                               *)
(*                                                                         *)
(* First are lemmas that these and PartsProofs share: about the least of   *)
(* some numbers, and what the recursive function of FlattenSeq returns.    *)
(***************************************************************************)
EXTENDS OptionsTree, Jid, VCard, SequenceTheorems, FiniteSetTheorems, TLAPS

\* What FoldLemmas says of numbers, whatever is folded.
OrLater(a, b) == b
FirstOf(S) == CHOOSE x \in S : TRUE
Numbers == INSTANCE FoldLemmas WITH Op <- OrLater, Pick <- FirstOf

\* A set of positions has a least one, and Min is it.
LEMMA LeastIs ==
  ASSUME NEW S \in SUBSET Nat, S # {}
  PROVE  Min(S) \in S /\ \A n \in S : Min(S) <= n
<1>1. \E m \in S : \A n \in S : m <= n
  BY Numbers!LeastOfNaturals, Zenon
<1> QED BY <1>1, Zenon DEF Min

-----------------------------------------------------------------------------

\* What FlattenSeq builds up, sequence by sequence.
Flattens(g, s) ==
  g = [i \in 1 .. Len(s) |-> IF i = 1 THEN s[i] ELSE g[i - 1] \o s[i]]

\* The recursive function of FlattenSeq is there for every sequence.
LEMMA FlattenExists ==
  ASSUME NEW V, NEW s \in Seq(Seq(V))
  PROVE  \E g : Flattens(g, s)
<1> DEFINE P == {n \in Nat : \E g : g = [i \in 1 .. n |-> IF i = 1 THEN s[i] ELSE g[i - 1] \o s[i]]}
<1>1. 0 \in P
  <2>1. [i \in {} |-> {}] = [i \in 1 .. 0 |-> IF i = 1 THEN s[i] ELSE [j \in {} |-> {}][i - 1] \o s[i]]
    BY 1 .. 0 = {}
  <2> QED BY <2>1
<1>2. ASSUME NEW n \in Nat, n \in P PROVE n + 1 \in P
  <2>1. PICK g : g = [i \in 1 .. n |-> IF i = 1 THEN s[i] ELSE g[i - 1] \o s[i]]
    BY <1>2
  <2>0. \A i \in 1 .. n : g[i] = IF i = 1 THEN s[i] ELSE g[i - 1] \o s[i]
    BY <2>1, Zenon
  <2> DEFINE h == [i \in 1 .. n + 1 |-> IF i <= n THEN g[i] ELSE IF i = 1 THEN s[i] ELSE g[i - 1] \o s[i]]
  <2>2. ASSUME NEW i \in 1 .. n + 1 PROVE h[i] = IF i = 1 THEN s[i] ELSE h[i - 1] \o s[i]
    <3>1. CASE i <= n
      <4>1. h[i] = g[i]
        BY <3>1
      <4>2. i # 1 => h[i - 1] = g[i - 1]
        BY <3>1
      <4>3. i \in 1 .. n
        BY <3>1
      <4> HIDE DEF h
      <4>4. g[i] = IF i = 1 THEN s[i] ELSE g[i - 1] \o s[i]
        BY <2>0, <4>3, Zenon
      <4> QED BY <4>1, <4>2, <4>4
    <3>2. CASE i = n + 1
      <4>1. h[i] = IF i = 1 THEN s[i] ELSE g[i - 1] \o s[i]
        BY <3>2
      <4>2. i # 1 => h[i - 1] = g[i - 1]
        BY <3>2
      <4> HIDE DEF h
      <4> QED BY <4>1, <4>2
    <3> QED BY <3>1, <3>2
  <2>3. h = [i \in 1 .. n + 1 |-> h[i]]
    OBVIOUS
  <2> HIDE DEF h
  <2>4. h = [i \in 1 .. n + 1 |-> IF i = 1 THEN s[i] ELSE h[i - 1] \o s[i]]
    BY <2>2, <2>3
  <2>5. n + 1 \in Nat
    OBVIOUS
  <2> QED BY <2>4, <2>5, Zenon
<1>3. Len(s) \in P
  <2> HIDE DEF P
  <2>1. \A n \in Nat : n \in P
    BY <1>1, <1>2, Numbers!NatInduct, Zenon
  <2> QED BY <2>1
<1> QED BY <1>3 DEF Flattens

\* FlattenSeq is the last of the values of that function.
Flat(s) == CHOOSE g : Flattens(g, s)

\* FlattenSeq is the last of the concatenations of the first sequences.
LEMMA FlattenIsLast ==
  ASSUME NEW V, NEW s \in Seq(Seq(V))
  PROVE  \E g : /\ Flattens(g, s)
                /\ FlattenSeq(s) = IF Len(s) = 0 THEN s ELSE g[Len(s)]
<1>1. \E g : Flattens(g, s)
  BY FlattenExists
<1>2. Flattens(Flat(s), s)
  BY <1>1, Zenon DEF Flat
<1>3. FlattenSeq(s) = IF Len(s) = 0 THEN s ELSE Flat(s)[Len(s)]
  BY Zenon DEF FlattenSeq, Flat, Flattens
<1> QED BY <1>2, <1>3

\* Each concatenation is the one before it with one more sequence.
LEMMA FlattenStep ==
  ASSUME NEW s, NEW g, Flattens(g, s), NEW n \in Nat, n + 1 \in 1 .. Len(s)
  PROVE  g[n + 1] = IF n = 0 THEN s[n + 1] ELSE g[n] \o s[n + 1]
<1>1. g[n + 1] = IF n + 1 = 1 THEN s[n + 1] ELSE g[(n + 1) - 1] \o s[n + 1]
  BY Zenon DEF Flattens
<1>2. (n + 1) - 1 = n /\ (n + 1 = 1 <=> n = 0)
  OBVIOUS
<1> QED BY <1>1, <1>2

\* Two sequences one after the other hold the elements of both.
LEMMA RangeOfConcat ==
  ASSUME NEW V, NEW s \in Seq(V), NEW t \in Seq(V)
  PROVE  Range(s \o t) = Range(s) \cup Range(t)
<1>1. PICK c : c = s \o t
  OBVIOUS
<1>2. /\ DOMAIN s = 1 .. Len(s) /\ DOMAIN t = 1 .. Len(t)
      /\ DOMAIN c = 1 .. Len(s) + Len(t)
      /\ Len(s) \in Nat /\ Len(t) \in Nat
      /\ \A i \in 1 .. Len(s) + Len(t) : c[i] = IF i <= Len(s) THEN s[i] ELSE t[i - Len(s)]
  BY <1>1, ConcatProperties
<1>3. \A x \in Range(c) : x \in Range(s) \cup Range(t)
  BY <1>2 DEF Range
<1>4. \A i \in 1 .. Len(s) : s[i] \in Range(c)
  BY <1>2 DEF Range
<1>5. ASSUME NEW i \in 1 .. Len(t) PROVE t[i] \in Range(c)
  <2>1. PICK j \in 1 .. Len(s) + Len(t) : j = Len(s) + i
    BY <1>2
  <2>2. c[j] = t[i]
    BY <1>2, <2>1
  <2> QED BY <1>2, <2>1, <2>2 DEF Range
<1>6. \A x \in Range(s) \cup Range(t) : x \in Range(c)
  BY <1>2, <1>4, <1>5 DEF Range
<1> QED BY <1>1, <1>3, <1>6

\* The sequences one after the other hold the elements of each.
LEMMA FlattenRange ==
  ASSUME NEW V, NEW s \in Seq(Seq(V))
  PROVE  /\ FlattenSeq(s) \in Seq(V)
         /\ Range(FlattenSeq(s)) = UNION {Range(s[i]) : i \in 1 .. Len(s)}
<1>1. PICK g : /\ Flattens(g, s)
               /\ FlattenSeq(s) = IF Len(s) = 0 THEN s ELSE g[Len(s)]
  BY FlattenIsLast
<1> DEFINE P == {n \in Nat : n \in 1 .. Len(s) =>
                   g[n] \in Seq(V) /\ Range(g[n]) = UNION {Range(s[i]) : i \in 1 .. n}}
<1>2. 0 \in P
  OBVIOUS
<1>3. ASSUME NEW n \in Nat, n \in P PROVE n + 1 \in P
  <2>1. SUFFICES ASSUME n + 1 \in 1 .. Len(s)
        PROVE  g[n + 1] \in Seq(V) /\ Range(g[n + 1]) = UNION {Range(s[i]) : i \in 1 .. n + 1}
    OBVIOUS
  <2>2. s[n + 1] \in Seq(V)
    BY <2>1
  <2>3. CASE n = 0
    <3>1. g[n + 1] = s[n + 1]
      BY <2>1, <2>3, <1>1, FlattenStep
    <3>2. 1 .. n + 1 = {n + 1}
      BY <2>3
    <3>3. UNION {Range(s[i]) : i \in {n + 1}} = Range(s[n + 1])
      OBVIOUS
    <3> QED BY <2>2, <3>1, <3>2, <3>3, Zenon
  <2>4. CASE n # 0
    <3>1. g[n + 1] = g[n] \o s[n + 1]
      BY <2>1, <2>4, <1>1, FlattenStep
    <3>2. g[n] \in Seq(V) /\ Range(g[n]) = UNION {Range(s[i]) : i \in 1 .. n}
      BY <1>3, <2>1, <2>4
    <3>3. Range(g[n + 1]) = Range(g[n]) \cup Range(s[n + 1])
      BY <3>1, <3>2, <2>2, RangeOfConcat
    <3>4. g[n + 1] \in Seq(V)
      BY <3>1, <3>2, <2>2, ConcatProperties, Zenon
    <3>5. PICK U : U = UNION {Range(s[i]) : i \in 1 .. n}
      OBVIOUS
    <3>6. PICK W : W = UNION {Range(s[i]) : i \in 1 .. n + 1}
      OBVIOUS
    <3>7. W = U \cup Range(s[n + 1])
      <4>1. \A i : i \in 1 .. n + 1 <=> i \in 1 .. n \/ i = n + 1
        OBVIOUS
      <4>2. \A x : x \in U <=> \E i \in 1 .. n : x \in Range(s[i])
        BY <3>5, Zenon
      <4>3. \A x : x \in W <=> \E i \in 1 .. n + 1 : x \in Range(s[i])
        BY <3>6, Zenon
      <4>4. \A x : x \in W <=> x \in U \/ x \in Range(s[n + 1])
        BY <4>1, <4>2, <4>3, Zenon
      <4> QED BY <4>4
    <3>8. Range(g[n]) = U
      BY <3>2, <3>5
    <3>9. Range(g[n + 1]) = W
      BY <3>3, <3>7, <3>8
    <3> QED BY <3>4, <3>6, <3>9
  <2> QED BY <2>3, <2>4
<1>4. Len(s) \in P
  <2> HIDE DEF P
  <2>1. \A n \in Nat : n \in P
    BY <1>2, <1>3, Numbers!NatInduct, Zenon
  <2> QED BY <2>1
<1>5. CASE Len(s) = 0
  BY <1>1, <1>5 DEF Range
<1>6. CASE Len(s) # 0
  BY <1>1, <1>4, <1>6
<1> QED BY <1>5, <1>6

\* Their length depends on those of the parts alone.
LEMMA FlattenLength ==
  ASSUME NEW V, NEW s \in Seq(Seq(V)), NEW t \in Seq(Seq(V)),
         Len(s) = Len(t), \A i \in 1 .. Len(s) : Len(s[i]) = Len(t[i])
  PROVE  Len(FlattenSeq(s)) = Len(FlattenSeq(t))
<1>1. PICK g : /\ Flattens(g, s)
               /\ FlattenSeq(s) = IF Len(s) = 0 THEN s ELSE g[Len(s)]
  BY FlattenIsLast
<1>2. PICK h : /\ Flattens(h, t)
               /\ FlattenSeq(t) = IF Len(t) = 0 THEN t ELSE h[Len(t)]
  BY FlattenIsLast
<1> DEFINE P == {n \in Nat : n \in 1 .. Len(s) =>
                   g[n] \in Seq(V) /\ h[n] \in Seq(V) /\ Len(g[n]) = Len(h[n])}
<1>3. 0 \in P
  OBVIOUS
<1>4. ASSUME NEW n \in Nat, n \in P PROVE n + 1 \in P
  <2>1. SUFFICES ASSUME n + 1 \in 1 .. Len(s)
        PROVE  g[n + 1] \in Seq(V) /\ h[n + 1] \in Seq(V) /\ Len(g[n + 1]) = Len(h[n + 1])
    OBVIOUS
  <2>2. s[n + 1] \in Seq(V) /\ t[n + 1] \in Seq(V) /\ Len(s[n + 1]) = Len(t[n + 1])
    BY <2>1
  <2>3. CASE n = 0
    <3>1. g[n + 1] = s[1] /\ h[n + 1] = t[1]
      BY <2>1, <2>3, <1>1, <1>2, FlattenStep
    <3> QED BY <2>2, <2>3, <3>1
  <2>4. CASE n # 0
    <3>1. g[n + 1] = g[n] \o s[n + 1] /\ h[n + 1] = h[n] \o t[n + 1]
      BY <2>1, <2>4, <1>1, <1>2, FlattenStep
    <3>2. g[n] \in Seq(V) /\ h[n] \in Seq(V) /\ Len(g[n]) = Len(h[n])
      BY <1>4, <2>1, <2>4
    <3>3. /\ g[n + 1] \in Seq(V) /\ Len(g[n + 1]) = Len(g[n]) + Len(s[n + 1])
          /\ h[n + 1] \in Seq(V) /\ Len(h[n + 1]) = Len(h[n]) + Len(t[n + 1])
      <4>1. g[n] \o s[n + 1] \in Seq(V) /\ Len(g[n] \o s[n + 1]) = Len(g[n]) + Len(s[n + 1])
        BY <3>2, <2>2, ConcatProperties, Zenon
      <4>2. h[n] \o t[n + 1] \in Seq(V) /\ Len(h[n] \o t[n + 1]) = Len(h[n]) + Len(t[n + 1])
        BY <3>2, <2>2, ConcatProperties, Zenon
      <4> QED BY <3>1, <4>1, <4>2, Zenon
    <3> QED BY <3>2, <3>3, <2>2
  <2> QED BY <2>3, <2>4
<1>5. Len(s) \in P
  <2> HIDE DEF P
  <2>1. \A n \in Nat : n \in P
    BY <1>3, <1>4, Numbers!NatInduct, Zenon
  <2> QED BY <2>1
<1> QED BY <1>1, <1>2, <1>5

\* A sequence among empty ones is what they make together.
LEMMA FlattenOne ==
  ASSUME NEW V, NEW s \in Seq(Seq(V)), NEW w \in 1 .. Len(s),
         \A i \in 1 .. Len(s) : i # w => s[i] = <<>>
  PROVE  FlattenSeq(s) = s[w]
<1>1. PICK g : /\ Flattens(g, s)
               /\ FlattenSeq(s) = IF Len(s) = 0 THEN s ELSE g[Len(s)]
  BY FlattenIsLast
<1> DEFINE P == {n \in Nat : n \in 1 .. Len(s) =>
                   g[n] = IF n < w THEN <<>> ELSE s[w]}
<1>2. 0 \in P
  OBVIOUS
<1>3. ASSUME NEW n \in Nat, n \in P PROVE n + 1 \in P
  <2>1. SUFFICES ASSUME n + 1 \in 1 .. Len(s)
        PROVE  g[n + 1] = IF n + 1 < w THEN <<>> ELSE s[w]
    OBVIOUS
  <2>2. s[w] \in Seq(V) /\ (n + 1 # w => s[n + 1] = <<>>)
    BY <2>1
  <2>5. g[n + 1] = IF n = 0 THEN s[n + 1] ELSE g[n] \o s[n + 1]
    BY <1>1, <2>1, FlattenStep, Zenon
  <2>3. CASE n = 0
    <3>1. g[n + 1] = s[1]
      BY <2>3, <2>5
    <3> QED BY <2>2, <2>3, <3>1
  <2>4. CASE n # 0
    <3>1. g[n + 1] = g[n] \o s[n + 1]
      BY <2>1, <2>4, <1>1, FlattenStep
    <3>2. g[n] = IF n < w THEN <<>> ELSE s[w]
      BY <1>3, <2>1, <2>4
    <3>3. <<>> \o s[w] = s[w] /\ <<>> \o <<>> = <<>> /\ s[w] \o <<>> = s[w]
      BY <2>2
    <3>4. CASE n < w
      <4>1. CASE n + 1 = w
        BY <4>1, <3>1, <3>2, <3>3, <3>4
      <4>2. CASE n + 1 # w
        BY <4>2, <3>1, <3>2, <3>3, <3>4, <2>2
      <4> QED BY <4>1, <4>2
    <3>5. CASE ~(n < w)
      <4>1. s[n + 1] = <<>> /\ g[n] = s[w] /\ ~(n + 1 < w)
        BY <3>2, <3>5, <2>2
      <4> QED BY <3>1, <3>3, <4>1
    <3> QED BY <3>4, <3>5
  <2> QED BY <2>3, <2>4
<1>4. Len(s) \in P
  <2> HIDE DEF P
  <2>1. \A n \in Nat : n \in P
    BY <1>2, <1>3, Numbers!NatInduct, Zenon
  <2> QED BY <2>1
<1> QED BY <1>1, <1>4

-----------------------------------------------------------------------------


\* A name is a sequence of as many characters as it is long.
LEMMA NameIs ==
  ASSUME NEW s \in Seq(STRING)
  PROVE  Len(s) \in Nat /\ DOMAIN s = 1 .. Len(s) /\ \A i \in 1 .. Len(s) : s[i] \in STRING
BY LenProperties

\* A character alone.
LEMMA OneCharacter ==
  ASSUME NEW V, NEW c \in V
  PROVE  <<c>> \in Seq(V) /\ Len(<<c>>) = 1 /\ <<c>>[1] = c
OBVIOUS

\* The first characters of a name, and what is left after them.
LEMMA CutIs ==
  ASSUME NEW s \in Seq(STRING), NEW n \in 0 .. Len(s)
  PROVE  /\ SubSeq(s, 1, n) \in Seq(STRING) /\ Len(SubSeq(s, 1, n)) = n
         /\ \A i \in 1 .. n : SubSeq(s, 1, n)[i] = s[i]
         /\ SubSeq(s, n + 1, Len(s)) \in Seq(STRING) /\ Len(SubSeq(s, n + 1, Len(s))) = Len(s) - n
         /\ \A i \in 1 .. Len(s) - n : SubSeq(s, n + 1, Len(s))[i] = s[n + i]
<1>1. Len(s) \in Nat /\ \A i \in 1 .. Len(s) : s[i] \in STRING
  BY NameIs
<1>2. /\ SubSeq(s, 1, n) \in Seq(STRING) /\ Len(SubSeq(s, 1, n)) = (IF 1 <= n THEN n - 1 + 1 ELSE 0)
      /\ \A i \in 1 .. n - 1 + 1 : SubSeq(s, 1, n)[i] = s[1 + i - 1]
  <2>1. \A i \in 1 .. n : s[i] \in STRING
    BY <1>1
  <2> QED BY <1>1, <2>1, SubSeqProperties
<1>3. /\ SubSeq(s, n + 1, Len(s)) \in Seq(STRING)
      /\ Len(SubSeq(s, n + 1, Len(s))) = (IF n + 1 <= Len(s) THEN Len(s) - (n + 1) + 1 ELSE 0)
      /\ \A i \in 1 .. Len(s) - (n + 1) + 1 : SubSeq(s, n + 1, Len(s))[i] = s[n + 1 + i - 1]
  <2>1. \A i \in n + 1 .. Len(s) : s[i] \in STRING
    BY <1>1
  <2> QED BY <1>1, <2>1, SubSeqProperties
<1>4. n - 1 + 1 = n /\ Len(s) - (n + 1) + 1 = Len(s) - n
  BY <1>1
<1>5. /\ n = (IF 1 <= n THEN n ELSE 0)
      /\ Len(s) - n = (IF n + 1 <= Len(s) THEN Len(s) - n ELSE 0)
  BY <1>1
<1>6. Len(SubSeq(s, 1, n)) = n /\ Len(SubSeq(s, n + 1, Len(s))) = Len(s) - n
  BY <1>2, <1>3, <1>4, <1>5, Zenon
<1>7. ASSUME NEW i \in 1 .. n PROVE SubSeq(s, 1, n)[i] = s[i]
  <2>1. 1 + i - 1 = i
    OBVIOUS
  <2> QED BY <1>2, <1>4, <2>1, Zenon
<1>8. ASSUME NEW i \in 1 .. Len(s) - n PROVE SubSeq(s, n + 1, Len(s))[i] = s[n + i]
  <2>1. n + 1 + i - 1 = n + i
    OBVIOUS
  <2> QED BY <1>3, <1>4, <2>1, Zenon
<1> QED BY <1>2, <1>3, <1>6, <1>7, <1>8

\* Names with the same characters are the same.
LEMMA SameName ==
  ASSUME NEW s \in Seq(STRING), NEW t \in Seq(STRING), Len(s) = Len(t),
         \A i \in 1 .. Len(s) : s[i] = t[i]
  PROVE  s = t
BY SeqEqual

\* The groups a name is in, by their characters.
LEMMA GroupIs ==
  ASSUME NEW k \in Seq(STRING), NEW g
  PROVE  g \in Groups(k) <=> /\ g \in Seq(STRING) /\ Len(g) < Len(k) /\ k[Len(g) + 1] = Slash
                             /\ \A i \in 1 .. Len(g) : g[i] = k[i]
<1>1. Len(k) \in Nat /\ DOMAIN k = 1 .. Len(k)
  BY NameIs
<1>2. ASSUME g \in Groups(k)
      PROVE  /\ g \in Seq(STRING) /\ Len(g) < Len(k) /\ k[Len(g) + 1] = Slash
             /\ \A i \in 1 .. Len(g) : g[i] = k[i]
  <2>1. PICK n \in 1 .. Len(k) : k[n] = Slash /\ g = SubSeq(k, 1, n - 1)
    BY <1>1, <1>2 DEF Groups
  <2>2. n - 1 \in 0 .. Len(k) /\ n - 1 + 1 = n /\ n - 1 < Len(k)
    BY <1>1
  <2>3. g \in Seq(STRING) /\ Len(g) = n - 1 /\ \A i \in 1 .. n - 1 : g[i] = k[i]
    BY <2>1, <2>2, CutIs
  <2> QED BY <2>1, <2>2, <2>3
<1>3. ASSUME g \in Seq(STRING), Len(g) < Len(k), k[Len(g) + 1] = Slash,
             \A i \in 1 .. Len(g) : g[i] = k[i]
      PROVE  g \in Groups(k)
  <2>1. PICK n : n = Len(g) + 1
    OBVIOUS
  <2>2. n \in 1 .. Len(k) /\ n - 1 = Len(g) /\ n - 1 \in 0 .. Len(k)
    BY <1>1, <1>3, <2>1, NameIs
  <2>3. /\ SubSeq(k, 1, n - 1) \in Seq(STRING) /\ Len(SubSeq(k, 1, n - 1)) = n - 1
        /\ \A i \in 1 .. n - 1 : SubSeq(k, 1, n - 1)[i] = k[i]
    BY <2>2, CutIs
  <2>4. g = SubSeq(k, 1, n - 1)
    BY <1>3, <2>2, <2>3, SameName
  <2> QED BY <1>1, <1>3, <2>1, <2>2, <2>4 DEF Groups
<1> QED BY <1>2, <1>3

\* A name begins with another when it has its characters.
LEMMA PrefixIs ==
  ASSUME NEW g \in Seq(STRING), NEW k \in Seq(STRING)
  PROVE  IsPrefix(g, k) <=> Len(g) <= Len(k) /\ \A i \in 1 .. Len(g) : g[i] = k[i]
<1>1. Len(g) \in Nat /\ Len(k) \in Nat
  BY NameIs
<1>2. CASE Len(g) <= Len(k)
  <2>1. /\ SubSeq(g, 1, Len(g)) \in Seq(STRING) /\ Len(SubSeq(g, 1, Len(g))) = Len(g)
        /\ \A i \in 1 .. Len(g) : SubSeq(g, 1, Len(g))[i] = g[i]
    BY <1>1, CutIs
  <2>2. /\ SubSeq(k, 1, Len(g)) \in Seq(STRING) /\ Len(SubSeq(k, 1, Len(g))) = Len(g)
        /\ \A i \in 1 .. Len(g) : SubSeq(k, 1, Len(g))[i] = k[i]
    BY <1>1, <1>2, CutIs
  <2>3. SubSeq(g, 1, Len(g)) = SubSeq(k, 1, Len(g)) <=> \A i \in 1 .. Len(g) : g[i] = k[i]
    BY <2>1, <2>2, SameName
  <2> QED BY <1>2, <2>3 DEF IsPrefix
<1> QED BY <1>2 DEF IsPrefix

\* The groups that a group is in, by their characters.
LEMMA OuterIs ==
  ASSUME NEW g \in Seq(STRING), NEW h
  PROVE  h \in Outer(g) <=> /\ h \in Seq(STRING) /\ Len(h) \in 1 .. Len(g)
                            /\ Len(h) = Len(g) \/ g[Len(h) + 1] = Slash
                            /\ \A i \in 1 .. Len(h) : h[i] = g[i]
<1>1. Len(g) \in Nat /\ DOMAIN g = 1 .. Len(g)
  BY NameIs
<1>2. ASSUME h \in Outer(g)
      PROVE  /\ h \in Seq(STRING) /\ Len(h) \in 1 .. Len(g)
             /\ Len(h) = Len(g) \/ g[Len(h) + 1] = Slash
             /\ \A i \in 1 .. Len(h) : h[i] = g[i]
  <2>1. PICK n \in 1 .. Len(g) : (n = Len(g) \/ g[n + 1] = Slash) /\ h = SubSeq(g, 1, n)
    BY <1>1, <1>2 DEF Outer
  <2>2. h \in Seq(STRING) /\ Len(h) = n /\ \A i \in 1 .. n : h[i] = g[i]
    <3>1. n \in 0 .. Len(g)
      BY <1>1
    <3> QED BY <2>1, <3>1, CutIs
  <2> QED BY <2>1, <2>2
<1>3. ASSUME h \in Seq(STRING), Len(h) \in 1 .. Len(g), Len(h) = Len(g) \/ g[Len(h) + 1] = Slash,
             \A i \in 1 .. Len(h) : h[i] = g[i]
      PROVE  h \in Outer(g)
  <2>1. PICK n : n = Len(h)
    OBVIOUS
  <2>2. n \in 0 .. Len(g)
    BY <1>1, <1>3, <2>1
  <2>3. h = SubSeq(g, 1, n)
    BY <1>3, <2>1, <2>2, CutIs, SameName
  <2> QED BY <1>1, <1>3, <2>1, <2>3 DEF Outer
<1> QED BY <1>2, <1>3

\* The path of what is in a group: the group, a slash, and the name.
LEMMA PathHas ==
  ASSUME NEW g \in Seq(STRING), g # <<>>, NEW r \in Seq(STRING), Slash \in STRING
  PROVE  /\ Path(g, r) \in Seq(STRING) /\ Len(Path(g, r)) = Len(g) + 1 + Len(r)
         /\ \A i \in 1 .. Len(g) : Path(g, r)[i] = g[i]
         /\ Path(g, r)[Len(g) + 1] = Slash
         /\ \A i \in 1 .. Len(r) : Path(g, r)[Len(g) + 1 + i] = r[i]
<1>1. Len(g) \in Nat /\ Len(r) \in Nat
  BY NameIs
<1>2. PICK u, t, p : u = <<Slash>> /\ t = g \o u /\ p = t \o r
  OBVIOUS
<1>3. u \in Seq(STRING) /\ Len(u) = 1 /\ u[1] = Slash
  BY <1>2, OneCharacter, Zenon
<1>4. /\ t \in Seq(STRING) /\ Len(t) = Len(g) + Len(u)
      /\ \A i \in 1 .. Len(g) + Len(u) : t[i] = IF i <= Len(g) THEN g[i] ELSE u[i - Len(g)]
  BY <1>2, <1>3, ConcatProperties
<1>5. /\ p \in Seq(STRING) /\ Len(p) = Len(t) + Len(r)
      /\ \A i \in 1 .. Len(t) + Len(r) : p[i] = IF i <= Len(t) THEN t[i] ELSE r[i - Len(t)]
  <2>1. t \in Seq(STRING) /\ p = t \o r
    BY <1>2, <1>4
  <2> QED BY <2>1, ConcatProperties
<1>6. PICK n \in Nat : n = Len(g) + 1
  BY <1>1
<1>7. Len(t) = n /\ Len(p) = n + Len(r)
  BY <1>1, <1>3, <1>4, <1>5, <1>6
<1>8. ASSUME NEW i \in 1 .. Len(g) PROVE p[i] = g[i]
  <2>1. i \in 1 .. Len(g) + 1 /\ i <= Len(g) /\ i \in 1 .. n + Len(r) /\ i <= n
    BY <1>1, <1>6
  <2> QED BY <1>3, <1>4, <1>5, <1>7, <2>1
<1>9. p[n] = Slash
  <2>1. n \in 1 .. Len(g) + 1 /\ ~(n <= Len(g)) /\ n \in 1 .. n + Len(r) /\ n <= n /\ n - Len(g) = 1
    BY <1>1, <1>6
  <2> QED BY <1>3, <1>4, <1>5, <1>7, <2>1
<1>10. ASSUME NEW i \in 1 .. Len(r) PROVE p[n + i] = r[i]
  <2>1. PICK j : j = n + i
    OBVIOUS
  <2>2. j \in 1 .. n + Len(r) /\ ~(j <= n) /\ j - n = i
    BY <1>1, <2>1
  <2> QED BY <1>5, <1>7, <2>1, <2>2
<1>11. Path(g, r) = p
  BY <1>2 DEF Path
<1> QED BY <1>1, <1>5, <1>6, <1>7, <1>8, <1>9, <1>10, <1>11

\* What a well-named option is called in one of its groups, and its path.
LEMMA RestIs ==
  ASSUME NEW k, WellNamed(k), NEW g \in Groups(k) \cup {<<>>}
  PROVE  /\ Rest(k, g) \in Seq(STRING) /\ Rest(k, g) # <<>> /\ Path(g, Rest(k, g)) = k
         /\ g # <<>> => /\ Len(Rest(k, g)) = Len(k) - Len(g) - 1
                        /\ \A i \in 1 .. Len(k) - Len(g) - 1 : Rest(k, g)[i] = k[Len(g) + 1 + i]
<1>1. k \in Seq(STRING) /\ Len(k) \in Nat /\ DOMAIN k = 1 .. Len(k) /\ k # <<>>
  BY NameIs DEF WellNamed
<1>2. CASE g = <<>>
  BY <1>1, <1>2 DEF Rest, Path
<1>3. CASE g # <<>>
  <2>1. /\ g \in Seq(STRING) /\ Len(g) \in Nat /\ Len(g) < Len(k) /\ k[Len(g) + 1] = Slash
        /\ \A i \in 1 .. Len(g) : g[i] = k[i]
    BY <1>1, <1>3, GroupIs, NameIs
  <2>2. PICK n \in Nat : n = Len(g) + 1
    BY <2>1
  <2>3. n \in 2 .. Len(k) - 1
    <3>1. n \in DOMAIN k
      BY <1>1, <2>1, <2>2
    <3> QED BY <2>1, <2>2, <3>1 DEF WellNamed
  <2>4. PICK r : r = SubSeq(k, n + 1, Len(k))
    OBVIOUS
  <2>5. r \in Seq(STRING) /\ Len(r) = Len(k) - n /\ \A i \in 1 .. Len(k) - n : r[i] = k[n + i]
    <3>1. n \in 0 .. Len(k)
      BY <1>1, <2>3
    <3> QED BY <1>1, <2>4, <3>1, CutIs
  <2>6. Rest(k, g) = r
    <3>1. Len(g) + 2 = n + 1
      BY <2>1, <2>2
    <3> QED BY <1>3, <2>4, <3>1 DEF Rest
  <2>7. r # <<>>
    BY <2>3, <2>5
  <2>8. Path(g, r) = k
    <3>1. PICK p : p = Path(g, r)
      OBVIOUS
    <3>2. Slash \in STRING
      BY <1>1, <2>1, <2>2, <2>3, NameIs
    <3>3. /\ p \in Seq(STRING) /\ Len(p) = n + Len(r) /\ \A i \in 1 .. Len(g) : p[i] = g[i]
          /\ p[n] = Slash /\ \A i \in 1 .. Len(r) : p[n + i] = r[i]
      BY <1>3, <2>1, <2>2, <2>5, <3>1, <3>2, PathHas
    <3>4. Len(p) = Len(k)
      BY <1>1, <2>3, <2>5, <3>3
    <3>5. ASSUME NEW i \in 1 .. Len(k) PROVE p[i] = k[i]
      <4>1. CASE i \in 1 .. Len(g)
        BY <2>1, <3>3, <4>1
      <4>2. CASE i = n
        BY <2>1, <2>2, <3>3, <4>2
      <4>3. CASE i > n
        <5>1. PICK j : j = i - n
          OBVIOUS
        <5>2. j \in 1 .. Len(k) - n /\ n + j = i
          BY <1>1, <2>3, <4>3, <5>1
        <5> QED BY <2>5, <3>3, <5>2
      <4>4. i \in 1 .. Len(g) \/ i = n \/ i > n
        BY <1>1, <2>1, <2>2
      <4> QED BY <4>1, <4>2, <4>3, <4>4, Zenon
    <3> QED BY <1>1, <3>1, <3>3, <3>4, <3>5, SameName
  <2>9. Len(k) - Len(g) - 1 = Len(k) - n /\ \A i \in Nat : Len(g) + 1 + i = n + i
    BY <1>1, <2>1, <2>2
  <2> QED BY <1>3, <2>5, <2>6, <2>7, <2>8, <2>9 DEF Path
<1> QED BY <1>2, <1>3

\* A group that one of the names is in.
Real(keys, g) == \E k \in keys : g \in Groups(k)

\* With names that do not clash, another that begins like a group is in it.
LEMMA InGroup ==
  ASSUME NEW keys \in SUBSET Seq(STRING), ~NamesClash(keys), NEW g, Real(keys, g),
         NEW j \in keys, Len(g) <= Len(j), \A i \in 1 .. Len(g) : g[i] = j[i]
  PROVE  g \in Groups(j)
<1>1. PICK k \in keys : g \in Groups(k)
  BY DEF Real
<1>2. IsPrefix(g, j)
  BY <1>1, GroupIs, PrefixIs
<1> QED BY <1>1, <1>2, Zenon DEF NamesClash

\* The groups that a group of a name is in are groups of the name.
LEMMA OuterInGroups ==
  ASSUME NEW k \in Seq(STRING), NEW g \in Groups(k), NEW h \in Outer(g)
  PROVE  h \in Groups(k)
<1>1. /\ Len(k) \in Nat /\ g \in Seq(STRING) /\ Len(g) \in Nat /\ Len(g) < Len(k)
      /\ k[Len(g) + 1] = Slash /\ \A i \in 1 .. Len(g) : g[i] = k[i]
  BY GroupIs, NameIs
<1>2. /\ h \in Seq(STRING) /\ Len(h) \in 1 .. Len(g)
      /\ Len(h) = Len(g) \/ g[Len(h) + 1] = Slash
      /\ \A i \in 1 .. Len(h) : h[i] = g[i]
  BY <1>1, OuterIs
<1>3. Len(h) < Len(k) /\ \A i \in 1 .. Len(h) : h[i] = k[i]
  BY <1>1, <1>2
<1>4. k[Len(h) + 1] = Slash
  <2>1. CASE Len(h) = Len(g)
    BY <1>1, <2>1
  <2>2. CASE Len(h) # Len(g)
    <3>1. Len(h) + 1 \in 1 .. Len(g)
      BY <1>1, <1>2, <2>2
    <3> QED BY <1>1, <1>2, <2>2, <3>1
  <2> QED BY <2>1, <2>2
<1> QED BY <1>2, <1>3, <1>4, GroupIs

\* The name of a group has no slash at either end.
LEMMA GroupEnds ==
  ASSUME NEW k, WellNamed(k), NEW g \in Groups(k)
  PROVE  g # <<>> /\ Len(g) \in 1 .. Len(k) - 2 /\ Slash \notin {g[1], g[Len(g)]}
<1>1. k \in Seq(STRING) /\ Len(k) \in Nat /\ DOMAIN k = 1 .. Len(k)
  BY NameIs DEF WellNamed
<1>2. /\ g \in Seq(STRING) /\ Len(g) \in Nat /\ Len(g) < Len(k) /\ k[Len(g) + 1] = Slash
      /\ \A i \in 1 .. Len(g) : g[i] = k[i]
  BY <1>1, GroupIs, NameIs
<1>3. \A n \in 1 .. Len(k) : k[n] = Slash => n \in 2 .. Len(k) - 1 /\ k[n + 1] # Slash
  BY <1>1 DEF WellNamed
<1>4. Len(g) + 1 \in 2 .. Len(k) - 1
  BY <1>1, <1>2, <1>3
<1>5. Len(g) \in 1 .. Len(k) - 2 /\ Len(g) \in 1 .. Len(k) /\ 1 \in 1 .. Len(k)
  BY <1>1, <1>2, <1>4
<1>6. g[1] # Slash
  <2>1. g[1] = k[1]
    BY <1>2, <1>5
  <2>2. 1 \notin 2 .. Len(k) - 1
    BY <1>1
  <2> QED BY <1>3, <1>5, <2>1, <2>2
<1>7. g[Len(g)] # Slash
  <2>1. g[Len(g)] = k[Len(g)]
    BY <1>2, <1>5
  <2> QED BY <1>2, <1>3, <1>5, <2>1
<1>8. g # <<>>
  BY <1>5, EmptySeq
<1> QED BY <1>5, <1>6, <1>7, <1>8

LEMMA OneBefore ==
  ASSUME NEW a \in Nat, NEW b \in Nat, a <= b, NEW m \in 1 .. a, m # 1, m # a, NEW n, n = m - 1
  PROVE  n \in 1 .. a /\ n \in 0 .. a /\ n < a /\ n + 1 = m /\ n <= b
OBVIOUS

\* When the groups that a group is in are real, a name that is listed in it
\* begins with its characters: where the group has a slash, the name has one.
LEMMA ListedBegins ==
  ASSUME NEW keys \in SUBSET Seq(STRING), ~NamesClash(keys), NEW g \in Seq(STRING), g # <<>>,
         Slash \notin {g[1], g[Len(g)]}, \A h \in Outer(g) : Len(h) < Len(g) => Real(keys, h),
         NEW k \in keys, Listed(k, g)
  PROVE  Len(g) <= Len(k) /\ \A i \in 1 .. Len(g) : g[i] = k[i]
<1>1. Len(k) \in Nat /\ Len(g) \in Nat /\ DOMAIN g = 1 .. Len(g) /\ Len(g) <= Len(k)
  BY NameIs DEF Listed
<1>2. \A i \in 1 .. Len(g) : g[i] = Slash \/ g[i] = k[i]
  BY <1>1 DEF Listed
<1>. DEFINE S == {i \in 1 .. Len(g) : g[i] # k[i]}
<1>3. CASE S = {}
  BY <1>1, <1>3
<1>4. CASE S # {}
  <2>1. PICK m \in S : \A i \in S : m <= i
    <3>1. S \in SUBSET Nat
      BY <1>1
    <3> QED BY <1>4, <3>1, Numbers!LeastOfNaturals
  <2>2. m \in 1 .. Len(g) /\ g[m] = Slash /\ k[m] # Slash /\ \A i \in 1 .. m - 1 : g[i] = k[i]
    <3>1. m \in 1 .. Len(g) /\ g[m] = Slash /\ k[m] # Slash
      BY <1>2
    <3>2. ASSUME NEW i \in 1 .. m - 1, g[i] # k[i] PROVE FALSE
      <4>1. i \in 1 .. Len(g) /\ ~(m <= i)
        BY <1>1, <3>1
      <4> QED BY <2>1, <3>2, <4>1
    <3> QED BY <3>1, <3>2
  <2>3. m \in 1 .. Len(g) /\ m # 1 /\ m # Len(g)
    BY <2>2
  <2>4. PICK n \in Nat : n = m - 1
    BY <2>2
  <2>5. n \in 1 .. Len(g) /\ n \in 0 .. Len(g) /\ n < Len(g) /\ n + 1 = m /\ n <= Len(k)
    BY <1>1, <2>3, <2>4, OneBefore, Zenon
  <2>6. PICK h \in Seq(STRING) : Len(h) = n /\ \A i \in 1 .. n : h[i] = g[i]
    BY <2>5, CutIs
  <2>7. h \in Outer(g)
    BY <2>2, <2>5, <2>6, OuterIs
  <2>8. \A i \in 1 .. n : h[i] = k[i]
    BY <2>2, <2>4, <2>6
  <2>9. h \in Groups(k)
    BY <2>5, <2>6, <2>7, <2>8, InGroup
  <2> QED BY <2>2, <2>5, <2>6, <2>9, GroupIs
<1> QED BY <1>3, <1>4

\* The groups that are written are real.
LEMMA OuterReal ==
  ASSUME NEW keys \in SUBSET Seq(STRING), ~NamesClash(keys), NEW g \in Seq(STRING),
         \A h \in Outer(g) : IsGroup(keys, h)
  PROVE  \A h \in Outer(g) : Real(keys, h)
<1>1. Len(g) \in Nat
  BY NameIs
<1>. DEFINE S == {n \in Nat : \E h \in Outer(g) : Len(h) = n /\ ~Real(keys, h)}
<1>2. CASE S = {}
  BY <1>1, <1>2, OuterIs
<1>3. CASE S # {}
  <2>1. PICK m \in S : \A n \in S : m <= n
    BY <1>3, Numbers!LeastOfNaturals
  <2>2. PICK h \in Outer(g) : Len(h) = m /\ ~Real(keys, h)
    OBVIOUS
  <2>3. /\ h \in Seq(STRING) /\ Len(h) \in 1 .. Len(g)
        /\ Len(h) = Len(g) \/ g[Len(h) + 1] = Slash
        /\ \A i \in 1 .. Len(h) : h[i] = g[i]
    BY OuterIs
  <2>4. ASSUME NEW f \in Outer(h), Len(f) < Len(h) PROVE Real(keys, f)
    <3>1. /\ f \in Seq(STRING) /\ Len(f) \in 1 .. Len(h) /\ h[Len(f) + 1] = Slash
          /\ \A i \in 1 .. Len(f) : f[i] = h[i]
      BY <2>3, <2>4, OuterIs
    <3>2. Len(f) \in 1 .. Len(g) /\ Len(f) + 1 \in 1 .. Len(h)
      BY <1>1, <2>3, <2>4, <3>1
    <3>3. g[Len(f) + 1] = Slash /\ \A i \in 1 .. Len(f) : f[i] = g[i]
      BY <1>1, <2>3, <3>1, <3>2
    <3>4. f \in Outer(g)
      BY <3>1, <3>2, <3>3, OuterIs
    <3>5. Len(f) \notin S
      BY <2>1, <2>2, <2>3, <2>4, <3>1
    <3> QED BY <3>2, <3>4, <3>5
  <2>5. PICK key \in Members(keys, h) : Len(key) > Len(h) /\ key[Len(h) + 1] = Slash
    BY DEF IsGroup
  <2>6. key \in keys /\ Listed(key, h)
    BY DEF Members
  <2>7. Slash \notin {h[1], h[Len(h)]} /\ h # <<>>
    BY <2>3 DEF IsGroup
  <2>8. \A i \in 1 .. Len(h) : h[i] = key[i]
    BY <2>3, <2>4, <2>6, <2>7, ListedBegins
  <2>9. h \in Groups(key)
    <3>1. Len(h) < Len(key)
      BY <2>3, <2>5, <2>6, NameIs
    <3> QED BY <2>3, <2>5, <2>6, <2>8, <3>1, GroupIs
  <2> QED BY <2>2, <2>6, <2>9 DEF Real
<1> QED BY <1>2, <1>3

\* The first characters of a name with slashes for some of them.
Cut(key, n, at) == [j \in 1 .. n |-> IF j \in at THEN Slash ELSE key[j]]

\* The paths of groups that a name may be listed in, one by one.
LEMMA PathIs ==
  ASSUME NEW keys, NEW key, NEW g
  PROVE  g \in Paths(keys, key) <=>
           \E n \in 0 .. Len(key) :
              \E at \in SUBSET (Slashes(keys) \cap 1 .. n) : g = Cut(key, n, at)
<1>. DEFINE Cuts(n) == {Cut(key, n, at) : at \in SUBSET (Slashes(keys) \cap 1 .. n)}
<1>1. Paths(keys, key) = UNION {Cuts(n) : n \in 0 .. Len(key)}
  BY Zenon DEF Paths, Cut
<1>2. g \in Paths(keys, key) <=> \E n \in 0 .. Len(key) : g \in Cuts(n)
  <2>. HIDE DEF Cuts
  <2> QED BY <1>1
<1> QED BY <1>2

\* The path of a group that is written is one of a name.
LEMMA WrittenType ==
  ASSUME NEW keys \in SUBSET Seq(STRING), NEW g \in Written(keys)
  PROVE  g \in Seq(STRING)
<1>1. PICK key \in keys : g \in Paths(keys, key)
  BY DEF Written
<1>2. Len(key) \in Nat /\ \A i \in 1 .. Len(key) : key[i] \in STRING
  BY NameIs
<1>3. PICK n \in 0 .. Len(key) : \E at \in SUBSET (Slashes(keys) \cap 1 .. n) :
        g = Cut(key, n, at)
  BY <1>1, PathIs
<1>4. PICK at \in SUBSET (Slashes(keys) \cap 1 .. n) :
        g = Cut(key, n, at)
  BY <1>3
<1>5. n \in Nat /\ \A j \in 1 .. n : g[j] \in STRING
  <2>1. ASSUME NEW j \in 1 .. n PROVE g[j] \in STRING
    <3>1. CASE j \in at
      <4>1. PICK k \in keys : j \in DOMAIN k /\ k[j] = Slash
        BY <1>4, <3>1 DEF Slashes
      <4>2. Slash \in STRING
        BY <4>1, NameIs
      <4> QED BY <1>4, <3>1, <4>2 DEF Cut
    <3>2. CASE j \notin at
      <4>1. j \in 1 .. Len(key)
        BY <1>2
      <4> QED BY <1>2, <1>4, <3>2, <4>1 DEF Cut
    <3> QED BY <3>1, <3>2
  <2> QED BY <1>2, <2>1
<1>6. g \in [1 .. n -> STRING]
  BY <1>4, <1>5 DEF Cut
<1> QED BY <1>5, <1>6

\* So a name that is listed in one is in that group.
LEMMA GroupMembers ==
  ASSUME NEW keys \in SUBSET Seq(STRING), ~NamesClash(keys), NEW g \in Written(keys)
  PROVE  /\ g \in Seq(STRING)
         /\ \A k \in keys : Listed(k, g) => g \in Groups(k) \cup {<<>>}
<1>1. g \in Seq(STRING)
  BY WrittenType
<1>2. \A h \in Outer(g) : IsGroup(keys, h)
  BY DEF Written
<1>3. ASSUME NEW k \in keys, Listed(k, g), g # <<>> PROVE g \in Groups(k)
  <2>1. \A h \in Outer(g) : Real(keys, h)
    BY <1>1, <1>2, OuterReal
  <2>2. g \in Outer(g)
    <3>1. Len(g) \in 1 .. Len(g)
      BY <1>1, <1>3, EmptySeq
    <3> QED BY <1>1, <3>1, OuterIs
  <2>3. Slash \notin {g[1], g[Len(g)]}
    BY <1>2, <2>2 DEF IsGroup
  <2>4. Len(g) <= Len(k) /\ \A i \in 1 .. Len(g) : g[i] = k[i]
    BY <1>1, <1>3, <2>1, <2>3, ListedBegins
  <2> QED BY <2>1, <2>2, <2>4, InGroup
<1> QED BY <1>1, <1>3

\* A name is listed in its groups.
LEMMA ListedIn ==
  ASSUME NEW k \in Seq(STRING), NEW g \in Groups(k)
  PROVE  Listed(k, g)
<1>1. /\ g \in Seq(STRING) /\ Len(g) < Len(k) /\ \A i \in 1 .. Len(g) : g[i] = k[i]
  BY GroupIs
<1> QED BY <1>1, NameIs DEF Listed

\* A group that has nothing but well-named options is one by its name, and those
\* that are listed in it are in it.
LEMMA ListedReal ==
  ASSUME NEW keys, \A k \in keys : WellNamed(k), ~NamesClash(keys),
         NEW k \in keys, NEW g \in Groups(k), NEW j \in keys, Listed(j, g)
  PROVE  g \in Groups(j)
<1>1. keys \in SUBSET Seq(STRING)
  BY DEF WellNamed
<1>2. g \in Seq(STRING) /\ g # <<>> /\ Slash \notin {g[1], g[Len(g)]}
  BY <1>1, GroupIs, GroupEnds
<1>3. \A h \in Outer(g) : Real(keys, h)
  BY <1>1, OuterInGroups DEF Real
<1>4. Len(g) <= Len(j) /\ \A i \in 1 .. Len(g) : g[i] = j[i]
  BY <1>1, <1>2, <1>3, ListedBegins
<1> QED BY <1>1, <1>4, InGroup DEF Real

\* A group of a name is written when others are in all groups that it is in.
LEMMA IsWritten ==
  ASSUME NEW keys \in SUBSET Seq(STRING), NEW k \in keys, WellNamed(k), NEW g \in Groups(k),
         \A h \in Outer(g) : \E j \in keys : j # k /\ h \in Groups(j)
  PROVE  g \in Written(keys)
<1>1. Len(k) \in Nat /\ DOMAIN k = 1 .. Len(k)
  BY NameIs
<1>2. /\ g \in Seq(STRING) /\ Len(g) \in Nat /\ Len(g) < Len(k) /\ DOMAIN g = 1 .. Len(g)
      /\ \A i \in 1 .. Len(g) : g[i] = k[i]
  BY GroupIs, NameIs
<1>3. g \in Paths(keys, k)
  <2>1. PICK at : at = {j \in DOMAIN g : g[j] = Slash}
    OBVIOUS
  <2>2. at \in SUBSET (Slashes(keys) \cap 1 .. Len(g))
    <3>1. \A j \in at : j \in DOMAIN k /\ k[j] = Slash
      BY <1>1, <1>2, <2>1
    <3> QED BY <1>2, <2>1, <3>1 DEF Slashes
  <2>4. PICK f : f = Cut(k, Len(g), at)
    OBVIOUS
  <2>5. f = g
    <3>1. \A j \in 1 .. Len(g) : f[j] = g[j]
      BY <1>2, <2>1, <2>4 DEF Cut
    <3>2. g = [j \in 1 .. Len(g) |-> g[j]]
      BY <1>2
    <3> QED BY <2>4, <3>1, <3>2 DEF Cut
  <2>6. Len(g) \in 0 .. Len(k)
    BY <1>1, <1>2
  <2> QED BY <2>2, <2>4, <2>5, <2>6, PathIs, Zenon
<1>4. ASSUME NEW h \in Outer(g) PROVE IsGroup(keys, h)
  <2>1. h \in Groups(k)
    BY <1>2, OuterInGroups
  <2>2. PICK j \in keys : j # k /\ h \in Groups(j)
    BY <1>4
  <2>3. k \in Members(keys, h) /\ j \in Members(keys, h)
    BY <2>1, <2>2, ListedIn DEF Members
  <2>4. Slash \notin {h[1], h[Len(h)]}
    BY <2>1, GroupEnds
  <2>5. Len(k) > Len(h) /\ k[Len(h) + 1] = Slash
    BY <1>1, <2>1, GroupIs, NameIs
  <2> QED BY <2>2, <2>3, <2>4, <2>5 DEF IsGroup
<1> QED BY <1>3, <1>4 DEF Written

\* What is in no group is written, too.
LEMMA NoneIsWritten ==
  ASSUME NEW keys \in SUBSET Seq(STRING), NEW k \in keys
  PROVE  <<>> \in Written(keys)
<1>1. Len(k) \in Nat
  BY NameIs
<1>2. <<>> \in Paths(keys, k)
  <2>1. <<>> = Cut(k, 0, {})
    BY DEF Cut
  <2>2. 0 \in 0 .. Len(k)
    BY <1>1
  <2>3. {} \in SUBSET (Slashes(keys) \cap 1 .. 0)
    OBVIOUS
  <2> QED BY <2>1, <2>2, <2>3, PathIs, Zenon
<1>3. Outer(<<>>) = {}
  BY DEF Outer
<1> QED BY <1>2, <1>3 DEF Written

\* With well-named options, an element stands for one that is in its group.
LEMMA ElementIs ==
  ASSUME NEW map, \A k \in DOMAIN map : WellNamed(k), ~NamesClash(DOMAIN map),
         NEW e \in ToXml(map)
  PROVE  \E k \in DOMAIN map : \E g \in Groups(k) \cup {<<>>} :
            /\ IsItem(DOMAIN map, g, Rest(k, g)) /\ e = Element(map, g, Rest(k, g))
            /\ Path(e.group, e.name) = k
<1>1. DOMAIN map \in SUBSET Seq(STRING)
  BY DEF WellNamed
<1>2. PICK g \in Written(DOMAIN map) : \E k \in Members(DOMAIN map, g) :
        IsItem(DOMAIN map, g, Rest(k, g)) /\ e = Element(map, g, Rest(k, g))
  BY DEF ToXml
<1>3. PICK k \in Members(DOMAIN map, g) :
        IsItem(DOMAIN map, g, Rest(k, g)) /\ e = Element(map, g, Rest(k, g))
  BY <1>2
<1>4. k \in DOMAIN map /\ g \in Groups(k) \cup {<<>>}
  BY <1>1, GroupMembers DEF Members
<1>5. Path(e.group, e.name) = k
  BY <1>3, <1>4, RestIs DEF Element
<1> QED BY <1>3, <1>4, <1>5

\* What is first before a slash in a name.
LEMMA FirstNameIs ==
  ASSUME NEW s \in Seq(STRING), HasSlash(s)
  PROVE  \E n \in 1 .. Len(s) : /\ s[n] = Slash /\ \A i \in 1 .. n - 1 : s[i] # Slash
                                /\ FirstName(s) = SubSeq(s, 1, n - 1)
<1>1. Len(s) \in Nat /\ DOMAIN s = 1 .. Len(s)
  BY NameIs
<1>2. PICK S : S = {i \in 1 .. Len(s) : s[i] = Slash}
  OBVIOUS
<1>3. S \in SUBSET Nat /\ S # {}
  BY <1>1, <1>2 DEF HasSlash
<1>4. PICK m : m = Min(S)
  OBVIOUS
<1>5. m \in S /\ \A i \in S : m <= i
  BY <1>3, <1>4, LeastIs, Zenon
<1>6. SelectInSeq(s, LAMBDA c : c = Slash) = m
  BY <1>2, <1>3, <1>4, Zenon DEF SelectInSeq
<1>7. m \in 1 .. Len(s) /\ s[m] = Slash
  BY <1>2, <1>5
<1>8. ASSUME NEW i \in 1 .. m - 1, s[i] = Slash PROVE FALSE
  <2>1. i \in 1 .. Len(s) /\ ~(m <= i)
    BY <1>1, <1>7
  <2> QED BY <1>2, <1>5, <1>8, <2>1
<1> QED BY <1>6, <1>7, <1>8, Zenon DEF FirstName

\* When no group has a single option and names do not clash, every option is the
\* one element of its name in the last of its groups.
LEMMA ElementOf ==
  ASSUME NEW map, \A k \in DOMAIN map : WellNamed(k), ~LoneGroup(DOMAIN map), NEW k \in DOMAIN map
  PROVE  \E e \in ToXml(map) : Path(e.group, e.name) = k /\ e.value = ValueAt(map, k)
<1>1. DOMAIN map \in SUBSET Seq(STRING) /\ k \in Seq(STRING) /\ Len(k) \in Nat /\ WellNamed(k)
  BY NameIs DEF WellNamed
<1>2. ASSUME NEW g \in (Groups(k) \cap Written(DOMAIN map)) \cup {<<>>}, ~HasSlash(Rest(k, g))
      PROVE  \E e \in ToXml(map) : Path(e.group, e.name) = k /\ e.value = ValueAt(map, k)
  <2>1. g \in Written(DOMAIN map)
    BY <1>1, NoneIsWritten
  <2>2. k \in Members(DOMAIN map, g)
    <3>1. CASE g = <<>>
      BY <1>1, <3>1 DEF Members, Listed
    <3>2. CASE g # <<>>
      BY <1>1, <3>2, ListedIn DEF Members
    <3> QED BY <3>1, <3>2
  <2>3. IsItem(DOMAIN map, g, Rest(k, g))
    BY <1>2 DEF IsItem
  <2>4. Element(map, g, Rest(k, g)) \in ToXml(map)
    BY <2>1, <2>2, <2>3 DEF ToXml
  <2>5. Path(g, Rest(k, g)) = k
    BY <1>1, RestIs
  <2> QED BY <2>4, <2>5 DEF Element
<1>3. CASE ~HasSlash(k)
  <2>1. Rest(k, <<>>) = k
    BY DEF Rest
  <2> QED BY <1>2, <1>3, <2>1
<1>4. CASE HasSlash(k)
  <2>1. PICK n \in 1 .. Len(k) : k[n] = Slash /\ \A i \in n + 1 .. Len(k) : k[i] # Slash
    <3>. DEFINE S == {j \in Nat : \E i \in 1 .. Len(k) : k[i] = Slash /\ j = Len(k) - i}
    <3>1. S # {}
      <4>1. PICK i \in 1 .. Len(k) : k[i] = Slash
        BY <1>1, <1>4, NameIs DEF HasSlash
      <4>2. Len(k) - i \in Nat
        BY <1>1
      <4> QED BY <4>1, <4>2
    <3>2. PICK m \in S : \A j \in S : m <= j
      BY <3>1, Numbers!LeastOfNaturals
    <3>3. PICK n \in 1 .. Len(k) : k[n] = Slash /\ m = Len(k) - n
      OBVIOUS
    <3>4. ASSUME NEW i \in n + 1 .. Len(k), k[i] = Slash PROVE FALSE
      <4>1. i \in 1 .. Len(k) /\ Len(k) - i \in Nat /\ ~(m <= Len(k) - i)
        BY <1>1, <3>3
      <4> QED BY <3>2, <3>4, <4>1
    <3> QED BY <3>3, <3>4
  <2>2. n - 1 \in 0 .. Len(k) /\ n - 1 + 1 = n /\ n - 1 < Len(k)
    BY <1>1
  <2>3. PICK g \in Seq(STRING) : Len(g) = n - 1 /\ \A i \in 1 .. n - 1 : g[i] = k[i]
    BY <1>1, <2>2, CutIs
  <2>4. g \in Groups(k)
    BY <1>1, <2>1, <2>2, <2>3, GroupIs
  <2>5. g \in Written(DOMAIN map)
    <3>1. ASSUME NEW h \in Outer(g) PROVE \E j \in DOMAIN map : j # k /\ h \in Groups(j)
      <4>1. h \in Groups(k)
        BY <1>1, <2>4, OuterInGroups
      <4>2. {j \in DOMAIN map : h \in Groups(j)} # {k}
        BY <4>1 DEF LoneGroup
      <4> QED BY <4>1, <4>2
    <3> QED BY <1>1, <2>4, <3>1, IsWritten
  <2>6. ~HasSlash(Rest(k, g))
    <3>1. g # <<>>
      BY <1>1, <2>4, GroupEnds
    <3>2. PICK r : r = Rest(k, g)
      OBVIOUS
    <3>3. r \in Seq(STRING) /\ Len(r) = Len(k) - Len(g) - 1
          /\ \A i \in 1 .. Len(k) - Len(g) - 1 : r[i] = k[Len(g) + 1 + i]
      BY <1>1, <2>4, <3>1, <3>2, RestIs
    <3>4. ASSUME NEW i \in DOMAIN r, r[i] = Slash PROVE FALSE
      <4>1. i \in 1 .. Len(k) - Len(g) - 1
        BY <3>3, NameIs
      <4>2. Len(g) + 1 + i \in n + 1 .. Len(k)
        BY <1>1, <2>2, <2>3, <4>1
      <4> QED BY <2>1, <3>3, <3>4, <4>1, <4>2
    <3> QED BY <3>2, <3>4 DEF HasSlash
  <2> QED BY <1>2, <2>4, <2>5, <2>6
<1> QED BY <1>3, <1>4

\* What saveProps() takes for the name of a group in one of the groups of an
\* option is the next of its groups.
LEMMA NextGroup ==
  ASSUME NEW k, WellNamed(k), NEW g \in Groups(k) \cup {<<>>}, HasSlash(Rest(k, g))
  PROVE  LET f == Path(g, FirstName(Rest(k, g)))
         IN /\ FirstName(Rest(k, g)) # <<>> /\ f \in Groups(k) /\ Len(g) < Len(f)
            /\ \A h \in Groups(k) : Len(g) < Len(h) => Len(f) <= Len(h)
<1>1. k \in Seq(STRING) /\ Len(k) \in Nat /\ DOMAIN k = 1 .. Len(k) /\ k # <<>>
  BY NameIs DEF WellNamed
<1>2. PICK r : r = Rest(k, g)
  OBVIOUS
<1>3. r \in Seq(STRING) /\ HasSlash(r) /\ Len(r) \in Nat
  BY <1>2, RestIs, NameIs
<1>4. PICK n \in 1 .. Len(r) : /\ r[n] = Slash /\ \A i \in 1 .. n - 1 : r[i] # Slash
                               /\ FirstName(r) = SubSeq(r, 1, n - 1)
  BY <1>3, FirstNameIs
<1>5. PICK m \in Nat : m = n - 1
  BY <1>3
<1>6. PICK f \in Seq(STRING) : f = FirstName(r) /\ Len(f) = m /\ \A i \in 1 .. m : f[i] = r[i]
  <2>1. m \in 0 .. Len(r)
    BY <1>3, <1>5
  <2> QED BY <1>3, <1>4, <1>5, <2>1, CutIs
<1>7. CASE g = <<>>
  <2>1. r = k /\ Path(g, f) = f
    BY <1>2, <1>7 DEF Rest, Path
  <2>2. Len(f) < Len(k) /\ Len(f) + 1 = n
    BY <1>3, <1>5, <1>6, <2>1
  <2>3. f \in Groups(k)
    BY <1>1, <1>4, <1>6, <2>1, <2>2, GroupIs
  <2>4. f # <<>> /\ Len(g) < Len(f)
    BY <1>6, <1>7, <2>3, GroupEnds, EmptySeq
  <2>5. ASSUME NEW h \in Groups(k) PROVE Len(f) <= Len(h)
    <3>1. Len(h) \in Nat /\ Len(h) < Len(k) /\ k[Len(h) + 1] = Slash
      BY <1>1, GroupIs, NameIs
    <3>2. Len(h) + 1 \notin 1 .. n - 1
      BY <1>4, <2>1, <3>1
    <3> QED BY <1>3, <1>5, <1>6, <3>1, <3>2
  <2> QED BY <1>2, <1>6, <2>1, <2>3, <2>4, <2>5, Zenon
<1>8. CASE g # <<>>
  <2>1. /\ g \in Seq(STRING) /\ Len(g) \in Nat /\ Len(g) < Len(k) /\ k[Len(g) + 1] = Slash
        /\ \A i \in 1 .. Len(g) : g[i] = k[i]
    BY <1>1, <1>8, GroupIs, NameIs
  <2>2. PICK l \in Nat : l = Len(g) + 1
    BY <2>1
  <2>3. l \in 1 .. Len(k) /\ Len(r) = Len(k) - l /\ \A i \in 1 .. Len(r) : r[i] = k[l + i]
    <3>1. Len(k) - Len(g) - 1 = Len(k) - l /\ l \in 1 .. Len(k)
      BY <1>1, <2>1, <2>2
    <3>2. /\ Len(r) = Len(k) - Len(g) - 1
          /\ \A i \in 1 .. Len(k) - Len(g) - 1 : r[i] = k[Len(g) + 1 + i]
      BY <1>2, <1>8, RestIs
    <3> QED BY <2>2, <3>1, <3>2
  <2>4. Slash \in STRING
    BY <1>3, <1>4, NameIs
  <2>5. PICK p : p = Path(g, f)
    OBVIOUS
  <2>6. /\ p \in Seq(STRING) /\ Len(p) = l + m /\ \A i \in 1 .. Len(g) : p[i] = g[i]
        /\ p[l] = Slash /\ \A i \in 1 .. m : p[l + i] = f[i]
    <3>1. /\ p \in Seq(STRING) /\ Len(p) = Len(g) + 1 + Len(f) /\ \A i \in 1 .. Len(g) : p[i] = g[i]
          /\ p[Len(g) + 1] = Slash /\ \A i \in 1 .. Len(f) : p[Len(g) + 1 + i] = f[i]
      BY <1>6, <1>8, <2>1, <2>4, <2>5, PathHas, Zenon
    <3>2. l = Len(g) + 1 /\ m = Len(f)
      BY <1>6, <2>2
    <3> QED BY <3>1, <3>2
  <2>7. Len(p) + 1 = l + n /\ Len(p) < Len(k)
    BY <1>1, <1>3, <1>5, <2>2, <2>3, <2>6
  <2>8. k[l + n] = Slash
    BY <1>4, <2>3
  <2>9. ASSUME NEW i \in 1 .. Len(p) PROVE p[i] = k[i]
    <3>1. CASE i \in 1 .. Len(g)
      BY <2>1, <2>6, <3>1
    <3>2. CASE i = l
      BY <2>1, <2>2, <2>6, <3>2
    <3>3. CASE i > l
      <4>1. PICK j : j = i - l
        OBVIOUS
      <4>2. j \in 1 .. m /\ l + j = i
        BY <2>6, <3>3, <4>1
      <4>3. j \in 1 .. Len(r)
        BY <1>3, <1>5, <4>2
      <4> QED BY <1>6, <2>3, <2>6, <4>2, <4>3
    <3>4. i \in 1 .. Len(g) \/ i = l \/ i > l
      BY <2>1, <2>2, <2>6
    <3> QED BY <3>1, <3>2, <3>3, <3>4, Zenon
  <2>10. p \in Groups(k)
    BY <1>1, <2>6, <2>7, <2>8, <2>9, GroupIs
  <2>11. f # <<>>
    <3>1. CASE f = <<>>
      <4>1. m = 0 /\ n = 1
        BY <1>3, <1>5, <1>6, <3>1, EmptySeq
      <4>2. k[l + 1] = Slash
        BY <2>8, <4>1
      <4>3. l \in DOMAIN k /\ k[l] = Slash
        BY <1>1, <2>1, <2>2, <2>3
      <4> QED BY <4>2, <4>3 DEF WellNamed
    <3> QED BY <3>1
  <2>12. Len(g) < Len(p)
    BY <2>2, <2>6
  <2>13. ASSUME NEW h \in Groups(k), Len(g) < Len(h) PROVE Len(p) <= Len(h)
    <3>1. Len(h) \in Nat /\ Len(h) < Len(k) /\ k[Len(h) + 1] = Slash
      BY <1>1, GroupIs, NameIs
    <3>2. PICK i : i = Len(h) - Len(g)
      OBVIOUS
    <3>3. i \in 1 .. Len(r) /\ l + i = Len(h) + 1
      BY <1>1, <2>1, <2>2, <2>3, <2>13, <3>1, <3>2
    <3>4. r[i] = Slash
      BY <2>3, <3>1, <3>3
    <3>5. i \notin 1 .. n - 1
      BY <1>4, <3>4
    <3> QED BY <1>3, <1>5, <2>2, <2>6, <3>1, <3>3, <3>5
  <2> QED BY <1>2, <1>6, <2>5, <2>10, <2>11, <2>12, <2>13, Zenon
<1> QED BY <1>7, <1>8

\* When no group has a single option and names do not clash, the file is XML.
LEMMA WrittenReadable ==
  ASSUME NEW map, \A k \in DOMAIN map : WellNamed(k), ~NamesClash(DOMAIN map),
         ~LoneGroup(DOMAIN map)
  PROVE  Readable(ToXml(map))
<1>1. SUFFICES ASSUME NEW e \in ToXml(map) PROVE e.name # <<>> /\ ~HasSlash(e.name)
  BY DEF Readable
<1>2. PICK k \in DOMAIN map : \E g \in Groups(k) \cup {<<>>} :
        IsItem(DOMAIN map, g, Rest(k, g)) /\ e = Element(map, g, Rest(k, g))
  BY ElementIs
<1>3. PICK g \in Groups(k) \cup {<<>>} :
        IsItem(DOMAIN map, g, Rest(k, g)) /\ e = Element(map, g, Rest(k, g))
  BY <1>2
<1>4. e.name = Rest(k, g) /\ e.name # <<>>
  BY <1>3, RestIs DEF Element
<1>5. ASSUME HasSlash(Rest(k, g)) PROVE FALSE
  <2>1. PICK h : h = Path(g, FirstName(Rest(k, g)))
    OBVIOUS
  <2>2. h \in Groups(k)
    BY <1>5, <2>1, NextGroup
  <2>3. \A key, other \in Members(DOMAIN map, h) : key = other
    BY <1>3, <1>5, <2>1 DEF IsItem
  <2>4. {j \in DOMAIN map : h \in Groups(j)} # {k}
    BY <2>2 DEF LoneGroup
  <2>5. PICK j \in DOMAIN map : h \in Groups(j) /\ j # k
    BY <2>2, <2>4
  <2>6. j \in Members(DOMAIN map, h) /\ k \in Members(DOMAIN map, h)
    BY <2>2, <2>5, ListedIn DEF Members, WellNamed
  <2> QED BY <2>3, <2>5, <2>6
<1> QED BY <1>4, <1>5

\* When names do not clash and a group has a single option, that option is an
\* element with a slash in its name.
LEMMA LoneUnreadable ==
  ASSUME NEW map, \A k \in DOMAIN map : WellNamed(k), ~NamesClash(DOMAIN map),
         LoneGroup(DOMAIN map)
  PROVE  ~Readable(ToXml(map))
<1>1. DOMAIN map \in SUBSET Seq(STRING)
  BY DEF WellNamed
<1>. DEFINE Alone(g, k) == {j \in DOMAIN map : g \in Groups(j)} = {k}
<1>2. PICK k \in DOMAIN map : \E g \in Groups(k) : Alone(g, k)
  BY DEF LoneGroup
<1>3. k \in Seq(STRING) /\ WellNamed(k) /\ Len(k) \in Nat /\ DOMAIN k = 1 .. Len(k)
  BY <1>1, NameIs
<1>4. \A g \in Groups(k) : g \in Seq(STRING) /\ Len(g) \in 1 .. Len(k) - 2 /\ Len(g) \in Nat
  BY <1>3, GroupEnds, GroupIs, NameIs
<1>5. PICK g \in Groups(k) :
        Alone(g, k) /\ \A h \in Groups(k) : Alone(h, k) => Len(g) <= Len(h)
  <2>. DEFINE S == {n \in Nat : \E g \in Groups(k) : n = Len(g) /\ Alone(g, k)}
  <2>. HIDE DEF Alone
  <2>1. S # {}
    BY <1>2, <1>4
  <2>2. PICK m \in S : \A n \in S : m <= n
    BY <2>1, Numbers!LeastOfNaturals
  <2> QED BY <1>4, <2>2
<1>6. PICK p \in Groups(k) \cup {<<>>} :
        Len(p) < Len(g) /\ \A h \in Groups(k) : Len(h) < Len(g) => Len(h) <= Len(p)
  <2>. DEFINE S == {n \in Nat : \E h \in Groups(k) \cup {<<>>} :
                           Len(h) < Len(g) /\ n = Len(g) - Len(h)}
  <2>1. Len(<<>>) = 0
    OBVIOUS
  <2>2. \A h \in Groups(k) \cup {<<>>} : Len(h) \in Nat
    BY <1>4, <2>1
  <2>3. S # {}
    <3>1. Len(g) \in S
      BY <1>4, <2>1
    <3> QED BY <3>1
  <2>4. PICK m \in S : \A n \in S : m <= n
    BY <2>3, Numbers!LeastOfNaturals
  <2>5. PICK p \in Groups(k) \cup {<<>>} : Len(p) < Len(g) /\ m = Len(g) - Len(p)
    OBVIOUS
  <2>6. ASSUME NEW h \in Groups(k), Len(h) < Len(g) PROVE Len(h) <= Len(p)
    <3>1. Len(g) - Len(h) \in S
      BY <1>4, <2>6
    <3>2. m <= Len(g) - Len(h)
      BY <2>4, <3>1
    <3>. HIDE DEF S
    <3> QED BY <1>4, <2>2, <2>5, <3>2
  <2> QED BY <2>5, <2>6
<1>7. p \in Written(DOMAIN map) /\ k \in Members(DOMAIN map, p)
  <2>1. CASE p = <<>>
    BY <1>1, <1>3, <2>1, NoneIsWritten DEF Members, Listed
  <2>2. CASE p # <<>>
    <3>1. ASSUME NEW h \in Outer(p) PROVE \E j \in DOMAIN map : j # k /\ h \in Groups(j)
      <4>1. h \in Groups(k)
        BY <1>3, <1>6, <2>2, OuterInGroups
      <4>2. Len(h) <= Len(p)
        BY <1>4, <1>6, <2>2, OuterIs
      <4>3. ~(Len(g) <= Len(h))
        BY <1>4, <1>6, <2>2, <4>1, <4>2
      <4>4. ~Alone(h, k)
        BY <1>5, <4>1, <4>3
      <4> QED BY <4>1, <4>4
    <3> QED BY <1>1, <1>3, <1>6, <2>2, <3>1, IsWritten, ListedIn DEF Members
  <2> QED BY <2>1, <2>2
<1>8. PICK r : r = Rest(k, p)
  OBVIOUS
<1>9. HasSlash(r)
  <2>1. k[Len(g) + 1] = Slash
    BY <1>3, GroupIs
  <2>2. CASE p = <<>>
    <3>1. Len(g) + 1 \in DOMAIN r /\ r = k
      BY <1>3, <1>4, <1>8, <2>2 DEF Rest
    <3> QED BY <2>1, <3>1 DEF HasSlash
  <2>3. CASE p # <<>>
    <3>1. /\ r \in Seq(STRING) /\ Len(r) = Len(k) - Len(p) - 1
          /\ \A i \in 1 .. Len(k) - Len(p) - 1 : r[i] = k[Len(p) + 1 + i]
      BY <1>3, <1>6, <1>8, <2>3, RestIs
    <3>2. PICK i : i = Len(g) - Len(p)
      OBVIOUS
    <3>3. i \in 1 .. Len(k) - Len(p) - 1 /\ Len(p) + 1 + i = Len(g) + 1
      BY <1>3, <1>4, <1>6, <2>3, <3>2
    <3>4. i \in DOMAIN r /\ r[i] = Slash
      BY <2>1, <3>1, <3>3, NameIs
    <3> QED BY <3>4 DEF HasSlash
  <2> QED BY <2>2, <2>3
<1>10. PICK f : f = Path(p, FirstName(r))
  OBVIOUS
<1>11. /\ FirstName(r) # <<>> /\ f \in Groups(k) /\ Len(p) < Len(f)
       /\ \A h \in Groups(k) : Len(p) < Len(h) => Len(f) <= Len(h)
  BY <1>3, <1>6, <1>8, <1>9, <1>10, NextGroup
<1>12. f = g
  <2>1. Len(f) <= Len(g)
    BY <1>6, <1>11
  <2>2. ~(Len(f) < Len(g))
    <3>1. CASE p = <<>>
      BY <1>4, <1>6, <1>11, <3>1, EmptySeq
    <3>2. CASE p # <<>>
      BY <1>4, <1>6, <1>11, <3>2
    <3> QED BY <3>1, <3>2
  <2>3. Len(f) = Len(g)
    BY <1>4, <1>11, <2>1, <2>2
  <2> QED BY <1>3, <1>11, <2>3, GroupIs, SameName
<1>13. IsItem(DOMAIN map, p, r)
  <2>1. ASSUME NEW key \in Members(DOMAIN map, g) PROVE key = k
    <3>1. key \in DOMAIN map /\ g \in Groups(key)
      BY <2>1, ListedReal DEF Members
    <3> QED BY <1>5, <3>1
  <2>2. \A key, other \in Members(DOMAIN map, f) : key = other
    BY <1>12, <2>1
  <2> QED BY <1>10, <1>11, <2>2 DEF IsItem
<1>14. Element(map, p, r) \in ToXml(map)
  BY <1>7, <1>8, <1>13 DEF ToXml
<1> QED BY <1>9, <1>14 DEF Readable, Element

-----------------------------------------------------------------------------

\* What the file has is named by strings.
LEMMA ElementType ==
  ASSUME NEW map, DOMAIN map \in SUBSET Seq(STRING), NEW e \in ToXml(map)
  PROVE  /\ e.group \in Seq(STRING) /\ e.name \in Seq(STRING)
         /\ Path(e.group, e.name) \in Seq(STRING)
         /\ e.value = ValueAt(map, Path(e.group, e.name))
<1>1. PICK g \in Written(DOMAIN map) :
        \E k \in Members(DOMAIN map, g) : e = Element(map, g, Rest(k, g))
  BY DEF ToXml
<1>2. PICK k \in DOMAIN map : Listed(k, g) /\ e = Element(map, g, Rest(k, g))
  BY <1>1 DEF Members
<1>3. PICK r : r = Rest(k, g)
  OBVIOUS
<1>4. e.group = g /\ e.name = r /\ e.value = ValueAt(map, Path(g, r))
  BY <1>2, <1>3 DEF Element
<1>5. g \in Seq(STRING) /\ k \in Seq(STRING) /\ Len(g) \in Nat /\ Len(k) \in Nat
  BY WrittenType, NameIs
<1>6. r \in Seq(STRING)
  <2>1. CASE g = <<>>
    BY <1>3, <1>5, <2>1 DEF Rest
  <2>2. CASE g # <<>>
    <3>1. \A i \in Len(g) + 2 .. Len(k) : k[i] \in STRING
      BY <1>5, NameIs
    <3>2. SubSeq(k, Len(g) + 2, Len(k)) \in Seq(STRING)
      BY <1>5, <3>1, SubSeqProperties
    <3> QED BY <1>3, <2>2, <3>2 DEF Rest
  <2> QED BY <2>1, <2>2
<1>7. Path(g, r) \in Seq(STRING)
  <2>1. CASE g = <<>>
    BY <1>6, <2>1 DEF Path
  <2>2. CASE g # <<>>
    <3>1. g \in Outer(g)
      <4>1. Len(g) \in 1 .. Len(g)
        BY <1>5, <2>2, EmptySeq
      <4> QED BY <1>5, <4>1, OuterIs
    <3>2. PICK key \in DOMAIN map : Len(key) > Len(g) /\ key[Len(g) + 1] = Slash
      BY <3>1 DEF Written, IsGroup, Members
    <3>3. Slash \in STRING
      <4>1. Len(g) + 1 \in 1 .. Len(key)
        BY <1>5, <3>2, NameIs
      <4> QED BY <3>2, <4>1, NameIs
    <3> QED BY <1>5, <1>6, <2>2, <3>3, PathHas
  <2> QED BY <2>1, <2>2
<1> QED BY <1>4, <1>5, <1>6, <1>7

\* Properties with names of strings, well-named when they have values; invalid ones
\* are there at most when names clash.
Sound(map) ==
  /\ map = [k \in DOMAIN map |-> map[k]]
  /\ \A k \in DOMAIN map : /\ k \in Seq(STRING) /\ map[k] \in Values \cup {Invalid}
                           /\ map[k] # Invalid => WellNamed(k)
  /\ NamesClash(DOMAIN map) \/ \A k \in DOMAIN map : map[k] # Invalid

\* The file is what was saved.
OptionsInv == Sound(props) /\ Sound(saved) /\ file = ToXml(saved)

\* Names that clash do so among others.
LEMMA ClashStays ==
  ASSUME NEW keys, NEW more \in SUBSET keys, NamesClash(more)
  PROVE  NamesClash(keys)
BY DEF NamesClash

LEMMA InitSound == OptionsInit => OptionsInv
<1> SUFFICES ASSUME OptionsInit PROVE OptionsInv
  OBVIOUS
<1>1. DOMAIN props = {} /\ DOMAIN saved = {} /\ props = [k \in DOMAIN props |-> props[k]]
      /\ saved = [k \in DOMAIN saved |-> saved[k]]
  BY DEF OptionsInit
<1>2. Written({}) = {}
  BY DEF Written
<1>3. ToXml(saved) = {}
  BY <1>1, <1>2 DEF ToXml
<1> QED BY <1>1, <1>3 DEF OptionsInv, OptionsInit, Sound

LEMMA SetSound ==
  ASSUME OptionsInv, NEW key \in Names, NEW v \in Values, SetProperty(key, v)
  PROVE  OptionsInv'
<1>1. props' = [k \in DOMAIN props \cup {key} |-> IF k = key THEN v ELSE props[k]] /\ saved' = saved
      /\ file' = file
  BY DEF SetProperty
<1>2. DOMAIN props' = DOMAIN props \cup {key} /\ props'[key] = v
      /\ \A k \in DOMAIN props : k # key => props'[k] = props[k]
  BY <1>1
<1>3. WellNamed(key) /\ v # Invalid /\ key \in Seq(STRING)
  BY OptionsConstants DEF WellNamed
<1>4. NamesClash(DOMAIN props') \/ \A k \in DOMAIN props' : props'[k] # Invalid
  <2>1. CASE NamesClash(DOMAIN props)
    BY <1>2, <2>1, ClashStays
  <2>2. CASE ~NamesClash(DOMAIN props)
    BY <1>2, <1>3, <2>2 DEF OptionsInv, Sound
  <2> QED BY <2>1, <2>2
<1>5. props' = [k \in DOMAIN props' |-> props'[k]]
  BY <1>1
<1>6. \A k \in DOMAIN props' : /\ k \in Seq(STRING) /\ props'[k] \in Values \cup {Invalid}
                               /\ props'[k] # Invalid => WellNamed(k)
  BY <1>2, <1>3 DEF OptionsInv, Sound
<1>7. Sound(props')
  BY <1>4, <1>5, <1>6 DEF Sound
<1> QED BY <1>1, <1>7 DEF OptionsInv

\* Only names that clash make toXml() add properties.
LEMMA SaveKeeps ==
  ASSUME NEW map, Sound(map), ~NamesClash(DOMAIN map)
  PROVE  Indexed(map, ToXml(map)) = map
<1>1. \A k \in DOMAIN map : WellNamed(k)
  BY DEF Sound
<1>2. \A e \in ToXml(map) : Path(e.group, e.name) \in DOMAIN map
  BY <1>1, ElementIs
<1>3. DOMAIN map \cup {Path(e.group, e.name) : e \in ToXml(map)} = DOMAIN map
  BY <1>2
<1>4. Indexed(map, ToXml(map)) = [k \in DOMAIN map |-> map[k]]
  BY <1>3 DEF Indexed
<1> QED BY <1>4 DEF Sound

LEMMA SaveSound ==
  ASSUME OptionsInv, SaveOptions
  PROVE  OptionsInv'
<1>1. file' = ToXml(props) /\ saved' = props /\ props' = Indexed(props, ToXml(props))
  BY DEF SaveOptions
<1>2. CASE ~NamesClash(DOMAIN props)
  BY <1>1, <1>2, SaveKeeps DEF OptionsInv
<1>3. CASE NamesClash(DOMAIN props)
  <2>1. PICK more : more = {Path(e.group, e.name) : e \in ToXml(props)}
    OBVIOUS
  <2>2. more \in SUBSET Seq(STRING)
    BY <2>1, ElementType DEF OptionsInv, Sound
  <2>3. props' = [k \in DOMAIN props \cup more |-> IF k \in DOMAIN props THEN props[k] ELSE Invalid]
    BY <1>1, <2>1 DEF Indexed
  <2>4. DOMAIN props' = DOMAIN props \cup more /\ props' = [k \in DOMAIN props' |-> props'[k]]
    BY <2>3
  <2>5. \A k \in DOMAIN props' : /\ k \in Seq(STRING) /\ props'[k] \in Values \cup {Invalid}
                                 /\ props'[k] # Invalid => WellNamed(k)
    BY <2>2, <2>3, <2>4 DEF OptionsInv, Sound
  <2>6. NamesClash(DOMAIN props')
    BY <1>3, <2>4, ClashStays
  <2> QED BY <1>1, <2>4, <2>5, <2>6 DEF OptionsInv, Sound
<1> QED BY <1>2, <1>3

\* What is read is some of what was saved.
LEMMA ReadIs ==
  ASSUME OptionsInv, NEW p \in Read
  PROVE  p[1] \in DOMAIN saved /\ p[2] = saved[p[1]] /\ saved[p[1]] \in Values
<1>1. PICK e \in ToXml(saved) : e.value # None /\ p = <<Path(e.group, e.name), e.value>>
  BY DEF Read, Loaded, OptionsInv
<1>2. e.value = ValueAt(saved, Path(e.group, e.name))
  BY ElementType DEF OptionsInv, Sound
<1>3. PICK path : path = Path(e.group, e.name)
  OBVIOUS
<1>4. path \in DOMAIN saved /\ saved[path] # Invalid /\ e.value = saved[path]
  BY <1>1, <1>2, <1>3 DEF ValueAt
<1> QED BY <1>1, <1>3, <1>4 DEF OptionsInv, Sound

LEMMA RestartIs ==
  ASSUME OptionsInv, RestartOptions
  PROVE  /\ props' = [k \in DOMAIN props' |-> props'[k]] /\ DOMAIN props' = {p[1] : p \in Read}
         /\ \A k \in DOMAIN props' :
              k \in DOMAIN saved /\ props'[k] = saved[k] /\ saved[k] \in Values
<1>1. props' = [k \in {p[1] : p \in Read} |-> (CHOOSE p \in Read : p[1] = k)[2]]
  BY DEF RestartOptions
<1>2. DOMAIN props' = {p[1] : p \in Read} /\ props' = [k \in DOMAIN props' |-> props'[k]]
  BY <1>1
<1>3. ASSUME NEW k \in DOMAIN props'
      PROVE  k \in DOMAIN saved /\ props'[k] = saved[k] /\ saved[k] \in Values
  <2>1. PICK p : p = CHOOSE q \in Read : q[1] = k
    OBVIOUS
  <2>2. p \in Read /\ p[1] = k
    BY <1>2, <2>1
  <2>3. props'[k] = p[2]
    BY <1>1, <1>2, <2>1
  <2> QED BY <2>2, <2>3, ReadIs
<1> QED BY <1>2, <1>3

LEMMA RestartSound ==
  ASSUME OptionsInv, RestartOptions
  PROVE  OptionsInv'
<1>1. saved' = saved /\ file' = file
  BY DEF RestartOptions
<1>2. Sound(props')
  BY RestartIs, OptionsConstants DEF OptionsInv, Sound
<1> QED BY <1>1, <1>2 DEF OptionsInv

\* What is in the file is what was saved.
THEOREM OptionsInvariant == OptionsSpec => []OptionsInv
<1>1. ASSUME OptionsInv, [OptionsNext]_optionVars PROVE OptionsInv'
  <2>1. ASSUME NEW key \in Names, NEW v \in Values, SetProperty(key, v) PROVE OptionsInv'
    BY <1>1, <2>1, SetSound
  <2>2. CASE SaveOptions
    BY <1>1, <2>2, SaveSound
  <2>3. CASE RestartOptions
    BY <1>1, <2>3, RestartSound
  <2>4. CASE UNCHANGED optionVars
    BY <1>1, <2>4 DEF optionVars, OptionsInv
  <2> QED BY <1>1, <2>1, <2>2, <2>3, <2>4 DEF OptionsNext
<1> QED BY <1>1, InitSound, PTL DEF OptionsSpec

\* The properties have names and values, and so have the elements of the file.
THEOREM OptionsTypes == OptionsSpec => []OptionsTypeOK
<1>1. OptionsInv => OptionsTypeOK
  <2> SUFFICES ASSUME OptionsInv PROVE OptionsTypeOK
    OBVIOUS
  <2>1. \A map \in {props, saved} : \A k \in DOMAIN map :
          k \in Seq(STRING) /\ map[k] \in Values \cup {Invalid}
    BY DEF OptionsInv, Sound
  <2>2. ASSUME NEW e \in file
        PROVE  {e.group, e.name} \subseteq Seq(STRING) /\ e.value \in Values \cup {None}
    <3>1. /\ e.group \in Seq(STRING) /\ e.name \in Seq(STRING)
          /\ e.value = ValueAt(saved, Path(e.group, e.name))
      BY ElementType DEF OptionsInv, Sound
    <3>2. e.value \in Values \cup {None}
      BY <3>1 DEF ValueAt, OptionsInv, Sound
    <3> QED BY <3>1, <3>2
  <2> QED BY <2>1, <2>2 DEF OptionsTypeOK
<1> QED BY <1>1, OptionsInvariant, PTL

\* A program that starts again has no option with another value than was saved;
\* when names do not clash it has all or, with a group of one option, none.
LEMMA StepSurvives ==
  ASSUME OptionsInv, [OptionsNext]_optionVars
  PROVE  /\ RestartOptions =>
              /\ \A k \in DOMAIN props' : k \in DOMAIN saved /\ props'[k] = saved[k]
              /\ NamesClash(DOMAIN saved) \/ LoneGroup(DOMAIN saved) \/ props' = saved
              /\ ~NamesClash(DOMAIN saved) /\ LoneGroup(DOMAIN saved) => props' = <<>>
         /\ ~NamesClash(DOMAIN props) /\ SaveOptions => props' = props
<1>1. ASSUME SaveOptions, ~NamesClash(DOMAIN props) PROVE props' = props
  BY <1>1, SaveKeeps DEF SaveOptions, OptionsInv
<1>2. ASSUME RestartOptions, ~NamesClash(DOMAIN saved), LoneGroup(DOMAIN saved) PROVE props' = <<>>
  <2>1. \A k \in DOMAIN saved : WellNamed(k)
    BY <1>2 DEF OptionsInv, Sound
  <2>2. Read = {}
    BY <1>2, <2>1, LoneUnreadable DEF Read, OptionsInv
  <2>3. DOMAIN props' = {} /\ props' = [k \in DOMAIN props' |-> props'[k]]
    BY <1>2, <2>2, RestartIs
  <2> QED BY <2>3
<1>3. ASSUME RestartOptions, ~NamesClash(DOMAIN saved), ~LoneGroup(DOMAIN saved)
      PROVE  props' = saved
  <2>1. \A k \in DOMAIN saved : WellNamed(k) /\ saved[k] # Invalid /\ saved[k] \in Values
    BY <1>3 DEF OptionsInv, Sound
  <2>2. Read = Loaded(ToXml(saved))
    BY <1>3, <2>1, WrittenReadable DEF Read, OptionsInv
  <2>3. ASSUME NEW k \in DOMAIN saved PROVE k \in DOMAIN props'
    <3>1. PICK e \in ToXml(saved) : Path(e.group, e.name) = k /\ e.value = ValueAt(saved, k)
      BY <1>3, <2>1, ElementOf
    <3>2. e.value # None
      BY <2>1, <3>1, OptionsConstants DEF ValueAt
    <3>3. <<Path(e.group, e.name), e.value>> \in Read
      BY <2>2, <3>2 DEF Loaded
    <3>4. PICK p \in Read : p[1] = k
      BY <3>1, <3>3
    <3> QED BY <1>3, <3>4, RestartIs
  <2>4. DOMAIN props' = DOMAIN saved /\ \A k \in DOMAIN saved : props'[k] = saved[k]
    BY <1>3, <2>3, RestartIs
  <2>5. props' = [k \in DOMAIN props' |-> props'[k]] /\ saved = [k \in DOMAIN saved |-> saved[k]]
    BY <1>3, RestartIs DEF OptionsInv, Sound
  <2> QED BY <2>4, <2>5
<1> QED BY <1>1, <1>2, <1>3, RestartIs

\* Options survive the restart of the program, whatever their names and values.
THEOREM OptionsKept == OptionsSpec => OptionsSurvive
BY OptionsInvariant, StepSurvives, PTL DEF OptionsSpec, OptionsSurvive

-----------------------------------------------------------------------------

Characters == {Letter, Space, Quote, Control, "@", "/"}

\* Where a character is in a string.
Places(s, c) == {i \in 1 .. Len(s) : s[i] = c}

\* indexOf() is the least of the places of the character, or none.
LEMMA FindIs ==
  ASSUME NEW s, NEW c
  PROVE  Find(s, c) = IF Places(s, c) # {} THEN Min(Places(s, c)) ELSE 0
BY Zenon DEF Find, SelectInSeq, Places
\* A character is not found, or found at its first place.
LEMMA FindFirst ==
  ASSUME NEW V, NEW s \in Seq(V), NEW c
  PROVE  /\ Find(s, c) \in 0 .. Len(s)
         /\ Find(s, c) = 0 <=> c \notin ToSet(s)
         /\ Find(s, c) # 0 => s[Find(s, c)] = c /\ \A i \in 1 .. Find(s, c) - 1 : s[i] # c
<1>1. PICK S : S = Places(s, c)
  OBVIOUS
<1>2. /\ \A i : i \in S <=> i \in 1 .. Len(s) /\ s[i] = c
      /\ Len(s) \in Nat /\ S \in SUBSET Nat /\ DOMAIN s = 1 .. Len(s)
  BY <1>1 DEF Places
<1>3. Find(s, c) = IF S # {} THEN Min(S) ELSE 0
  BY <1>1, FindIs, Zenon
<1>4. S = {} <=> c \notin ToSet(s)
  BY <1>2 DEF ToSet
<1>5. CASE S = {}
  BY <1>2, <1>3, <1>4, <1>5
<1>6. CASE S # {}
  <2>1. PICK m : m = Min(S)
    OBVIOUS
  <2>2. m \in S /\ \A n \in S : m <= n
    BY <1>2, <1>6, <2>1, LeastIs, Zenon
  <2>3. m \in 1 .. Len(s) /\ s[m] = c
    BY <1>2, <2>2
  <2>4. \A i \in 1 .. m - 1 : s[i] # c
    <3>1. SUFFICES ASSUME NEW i \in 1 .. m - 1, s[i] = c PROVE FALSE
      OBVIOUS
    <3>2. i \in 1 .. Len(s) /\ i < m
      BY <1>2, <2>3
    <3>3. i \in S
      BY <1>2, <3>1, <3>2
    <3> QED BY <2>2, <2>3, <3>2, <3>3
  <2>5. Find(s, c) = m
    BY <1>3, <1>6, <2>1
  <2> QED BY <1>2, <1>4, <1>6, <2>3, <2>4, <2>5
<1> QED BY <1>5, <1>6

\* What goes before and after a place are strings.
LEMMA PiecesAre ==
  ASSUME NEW V, NEW s \in Seq(V), NEW n \in 0 .. Len(s)
  PROVE  /\ Before(s, n) \in Seq(V) /\ After(s, n) \in Seq(V)
         /\ n # 0 => /\ Len(Before(s, n)) = n - 1
                     /\ \A i \in 1 .. n - 1 : Before(s, n)[i] = s[i]
         /\ n = 0 => Before(s, n) = s /\ After(s, n) = s
         /\ Len(After(s, n)) = Len(s) - n
         /\ \A i \in 1 .. Len(s) - n : After(s, n)[i] = s[n + i]
<1>1. Len(s) \in Nat /\ DOMAIN s = 1 .. Len(s) /\ \A i \in 1 .. Len(s) : s[i] \in V
  BY LenProperties
<1>2. /\ n # 0 => SubSeq(s, 1, n - 1) \in Seq(V)
      /\ SubSeq(s, n + 1, Len(s)) \in Seq(V)
  <2>1. \A m \in 1 .. Len(s) + 1, k \in 0 .. Len(s) : \A i \in m .. k : s[i] \in V
    BY <1>1
  <2> QED BY <1>1, <2>1, SubSeqProperties
<1>3. n # 0 => /\ Len(SubSeq(s, 1, n - 1)) = n - 1
               /\ \A i \in 1 .. n - 1 : SubSeq(s, 1, n - 1)[i] = s[i]
  BY <1>1
<1>4. /\ Len(SubSeq(s, n + 1, Len(s))) = Len(s) - n
      /\ \A i \in 1 .. Len(s) - n : SubSeq(s, n + 1, Len(s))[i] = s[n + i]
  <2>1. \A i \in n + 1 .. Len(s) : s[i] \in V
    BY <1>1
  <2>2. /\ Len(SubSeq(s, n + 1, Len(s))) = IF n + 1 <= Len(s) THEN Len(s) - (n + 1) + 1 ELSE 0
        /\ \A i \in 1 .. Len(s) - (n + 1) + 1 : SubSeq(s, n + 1, Len(s))[i] = s[n + 1 + i - 1]
    BY <1>1, <2>1, SubSeqProperties
  <2>3. /\ Len(s) - (n + 1) + 1 = Len(s) - n
        /\ Len(s) - n = IF n + 1 <= Len(s) THEN Len(s) - (n + 1) + 1 ELSE 0
    <3>1. PICK k \in Nat : k = Len(s)
      BY <1>1
    <3>2. n \in 0 .. k
      BY <3>1
    <3>3. k - (n + 1) + 1 = k - n /\ k - n = IF n + 1 <= k THEN k - (n + 1) + 1 ELSE 0
      BY <3>2
    <3> QED BY <3>1, <3>3, Zenon
  <2>4. Len(SubSeq(s, n + 1, Len(s))) = Len(s) - n
    BY <2>2, <2>3, Zenon
  <2>5. ASSUME NEW i \in 1 .. Len(s) - n PROVE SubSeq(s, n + 1, Len(s))[i] = s[n + i]
    <3>1. n + 1 + i - 1 = n + i
      OBVIOUS
    <3>2. SubSeq(s, n + 1, Len(s))[i] = s[n + 1 + i - 1]
      BY <2>2, <2>3
    <3> QED BY <3>1, <3>2, Zenon
  <2> QED BY <2>4, <2>5
<1>5. SubSeq(s, 1, Len(s)) = s
  OBVIOUS
<1>6. n = 0 => n + 1 = 1
  OBVIOUS
<1> QED BY <1>1, <1>2, <1>3, <1>4, <1>5, <1>6 DEF Before, After

\* A string is taken apart where it was put together.
LEMMA SplitJoined ==
  ASSUME NEW V, NEW a \in Seq(V), NEW b \in Seq(V), NEW c \in V, c \notin ToSet(a)
  PROVE  /\ Find(a \o <<c>> \o b, c) = Len(a) + 1
         /\ Before(a \o <<c>> \o b, Len(a) + 1) = a
         /\ After(a \o <<c>> \o b, Len(a) + 1) = b
<1>1. PICK s : s = a \o <<c>> \o b
  OBVIOUS
<1>2. /\ s \in Seq(V) /\ Len(s) = Len(a) + 1 + Len(b) /\ Len(a) \in Nat /\ Len(b) \in Nat
      /\ \A i \in 1 .. Len(a) : s[i] = a[i]
      /\ s[Len(a) + 1] = c
      /\ \A i \in 1 .. Len(b) : s[Len(a) + 1 + i] = b[i]
  BY <1>1
<1>3. \A i \in 1 .. Len(a) : s[i] # c
  <2>1. \A i \in 1 .. Len(a) : a[i] \in ToSet(a)
    BY DEF ToSet
  <2> QED BY <1>2, <2>1
<1>4. Find(s, c) = Len(a) + 1
  <2>1. PICK m : m = Find(s, c)
    OBVIOUS
  <2>2. c \in ToSet(s)
    BY <1>2 DEF ToSet
  <2>3. m \in 1 .. Len(s) /\ s[m] = c /\ \A i \in 1 .. m - 1 : s[i] # c
    BY <1>2, <2>1, <2>2, FindFirst
  <2>4. ~(m <= Len(a))
    BY <1>2, <1>3, <2>3
  <2>5. ~(m > Len(a) + 1)
    BY <1>2, <2>3
  <2> QED BY <1>2, <2>1, <2>3, <2>4, <2>5
<1>5. PICK n : n = Len(a) + 1
  OBVIOUS
<1>6. s \in Seq(V) /\ n \in 0 .. Len(s) /\ n # 0
  BY <1>2, <1>5
<1>7. Before(s, n) = a
  <2>1. /\ Before(s, n) \in Seq(V) /\ Len(Before(s, n)) = n - 1
        /\ \A i \in 1 .. n - 1 : Before(s, n)[i] = s[i]
    BY <1>6, PiecesAre
  <2>2. Len(Before(s, n)) = Len(a)
    BY <1>2, <1>5, <2>1
  <2>3. \A i \in 1 .. Len(Before(s, n)) : Before(s, n)[i] = a[i]
    BY <1>2, <1>5, <2>1, <2>2
  <2> QED BY <2>1, <2>2, <2>3, SeqEqual, Zenon
<1>8. After(s, n) = b
  <2>1. /\ After(s, n) \in Seq(V) /\ Len(After(s, n)) = Len(s) - n
        /\ \A i \in 1 .. Len(s) - n : After(s, n)[i] = s[n + i]
    BY <1>6, PiecesAre
  <2>2. Len(s) - n = Len(b)
    BY <1>2, <1>5
  <2>3. \A i \in 1 .. Len(After(s, n)) : After(s, n)[i] = b[i]
    BY <1>2, <1>5, <2>1, <2>2
  <2> QED BY <2>1, <2>2, <2>3, SeqEqual, Zenon
<1> QED BY <1>1, <1>2, <1>4, <1>5, <1>7, <1>8

\* Without the character a string is all that stands before it.
LEMMA NotFound ==
  ASSUME NEW V, NEW s \in Seq(V), NEW c, c \notin ToSet(s)
  PROVE  Find(s, c) = 0
BY FindFirst

\* The characters of two strings, and of one with a character between.
LEMMA CharactersOf ==
  ASSUME NEW V, NEW a \in Seq(V), NEW b \in Seq(V), NEW c \in V
  PROVE  ToSet(a \o <<c>> \o b) = ToSet(a) \cup {c} \cup ToSet(b)
<1>1. PICK s : s = a \o <<c>> \o b
  OBVIOUS
<1>2. /\ s \in Seq(V) /\ Len(s) = Len(a) + 1 + Len(b) /\ Len(a) \in Nat /\ Len(b) \in Nat
      /\ \A i \in 1 .. Len(a) : s[i] = a[i]
      /\ s[Len(a) + 1] = c
      /\ \A i \in 1 .. Len(b) : s[Len(a) + 1 + i] = b[i]
      /\ DOMAIN s = 1 .. Len(s) /\ DOMAIN a = 1 .. Len(a) /\ DOMAIN b = 1 .. Len(b)
  BY <1>1
<1>3. ASSUME NEW i \in DOMAIN s PROVE s[i] \in ToSet(a) \cup {c} \cup ToSet(b)
  <2>1. CASE i <= Len(a)
    BY <1>2, <2>1 DEF ToSet
  <2>2. CASE i = Len(a) + 1
    BY <1>2, <2>2
  <2>3. CASE i > Len(a) + 1
    <3>1. PICK j \in 1 .. Len(b) : i = Len(a) + 1 + j
      <4>1. i - Len(a) - 1 \in 1 .. Len(b) /\ i = Len(a) + 1 + (i - Len(a) - 1)
        <5>1. PICK k \in Nat, m \in Nat : k = Len(a) /\ m = Len(b)
          BY <1>2
        <5>2. i \in 1 .. k + 1 + m /\ i > k + 1
          BY <1>2, <2>3, <5>1
        <5>3. i - k - 1 \in 1 .. m /\ i = k + 1 + (i - k - 1)
          BY <5>2
        <5> QED BY <5>1, <5>3
      <4> QED BY <4>1
    <3> QED BY <1>2, <3>1 DEF ToSet
  <2>4. i \in Int /\ Len(a) \in Int
    BY <1>2
  <2> QED BY <2>1, <2>2, <2>3, <2>4
<1>4. ASSUME NEW i \in 1 .. Len(a) PROVE a[i] \in ToSet(s)
  <2>1. i \in DOMAIN s /\ s[i] = a[i]
    BY <1>2
  <2> QED BY <2>1 DEF ToSet
<1>5. c \in ToSet(s)
  BY <1>2 DEF ToSet
<1>6. ASSUME NEW i \in 1 .. Len(b) PROVE b[i] \in ToSet(s)
  <2>1. PICK j \in DOMAIN s : j = Len(a) + 1 + i
    BY <1>2
  <2>2. s[j] = b[i]
    BY <1>2, <2>1
  <2> QED BY <2>1, <2>2 DEF ToSet
<1>7. \A x \in ToSet(s) : x \in ToSet(a) \cup {c} \cup ToSet(b)
  BY <1>3 DEF ToSet
<1>8. \A x \in ToSet(a) \cup {c} \cup ToSet(b) : x \in ToSet(s)
  BY <1>2, <1>4, <1>5, <1>6 DEF ToSet
<1>9. ToSet(s) = ToSet(a) \cup {c} \cup ToSet(b)
  BY <1>7, <1>8
<1> QED BY <1>1, <1>9

-----------------------------------------------------------------------------

\* What set() makes out are strings, and the user and host alone read alike.
LEMMA PartsAre ==
  ASSUME NEW s \in Seq(Characters)
  PROVE  LET p == Parts(s)
         IN /\ p.user \in Seq(Characters) /\ p.host \in Seq(Characters)
            /\ p.userHost \in Seq(Characters) /\ p.resource \in Seq(Characters)
            /\ Parts(p.userHost).user = p.user /\ Parts(p.userHost).host = p.host
<1> DEFINE slash == Find(s, "/")
<1> DEFINE both == Before(s, slash)
<1> DEFINE sign == Find(both, "@")
<1>1. Parts(s) = [user |-> IF sign = 0 THEN <<>> ELSE Before(both, sign),
                  host |-> After(both, sign), userHost |-> both,
                  resource |-> IF slash = 0 THEN <<>> ELSE After(s, slash)]
  BY Zenon DEF Parts
<1>2. slash \in 0 .. Len(s)
  BY FindFirst
<1>3. both \in Seq(Characters) /\ After(s, slash) \in Seq(Characters)
  BY <1>2, PiecesAre
<1>4. sign \in 0 .. Len(both)
  <2> HIDE DEF both
  <2> QED BY <1>3, FindFirst
<1>5. Before(both, sign) \in Seq(Characters) /\ After(both, sign) \in Seq(Characters)
  <2> HIDE DEF both, sign
  <2> QED BY <1>3, <1>4, PiecesAre
<1>6. "/" \notin ToSet(both)
  <2>1. CASE slash = 0
    <3>1. both = s
      BY <1>2, <2>1, PiecesAre
    <3>2. "/" \notin ToSet(s)
      BY <2>1, FindFirst
    <3> HIDE DEF both
    <3> QED BY <3>1, <3>2
  <2>2. CASE slash # 0
    <3>1. /\ Len(both) = slash - 1
          /\ \A i \in 1 .. slash - 1 : both[i] = s[i]
      BY <1>2, <2>2, PiecesAre
    <3>2. \A i \in 1 .. slash - 1 : s[i] # "/"
      BY <2>2, FindFirst
    <3>3. DOMAIN both = 1 .. slash - 1
      <4> HIDE DEF both, slash
      <4> QED BY <1>3, <3>1
    <3> HIDE DEF both, slash
    <3> QED BY <3>1, <3>2, <3>3 DEF ToSet
  <2> QED BY <2>1, <2>2
<1>7. Find(both, "/") = 0
  <2> HIDE DEF both
  <2> QED BY <1>3, <1>6, NotFound
<1>8. Before(both, Find(both, "/")) = both
  BY <1>7, Zenon DEF Before
<1>9. Parts(both).user = (IF sign = 0 THEN <<>> ELSE Before(both, sign))
      /\ Parts(both).host = After(both, sign)
  <2> HIDE DEF both
  <2> QED BY <1>8 DEF Parts
<1>10. <<>> \in Seq(Characters)
  OBVIOUS
<1> HIDE DEF slash, both, sign
<1> QED BY <1>1, <1>3, <1>5, <1>9, <1>10

\* What buildJid() puts together set() takes apart into the same parts.
LEMMA BuiltReads ==
  ASSUME NEW u \in Seq(Characters), UserOK(u), NEW h \in Seq(Characters), HostOK(h),
         NEW r \in Seq(Characters)
  PROVE  /\ Parts(Built(u, h, r)).user = u /\ Parts(Built(u, h, r)).host = h
         /\ Parts(Built(u, h, r)).resource = r
<1>1. PICK b : b = IF u = <<>> THEN h ELSE u \o <<"@">> \o h
  OBVIOUS
<1>2. ToSet(u) \subseteq {Letter} /\ ToSet(h) \subseteq {Letter}
      /\ "@" \in Characters /\ "/" \in Characters
  BY DEF UserOK, HostOK, Characters
<1>3. Letter # "@" /\ Letter # "/"
  BY DEF Letter
<1>4. b \in Seq(Characters) /\ "/" \notin ToSet(b)
  <2>1. CASE u = <<>>
    BY <1>1, <1>2, <1>3, <2>1
  <2>2. CASE u # <<>>
    <3>1. b = u \o <<"@">> \o h
      BY <1>1, <2>2
    <3>2. ToSet(b) = ToSet(u) \cup {"@"} \cup ToSet(h)
      <4>1. ToSet(u \o <<"@">> \o h) = ToSet(u) \cup {"@"} \cup ToSet(h)
        BY <1>2, CharactersOf
      <4> QED BY <3>1, <4>1
    <3>3. b \in Seq(Characters)
      BY <1>2, <3>1
    <3> QED BY <1>2, <1>3, <3>2, <3>3
  <2> QED BY <2>1, <2>2
<1>5. PICK m : m = Find(b, "@")
  OBVIOUS
<1>6. (IF m = 0 THEN <<>> ELSE Before(b, m)) = u /\ After(b, m) = h
  <2>1. CASE u = <<>>
    <3>1. b = h
      BY <1>1, <2>1
    <3>2. m = 0
      BY <1>2, <1>3, <1>5, <3>1, NotFound
    <3>3. After(b, 0) = h
      BY <3>1, PiecesAre
    <3> QED BY <2>1, <3>2, <3>3
  <2>2. CASE u # <<>>
    <3>1. b = u \o <<"@">> \o h
      BY <1>1, <2>2
    <3>2. "@" \notin ToSet(u)
      BY <1>2, <1>3
    <3>3. /\ Find(b, "@") = Len(u) + 1
          /\ Before(b, Len(u) + 1) = u /\ After(b, Len(u) + 1) = h
      BY <1>2, <3>1, <3>2, SplitJoined
    <3>4. Len(u) + 1 # 0
      BY LenProperties
    <3> QED BY <1>5, <3>3, <3>4
  <2> QED BY <2>1, <2>2
<1>7. PICK f : f = Built(u, h, r)
  OBVIOUS
<1>8. PICK n : n = Find(f, "/")
  OBVIOUS
<1>9. Before(f, n) = b /\ (IF n = 0 THEN <<>> ELSE After(f, n)) = r
  <2>0. Built(u, h, r) = b \o IF r = <<>> THEN <<>> ELSE <<"/">> \o r
    <3>1. CASE u = <<>>
      BY <1>1, <3>1 DEF Built
    <3>2. CASE u # <<>>
      BY <1>1, <3>2 DEF Built
    <3> QED BY <3>1, <3>2
  <2>1. CASE r = <<>>
    <3>1. f = b
      BY <1>4, <1>7, <2>0, <2>1
    <3>2. n = 0
      BY <1>4, <1>8, <3>1, NotFound
    <3>3. Before(b, 0) = b
      BY <1>4 DEF Before
    <3> QED BY <2>1, <3>1, <3>2, <3>3
  <2>2. CASE r # <<>>
    <3>1. f = b \o <<"/">> \o r
      BY <1>2, <1>4, <1>7, <2>0, <2>2
    <3>2. /\ Find(f, "/") = Len(b) + 1
          /\ Before(f, Len(b) + 1) = b /\ After(f, Len(b) + 1) = r
      BY <1>2, <1>4, <3>1, SplitJoined
    <3>3. Len(b) + 1 # 0
      BY <1>4, LenProperties
    <3> QED BY <1>8, <3>2, <3>3
  <2> QED BY <2>1, <2>2
<1>10. /\ Parts(f).user = IF m = 0 THEN <<>> ELSE Before(b, m)
       /\ Parts(f).host = After(b, m)
       /\ Parts(f).resource = IF n = 0 THEN <<>> ELSE After(f, n)
  BY <1>5, <1>8, <1>9 DEF Parts
<1> QED BY <1>6, <1>7, <1>9, <1>10

-----------------------------------------------------------------------------

\* The parts are strings; those of an address were built into full, and user and
\* host are read from them alone.
JidInv ==
  /\ user \in Seq(Characters) /\ host \in Seq(Characters)
  /\ userHost \in Seq(Characters) /\ resource \in Seq(Characters)
  /\ JidTypeOK
  /\ host # <<>> => /\ full = Built(user, host, resource)
                    /\ Parts(userHost).user = user /\ Parts(userHost).host = host

\* A step of the address keeps the invariant, and so does doing nothing.
LEMMA StepJid ==
  ASSUME JidInv, [JidNext]_jidVars
  PROVE  JidInv'
<1>1. ASSUME NEW s \in Strings, SetAddress(s) PROVE JidInv'
  <2>1. s \in Seq(Characters)
    BY JidConstants DEF Characters
  <2>2. PICK p : p = Parts(s)
    OBVIOUS
  <2>3. /\ p.user \in Seq(Characters) /\ p.host \in Seq(Characters)
        /\ p.userHost \in Seq(Characters) /\ p.resource \in Seq(Characters)
        /\ Parts(p.userHost).user = p.user /\ Parts(p.userHost).host = p.host
    BY <2>1, <2>2, PartsAre, Zenon
  <2>4. UserOK(p.user) /\ HostOK(p.host)
    BY <1>1, <2>2 DEF SetAddress, IsAddress
  <2>5. /\ user' = p.user /\ host' = p.host /\ userHost' = p.userHost /\ resource' = p.resource
        /\ full' = Built(user', host', resource') /\ valid' = TRUE
    BY <1>1, <2>2 DEF SetAddress
  <2>6. UserOK(user)' /\ HostOK(host)'
    BY <2>4, <2>5 DEF UserOK, HostOK
  <2> QED BY <2>3, <2>5, <2>6 DEF JidInv, JidTypeOK
<1>2. ASSUME NEW s \in Strings, SetOther(s) PROVE JidInv'
  BY <1>2 DEF SetOther, JidInv, JidTypeOK
<1>3. ASSUME NEW r \in Resources, SetResource(r) PROVE JidInv'
  <2>1. r \in Seq(Characters)
    BY JidConstants DEF Characters
  <2> QED BY <1>3, <2>1 DEF SetResource, JidInv, JidTypeOK
<1>4. CASE UNCHANGED jidVars
  BY <1>4 DEF jidVars, JidInv, JidTypeOK
<1> QED BY <1>1, <1>2, <1>3, <1>4 DEF JidNext

\* full() is built of the parts and userHost() reads back as user and host, in
\* every behaviour (Jid::set, Jid::update).
THEOREM JidInvariant == JidSpec => []JidInv
<1>1. JidInit => JidInv
  <2>1. <<>> \in Seq(Characters)
    OBVIOUS
  <2>2. UserOK(<<>>)
    <3>1. ToSet(<<>>) = {}
      BY DEF ToSet
    <3>2. Len(<<>>) <= Upper
      BY JidConstants
    <3> QED BY <3>1, <3>2 DEF UserOK
  <2> QED BY <2>1, <2>2 DEF JidInit, JidInv, JidTypeOK
<1> QED BY <1>1, StepJid, PTL DEF JidSpec

\* Parsing the full text of a valid address gives its parts again (Jid::full,
\* Jid::set).
THEOREM JidReadsBack == JidSpec => []FullReadsBack
<1>1. JidInv => FullReadsBack
  <2>1. SUFFICES ASSUME JidInv, host # <<>> PROVE FullReadsBack
    BY DEF FullReadsBack
  <2>2. /\ user \in Seq(Characters) /\ UserOK(user) /\ host \in Seq(Characters) /\ HostOK(host)
        /\ resource \in Seq(Characters) /\ full = Built(user, host, resource)
        /\ Parts(userHost).user = user /\ Parts(userHost).host = host
    BY <2>1 DEF JidInv, JidTypeOK
  <2>3. Parts(full).user = user /\ Parts(full).host = host /\ Parts(full).resource = resource
    BY <2>2, BuiltReads
  <2>4. IsAddress(full) <=> ResourceOK(resource)
    BY <2>2, <2>3 DEF IsAddress
  <2> QED BY <2>2, <2>3, <2>4 DEF FullReadsBack
<1> QED BY <1>1, JidInvariant, PTL

-----------------------------------------------------------------------------

\* The agent of a vCard has come to it by an assignment, which leaves out the URL.
AgentFields == {f \in CardFields : f.url = ""}
VCards == {c \in Seq(CardFields) : Len(c) # 0 /\ \A i \in 2 .. Len(c) : c[i] \in AgentFields}

CardInv == card \in VCards

\* A new vCard has the fields of one.
LEMMA BlankFields == BlankCard \in CardFields /\ BlankCard \in AgentFields
<1>1. BlankCard \in CardFields
  BY CardConstants, EmptySeq DEF BlankCard, CardFields
<1>2. BlankCard.url = ""
  BY DEF BlankCard
<1> QED BY <1>1, <1>2 DEF AgentFields

\* Agents have fields of vCards.
LEMMA AgentsAreFields == AgentFields \subseteq CardFields
BY DEF AgentFields

\* Another URL, or none, leaves the rest of the fields.
LEMMA OtherURL ==
  ASSUME NEW f \in CardFields, NEW u \in CardTexts
  PROVE  /\ [f EXCEPT !.url = u] \in CardFields /\ [f EXCEPT !.url = u].url = u
         /\ [f EXCEPT !.url = ""] \in AgentFields
<1>1. [f EXCEPT !.url = u] \in CardFields /\ [f EXCEPT !.url = u].url = u
  BY DEF CardFields
<1>2. [f EXCEPT !.url = ""] \in CardFields /\ [f EXCEPT !.url = ""].url = ""
  BY CardConstants DEF CardFields
<1> QED BY <1>1, <1>2 DEF AgentFields

\* What a sequence of vCards has in it.
LEMMA CardParts ==
  ASSUME NEW c \in VCards
  PROVE  /\ c \in Seq(CardFields) /\ Len(c) \in Nat \ {0} /\ DOMAIN c = 1 .. Len(c)
         /\ \A i \in 1 .. Len(c) : c[i] \in CardFields
         /\ \A i \in 2 .. Len(c) : c[i] \in AgentFields
         /\ c[1] \in CardFields
<1>1. c \in Seq(CardFields) /\ Len(c) # 0 /\ \A i \in 2 .. Len(c) : c[i] \in AgentFields
  BY DEF VCards
<1>2. Len(c) \in Nat \ {0} /\ DOMAIN c = 1 .. Len(c) /\ \A i \in 1 .. Len(c) : c[i] \in CardFields
  BY <1>1
<1>3. 1 \in 1 .. Len(c)
  BY <1>2
<1> QED BY <1>1, <1>2, <1>3, Zenon

\* A single vCard is one.
LEMMA SingleIsCard ==
  ASSUME NEW f \in CardFields
  PROVE  <<f>> \in VCards
BY DEF VCards

\* The agents after a vCard: those that its agent has, and before them itself.
LEMMA AgentsAre ==
  ASSUME NEW c \in VCards
  PROVE  Tail(c) \in Seq(AgentFields) /\ Len(Tail(c)) = Len(c) - 1
<1>1. PICK t : t = Tail(c)
  OBVIOUS
<1>2. c \in Seq(CardFields) /\ Len(c) \in Nat \ {0}
  BY CardParts
<1>3. c # <<>>
  BY <1>2, EmptySeq
<1>4. t \in Seq(CardFields) /\ Len(t) = Len(c) - 1 /\ \A i \in 1 .. Len(t) : t[i] = c[i + 1]
  BY <1>1, <1>2, <1>3, HeadTailProperties
<1>5. ASSUME NEW i \in 1 .. Len(t) PROVE t[i] \in AgentFields
  <2>1. i + 1 \in 2 .. Len(c) /\ t[i] = c[i + 1]
    BY <1>2, <1>4
  <2> QED BY <2>1, CardParts
<1>6. t \in Seq(AgentFields)
  BY <1>2, <1>4, <1>5
<1> QED BY <1>1, <1>4, <1>6

\* A sequence of agents is a vCard with agents.
LEMMA AgentIsCard ==
  ASSUME NEW t \in Seq(AgentFields), Len(t) # 0
  PROVE  t \in VCards /\ t[1].url = ""
<1>1. t \in Seq(CardFields)
  BY AgentsAreFields, SeqMonotonic
<1>2. Len(t) \in Nat /\ \A i \in 1 .. Len(t) : t[i] \in AgentFields
  OBVIOUS
<1>3. t[1] \in AgentFields /\ \A i \in 2 .. Len(t) : t[i] \in AgentFields
  BY <1>2
<1> QED BY <1>1, <1>3 DEF VCards, AgentFields

\* A vCard and agents after it are one.
LEMMA JoinIsCard ==
  ASSUME NEW c \in VCards, NEW t \in Seq(AgentFields)
  PROVE  c \o t \in VCards /\ (c \o t)[1] = c[1]
<1>1. c \in Seq(CardFields) /\ t \in Seq(CardFields) /\ Len(c) \in Nat \ {0} /\ Len(t) \in Nat
  BY CardParts, LenProperties, AgentsAreFields, SeqMonotonic
<1>2. PICK r : r = c \o t
  OBVIOUS
<1>3. /\ r \in Seq(CardFields) /\ Len(r) = Len(c) + Len(t)
      /\ \A i \in 1 .. Len(c) + Len(t) : r[i] = IF i <= Len(c) THEN c[i] ELSE t[i - Len(c)]
  BY <1>1, <1>2, ConcatProperties
<1>4. ASSUME NEW i \in 2 .. Len(r) PROVE r[i] \in AgentFields
  <2>1. CASE i <= Len(c)
    <3>1. i \in 2 .. Len(c) /\ r[i] = c[i]
      BY <1>1, <1>3, <2>1
    <3> QED BY <3>1, CardParts
  <2>2. CASE i > Len(c)
    <3>1. i - Len(c) \in 1 .. Len(t) /\ r[i] = t[i - Len(c)]
      BY <1>1, <1>3, <2>2
    <3> QED BY <3>1
  <2>3. i <= Len(c) \/ i > Len(c)
    BY <1>1
  <2> QED BY <2>1, <2>2, <2>3
<1>5. r[1] = c[1] /\ Len(r) # 0
  BY <1>1, <1>3
<1>6. r \in VCards
  BY <1>3, <1>4, <1>5 DEF VCards
<1> QED BY <1>2, <1>5, <1>6

\* An assignment gives a vCard with the URL of before.
LEMMA AssignedIs ==
  ASSUME NEW a \in VCards, NEW b \in VCards
  PROVE  Assigned(a, b) \in VCards /\ Assigned(a, b)[1].url = a[1].url
<1>1. PICK h : h = [i \in DOMAIN b |-> [b[i] EXCEPT !.url = IF i = 1 THEN a[1].url ELSE ""]]
  OBVIOUS
<1>2. PICK u : u = a[1].url
  OBVIOUS
<1>3. u \in CardTexts /\ Len(b) \in Nat \ {0} /\ DOMAIN b = 1 .. Len(b)
  <2>1. a[1] \in CardFields
    BY CardParts
  <2>2. u \in CardTexts
    BY <1>2, <2>1 DEF CardFields
  <2> QED BY <2>2, CardParts
<1>4. h[1] \in CardFields /\ h[1].url = u
  <2>1. 1 \in DOMAIN b
    BY <1>3
  <2>2. h[1] = [b[1] EXCEPT !.url = u]
    BY <1>1, <1>2, <2>1
  <2>3. b[1] \in CardFields
    BY CardParts
  <2>4. [b[1] EXCEPT !.url = u] \in CardFields /\ [b[1] EXCEPT !.url = u].url = u
    BY <1>3, <2>3, OtherURL, Zenon
  <2> QED BY <2>2, <2>4, Zenon
<1>5. ASSUME NEW i \in 2 .. Len(b) PROVE h[i] \in AgentFields
  <2>1. i \in DOMAIN b /\ i # 1 /\ i \in 1 .. Len(b)
    BY <1>3
  <2>2. h[i] = [b[i] EXCEPT !.url = ""]
    BY <1>1, <2>1
  <2>3. b[i] \in CardFields
    BY <2>1, CardParts
  <2> QED BY <1>3, <2>2, <2>3, OtherURL
<1>6. h \in VCards /\ h[1].url = u
  <2>1. ASSUME NEW i \in 1 .. Len(b) PROVE h[i] \in CardFields
    <3>1. i = 1 \/ i \in 2 .. Len(b)
      BY <1>3
    <3> QED BY <1>4, <1>5, <3>1, AgentsAreFields
  <2>2. h \in [1 .. Len(b) -> CardFields]
    BY <1>1, <1>3, <2>1
  <2>3. h \in Seq(CardFields) /\ Len(h) = Len(b)
    BY <1>3, <2>2
  <2>4. h \in VCards
    BY <1>3, <1>5, <2>3 DEF VCards
  <2> QED BY <1>4, <2>4
<1>7. PICK t : t = IF HasAgent(b) THEN <<>> ELSE Agent(a)
  OBVIOUS
<1>8. t \in Seq(AgentFields)
  BY <1>7, AgentsAre, EmptySeq DEF Agent
<1>9. h \o t \in VCards /\ (h \o t)[1] = h[1]
  BY <1>6, <1>8, JoinIsCard
<1>10. Assigned(a, b) = h \o t
  BY <1>1, <1>7, Zenon DEF Assigned
<1> QED BY <1>2, <1>6, <1>9, <1>10

\* So does giving it an agent.
LEMMA WithAgentIs ==
  ASSUME NEW c \in VCards, NEW a \in VCards
  PROVE  WithAgent(c, a) \in VCards
<1>1. PICK t : t = IF HasAgent(c) THEN Agent(c) ELSE <<BlankCard>>
  OBVIOUS
<1>2. t \in Seq(AgentFields) /\ Len(t) # 0
  <2>1. CASE HasAgent(c)
    <3>1. Len(c) \in Nat /\ Len(c) > 1
      BY <2>1, CardParts DEF HasAgent
    <3> QED BY <1>1, <2>1, <3>1, AgentsAre DEF Agent
  <2>2. CASE ~HasAgent(c)
    BY <1>1, <2>2, BlankFields
  <2> QED BY <2>1, <2>2
<1>3. PICK r : r = Assigned(t, a)
  OBVIOUS
<1>4. r \in VCards /\ r[1].url = ""
  BY <1>2, <1>3, AgentIsCard, AssignedIs
<1>5. r \in Seq(AgentFields)
  <2>1. r \in Seq(CardFields) /\ Len(r) \in Nat /\ r[1] \in CardFields
    BY <1>4, CardParts
  <2>2. ASSUME NEW i \in 1 .. Len(r) PROVE r[i] \in AgentFields
    <3>1. i = 1 \/ i \in 2 .. Len(r)
      BY <2>1
    <3>2. r[1] \in AgentFields
      BY <1>4, <2>1 DEF AgentFields
    <3> QED BY <1>4, <3>1, <3>2, CardParts
  <2> QED BY <2>1, <2>2
<1>6. <<c[1]>> \in VCards
  BY CardParts, SingleIsCard
<1>7. <<c[1]>> \o r \in VCards
  BY <1>5, <1>6, JoinIsCard
<1> QED BY <1>1, <1>3, <1>7, Zenon DEF WithAgent

\* What a vCard writes for one of its fields.
Elements ==
  [fullName : CardTexts, familyName : CardTexts, suffixName : CardTexts, url : CardTexts,
   entries : Seq(CardEntries), photo : CardTexts, photoURI : CardTexts, sound : CardTexts,
   soundURI : CardTexts, soundPhonetic : CardTexts, agentURI : CardTexts \cup {NoElement},
   privacyClass : CardTexts, key : CardTexts]

\* The fields of a vCard written, with u for the agent's URI.
FieldsWritten(f, u) == [SoundWritten(PictureWritten(f)) EXCEPT !.key = AsText(@), !.agentURI = u]

\* The fields by name.
LEMMA FieldNames == DOMAIN BlankCard =
  {"fullName", "familyName", "suffixName", "url", "entries", "photo", "photoURI", "sound",
   "soundURI", "soundPhonetic", "agentURI", "privacyClass", "key"}
BY DEF BlankCard

\* What toXml() writes for the fields of a vCard: the data of a picture or else its
\* URI, of a sound the data, the URI or the pronunciation, a key as text.
LEMMA WrittenFields ==
  ASSUME NEW f \in CardFields, NEW u \in CardTexts \cup {NoElement}
  PROVE  /\ FieldsWritten(f, u) \in Elements
         /\ FieldsWritten(f, u).fullName = f.fullName /\ FieldsWritten(f, u).familyName = f.familyName
         /\ FieldsWritten(f, u).suffixName = f.suffixName /\ FieldsWritten(f, u).url = f.url
         /\ FieldsWritten(f, u).entries = f.entries /\ FieldsWritten(f, u).photo = f.photo
         /\ FieldsWritten(f, u).photoURI = IF f.photo = "" THEN f.photoURI ELSE ""
         /\ FieldsWritten(f, u).sound = f.sound
         /\ FieldsWritten(f, u).soundURI = IF f.sound = "" THEN f.soundURI ELSE ""
         /\ FieldsWritten(f, u).soundPhonetic =
              IF f.sound = "" /\ f.soundURI = "" THEN f.soundPhonetic ELSE ""
         /\ FieldsWritten(f, u).agentURI = u /\ FieldsWritten(f, u).privacyClass = f.privacyClass
         /\ FieldsWritten(f, u).key = AsText(f.key)
<1>1. "" \in CardTexts /\ "mangled" \in CardTexts
  BY CardConstants
<1>2. PICK p : p = PictureWritten(f)
  OBVIOUS
<1>3. p \in CardFields /\ p = [f EXCEPT !.photoURI = IF f.photo = "" THEN f.photoURI ELSE ""]
  BY <1>1, <1>2 DEF PictureWritten, CardFields
<1>4. PICK s : s = SoundWritten(p)
  OBVIOUS
<1>5. /\ s \in CardFields
      /\ s = [p EXCEPT !.soundURI = IF p.sound = "" THEN p.soundURI ELSE "",
            !.soundPhonetic = IF p.sound = "" /\ p.soundURI = "" THEN p.soundPhonetic ELSE ""]
  <2>1. s = [p EXCEPT !.soundURI = IF p.sound = "" THEN p.soundURI ELSE "",
             !.soundPhonetic = IF p.sound = "" /\ p.soundURI = "" THEN p.soundPhonetic ELSE ""]
    BY <1>4, Zenon DEF SoundWritten
  <2>2. p \in CardFields
    BY <1>3
  <2>3. p.soundURI \in CardTexts /\ p.soundPhonetic \in CardTexts
    BY <2>2 DEF CardFields
  <2>4. ASSUME NEW v \in CardTexts, NEW w \in CardTexts
        PROVE  [p EXCEPT !.soundURI = v, !.soundPhonetic = w] \in CardFields
    BY <2>2 DEF CardFields
  <2>5. PICK v \in CardTexts : v = IF p.sound = "" THEN p.soundURI ELSE ""
    BY <1>1, <2>3
  <2>6. PICK w \in CardTexts : w = IF p.sound = "" /\ p.soundURI = "" THEN p.soundPhonetic ELSE ""
    BY <1>1, <2>3
  <2>7. s = [p EXCEPT !.soundURI = v, !.soundPhonetic = w]
    BY <2>1, <2>5, <2>6
  <2>8. s \in CardFields
    BY <2>4, <2>7, Zenon
  <2> QED BY <2>1, <2>8, Zenon
<1>6. PICK k : k = AsText(s.key)
  OBVIOUS
<1>7. k \in CardTexts
  BY <1>1, <1>5, <1>6 DEF AsText, CardFields
<1>8. PICK w : w = FieldsWritten(f, u)
  OBVIOUS
<1>9. w = [s EXCEPT !.key = k, !.agentURI = u]
  BY <1>2, <1>4, <1>6, <1>8 DEF FieldsWritten
<1>10. w \in Elements
  <2>1. PICK v : v = [s EXCEPT !.key = k]
    OBVIOUS
  <2>2. v \in CardFields
    <3>1. s \in CardFields
      BY <1>5
    <3> QED BY <1>7, <2>1, <3>1 DEF CardFields
  <2>3. w = [v EXCEPT !.agentURI = u]
    BY <1>5, <1>9, <2>1 DEF CardFields
  <2>4. u \in CardTexts \cup {NoElement}
    OBVIOUS
  <2> QED BY <2>2, <2>3, <2>4 DEF CardFields, Elements
<1>11. s.key = f.key
  BY <1>3, <1>5 DEF CardFields
<1>12. /\ w.fullName = f.fullName /\ w.familyName = f.familyName
       /\ w.suffixName = f.suffixName /\ w.url = f.url
       /\ w.entries = f.entries /\ w.privacyClass = f.privacyClass
  BY <1>3, <1>5, <1>9 DEF CardFields
<1>13. /\ w.photo = f.photo /\ w.agentURI = u /\ w.key = AsText(f.key)
       /\ w.photoURI = IF f.photo = "" THEN f.photoURI ELSE ""
  BY <1>3, <1>5, <1>6, <1>9, <1>11 DEF CardFields
<1>14. /\ w.sound = f.sound
       /\ w.soundURI = IF f.sound = "" THEN f.soundURI ELSE ""
       /\ w.soundPhonetic =
              IF f.sound = "" /\ f.soundURI = "" THEN f.soundPhonetic ELSE ""
  BY <1>3, <1>5, <1>9 DEF CardFields
<1> QED BY <1>8, <1>10, <1>12, <1>13, <1>14

\* fromXml() over the fields of a vCard gives fields of one.
LEMMA FieldsAre ==
  ASSUME NEW c \in CardFields, NEW e \in Elements
  PROVE  /\ FieldsFromXml(c, e) \in CardFields
         /\ FieldsFromXml(c, e).url = Over(c.url, e.url)
<1>1. PICK r : r = FieldsFromXml(c, e)
  OBVIOUS
<1>2. PICK g : g =
        LET Group(names) == IF \E f \in names : e[f] # "" THEN names ELSE {}
        IN Group({"familyName", "suffixName"}) \cup Group({"photo", "photoURI"})
                    \cup Group({"sound", "soundURI", "soundPhonetic"})
                    \cup (IF e.agentURI = NoElement THEN {} ELSE {"agentURI"})
  OBVIOUS
<1>3. r = [f \in DOMAIN BlankCard |->
        CASE f \in g -> e[f]
          [] f = "entries" -> c[f] \o e[f]
          [] f \in {"fullName", "url", "privacyClass", "key"} -> Over(c[f], e[f])
          [] OTHER -> c[f]]
  BY <1>1, <1>2, Zenon DEF FieldsFromXml
<1>4. g \subseteq {"familyName", "suffixName", "photo", "photoURI", "sound", "soundURI",
           "soundPhonetic", "agentURI"}
  BY <1>2
<1>5. "agentURI" \in g => e.agentURI # NoElement
  BY <1>2
<1>6. r.entries \in Seq(CardEntries) /\ r.url = Over(c.url, e.url)
  <2>1. r.entries = c.entries \o e.entries /\ r.url = Over(c.url, e.url)
    BY <1>3, <1>4, FieldNames
  <2> QED BY <2>1 DEF CardFields, Elements
<1>7. r.fullName \in CardTexts /\ r.url \in CardTexts /\ r.privacyClass \in CardTexts /\ r.key \in CardTexts
  <2>1. /\ r.fullName = Over(c.fullName, e.fullName) /\ r.url = Over(c.url, e.url)
        /\ r.privacyClass = Over(c.privacyClass, e.privacyClass) /\ r.key = Over(c.key, e.key)
    BY <1>3, <1>4, FieldNames
  <2> QED BY <2>1 DEF CardFields, Elements, Over
<1>8. ASSUME NEW f \in {"familyName", "suffixName", "photo", "photoURI", "sound", "soundURI",
           "soundPhonetic", "agentURI"}
     PROVE r[f] \in CardTexts
  <2>1. r[f] = IF f \in g THEN e[f] ELSE c[f]
    BY <1>3, FieldNames
  <2>2. c[f] \in CardTexts /\ (f # "agentURI" \/ e.agentURI # NoElement => e[f] \in CardTexts)
    BY DEF CardFields, Elements
  <2> QED BY <1>5, <2>1, <2>2
<1>9. r \in CardFields
  BY <1>3, <1>6, <1>7, <1>8, FieldNames DEF CardFields
<1> QED BY <1>1, <1>6, <1>9

\* Fields that are written and read into a new vCard are kept, but for what stands
\* beside data, a key that is no text and an agent's URI when the agent is there.
LEMMA FieldsReadBack ==
  ASSUME NEW f \in CardFields, NEW u \in {NoElement, "", f.agentURI}, NEW agent \in BOOLEAN,
         f.agentURI # "" => u = f.agentURI \/ agent
  PROVE  /\ FieldsKept(f, FieldsFromXml(BlankCard, FieldsWritten(f, u)), agent)
         /\ FieldsFromXml(BlankCard, FieldsWritten(f, u)) \in CardFields
         /\ FieldsFromXml(BlankCard, FieldsWritten(f, u)).url = f.url
<1>1. PICK e : e = FieldsWritten(f, u)
  OBVIOUS
<1>2. PICK r : r = FieldsFromXml(BlankCard, e)
  OBVIOUS
<1>3. u \in CardTexts \cup {NoElement} /\ NoElement \notin CardTexts /\ f.agentURI \in CardTexts
  BY CardConstants DEF CardFields
<1>4. /\ e \in Elements
      /\ e.fullName = f.fullName /\ e.familyName = f.familyName
      /\ e.suffixName = f.suffixName /\ e.url = f.url
      /\ e.entries = f.entries /\ e.photo = f.photo
      /\ e.photoURI = IF f.photo = "" THEN f.photoURI ELSE ""
      /\ e.sound = f.sound
      /\ e.soundURI = IF f.sound = "" THEN f.soundURI ELSE ""
      /\ e.soundPhonetic = IF f.sound = "" /\ f.soundURI = "" THEN f.soundPhonetic ELSE ""
      /\ e.agentURI = u /\ e.privacyClass = f.privacyClass
      /\ e.key = AsText(f.key)
  BY <1>1, <1>3, WrittenFields
<1>5. /\ r \in CardFields
      /\ r.url = Over(BlankCard.url, e.url)
  BY <1>2, <1>4, FieldsAre, BlankFields
<1>6. PICK g : g =
        LET Group(names) == IF \E x \in names : e[x] # "" THEN names ELSE {}
        IN Group({"familyName", "suffixName"}) \cup Group({"photo", "photoURI"})
                    \cup Group({"sound", "soundURI", "soundPhonetic"})
                    \cup (IF e.agentURI = NoElement THEN {} ELSE {"agentURI"})
  OBVIOUS
<1>7. r = [x \in DOMAIN BlankCard |->
        CASE x \in g -> e[x]
          [] x = "entries" -> BlankCard[x] \o e[x]
          [] x \in {"fullName", "url", "privacyClass", "key"} -> Over(BlankCard[x], e[x])
          [] OTHER -> BlankCard[x]]
  BY <1>2, <1>6, Zenon DEF FieldsFromXml
<1>8. g \subseteq {"familyName", "suffixName", "photo", "photoURI", "sound", "soundURI",
           "soundPhonetic", "agentURI"}
  BY <1>6
<1>9. ASSUME NEW x \in {"familyName", "suffixName", "photo", "photoURI", "sound", "soundURI",
           "soundPhonetic"}
     PROVE r[x] = e[x]
  <2>1. r[x] = IF x \in g THEN e[x] ELSE ""
    <3>1. /\ x \in DOMAIN BlankCard /\ x # "entries"
          /\ x \notin {"fullName", "url", "privacyClass", "key"}
      BY FieldNames
    <3>2. BlankCard[x] = ""
      <4>1. /\ BlankCard.familyName = "" /\ BlankCard.suffixName = "" /\ BlankCard.photo = ""
            /\ BlankCard.photoURI = "" /\ BlankCard.sound = "" /\ BlankCard.soundURI = ""
            /\ BlankCard.soundPhonetic = ""
        BY DEF BlankCard
      <4> QED BY <4>1
    <3> QED BY <1>7, <3>1, <3>2
  <2>2. x \notin g => e[x] = ""
    BY <1>6
  <2> QED BY <2>1, <2>2
<1>10. r.agentURI = IF u = NoElement THEN "" ELSE u
  <2>1. r.agentURI = IF "agentURI" \in g THEN e.agentURI ELSE ""
    BY <1>7, FieldNames DEF BlankCard
  <2>2. "agentURI" \in g <=> e.agentURI # NoElement
    BY <1>6
  <2> QED BY <1>4, <2>1, <2>2
<1>11. r.entries = f.entries
  <2>1. r.entries = <<>> \o e.entries
    BY <1>7, <1>8, FieldNames DEF BlankCard
  <2>2. e.entries \in Seq(CardEntries)
    BY <1>4 DEF Elements
  <2>3. <<>> \o e.entries = e.entries
    BY <2>2, ConcatEmptySeq
  <2> QED BY <1>4, <2>1, <2>3
<1>12. /\ r.fullName = f.fullName /\ r.url = f.url
       /\ r.privacyClass = f.privacyClass /\ r.key = AsText(f.key)
  <2>1. /\ r.fullName = Over("", e.fullName) /\ r.url = Over("", e.url)
        /\ r.privacyClass = Over("", e.privacyClass) /\ r.key = Over("", e.key)
    BY <1>7, <1>8, FieldNames DEF BlankCard
  <2> QED BY <1>4, <2>1 DEF Over
<1>13. ASSUME NEW x \in {"fullName", "familyName", "suffixName", "url", "entries", "photo",
               "sound", "privacyClass"}
       PROVE r[x] = f[x]
  BY <1>4, <1>9, <1>11, <1>12
<1>14. r.photoURI = e.photoURI /\ r.soundURI = e.soundURI /\ r.soundPhonetic = e.soundPhonetic
  BY <1>9
<1>15. r.photo = f.photo /\ r.sound = f.sound
  BY <1>13
<1>16. /\ r.photoURI \in {"", f.photoURI} /\ r.soundURI \in {"", f.soundURI}
       /\ r.soundPhonetic \in {"", f.soundPhonetic} /\ r.agentURI \in {"", f.agentURI}
  BY <1>4, <1>10, <1>14
<1>17. f.key # "bytes" => r.key = f.key
  BY <1>12 DEF AsText
<1>18. Over(r.photoURI, r.photo) = Over(f.photoURI, f.photo)
  BY <1>4, <1>14, <1>15 DEF Over
<1>19. Over(Over(r.soundPhonetic, r.soundURI), r.sound)
         = Over(Over(f.soundPhonetic, f.soundURI), f.sound)
  BY <1>4, <1>14, <1>15 DEF Over
<1>20. f.agentURI # "" => r.agentURI = f.agentURI \/ agent
  BY <1>3, <1>10
<1>21. FieldsKept(f, r, agent)
  BY <1>13, <1>16, <1>17, <1>18, <1>19, <1>20 DEF FieldsKept
<1> QED BY <1>1, <1>2, <1>5, <1>12, <1>21

\* toXml() writes the vCard and the agents up to the first that is not inside the
\* element for it; a URI is only left out where the agent is written.
LEMMA WrittenIs ==
  ASSUME NEW c \in VCards
  PROVE  /\ Len(CardToXml(c)) \in 1 .. Len(c) /\ CardToXml(c) \in Seq(Elements)
         /\ \A i \in 1 .. Len(CardToXml(c)) :
              \E u \in {NoElement, "", c[i].agentURI} :
                /\ CardToXml(c)[i] = FieldsWritten(c[i], u)
                /\ c[i].agentURI # "" => u = c[i].agentURI \/ i < Len(CardToXml(c))
<1>1. Len(c) \in Nat \ {0} /\ DOMAIN c = 1 .. Len(c) /\ \A i \in 1 .. Len(c) : c[i] \in CardFields
  BY CardParts
<1>2. PICK S : S = {j \in DOMAIN c : ~AgentInside(c, j)}
  OBVIOUS
<1>3. S \subseteq 1 .. Len(c) /\ Len(c) \in S
  BY <1>1, <1>2 DEF AgentInside
<1>4. PICK m : m = Min(S)
  OBVIOUS
<1>5. m \in S /\ \A n \in S : m <= n
  <2>1. S \in SUBSET Nat /\ S # {}
    BY <1>1, <1>3
  <2> QED BY <1>4, <2>1, LeastIs
<1>6. m \in 1 .. Len(c) /\ m \in Nat /\ ~AgentInside(c, m)
  BY <1>1, <1>2, <1>3, <1>5
<1>7. PICK e : e = CardToXml(c)
  OBVIOUS
<1>8. DEFINE u(i) == IF ~AgentTag(c, i) THEN NoElement ELSE IF AgentInside(c, i) THEN "" ELSE c[i].agentURI
<1>9. e = [i \in 1 .. m |->
     [SoundWritten(PictureWritten(c[i])) EXCEPT
        !.key = AsText(@),
        !.agentURI = IF ~AgentTag(c, i) THEN NoElement ELSE IF AgentInside(c, i) THEN "" ELSE @]]
  BY <1>2, <1>4, <1>7, Zenon DEF CardToXml
<1>10. ASSUME NEW i \in 1 .. m
       PROVE /\ e[i] = FieldsWritten(c[i], u(i)) /\ e[i] \in Elements
             /\ u(i) \in {NoElement, "", c[i].agentURI}
  <2>1. c[i] \in CardFields
    BY <1>1, <1>6
  <2>2. u(i) \in {NoElement, "", c[i].agentURI}
    OBVIOUS
  <2>3. PICK s : s = SoundWritten(PictureWritten(c[i]))
    OBVIOUS
  <2>4. s.agentURI = c[i].agentURI /\ "agentURI" \in DOMAIN s
    BY <2>1, <2>3 DEF SoundWritten, PictureWritten, CardFields
  <2>5. e[i] = [s EXCEPT !.key = AsText(@), !.agentURI = IF ~AgentTag(c, i) THEN NoElement ELSE IF AgentInside(c, i) THEN "" ELSE @]
    BY <1>9, <2>3, Zenon
  <2>6. e[i] = [s EXCEPT !.key = AsText(@), !.agentURI = u(i)]
    BY <2>4, <2>5
  <2>7. e[i] = FieldsWritten(c[i], u(i))
    BY <2>3, <2>6 DEF FieldsWritten
  <2>8. u(i) \in CardTexts \cup {NoElement}
    BY <2>1, CardConstants DEF CardFields
  <2>9. e[i] \in Elements
    <3> HIDE DEF u
    <3> QED BY <2>1, <2>7, <2>8, WrittenFields
  <2> QED BY <2>2, <2>7, <2>9
<1>11. e \in Seq(Elements) /\ Len(e) = m
  <2>1. e \in [1 .. m -> Elements]
    BY <1>9, <1>10
  <2> QED BY <1>6, <2>1
<1>12. ASSUME NEW i \in 1 .. m, c[i].agentURI # ""
       PROVE u(i) = c[i].agentURI \/ i < m
  <2>1. AgentTag(c, i)
    BY <1>12 DEF AgentTag
  <2>2. i = m => ~AgentInside(c, i)
    BY <1>6
  <2>3. i < m \/ i = m
    BY <1>6
  <2> QED BY <2>1, <2>2, <2>3
<1>13. \A i \in 1 .. m : \E v \in {NoElement, "", c[i].agentURI} :
          /\ e[i] = FieldsWritten(c[i], v)
          /\ c[i].agentURI # "" => v = c[i].agentURI \/ i < m
  <2> HIDE DEF u
  <2> QED BY <1>10, <1>12, Zenon
<1> QED BY <1>6, <1>7, <1>11, <1>13

\* The agents that fromXml() reads have no URL.
LEMMA AgentsRead ==
  ASSUME NEW c \in VCards, NEW e, e = CardToXml(c), HasAgent(e),
         NEW a, a = [i \in DOMAIN Tail(e) |-> FieldsFromXml(BlankCard, Tail(e)[i])]
  PROVE  /\ Len(a) = Len(e) - 1 /\ a \in Seq(AgentFields)
         /\ \A i \in 2 .. Len(e) : a[i - 1] = FieldsFromXml(BlankCard, e[i])
<1>1. Len(e) \in 1 .. Len(c) /\ e \in Seq(Elements) /\ Len(c) \in Nat
  BY WrittenIs, CardParts
<1>2. Len(e) > 1 /\ e # <<>> /\ Len(e) \in Nat
  <2>1. Len(e) > 1 /\ Len(e) \in Nat
    BY <1>1 DEF HasAgent
  <2> QED BY <1>1, <2>1, EmptySeq
<1>3. PICK t : t = Tail(e)
  OBVIOUS
<1>4. t \in Seq(Elements) /\ Len(t) = Len(e) - 1 /\ \A i \in 1 .. Len(t) : t[i] = e[i + 1]
  BY <1>1, <1>2, <1>3, HeadTailProperties
<1>5. DOMAIN t = 1 .. Len(t) /\ Len(t) \in Nat
  BY <1>4
<1>6. a = [i \in 1 .. Len(t) |-> FieldsFromXml(BlankCard, t[i])]
  BY <1>3, <1>5
<1>7. ASSUME NEW i \in 1 .. Len(t)
      PROVE  a[i] = FieldsFromXml(BlankCard, e[i + 1]) /\ a[i] \in AgentFields
  <2>1. a[i] = FieldsFromXml(BlankCard, e[i + 1])
    BY <1>4, <1>6
  <2>2. i + 1 \in 1 .. Len(e) /\ i + 1 \in 1 .. Len(c) /\ i + 1 \in 2 .. Len(c)
    BY <1>1, <1>2, <1>4
  <2>3. PICK f : f = c[i + 1]
    OBVIOUS
  <2>4. f \in CardFields /\ f.url = ""
    BY <2>2, <2>3, CardParts DEF AgentFields
  <2>5. PICK u : u \in {NoElement, "", f.agentURI} /\ e[i + 1] = FieldsWritten(f, u)
    <3>1. \E u \in {NoElement, "", c[i + 1].agentURI} : e[i + 1] = FieldsWritten(c[i + 1], u)
      BY <2>2, WrittenIs
    <3> QED BY <2>3, <3>1
  <2>6. u \in CardTexts \cup {NoElement}
    BY <2>4, <2>5, CardConstants DEF CardFields
  <2>7. e[i + 1] \in Elements /\ e[i + 1].url = ""
    <3>1. FieldsWritten(f, u) \in Elements /\ FieldsWritten(f, u).url = f.url
      BY <2>4, <2>6, WrittenFields
    <3> QED BY <2>4, <2>5, <3>1
  <2>8. a[i] \in CardFields /\ a[i].url = Over(BlankCard.url, "")
    BY <2>1, <2>7, FieldsAre, BlankFields
  <2>9. Over(BlankCard.url, "") = ""
    BY DEF Over, BlankCard
  <2> QED BY <2>1, <2>8, <2>9 DEF AgentFields
<1>8. a \in [1 .. Len(t) -> AgentFields]
  BY <1>6, <1>7
<1>9. a \in Seq(AgentFields) /\ Len(a) = Len(e) - 1
  BY <1>4, <1>5, <1>8
<1>10. ASSUME NEW i \in 2 .. Len(e) PROVE a[i - 1] = FieldsFromXml(BlankCard, e[i])
  <2>1. i - 1 \in 1 .. Len(t) /\ (i - 1) + 1 = i
    BY <1>2, <1>4
  <2> QED BY <1>7, <2>1
<1> QED BY <1>9, <1>10

\* What fromXml() makes of the fields of a vCard leaves the agents it has.
LEMMA FirstRead ==
  ASSUME NEW c \in VCards, NEW d \in VCards
  PROVE  <<FieldsFromXml(d[1], CardToXml(c)[1])>> \o Tail(d) \in VCards
<1>1. PICK e : e = CardToXml(c)
  OBVIOUS
<1>2. Len(e) \in 1 .. Len(c) /\ e \in Seq(Elements) /\ Len(c) \in Nat
  BY <1>1, WrittenIs, CardParts
<1>3. 1 \in 1 .. Len(e)
  BY <1>2
<1>4. e[1] \in Elements
  BY <1>2, <1>3, ElementOfSeq
<1>5. FieldsFromXml(d[1], e[1]) \in CardFields
  BY <1>4, CardParts, FieldsAre
<1> QED BY <1>1, <1>5, SingleIsCard, AgentsAre, JoinIsCard

\* fromXml() of what toXml() wrote gives a vCard.
LEMMA ReadIsCard ==
  ASSUME NEW c \in VCards, NEW d \in VCards
  PROVE  CardFromXml(d, CardToXml(c)) \in VCards
<1>1. PICK e : e = CardToXml(c)
  OBVIOUS
<1>2. PICK r : r = <<FieldsFromXml(d[1], e[1])>> \o Tail(d)
  OBVIOUS
<1>3. r \in VCards
  BY <1>1, <1>2, FirstRead
<1>4. CASE ~HasAgent(e)
  BY <1>1, <1>2, <1>3, <1>4 DEF CardFromXml
<1>5. CASE HasAgent(e)
  <2>1. PICK a : a = [i \in DOMAIN Tail(e) |-> FieldsFromXml(BlankCard, Tail(e)[i])]
    OBVIOUS
  <2>2. Len(a) = Len(e) - 1 /\ a \in Seq(AgentFields)
    BY <1>1, <1>5, <2>1, AgentsRead
  <2>3. Len(e) > 1 /\ Len(e) \in Nat
    <3>1. Len(c) \in Nat /\ Len(e) \in 1 .. Len(c)
      BY <1>1, CardParts, WrittenIs
    <3> QED BY <1>5, <3>1 DEF HasAgent
  <2>4. a \in VCards
    <3>1. Len(a) # 0
      BY <2>2, <2>3
    <3> QED BY <2>2, <3>1, AgentIsCard
  <2>5. WithAgent(r, a) \in VCards
    BY <1>3, <2>4, WithAgentIs
  <2>6. CardFromXml(d, e) = WithAgent(r, a)
    BY <1>2, <1>5, <2>1, Zenon DEF CardFromXml
  <2> QED BY <1>1, <2>5, <2>6
<1> QED BY <1>4, <1>5

\* So do the setters.
LEMMA MadeIsCard == MadeCards \subseteq VCards
<1>1. Cards \subseteq CardFields
  BY CardConstants
<1>2. SingleCards \subseteq VCards
  BY <1>1, SingleIsCard DEF SingleCards
<1>3. ASSUME NEW c \in SingleCards, NEW a \in SingleCards PROVE WithAgent(c, a) \in VCards
  BY <1>2, WithAgentIs
<1> QED BY <1>2, <1>3 DEF MadeCards

\* Every step leaves a vCard.
LEMMA StepCard ==
  ASSUME CardInv, [CardNext]_card
  PROVE  CardInv'
<1>1. CASE MakeCard
  BY <1>1, MadeIsCard DEF MakeCard, CardInv
<1>2. CASE AssignCard
  BY <1>2, MadeIsCard, AssignedIs DEF AssignCard, CardInv
<1>3. CASE SetAgent
  BY <1>3, MadeIsCard, WithAgentIs DEF SetAgent, CardInv
<1>4. CASE ReadCard
  BY <1>4, MadeIsCard, ReadIsCard DEF ReadCard, CardInv
<1>5. CASE RereadCard
  BY <1>5, BlankFields, SingleIsCard, ReadIsCard DEF RereadCard, CardInv
<1>6. CASE UNCHANGED card
  BY <1>6 DEF CardInv
<1> QED BY <1>1, <1>2, <1>3, <1>4, <1>5, <1>6 DEF CardNext

\* Agents never have a URL (VCard::operator=, setAgent, fromXml): it is lost in the
\* assignment through which they come.
THEOREM CardInvariant == CardSpec => []CardInv
<1>1. CardInit => CardInv
  BY BlankFields, SingleIsCard DEF CardInit, CardInv
<1> QED BY <1>1, StepCard, PTL DEF CardSpec

\* A vCard has texts in its fields, whatever it was assigned, given and read.
THEOREM CardTypes == CardSpec => []CardTypeOK
<1>1. ASSUME NEW c \in VCards PROVE c \in Seq(CardFields) /\ c # <<>>
  BY CardParts, EmptySeq
<1>2. CardInv => CardTypeOK
  BY <1>1 DEF CardInv, CardTypeOK
<1> QED BY <1>2, CardInvariant, PTL

\* Into a new vCard all are read that are in the XML, with nothing else.
LEMMA BlankRead ==
  ASSUME NEW c \in VCards, NEW e, e = CardToXml(c),
         NEW r, r = CardFromXml(<<BlankCard>>, e)
  PROVE  Len(r) = Len(e) /\ \A i \in 1 .. Len(e) : r[i] = FieldsFromXml(BlankCard, e[i])
<1>1. Len(c) \in Nat /\ Len(e) \in 1 .. Len(c) /\ e \in Seq(Elements)
  BY WrittenIs, CardParts
<1>2. Len(e) \in Nat \ {0} /\ 1 \in 1 .. Len(e)
  BY <1>1
<1>3. PICK q : q = FieldsFromXml(BlankCard, e[1])
  OBVIOUS
<1>4. q \in CardFields
  <2>1. e[1] \in Elements
    BY <1>1, <1>2, ElementOfSeq
  <2> QED BY <1>3, <2>1, BlankFields, FieldsAre
<1>5. <<q>> \o Tail(<<BlankCard>>) = <<q>>
  BY <1>4, BlankFields
<1>6. <<BlankCard>>[1] = BlankCard
  OBVIOUS
<1>7. CASE ~HasAgent(e)
  <2>1. r = <<q>>
    BY <1>3, <1>5, <1>6, <1>7, Zenon DEF CardFromXml
  <2>2. Len(e) = 1
    BY <1>2, <1>7 DEF HasAgent
  <2> QED BY <1>3, <2>1, <2>2
<1>8. CASE HasAgent(e)
  <2>1. PICK a : a = [i \in DOMAIN Tail(e) |-> FieldsFromXml(BlankCard, Tail(e)[i])]
    OBVIOUS
  <2>2. /\ Len(a) = Len(e) - 1 /\ a \in Seq(AgentFields)
        /\ \A i \in 2 .. Len(e) : a[i - 1] = FieldsFromXml(BlankCard, e[i])
    BY <1>8, <2>1, AgentsRead
  <2>3. r = WithAgent(<<q>>, a)
    <3>1. r = WithAgent(<<q>> \o Tail(<<BlankCard>>), a)
      BY <1>3, <1>6, <1>8, <2>1, Zenon DEF CardFromXml
    <3> QED BY <1>5, <3>1
  <2>4. Assigned(<<BlankCard>>, a) = a
    <3>1. DOMAIN a = 1 .. Len(a) /\ \A i \in 1 .. Len(a) : a[i] \in AgentFields
      BY <2>2
    <3>2. PICK h : h = [i \in DOMAIN a |-> [a[i] EXCEPT !.url = IF i = 1 THEN <<BlankCard>>[1].url ELSE ""]]
      OBVIOUS
    <3>3. BlankCard.url = ""
      BY DEF BlankCard
    <3>4. ASSUME NEW i \in 1 .. Len(a) PROVE h[i] = a[i]
      <4>1. PICK f : f = a[i]
        OBVIOUS
      <4>2. f \in CardFields /\ f.url = ""
        BY <3>1, <4>1 DEF AgentFields
      <4>3. [f EXCEPT !.url = ""] = f
        BY <4>2 DEF CardFields
      <4>4. h[i] = [f EXCEPT !.url = ""]
        BY <1>6, <3>1, <3>2, <3>3, <4>1
      <4> QED BY <4>1, <4>3, <4>4
    <3>5. h = a
      <4>1. PICK n \in Nat : n = Len(a)
        BY <2>2
      <4>2. h \in [1 .. n -> AgentFields]
        BY <3>1, <3>2, <3>4, <4>1
      <4>3. h \in Seq(AgentFields) /\ Len(h) = n
        BY <4>2
      <4> QED BY <2>2, <3>4, <4>1, <4>3, SeqEqual
    <3>6. h \o <<>> = h
      BY <2>2, <3>5, ConcatEmptySeq
    <3>7. Tail(<<BlankCard>>) = <<>>
      OBVIOUS
    <3>8. Assigned(<<BlankCard>>, a) = h \o (IF HasAgent(a) THEN <<>> ELSE Tail(<<BlankCard>>))
      BY <3>2, Zenon DEF Assigned, Agent
    <3> QED BY <3>5, <3>6, <3>7, <3>8
  <2>5. ~HasAgent(<<q>>)
    BY DEF HasAgent
  <2>6. r = <<q>> \o a
    <3>1. <<q>>[1] = q
      OBVIOUS
    <3> QED BY <2>3, <2>4, <2>5, <3>1 DEF WithAgent
  <2>7. a \in Seq(CardFields) /\ <<q>> \in Seq(CardFields) /\ Len(<<q>>) = 1
    BY <1>4, <2>2, AgentsAreFields, SeqMonotonic
  <2>8. /\ Len(r) = 1 + Len(a)
        /\ \A i \in 1 .. 1 + Len(a) : r[i] = IF i <= 1 THEN <<q>>[i] ELSE a[i - 1]
    BY <2>6, <2>7, ConcatProperties
  <2>9. Len(r) = Len(e)
    BY <1>2, <2>2, <2>8
  <2>10. ASSUME NEW i \in 1 .. Len(e) PROVE r[i] = FieldsFromXml(BlankCard, e[i])
    <3>1. CASE i = 1
      BY <1>2, <1>3, <2>8, <2>9, <3>1
    <3>2. CASE i # 1
      <4>1. i \in 2 .. Len(e) /\ ~(i <= 1)
        BY <1>2, <3>2
      <4>2. i \in 1 .. 1 + Len(a)
        BY <1>2, <2>2
      <4>3. r[i] = a[i - 1]
        BY <2>8, <4>1, <4>2
      <4> QED BY <2>2, <4>1, <4>3
    <3> QED BY <3>1, <3>2
  <2> QED BY <2>9, <2>10
<1> QED BY <1>7, <1>8

\* Any vCard is kept when it is written and read again, and its agents are.
LEMMA KeptReading ==
  ASSUME NEW c \in VCards
  PROVE  Kept(c, CardFromXml(<<BlankCard>>, CardToXml(c)))
<1>1. PICK e : e = CardToXml(c)
  OBVIOUS
<1>2. PICK r : r = CardFromXml(<<BlankCard>>, e)
  OBVIOUS
<1>3. Len(r) = Len(e) /\ \A i \in 1 .. Len(e) : r[i] = FieldsFromXml(BlankCard, e[i])
  BY <1>1, <1>2, BlankRead
<1>4. r \in VCards
  BY <1>1, <1>2, ReadIsCard, BlankFields, SingleIsCard
<1>5. DOMAIN r = 1 .. Len(r)
  BY <1>4, CardParts
<1>6. Len(e) \in 1 .. Len(c) /\ Len(c) \in Nat
  BY <1>1, WrittenIs, CardParts
<1>7. ASSUME NEW i \in 1 .. Len(e) PROVE FieldsKept(c[i], r[i], i < Len(r))
  <2>1. PICK f : f = c[i]
    OBVIOUS
  <2>2. i \in 1 .. Len(c)
    BY <1>6
  <2>3. f \in CardFields
    BY <2>1, <2>2, CardParts
  <2>4. PICK agent : agent = (i < Len(e))
    OBVIOUS
  <2>5. agent \in BOOLEAN
    BY <2>4
  <2>6. \E u \in {NoElement, "", c[i].agentURI} :
          /\ e[i] = FieldsWritten(c[i], u)
          /\ c[i].agentURI # "" => u = c[i].agentURI \/ i < Len(e)
    BY <1>1, WrittenIs
  <2>7. PICK u \in {NoElement, "", f.agentURI} :
          e[i] = FieldsWritten(f, u) /\ (f.agentURI # "" => u = f.agentURI \/ agent)
    BY <2>1, <2>4, <2>6, Zenon
  <2>8. FieldsKept(f, FieldsFromXml(BlankCard, FieldsWritten(f, u)), agent)
    BY <2>3, <2>5, <2>7, FieldsReadBack
  <2> QED BY <1>3, <2>1, <2>4, <2>7, <2>8, Zenon
<1>8. Len(r) <= Len(c)
  BY <1>3, <1>6
<1> QED BY <1>1, <1>2, <1>3, <1>5, <1>7, <1>8 DEF Kept

\* Whatever a vCard was assigned, given and read before, it is kept when it is
\* written and read again, in the sense of FieldsKept (VCard::toXml, fromXml).
THEOREM CardReads == CardSpec => []CardReadsBack
<1>1. CardInv => CardReadsBack
  BY KeptReading DEF CardInv, CardReadsBack
<1> QED BY <1>1, CardInvariant, PTL
=============================================================================
