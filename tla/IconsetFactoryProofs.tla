------------------------ MODULE IconsetFactoryProofs ------------------------
(***************************************************************************)
(* Theorems about IconsetFactory, for every number of iconsets and every   *)
(* order in which they are registered, removed and destroyed.              *)
(***************************************************************************)
EXTENDS IconsetFactory, FiniteSetTheorems, WellFoundedInduction, TLAPS

Slots == Seq(Iconsets \cup {Null})

\* The number of slots that are not null is a number.
LEMMA NonNullNat ==
  ASSUME NEW v \in Slots
  PROVE  NonNull(v) \in Nat
<1> DEFINE S == {i \in DOMAIN v : v[i] # Null}
<1>1. IsFiniteSet(1 .. Len(v)) /\ DOMAIN v = 1 .. Len(v)
  BY FS_Interval DEF Slots
<1>2. IsFiniteSet(S)
  BY <1>1, FS_Subset
<1> QED BY <1>2, FS_CardinalityType DEF NonNull

\* What a vector holds after a registration it held before, in the same slot, or
\* it is the new iconset.
LEMMA RegisteredHolds ==
  ASSUME NEW v \in Slots, NEW s \in Iconsets
  PROVE  /\ Registered(v, s) \in Slots
         /\ \A i \in DOMAIN Registered(v, s) :
              \/ Registered(v, s)[i] = Null
              \/ i \in DOMAIN v /\ Registered(v, s)[i] = v[i]
              \/ /\ ~Has(v, s) /\ Registered(v, s)[i] = s
                 /\ \A j \in DOMAIN Registered(v, s) : j # i => Registered(v, s)[j] # s
<1> DEFINE n == NonNull(v) + 1
           w == Resize(v, n)
           k == NonNull(w) + 1
<1>1. CASE Has(v, s)
  BY <1>1 DEF Registered
<1>2. CASE ~Has(v, s)
  <2>1. n \in Nat
    BY NonNullNat
  <2>2. w = [i \in 1 .. n |-> IF i <= Len(v) THEN v[i] ELSE Null]
    BY DEF Resize
  <2> HIDE DEF n
  <2>3. w \in [1 .. n -> Iconsets \cup {Null}]
    BY <2>1, <2>2 DEF Slots
  <2>4. \A i \in 1 .. n : w[i] = Null \/ (i \in DOMAIN v /\ w[i] = v[i])
    BY <2>1, <2>2 DEF Slots
  <2>5. Registered(v, s) = [w EXCEPT ![k] = s]
    BY <1>2 DEF Registered, Put, n
  <2> HIDE DEF w, k
  <2>6. s # Null /\ \A i \in 1 .. n : w[i] # s
    BY <1>2, <2>4, FactoryConstants DEF Has
  <2>7. Registered(v, s) \in [1 .. n -> Iconsets \cup {Null}]
    BY <2>3, <2>5
  <2>8. Registered(v, s) \in Slots
    BY <2>1, <2>7 DEF Slots
  <2> QED BY <1>2, <2>3, <2>4, <2>5, <2>6, <2>7, <2>8
<1> QED BY <1>1, <1>2

\* After an unregistration it holds the others, each in its slot, or nothing.
LEMMA UnregisteredHolds ==
  ASSUME NEW v \in Slots, NEW s \in Iconsets
  PROVE  /\ Unregistered(v, s) \in Slots
         /\ \A i \in DOMAIN Unregistered(v, s) :
              \/ Unregistered(v, s)[i] = Null
              \/ i \in DOMAIN v /\ Unregistered(v, s)[i] = v[i] /\ v[i] # s
<1> DEFINE w == Nulled(v, s)
<1>1. w \in [1 .. Len(v) -> Iconsets \cup {Null}]
  BY DEF Nulled, Slots
<1>2. \A i \in 1 .. Len(v) : w[i] = Null \/ (w[i] = v[i] /\ v[i] # s)
  BY DEF Nulled, Slots
<1>3. w \in Slots /\ DOMAIN w = DOMAIN v /\ DOMAIN v = 1 .. Len(v) /\ << >> \in Slots
  BY <1>1 DEF Slots
<1>4. Unregistered(v, s) = w \/ Unregistered(v, s) = << >>
  BY DEF Unregistered
<1> HIDE DEF w
<1> QED BY <1>2, <1>3, <1>4

\* NoDangling is inductive together with the type of the vector.
IInv == iconsets \in Slots /\ NoDangling

\* unregisterIconset() leaves the vector without the iconset and without a gap.
LEMMA UnregisterKeeps ==
  ASSUME IInv, NEW s \in Iconsets,
         iconsets' = Unregistered(iconsets, s), added' = added \ {s}
  PROVE  IInv'
<1>1. /\ iconsets' \in Slots
      /\ \A i \in DOMAIN iconsets' :
           iconsets'[i] = Null \/ (i \in DOMAIN iconsets /\ iconsets'[i] = iconsets[i] /\ iconsets[i] # s)
  BY UnregisteredHolds DEF IInv
<1> QED BY <1>1 DEF IInv, NoDangling

\* The factory holds only iconsets that were added and are there, each once.
THEOREM FactoryNoDangling == Spec => []NoDangling
<1>1. Init => IInv
  BY DEF Init, IInv, NoDangling, Slots
<1>2. IInv /\ [Next]_vars => IInv'
  <2> SUFFICES ASSUME IInv, [Next]_vars
               PROVE  IInv'
    OBVIOUS
  <2>1. CASE \E s \in Iconsets : Construct(s)
    BY <2>1 DEF Construct, IInv, NoDangling
  <2>2. ASSUME NEW s \in Iconsets, AddToFactory(s)
        PROVE  IInv'
    <3>1. iconsets' = Registered(iconsets, s) /\ added' = added \cup {s}
      BY <2>2 DEF AddToFactory
    <3>2. /\ iconsets' \in Slots
          /\ \A i \in DOMAIN iconsets' :
               \/ iconsets'[i] = Null
               \/ i \in DOMAIN iconsets /\ iconsets'[i] = iconsets[i]
               \/ iconsets'[i] = s /\ \A j \in DOMAIN iconsets' : j # i => iconsets'[j] # s
      BY <3>1, RegisteredHolds DEF IInv
    <3> QED BY <3>1, <3>2 DEF IInv, NoDangling
  <2>3. CASE \E s \in Iconsets : RemoveFromFactory(s)
    BY <2>3, UnregisterKeeps DEF RemoveFromFactory
  <2>4. CASE \E s \in Iconsets : Destroy(s)
    BY <2>4, UnregisterKeeps DEF Destroy
  <2>5. CASE UNCHANGED vars
    BY <2>5 DEF vars, IInv, NoDangling
  <2> QED BY <2>1, <2>2, <2>3, <2>4, <2>5 DEF Next
<1>3. IInv => NoDangling
  BY DEF IInv
<1> QED BY <1>1, <1>2, <1>3, PTL DEF Spec

\* The first n numbers are n.
LEMMA FirstNumbers ==
  ASSUME NEW n \in Nat
  PROVE  IsFiniteSet(1 .. n) /\ Cardinality(1 .. n) = n
<1>1. CASE n = 0
  <2>1. 1 .. n = {}
    BY <1>1
  <2> QED BY <1>1, <2>1, FS_EmptySet
<1>2. CASE n # 0
  <2>1. 1 \in Int /\ n \in Int /\ ~(1 > n) /\ n - 1 + 1 = n
    BY <1>2
  <2>2. IsFiniteSet(1 .. n) /\ Cardinality(1 .. n) = n - 1 + 1
    BY <2>1, FS_Interval
  <2> QED BY <2>1, <2>2
<1> QED BY <1>1, <1>2

\* How many slots are not null: at most all, at least one when there is one, and
\* n when it is the first n.
LEMMA NonNullCounts ==
  ASSUME NEW v \in Slots
  PROVE  /\ NonNull(v) \in Nat /\ NonNull(v) <= Len(v)
         /\ \A i \in DOMAIN v : v[i] # Null => NonNull(v) >= 1
         /\ \A n \in 0 .. Len(v) :
              (\A i \in DOMAIN v : v[i] # Null <=> i <= n) => NonNull(v) = n
<1> DEFINE S == {i \in DOMAIN v : v[i] # Null}
<1>1. /\ Len(v) \in Nat /\ DOMAIN v = 1 .. Len(v)
      /\ IsFiniteSet(1 .. Len(v)) /\ Cardinality(1 .. Len(v)) = Len(v)
  <2>1. Len(v) \in Nat /\ DOMAIN v = 1 .. Len(v)
    BY DEF Slots
  <2> QED BY <2>1, FirstNumbers
<1>2. S \in SUBSET (1 .. Len(v))
  BY <1>1
<1>3. IsFiniteSet(S) /\ Cardinality(S) <= Len(v)
  BY <1>1, <1>2, FS_Subset
<1>4. Cardinality(S) \in Nat /\ (Cardinality(S) = 0 <=> S = {})
  BY <1>3, FS_CardinalityType, FS_EmptySet
<1>5. NonNull(v) = Cardinality(S)
  BY DEF NonNull
<1>6. ASSUME NEW n \in 0 .. Len(v), \A i \in DOMAIN v : v[i] # Null <=> i <= n
      PROVE  Cardinality(S) = n
  <2>1. S = 1 .. n
    BY <1>1, <1>6
  <2>2. n \in Nat
    BY <1>1
  <2> QED BY <2>1, <2>2, FirstNumbers
<1>7. ASSUME NEW i \in DOMAIN v, v[i] # Null
      PROVE  Cardinality(S) >= 1
  <2>1. S # {}
    BY <1>7
  <2> HIDE DEF S
  <2> QED BY <1>4, <2>1
<1> HIDE DEF S
<1> QED BY <1>1, <1>3, <1>4, <1>5, <1>6, <1>7

\* The slots that are not null are the first ones.
Packed(v) == \A i \in DOMAIN v : v[i] # Null <=> i <= NonNull(v)

\* A registration puts its iconset into a slot; in a packed vector behind all
\* others.
LEMMA RegisteredPacks ==
  ASSUME NEW v \in Slots, NEW s \in Iconsets
  PROVE  /\ Has(Registered(v, s), s)
         /\ Packed(v) => /\ Packed(Registered(v, s))
                         /\ \A t \in Iconsets : Has(v, t) => Has(Registered(v, s), t)
         /\ Packed(v) /\ ~Has(v, s) =>
              /\ NonNull(Registered(v, s)) = NonNull(v) + 1
              /\ Registered(v, s)[NonNull(v) + 1] = s
              /\ \A i \in 1 .. NonNull(v) : Registered(v, s)[i] = v[i]
<1>1. CASE Has(v, s)
  BY <1>1 DEF Registered
<1>2. CASE ~Has(v, s)
  <2> DEFINE n == NonNull(v)
             w == Resize(v, n + 1)
             k == NonNull(w) + 1
             r == Put(w, k, s)
  <2>1. Registered(v, s) = r /\ s # Null
    BY <1>2, FactoryConstants DEF Registered
  <2>2. n \in Nat /\ n <= Len(v) /\ Len(v) \in Nat /\ DOMAIN v = 1 .. Len(v)
    BY NonNullCounts DEF Slots
  <2>3. w = [i \in 1 .. n + 1 |-> IF i <= Len(v) THEN v[i] ELSE Null]
    BY DEF Resize
  <2>4. NonNull(v) = Cardinality({i \in DOMAIN v : v[i] # Null})
    BY DEF NonNull
  <2> HIDE DEF n
  <2>5. w \in Slots /\ Len(w) = n + 1 /\ DOMAIN w = 1 .. n + 1
    BY <2>2, <2>3 DEF Slots
  <2>6. NonNull(w) \in Nat /\ NonNull(w) <= n
    <3>1. {i \in DOMAIN w : w[i] # Null} \in SUBSET {i \in DOMAIN v : v[i] # Null}
      BY <2>2, <2>3
    <3>2. IsFiniteSet({i \in DOMAIN v : v[i] # Null})
      <4>1. IsFiniteSet(1 .. Len(v))
        BY <2>2, FS_Interval
      <4> QED BY <2>2, <4>1, FS_Subset
    <3>3. Cardinality({i \in DOMAIN w : w[i] # Null}) <= Cardinality({i \in DOMAIN v : v[i] # Null})
      BY <3>1, <3>2, FS_Subset
    <3>4. NonNull(w) \in Nat
      BY <2>5, NonNullCounts
    <3> QED BY <2>4, <3>3, <3>4 DEF NonNull, n
  <2>7. k \in 1 .. n + 1
    BY <2>2, <2>6
  <2>8. r = [w EXCEPT ![k] = s]
    BY DEF Put
  <2>9. r[k] = s /\ k \in DOMAIN r
    BY <2>5, <2>7, <2>8
  <2>10. ASSUME Packed(v)
         PROVE  /\ Packed(r) /\ \A t \in Iconsets : Has(v, t) => Has(r, t)
                /\ NonNull(r) = n + 1 /\ r[n + 1] = s /\ \A i \in 1 .. n : r[i] = v[i]
    <3>1. \A i \in 1 .. n + 1 : (w[i] # Null <=> i <= n) /\ (i <= n => w[i] = v[i])
      BY <2>2, <2>3, <2>10 DEF Packed, n
    <3>2. NonNull(w) = n
      <4>1. n \in 0 .. Len(w)
        BY <2>2, <2>5
      <4> QED BY <2>5, <3>1, <4>1, NonNullCounts
    <3>3. k = n + 1
      BY <3>2
    <3> HIDE DEF k
    <3>4. r \in Slots /\ Len(r) = n + 1 /\ DOMAIN r = 1 .. n + 1
      <4>1. w \in [1 .. n + 1 -> Iconsets \cup {Null}]
        BY <2>5 DEF Slots
      <4>2. r \in [1 .. n + 1 -> Iconsets \cup {Null}]
        BY <2>8, <4>1
      <4> HIDE DEF r
      <4> QED BY <2>2, <4>2 DEF Slots
    <3>5. \A i \in 1 .. n + 1 : r[i] # Null /\ (i <= n => r[i] = v[i])
      BY <2>1, <2>2, <2>5, <2>8, <3>1, <3>3
    <3> HIDE DEF r
    <3>6. NonNull(r) = n + 1
      <4>1. n + 1 \in 0 .. Len(r)
        BY <2>2, <3>4
      <4>2. \A i \in DOMAIN r : r[i] # Null <=> i <= n + 1
        BY <2>2, <3>4, <3>5
      <4> QED BY <3>4, <4>1, <4>2, NonNullCounts
    <3>7. Packed(r)
      BY <2>2, <3>4, <3>5, <3>6 DEF Packed
    <3>8. ASSUME NEW t \in Iconsets, Has(v, t) PROVE Has(r, t)
      <4>1. PICK i \in DOMAIN v : v[i] = t
        BY <3>8 DEF Has
      <4>2. i <= n
        BY <2>10, <4>1, FactoryConstants DEF Packed, n
      <4>3. i \in 1 .. n + 1 /\ r[i] = t
        BY <2>2, <3>5, <4>1, <4>2
      <4> QED BY <3>4, <4>3 DEF Has
    <3>9. r[n + 1] = s /\ \A i \in 1 .. n : r[i] = v[i]
      BY <2>2, <2>9, <3>3, <3>5
    <3> QED BY <3>6, <3>7, <3>8, <3>9
  <2>11. Has(r, s)
    BY <2>9 DEF Has
  <2> HIDE DEF r, w, k
  <2> QED BY <1>2, <2>1, <2>10, <2>11 DEF n
<1> QED BY <1>1, <1>2

\* An unregistration takes away no other iconset, keeps no vector of nulls only,
\* and when it takes the last of a packed vector leaves it packed.
LEMMA UnregisteredPacks ==
  ASSUME NEW v \in Slots, NEW s \in Iconsets
  PROVE  /\ \A t \in Iconsets : t # s /\ Has(v, t) => Has(Unregistered(v, s), t)
         /\ (v # << >> => NonNull(v) > 0) =>
              (Unregistered(v, s) # << >> => NonNull(Unregistered(v, s)) > 0)
         /\ /\ Packed(v)
            /\ Has(v, s) => /\ v[NonNull(v)] = s
                            /\ \A i, j \in DOMAIN v : v[i] = s /\ v[j] = s => i = j
            => /\ Packed(Unregistered(v, s))
               /\ Has(v, s) =>
                    /\ NonNull(Unregistered(v, s)) = NonNull(v) - 1
                    /\ \A i \in 1 .. NonNull(v) - 1 : Unregistered(v, s)[i] = v[i]
<1> DEFINE w == Nulled(v, s)
           n == NonNull(v)
<1>1. n \in Nat /\ n <= Len(v) /\ Len(v) \in Nat /\ DOMAIN v = 1 .. Len(v) /\ s # Null
  BY NonNullCounts, FactoryConstants DEF Slots
<1>2. w = [i \in 1 .. Len(v) |-> IF v[i] = s THEN Null ELSE v[i]]
  BY <1>1 DEF Nulled
<1>3. w \in [1 .. Len(v) -> Iconsets \cup {Null}]
  BY <1>1, <1>2 DEF Slots
<1>4. Unregistered(v, s) = IF Has(v, s) /\ NonNull(w) = 0 THEN << >> ELSE w
  BY DEF Unregistered
<1> HIDE DEF w, n
<1>5. w \in Slots /\ Len(w) = Len(v) /\ DOMAIN w = 1 .. Len(v)
  BY <1>1, <1>3 DEF Slots
<1>6. \A i \in 1 .. Len(v) : w[i] = IF v[i] = s THEN Null ELSE v[i]
  BY <1>2
<1>7. NonNull(w) \in Nat /\ \A i \in 1 .. Len(v) : w[i] # Null => NonNull(w) >= 1
  BY <1>5, NonNullCounts
<1>8. ~Has(v, s) => w = v
  BY <1>1, <1>2 DEF Has, Slots
<1>9. ASSUME NEW t \in Iconsets, t # s, Has(v, t) PROVE Has(Unregistered(v, s), t)
  <2>1. PICK i \in 1 .. Len(v) : v[i] = t
    BY <1>1, <1>9 DEF Has
  <2>2. w[i] = t /\ t # Null
    BY <1>6, <1>9, <2>1, FactoryConstants
  <2>3. Unregistered(v, s) = w
    BY <1>4, <1>7, <2>2
  <2> QED BY <1>5, <2>2, <2>3 DEF Has
<1>10. ASSUME v # << >> => NonNull(v) > 0, Unregistered(v, s) # << >>
       PROVE  NonNull(Unregistered(v, s)) > 0
  BY <1>4, <1>7, <1>8, <1>10
<1>11. ASSUME Packed(v),
              Has(v, s) => /\ v[NonNull(v)] = s
                           /\ \A i, j \in DOMAIN v : v[i] = s /\ v[j] = s => i = j
       PROVE  /\ Packed(Unregistered(v, s))
              /\ Has(v, s) => /\ NonNull(Unregistered(v, s)) = n - 1
                              /\ \A i \in 1 .. n - 1 : Unregistered(v, s)[i] = v[i]
  <2>1. CASE ~Has(v, s)
    BY <1>4, <1>8, <1>11, <2>1
  <2>2. CASE Has(v, s)
    <3>1. PICK h \in DOMAIN v : v[h] = s
      BY <2>2 DEF Has
    <3>2. h <= n /\ n >= 1 /\ n \in DOMAIN v /\ v[n] = s
      BY <1>1, <1>11, <2>2, <3>1 DEF Packed, n
    <3>3. \A i \in 1 .. Len(v) : w[i] # Null <=> i <= n - 1
      <4>1. \A i \in 1 .. Len(v) : (v[i] # Null <=> i <= n) /\ (v[i] = s <=> i = n)
        BY <1>1, <1>11, <2>2, <3>2 DEF Packed, n
      <4> QED BY <1>1, <1>6, <4>1
    <3>4. NonNull(w) = n - 1
      <4>1. n - 1 \in 0 .. Len(w)
        BY <1>1, <1>5, <3>2
      <4> QED BY <1>5, <3>3, <4>1, NonNullCounts
    <3>5. Packed(w) /\ Packed(<< >>)
      BY <1>5, <3>3, <3>4 DEF Packed
    <3>6. NonNull(<< >>) = 0
      <4>1. << >> \in Slots /\ 0 \in 0 .. Len(<< >>)
        BY DEF Slots
      <4> QED BY <4>1, NonNullCounts
    <3>7. \A i \in 1 .. n - 1 : w[i] = v[i]
      <4>1. \A i \in 1 .. n - 1 : i \in 1 .. Len(v) /\ v[i] # s
        BY <1>1, <1>11, <2>2, <3>2
      <4> QED BY <1>6, <4>1
    <3> QED BY <1>1, <1>4, <3>4, <3>5, <3>6, <3>7
  <2> QED BY <2>1, <2>2
<1> QED BY <1>9, <1>10, <1>11 DEF n

\* As long as only the latest was ever removed, those added are in the first slots.
Gapless == stacked => Packed(iconsets) /\ \A s \in added : Has(iconsets, s)

FactoryInv == TypeOK /\ NoDangling /\ Gapless

\* What RemoveFromFactory and Destroy have in common keeps the invariant: taking
\* the latest leaves the first slots filled, taking another ends stacked.
LEMMA UnregisterPreserves ==
  ASSUME FactoryInv, NEW s \in Iconsets,
         stacked' = (stacked /\ Latest(s)),
         iconsets' = Unregistered(iconsets, s), added' = added \ {s},
         alive' = alive \/ alive' = alive \ {s}
  PROVE  FactoryInv'
<1>1. iconsets \in Slots /\ IInv
  BY DEF FactoryInv, TypeOK, IInv, Slots
<1>2. IInv'
  BY <1>1, UnregisterKeeps
<1>3. TypeOK'
  <2>1. iconsets' # << >> => NonNull(iconsets') > 0
    BY <1>1, UnregisteredPacks DEF FactoryInv, TypeOK
  <2> QED BY <1>2, <2>1 DEF FactoryInv, TypeOK, IInv, Slots
<1>4. Gapless'
  <2> SUFFICES ASSUME stacked, Latest(s)
               PROVE  Packed(iconsets') /\ \A t \in added' : Has(iconsets', t)
    BY DEF Gapless
  <2>1. Packed(iconsets) /\ \A t \in added : Has(iconsets, t)
    BY DEF FactoryInv, Gapless
  <2>2. Has(iconsets, s) =>
          /\ iconsets[NonNull(iconsets)] = s
          /\ \A i, j \in DOMAIN iconsets : iconsets[i] = s /\ iconsets[j] = s => i = j
    BY FactoryConstants DEF FactoryInv, NoDangling, Latest, Has
  <2>3. Packed(Unregistered(iconsets, s))
    BY <1>1, <2>1, <2>2, UnregisteredPacks
  <2>4. \A t \in added \ {s} : Has(Unregistered(iconsets, s), t)
    BY <1>1, <2>1, UnregisteredPacks DEF FactoryInv, TypeOK
  <2> QED BY <2>3, <2>4
<1> QED BY <1>2, <1>3, <1>4 DEF FactoryInv, IInv

\* The types, NoDangling and Gapless are inductive together.
LEMMA FactoryInvariant == Spec => []FactoryInv
<1>1. Init => FactoryInv
  BY DEF Init, FactoryInv, TypeOK, NoDangling, Gapless, Packed, Slots
<1>2. FactoryInv /\ [Next]_vars => FactoryInv'
  <2> SUFFICES ASSUME FactoryInv, [Next]_vars
               PROVE  FactoryInv'
    OBVIOUS
  <2>1. CASE \E s \in Iconsets : Construct(s)
    BY <2>1 DEF Construct, FactoryInv, TypeOK, NoDangling, Gapless
  <2>2. ASSUME NEW s \in Iconsets, AddToFactory(s)
        PROVE  FactoryInv'
    <3>1. /\ s \in alive /\ iconsets' = Registered(iconsets, s)
          /\ added' = added \cup {s} /\ alive' = alive /\ stacked' = stacked
      BY <2>2 DEF AddToFactory
    <3>2. iconsets \in Slots
      BY DEF FactoryInv, TypeOK, Slots
    <3>3. /\ iconsets' \in Slots
          /\ \A i \in DOMAIN iconsets' :
               \/ iconsets'[i] = Null
               \/ i \in DOMAIN iconsets /\ iconsets'[i] = iconsets[i]
               \/ iconsets'[i] = s /\ \A j \in DOMAIN iconsets' : j # i => iconsets'[j] # s
      BY <3>1, <3>2, RegisteredHolds
    <3>4. NoDangling'
      BY <3>1, <3>3 DEF FactoryInv, NoDangling
    <3>5. Has(iconsets', s)
      BY <3>1, <3>2, RegisteredPacks
    <3>6. PICK i \in DOMAIN iconsets' : iconsets'[i] = s
      BY <3>5 DEF Has
    <3>7. NonNull(iconsets') \in Nat /\ NonNull(iconsets') >= 1
      BY <3>3, <3>6, NonNullCounts, FactoryConstants
    <3>8. TypeOK'
      BY <3>1, <3>3, <3>7 DEF FactoryInv, TypeOK, Slots
    <3>9. Gapless'
      <4> SUFFICES ASSUME stacked
                   PROVE  Packed(iconsets') /\ \A t \in added' : Has(iconsets', t)
        BY <3>1 DEF Gapless
      <4>1. Packed(iconsets) /\ \A t \in added : Has(iconsets, t)
        BY DEF FactoryInv, Gapless
      <4>2. Packed(Registered(iconsets, s))
        BY <3>2, <4>1, RegisteredPacks
      <4>3. \A t \in added : Has(Registered(iconsets, s), t)
        BY <3>2, <4>1, RegisteredPacks DEF FactoryInv, TypeOK
      <4> QED BY <3>1, <3>5, <4>2, <4>3
    <3> QED BY <3>4, <3>8, <3>9 DEF FactoryInv
  <2>3. CASE \E s \in Iconsets : RemoveFromFactory(s)
    BY <2>3, UnregisterPreserves DEF RemoveFromFactory
  <2>4. CASE \E s \in Iconsets : Destroy(s)
    BY <2>4, UnregisterPreserves DEF Destroy
  <2>5. CASE UNCHANGED vars
    BY <2>5 DEF vars, FactoryInv, TypeOK, NoDangling, Gapless
  <2> QED BY <2>1, <2>2, <2>3, <2>4, <2>5 DEF Next
<1> QED BY <1>1, <1>2, PTL DEF Spec

\* The factory refers to existing iconsets, and keeps no vector of null slots only.
THEOREM FactoryTypeOK == Spec => []TypeOK
<1>1. FactoryInv => TypeOK
  BY DEF FactoryInv
<1> QED BY <1>1, FactoryInvariant, PTL

\* As long as only the latest iconset is ever removed, all that were added are
\* there, and the first that has a name answers for it.
THEOREM FactoryLookupComplete == Spec => []LookupComplete
<1>1. FactoryInv => LookupComplete
  <2> SUFFICES ASSUME FactoryInv, stacked
               PROVE  /\ \A s \in added : Has(iconsets, s)
                      /\ \A n \in Names : (\E s \in added : n \in Content[s]) => Hits(n) # {}
                      /\ LookupSafe
    BY DEF LookupComplete
  <2>1. Packed(iconsets) /\ \A s \in added : Has(iconsets, s)
    BY DEF FactoryInv, Gapless
  <2>2. iconsets \in Slots /\ added \subseteq Iconsets
    BY DEF FactoryInv, TypeOK, Slots
  <2>3. /\ NonNull(iconsets) \in Nat /\ NonNull(iconsets) <= Len(iconsets)
        /\ Len(iconsets) \in Nat /\ DOMAIN iconsets = 1 .. Len(iconsets)
    BY <2>2, NonNullCounts DEF Slots
  <2>4. \A j \in 1 .. NonNull(iconsets) : iconsets[j] # Null
    BY <2>1, <2>3 DEF Packed
  <2>5. LookupSafe
    BY <2>4 DEF LookupSafe, Scanned
  <2>6. ASSUME NEW n \in Names, NEW s \in added, n \in Content[s]
        PROVE  Hits(n) # {}
    <3> DEFINE W == {j \in 1 .. NonNull(iconsets) : n \in Content[iconsets[j]]}
    <3>1. PICK i \in DOMAIN iconsets : iconsets[i] = s
      BY <2>1 DEF Has
    <3>2. i \in 1 .. NonNull(iconsets)
      BY <2>1, <2>2, <2>3, <3>1, FactoryConstants DEF Packed
    <3>3. i \in W /\ W \subseteq Nat
      BY <2>3, <2>6, <3>1, <3>2
    <3>4. PICK j \in W : \A h \in W : ~(<<h, j>> \in OpToRel(<, Nat))
      BY <3>3, NatLessThanWellFounded, WFMin
    <3>5. j \in 1 .. NonNull(iconsets) /\ n \in Content[iconsets[j]]
      BY <3>4
    <3>6. ASSUME NEW h \in 1 .. j - 1, h \in W PROVE FALSE
      <4>1. <<h, j>> \in {r \in Nat \X Nat : r[1] < r[2]}
        BY <2>3, <3>5
      <4>2. OpToRel(<, Nat) = {r \in Nat \X Nat : r[1] < r[2]}
        BY Zenon DEF OpToRel
      <4> QED BY <3>4, <3>6, <4>1, <4>2
    <3>7. \A h \in 1 .. j - 1 : n \notin Content[iconsets[h]]
      BY <2>3, <3>5, <3>6
    <3>8. j \in Hits(n)
      BY <2>4, <3>5, <3>7 DEF Hits, Scanned
    <3> QED BY <3>8
  <2> QED BY <2>1, <2>5, <2>6
<1> QED BY <1>1, FactoryInvariant, PTL

-----------------------------------------------------------------------------
(***************************************************************************)
(* The factory implements IconRegistry.                                    *)
(***************************************************************************)

Slotted(v) == SubSeq(v, 1, NonNull(v))

\* The entries of a packed vector are its first slots.
LEMMA SlottedEntries ==
  ASSUME NEW v \in Slots, Packed(v)
  PROVE  /\ Slotted(v) \in Seq(Iconsets) /\ Len(Slotted(v)) = NonNull(v)
         /\ DOMAIN Slotted(v) = 1 .. NonNull(v)
         /\ \A i \in 1 .. NonNull(v) : i \in DOMAIN v /\ Slotted(v)[i] = v[i] /\ v[i] # Null
<1>1. PICK n : n = NonNull(v)
  OBVIOUS
<1>2. n \in Nat /\ n <= Len(v) /\ Len(v) \in Nat /\ DOMAIN v = 1 .. Len(v)
  BY <1>1, NonNullCounts DEF Slots
<1>3. \A i \in 1 .. n : i \in 1 .. Len(v) /\ v[i] \in Iconsets /\ v[i] # Null
  <2>1. \A i \in 1 .. Len(v) : v[i] \in Iconsets \cup {Null}
    BY DEF Slots
  <2> QED BY <1>1, <1>2, <2>1 DEF Packed
<1>4. SubSeq(v, 1, n) = [i \in 1 .. n |-> v[i]]
  <2>1. v \in Seq(Iconsets \cup {Null})
    BY DEF Slots
  <2> QED BY <1>2, <2>1
<1>5. Slotted(v) = [i \in 1 .. n |-> v[i]]
  BY <1>1, <1>4 DEF Slotted
<1>6. [i \in 1 .. n |-> v[i]] \in Seq(Iconsets) /\ Len([i \in 1 .. n |-> v[i]]) = n
  BY <1>2, <1>3
<1> QED BY <1>1, <1>2, <1>3, <1>5, <1>6

\* A registration appends to the entries.
LEMMA RegisteredAppends ==
  ASSUME NEW v \in Slots, NEW s \in Iconsets, Packed(v), ~Has(v, s)
  PROVE  Slotted(Registered(v, s)) = Append(Slotted(v), s)
<1>1. PICK r \in Slots : r = Registered(v, s)
  BY RegisteredHolds
<1>2. PICK n \in Nat : n = NonNull(v)
  BY NonNullCounts
<1>3. /\ Packed(r) /\ NonNull(r) = n + 1 /\ r[n + 1] = s
      /\ \A i \in 1 .. n : r[i] = v[i]
  BY <1>1, <1>2, RegisteredPacks
<1>4. PICK e \in Seq(Iconsets) : e = Slotted(v)
  BY SlottedEntries
<1>5. PICK f \in Seq(Iconsets) : f = Slotted(r)
  BY <1>3, SlottedEntries
<1>6. Len(e) = n /\ \A i \in 1 .. n : e[i] = v[i]
  BY <1>2, <1>4, SlottedEntries
<1>7. Len(f) = n + 1 /\ \A i \in 1 .. n + 1 : f[i] = r[i]
  BY <1>3, <1>5, SlottedEntries
<1>8. f = Append(e, s)
  <2>1. Append(e, s) \in Seq(Iconsets) /\ Len(Append(e, s)) = n + 1
    BY <1>6
  <2>2. \A i \in 1 .. n + 1 : f[i] = Append(e, s)[i]
    BY <1>3, <1>6, <1>7
  <2> QED BY <1>7, <2>1, <2>2
<1> QED BY <1>1, <1>4, <1>5, <1>8

\* An unregistration of the latest removes the last entry.
LEMMA UnregisteredRemoves ==
  ASSUME NEW v \in Slots, NEW s \in Iconsets, Packed(v), Has(v, s), v[NonNull(v)] = s,
         \A i, j \in DOMAIN v : v[i] = s /\ v[j] = s => i = j
  PROVE  /\ NonNull(v) \in DOMAIN Slotted(v) /\ Slotted(v)[NonNull(v)] = s
         /\ Slotted(Unregistered(v, s)) = RemoveAt(Slotted(v), NonNull(v))
<1>1. PICK r \in Slots : r = Unregistered(v, s)
  BY UnregisteredHolds
<1>2. PICK n \in Nat : n = NonNull(v)
  BY NonNullCounts
<1>3. Packed(r) /\ NonNull(r) = n - 1 /\ \A i \in 1 .. n - 1 : r[i] = v[i]
  BY <1>1, <1>2, UnregisteredPacks
<1>4. n - 1 \in Nat
  BY <1>3, NonNullCounts
<1>5. PICK e \in Seq(Iconsets) : e = Slotted(v)
  BY SlottedEntries
<1>6. PICK f \in Seq(Iconsets) : f = Slotted(r)
  BY <1>3, SlottedEntries
<1>7. Len(e) = n /\ DOMAIN e = 1 .. n /\ \A i \in 1 .. n : e[i] = v[i]
  BY <1>2, <1>5, SlottedEntries
<1>8. Len(f) = n - 1 /\ \A i \in 1 .. n - 1 : f[i] = r[i]
  BY <1>3, <1>6, SlottedEntries
<1>9. RemoveAt(e, n) = f
  <2>1. SubSeq(e, 1, n - 1) \in Seq(Iconsets) /\ Len(SubSeq(e, 1, n - 1)) = n - 1
    BY <1>4, <1>7
  <2>2. \A i \in 1 .. n - 1 : SubSeq(e, 1, n - 1)[i] = e[i]
    BY <1>4, <1>7
  <2>3. \A i \in 1 .. n - 1 : SubSeq(e, 1, n - 1)[i] = f[i]
    BY <1>3, <1>4, <1>7, <1>8, <2>2
  <2>4. SubSeq(e, 1, n - 1) = f
    BY <1>4, <1>8, <2>1, <2>3
  <2>5. SubSeq(e, n + 1, Len(e)) = << >>
    BY <1>7
  <2>6. f \o << >> = f
    OBVIOUS
  <2> QED BY <2>4, <2>5, <2>6 DEF RemoveAt
<1> QED BY <1>1, <1>2, <1>4, <1>5, <1>6, <1>7, <1>9

\* What RemoveFromFactory and Destroy have in common is an unregistration or, of an
\* iconset that is not registered, nothing.
LEMMA UnregisterAsPromised ==
  ASSUME FactoryInv, NEW s \in Iconsets, stacked, Latest(s), iconsets' = Unregistered(iconsets, s)
  PROVE  Registry!Unregister(s) \/ UNCHANGED Entries
<1>1. iconsets \in Slots /\ Packed(iconsets)
  BY DEF FactoryInv, TypeOK, Gapless, Slots
<1>2. Entries = Slotted(iconsets) /\ Entries' = Slotted(iconsets')
  BY DEF Entries, Slotted
<1>3. CASE Has(iconsets, s)
  <2>1. /\ iconsets[NonNull(iconsets)] = s
        /\ \A i, j \in DOMAIN iconsets : iconsets[i] = s /\ iconsets[j] = s => i = j
    BY <1>3, FactoryConstants DEF FactoryInv, NoDangling, Latest, Has
  <2>2. /\ NonNull(iconsets) \in DOMAIN Entries /\ Entries[NonNull(iconsets)] = s
        /\ Entries' = RemoveAt(Entries, NonNull(iconsets))
    BY <1>1, <1>2, <1>3, <2>1, UnregisteredRemoves
  <2>3. Entries' = Registry!RemoveAt(Entries, NonNull(iconsets))
    BY <2>2, Zenon DEF RemoveAt, Registry!RemoveAt
  <2> QED BY <2>2, <2>3, Zenon DEF Registry!Unregister
<1>4. CASE ~Has(iconsets, s)
  <2>1. \A i \in DOMAIN iconsets : iconsets[i] # s
    BY <1>4 DEF Has
  <2>2. Nulled(iconsets, s) = iconsets
    <3>1. DOMAIN iconsets = 1 .. Len(iconsets) /\ iconsets = [i \in DOMAIN iconsets |-> iconsets[i]]
      BY <1>1 DEF Slots
    <3> QED BY <2>1, <3>1 DEF Nulled
  <2>3. iconsets' = iconsets
    BY <1>4, <2>2 DEF Unregistered
  <2> QED BY <2>3 DEF Entries, NonNull
<1> QED BY <1>3, <1>4

\* As long as only the latest iconset is ever removed, the factory is the registry
\* it promises to be: each iconset is in it once, the oldest first.
THEOREM FactoryIsRegistry == Spec => IsRegistry
<1>1. Init => Registry!Init
  BY DEF Init, Registry!Init, Entries
<1>2. FactoryInv /\ [Next]_vars
        => [stacked' => (Registry!Next \/ UNCHANGED Entries)]_vars
  <2> SUFFICES ASSUME FactoryInv, Next, stacked'
               PROVE  Registry!Next \/ UNCHANGED Entries
    OBVIOUS
  <2>1. iconsets \in Slots
    BY DEF FactoryInv, TypeOK, Slots
  <2>2. ASSUME NEW s \in Iconsets, Construct(s)
        PROVE  UNCHANGED Entries
    BY <2>2 DEF Construct, Entries, NonNull
  <2>3. ASSUME NEW s \in Iconsets, AddToFactory(s)
        PROVE  Registry!Next \/ UNCHANGED Entries
    <3>1. Packed(iconsets) /\ iconsets' = Registered(iconsets, s)
      BY <2>3 DEF FactoryInv, Gapless, AddToFactory
    <3>2. CASE Has(iconsets, s)
      BY <3>1, <3>2 DEF Registered, Entries, NonNull
    <3>3. CASE ~Has(iconsets, s)
      <4>1. Entries' = Append(Entries, s)
        BY <2>1, <3>1, <3>3, RegisteredAppends DEF Entries, Slotted
      <4>2. \A i \in DOMAIN Entries : Entries[i] # s
        BY <2>1, <3>1, <3>3, SlottedEntries DEF Entries, Slotted, Has
      <4>3. Registry!Register(s)
        BY <4>1, <4>2 DEF Registry!Register, Registry!Registered, Registry!Range
      <4> QED BY <4>3 DEF Registry!Next
    <3> QED BY <3>2, <3>3
  <2>4. ASSUME NEW s \in Iconsets, RemoveFromFactory(s)
        PROVE  Registry!Next \/ UNCHANGED Entries
    BY <2>4, UnregisterAsPromised DEF RemoveFromFactory, Registry!Next
  <2>5. ASSUME NEW s \in Iconsets, Destroy(s)
        PROVE  Registry!Next \/ UNCHANGED Entries
    BY <2>5, UnregisterAsPromised DEF Destroy, Registry!Next
  <2> QED BY <2>2, <2>3, <2>4, <2>5 DEF Next
<1> QED BY <1>1, <1>2, FactoryInvariant, PTL DEF Spec, IsRegistry

=============================================================================
