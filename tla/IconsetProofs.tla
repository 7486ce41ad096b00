--------------------------- MODULE IconsetProofs ---------------------------
(***************************************************************************)
(* Theorems about Iconset, for every number of Iconset objects, names and  *)
(* icons and whatever the directories hold.                                *)
(***************************************************************************)
EXTENDS Iconset, FiniteSetTheorems, WellFoundedInduction, TLAPS

\* What isolation needs to know of the state: where each Iconset points.
PointersOK ==
  /\ d \in [Sets -> Privates \cup {None}]
  /\ list = [p \in Privates |-> list[p]]

\* A new Private is one that no Iconset holds.
LEMMA NewPrivateFree ==
  ASSUME FreePrivates # {}
  PROVE  NewPrivate \in FreePrivates
<1>1. FreePrivates \subseteq Nat
  BY IconsetConstants DEF FreePrivates
<1>2. PICK p \in FreePrivates : \A q \in FreePrivates : <<q, p>> \notin OpToRel(<, Nat)
  BY <1>1, NatLessThanWellFounded, WFMin
<1>3. ASSUME NEW q \in FreePrivates, q < p
      PROVE  FALSE
  <2>1. q \in Nat /\ p \in Nat
    BY <1>1
  <2>2. <<q, p>> \in {r \in Nat \X Nat : r[1] < r[2]}
    BY <1>3, <2>1
  <2>3. OpToRel(<, Nat) = {r \in Nat \X Nat : r[1] < r[2]}
    BY Zenon DEF OpToRel
  <2> QED BY <1>2, <2>2, <2>3
<1>4. \A q \in FreePrivates : p <= q
  BY <1>1, <1>3
<1> QED BY <1>4 DEF NewPrivate

\* detach() and the change that follows reach no Iconset but their own.
LEMMA ChangeIsolated ==
  ASSUME PointersOK, NEW s \in Sets, Exists(s), NEW l, Change(s, l)
  PROVE  PointersOK' /\ \A t \in Sets \ {s} : Icons(t)' = Icons(t)
<1> DEFINE p == IF Shared(s) THEN NewPrivate ELSE d[s]
<1>1. d[s] \in Privates /\ d \in [Sets -> Privates \cup {None}]
  BY DEF PointersOK, Exists
<1>2. p \in Privates /\ \A t \in Sets \ {s} : d[t] # p
  <2>1. CASE Shared(s)
    <3>1. NewPrivate \in FreePrivates
      BY <2>1, NewPrivateFree DEF Change
    <3> QED BY <2>1, <3>1 DEF FreePrivates, Holders
  <2>2. CASE ~Shared(s)
    BY <1>1, <2>2 DEF Shared
  <2> QED BY <2>1, <2>2
<1>3. d' = [d EXCEPT ![s] = p] /\ list' = [list EXCEPT ![p] = l]
  BY DEF Change
<1> HIDE DEF p
<1>4. PointersOK'
  BY <1>1, <1>2, <1>3 DEF PointersOK
<1>5. ASSUME NEW t \in Sets \ {s}
      PROVE  Icons(t)' = Icons(t)
  <2>1. d'[t] = d[t]
    BY <1>1, <1>3
  <2>2. d[t] # None => list'[d[t]] = list[d[t]]
    BY <1>1, <1>2, <1>3 DEF PointersOK
  <2> QED BY <2>1, <2>2 DEF Icons, Exists
<1> QED BY <1>4, <1>5

\* So do construction, assignment and destruction: what they delete no other
\* Iconset holds.
LEMMA ReferIsolated ==
  ASSUME PointersOK, NEW s \in Sets, NEW p \in Privates \cup {None}, Refer(s, p)
  PROVE  PointersOK' /\ \A t \in Sets \ {s} : Icons(t)' = Icons(t)
<1> DEFINE last == Exists(s) /\ ~Shared(s) /\ p # d[s]
<1>1. d \in [Sets -> Privates \cup {None}] /\ d' = [d EXCEPT ![s] = p]
  BY DEF PointersOK, Refer
<1>2. list' = IF last THEN [list EXCEPT ![d[s]] = NoIcons] ELSE list
  BY DEF Refer
<1>3. last => d[s] \in Privates /\ \A t \in Sets \ {s} : d[t] # d[s]
  BY <1>1 DEF Exists, Shared
<1> HIDE DEF last
<1>4. PointersOK'
  BY <1>1, <1>2, <1>3 DEF PointersOK
<1>5. ASSUME NEW t \in Sets \ {s}
      PROVE  Icons(t)' = Icons(t)
  <2>1. d'[t] = d[t]
    BY <1>1
  <2>2. d[t] # None => list'[d[t]] = list[d[t]]
    BY <1>1, <1>2, <1>3 DEF PointersOK
  <2> QED BY <2>1, <2>2 DEF Icons, Exists
<1> QED BY <1>4, <1>5

\* A step keeps the pointers apart and changes the icons of one iconset only.
LEMMA StepIsolated ==
  ASSUME PointersOK, Next
  PROVE  PointersOK' /\ \E s \in Sets : \A t \in Sets \ {s} : Icons(t)' = Icons(t)
<1>1. PICK s \in Sets :
        \/ Construct(s)
        \/ \E t \in Sets : Copy(s, t) \/ Assign(s, t) \/ AppendFrom(s, t)
        \/ Destroy(s)
        \/ \E n \in Names : RemoveIcon(s, n)
        \/ \E n \in OwnNames, v \in Images : SetIcon(s, n, v)
        \/ Clear(s)
        \/ \E dir \in Dirs : LoadNothing(s, dir) \/ Load(s, dir)
  BY DEF Next
<1>2. \A t \in Sets : d[t] \in Privates \cup {None}
  BY DEF PointersOK
<1> SUFFICES PointersOK' /\ \A t \in Sets \ {s} : Icons(t)' = Icons(t)
  OBVIOUS
<1>3. CASE Construct(s)
  <2>1. NewPrivate \in Privates
    BY <1>3, NewPrivateFree DEF Construct, FreePrivates
  <2> QED BY <1>3, <2>1, ReferIsolated DEF Construct
<1>4. CASE \E t \in Sets : Copy(s, t)
  BY <1>2, <1>4, ReferIsolated DEF Copy
<1>5. CASE \E t \in Sets : Assign(s, t)
  BY <1>2, <1>5, ReferIsolated DEF Assign
<1>6. CASE \E t \in Sets : AppendFrom(s, t)
  BY <1>6, ChangeIsolated DEF AppendFrom
<1>7. CASE Destroy(s)
  BY <1>7, ReferIsolated DEF Destroy
<1>8. CASE \E n \in Names : RemoveIcon(s, n)
  BY <1>8, ChangeIsolated DEF RemoveIcon
<1>9. CASE \E n \in OwnNames, v \in Images : SetIcon(s, n, v)
  BY <1>9, ChangeIsolated DEF SetIcon
<1>10. CASE Clear(s)
  BY <1>10, ChangeIsolated DEF Clear
<1>11. CASE \E dir \in Dirs : LoadNothing(s, dir)
  BY <1>11, ChangeIsolated DEF LoadNothing
<1>12. CASE \E dir \in Dirs : Load(s, dir)
  BY <1>12, ChangeIsolated DEF Load
<1> QED BY <1>1, <1>3, <1>4, <1>5, <1>6, <1>7, <1>8, <1>9, <1>10, <1>11, <1>12

\* In every execution every Iconset points to a Private or to nothing.
THEOREM IconsetPointers == Spec => []PointersOK
<1>1. Init => PointersOK
  BY DEF Init, PointersOK
<1>2. PointersOK /\ [Next]_vars => PointersOK'
  <2> SUFFICES ASSUME PointersOK, [Next]_vars
               PROVE  PointersOK'
    OBVIOUS
  <2>1. CASE Next
    BY <2>1, StepIsolated
  <2>2. CASE UNCHANGED vars
    BY <2>2 DEF vars, PointersOK
  <2> QED BY <2>1, <2>2
<1> QED BY <1>1, <1>2, PTL DEF Spec

\* Copies of an Iconset are independent: whatever is called on one, the icons of
\* the others stay as they are, though they may have shared their data.
THEOREM IconsetIsolation == Spec => OthersUntouched
<1>1. PointersOK /\ [Next]_vars
        => [\E s \in Sets : \A t \in Sets \ {s} : Icons(t)' = Icons(t)]_vars
  BY StepIsolated
<1> QED BY <1>1, IconsetPointers, PTL DEF Spec, OthersUntouched

-----------------------------------------------------------------------------
(***************************************************************************)
(* The inductive invariant behind TypeOK, FreshNames and IsValue.          *)
(***************************************************************************)

\* The icons a Private can have when the counter stands at c: none has a name that
\* is still to be given.
Maps(c) ==
  {l \in [Names -> Seq(Images)] : \A i \in c .. MaxCounter - 1 : l[Generated[i]] = << >>}

\* A Private that no Iconset holds is blank, so that the Iconset it is given to
\* next starts empty.
Blank == \A p \in FreePrivates : list[p] = NoIcons

IInv ==
  /\ d \in [Sets -> Privates \cup {None}]
  /\ list \in [Privates -> Maps(icon_counter)]
  /\ icon_counter \in 0 .. MaxCounter
  /\ Blank

\* The icons of a name in the order of the iterator are icons.
LEMMA ReverseType ==
  ASSUME NEW S, NEW q \in Seq(S)
  PROVE  /\ Reverse(q) \in Seq(S)
         /\ Len(Reverse(q)) = Len(q)
BY DEF Reverse

\* detach() makes up no names.
LEMMA DetachedInMaps ==
  ASSUME IInv, NEW s \in Sets, Exists(s)
  PROVE  Detached(s) \in Maps(icon_counter)
<1>1. d[s] \in Privates
  BY DEF IInv, Exists
<1>2. list[d[s]] \in Maps(icon_counter)
  BY <1>1 DEF IInv
<1>3. \A i \in icon_counter .. MaxCounter - 1 : Generated[i] \in Names
  BY IconsetConstants DEF IInv
<1>4. ASSUME NEW l \in Maps(icon_counter)
      PROVE  Copied(l) \in Maps(icon_counter)
  <2>1. \A n \in Names : Reverse(l[n]) \o NoIcons[n] \in Seq(Images)
    BY ReverseType DEF Maps, NoIcons
  <2>2. \A n \in Names : l[n] = << >> => Reverse(l[n]) \o NoIcons[n] = << >>
    BY ReverseType DEF Maps, NoIcons
  <2> QED BY <1>3, <2>1, <2>2 DEF Copied, Inserted, Maps
<1> QED BY <1>2, <1>4 DEF Detached

-----------------------------------------------------------------------------
(***************************************************************************)
(* load() is a fold over the positions of the icons in the document.       *)
(***************************************************************************)

LoadedFirst(e, acc) == LoadIcon(acc, e)
LastOne(S) == CHOOSE i \in S : \A j \in S : i >= j
Loads == INSTANCE FoldLemmas WITH Op <- LoadedFirst, Pick <- LastOne

\* The loop over the document, as a fold over its positions from first to last.
LEMMA LoadIsFold ==
  ASSUME NEW base, NEW seq
  PROVE  FoldLeft(LoadIcon, base, seq) = Loads!Fold(base, seq, DOMAIN seq)
BY Zenon DEF FoldLeft, MapThenFoldSet, Max, Loads!Fold, Loads!Folds, LoadedFirst, LastOne

\* What load() has made of the icons l once it has read the icons of c at the
\* positions in T: the counter has moved on by as many as they are; a name the
\* document gives has the last of its icons on top; the others are as they were,
\* or were fresh and have an icon that came without a name.
LoadsTo(acc, l, start, c, T) ==
  /\ acc \in [list : [Names -> Seq(Images)], counter : Nat]
  /\ acc.counter = start + Cardinality(T)
  /\ acc.list \in Maps(acc.counter)
  /\ \A n \in Names :
       IF \E i \in T : c[i].name = n
         THEN \E i \in T : /\ c[i].name = n
                           /\ \A j \in T : c[j].name = n => j <= i
                           /\ acc.list[n] # << >> /\ Head(acc.list[n]) = c[i].image
         ELSE \/ acc.list[n] = l[n]
              \/ l[n] = << >> /\ \E i \in T : c[i].name = None /\ acc.list[n] = <<c[i].image>>

\* What an icondef.xml can hold.
Documents == Seq([name : OwnNames \cup {None}, image : Images])

\* A sequence is a function on the numbers up to its length.
LEMMA SeqFacts ==
  ASSUME NEW S, NEW q \in Seq(S)
  PROVE  /\ Len(q) \in Nat /\ DOMAIN q = 1 .. Len(q)
         /\ \A i \in DOMAIN q : q[i] \in S
OBVIOUS

\* A document is a sequence of finitely many icons, each with a name or none
\* and an image.
LEMMA DocumentFacts ==
  ASSUME NEW c \in Documents
  PROVE  /\ Len(c) \in Nat /\ DOMAIN c = 1 .. Len(c)
         /\ IsFiniteSet(DOMAIN c) /\ Cardinality(DOMAIN c) = Len(c)
         /\ \A i \in DOMAIN c : c[i].name \in OwnNames \cup {None} /\ c[i].image \in Images
<1>1. PICK E : E = [name : OwnNames \cup {None}, image : Images]
  OBVIOUS
<1>2. c \in Seq(E)
  BY <1>1 DEF Documents
<1>3. /\ Len(c) \in Nat /\ DOMAIN c = 1 .. Len(c)
      /\ \A i \in DOMAIN c : c[i] \in E
  BY <1>2, SeqFacts
<1>4. \A e \in E : e.name \in OwnNames \cup {None} /\ e.image \in Images
  BY <1>1
<1>5. PICK k \in Nat : k = Len(c)
  BY <1>3
<1>6. IsFiniteSet(1 .. k) /\ Cardinality(1 .. k) = k
  BY FS_Interval
<1> QED BY <1>3, <1>4, <1>5, <1>6

\* The icon of a name put over those it has.
LEMMA ReplacedType ==
  ASSUME NEW icons \in Seq(Images), NEW v \in Images
  PROVE  /\ Replaced(icons, v) \in Seq(Images)
         /\ Replaced(icons, v) # << >>
         /\ Head(Replaced(icons, v)) = v
         /\ icons = << >> => Replaced(icons, v) = <<v>>
<1>1. Removed(icons) \in Seq(Images)
  BY DEF Removed
<1>2. icons = << >> => Removed(icons) = << >>
  BY DEF Removed
<1>3. \A q \in Seq(Images) : /\ <<v>> \o q \in Seq(Images) /\ <<v>> \o q # << >>
                             /\ Head(<<v>> \o q) = v /\ (q = << >> => <<v>> \o q = <<v>>)
  <2> SUFFICES ASSUME NEW q \in Seq(Images)
               PROVE  /\ <<v>> \o q \in Seq(Images) /\ <<v>> \o q # << >>
                      /\ Head(<<v>> \o q) = v /\ (q = << >> => <<v>> \o q = <<v>>)
    OBVIOUS
  <2>1. <<v>> \in Seq(Images) /\ Len(<<v>>) = 1
    OBVIOUS
  <2>2. <<v>> \o q \in Seq(Images) /\ Len(<<v>> \o q) = 1 + Len(q) /\ Len(q) \in Nat
    BY <2>1
  <2>3. (<<v>> \o q)[1] = v
    OBVIOUS
  <2>4. Head(<<v>> \o q) = v
    BY <2>2, <2>3
  <2>5. q = << >> => <<v>> \o q = <<v>>
    BY <2>1
  <2> QED BY <2>2, <2>4, <2>5
<1> QED BY <1>1, <1>2, <1>3 DEF Replaced

\* One icon more, with or without a name.
LEMMA LoadOneMore ==
  ASSUME NEW c \in Documents,
         NEW start \in Nat, start + Len(c) <= MaxCounter, NEW l \in Maps(start),
         NEW T \in SUBSET DOMAIN c, NEW x \in T, \A j \in T : j <= x,
         NEW acc, LoadsTo(acc, l, start, c, T \ {x})
  PROVE  LoadsTo(LoadedFirst(c[x], acc), l, start, c, T)
<1>1. IsFiniteSet(T) /\ Cardinality(T) \in Nat /\ Cardinality(T) <= Len(c)
  <2>1. IsFiniteSet(DOMAIN c) /\ Cardinality(DOMAIN c) = Len(c)
    BY DocumentFacts
  <2> QED BY <2>1, FS_Subset, FS_CardinalityType
<1>2. Cardinality(T \ {x}) = Cardinality(T) - 1 /\ Cardinality(T \ {x}) \in Nat
  <2>1. IsFiniteSet(T \ {x})
    BY <1>1, FS_Subset
  <2> QED BY <1>1, <2>1, FS_RemoveElement, FS_CardinalityType
<1>3. /\ acc \in [list : [Names -> Seq(Images)], counter : Nat]
      /\ acc.counter = start + Cardinality(T) - 1
      /\ acc.list \in Maps(acc.counter)
  BY <1>1, <1>2 DEF LoadsTo
<1>4. c[x].name \in OwnNames \cup {None} /\ c[x].image \in Images
  BY DocumentFacts
<1>5. PICK n : n = IF c[x].name = None THEN Generated[acc.counter] ELSE c[x].name
  OBVIOUS
<1>6. acc.counter \in 0 .. MaxCounter - 1 /\ MaxCounter \in Nat
  BY <1>1, <1>3, IconsetConstants
<1>7. n \in Names /\ None \notin Names
  BY <1>4, <1>5, <1>6, IconsetConstants DEF OwnNames
<1>8. PICK r : r = LoadedFirst(c[x], acc)
  OBVIOUS
<1>9. /\ r \in [list : [Names -> Seq(Images)], counter : Nat]
      /\ r.counter = acc.counter + 1
      /\ r.list = [acc.list EXCEPT ![n] = Replaced(@, c[x].image)]
  <2>1. r = [acc EXCEPT !.list[n] = Replaced(@, c[x].image), !.counter = @ + 1]
    BY <1>5, <1>8, Zenon DEF LoadedFirst, LoadIcon
  <2>2. acc.list[n] \in Seq(Images)
    BY <1>3, <1>7
  <2>3. Replaced(acc.list[n], c[x].image) \in Seq(Images)
    BY <1>4, <2>2, ReplacedType
  <2>4. PICK w \in Seq(Images) : w = Replaced(acc.list[n], c[x].image)
    BY <2>3
  <2>5. [acc.list EXCEPT ![n] = w] \in [Names -> Seq(Images)]
    BY <1>3, <1>7
  <2>6. r = [list |-> [acc.list EXCEPT ![n] = w], counter |-> acc.counter + 1]
    BY <1>3, <2>1, <2>4
  <2> QED BY <1>3, <2>4, <2>5, <2>6
<1>10. r.list \in Maps(r.counter)
  <2> SUFFICES ASSUME NEW i \in r.counter .. MaxCounter - 1
               PROVE  r.list[Generated[i]] = << >>
    BY <1>9 DEF Maps
  <2>1. i \in acc.counter .. MaxCounter - 1 /\ i # acc.counter /\ i \in 0 .. MaxCounter - 1
    BY <1>6, <1>9
  <2>2. Generated[i] # n /\ Generated[i] \in Names
    BY <1>4, <1>5, <1>6, <2>1, IconsetConstants DEF OwnNames
  <2>3. acc.list[Generated[i]] = << >>
    BY <1>3, <2>1 DEF Maps
  <2> QED BY <1>3, <1>9, <2>2, <2>3
<1>11. ASSUME NEW m \in Names
       PROVE  IF \E i \in T : c[i].name = m
                THEN \E i \in T : /\ c[i].name = m
                                  /\ \A j \in T : c[j].name = m => j <= i
                                  /\ r.list[m] # << >> /\ Head(r.list[m]) = c[i].image
                ELSE \/ r.list[m] = l[m]
                     \/ l[m] = << >> /\ \E i \in T : c[i].name = None /\ r.list[m] = <<c[i].image>>
  <2>1. CASE c[x].name = m
    <3>1. n = m
      BY <1>5, <1>7, <2>1
    <3>2. r.list[m] = Replaced(acc.list[m], c[x].image) /\ acc.list[m] \in Seq(Images)
      BY <1>3, <1>9, <3>1
    <3>3. r.list[m] # << >> /\ Head(r.list[m]) = c[x].image
      <4>1. PICK o \in Seq(Images) : o = acc.list[m]
        BY <3>2
      <4>2. PICK v \in Images : v = c[x].image
        BY <1>4
      <4>3. Replaced(o, v) # << >> /\ Head(Replaced(o, v)) = v
        BY ReplacedType, Zenon
      <4> QED BY <3>2, <4>1, <4>2, <4>3
    <3> QED BY <2>1, <3>3
  <2>2. CASE c[x].name # m
    <3>1. IF \E i \in T \ {x} : c[i].name = m
            THEN \E i \in T \ {x} :
                   /\ c[i].name = m
                   /\ \A j \in T \ {x} : c[j].name = m => j <= i
                   /\ acc.list[m] # << >> /\ Head(acc.list[m]) = c[i].image
            ELSE \/ acc.list[m] = l[m]
                 \/ /\ l[m] = << >>
                    /\ \E i \in T \ {x} : c[i].name = None /\ acc.list[m] = <<c[i].image>>
      BY DEF LoadsTo
    <3>2. CASE n # m
      <4>1. r.list[m] = acc.list[m]
        BY <1>3, <1>9, <3>2
      <4> QED BY <2>2, <3>1, <4>1
    <3>3. CASE n = m
      <4>1. c[x].name = None /\ m = Generated[acc.counter]
        BY <1>5, <2>2, <3>3
      <4>2. \A i \in T : c[i].name # m
        <5>1. m \notin OwnNames \cup {None}
          BY <1>6, <1>7, <4>1 DEF OwnNames
        <5> QED BY <5>1, DocumentFacts
      <4>3. acc.list[m] = << >> /\ l[m] = << >>
        <5>1. acc.counter \in acc.counter .. MaxCounter - 1
              /\ acc.counter \in start .. MaxCounter - 1
          BY <1>1, <1>2, <1>3, <1>6
        <5> QED BY <1>3, <4>1, <5>1 DEF Maps
      <4>4. r.list[m] = <<c[x].image>>
        <5>1. r.list[m] = Replaced(<< >>, c[x].image)
          BY <1>3, <1>9, <3>3, <4>3
        <5>2. << >> \in Seq(Images)
          OBVIOUS
        <5> QED BY <1>4, <5>1, <5>2, ReplacedType
      <4> QED BY <4>1, <4>2, <4>3, <4>4
    <3> QED BY <3>2, <3>3
  <2> QED BY <2>1, <2>2
<1>12. r.counter = start + Cardinality(T)
  BY <1>1, <1>3, <1>9
<1>13. LoadsTo(r, l, start, c, T)
  BY <1>9, <1>10, <1>11, <1>12, Zenon DEF LoadsTo
<1> QED BY <1>8, <1>13

\* The whole document.
LEMMA LoadsAll ==
  ASSUME NEW c \in Documents,
         NEW start \in Nat, start + Len(c) <= MaxCounter, NEW l \in Maps(start)
  PROVE  LoadsTo(FoldLeft(LoadIcon, [list |-> l, counter |-> start], c), l, start, c, DOMAIN c)
<1> DEFINE base == [list |-> l, counter |-> start]
           D == DOMAIN c
           Whole == {T \in SUBSET D : LoadsTo(Loads!Fold(base, c, T), l, start, c, T)}
<1>1. D = 1 .. Len(c) /\ Len(c) \in Nat /\ IsFiniteSet(D)
  BY DocumentFacts
<1>2. Loads!Foldable(D) /\ \A T \in SUBSET D : T # {} => \A j \in T : j <= LastOne(T)
  <2>1. PICK k \in Nat : k = Len(c)
    BY <1>1
  <2>2. \A S \in SUBSET (1 .. k) : LastOne(S) = CHOOSE i \in S : \A j \in S : i >= j
    BY Zenon DEF LastOne
  <2>3. Loads!Foldable(1 .. k) /\ \A T \in SUBSET (1 .. k) : T # {} => \A j \in T : j <= LastOne(T)
    BY <2>2, Loads!GreatestLast, Zenon
  <2> QED BY <1>1, <2>1, <2>3
<1>3. {} \in Whole
  <2>1. Loads!Fold(base, c, {}) = base
    BY Loads!FoldEmpty, Zenon
  <2>2. base \in [list : [Names -> Seq(Images)], counter : Nat] /\ base.counter = start
        /\ base.list = l
    BY DEF Maps
  <2>3. Cardinality({}) = 0
    BY FS_EmptySet
  <2> HIDE DEF base
  <2>4. LoadsTo(base, l, start, c, {})
    BY <2>2, <2>3 DEF LoadsTo
  <2> QED BY <2>1, <2>4
<1>4. ASSUME NEW T \in SUBSET D, T # {}, \A x \in T : T \ {x} \in Whole
      PROVE  T \in Whole
  <2>1. PICK x : x = LastOne(T)
    OBVIOUS
  <2>2. x \in T /\ \A j \in T : j <= x
    BY <1>2, <1>4, <2>1 DEF Loads!Foldable
  <2> HIDE DEF base
  <2>3. Loads!Fold(base, c, T) = LoadedFirst(c[x], Loads!Fold(base, c, T \ {x}))
    <3>1. \A U \in SUBSET D : U # {} =>
            LastOne(U) \in U /\ Loads!Fold(base, c, U)
                               = LoadedFirst(c[LastOne(U)], Loads!Fold(base, c, U \ {LastOne(U)}))
      BY <1>2, Loads!FoldPicks, Zenon
    <3> QED BY <1>4, <2>1, <3>1
  <2>4. LoadsTo(Loads!Fold(base, c, T \ {x}), l, start, c, T \ {x})
    BY <1>4, <2>2
  <2>5. LoadsTo(LoadedFirst(c[x], Loads!Fold(base, c, T \ {x})), l, start, c, T)
    BY <2>2, <2>4, LoadOneMore, Zenon
  <2> QED BY <2>3, <2>5
<1>5. D \in Whole
  <2> HIDE DEF Whole
  <2>1. Loads!IsFiniteSet(D)
    BY <1>2 DEF Loads!Foldable
  <2>2. \A T \in SUBSET D : T \in Whole
    BY <1>3, <1>4, <2>1, Loads!SetInduct, Zenon
  <2> QED BY <2>2
<1>6. FoldLeft(LoadIcon, base, c) = Loads!Fold(base, c, D)
  BY LoadIsFold, Zenon
<1> QED BY <1>5, <1>6

-----------------------------------------------------------------------------
(***************************************************************************)
(* Each way the code changes an Iconset keeps the invariant.               *)
(***************************************************************************)

\* The map without icons fits every value of the counter.
LEMMA NoIconsInMaps == ASSUME NEW c \in Nat PROVE NoIcons \in Maps(c)
BY IconsetConstants DEF NoIcons, Maps

\* Names given away stay given away.
LEMMA MapsGrow ==
  ASSUME NEW k \in Nat, NEW c \in Nat, k <= c
  PROVE  Maps(k) \subseteq Maps(c)
<1>1. MaxCounter \in Nat
  BY IconsetConstants
<1>2. \A i \in c .. MaxCounter - 1 : i \in k .. MaxCounter - 1
  BY <1>1
<1> QED BY <1>2 DEF Maps

\* After detach() and the change s has a Private with the icons l to itself.
LEMMA ChangeKeeps ==
  ASSUME IInv, NEW s \in Sets, Exists(s), NEW c \in icon_counter .. MaxCounter,
         icon_counter' = c, NEW l \in Maps(c), Change(s, l)
  PROVE  IInv' /\ Exists(s)' /\ list'[d'[s]] = l /\ d'[s] \in Privates
<1> DEFINE p == IF Shared(s) THEN NewPrivate ELSE d[s]
<1>1. /\ d[s] \in Privates /\ d \in [Sets -> Privates \cup {None}] /\ None \notin Privates
      /\ list \in [Privates -> Maps(icon_counter)]
      /\ icon_counter \in Nat /\ c \in 0 .. MaxCounter /\ icon_counter <= c
  BY IconsetConstants DEF IInv, Exists
<1>2. p \in Privates /\ \A t \in Sets \ {s} : d[t] # p
  <2>1. CASE Shared(s)
    <3>1. NewPrivate \in FreePrivates
      BY <2>1, NewPrivateFree DEF Change
    <3> QED BY <2>1, <3>1 DEF FreePrivates, Holders
  <2>2. CASE ~Shared(s)
    BY <1>1, <2>2 DEF Shared
  <2> QED BY <2>1, <2>2
<1>3. d' = [d EXCEPT ![s] = p] /\ list' = [list EXCEPT ![p] = l]
  BY DEF Change
<1>4. ~Shared(s) => p = d[s]
  OBVIOUS
<1> HIDE DEF p
<1>5. d' \in [Sets -> Privates \cup {None}] /\ d'[s] = p
  BY <1>1, <1>2, <1>3
<1>6. list' \in [Privates -> Maps(c)] /\ list'[p] = l
  <2>1. Maps(icon_counter) \subseteq Maps(c)
    BY <1>1, MapsGrow
  <2> QED BY <1>1, <1>2, <1>3, <2>1
<1>7. Blank'
  <2> SUFFICES ASSUME NEW q \in Privates, (Holders(q) = {})' PROVE list'[q] = NoIcons
    BY DEF Blank, FreePrivates, NoIcons
  <2>1. \A t \in Sets : d'[t] # q
    BY DEF Holders
  <2>2. q # p /\ \A t \in Sets \ {s} : d[t] # q
    BY <1>1, <1>3, <1>5, <2>1
  <2>3. d[s] # q
    BY <1>1, <1>4, <2>2 DEF Shared
  <2>4. q \in FreePrivates
    BY <2>2, <2>3 DEF FreePrivates, Holders
  <2> QED BY <1>1, <1>3, <2>2, <2>4 DEF Blank, IInv
<1>8. IInv'
  BY <1>1, <1>5, <1>6, <1>7 DEF IInv
<1> QED BY <1>1, <1>2, <1>5, <1>6, <1>8 DEF Exists

\* A Private that loses its last Iconset is blanked, so that the invariant holds.
LEMMA ReferKeeps ==
  ASSUME IInv, NEW s \in Sets, NEW p \in Privates \cup {None}, Refer(s, p), UNCHANGED icon_counter
  PROVE  IInv' /\ d'[s] = p /\ \A q \in Privates : q # d[s] => list'[q] = list[q]
<1> DEFINE last == Exists(s) /\ ~Shared(s) /\ p # d[s]
<1>1. /\ d \in [Sets -> Privates \cup {None}] /\ d' = [d EXCEPT ![s] = p]
      /\ list \in [Privates -> Maps(icon_counter)] /\ icon_counter \in Nat
  BY IconsetConstants DEF IInv, Refer
<1>2. list' = IF last THEN [list EXCEPT ![d[s]] = NoIcons] ELSE list
  BY DEF Refer
<1>3. \A q \in Privates : list'[q] = list[q] \/ list'[q] = NoIcons
  BY <1>1, <1>2
<1>4. list' \in [Privates -> Maps(icon_counter)]
  BY <1>1, <1>2, NoIconsInMaps
<1>5. Blank'
  <2> SUFFICES ASSUME NEW q \in Privates, (Holders(q) = {})' PROVE list'[q] = NoIcons
    BY DEF Blank, FreePrivates, NoIcons
  <2>1. \A t \in Sets : d'[t] # q
    BY DEF Holders
  <2>2. q # p /\ \A t \in Sets \ {s} : d[t] # q
    BY <1>1, <2>1
  <2>3. CASE d[s] = q
    <3>1. last
      BY <2>2, <2>3, IconsetConstants DEF Exists, Shared
    <3> QED BY <1>1, <1>2, <2>3, <3>1
  <2>4. CASE d[s] # q
    <3>1. q \in FreePrivates
      BY <2>2, <2>4 DEF FreePrivates, Holders
    <3> QED BY <1>3, <3>1 DEF Blank, IInv
  <2> QED BY <2>3, <2>4
<1>6. IInv'
  BY <1>1, <1>4, <1>5 DEF IInv
<1> QED BY <1>1, <1>2, <1>6

\* A name that is not made up gets icons, or loses one, and none that is still to
\* be given is taken.
LEMMA OneNameInMaps ==
  ASSUME NEW c \in Nat, NEW l \in Maps(c), NEW n \in Names, NEW q \in Seq(Images),
         n \in OwnNames \/ (l[n] = << >> => q = << >>)
  PROVE  [l EXCEPT ![n] = q] \in Maps(c)
<1>1. l \in [Names -> Seq(Images)]
  BY DEF Maps
<1>2. ASSUME NEW i \in c .. MaxCounter - 1
      PROVE  [l EXCEPT ![n] = q][Generated[i]] = << >>
  <2>1. i \in 0 .. MaxCounter - 1 /\ Generated[i] \in Names /\ Generated[i] \notin OwnNames
    BY IconsetConstants DEF OwnNames
  <2>2. l[Generated[i]] = << >>
    BY DEF Maps
  <2> QED BY <1>1, <2>1, <2>2
<1> QED BY <1>1, <1>2 DEF Maps

\* What is inserted from one Iconset into another takes no fresh name.
LEMMA InsertedInMaps ==
  ASSUME NEW c \in Nat, NEW l \in Maps(c), NEW m \in Maps(c)
  PROVE  Inserted(l, m) \in Maps(c)
<1>1. \A n \in Names : l[n] \in Seq(Images) /\ m[n] \in Seq(Images)
  BY DEF Maps
<1>2. \A n \in Names : Reverse(l[n]) \o m[n] \in Seq(Images)
  BY <1>1, ReverseType
<1>3. \A n \in Names : l[n] = << >> /\ m[n] = << >> => Reverse(l[n]) \o m[n] = << >>
  BY <1>1, ReverseType
<1>4. \A i \in c .. MaxCounter - 1 : Generated[i] \in Names
  BY IconsetConstants
<1> QED BY <1>2, <1>3, <1>4 DEF Inserted, Maps

-----------------------------------------------------------------------------
(***************************************************************************)
(* What the icons of an Iconset look like from outside: those in sight.    *)
(***************************************************************************)

InSight(l) == [n \in Names |-> IF l[n] = << >> THEN None ELSE Head(l[n])]

\* No name has a second icon.
ShortMap(l) == \A n \in Names : Len(l[n]) <= 1

\* What find() answers for each name is an image or nothing, and not nothing
\* altogether.
LEMMA InSightType ==
  ASSUME NEW l \in [Names -> Seq(Images)]
  PROVE  InSight(l) \in [Names -> Images \cup {None}] /\ InSight(l) # None
<1>1. ASSUME NEW n \in Names
      PROVE  (IF l[n] = << >> THEN None ELSE Head(l[n])) \in Images \cup {None}
  <2>1. PICK q \in Seq(Images) : q = l[n]
    OBVIOUS
  <2>2. q # << >> => Head(q) \in Images
    OBVIOUS
  <2> QED BY <2>1, <2>2
<1>2. InSight(l) \in [Names -> Images \cup {None}]
  BY <1>1 DEF InSight
<1> QED BY <1>2, IconsetConstants

\* An Iconset exists as a value if and only if it does.
LEMMA SameExist ==
  ASSUME IInv, NEW s \in Sets
  PROVE  /\ Value!Exists(s) <=> Exists(s)
         /\ Exists(s) => /\ list[d[s]] \in [Names -> Seq(Images)]
                         /\ Icons(s) = InSight(list[d[s]])
         /\ ~Exists(s) => Icons(s) = None
<1>1. Exists(s) => list[d[s]] \in [Names -> Seq(Images)]
  BY DEF IInv, Exists, Maps
<1>2. Exists(s) => Icons(s) = InSight(list[d[s]])
  BY DEF Icons, InSight
<1>3. ~Exists(s) => Icons(s) = None
  BY DEF Icons
<1> QED BY <1>1, <1>2, <1>3, InSightType DEF Value!Exists

\* Only the value of s becomes another.
LEMMA BecomesFrom ==
  ASSUME NEW s \in Sets, NEW v, Icons(s)' = v, \A t \in Sets \ {s} : Icons(t)' = Icons(t)
  PROVE  Value!Becomes(s, v)
BY DEF Value!Becomes

\* A sequence of at most one icon reads the same from both ends.
LEMMA ReverseShort ==
  ASSUME NEW S, NEW q \in Seq(S), Len(q) <= 1
  PROVE  Reverse(q) = q
<1>1. Reverse(q) \in Seq(S) /\ Len(Reverse(q)) = Len(q)
  BY ReverseType
<1>2. \A i \in 1 .. Len(q) : Reverse(q)[i] = q[i]
  BY DEF Reverse
<1> QED BY <1>1, <1>2

\* detach() copies icons that have a name each as they are.
LEMMA DetachedShort ==
  ASSUME IInv, NEW s \in Sets, Exists(s), ShortMap(list[d[s]])
  PROVE  Detached(s) = list[d[s]]
<1>1. PICK l : l = list[d[s]]
  OBVIOUS
<1>2. l \in [Names -> Seq(Images)]
  BY <1>1, SameExist
<1>3. ASSUME NEW n \in Names
      PROVE  Reverse(l[n]) \o NoIcons[n] = l[n]
  <2>1. l[n] \in Seq(Images) /\ Reverse(l[n]) = l[n]
    BY <1>1, <1>2, ReverseShort DEF ShortMap
  <2>2. \A q \in Seq(Images) : q \o << >> = q
    OBVIOUS
  <2> QED BY <2>1, <2>2 DEF NoIcons
<1>4. Copied(l) = l
  BY <1>2, <1>3 DEF Copied, Inserted
<1> QED BY <1>1, <1>4 DEF Detached

\* An icon set or removed, as seen from outside.
LEMMA InSightReplaced ==
  ASSUME NEW l \in [Names -> Seq(Images)], NEW n \in Names, NEW v \in Images
  PROVE  InSight([l EXCEPT ![n] = Replaced(@, v)]) = [InSight(l) EXCEPT ![n] = v]
<1>1. PICK q \in Seq(Images) : q = Replaced(l[n], v)
  BY ReplacedType
<1>2. q # << >> /\ Head(q) = v
  BY <1>1, ReplacedType
<1> QED BY <1>1, <1>2 DEF InSight

\* Where no name has two icons, removing one leaves nothing in sight under its
\* name.
LEMMA InSightRemoved ==
  ASSUME NEW l \in [Names -> Seq(Images)], ShortMap(l), NEW n \in Names
  PROVE  InSight([l EXCEPT ![n] = Removed(@)]) = [InSight(l) EXCEPT ![n] = None]
<1>1. Removed(l[n]) = << >>
  <2>1. PICK q \in Seq(Images) : q = l[n]
    OBVIOUS
  <2>2. Len(q) <= 1
    BY <2>1 DEF ShortMap
  <2>3. q # << >> => Tail(q) = << >>
    BY <2>2
  <2> QED BY <2>1, <2>3 DEF Removed
<1> QED BY <1>1 DEF InSight

\* Icons inserted where their names are not taken overlay what was there.
LEMMA InSightInserted ==
  ASSUME NEW l \in [Names -> Seq(Images)], NEW m \in [Names -> Seq(Images)],
         ShortMap(Inserted(l, m))
  PROVE  InSight(Inserted(l, m)) = Value!Overlay(InSight(l), InSight(m))
<1>1. ASSUME NEW n \in Names
      PROVE  InSight(Inserted(l, m))[n]
               = IF InSight(l)[n] # None THEN InSight(l)[n] ELSE InSight(m)[n]
  <2>1. PICK a \in Seq(Images), b \in Seq(Images) : a = l[n] /\ b = m[n]
    OBVIOUS
  <2>2. Inserted(l, m)[n] = Reverse(a) \o b
    BY <2>1 DEF Inserted
  <2>3. Reverse(a) \in Seq(Images) /\ Len(Reverse(a)) = Len(a)
    BY ReverseType
  <2>4. Len(a) + Len(b) <= 1 /\ Len(a) \in Nat /\ Len(b) \in Nat
    BY <2>2, <2>3 DEF ShortMap
  <2>5. Reverse(a) = a
    BY <2>4, ReverseShort
  <2>6. CASE a = << >>
    <3>1. a \o b = b
      BY <2>6
    <3> QED BY <2>1, <2>2, <2>5, <2>6, <3>1 DEF InSight
  <2>7. CASE a # << >>
    <3>1. b = << >> /\ a \o b = a /\ Head(a) \in Images
      BY <2>4, <2>7
    <3> QED BY <2>1, <2>2, <2>5, <2>7, <3>1, IconsetConstants DEF InSight
  <2> QED BY <2>6, <2>7
<1> QED BY <1>1 DEF InSight, Value!Overlay

\* What load() reads is what the promise allows it to.
LEMMA LoadedAsPromised ==
  ASSUME NEW c \in Documents, NEW start \in Nat, NEW l \in Maps(start), NEW acc,
         LoadsTo(acc, l, start, c, DOMAIN c)
  PROVE  InSight(acc.list) \in Value!Loaded(c, InSight(l))
<1>1. acc.list \in [Names -> Seq(Images)] /\ l \in [Names -> Seq(Images)]
  BY DEF LoadsTo, Maps
<1>2. InSight(acc.list) \in [Names -> Images \cup {None}]
  BY <1>1, InSightType
<1>3. ASSUME NEW n \in Names
      PROVE  IF Value!Defined(c, n) # {}
               THEN InSight(acc.list)[n] = Value!LastOf(c, n)
               ELSE \/ InSight(acc.list)[n] = InSight(l)[n]
                    \/ /\ InSight(l)[n] = None
                       /\ \E i \in Value!Defined(c, None) : InSight(acc.list)[n] = c[i].image
  <2>1. CASE Value!Defined(c, n) # {}
    <3>1. PICK i \in DOMAIN c : /\ c[i].name = n
                                /\ \A j \in DOMAIN c : c[j].name = n => j <= i
                                /\ acc.list[n] # << >> /\ Head(acc.list[n]) = c[i].image
      BY <2>1 DEF LoadsTo, Value!Defined
    <3>2. PICK S : S = Value!Defined(c, n)
      OBVIOUS
    <3>3. S \in SUBSET Int /\ i \in S /\ \A j \in S : j <= i
      BY <3>1, <3>2, DocumentFacts DEF Value!Defined
    <3>4. ASSUME NEW k \in S, \A j \in S : j <= k
          PROVE  k = i
      <4>1. k \in Int /\ i \in Int /\ k <= i /\ i <= k
        BY <3>3, <3>4
      <4> QED BY <4>1
    <3>5. (CHOOSE k \in S : \A j \in S : j <= k) = i
      BY <3>3, <3>4, Zenon
    <3> QED BY <2>1, <3>1, <3>2, <3>5 DEF Value!LastOf, InSight
  <2>2. CASE Value!Defined(c, n) = {}
    <3>1. \/ acc.list[n] = l[n]
          \/ l[n] = << >> /\ \E i \in DOMAIN c : c[i].name = None /\ acc.list[n] = <<c[i].image>>
      BY <2>2 DEF LoadsTo, Value!Defined
    <3>2. CASE acc.list[n] = l[n]
      BY <2>2, <3>2 DEF InSight
    <3>3. CASE l[n] = << >> /\ \E i \in DOMAIN c : c[i].name = None /\ acc.list[n] = <<c[i].image>>
      <4>1. PICK i \in DOMAIN c : c[i].name = None /\ acc.list[n] = <<c[i].image>>
        BY <3>3
      <4>2. i \in Value!Defined(c, None)
        BY <4>1 DEF Value!Defined
      <4>3. InSight(acc.list)[n] = c[i].image /\ InSight(l)[n] = None
        <5>1. <<c[i].image>> # << >> /\ Head(<<c[i].image>>) = c[i].image
          OBVIOUS
        <5> QED BY <3>3, <4>1, <5>1 DEF InSight
      <4> QED BY <2>2, <4>2, <4>3
    <3> QED BY <3>1, <3>2, <3>3
  <2> QED BY <2>1, <2>2
<1> QED BY <1>2, <1>3 DEF Value!Loaded

\* A change shows what it leaves in the Private, and only in s.
LEMMA ChangeShows ==
  ASSUME IInv, NEW s \in Sets, Exists(s), NEW c \in icon_counter .. MaxCounter,
         icon_counter' = c, NEW l \in Maps(c), Change(s, l)
  PROVE  IInv' /\ Value!Becomes(s, InSight(l))
<1>1. IInv' /\ Exists(s)' /\ list'[d'[s]] = l
  BY ChangeKeeps
<1>2. PointersOK
  BY DEF IInv, PointersOK
<1>3. \A t \in Sets \ {s} : Icons(t)' = Icons(t)
  BY <1>2, ChangeIsolated
<1>4. Icons(s)' = InSight(l)
  BY <1>1 DEF Icons, InSight
<1> QED BY <1>1, <1>3, <1>4, BecomesFrom

\* A new reference shows the icons behind it, and only in s.
LEMMA ReferShows ==
  ASSUME IInv, NEW s \in Sets, NEW p \in Privates \cup {None}, Refer(s, p),
         UNCHANGED icon_counter, p # None => p # d[s] \/ list'[p] = list[p]
  PROVE  IInv' /\ Value!Becomes(s, IF p = None THEN None ELSE InSight(list[p]))
<1>1. IInv' /\ d'[s] = p /\ \A q \in Privates : q # d[s] => list'[q] = list[q]
  BY ReferKeeps
<1>2. PointersOK
  BY DEF IInv, PointersOK
<1>3. \A t \in Sets \ {s} : Icons(t)' = Icons(t)
  BY <1>2, ReferIsolated
<1>4. Icons(s)' = IF p = None THEN None ELSE InSight(list[p])
  BY <1>1 DEF Icons, InSight, Exists
<1> QED BY <1>1, <1>3, <1>4, BecomesFrom

-----------------------------------------------------------------------------
(***************************************************************************)
(* One lemma for each call: it keeps the invariant, and as long as no name *)
(* has a second icon before and after it is what IconsetValue promises.    *)
(***************************************************************************)

Promised == Single /\ Single' => Value!Next \/ UNCHANGED [s \in Sets |-> Icons(s)]

\* What the invariant says of one iconset: where its data are, and what it
\* shows.
LEMMA Storage ==
  ASSUME IInv, NEW s \in Sets, Exists(s)
  PROVE  /\ d[s] \in Privates /\ list[d[s]] \in Maps(icon_counter)
         /\ list[d[s]] \in [Names -> Seq(Images)]
         /\ icon_counter \in icon_counter .. MaxCounter /\ icon_counter \in Nat
         /\ Value!Exists(s) /\ Icons(s) = InSight(list[d[s]])
         /\ Single => ShortMap(list[d[s]])
<1>1. d[s] \in Privates /\ icon_counter \in 0 .. MaxCounter
  BY DEF IInv, Exists
<1>2. list[d[s]] \in Maps(icon_counter)
  BY <1>1 DEF IInv
<1>3. Single => ShortMap(list[d[s]])
  BY <1>1 DEF Single, ShortMap
<1> QED BY <1>1, <1>2, <1>3, SameExist, IconsetConstants DEF Maps

\* Iconset(): an iconset with storage of its own and no icons.
LEMMA ConstructPromised ==
  ASSUME IInv, NEW s \in Sets, Construct(s)
  PROVE  IInv' /\ Value!Construct(s)
<1>1. NewPrivate \in FreePrivates
  BY NewPrivateFree DEF Construct
<1>2. NewPrivate \in Privates /\ list[NewPrivate] = NoIcons
  BY <1>1 DEF FreePrivates, Blank, IInv
<1>3. NewPrivate # d[s] /\ NewPrivate # None
  BY <1>2, IconsetConstants DEF Construct, Exists
<1>4. IInv' /\ Value!Becomes(s, InSight(list[NewPrivate]))
  BY <1>2, <1>3, ReferShows DEF Construct
<1>5. InSight(NoIcons) = Value!Empty
  BY DEF InSight, NoIcons, Value!Empty
<1>6. ~Value!Exists(s)
  BY SameExist DEF Construct
<1> QED BY <1>2, <1>4, <1>5, <1>6 DEF Value!Construct

\* The copy constructor shares the storage: the same icons, twice in sight.
LEMMA CopyPromised ==
  ASSUME IInv, NEW s \in Sets, NEW t \in Sets, Copy(s, t)
  PROVE  IInv' /\ Value!Copy(s, t)
<1>1. ~Exists(s) /\ Exists(t) /\ Refer(s, d[t]) /\ UNCHANGED icon_counter
  BY DEF Copy
<1>2. d[t] \in Privates /\ Icons(t) = InSight(list[d[t]]) /\ Value!Exists(t)
  BY <1>1, Storage
<1>3. d[t] # d[s] /\ d[t] # None
  BY <1>1 DEF Exists
<1>4. IInv' /\ Value!Becomes(s, InSight(list[d[t]]))
  BY <1>1, <1>2, <1>3, ReferShows
<1>5. ~Value!Exists(s)
  BY <1>1, SameExist
<1> QED BY <1>2, <1>4, <1>5 DEF Value!Copy

\* operator=: the icons of the other, and the old storage let go.
LEMMA AssignPromised ==
  ASSUME IInv, NEW s \in Sets, NEW t \in Sets, Assign(s, t)
  PROVE  IInv' /\ Value!Assign(s, t)
<1>1. Exists(s) /\ Exists(t) /\ s # t /\ Refer(s, d[t]) /\ UNCHANGED icon_counter
  BY DEF Assign
<1>2. d[t] \in Privates /\ Icons(t) = InSight(list[d[t]]) /\ Value!Exists(t)
  BY <1>1, Storage
<1>3. d[t] # None /\ (d[t] # d[s] \/ list'[d[t]] = list[d[t]])
  BY <1>1 DEF Exists, Refer
<1>4. IInv' /\ Value!Becomes(s, InSight(list[d[t]]))
  BY <1>1, <1>2, <1>3, ReferShows
<1>5. Value!Exists(s)
  BY <1>1, SameExist
<1> QED BY <1>2, <1>4, <1>5 DEF Value!Assign

\* The destructor takes one iconset away and no icon of another.
LEMMA DestroyPromised ==
  ASSUME IInv, NEW s \in Sets, Destroy(s)
  PROVE  IInv' /\ Value!Destroy(s)
<1>1. IInv' /\ Value!Becomes(s, None)
  BY ReferShows DEF Destroy
<1>2. Value!Exists(s)
  BY SameExist DEF Destroy
<1> QED BY <1>1, <1>2 DEF Value!Destroy

\* setIcon() detaches and inserts, so that only this iconset gets the icon.
LEMMA SetIconPromised ==
  ASSUME IInv, NEW s \in Sets, NEW n \in OwnNames, NEW v \in Images, SetIcon(s, n, v)
  PROVE  IInv' /\ (Single => Value!SetIcon(s, n, v))
<1>1. Exists(s) /\ n \in Names /\ UNCHANGED icon_counter
  BY DEF SetIcon, OwnNames
<1>2. PICK l : l = Detached(s)
  OBVIOUS
<1>3. l \in Maps(icon_counter) /\ l \in [Names -> Seq(Images)]
  BY <1>1, <1>2, DetachedInMaps DEF Maps
<1>4. PICK q \in Seq(Images) : q = Replaced(l[n], v)
  BY <1>1, <1>3, ReplacedType
<1>5. [l EXCEPT ![n] = q] \in Maps(icon_counter)
  BY <1>1, <1>3, <1>4, Storage, OneNameInMaps
<1>6. Change(s, [l EXCEPT ![n] = q])
  BY <1>2, <1>4 DEF SetIcon
<1>7. IInv' /\ Value!Becomes(s, InSight([l EXCEPT ![n] = q]))
  BY <1>1, <1>5, <1>6, Storage, ChangeShows
<1>8. InSight([l EXCEPT ![n] = q]) = [InSight(l) EXCEPT ![n] = v]
  BY <1>1, <1>3, <1>4, InSightReplaced
<1>9. Single => InSight(l) = Icons(s)
  BY <1>1, <1>2, Storage, DetachedShort
<1> QED BY <1>1, <1>7, <1>8, <1>9, Storage DEF Value!SetIcon

\* removeIcon() detaches and removes, so that only this iconset loses the icon.
LEMMA RemoveIconPromised ==
  ASSUME IInv, NEW s \in Sets, NEW n \in Names, RemoveIcon(s, n)
  PROVE  IInv' /\ (Single => Value!RemoveIcon(s, n))
<1>1. Exists(s) /\ UNCHANGED icon_counter
  BY DEF RemoveIcon
<1>2. PICK l : l = Detached(s)
  OBVIOUS
<1>3. l \in Maps(icon_counter) /\ l \in [Names -> Seq(Images)]
  BY <1>1, <1>2, DetachedInMaps DEF Maps
<1>4. PICK q \in Seq(Images) : q = Removed(l[n])
  <2>1. PICK o \in Seq(Images) : o = l[n]
    BY <1>3
  <2>2. Removed(o) \in Seq(Images)
    BY DEF Removed
  <2> QED BY <2>1, <2>2
<1>5. l[n] = << >> => q = << >>
  BY <1>4 DEF Removed
<1>6. [l EXCEPT ![n] = q] \in Maps(icon_counter)
  BY <1>1, <1>3, <1>5, Storage, OneNameInMaps
<1>7. Change(s, [l EXCEPT ![n] = q])
  BY <1>2, <1>4 DEF RemoveIcon
<1>8. IInv' /\ Value!Becomes(s, InSight([l EXCEPT ![n] = q]))
  BY <1>1, <1>6, <1>7, Storage, ChangeShows
<1>9. ASSUME Single
      PROVE  Value!RemoveIcon(s, n)
  <2>1. l = list[d[s]] /\ ShortMap(l)
    BY <1>1, <1>2, <1>9, Storage, DetachedShort
  <2>2. InSight([l EXCEPT ![n] = q]) = [InSight(l) EXCEPT ![n] = None]
    BY <1>3, <1>4, <2>1, InSightRemoved
  <2>3. InSight(l) = Icons(s)
    BY <1>1, <2>1, Storage
  <2> QED BY <1>1, <1>8, <2>2, <2>3, Storage DEF Value!RemoveIcon
<1> QED BY <1>8, <1>9

\* operator+= inserts the icons of the other into a detached copy.
LEMMA AppendFromPromised ==
  ASSUME IInv, NEW s \in Sets, NEW t \in Sets, AppendFrom(s, t)
  PROVE  IInv' /\ (Single /\ Single' => Value!AppendFrom(s, t))
<1>1. Exists(s) /\ Exists(t) /\ UNCHANGED icon_counter
  BY DEF AppendFrom
<1>2. PICK m, o : m = Detached(s) /\ o = IF t = s THEN Detached(s) ELSE list[d[t]]
  OBVIOUS
<1>3. PICK l : l = Inserted(o, m)
  OBVIOUS
<1>4. m \in Maps(icon_counter) /\ o \in Maps(icon_counter)
  BY <1>1, <1>2, DetachedInMaps, Storage
<1>5. l \in Maps(icon_counter)
  BY <1>1, <1>3, <1>4, Storage, InsertedInMaps
<1>6. Change(s, l)
  BY <1>2, <1>3 DEF AppendFrom
<1>7. IInv' /\ Value!Becomes(s, InSight(l))
  BY <1>1, <1>5, <1>6, Storage, ChangeShows
<1>8. ASSUME Single, Single'
      PROVE  Value!AppendFrom(s, t)
  <2>1. m = list[d[s]] /\ o = list[d[t]]
    BY <1>1, <1>2, <1>8, Storage, DetachedShort
  <2>2. list'[d'[s]] = l /\ d'[s] \in Privates
    BY <1>1, <1>5, <1>6, Storage, ChangeKeeps
  <2>3. ShortMap(l)
    BY <1>8, <2>2 DEF Single, ShortMap
  <2>4. InSight(l) = Value!Overlay(InSight(o), InSight(m))
    BY <1>3, <1>4, <2>3, InSightInserted DEF Maps
  <2>5. InSight(o) = Icons(t) /\ InSight(m) = Icons(s)
    BY <1>1, <2>1, Storage
  <2>6. Value!Becomes(s, Value!Overlay(Icons(t), Icons(s)))
    BY <1>7, <2>4, <2>5
  <2>7. Value!Exists(s) /\ Value!Exists(t)
    BY <1>1, Storage
  <2> QED BY <2>6, <2>7 DEF Value!AppendFrom
<1> QED BY <1>7, <1>8

\* clear() detaches and empties.
LEMMA ClearPromised ==
  ASSUME IInv, NEW s \in Sets, Clear(s)
  PROVE  IInv' /\ Value!Clear(s)
<1>1. Exists(s) /\ UNCHANGED icon_counter /\ Change(s, NoIcons)
  BY DEF Clear
<1>2. NoIcons \in Maps(icon_counter)
  BY <1>1, Storage, NoIconsInMaps
<1>3. IInv' /\ Value!Becomes(s, InSight(NoIcons))
  BY <1>1, <1>2, Storage, ChangeShows
<1>4. InSight(NoIcons) = Value!Empty
  BY DEF InSight, NoIcons, Value!Empty
<1> QED BY <1>1, <1>3, <1>4, Storage DEF Value!Clear

\* A directory without icons only makes s detach, which nobody sees.
LEMMA LoadNothingPromised ==
  ASSUME IInv, NEW s \in Sets, NEW dir \in Dirs, LoadNothing(s, dir)
  PROVE  IInv' /\ (Single => UNCHANGED [t \in Sets |-> Icons(t)])
<1>1. Exists(s) /\ UNCHANGED icon_counter /\ Change(s, Detached(s))
  BY DEF LoadNothing
<1>2. Detached(s) \in Maps(icon_counter)
  BY <1>1, DetachedInMaps
<1>3. IInv' /\ Value!Becomes(s, InSight(Detached(s)))
  BY <1>1, <1>2, Storage, ChangeShows
<1>4. Single => InSight(Detached(s)) = Icons(s)
  BY <1>1, Storage, DetachedShort
<1> QED BY <1>3, <1>4 DEF Value!Becomes

\* load() inserts what the document has into the storage of this iconset.
LEMMA LoadPromised ==
  ASSUME IInv, NEW s \in Sets, NEW dir \in Dirs, Load(s, dir)
  PROVE  IInv' /\ (Single => Value!Load(s))
<1>1. /\ Exists(s) /\ Content[dir] # None
      /\ icon_counter + Len(Content[dir]) <= MaxCounter
  BY DEF Load
<1>2. PICK c \in Documents : c = Content[dir]
  BY <1>1, IconsetConstants DEF Documents
<1>3. PICK l : l = Detached(s)
  OBVIOUS
<1>4. l \in Maps(icon_counter)
  BY <1>1, <1>3, DetachedInMaps
<1>5. PICK read : read = FoldLeft(LoadIcon, [list |-> l, counter |-> icon_counter], c)
  OBVIOUS
<1>6. Change(s, read.list) /\ icon_counter' = read.counter
  BY <1>2, <1>3, <1>5, Zenon DEF Load
<1>7. icon_counter \in Nat
  BY <1>1, Storage
<1>8. LoadsTo(read, l, icon_counter, c, DOMAIN c)
  BY <1>1, <1>2, <1>4, <1>5, <1>7, LoadsAll, Zenon
<1>9. read.list \in Maps(read.counter) /\ read.counter = icon_counter + Len(c)
  BY <1>8, DocumentFacts DEF LoadsTo
<1>10. read.counter \in icon_counter .. MaxCounter
  <2>1. Len(c) \in Nat /\ MaxCounter \in Nat
    BY DocumentFacts, IconsetConstants
  <2> QED BY <1>1, <1>2, <1>7, <1>9, <2>1
<1>11. IInv' /\ Value!Becomes(s, InSight(read.list))
  BY <1>1, <1>6, <1>9, <1>10, ChangeShows
<1>12. ASSUME Single
       PROVE  Value!Load(s)
  <2>1. InSight(read.list) \in Value!Loaded(c, InSight(l))
    BY <1>4, <1>7, <1>8, LoadedAsPromised
  <2>2. InSight(l) = Icons(s)
    BY <1>1, <1>3, <1>12, Storage, DetachedShort
  <2>3. c \in {Content[e] : e \in Dirs} \ {None}
    BY <1>1, <1>2
  <2>4. Value!Exists(s)
    BY <1>1, Storage
  <2> QED BY <1>11, <2>1, <2>2, <2>3, <2>4 DEF Value!Load
<1> QED BY <1>11, <1>12

\* A step keeps the invariant and is one that the abstract specification
\* allows.
LEMMA StepPromised ==
  ASSUME IInv, Next
  PROVE  IInv' /\ Promised
<1>1. PICK s \in Sets :
        \/ Construct(s)
        \/ \E t \in Sets : Copy(s, t) \/ Assign(s, t) \/ AppendFrom(s, t)
        \/ Destroy(s)
        \/ \E n \in Names : RemoveIcon(s, n)
        \/ \E n \in OwnNames, v \in Images : SetIcon(s, n, v)
        \/ Clear(s)
        \/ \E dir \in Dirs : LoadNothing(s, dir) \/ Load(s, dir)
  BY DEF Next
<1>2. CASE Construct(s)
  BY <1>2, ConstructPromised DEF Promised, Value!Next
<1>3. ASSUME NEW t \in Sets, Copy(s, t) PROVE IInv' /\ Promised
  BY <1>3, CopyPromised DEF Promised, Value!Next
<1>4. ASSUME NEW t \in Sets, Assign(s, t) PROVE IInv' /\ Promised
  BY <1>4, AssignPromised DEF Promised, Value!Next
<1>5. ASSUME NEW t \in Sets, AppendFrom(s, t) PROVE IInv' /\ Promised
  BY <1>5, AppendFromPromised DEF Promised, Value!Next
<1>6. CASE Destroy(s)
  BY <1>6, DestroyPromised DEF Promised, Value!Next
<1>7. ASSUME NEW n \in Names, RemoveIcon(s, n) PROVE IInv' /\ Promised
  BY <1>7, RemoveIconPromised DEF Promised, Value!Next
<1>8. ASSUME NEW n \in OwnNames, NEW v \in Images, SetIcon(s, n, v) PROVE IInv' /\ Promised
  BY <1>8, SetIconPromised DEF Promised, Value!Next, OwnNames
<1>9. CASE Clear(s)
  BY <1>9, ClearPromised DEF Promised, Value!Next
<1>10. ASSUME NEW dir \in Dirs, LoadNothing(s, dir) PROVE IInv' /\ Promised
  BY <1>10, LoadNothingPromised DEF Promised
<1>11. ASSUME NEW dir \in Dirs, Load(s, dir) PROVE IInv' /\ Promised
  BY <1>11, LoadPromised DEF Promised, Value!Next
<1> QED BY <1>1, <1>2, <1>3, <1>4, <1>5, <1>6, <1>7, <1>8, <1>9, <1>10, <1>11

\* The invariant in every execution.
THEOREM IconsetInvariant == Spec => []IInv
<1>1. Init => IInv
  <2> SUFFICES ASSUME Init PROVE IInv
    OBVIOUS
  <2>1. icon_counter \in 0 .. MaxCounter /\ icon_counter \in Nat
    BY IconsetConstants DEF Init
  <2>2. NoIcons \in Maps(icon_counter)
    BY <2>1, NoIconsInMaps
  <2>3. d \in [Sets -> Privates \cup {None}] /\ list \in [Privates -> Maps(icon_counter)]
    BY <2>2 DEF Init
  <2>4. Blank
    BY DEF Init, Blank, FreePrivates
  <2> QED BY <2>1, <2>3, <2>4 DEF IInv
<1>2. IInv /\ [Next]_vars => IInv'
  <2> SUFFICES ASSUME IInv, [Next]_vars
               PROVE  IInv'
    OBVIOUS
  <2>1. CASE Next
    BY <2>1, StepPromised
  <2>2. CASE UNCHANGED vars
    BY <2>2 DEF vars, IInv, Blank, FreePrivates, Holders, NoIcons, Maps
  <2> QED BY <2>1, <2>2
<1> QED BY <1>1, <1>2, PTL DEF Spec

\* Type correctness: every Iconset has a Private or none, and every name of a
\* Private a sequence of icons.
THEOREM IconsetTypeOK == Spec => []TypeOK
<1>1. IInv => TypeOK
  BY DEF IInv, TypeOK, Maps
<1> QED BY <1>1, IconsetInvariant, PTL

\* The names load() makes up are unique: none that is still to be given is taken in
\* any iconset, whatever was loaded, copied, appended, set or removed before.
THEOREM IconsetFreshNames == Spec => []FreshNames
<1>1. IInv => FreshNames
  BY DEF IInv, FreshNames, Maps
<1> QED BY <1>1, IconsetInvariant, PTL

\* Iconset objects implement values: however they share their storage, each call is
\* the one IconsetValue promises, as long as no name has a second icon.
THEOREM IconsetIsValue == Spec => IsValue
<1>1. Init => Value!Init
  BY DEF Init, Value!Init, Icons, Exists
<1>2. IInv /\ [Next]_vars
        => [Single /\ Single' => Value!Next \/ UNCHANGED [s \in Sets |-> Icons(s)]]_vars
  BY StepPromised DEF Promised
<1> QED BY <1>1, <1>2, IconsetInvariant, PTL DEF Spec, IsValue

=============================================================================
