--------------------------- MODULE IconAnimProofs ---------------------------
(***************************************************************************)
(* Theorems about IconAnim, for every number of icons and animations, all  *)
(* frame counts, and whatever an uninitialised count may hold.             *)
(***************************************************************************)
EXTENDS IconAnim, FiniteSetTheorems, WellFoundedInduction, TLAPS

\* A new Private is one that no icon holds.
LEMMA NewPrivateFree ==
  ASSUME FreePrivates # {}
  PROVE  NewPrivate \in Privates /\ \A h \in Handles : d[h] # NewPrivate
<1>1. FreePrivates \subseteq Nat
  BY IconConstants DEF FreePrivates
<1>2. PICK p \in FreePrivates : \A q \in FreePrivates : <<q, p>> \notin OpToRel(<, Nat)
  BY <1>1, NatLessThanWellFounded, WFMin
<1>3. ASSUME NEW q \in FreePrivates, q < p
      PROVE  FALSE
  <2>1. q \in Nat /\ p \in Nat
    BY <1>1
  <2>2. <<q, p>> \in {r \in Nat \X Nat : r[1] < r[2]}
    BY <1>3, <2>1
  <2>3. OpToRel(<, Nat) = {r \in Nat \X Nat : r[1] < r[2]}
    BY Zenon DEF OpToRel
  <2> QED BY <1>2, <2>2, <2>3
<1>4. \A q \in FreePrivates : p <= q
  BY <1>1, <1>3
<1>5. NewPrivate \in FreePrivates
  BY <1>4 DEF NewPrivate
<1> QED BY <1>5 DEF FreePrivates, Holders

\* UpdatesReachShown is inductive together with the types and with: only icons
\* that exist are shown.
IInv == TypeOK /\ (\A h \in Handles : shown[h] > 0 => Exists(h)) /\ UpdatesReachShown

\* load() gives the icon fresh data, which no animation is registered to yet.
LEMMA LoadKeeps ==
  ASSUME IInv, NEW h \in Handles, Load(h)
  PROVE  IInv'
<1> DEFINE p == NewPrivate
<1>1. p \in Privates /\ \A g \in Handles : d[g] # p
  BY NewPrivateFree DEF Load
<1>2. PICK a \in FreeAnims :
        /\ d' = [d EXCEPT ![h] = p]
        /\ count' = [count EXCEPT ![p] = 0]
        /\ anim' = [anim EXCEPT ![p] = a]
        /\ paused' = [paused EXCEPT ![a] = TRUE]
        /\ frame' = [frame EXCEPT ![a] = 0]
        /\ loop' = [loop EXCEPT ![a] = 0]
        /\ mixed' = [mixed EXCEPT ![a] = FALSE]
        /\ UNCHANGED <<connected, shown>>
  BY DEF Load
<1>3. a \in Anims /\ d[h] = None /\ None \notin Privates
  BY IconConstants DEF Load, Exists, FreeAnims
<1> HIDE DEF p
<1>4. \A g \in Handles : g # h => d'[g] = d[g] /\ (d[g] # None => anim'[d[g]] = anim[d[g]])
  BY <1>1, <1>2, <1>3 DEF IInv, TypeOK
<1>5. d'[h] = p /\ anim'[p] = a /\ shown'[h] = 0
  <2>1. shown[h] \in Nat /\ ~(shown[h] > 0)
    BY <1>3, IconConstants DEF IInv, TypeOK, Exists
  <2> QED BY <1>1, <1>2, <2>1 DEF IInv, TypeOK
<1>6. TypeOK'
  <2>1. /\ d' \in [Handles -> Privates \cup {None}] /\ anim' \in [Privates -> Anims \cup {None}]
        /\ count' \in [Privates -> Int]
    BY <1>1, <1>2, <1>3 DEF IInv, TypeOK
  <2>2. 0 \in 0 .. NumFrames - 1 /\ Looping[a] >= 0
    BY <1>3, IconConstants
  <2>3. /\ paused' \in [Anims -> BOOLEAN] /\ mixed' \in [Anims -> BOOLEAN]
        /\ frame' \in [Anims -> 0 .. NumFrames - 1]
    BY <1>2, <1>3, <2>2 DEF IInv, TypeOK
  <2>4. loop' \in [Anims -> Nat] /\ \A b \in Anims : loop'[b] <= Looping[b]
    BY <1>2, <1>3, <2>2 DEF IInv, TypeOK
  <2>5. (\A g \in Handles : Exists(g) => AnimOf(g) \in Anims)'
    BY <1>3, <1>4, <1>5 DEF IInv, TypeOK, Exists, AnimOf
  <2> QED BY <1>2, <2>1, <2>3, <2>4, <2>5 DEF IInv, TypeOK
<1>7. (\A g \in Handles : shown[g] > 0 => Exists(g))'
  BY <1>2, <1>4, <1>5 DEF IInv, Exists
<1>8. UpdatesReachShown'
  BY <1>2, <1>4, <1>5 DEF IInv, UpdatesReachShown, Exists, AnimOf
<1> QED BY <1>6, <1>7, <1>8 DEF IInv

\* A copy shares the data and is not shown yet.
LEMMA CopyKeeps ==
  ASSUME IInv, NEW h \in Handles, NEW g \in Handles, Copy(h, g)
  PROVE  IInv'
<1>1. d' = [d EXCEPT ![h] = d[g]] /\ d[h] = None /\ d[g] # None
  BY DEF Copy, Exists
<1>2. UNCHANGED <<count, anim, paused, frame, loop, mixed, connected, shown>>
  BY DEF Copy
<1>3. ~(shown[h] > 0)
  BY <1>1 DEF IInv, Exists
<1>4. TypeOK'
  BY <1>1, <1>2 DEF IInv, TypeOK, Exists, AnimOf
<1>5. (\A k \in Handles : shown[k] > 0 => Exists(k))'
  BY <1>1, <1>2 DEF IInv, TypeOK, Exists
<1>6. UpdatesReachShown'
  BY <1>1, <1>2, <1>3 DEF IInv, TypeOK, UpdatesReachShown, Exists, AnimOf
<1> QED BY <1>4, <1>5, <1>6 DEF IInv

\* detach() gives the icon a copy of the data, with the animation and any count.
LEMMA DetachKeeps ==
  ASSUME IInv, NEW h \in Handles, Detach(h)
  PROVE  IInv'
<1> DEFINE p == NewPrivate  a == AnimOf(h)
<1>1. p \in Privates /\ \A g \in Handles : d[g] # p
  BY NewPrivateFree DEF Detach
<1>2. PICK n \in Garbage :
        /\ d' = [d EXCEPT ![h] = p]
        /\ count' = [count EXCEPT ![p] = n]
        /\ anim' = [anim EXCEPT ![p] = a]
        /\ mixed' = [mixed EXCEPT ![a] = TRUE]
        /\ UNCHANGED <<paused, frame, loop, connected, shown>>
  BY DEF Detach
<1>3. a \in Anims /\ Exists(h) /\ n \in Int /\ a = anim[d[h]]
  BY IconConstants DEF IInv, TypeOK, Detach, AnimOf
<1> HIDE DEF p, a
<1>4. p # None
  BY <1>1, IconConstants
<1>5. \A g \in Handles : g # h => d'[g] = d[g] /\ (d[g] # None => anim'[d[g]] = anim[d[g]])
  BY <1>1, <1>2 DEF IInv, TypeOK
<1>6. d'[h] = p /\ anim'[p] = a
  BY <1>1, <1>2 DEF IInv, TypeOK
<1>7. TypeOK'
  BY <1>1, <1>2, <1>3, <1>5, <1>6 DEF IInv, TypeOK, Exists, AnimOf
<1>8. (\A g \in Handles : shown[g] > 0 => Exists(g))'
  BY <1>2, <1>4, <1>5, <1>6 DEF IInv, Exists
<1>9. UpdatesReachShown'
  BY <1>2, <1>3, <1>5, <1>6 DEF IInv, UpdatesReachShown, Exists, AnimOf
<1> QED BY <1>7, <1>8, <1>9 DEF IInv

\* activated() connects the icon when it is the first one shown.
LEMMA ActivateKeeps ==
  ASSUME IInv, NEW h \in Handles, Activate(h)
  PROVE  IInv'
<1>1. /\ Exists(h) /\ shown[h] < MaxShown
      /\ shown' = [shown EXCEPT ![h] = @ + 1]
      /\ count' = [count EXCEPT ![d[h]] = @ + 1]
      /\ paused' = [paused EXCEPT ![AnimOf(h)] = FALSE]
      /\ connected' = connected \cup {<<h, AnimOf(h)>>}
      /\ UNCHANGED <<d, anim, frame, loop, mixed>>
  BY DEF Activate, Updates
<1>2. AnimOf(h) \in Anims /\ d[h] \in Privates /\ shown[h] + 1 \in 0 .. MaxShown
  BY <1>1, IconConstants DEF IInv, TypeOK, Exists
<1>3. TypeOK'
  BY <1>1, <1>2 DEF IInv, TypeOK, Exists, AnimOf
<1>4. (\A g \in Handles : shown[g] > 0 => Exists(g))'
  BY <1>1 DEF IInv, TypeOK, Exists
<1>5. UpdatesReachShown'
  BY <1>1 DEF IInv, TypeOK, UpdatesReachShown, Exists, AnimOf
<1> QED BY <1>3, <1>4, <1>5 DEF IInv

\* stop() disconnects the icon when nobody shows it any more.
LEMMA StopKeeps ==
  ASSUME IInv, NEW h \in Handles, Stop(h)
  PROVE  IInv'
<1> DEFINE p == d[h]  last == IsLast(p)  a == anim[p]
<1>1. /\ Exists(h) /\ shown[h] > 0
      /\ shown' = [shown EXCEPT ![h] = @ - 1]
      /\ count' = [count EXCEPT ![p] = IF last THEN 0 ELSE @ - 1]
      /\ paused' = [paused EXCEPT ![a] = @ \/ last]
      /\ frame' = [frame EXCEPT ![a] = IF last THEN 0 ELSE @]
      /\ UNCHANGED <<d, anim, loop, mixed, connected>>
  BY DEF Stop
<1>2. a \in Anims /\ p \in Privates /\ shown[h] - 1 \in 0 .. MaxShown /\ last \in BOOLEAN
  BY <1>1, IconConstants DEF IInv, TypeOK, Exists, AnimOf, IsLast
<1>3. 0 \in 0 .. NumFrames - 1
  BY IconConstants
<1> HIDE DEF last, p, a
<1>4. count' \in [Privates -> Int]
  BY <1>1, <1>2 DEF IInv, TypeOK
<1>5. frame' \in [Anims -> 0 .. NumFrames - 1] /\ paused' \in [Anims -> BOOLEAN]
  BY <1>1, <1>2, <1>3 DEF IInv, TypeOK
<1>6. TypeOK'
  BY <1>1, <1>2, <1>4, <1>5 DEF IInv, TypeOK, Exists, AnimOf
<1>7. \A g \in Handles : shown'[g] > 0 => shown[g] > 0
  BY <1>1 DEF IInv, TypeOK
<1>8. (\A g \in Handles : shown[g] > 0 => Exists(g))'
  BY <1>1, <1>7 DEF IInv, Exists
<1>9. UpdatesReachShown'
  BY <1>1, <1>7 DEF IInv, UpdatesReachShown, Exists, AnimOf
<1> QED BY <1>6, <1>8, <1>9 DEF IInv

\* A destroyed icon is disconnected; an animation nobody uses goes with it.
LEMMA DestroyKeeps ==
  ASSUME IInv, NEW h \in Handles, Destroy(h)
  PROVE  IInv'
<1> DEFINE held == [d EXCEPT ![h] = None]
           dead == {a \in Anims : UsersIn(held, a) = {}}
           blank(f, v) == [a \in Anims |-> IF a \in dead THEN v ELSE f[a]]
<1>1. /\ Exists(h) /\ shown[h] = 0
      /\ d' = held
      /\ connected' = {c \in connected : c[1] # h /\ c[2] \notin dead}
      /\ paused' = blank(paused, TRUE)
      /\ frame' = blank(frame, 0)
      /\ loop' = blank(loop, 0)
      /\ mixed' = blank(mixed, FALSE)
      /\ shown' = shown
  BY DEF Destroy
<1>2. \/ /\ Holders(d[h]) = {h}
         /\ count' = [count EXCEPT ![d[h]] = 0] /\ anim' = [anim EXCEPT ![d[h]] = None]
      \/ UNCHANGED <<count, anim>>
  BY DEF Destroy
<1>3. \A g \in Handles : g # h => held[g] = d[g]
  BY DEF IInv, TypeOK
<1>4. held[h] = None
  BY DEF IInv, TypeOK
<1>5. \A g \in Handles : g # h /\ d[g] # None => anim'[d[g]] = anim[d[g]]
  <2> SUFFICES ASSUME NEW g \in Handles, g # h, d[g] # None
               PROVE  anim'[d[g]] = anim[d[g]]
    OBVIOUS
  <2>1. Holders(d[h]) = {h} => d[g] # d[h]
    BY DEF Holders
  <2> QED BY <1>2, <2>1 DEF IInv, TypeOK
<1>6. \A g \in Handles : g # h /\ d[g] # None => anim[d[g]] \in Anims \ dead
  <2> SUFFICES ASSUME NEW g \in Handles, g # h, d[g] # None
               PROVE  anim[d[g]] \in Anims \ dead
    OBVIOUS
  <2>1. d[g] \in Privates /\ anim[d[g]] \in Anims /\ held[g] = d[g]
    BY <1>3 DEF IInv, TypeOK, Exists, AnimOf
  <2>2. d[g] \in UsersIn(held, anim[d[g]])
    BY <2>1 DEF UsersIn
  <2> QED BY <2>1, <2>2
<1>7. d[h] \in Privates
  BY <1>1 DEF IInv, TypeOK, Exists
<1>8. count' \in [Privates -> Int] /\ anim' \in [Privates -> Anims \cup {None}]
  BY <1>2, <1>7 DEF IInv, TypeOK
<1>9. held \in [Handles -> Privates \cup {None}] /\ 0 \in 0 .. NumFrames - 1
  BY IconConstants DEF IInv, TypeOK
<1>10. /\ paused' \in [Anims -> BOOLEAN] /\ mixed' \in [Anims -> BOOLEAN]
       /\ frame' \in [Anims -> 0 .. NumFrames - 1]
       /\ loop' \in [Anims -> Nat] /\ \A a \in Anims : loop'[a] <= Looping[a]
  <2>1. \A a \in Anims : Looping[a] >= 0
    BY IconConstants
  <2>2. paused \in [Anims -> BOOLEAN] /\ mixed \in [Anims -> BOOLEAN] /\ loop \in [Anims -> Nat]
        /\ frame \in [Anims -> 0 .. NumFrames - 1] /\ \A a \in Anims : loop[a] <= Looping[a]
    BY DEF IInv, TypeOK
  <2> HIDE DEF dead
  <2>3. blank(paused, TRUE) \in [Anims -> BOOLEAN] /\ blank(mixed, FALSE) \in [Anims -> BOOLEAN]
    BY <2>2
  <2>4. blank(frame, 0) \in [Anims -> 0 .. NumFrames - 1]
    BY <1>9, <2>2
  <2>5. blank(loop, 0) \in [Anims -> Nat] /\ \A a \in Anims : blank(loop, 0)[a] <= Looping[a]
    BY <2>1, <2>2
  <2> HIDE DEF blank
  <2> QED BY <1>1, <2>3, <2>4, <2>5
<1> HIDE DEF held, dead, blank
<1>11. TypeOK'
  BY <1>1, <1>3, <1>4, <1>5, <1>6, <1>8, <1>9, <1>10 DEF IInv, TypeOK, Exists, AnimOf
<1>12. (\A g \in Handles : shown[g] > 0 => Exists(g))'
  BY <1>1, <1>3 DEF IInv, Exists
<1>13. UpdatesReachShown'
  BY <1>1, <1>3, <1>4, <1>5, <1>6 DEF IInv, UpdatesReachShown, Exists, AnimOf
<1> QED BY <1>11, <1>12, <1>13 DEF IInv

\* A turn of the timer moves frames on and reaches the icons that are
\* connected.
LEMMA RefreshKeeps ==
  ASSUME IInv, NEW a \in Anims, Refresh(a)
  PROVE  IInv'
<1>1. /\ frame' = [frame EXCEPT ![a] = IF Wraps(a) THEN 0 ELSE @ + 1]
      /\ loop' = [loop EXCEPT ![a] = IF Wraps(a) THEN Saturated(a, @ + 1) ELSE @]
      /\ paused' = [paused EXCEPT ![a] = Ends(a)]
      /\ UNCHANGED <<d, count, anim, mixed, connected, shown>>
  BY DEF Refresh
<1>2. (IF Wraps(a) THEN 0 ELSE frame[a] + 1) \in 0 .. NumFrames - 1
  BY IconConstants DEF IInv, TypeOK, Wraps
<1>3. LET n == IF Wraps(a) THEN Saturated(a, loop[a] + 1) ELSE loop[a]
      IN n \in Nat /\ n <= Looping[a]
  BY IconConstants DEF IInv, TypeOK, Saturated
<1>4. Ends(a) \in BOOLEAN
  BY DEF Ends, Wraps
<1>5. frame' \in [Anims -> 0 .. NumFrames - 1] /\ paused' \in [Anims -> BOOLEAN]
  BY <1>1, <1>2, <1>4 DEF IInv, TypeOK
<1>6. loop' \in [Anims -> Nat] /\ \A b \in Anims : loop'[b] <= Looping[b]
  BY <1>1, <1>3 DEF IInv, TypeOK
<1>7. TypeOK'
  BY <1>1, <1>5, <1>6 DEF IInv, TypeOK, Exists, AnimOf
<1> QED BY <1>1, <1>7 DEF IInv, UpdatesReachShown, Exists, AnimOf

\* The types and the connections hold in every reachable state.
THEOREM IconInvariant == Spec => []IInv
<1>1. Init => IInv
  BY IconConstants DEF Init, IInv, TypeOK, UpdatesReachShown, Exists, AnimOf
<1>2. IInv /\ [Next]_vars => IInv'
  <2> SUFFICES ASSUME IInv, [Next]_vars
               PROVE  IInv'
    OBVIOUS
  <2>1. CASE \E h \in Handles : Load(h)
    BY <2>1, LoadKeeps
  <2>2. CASE \E h, g \in Handles : Copy(h, g)
    BY <2>2, CopyKeeps
  <2>3. CASE \E h \in Handles : Detach(h)
    BY <2>3, DetachKeeps
  <2>4. CASE \E h \in Handles : Activate(h)
    BY <2>4, ActivateKeeps
  <2>5. CASE \E h \in Handles : Stop(h)
    BY <2>5, StopKeeps
  <2>6. CASE \E h \in Handles : Destroy(h)
    BY <2>6, DestroyKeeps
  <2>7. CASE \E a \in Anims : Refresh(a)
    BY <2>7, RefreshKeeps
  <2>8. CASE UNCHANGED vars
    BY <2>8 DEF vars, IInv, TypeOK, UpdatesReachShown, Exists, AnimOf
  <2> QED BY <2>1, <2>2, <2>3, <2>4, <2>5, <2>6, <2>7, <2>8 DEF Next
<1> QED BY <1>1, <1>2, PTL DEF Spec

\* Type correctness: no frame number leaves the animation, whatever activations
\* and timers do.
THEOREM IconTypeOK == Spec => []TypeOK
<1>1. IInv => TypeOK
  BY DEF IInv
<1> QED BY <1>1, IconInvariant, PTL

\* An icon on the screen is connected to the animation it shows, though it may
\* have been copied and detached and others destroyed meanwhile.
THEOREM IconUpdatesReachShown == Spec => []UpdatesReachShown
<1>1. IInv => UpdatesReachShown
  BY DEF IInv
<1> QED BY <1>1, IconInvariant, PTL

-----------------------------------------------------------------------------

\* A sum is a fold that takes the elements in whatever order CHOOSE has.
Plus(x, y) == x + y
AnyOf(S) == CHOOSE x \in S : TRUE
Sums == INSTANCE FoldLemmas WITH Op <- Plus, Pick <- AnyOf

\* The sum the model uses is the fold with addition.
LEMMA SumIsFold ==
  ASSUME NEW f, NEW S
  PROVE  SumFunctionOnSet(f, S) = Sums!Fold(0, f, S)
BY Zenon DEF SumFunctionOnSet, FoldFunctionOnSet, MapThenFoldSet, Sums!Fold,
             Sums!Folds, Plus, AnyOf

\* Every finite set can be summed.
LEMMA SumFoldable ==
  ASSUME NEW S, IsFiniteSet(S)
  PROVE  Sums!Foldable(S)
<1>1. \A T \in SUBSET S : T # {} => AnyOf(T) \in T
  BY DEF AnyOf
<1>2. Sums!IsFiniteSet(S)
  BY Zenon DEF IsFiniteSet, Sums!IsFiniteSet
<1> QED BY <1>1, <1>2 DEF Sums!Foldable

\* Any element may be added last.
LEMMA SumWithout ==
  ASSUME NEW S, IsFiniteSet(S), NEW f, \A x \in S : f[x] \in Nat, NEW x \in S
  PROVE  SumFunctionOnSet(f, S) = f[x] + SumFunctionOnSet(f, S \ {x})
<1>1. Sums!Foldable(S)
  BY SumFoldable
<1>2. Sums!Closed(f, S, Int) /\ Sums!AnyOrder(f, S, Int) /\ 0 \in Int
  BY DEF Sums!Closed, Sums!AnyOrder, Plus
<1>3. \A y \in S : Sums!Fold(0, f, S) = Plus(f[y], Sums!Fold(0, f, S \ {y}))
  BY <1>1, <1>2, Sums!FoldAny, SMTT(20)
<1> QED BY <1>3, SumIsFold, Zenon DEF Plus

\* Only the summands count.
LEMMA SumSame ==
  ASSUME NEW S, IsFiniteSet(S), NEW f, NEW g, \A x \in S : f[x] = g[x]
  PROVE  SumFunctionOnSet(f, S) = SumFunctionOnSet(g, S)
<1>1. Sums!Foldable(S)
  BY SumFoldable
<1>2. Sums!Fold(0, f, S) = Sums!Fold(0, g, S)
  BY <1>1, Sums!FoldSame, Zenon
<1> QED BY <1>2, SumIsFold, Zenon

\* A sum of natural numbers is nothing only if each is.
LEMMA SumZero ==
  ASSUME NEW S, IsFiniteSet(S), NEW f, \A x \in S : f[x] \in Nat
  PROVE  /\ SumFunctionOnSet(f, S) \in Nat
         /\ SumFunctionOnSet(f, S) = 0 <=> \A x \in S : f[x] = 0
<1> DEFINE C == {T \in SUBSET S : /\ SumFunctionOnSet(f, T) \in Nat
                                  /\ SumFunctionOnSet(f, T) = 0 <=> \A x \in T : f[x] = 0}
<1>1. {} \in C
  <2>1. SumFunctionOnSet(f, {}) = 0
    BY SumIsFold, Sums!FoldEmpty, Zenon
  <2> QED BY <2>1
<1>2. ASSUME NEW T \in SUBSET S, T # {}, \A x \in T : T \ {x} \in C
      PROVE  T \in C
  <2>1. PICK x \in T : TRUE
    BY <1>2
  <2>2. IsFiniteSet(T) /\ \A y \in T : f[y] \in Nat
    BY FS_Subset
  <2>3. SumFunctionOnSet(f, T) = f[x] + SumFunctionOnSet(f, T \ {x})
    BY <2>2, SumWithout
  <2>4. /\ SumFunctionOnSet(f, T \ {x}) \in Nat
        /\ SumFunctionOnSet(f, T \ {x}) = 0 <=> \A y \in T \ {x} : f[y] = 0
    BY <1>2
  <2>5. SumFunctionOnSet(f, T) \in Nat
    BY <2>2, <2>3, <2>4
  <2>6. SumFunctionOnSet(f, T) = 0 <=> f[x] = 0 /\ SumFunctionOnSet(f, T \ {x}) = 0
    BY <2>2, <2>3, <2>4
  <2> QED BY <2>4, <2>5, <2>6
<1>3. Sums!IsFiniteSet(S)
  BY Zenon DEF IsFiniteSet, Sums!IsFiniteSet
<1>4. \A T \in SUBSET S : T \in C
  <2> HIDE DEF C
  <2> QED BY <1>1, <1>2, <1>3, Sums!SetInduct, Zenon
<1> QED BY <1>4

\* When one summand changes, the sum changes by as much.
LEMMA SumChange ==
  ASSUME NEW S, IsFiniteSet(S), NEW f, NEW g, \A x \in S : f[x] \in Nat,
         NEW h \in S, NEW n \in Nat, \A x \in S : g[x] = IF x = h THEN n ELSE f[x]
  PROVE  SumFunctionOnSet(g, S) = SumFunctionOnSet(f, S) + (n - f[h])
<1>1. \A x \in S : g[x] \in Nat
  OBVIOUS
<1>2. IsFiniteSet(S \ {h})
  BY FS_RemoveElement
<1>3. SumFunctionOnSet(f, S) = f[h] + SumFunctionOnSet(f, S \ {h})
  BY SumWithout
<1>4. SumFunctionOnSet(g, S) = g[h] + SumFunctionOnSet(g, S \ {h})
  BY <1>1, SumWithout
<1>5. SumFunctionOnSet(g, S \ {h}) = SumFunctionOnSet(f, S \ {h})
  <2>1. \A x \in S \ {h} : g[x] = f[x]
    OBVIOUS
  <2> QED BY <1>2, <2>1, SumSame
<1>6. SumFunctionOnSet(f, S \ {h}) \in Nat
  BY <1>2, SumZero
<1> QED BY <1>3, <1>4, <1>5, <1>6

-----------------------------------------------------------------------------

\* What CountDecides says of one Private.
Decides(p) ==
  /\ count[p] = SumFunctionOnSet(shown, Holders(p))
  /\ \A h \in Holders(p) : Animated(h)
  /\ (\A h \in Holders(p) : shown[h] = 0) => paused[anim[p]] /\ frame[anim[p]] = 0

\* p is the only Private that shows its animation.
Sole(p) == \A q \in Privates : Holders(q) # {} /\ anim[q] = anim[p] => q = p

\* CountDecides is inductive with: an animation that no detached icons share has
\* one Private; and there are finitely many icons at any time, so that a sum over
\* those that share a Private is one.
CInv ==
  /\ IInv
  /\ IsFiniteSet({h \in Handles : Exists(h)})
  /\ \A p \in Privates : Holders(p) # {} /\ ~mixed[anim[p]] => Sole(p) /\ Decides(p)

\* Finitely many icons hold a piece of data, each of them shown a number of
\* times.
LEMMA HoldersFinite ==
  ASSUME CInv, NEW p \in Privates
  PROVE  IsFiniteSet(Holders(p)) /\ \A h \in Holders(p) : shown[h] \in Nat /\ d[h] = p
<1>1. Holders(p) \in SUBSET {h \in Handles : Exists(h)}
  BY IconConstants DEF Holders, Exists
<1>2. IsFiniteSet({h \in Handles : Exists(h)})
  BY DEF CInv
<1>3. IsFiniteSet(Holders(p))
  BY <1>1, <1>2, FS_Subset, Zenon
<1> QED BY <1>3, IconConstants DEF CInv, IInv, TypeOK, Holders

\* A Private none of whose data a step touches is as before.
LEMMA Untouched ==
  ASSUME CInv, NEW p \in Privates, Decides(p), Holders(p)' = Holders(p),
         UNCHANGED shown, count'[p] = count[p], anim'[p] = anim[p],
         paused'[anim[p]] = paused[anim[p]], frame'[anim[p]] = frame[anim[p]]
  PROVE  Decides(p)'
<1>1. \A h \in Holders(p) : d[h] = p /\ d'[h] = p
  BY DEF Holders
<1>2. \A h \in Holders(p) : Animated(h) => Animated(h)'
  BY <1>1 DEF Animated, AnimOf, Exists
<1> QED BY <1>1, <1>2 DEF Decides

\* The same when some other icon is activated or stopped.
LEMMA UntouchedShown ==
  ASSUME CInv, NEW p \in Privates, Decides(p), Holders(p)' = Holders(p),
         \A h \in Holders(p) : shown'[h] = shown[h],
         count'[p] = count[p], anim'[p] = anim[p],
         paused'[anim[p]] = paused[anim[p]], frame'[anim[p]] = frame[anim[p]]
  PROVE  Decides(p)'
<1>1. SumFunctionOnSet(shown', Holders(p)) = SumFunctionOnSet(shown, Holders(p))
  BY HoldersFinite, SumSame
<1>2. \A h \in Holders(p) : d[h] = p /\ d'[h] = p
  BY DEF Holders
<1>3. \A h \in Holders(p) : Animated(h) => Animated(h)'
  BY <1>2 DEF Animated, AnimOf, Exists
<1> QED BY <1>1, <1>3 DEF Decides

\* A statement about one Private for all of them.
LEMMA EachPrivate ==
  ASSUME IInv', IsFiniteSet({h \in Handles : Exists(h)})',
         \A p \in Privates : (Holders(p) # {} /\ ~mixed[anim[p]])' => Sole(p)' /\ Decides(p)'
  PROVE  CInv'
BY DEF CInv

\* load() drops the old data and takes a fresh one, whose count starts at
\* nothing shown.
LEMMA LoadCounts ==
  ASSUME CInv, NEW h \in Handles, Load(h)
  PROVE  CInv'
<1>1. IInv /\ IInv'
  BY LoadKeeps DEF CInv
<1>2. PICK p : p = NewPrivate
  OBVIOUS
<1>3. p \in Privates /\ \A g \in Handles : d[g] # p
  BY <1>2, NewPrivateFree DEF Load
<1>4. PICK a \in FreeAnims :
        /\ d' = [d EXCEPT ![h] = p]
        /\ count' = [count EXCEPT ![p] = 0]
        /\ anim' = [anim EXCEPT ![p] = a]
        /\ paused' = [paused EXCEPT ![a] = TRUE]
        /\ frame' = [frame EXCEPT ![a] = 0]
        /\ mixed' = [mixed EXCEPT ![a] = FALSE]
        /\ UNCHANGED shown
  BY <1>2 DEF Load
<1>5. a \in Anims /\ d[h] = None /\ None \notin Privates
  BY IconConstants DEF Load, Exists, FreeAnims
<1>6. shown[h] = 0
  BY <1>1, <1>5, IconConstants DEF IInv, TypeOK, Exists
<1>7. Holders(p)' = {h} /\ anim'[p] = a /\ count'[p] = 0
  BY <1>1, <1>3, <1>4 DEF IInv, TypeOK, Holders
<1>8. \A q \in Privates : q # p => Holders(q)' = Holders(q) /\ anim'[q] = anim[q]
                                     /\ count'[q] = count[q]
  BY <1>1, <1>3, <1>4, <1>5 DEF IInv, TypeOK, Holders
<1>9. \A q \in Privates : Holders(q) # {} => anim[q] # a
  BY <1>4 DEF FreeAnims, Users, UsersIn, Holders
<1>10. IsFiniteSet({g \in Handles : Exists(g)})'
  <2>1. {g \in Handles : Exists(g)}' = {g \in Handles : Exists(g)} \cup {h}
    BY <1>1, <1>3, <1>4, <1>5 DEF IInv, TypeOK, Exists
  <2> QED BY <2>1, FS_AddElement DEF CInv
<1>11. Sole(p)' /\ Decides(p)'
  <2>1. Sole(p)'
    BY <1>7, <1>8, <1>9 DEF Sole
  <2>2. SumFunctionOnSet(shown, {h}) = 0
    <3>1. IsFiniteSet({h})
      BY FS_Singleton, Zenon
    <3>2. \A g \in {h} : shown[g] \in Nat
      BY <1>6
    <3> QED BY <1>6, <3>1, <3>2, SumZero
  <2>3. paused'[a] = TRUE /\ frame'[a] = 0
    BY <1>1, <1>4, <1>5 DEF IInv, TypeOK
  <2>4. \A g \in Holders(p)' : Animated(g)'
    BY <1>4, <1>6, <1>7 DEF Animated
  <2> QED BY <1>4, <1>7, <2>1, <2>2, <2>3, <2>4 DEF Decides
<1>12. ASSUME NEW q \in Privates, q # p, (Holders(q) # {} /\ ~mixed[anim[q]])'
       PROVE  Sole(q)' /\ Decides(q)'
  <2>1. Holders(q) # {} /\ anim[q] # a /\ anim[q] \in Anims
    BY <1>1, <1>8, <1>9, <1>12, IconConstants DEF IInv, TypeOK, Holders, Exists, AnimOf
  <2>2. /\ mixed'[anim[q]] = mixed[anim[q]] /\ paused'[anim[q]] = paused[anim[q]]
        /\ frame'[anim[q]] = frame[anim[q]]
    BY <1>1, <1>4, <2>1 DEF IInv, TypeOK
  <2>3. Sole(q) /\ Decides(q)
    BY <1>8, <1>12, <2>1, <2>2 DEF CInv
  <2>4. Sole(q)'
    BY <1>7, <1>8, <2>1, <2>3, <1>12 DEF Sole
  <2>5. Decides(q)'
    BY <1>4, <1>8, <1>12, <2>2, <2>3, Untouched
  <2> QED BY <2>4, <2>5
<1> QED BY <1>1, <1>10, <1>11, <1>12, EachPrivate

\* A copy is one more holder of the data and is not shown.
LEMMA CopyCounts ==
  ASSUME CInv, NEW h \in Handles, NEW g \in Handles, Copy(h, g)
  PROVE  CInv'
<1>1. IInv /\ IInv'
  BY CopyKeeps DEF CInv
<1>2. PICK p : p = d[g]
  OBVIOUS
<1>3. /\ d' = [d EXCEPT ![h] = p] /\ d[h] = None /\ p # None
      /\ UNCHANGED <<count, anim, paused, frame, mixed, shown>>
  BY <1>2 DEF Copy, Exists
<1>4. p \in Privates /\ g \in Holders(p) /\ None \notin Privates
  BY <1>1, <1>2, <1>3, IconConstants DEF IInv, TypeOK, Holders
<1>5. shown[h] = 0
  BY <1>1, <1>3, IconConstants DEF IInv, TypeOK, Exists
<1>6. Holders(p)' = Holders(p) \cup {h} /\ h \notin Holders(p)
  BY <1>1, <1>3, <1>4 DEF IInv, TypeOK, Holders
<1>7. \A q \in Privates : q # p => Holders(q)' = Holders(q)
  BY <1>1, <1>3, <1>4 DEF IInv, TypeOK, Holders
<1>8. IsFiniteSet({k \in Handles : Exists(k)})'
  <2>1. {k \in Handles : Exists(k)}' = {k \in Handles : Exists(k)} \cup {h}
    BY <1>1, <1>3 DEF IInv, TypeOK, Exists
  <2> QED BY <2>1, FS_AddElement DEF CInv
<1>9. \A q \in Privates : (Holders(q) # {})' => Holders(q) # {}
  BY <1>4, <1>7
<1>10. \A q \in Privates : (Holders(q) # {} /\ ~mixed[anim[q]])' =>
         Holders(q) # {} /\ Sole(q) /\ Decides(q)
  BY <1>3, <1>9 DEF CInv
<1>11. ASSUME NEW q \in Privates, Sole(q) PROVE Sole(q)'
  BY <1>3, <1>9, <1>11 DEF Sole
<1>12. ASSUME NEW q \in Privates, q # p, Decides(q) PROVE Decides(q)'
  BY <1>3, <1>7, <1>12, Untouched
<1>13. ASSUME Decides(p) PROVE Decides(p)'
  <2>1. IsFiniteSet(Holders(p) \cup {h}) /\ \A k \in Holders(p) \cup {h} : shown[k] \in Nat
    BY <1>4, <1>5, HoldersFinite, FS_AddElement
  <2>2. SumFunctionOnSet(shown, Holders(p) \cup {h}) =
          shown[h] + SumFunctionOnSet(shown, (Holders(p) \cup {h}) \ {h})
    BY <2>1, SumWithout
  <2>3. (Holders(p) \cup {h}) \ {h} = Holders(p)
    BY <1>6
  <2>4. SumFunctionOnSet(shown, Holders(p)) \in Nat
    BY <1>4, HoldersFinite, SumZero
  <2>5. (count[p] = SumFunctionOnSet(shown, Holders(p)))'
    BY <1>3, <1>5, <1>6, <1>13, <2>2, <2>3, <2>4 DEF Decides
  <2>6. \A k \in Holders(p) : d[k] = p /\ d'[k] = p
    BY <1>3, <1>4 DEF Holders
  <2>7. (\A k \in Holders(p) : Animated(k))'
    BY <1>3, <1>5, <1>6, <1>13, <2>6 DEF Decides, Animated, Exists, AnimOf
  <2> QED BY <1>3, <1>6, <1>13, <2>5, <2>7 DEF Decides
<1> QED BY <1>1, <1>8, <1>10, <1>11, <1>12, <1>13, EachPrivate

\* detach() takes one holder and what it shows away from the data that was
\* shared.
LEMMA DetachCounts ==
  ASSUME CInv, NEW h \in Handles, Detach(h)
  PROVE  CInv'
<1>1. IInv /\ IInv'
  BY DetachKeeps DEF CInv
<1>2. PICK p : p = NewPrivate
  OBVIOUS
<1>3. p \in Privates /\ \A g \in Handles : d[g] # p
  BY <1>2, NewPrivateFree DEF Detach
<1>4. PICK a : a = AnimOf(h)
  OBVIOUS
<1>5. PICK n \in Garbage :
        /\ d' = [d EXCEPT ![h] = p]
        /\ count' = [count EXCEPT ![p] = n]
        /\ anim' = [anim EXCEPT ![p] = a]
        /\ mixed' = [mixed EXCEPT ![a] = TRUE]
        /\ UNCHANGED <<paused, frame, shown>>
  BY <1>2, <1>4 DEF Detach
<1>6. /\ a \in Anims /\ d[h] \in Privates /\ a = anim[d[h]] /\ h \in Holders(d[h])
      /\ None \notin Privates
  BY <1>1, <1>4, IconConstants DEF IInv, TypeOK, Detach, Exists, AnimOf, Holders
<1>7. Holders(p)' = {h} /\ anim'[p] = a /\ mixed'[a]
  BY <1>1, <1>3, <1>5, <1>6 DEF IInv, TypeOK, Holders
<1>8. \A q \in Privates : q # p => anim'[q] = anim[q] /\ count'[q] = count[q]
                                     /\ (q # d[h] => Holders(q)' = Holders(q))
                                     /\ Holders(q)' \subseteq Holders(q)
  BY <1>1, <1>3, <1>5, <1>6 DEF IInv, TypeOK, Holders
<1>9. IsFiniteSet({g \in Handles : Exists(g)})'
  <2>1. {g \in Handles : Exists(g)}' = {g \in Handles : Exists(g)}
    BY <1>1, <1>3, <1>5, <1>6 DEF IInv, TypeOK, Exists
  <2> QED BY <2>1 DEF CInv
<1>10. ASSUME NEW q \in Privates, (Holders(q) # {} /\ ~mixed[anim[q]])'
       PROVE  Sole(q)' /\ Decides(q)'
  <2>1. q # p /\ anim'[q] # a
    BY <1>7, <1>10
  <2>2. q # d[h] /\ anim[q] # a /\ Holders(q) # {} /\ anim[q] \in Anims
    BY <1>1, <1>6, <1>8, <1>10, <2>1 DEF IInv, TypeOK, Holders, Exists, AnimOf
  <2>3. mixed'[anim[q]] = mixed[anim[q]]
    BY <1>1, <1>5, <2>2 DEF IInv, TypeOK
  <2>4. Sole(q) /\ Decides(q)
    BY <1>8, <1>10, <2>1, <2>2, <2>3 DEF CInv
  <2>5. Sole(q)'
    BY <1>7, <1>8, <2>1, <2>4 DEF Sole
  <2>6. Decides(q)'
    BY <1>5, <1>8, <2>1, <2>2, <2>4, Untouched
  <2> QED BY <2>5, <2>6
<1> QED BY <1>1, <1>9, <1>10, EachPrivate

\* activated() adds one to the sum and one to the count.
LEMMA ActivateCounts ==
  ASSUME CInv, NEW h \in Handles, Activate(h)
  PROVE  CInv'
<1>1. IInv /\ IInv'
  BY ActivateKeeps DEF CInv
<1>2. PICK p : p = d[h]
  OBVIOUS
<1>3. PICK a : a = anim[p]
  OBVIOUS
<1>4. /\ Exists(h)
      /\ shown' = [shown EXCEPT ![h] = @ + 1]
      /\ count' = [count EXCEPT ![p] = @ + 1]
      /\ paused' = [paused EXCEPT ![a] = FALSE]
      /\ UNCHANGED <<d, anim, frame, mixed>>
  BY <1>2, <1>3 DEF Activate, AnimOf
<1>5. p \in Privates /\ a \in Anims /\ h \in Holders(p) /\ shown[h] \in Nat
  BY <1>1, <1>2, <1>3, <1>4, IconConstants DEF IInv, TypeOK, Exists, AnimOf, Holders
<1>6. \A q \in Privates : Holders(q)' = Holders(q)
  BY <1>4 DEF Holders
<1>7. IsFiniteSet({g \in Handles : Exists(g)})'
  BY <1>4 DEF CInv, Exists
<1>8. ASSUME NEW q \in Privates, (Holders(q) # {} /\ ~mixed[anim[q]])'
      PROVE  Sole(q)' /\ Decides(q)'
  <2>1. Sole(q) /\ Decides(q)
    BY <1>4, <1>6, <1>8 DEF CInv
  <2>2. Sole(q)'
    BY <1>4, <1>6, <2>1 DEF Sole
  <2>3. CASE q # p
    <3>1. anim[q] # a
      BY <1>3, <1>5, <2>1, <2>3 DEF Sole
    <3>2. Holders(q) # {} /\ h \notin Holders(q) /\ \A g \in Holders(q) : shown'[g] = shown[g]
      BY <1>1, <1>2, <1>4, <1>6, <1>8, <2>3 DEF IInv, TypeOK, Holders
    <3>3. count'[q] = count[q] /\ paused'[anim[q]] = paused[anim[q]]
      <4>1. anim[q] \in Anims
        BY <1>1, <3>2, IconConstants DEF IInv, TypeOK, Holders, Exists, AnimOf
      <4> QED BY <1>1, <1>4, <2>3, <3>1, <4>1 DEF IInv, TypeOK
    <3> QED BY <1>4, <1>6, <2>1, <2>2, <3>2, <3>3, UntouchedShown
  <2>4. CASE q = p
    <3>1. IsFiniteSet(Holders(p)) /\ \A g \in Holders(p) : shown[g] \in Nat /\ d[g] = p
      BY <1>5, HoldersFinite
    <3>2. \A g \in Holders(p) : shown'[g] = IF g = h THEN shown[h] + 1 ELSE shown[g]
      BY <1>1, <1>4 DEF IInv, TypeOK, Holders
    <3>3. SumFunctionOnSet(shown', Holders(p)) = SumFunctionOnSet(shown, Holders(p)) + 1
      <4>1. shown[h] + 1 \in Nat
        BY <1>5
      <4>2. SumFunctionOnSet(shown', Holders(p)) =
              SumFunctionOnSet(shown, Holders(p)) + ((shown[h] + 1) - shown[h])
        BY <1>5, <3>1, <3>2, <4>1, SumChange
      <4>3. SumFunctionOnSet(shown, Holders(p)) \in Nat
        BY <3>1, SumZero
      <4> QED BY <1>5, <4>2, <4>3
    <3>4. (count[p] = SumFunctionOnSet(shown, Holders(p)))'
      BY <1>1, <1>4, <1>5, <1>6, <2>1, <2>4, <3>3 DEF IInv, TypeOK, Decides
    <3>5. ~paused'[a]
      BY <1>1, <1>4, <1>5 DEF IInv, TypeOK
    <3>6. (\A g \in Holders(p) : Animated(g))'
      <4> SUFFICES ASSUME NEW g \in Holders(p)' PROVE Animated(g)'
        OBVIOUS
      <4>1. AnimOf(g)' = a
        BY <1>3, <1>4, <1>5, <1>6, <3>1 DEF AnimOf
      <4> QED BY <3>5, <4>1 DEF Animated
    <3>7. shown'[h] # 0 /\ h \in Holders(p)'
      BY <1>5, <1>6, <3>2
    <3> QED BY <2>2, <2>4, <3>4, <3>6, <3>7 DEF Decides
  <2> QED BY <2>3, <2>4
<1> QED BY <1>1, <1>7, <1>8, EachPrivate

\* stop() takes one from the sum and one from the count.
LEMMA StopCounts ==
  ASSUME CInv, NEW h \in Handles, Stop(h)
  PROVE  CInv'
<1>1. IInv /\ IInv'
  BY StopKeeps DEF CInv
<1>2. PICK p : p = d[h]
  OBVIOUS
<1>3. PICK a : a = anim[p]
  OBVIOUS
<1>4. PICK last \in BOOLEAN : last <=> count[p] - 1 <= 0
  OBVIOUS
<1>5. /\ Exists(h) /\ shown[h] > 0
      /\ shown' = [shown EXCEPT ![h] = @ - 1]
      /\ count' = [count EXCEPT ![p] = IF last THEN 0 ELSE @ - 1]
      /\ paused' = [paused EXCEPT ![a] = @ \/ last]
      /\ frame' = [frame EXCEPT ![a] = IF last THEN 0 ELSE @]
      /\ UNCHANGED <<d, anim, mixed>>
  BY <1>2, <1>3, <1>4 DEF Stop, IsLast
<1>6. p \in Privates /\ a \in Anims /\ h \in Holders(p) /\ shown[h] \in Nat
  BY <1>1, <1>2, <1>3, <1>5, IconConstants DEF IInv, TypeOK, Exists, AnimOf, Holders
<1>7. \A q \in Privates : Holders(q)' = Holders(q)
  BY <1>5 DEF Holders
<1>8. IsFiniteSet({g \in Handles : Exists(g)})'
  BY <1>5 DEF CInv, Exists
<1>9. ASSUME NEW q \in Privates, (Holders(q) # {} /\ ~mixed[anim[q]])'
      PROVE  Sole(q)' /\ Decides(q)'
  <2>1. Sole(q) /\ Decides(q)
    BY <1>5, <1>7, <1>9 DEF CInv
  <2>2. Sole(q)'
    BY <1>5, <1>7, <2>1 DEF Sole
  <2>3. CASE q # p
    <3>1. anim[q] # a
      BY <1>3, <1>6, <2>1, <2>3 DEF Sole
    <3>2. Holders(q) # {} /\ h \notin Holders(q) /\ \A g \in Holders(q) : shown'[g] = shown[g]
      BY <1>1, <1>2, <1>5, <1>7, <1>9, <2>3 DEF IInv, TypeOK, Holders
    <3>3. /\ count'[q] = count[q] /\ paused'[anim[q]] = paused[anim[q]]
          /\ frame'[anim[q]] = frame[anim[q]]
      <4>1. anim[q] \in Anims
        BY <1>1, <3>2, IconConstants DEF IInv, TypeOK, Holders, Exists, AnimOf
      <4> QED BY <1>1, <1>5, <2>3, <3>1, <4>1 DEF IInv, TypeOK
    <3> QED BY <1>5, <1>7, <2>1, <2>2, <3>2, <3>3, UntouchedShown
  <2>4. CASE q = p
    <3>1. IsFiniteSet(Holders(p)) /\ \A g \in Holders(p) : shown[g] \in Nat /\ d[g] = p
      BY <1>6, HoldersFinite
    <3>2. \A g \in Holders(p) : shown'[g] = IF g = h THEN shown[h] - 1 ELSE shown[g]
      BY <1>1, <1>5 DEF IInv, TypeOK, Holders
    <3>3. shown[h] - 1 \in Nat
      BY <1>5, <1>6
    <3>4. SumFunctionOnSet(shown', Holders(p)) = SumFunctionOnSet(shown, Holders(p)) - 1
      <4>1. SumFunctionOnSet(shown', Holders(p)) =
              SumFunctionOnSet(shown, Holders(p)) + ((shown[h] - 1) - shown[h])
        BY <1>6, <3>1, <3>2, <3>3, SumChange
      <4>2. SumFunctionOnSet(shown, Holders(p)) \in Nat
        BY <3>1, SumZero
      <4> QED BY <1>6, <4>1, <4>2
    <3>5. \A g \in Holders(p) : shown'[g] \in Nat
      BY <3>1, <3>2, <3>3
    <3>6. /\ SumFunctionOnSet(shown', Holders(p)) \in Nat
          /\ SumFunctionOnSet(shown', Holders(p)) = 0 <=> \A g \in Holders(p) : shown'[g] = 0
      BY <3>1, <3>5, SumZero
    <3>7. SumFunctionOnSet(shown, Holders(p)) \in Nat
      BY <3>1, SumZero
    <3>8. last <=> \A g \in Holders(p) : shown'[g] = 0
      BY <1>4, <2>1, <2>4, <3>4, <3>6, <3>7 DEF Decides
    <3>9. (count[p] = SumFunctionOnSet(shown, Holders(p)))'
      <4>1. count'[p] = IF last THEN 0 ELSE count[p] - 1
        BY <1>1, <1>5, <1>6 DEF IInv, TypeOK
      <4>2. count[p] = SumFunctionOnSet(shown, Holders(p))
        BY <2>1, <2>4 DEF Decides
      <4> QED BY <1>6, <1>7, <3>4, <3>6, <3>7, <3>8, <4>1, <4>2
    <3>10. paused'[a] = (paused[a] \/ last) /\ frame'[a] = IF last THEN 0 ELSE frame[a]
      BY <1>1, <1>5, <1>6 DEF IInv, TypeOK
    <3>11. (\A g \in Holders(p) : Animated(g))'
      <4> SUFFICES ASSUME NEW g \in Holders(p), shown'[g] > 0, Looping[a] = 0
                   PROVE  ~paused'[a]
        BY <1>3, <1>5, <1>6, <1>7, <3>1 DEF Animated, AnimOf
      <4>1. ~last
        BY <3>5, <3>8
      <4>2. shown[g] > 0
        BY <1>5, <3>1, <3>2
      <4>3. ~paused[a]
        BY <1>3, <2>1, <2>4, <3>1, <4>2, <1>6, IconConstants DEF Decides, Animated, AnimOf, Exists
      <4> QED BY <3>10, <4>1, <4>3
    <3>12. (\A g \in Holders(p) : shown'[g] = 0) => paused'[a] /\ frame'[a] = 0
      BY <3>8, <3>10
    <3> QED BY <1>3, <1>5, <1>6, <1>7, <2>2, <2>4, <3>9, <3>11, <3>12 DEF Decides
  <2> QED BY <2>3, <2>4
<1> QED BY <1>1, <1>8, <1>9, EachPrivate

\* A destroyed icon takes what it shows out of the sum.
LEMMA DestroyCounts ==
  ASSUME CInv, NEW h \in Handles, Destroy(h)
  PROVE  CInv'
<1>1. IInv /\ IInv'
  BY DestroyKeeps DEF CInv
<1>2. PICK p : p = d[h]
  OBVIOUS
<1>3. PICK held : held = [d EXCEPT ![h] = None]
  OBVIOUS
<1>4. PICK dead : dead = {a \in Anims : UsersIn(held, a) = {}}
  OBVIOUS
<1>5. /\ Exists(h) /\ shown[h] = 0 /\ d' = held /\ shown' = shown
      /\ paused' = [a \in Anims |-> IF a \in dead THEN TRUE ELSE paused[a]]
      /\ frame' = [a \in Anims |-> IF a \in dead THEN 0 ELSE frame[a]]
      /\ mixed' = [a \in Anims |-> IF a \in dead THEN FALSE ELSE mixed[a]]
  BY <1>3, <1>4 DEF Destroy
<1>6. \/ /\ Holders(p) = {h}
         /\ count' = [count EXCEPT ![p] = 0] /\ anim' = [anim EXCEPT ![p] = None]
      \/ UNCHANGED <<count, anim>>
  BY <1>2 DEF Destroy
<1>7. p \in Privates /\ h \in Holders(p) /\ None \notin Privates
  BY <1>1, <1>2, <1>5, IconConstants DEF IInv, TypeOK, Exists, Holders
<1>8. Holders(p)' = Holders(p) \ {h}
  BY <1>1, <1>3, <1>5, <1>7 DEF IInv, TypeOK, Holders
<1>9. \A q \in Privates : q # p => Holders(q)' = Holders(q)
  BY <1>1, <1>2, <1>3, <1>5, <1>7 DEF IInv, TypeOK, Holders
<1>10. IsFiniteSet({g \in Handles : Exists(g)})'
  <2>1. {g \in Handles : Exists(g)}' = {g \in Handles : Exists(g)} \ {h}
    BY <1>1, <1>3, <1>5 DEF IInv, TypeOK, Exists
  <2> QED BY <2>1, FS_RemoveElement DEF CInv
<1>11. \A q \in Privates : Holders(q)' # {} =>
         Holders(q) # {} /\ anim'[q] = anim[q] /\ count'[q] = count[q]
  BY <1>1, <1>6, <1>7, <1>8, <1>9 DEF IInv, TypeOK
<1>12. ASSUME NEW q \in Privates, (Holders(q) # {} /\ ~mixed[anim[q]])'
       PROVE  Sole(q)' /\ Decides(q)'
  <2>1. anim[q] \in Anims /\ anim[q] \notin dead
    <3>1. PICK g \in Handles : g # h /\ d[g] = q /\ held[g] = q
      BY <1>1, <1>3, <1>5, <1>7, <1>12 DEF IInv, TypeOK, Holders
    <3>2. anim[q] \in Anims
      BY <1>1, <3>1, IconConstants DEF IInv, TypeOK, Exists, AnimOf
    <3> QED BY <1>4, <3>1, <3>2 DEF UsersIn
  <2>2. /\ mixed'[anim[q]] = mixed[anim[q]] /\ paused'[anim[q]] = paused[anim[q]]
        /\ frame'[anim[q]] = frame[anim[q]]
    BY <1>5, <2>1
  <2>3. Sole(q) /\ Decides(q)
    BY <1>11, <1>12, <2>2 DEF CInv
  <2>4. Sole(q)'
    BY <1>11, <1>12, <2>3 DEF Sole
  <2>5. CASE q # p
    <3>1. Decides(q)'
      BY <1>5, <1>9, <1>11, <1>12, <2>2, <2>3, <2>5, Untouched
    <3> QED BY <2>4, <3>1
  <2>6. CASE q = p
    <3>1. IsFiniteSet(Holders(p)) /\ \A g \in Holders(p) : shown[g] \in Nat /\ d[g] = p
      BY <1>7, HoldersFinite
    <3>2. SumFunctionOnSet(shown, Holders(p)) =
            shown[h] + SumFunctionOnSet(shown, Holders(p) \ {h})
      BY <1>7, <3>1, SumWithout
    <3>3. SumFunctionOnSet(shown, Holders(p) \ {h}) \in Nat
      <4>1. IsFiniteSet(Holders(p) \ {h})
        BY <3>1, FS_RemoveElement
      <4> QED BY <3>1, <4>1, SumZero
    <3>4. (count[p] = SumFunctionOnSet(shown, Holders(p)))'
      BY <1>5, <1>8, <1>11, <1>12, <2>3, <2>6, <3>2, <3>3 DEF Decides
    <3>5. \A g \in Holders(p)' : g \in Holders(p) /\ d[g] = p /\ d'[g] = p
      BY <1>8, <3>1 DEF Holders
    <3>6. (\A g \in Holders(p) : Animated(g))'
      <4> SUFFICES ASSUME NEW g \in Holders(p)' PROVE Animated(g)'
        OBVIOUS
      <4>1. AnimOf(g)' = anim[p] /\ AnimOf(g) = anim[p]
        BY <1>11, <1>12, <2>6, <3>5 DEF AnimOf
      <4>2. Animated(g) /\ Exists(g)
        BY <1>7, <2>3, <2>6, <3>5 DEF Decides, Exists
      <4> QED BY <1>5, <2>2, <2>6, <4>1, <4>2 DEF Animated
    <3>7. (\A g \in Holders(p)' : shown'[g] = 0) => \A g \in Holders(p) : shown[g] = 0
      BY <1>5, <1>8
    <3>8. (\A g \in Holders(p)' : shown'[g] = 0) => paused'[anim'[p]] /\ frame'[anim'[p]] = 0
      BY <1>11, <1>12, <2>2, <2>3, <2>6, <3>7 DEF Decides
    <3> QED BY <2>4, <2>6, <3>4, <3>6, <3>8 DEF Decides
  <2> QED BY <2>5, <2>6
<1> QED BY <1>1, <1>10, <1>12, EachPrivate

\* A turn of the timer changes no count and no holder.
LEMMA RefreshCounts ==
  ASSUME CInv, NEW a \in Anims, Refresh(a)
  PROVE  CInv'
<1>1. IInv /\ IInv'
  BY RefreshKeeps DEF CInv
<1>2. /\ ~paused[a]
      /\ frame' = [frame EXCEPT ![a] = IF Wraps(a) THEN 0 ELSE @ + 1]
      /\ paused' = [paused EXCEPT ![a] = Ends(a)]
      /\ UNCHANGED <<d, count, anim, mixed, shown>>
  BY DEF Refresh
<1>3. \A q \in Privates : Holders(q)' = Holders(q)
  BY <1>2 DEF Holders
<1>4. IsFiniteSet({g \in Handles : Exists(g)})'
  BY <1>2 DEF CInv, Exists
<1>5. ASSUME NEW q \in Privates, (Holders(q) # {} /\ ~mixed[anim[q]])'
      PROVE  Sole(q)' /\ Decides(q)'
  <2>1. Sole(q) /\ Decides(q) /\ anim[q] \in Anims
    <3>1. Holders(q) # {} /\ ~mixed[anim[q]]
      BY <1>2, <1>3, <1>5
    <3>2. anim[q] \in Anims
      BY <1>1, <3>1, IconConstants DEF IInv, TypeOK, Holders, Exists, AnimOf
    <3> QED BY <3>1, <3>2 DEF CInv
  <2>2. Sole(q)'
    BY <1>2, <1>3, <2>1 DEF Sole
  <2>3. CASE anim[q] # a
    <3>1. paused'[anim[q]] = paused[anim[q]] /\ frame'[anim[q]] = frame[anim[q]]
      BY <1>1, <1>2, <2>1, <2>3 DEF IInv, TypeOK
    <3>2. Decides(q)'
      BY <1>2, <1>3, <2>1, <3>1, Untouched
    <3> QED BY <2>2, <3>2
  <2>4. CASE anim[q] = a
    <3>1. ~(\A g \in Holders(q) : shown[g] = 0)
      BY <1>2, <2>1, <2>4 DEF Decides
    <3>2. Looping[a] = 0 => ~paused'[a]
      BY <1>1, <1>2 DEF IInv, TypeOK, Ends
    <3>3. \A g \in Holders(q) : d[g] = q
      BY DEF Holders
    <3>4. (\A g \in Holders(q) : Animated(g))'
      BY <1>2, <1>3, <2>4, <3>2, <3>3 DEF Animated, AnimOf
    <3> QED BY <1>2, <1>3, <2>1, <2>2, <3>1, <3>4 DEF Decides
  <2> QED BY <2>3, <2>4
<1> QED BY <1>1, <1>4, <1>5, EachPrivate

\* CountDecides with what it takes to keep it holds in every reachable state.
THEOREM IconCountInvariant == Spec => []CInv
<1>1. Init => CInv
  <2> SUFFICES ASSUME Init PROVE CInv
    OBVIOUS
  <2>1. IInv
    BY IconConstants DEF Init, IInv, TypeOK, UpdatesReachShown, Exists, AnimOf
  <2>2. {h \in Handles : Exists(h)} = {} /\ \A p \in Privates : Holders(p) = {}
    BY IconConstants DEF Init, Exists, Holders
  <2> QED BY <2>1, <2>2, FS_EmptySet DEF CInv
<1>2. CInv /\ [Next]_vars => CInv'
  <2> SUFFICES ASSUME CInv, [Next]_vars
               PROVE  CInv'
    OBVIOUS
  <2>1. CASE \E h \in Handles : Load(h)
    BY <2>1, LoadCounts
  <2>2. CASE \E h, g \in Handles : Copy(h, g)
    BY <2>2, CopyCounts
  <2>3. CASE \E h \in Handles : Detach(h)
    BY <2>3, DetachCounts
  <2>4. CASE \E h \in Handles : Activate(h)
    BY <2>4, ActivateCounts
  <2>5. CASE \E h \in Handles : Stop(h)
    BY <2>5, StopCounts
  <2>6. CASE \E h \in Handles : Destroy(h)
    BY <2>6, DestroyCounts
  <2>7. CASE \E a \in Anims : Refresh(a)
    BY <2>7, RefreshCounts
  <2>8. CASE UNCHANGED vars
    <3>1. IInv'
      BY <2>8 DEF vars, CInv, IInv, TypeOK, UpdatesReachShown, Exists, AnimOf
    <3>2. \A p \in Privates : Holders(p)' = Holders(p)
      BY <2>8 DEF vars, Holders
    <3>3. IsFiniteSet({h \in Handles : Exists(h)})'
      BY <2>8 DEF vars, CInv, Exists
    <3>4. ASSUME NEW p \in Privates, (Holders(p) # {} /\ ~mixed[anim[p]])'
          PROVE  Sole(p)' /\ Decides(p)'
      <4>1. Sole(p) /\ Decides(p)
        BY <2>8, <3>2, <3>4 DEF vars, CInv
      <4>2. Sole(p)'
        BY <2>8, <3>2, <4>1 DEF vars, Sole
      <4>3. Decides(p)'
        BY <2>8, <3>2, <4>1, Untouched DEF vars
      <4> QED BY <4>2, <4>3
    <3> QED BY <3>1, <3>3, <3>4, EachPrivate
  <2> QED BY <2>1, <2>2, <2>3, <2>4, <2>5, <2>6, <2>7, <2>8 DEF Next
<1> QED BY <1>1, <1>2, PTL DEF Spec

\* The number of activations that a Private counts is the number its icons have
\* outstanding, and it alone decides whether the animation runs, until an icon
\* is detached from one that is in use.
THEOREM IconCountDecides == Spec => []CountDecides
<1>1. CInv => CountDecides
  BY DEF CInv, CountDecides, FreePrivates, Decides
<1> QED BY <1>1, IconCountInvariant, PTL

=============================================================================
