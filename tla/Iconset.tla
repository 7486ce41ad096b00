------------------------------ MODULE Iconset ------------------------------
(***************************************************************************)
(* Iconset (iconset/iconset.cpp): objects that share a counted             *)
(* Iconset::Private until one of them is changed, which detach() gives a   *)
(* copy of its own first.  The icons are in a QDict, in which a name can   *)
(* have several: insert() adds one that hides the others, replace() and    *)
(* remove() take the one in sight away, and the iterator meets the newest  *)
(* first.  A name is therefore modelled as the sequence of its icons,      *)
(* newest first.                                                           *)
(*                                                                         *)
(* An icon stands for the image it shows.  Authors, version, file name and *)
(* the like are left out, and an Iconset assigned to itself, which occurs  *)
(* nowhere.                                                                *)
(***************************************************************************)
EXTENDS Naturals, Sequences, FiniteSets, SequencesExt

CONSTANTS Sets,       \* Iconset objects
          Privates,   \* Iconset::Private objects
          Names,      \* names of icons
          Images,     \* icons
          Dirs,       \* directories and archives
          Content,    \* the icons of each directory's icondef.xml in the order of
                      \* the document, None when there is none that is valid
          Generated,  \* the name made from each value of icon_counter
          None,       \* the null pointer, a missing name
          MaxIcons,   \* bound: icons in an iconset to which others are appended
          MaxCounter  \* bound: icons loaded

\* Programs and documents choose no names of the form icon_0000.
OwnNames == Names \ {Generated[i] : i \in 0 .. MaxCounter - 1}

ASSUME IconsetConstants ==
  /\ Privates \subseteq Nat
  /\ None \notin Privates /\ None \notin Names /\ None \notin Images /\ None \notin Dirs
  /\ None \notin [Names -> Images \cup {None}]
  /\ MaxIcons \in Nat /\ MaxCounter \in Nat
  /\ Generated \in [0 .. MaxCounter - 1 -> Names]
  /\ \A i, j \in 0 .. MaxCounter - 1 : Generated[i] = Generated[j] => i = j
  /\ \A dir \in Dirs : Content[dir] # None =>
       Content[dir] \in Seq([name : OwnNames \cup {None}, image : Images])

VARIABLES
  d,            \* the Private of each Iconset, None for one that does not exist
  list,         \* Private::list, the icons of each name
  icon_counter  \* Iconset::Private::icon_counter

vars == <<d, list, icon_counter>>

Exists(s) == d[s] # None
Holders(p) == {s \in Sets : d[s] = p}

\* Which storage a new Private gets does not matter: it is the first that is free.
FreePrivates == {p \in Privates : Holders(p) = {}}
NewPrivate == CHOOSE p \in FreePrivates : \A q \in FreePrivates : p <= q

NoIcons == [n \in Names |-> << >>]

\* QDict::count()
Count(l) == Cardinality(UNION {{n} \X DOMAIN l[n] : n \in Names})

\* QDict::remove and QDict::replace of one name.
Removed(icons) == IF icons = << >> THEN icons ELSE Tail(icons)
Replaced(icons, v) == <<v>> \o Removed(icons)

\* Everything in l inserted into m in the order of the iterator.
Inserted(l, m) == [n \in Names |-> Reverse(l[n]) \o m[n]]

\* Variant: the icons left behind.
CopiedNothing(l) == NoIcons

\* Private(const Private &)
Copied(l) == Inserted(l, NoIcons)

\* Variant: a Private that only two share taken for one's own.
SharedByMore(s) == \E t, u \in Sets \ {s} : t # u /\ d[t] = d[s] /\ d[u] = d[s]

\* Whether detach() has to copy.
Shared(s) == \E t \in Sets \ {s} : d[t] = d[s]

\* The icons of s after detach().
Detached(s) == IF Shared(s) THEN Copied(list[d[s]]) ELSE list[d[s]]

\* detach() and the change of the icons that follows it.
Change(s, l) ==
  LET p == IF Shared(s) THEN NewPrivate ELSE d[s] IN
  /\ Shared(s) => FreePrivates # {}
  /\ d' = [d EXCEPT ![s] = p]
  /\ list' = [list EXCEPT ![p] = l]

\* The Iconset s given another Private or none; its own is deleted with its last
\* Iconset, and what is deleted blanked.
Refer(s, p) ==
  LET last == Exists(s) /\ ~Shared(s) /\ p # d[s] IN
  /\ d' = [d EXCEPT ![s] = p]
  /\ list' = IF last THEN [list EXCEPT ![d[s]] = NoIcons] ELSE list

\* Variant: only icons without a name counted.
LoadIconUncounted(acc, e) ==
  LET n == IF e.name = None THEN Generated[acc.counter] ELSE e.name
  IN [acc EXCEPT !.list[n] = Replaced(@, e.image)]

\* Variant: every icon counted twice.
LoadIconTwice(acc, e) ==
  LET n == IF e.name = None THEN Generated[acc.counter] ELSE e.name
  IN [acc EXCEPT !.list[n] = Replaced(@, e.image), !.counter = @ + 2]

\* loadIcon(): a name is made up for every icon, whether or not it has one.
LoadIcon(acc, e) ==
  LET n == IF e.name = None THEN Generated[acc.counter] ELSE e.name
  IN [acc EXCEPT !.list[n] = Replaced(@, e.image), !.counter = @ + 1]

-----------------------------------------------------------------------------

Init ==
  /\ d = [s \in Sets |-> None]
  /\ list = [p \in Privates |-> NoIcons]
  /\ icon_counter = 0

Construct(s) ==
  /\ ~Exists(s) /\ FreePrivates # {}
  /\ Refer(s, NewPrivate)
  /\ UNCHANGED icon_counter

\* Iconset(const Iconset &)
Copy(s, t) ==
  /\ ~Exists(s) /\ Exists(t)
  /\ Refer(s, d[t])
  /\ UNCHANGED icon_counter

Destroy(s) ==
  /\ Exists(s)
  /\ Refer(s, None)
  /\ UNCHANGED icon_counter

\* operator=
Assign(s, t) ==
  /\ Exists(s) /\ Exists(t) /\ s # t
  /\ Refer(s, d[t])
  /\ UNCHANGED icon_counter

SetIcon(s, n, v) ==
  /\ Exists(s)
  /\ Change(s, [Detached(s) EXCEPT ![n] = Replaced(@, v)])
  /\ UNCHANGED icon_counter

RemoveIcon(s, n) ==
  /\ Exists(s)
  /\ Change(s, [Detached(s) EXCEPT ![n] = Removed(@)])
  /\ UNCHANGED icon_counter

\* operator+=, also with itself, when the iterator does not meet what it inserts.
AppendFrom(s, t) ==
  LET l == Inserted(IF t = s THEN Detached(s) ELSE list[d[t]], Detached(s)) IN
  /\ Exists(s) /\ Exists(t)
  /\ Count(l) <= MaxIcons
  /\ Change(s, l)
  /\ UNCHANGED icon_counter

Clear(s) ==
  /\ Exists(s)
  /\ Change(s, NoIcons)
  /\ UNCHANGED icon_counter

\* load(): it detaches also when it then finds nothing to load.
LoadNothing(s, dir) ==
  /\ Exists(s) /\ Content[dir] = None
  /\ Change(s, Detached(s))
  /\ UNCHANGED icon_counter

Load(s, dir) ==
  /\ Exists(s) /\ Content[dir] # None
  /\ icon_counter + Len(Content[dir]) <= MaxCounter
  /\ LET read == FoldLeft(LoadIcon, [list |-> Detached(s), counter |-> icon_counter],
                          Content[dir])
     IN Change(s, read.list) /\ icon_counter' = read.counter

Next ==
  \E s \in Sets :
    \/ Construct(s)
    \/ \E t \in Sets : Copy(s, t) \/ Assign(s, t) \/ AppendFrom(s, t)
    \/ Destroy(s)
    \/ \E n \in Names : RemoveIcon(s, n)
    \/ \E n \in OwnNames, v \in Images : SetIcon(s, n, v)
    \/ Clear(s)
    \/ \E dir \in Dirs : LoadNothing(s, dir) \/ Load(s, dir)

Spec == Init /\ [][Next]_vars

-----------------------------------------------------------------------------

\* The icons of an Iconset as icon(name) finds them.
Icons(s) ==
  IF Exists(s)
    THEN [n \in Names |-> IF list[d[s]][n] = << >> THEN None ELSE Head(list[d[s]][n])]
    ELSE None

\* The type invariant.
TypeOK ==
  /\ d \in [Sets -> Privates \cup {None}]
  /\ list \in [Privates -> [Names -> Seq(Images)]]
  /\ icon_counter \in 0 .. MaxCounter

\* However Iconset objects share their data, a call changes the icons of the one
\* it is made on only: detach() comes before every change.
OthersUntouched ==
  [][\E s \in Sets : \A t \in Sets \ {s} : Icons(t)' = Icons(t)]_vars

\* iconset.cpp:871: icon_counter is "used to give unique names to icons".  No name
\* it is still to give is taken in any iconset, whatever was copied, appended or
\* loaded before.
FreshNames ==
  \A p \in Privates : \A i \in icon_counter .. MaxCounter - 1 : list[p][Generated[i]] = << >>

\* As long as no name has a second icon, Iconset objects are values.
Value == INSTANCE IconsetValue
           WITH value <- [s \in Sets |-> Icons(s)],
                Contents <- {Content[dir] : dir \in Dirs} \ {None}

Single == \A p \in Privates : \A n \in Names : Len(list[p][n]) <= 1

IsValue ==
  Value!Init /\ [][Single /\ Single' => Value!Next \/ UNCHANGED [s \in Sets |-> Icons(s)]]_vars

\* iconset.cpp:1194: removeIcon() "Removes Icon with the name \a name from
\* Iconset."  After operator+= brought an icon of that name it uncovers another.
RemovedIsGone ==
  [][\A s \in Sets, n \in Names : RemoveIcon(s, n) => Icons(s)'[n] = None]_vars

=============================================================================
