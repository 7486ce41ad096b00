--------------------------- MODULE IconsetFactory ---------------------------
(***************************************************************************)
(* IconsetFactory and its private half (iconset/iconset.cpp): a static     *)
(* QPtrVector of pointers to the registered iconsets, allocated with the   *)
(* first registration and deleted with the last unregistration.  Of        *)
(* QPtrVector the code uses: count(), the number of slots that are not     *)
(* null; resize(), which drops the tail or adds null slots; insert(),      *)
(* which overwrites a slot; remove(), which nulls one; at() and find().    *)
(***************************************************************************)
EXTENDS Naturals, Sequences, FiniteSets, SequencesExt

CONSTANTS Iconsets,  \* Iconset objects
          Names,     \* names of icons
          Content,   \* the names of the icons in each iconset
          Null       \* the null pointer

ASSUME FactoryConstants ==
  /\ Content \in [Iconsets -> SUBSET Names]
  /\ Null \notin Iconsets

VARIABLES
  alive,     \* the Iconset objects that exist
  iconsets,  \* the slots of the QPtrVector, << >> when it is not allocated
  added,     \* iconsets added to the factory and neither removed nor destroyed
  stacked    \* whether only the latest of them ever was removed or destroyed

vars == <<alive, iconsets, added, stacked>>

\* QPtrVector.
NonNull(v) == Cardinality({i \in DOMAIN v : v[i] # Null})
Resize(v, n) == [i \in 1 .. n |-> IF i <= Len(v) THEN v[i] ELSE Null]
Put(v, i, s) == [v EXCEPT ![i] = s]
Has(v, s) == \E i \in DOMAIN v : v[i] = s
Nulled(v, s) == [i \in DOMAIN v |-> IF v[i] = s THEN Null ELSE v[i]]

\* Variant: the iconset registered whether or not it is already.
RegisteredAgain(v, s) ==
  LET w == Resize(v, NonNull(v) + 1) IN Put(w, NonNull(w) + 1, s)

\* Variant: from the second on, every iconset put into the slot of the last.
RegisteredOver(v, s) ==
  IF v = << >> THEN <<s>> ELSE IF Has(v, s) THEN v ELSE Put(v, NonNull(v), s)

\* registerIconset(); both of its calls of count() see what came before them.
Registered(v, s) ==
  LET w == Resize(v, NonNull(v) + 1)
  IN IF Has(v, s) THEN v ELSE Put(w, NonNull(w) + 1, s)

\* Variant: the vector kept when its last iconset goes.
UnregisteredKept(v, s) == Nulled(v, s)

\* unregisterIconset()
Unregistered(v, s) ==
  LET w == Nulled(v, s)
  IN IF Has(v, s) /\ NonNull(w) = 0 THEN << >> ELSE w

\* icon(): the slots the loop gets to, up to the first that has the name; a null
\* slot is dereferenced.
Scanned(n) ==
  {j \in 1 .. NonNull(iconsets) :
     \A i \in 1 .. j - 1 : iconsets[i] # Null => n \notin Content[iconsets[i]]}

Hits(n) == {j \in Scanned(n) : iconsets[j] # Null /\ n \in Content[iconsets[j]]}

-----------------------------------------------------------------------------

Init == alive = {} /\ iconsets = << >> /\ added = {} /\ stacked = TRUE

Construct(s) ==
  /\ s \notin alive
  /\ alive' = alive \cup {s}
  /\ UNCHANGED <<iconsets, added, stacked>>

AddToFactory(s) ==
  /\ s \in alive
  /\ iconsets' = Registered(iconsets, s)
  /\ added' = added \cup {s}
  /\ UNCHANGED <<alive, stacked>>

\* Programs that remove nothing, like popups/main.cpp and test/main.cpp, or what
\* they added last keep the vector without null slots between others.
Latest(s) == s \in added => iconsets[NonNull(iconsets)] = s

RemoveFromFactory(s) ==
  /\ s \in alive
  /\ stacked' = (stacked /\ Latest(s))
  /\ iconsets' = Unregistered(iconsets, s)
  /\ added' = added \ {s}
  /\ UNCHANGED alive

\* ~Iconset() unregisters, whether or not the iconset was registered.
Destroy(s) ==
  /\ s \in alive
  /\ stacked' = (stacked /\ Latest(s))
  /\ alive' = alive \ {s}
  /\ iconsets' = Unregistered(iconsets, s)
  /\ added' = added \ {s}

Next ==
  \E s \in Iconsets : \/ Construct(s)
                      \/ AddToFactory(s)
                      \/ RemoveFromFactory(s)
                      \/ Destroy(s)

Spec == Init /\ [][Next]_vars

-----------------------------------------------------------------------------

\* The type invariant; a vector without iconsets is not kept.
TypeOK ==
  /\ alive \subseteq Iconsets
  /\ iconsets \in Seq(Iconsets \cup {Null})
  /\ iconsets # << >> => NonNull(iconsets) > 0
  /\ added \subseteq alive

\* The factory never keeps a pointer to an iconset that was destroyed or removed,
\* and no iconset twice, even where it has lost others.
NoDangling ==
  \A i \in DOMAIN iconsets : iconsets[i] # Null =>
    /\ iconsets[i] \in added
    /\ \A j \in DOMAIN iconsets : iconsets[j] = iconsets[i] => j = i

\* The lookup dereferences no null slot.
LookupSafe == \A n \in Names : \A j \in Scanned(n) : iconsets[j] # Null

\* iconset.cpp:640, "You can add several Iconsets to IconsetFactory": as long as
\* only the latest is ever removed all that were added are there, and a name that
\* one of them has is found without harm.
LookupComplete ==
  stacked => /\ \A s \in added : Has(iconsets, s)
             /\ \A n \in Names : (\E s \in added : n \in Content[s]) => Hits(n) # {}
             /\ LookupSafe

\* The registry of IconRegistry is the slots that the lookup goes through when it
\* finds nothing.
Entries == SubSeq(iconsets, 1, NonNull(iconsets))

Registry == INSTANCE IconRegistry WITH order <- Entries

\* As long as only the latest is ever removed the factory is the registry it
\* promises to be: one entry for each iconset, in the order they were added.
IsRegistry ==
  Registry!Init /\ [][stacked' => (Registry!Next \/ UNCHANGED Entries)]_vars

\* iconset.cpp:703-704: a name has its icon, "or 0 if Icon with that name wasn't
\* found".  Not so once an iconset was removed that is not the latest.
FoundOrNull == LookupSafe

=============================================================================
