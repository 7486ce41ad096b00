---------------------------- MODULE IconRegistry ----------------------------
(***************************************************************************)
(* What IconsetFactory promises (iconset.cpp:639-643): iconsets are        *)
(* registered and unregistered at any time, each is in the registry once,  *)
(* and an icon is looked up in them in the order of their registration.    *)
(***************************************************************************)
EXTENDS Sequences, SequencesExt

CONSTANT Iconsets

VARIABLE order  \* the registered iconsets, oldest first

Registered(s) == s \in Range(order)

Init == order = << >>

Register(s) == ~Registered(s) /\ order' = Append(order, s)

Unregister(s) == \E i \in DOMAIN order : order[i] = s /\ order' = RemoveAt(order, i)

Next == \E s \in Iconsets : Register(s) \/ Unregister(s)

Spec == Init /\ [][Next]_order

=============================================================================
