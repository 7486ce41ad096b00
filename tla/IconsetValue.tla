---------------------------- MODULE IconsetValue ----------------------------
(***************************************************************************)
(* What Iconset promises its users (the comments on its members,          *)
(* iconset.cpp:1069-1200): each Iconset object is a value of its own, a    *)
(* mapping from names to icons, however the objects share their data.      *)
(***************************************************************************)
EXTENDS Naturals, Sequences

CONSTANTS Sets, Names, Images, Contents, None

VARIABLE value  \* the icons of each Iconset object, None where there is none

Empty == [n \in Names |-> None]
Exists(s) == value[s] # None

\* The mapping over, with what it leaves open taken from under.
Overlay(over, under) == [n \in Names |-> IF over[n] # None THEN over[n] ELSE under[n]]

Becomes(s, v) == value' = [value EXCEPT ![s] = v]

Init == value = [s \in Sets |-> None]

Construct(s) == ~Exists(s) /\ Becomes(s, Empty)
Copy(s, t) == ~Exists(s) /\ Exists(t) /\ Becomes(s, value[t])
Destroy(s) == Exists(s) /\ Becomes(s, None)
Assign(s, t) == Exists(s) /\ Exists(t) /\ Becomes(s, value[t])
SetIcon(s, n, v) == Exists(s) /\ Becomes(s, [value[s] EXCEPT ![n] = v])
RemoveIcon(s, n) == Exists(s) /\ Becomes(s, [value[s] EXCEPT ![n] = None])
AppendFrom(s, t) == Exists(s) /\ Exists(t) /\ Becomes(s, Overlay(value[t], value[s]))
Clear(s) == Exists(s) /\ Becomes(s, Empty)

\* The last icon of a directory that has name n; unnamed ones go to names that
\* are not taken.
Defined(c, n) == {i \in DOMAIN c : c[i].name = n}
LastOf(c, n) == c[CHOOSE i \in Defined(c, n) : \A j \in Defined(c, n) : j <= i].image
Loaded(c, old) ==
  {v \in [Names -> Images \cup {None}] : \A n \in Names :
     IF Defined(c, n) # {}
       THEN v[n] = LastOf(c, n)
       ELSE v[n] = old[n] \/ (old[n] = None /\ \E i \in Defined(c, None) : v[n] = c[i].image)}
Load(s) ==
  /\ Exists(s)
  /\ \E c \in Contents : \E v \in Loaded(c, value[s]) : Becomes(s, v)

Next ==
  \E s \in Sets :
    \/ Construct(s) \/ Destroy(s) \/ Clear(s) \/ Load(s)
    \/ \E t \in Sets : Copy(s, t) \/ Assign(s, t) \/ AppendFrom(s, t)
    \/ \E n \in Names : RemoveIcon(s, n) \/ \E v \in Images : SetIcon(s, n, v)

Spec == Init /\ [][Next]_value

=============================================================================
