----------------------------- MODULE XDataShared -----------------------------
(***************************************************************************)
(* XData (xdata/xmpp_xdata.cpp): objects that share a counted Private, a   *)
(* QShared, until one of them is changed.  copy() makes the new Private    *)
(* with the copy constructor the compiler writes, which copies the count   *)
(* of references too: the new one starts with the references of the old,   *)
(* so it is copied at every change and never deleted.                      *)
(*                                                                         *)
(* A content stands for the title, instructions, type and fields.  An      *)
(* object assigned to itself, which occurs nowhere, is left out.           *)
(***************************************************************************)
EXTENDS Naturals, FiniteSets

CONSTANTS Objects,     \* XData objects
          Storage,     \* bound: the places for Privates; no other is allocated
          Contents,    \* what a Private can hold
          Blank,       \* what a new one holds
          Nowhere      \* the d of an object that does not exist

ASSUME XDataConstants ==
  /\ IsFiniteSet(Objects)
  /\ Nowhere \notin Storage /\ Blank \in Contents

VARIABLES
  at,      \* the Private of each object, XData::d
  refs,    \* its count, 0 for one that is not allocated
  holds    \* its content

sharedVars == <<at, refs, holds>>

Lives(g) == at[g] # Nowhere
Owners(p) == {g \in Objects : at[g] = p}
Unused == {p \in Storage : refs[p] = 0}
Content(g) == holds[at[g]]

\* Where a new Private comes to lie does not matter.
NewPlace == CHOOSE p \in Unused : TRUE

\* Variant: a reference taken without being counted.
Uncounted(cnt, p) == cnt

\* QShared::ref() and deref(); what has no reference left is deleted.
Reffed(cnt, p) == [cnt EXCEPT ![p] = @ + 1]
Dereffed(cnt, p) == [cnt EXCEPT ![p] = @ - 1]

\* Variant: a Private that two share taken for one's own.
CopiesCrowded(p) == refs[p] > 2

\* Whether detach() has to copy.
CopiesShared(p) == refs[p] # 1

-----------------------------------------------------------------------------

SharedInit ==
  /\ at = [g \in Objects |-> Nowhere]
  /\ refs = [p \in Storage |-> 0]
  /\ holds = [p \in Storage |-> Blank]

ConstructXData(g) ==
  /\ ~Lives(g)
  /\ Unused # {}
  /\ at' = [at EXCEPT ![g] = NewPlace]
  /\ refs' = [refs EXCEPT ![NewPlace] = 1]
  /\ holds' = [holds EXCEPT ![NewPlace] = Blank]

CopyXData(g, h) ==
  /\ ~Lives(g) /\ Lives(h)
  /\ at' = [at EXCEPT ![g] = at[h]]
  /\ refs' = Reffed(refs, at[h])
  /\ UNCHANGED holds

DestroyXData(g) ==
  /\ Lives(g)
  /\ at' = [at EXCEPT ![g] = Nowhere]
  /\ refs' = Dereffed(refs, at[g])
  /\ UNCHANGED holds

\* operator=, which lets go of the own Private first.
AssignXData(g, h) ==
  /\ g # h /\ Lives(g) /\ Lives(h)
  /\ at' = [at EXCEPT ![g] = at[h]]
  /\ refs' = Reffed(Dereffed(refs, at[g]), at[h])
  /\ UNCHANGED holds

\* A setter or fromXml() when detach() has nothing to do.
ChangeOwn(g, v) ==
  /\ Lives(g) /\ ~CopiesShared(at[g])
  /\ holds' = [holds EXCEPT ![at[g]] = v]
  /\ UNCHANGED <<at, refs>>

\* The same with *this = copy() before: the temporary copy has come and gone.
ChangeDetached(g, v) ==
  /\ Lives(g) /\ CopiesShared(at[g])
  /\ Unused # {}
  /\ at' = [at EXCEPT ![g] = NewPlace]
  /\ refs' = [Dereffed(refs, at[g]) EXCEPT ![NewPlace] = refs[at[g]]]
  /\ holds' = [holds EXCEPT ![NewPlace] = v]

SharedNext ==
  \/ \E g \in Objects : ConstructXData(g) \/ DestroyXData(g)
  \/ \E g, h \in Objects : CopyXData(g, h) \/ AssignXData(g, h)
  \/ \E g \in Objects, v \in Contents : ChangeOwn(g, v) \/ ChangeDetached(g, v)

SharedSpec == SharedInit /\ [][SharedNext]_sharedVars

-----------------------------------------------------------------------------

SharedTypeOK ==
  /\ at \in [Objects -> Storage \cup {Nowhere}]
  /\ refs \in [Storage -> Nat]
  /\ holds \in [Storage -> Contents]

\* No object is left with a Private that was deleted (lines 316-325 and 448):
\* the count may be too large, because detach() copies it, never too small.
XDataAlive == \A g \in Objects : Lives(g) => refs[at[g]] >= Cardinality(Owners(at[g]))

\* A change of one object reaches no other (detach() before every change): no
\* step changes what two objects hold, nor the object that another is copied to
\* or assigned from.
XDataApart ==
  [][\A g, h \in Objects :
       /\ g # h /\ Lives(g) /\ Lives(g)' /\ Lives(h) /\ Lives(h)'
       /\ Content(g)' # Content(g)
       => Content(h)' = Content(h)]_sharedVars
=============================================================================
