--------------------------------- MODULE Jid ---------------------------------
(***************************************************************************)
(* An address user@host/resource (misc/jid.cpp): read from a string, which *)
(* leaves everything but its validity alone when it is not an address, and *)
(* given other resources, which are not examined.                          *)
(*                                                                         *)
(* A string is the sequence of its characters, of which there is one for   *)
(* each class that set() tells apart.                                      *)
(***************************************************************************)
EXTENDS Naturals, Sequences, SequencesExt

CONSTANTS Strings,      \* what addresses are set to
          Resources,    \* what setResource() is called with
          Upper,        \* limit: characters of user and resource, 256
          HostUpper     \* limit: characters of the host, 255

\* A letter, a space, a character no user may have, one that nothing may have.
Letter == "x"
Space == " "
Quote == "'"
Control == "^"

ASSUME JidConstants ==
  /\ Strings \cup Resources \subseteq Seq({Letter, Space, Quote, Control, "@", "/"})
  /\ HostUpper \in Nat /\ Upper \in Nat

VARIABLES
  user, host, userHost, resource,   \* the parts
  full,                             \* realJid
  valid                             \* v_isValid

jidVars == <<user, host, userHost, resource, full, valid>>

\* Where c is first in s, 0 if nowhere.
Find(s, c) == SelectInSeq(s, LAMBDA e : e = c)
Before(s, n) == IF n = 0 THEN s ELSE SubSeq(s, 1, n - 1)
After(s, n) == SubSeq(s, n + 1, Len(s))

UserOK(u) == Len(u) <= Upper /\ ToSet(u) \subseteq {Letter}
HostOK(h) == Len(h) \in 2 .. HostUpper /\ ToSet(h) \subseteq {Letter}
ResourceOK(r) == Len(r) <= Upper /\ Control \notin ToSet(r)

\* The parts of a string that set() makes out.
Parts(s) ==
  LET slash == Find(s, "/")
      both == Before(s, slash)
      at == Find(both, "@")
  IN [user |-> IF at = 0 THEN <<>> ELSE Before(both, at),
      host |-> After(both, at),
      userHost |-> both,
      resource |-> IF slash = 0 THEN <<>> ELSE After(s, slash)]

IsAddress(s) ==
  UserOK(Parts(s).user) /\ HostOK(Parts(s).host) /\ ResourceOK(Parts(s).resource)

\* buildJid()
Built(u, h, r) ==
  (IF u = <<>> THEN <<>> ELSE u \o <<"@">>) \o h \o IF r = <<>> THEN <<>> ELSE <<"/">> \o r

-----------------------------------------------------------------------------

JidInit ==
  /\ user = <<>> /\ host = <<>> /\ userHost = <<>> /\ resource = <<>>
  /\ full = <<>> /\ valid = FALSE

SetAddress(s) ==
  /\ IsAddress(s)
  /\ user' = Parts(s).user /\ host' = Parts(s).host
  /\ userHost' = Parts(s).userHost /\ resource' = Parts(s).resource
  /\ full' = Built(user', host', resource') /\ valid' = TRUE

\* What is not an address leaves the parts of the address before.
SetOther(s) ==
  /\ ~IsAddress(s) /\ valid' = FALSE
  /\ UNCHANGED <<user, host, userHost, resource, full>>

\* Variant: the address is not built again.
SetResourceOnly(r) ==
  resource' = r /\ UNCHANGED <<user, host, userHost, full, valid>>

SetResource(r) ==
  /\ resource' = r /\ full' = Built(user, host, r)
  /\ UNCHANGED <<user, host, userHost, valid>>

JidNext ==
  \/ \E s \in Strings : SetAddress(s) \/ SetOther(s)
  \/ \E r \in Resources : SetResource(r)

JidSpec == JidInit /\ [][JidNext]_jidVars

-----------------------------------------------------------------------------

JidTypeOK ==
  /\ UserOK(user) /\ (HostOK(host) \/ host = <<>>)
  /\ valid \in BOOLEAN

\* full() and the parts stand for one address, whatever was set in between: read
\* again it gives the same user, host and resource, and it is an address exactly
\* when the last resource is in order.  The user and host alone read alike.
FullReadsBack ==
  host # <<>> =>
    /\ Parts(full).user = user /\ Parts(full).host = host
    /\ Parts(full).resource = resource
    /\ IsAddress(full) <=> ResourceOK(resource)
    /\ Parts(userHost).user = user /\ Parts(userHost).host = host
=============================================================================
