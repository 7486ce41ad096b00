----------------------------- MODULE Components -----------------------------
(***************************************************************************)
(* The components that do not interact with others, side by side.  They    *)
(* share no variable and none calls another, so that what a behaviour of   *)
(* all of them does to one is what a behaviour of that one alone does; it  *)
(* is enough that one of them, the part picked at first, takes steps, and  *)
(* the rest stays as it began.                                             *)
(***************************************************************************)
EXTENDS IconClients, WindowSnap, WindowFlash, OptionsTree, XDataShared, XDataForm, Jid, VCard

VARIABLE part   \* the component that runs

PartNames == {"clients", "snap", "flash", "options", "shared", "form", "jid", "card"}

allVars == <<part, clientVars, snapVars, flashVars, optionVars, sharedVars, formVars, jidVars, card>>

PartsInit ==
  /\ part \in PartNames
  /\ ClientsInit /\ SnapInit /\ FlashInit /\ OptionsInit /\ SharedInit /\ FormInit /\ JidInit
  /\ CardInit

PartsNext ==
  /\ \/ part = "clients" /\ ClientsNext
     \/ part = "snap" /\ SnapNext
     \/ part = "flash" /\ FlashNext
     \/ part = "options" /\ OptionsNext
     \/ part = "shared" /\ SharedNext
     \/ part = "form" /\ FormNext
     \/ part = "jid" /\ JidNext
     \/ part = "card" /\ CardNext
  /\ part # "clients" => UNCHANGED clientVars
  /\ part # "snap" => UNCHANGED snapVars
  /\ part # "flash" => UNCHANGED flashVars
  /\ part # "options" => UNCHANGED optionVars
  /\ part # "shared" => UNCHANGED sharedVars
  /\ part # "form" => UNCHANGED formVars
  /\ part # "jid" => UNCHANGED jidVars
  /\ part # "card" => UNCHANGED card
  /\ UNCHANGED part

PartsSpec == PartsInit /\ [][PartsNext]_allVars /\ FlashFairness

-----------------------------------------------------------------------------

\* The variables of every component have their types.
PartsTypeOK ==
  /\ ClientsTypeOK /\ SnapTypeOK /\ FlashTypeOK
  /\ OptionsTypeOK /\ SharedTypeOK /\ FormTypeOK /\ JidTypeOK /\ CardTypeOK

\* What an address or a vCard says of itself stands for it when it is read again
\* (Jid::full, Jid::set, VCard::toXml, VCard::fromXml).
ReadsBack == FullReadsBack /\ CardReadsBack
=============================================================================
