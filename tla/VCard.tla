-------------------------------- MODULE VCard --------------------------------
(***************************************************************************)
(* A vCard (vcard/vcard.cpp): assigned from another, given an agent, which *)
(* is a vCard in turn, written as XML, read from XML, also over what it    *)
(* has.  All texts that the code treats alike are one field: fullName      *)
(* stands for those with an element of their own, familyName for the parts *)
(* of a name but the last, photo for the logo, an entry with its kinds and *)
(* lines for addresses, labels, telephones, mail addresses and categories. *)
(*                                                                         *)
(* A vCard with its agents is the sequence of their fields: the vCard, its *)
(* agent, the agent of that one, and so on.                                *)
(***************************************************************************)
EXTENDS Naturals, Sequences, SequencesExt, FiniteSetsExt

CONSTANTS Cards,        \* vCards a program makes with the setters
          CardTexts,    \* what is in them
          CardEntries,
          NoElement,    \* what an element that is not written has inside
          AgentDepth,   \* bound: agents of agents
          MaxEntries    \* bound: entries of a card

\* The fields of a new VCard.
BlankCard ==
  [fullName |-> "", familyName |-> "", suffixName |-> "", url |-> "", entries |-> <<>>,
   photo |-> "", photoURI |-> "", sound |-> "", soundURI |-> "", soundPhonetic |-> "",
   agentURI |-> "", privacyClass |-> "", key |-> ""]

\* What a vCard may have in its fields.
CardFields ==
  [fullName : CardTexts, familyName : CardTexts, suffixName : CardTexts, url : CardTexts,
   entries : Seq(CardEntries), photo : CardTexts, photoURI : CardTexts, sound : CardTexts,
   soundURI : CardTexts, soundPhonetic : CardTexts, agentURI : CardTexts,
   privacyClass : CardTexts, key : CardTexts]

ASSUME CardConstants ==
  /\ Cards \subseteq CardFields
  /\ {"", "mangled"} \subseteq CardTexts /\ NoElement \notin CardTexts
  /\ AgentDepth \in Nat /\ MaxEntries \in Nat

VARIABLE card   \* the vCard that the program keeps, and its agents

HasAgent(c) == Len(c) > 1
Agent(c) == Tail(c)

\* isEmpty(), of the vCard c[i] and its agents, which asks for a suffix and does
\* not ask for the URL.
IsEmpty(c, i) ==
  \A j \in i .. Len(c) :
    /\ c[j].suffixName # ""
    /\ \A f \in DOMAIN BlankCard \ {"suffixName", "url"} : c[j][f] = BlankCard[f]

\* operator= keeps the URL of the card a, and its agent when b has none.  The
\* agents of b are assigned to new ones.
Assigned(a, b) ==
  [i \in DOMAIN b |-> [b[i] EXCEPT !.url = IF i = 1 THEN a[1].url ELSE ""]]
    \o (IF HasAgent(b) THEN <<>> ELSE Agent(a))

\* setAgent(); the agent there is gets assigned to.
WithAgent(c, a) == <<c[1]>> \o Assigned(IF HasAgent(c) THEN Agent(c) ELSE <<BlankCard>>, a)

\* QString::fromUtf8 of a key.  A text is an array that ends in a NUL: the length is
\* taken with strlen, fromXml() stores the terminator, and no program calls setKey().
AsText(key) == IF key = "bytes" THEN "mangled" ELSE key

\* Variant: the URI written when it is there, before the data.
PictureURIFirst(c) == [c EXCEPT !.photo = IF c.photoURI = "" THEN c.photo ELSE ""]

\* The data of a picture or else its URI.
PictureWritten(c) == [c EXCEPT !.photoURI = IF c.photo = "" THEN c.photoURI ELSE ""]

\* Of a sound the data, the URI or the pronunciation.
SoundWritten(c) ==
  [c EXCEPT !.soundURI = IF c.sound = "" THEN c.soundURI ELSE "",
            !.soundPhonetic = IF c.sound = "" /\ c.soundURI = "" THEN c.soundPhonetic ELSE ""]

\* Whether c[i] has an element for its agent, also an empty one; an agent that
\* is not empty does not get one by itself.
AgentTag(c, i) == c[i].agentURI # "" \/ (i < Len(c) /\ IsEmpty(c, i + 1))

\* Whether that element has the agent inside.
AgentInside(c, i) == AgentTag(c, i) /\ i < Len(c) /\ ~IsEmpty(c, i + 1)

\* toXml(): the contents of the elements, empty for one that is not written, of
\* the vCard and of the agents that are.
CardToXml(c) ==
  [i \in 1 .. Min({j \in DOMAIN c : ~AgentInside(c, j)}) |->
     [SoundWritten(PictureWritten(c[i])) EXCEPT
        !.key = AsText(@),
        !.agentURI = IF ~AgentTag(c, i) THEN NoElement ELSE IF AgentInside(c, i) THEN "" ELSE @]]

\* What an element brings to a text.
Over(old, new) == IF new = "" THEN old ELSE new

\* fromXml() for the fields c of a vCard.  An element for a name, a picture, a
\* sound or an agent replaces all texts of its group, entries are added to those
\* there are.
FieldsFromXml(c, e) ==
  LET Group(names) == IF \E f \in names : e[f] # "" THEN names ELSE {}
      replaced == Group({"familyName", "suffixName"}) \cup Group({"photo", "photoURI"})
                    \cup Group({"sound", "soundURI", "soundPhonetic"})
                    \cup (IF e.agentURI = NoElement THEN {} ELSE {"agentURI"})
  IN [f \in DOMAIN BlankCard |->
        CASE f \in replaced -> e[f]
          [] f = "entries" -> c[f] \o e[f]
          [] f \in {"fullName", "url", "privacyClass", "key"} -> Over(c[f], e[f])
          [] OTHER -> c[f]]

\* fromXml() over the card c.  The agents are read into new vCards and assigned.
CardFromXml(c, e) ==
  LET read == <<FieldsFromXml(c[1], e[1])>> \o Tail(c)
  IN IF ~HasAgent(e) THEN read
     ELSE WithAgent(read, [i \in DOMAIN Tail(e) |-> FieldsFromXml(BlankCard, Tail(e)[i])])

\* What a program makes with the setters, also with an agent.
SingleCards == {<<c>> : c \in Cards}
MadeCards == SingleCards \cup {WithAgent(c, a) : c, a \in SingleCards}

-----------------------------------------------------------------------------

CardInit == card = <<BlankCard>>

MakeCard == card' \in MadeCards

AssignCard == \E c \in MadeCards : card' = Assigned(card, c)

SetAgent == \E a \in MadeCards : Len(a) <= AgentDepth /\ card' = WithAgent(card, a)

\* fromXml() of what another program wrote with toXml().
ReadCard ==
  \E c \in MadeCards : /\ Len(card[1].entries) + Len(c[1].entries) <= MaxEntries
                       /\ card' = CardFromXml(card, CardToXml(c))

\* The card is written and read again.
RereadCard == card' = CardFromXml(<<BlankCard>>, CardToXml(card))

CardNext == MakeCard \/ AssignCard \/ SetAgent \/ ReadCard \/ RereadCard

CardSpec == CardInit /\ [][CardNext]_card

-----------------------------------------------------------------------------

CardTypeOK == card \in Seq(CardFields) /\ card # <<>>

\* Nothing is read but what was written, and what is not read is known: URIs and
\* a pronunciation that stand beside data, a key that is no text, and the agent.
FieldsKept(c, r, agent) ==
  /\ \A f \in {"fullName", "familyName", "suffixName", "url", "entries", "photo",
               "sound", "privacyClass"} : r[f] = c[f]
  /\ \A f \in {"photoURI", "soundURI", "soundPhonetic", "agentURI"} : r[f] \in {"", c[f]}
  /\ c.key # "bytes" => r.key = c.key
  /\ Over(r.photoURI, r.photo) = Over(c.photoURI, c.photo)
  /\ Over(Over(r.soundPhonetic, r.soundURI), r.sound)
       = Over(Over(c.soundPhonetic, c.soundURI), c.sound)
  /\ c.agentURI # "" => r.agentURI = c.agentURI \/ agent

Kept(c, r) ==
  /\ Len(r) <= Len(c)
  /\ \A i \in DOMAIN r : FieldsKept(c[i], r[i], i < Len(r))

\* A vCard that is written and read again is kept in this sense, whatever it was
\* assigned, given and read before; so are the vCards of its agents.
CardReadsBack == Kept(card, CardFromXml(<<BlankCard>>, CardToXml(card)))
=============================================================================
