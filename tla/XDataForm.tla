------------------------------ MODULE XDataForm ------------------------------
(***************************************************************************)
(* A field of a data form on its way (xdata/xmpp_xdata.cpp 186-302 and     *)
(* 380-446, xdata/xdata_widget.cpp): read from XML, shown in a widget,     *)
(* edited, taken back from the widget, or written as a form and read again.*)
(* Fields do not affect each other, so there is one.                       *)
(*                                                                         *)
(* A field's name, label, description and required flag go with it         *)
(* unchanged and are left out, and so is a submission, which changes       *)
(* nothing in the program.  Types that the code treats alike stand for each*)
(* other: hidden for fixed, text-single for text-private and jid-single,   *)
(* text-multi for jid-multi.  Values of text-multi are lines; the text of  *)
(* its editor is the sequence of them.  Every form gets a new widget.      *)
(***************************************************************************)
EXTENDS Naturals, Sequences, SequencesExt

CONSTANTS Wording,  \* texts, of which values and labels of options are made
          Forms,    \* fields as they come from a service
          Typed,    \* texts the user enters, also as lines
          NoField   \* nothing to show

Types == {"boolean", "hidden", "text-single", "list-single", "list-multi", "text-multi"}

Options == {o \in [label : Wording, value : Wording] : o.value # ""}
Fields ==
  [type : Types, options : Seq(Options), value : Seq(Wording)]

ASSUME FormConstants ==
  /\ {"", "true", "false"} \subseteq Wording
  /\ Forms \subseteq Fields /\ Typed \subseteq Wording
  /\ NoField \notin Fields

VARIABLES
  field,     \* the field the program has
  shown,     \* the widget: what it shows, or NoField when there is none
  touched    \* the user has changed what it shows

formVars == <<field, shown, touched>>

\* The first of the values is v.
Begins(value, v) == value # <<>> /\ value[1] = v

\* The checkbox is set for a field of this value.
IsTrue(value) == \E v \in {"1", "true", "yes"} : Begins(value, v)

\* What an option looks like in its combo or list box.
Text(o) == IF o.label = "" THEN o.value ELSE o.label

\* Variant: an option is known by its label only.
FitsLabel(o, text) == o.label = text

\* Whether field() takes an option for the one with the text.
Fits(o, text) == o.label = text \/ o.value = text

\* The values field() finds for the texts: each the first option that fits.
Found(options, text) ==
  LET fitting == {n \in DOMAIN options : Fits(options[n], text)}
  IN IF fitting = {} THEN <<>> ELSE <<options[Min(fitting)].value>>

\* QComboBox::setCurrentText: the first of the items there are.
FirstWithText(options, n) ==
  CHOOSE j \in 1 .. n : /\ Text(options[j]) = Text(options[n])
                        /\ \A i \in 1 .. j - 1 : Text(options[i]) # Text(options[n])

\* The item of a combo box after all have been inserted; the first when no
\* option has the value of the field.
CurrentItem(f) ==
  LET selected == {n \in DOMAIN f.options : Begins(f.value, f.options[n].value)}
  IN IF selected = {} THEN 1
     ELSE FirstWithText(f.options, CHOOSE n \in selected : \A j \in selected : j <= n)

\* Variant: only the value of an option is looked for.
ChosenByValue(f) == {n \in DOMAIN f.options : f.options[n].value \in Range(f.value)}

\* The items of a list box that are selected at first.
ChosenItems(f) ==
  {n \in DOMAIN f.options : \E v \in Range(f.value) : Fits(f.options[n], v)}

\* The text of the editor: no line break goes before the first line with text.
Lines(value) ==
  LET texts == {n \in DOMAIN value : value[n] # ""}
  IN IF texts = {} THEN <<"">>
     ELSE SubSeq(value, CHOOSE n \in texts : \A j \in texts : n <= j, Len(value))

\* setFields(): the widget of a field.
Widget(f) ==
  CASE f.type = "boolean" -> IsTrue(f.value)
    [] f.type = "hidden" -> "nothing"
    [] f.type = "text-single" -> IF f.value = <<>> THEN "" ELSE f.value[1]
    [] f.type = "list-single" -> CurrentItem(f)
    [] f.type = "list-multi" -> ChosenItems(f)
    [] f.type = "text-multi" -> Lines(f.value)

\* fields(): the value that a widget gives its field.
ValueOf(f, w) ==
  CASE f.type = "boolean" -> IF w THEN <<"true">> ELSE <<"false">>
    [] f.type = "hidden" -> f.value
    [] f.type = "text-single" -> <<w>>
    [] f.type = "list-single" ->
         IF f.options = <<>> THEN <<>> ELSE Found(f.options, Text(f.options[w]))
    [] f.type = "list-multi" ->
         FlattenSeq([n \in DOMAIN f.options |->
                       IF n \in w THEN Found(f.options, Text(f.options[n])) ELSE <<>>])
    [] f.type = "text-multi" -> w

\* What the user can make of a widget.
Edits(f, w) ==
  CASE f.type = "boolean" -> BOOLEAN
    [] f.type = "hidden" -> {w}
    [] f.type = "text-single" -> Typed
    [] f.type = "list-single" -> DOMAIN f.options
    [] f.type = "list-multi" -> SUBSET DOMAIN f.options
    [] f.type = "text-multi" -> {<<a>> : a \in Typed} \cup {<<a, b>> : a, b \in Typed}

\* The label attribute is written when there is no label.
OptionElement(o) == [o EXCEPT !.label = ""]

\* Variant: with the values left out, as with the description.
FieldToXmlBare(f) ==
  [f EXCEPT !.options = [n \in DOMAIN f.options |-> OptionElement(f.options[n])],
            !.value = <<>>]

\* Field::toXml() of a form: the element, as fromXml() reads it.
FieldToXml(f) ==
  [f EXCEPT !.options = [n \in DOMAIN f.options |-> OptionElement(f.options[n])]]

-----------------------------------------------------------------------------

FormInit == field = NoField /\ shown = NoField /\ touched = FALSE

\* XData::fromXml() of the form a service sends.
ReceiveForm ==
  /\ field = NoField /\ field' \in Forms
  /\ UNCHANGED <<shown, touched>>

ShowForm ==
  /\ field # NoField
  /\ shown' = Widget(field) /\ touched' = FALSE
  /\ UNCHANGED field

EditForm ==
  /\ shown # NoField
  /\ shown' \in Edits(field, shown) /\ touched' = TRUE
  /\ UNCHANGED field

\* setFields() of the form with the fields() of the widget.
TakeForm ==
  /\ shown # NoField
  /\ field' = [field EXCEPT !.value = ValueOf(field, shown)]
  /\ UNCHANGED <<shown, touched>>

\* The form is written and read again.
RereadForm ==
  /\ field # NoField
  /\ field' = FieldToXml(field)
  /\ shown' = NoField /\ touched' = FALSE

FormNext == ReceiveForm \/ ShowForm \/ EditForm \/ TakeForm \/ RereadForm

FormSpec == FormInit /\ [][FormNext]_formVars

-----------------------------------------------------------------------------

\* What the widget of a field may show: text, or items that there are; an empty
\* combo box has none and counts as showing its first.
CanShow(f, w) ==
  CASE f.type = "boolean" -> w \in BOOLEAN
    [] f.type = "hidden" -> w = "nothing"
    [] f.type = "text-single" -> w \in Wording
    [] f.type = "list-single" -> w \in DOMAIN f.options \/ (f.options = <<>> /\ w = 1)
    [] f.type = "list-multi" -> w \subseteq DOMAIN f.options
    [] f.type = "text-multi" -> w \in Seq(Wording)

FormTypeOK ==
  /\ field \in Fields \cup {NoField}
  /\ shown # NoField => field # NoField /\ CanShow(field, shown)
  /\ touched \in BOOLEAN

\* No option has a text that could stand for another.
Unambiguous(options) ==
  \A i, j \in DOMAIN options : Fits(options[j], Text(options[i])) => i = j

\* What a field comes to when nobody edits it: the list box puts values in the
\* order of the options, the combo box and the line have one at most, the editor
\* no empty lines on top.
Same(f, value) ==
  CASE f.type = "boolean" -> IsTrue(value) <=> IsTrue(f.value)
    [] f.type = "list-single" ->
         \A o \in Range(f.options) : Begins(f.value, o.value) => value = <<o.value>>
    [] f.type = "list-multi" ->
         Range(value) = {o.value : o \in {p \in Range(f.options) : \E v \in Range(f.value) : Fits(p, v)}}
    [] f.type = "text-single" -> f.value # <<>> => value = <<f.value[1]>>
    [] OTHER -> f.value # <<>> /\ f.value[1] # "" => value = f.value

\* A form that nobody edits is taken from its widget with the value it came with,
\* as far as the widget can show it.
UntouchedIsKept ==
  [][TakeForm /\ ~touched /\ Unambiguous(field.options) =>
       Same(field, field'.value)]_formVars

\* The values of the items that are chosen in a combo or list box, in their order.
ChosenValues(f, w) ==
  LET chosen == IF f.type = "list-multi" THEN w ELSE {w}
  IN FlattenSeq([n \in DOMAIN f.options |->
                   IF n \in chosen THEN <<f.options[n].value>> ELSE <<>>])

\* The boxes give back texts, for which the options are searched (lines 262 and
\* 331): for every item that is chosen there is a value of some option, and it is
\* that of the item unless its text is the label or value of another.
ChosenIsTaken ==
  [][TakeForm /\ field.type \in {"list-single", "list-multi"} =>
       LET chosen == ChosenValues(field, shown)
       IN /\ Len(field'.value) = Len(chosen)
          /\ Range(field'.value) \subseteq {o.value : o \in Range(field.options)}
          /\ Unambiguous(field.options) => field'.value = chosen]_formVars

\* A form that was written and read again has lost the labels of its options
\* (line 288), but gives the same answer, unless a value was that label, or is
\* empty like all labels are then.
RereadAnswersAlike ==
  [][/\ RereadForm /\ Unambiguous(field.options)
     /\ \A o \in Range(field.options) : {o.label, ""} \cap Range(field.value) \subseteq {o.value}
     => ValueOf(field', Widget(field')) = ValueOf(field, Widget(field))]_formVars
=============================================================================
