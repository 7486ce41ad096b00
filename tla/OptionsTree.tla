----------------------------- MODULE OptionsTree -----------------------------
(***************************************************************************)
(* The options of a program (options/options.cpp): properties with names   *)
(* like /group/name, written to an XML file as nested elements and read    *)
(* again when the program starts.                                          *)
(*                                                                         *)
(* A name is the sequence of its characters, without the leading slash     *)
(* that all names must have (options.h).  saveProps() calls itself for the *)
(* groups in a group.  What it does for one of them is a function of the   *)
(* path of that group, the names joined by slashes; the path of what is in *)
(* no group is <<>>.  The file is the set of the elements that stand for   *)
(* options, each with its tag name, the group it is in, and the value, or  *)
(* None when it has no type attribute.  How values of the many types look  *)
(* as text is left out: each is written and read as it is, but for the     *)
(* invalid one, which is written without a type.                           *)
(***************************************************************************)
EXTENDS Integers, Sequences, SequencesExt, FiniteSetsExt

CONSTANTS Names,     \* the names the program uses
          Values,    \* values of types that can be written
          Invalid,   \* the QVariant that has no type
          None

Slash == "/"

\* Options and groups have names that can be those of elements (options.h:43).
WellNamed(key) ==
  /\ key \in Seq(STRING) /\ key # <<>>
  /\ \A n \in DOMAIN key : key[n] = Slash => n \in 2 .. Len(key) - 1 /\ key[n + 1] # Slash

ASSUME OptionsConstants ==
  (\A key \in Names : WellNamed(key)) /\ Invalid \notin Values /\ None \notin Values

VARIABLES
  props,   \* Options::Private::props
  file,    \* the elements in the file last written
  saved    \* what props was when it was written

optionVars == <<props, file, saved>>

HasSlash(s) == \E n \in DOMAIN s : s[n] = Slash

\* QString::left of the slash that find() found.
FirstName(s) == SubSeq(s, 1, SelectInSeq(s, LAMBDA c : c = Slash) - 1)

\* The path of what has the name in a group.
Path(group, name) == IF group = <<>> THEN name ELSE group \o <<Slash>> \o name

\* Whether saveProps() for the group has the key in its list: left(slash) was the
\* name of each group on the way, and mid(slash + 1) left out the next character,
\* whatever it was.
Listed(key, group) ==
  Len(group) <= Len(key) /\ \A n \in DOMAIN group : group[n] \in {Slash, key[n]}

Members(keys, group) == {key \in keys : Listed(key, group)}

\* Variant: mid() begins with the slash.
RestWithSlash(key, group) ==
  IF group = <<>> THEN key ELSE SubSeq(key, Len(group) + 1, Len(key))

\* What the list has for it.
Rest(key, group) == IF group = <<>> THEN key ELSE SubSeq(key, Len(group) + 2, Len(key))

\* Whether there is a key that names the group, and count > 1.
IsGroup(keys, group) ==
  /\ Slash \notin {group[1], group[Len(group)]}
  /\ \E key \in Members(keys, group) : Len(key) > Len(group) /\ key[Len(group) + 1] = Slash
  /\ \E key, other \in Members(keys, group) : key # other

\* The groups that a group is in, and itself.
Outer(group) ==
  {SubSeq(group, 1, n) : n \in {j \in DOMAIN group : j = Len(group) \/ group[j + 1] = Slash}}

Slashes(keys) == UNION {{j \in DOMAIN key : key[j] = Slash} : key \in keys}

\* The paths of groups that may have the key in their lists: their slashes are
\* where keys have some.
Paths(keys, key) ==
  UNION {{[j \in 1 .. n |-> IF j \in at THEN Slash ELSE key[j]] :
            at \in SUBSET (Slashes(keys) \cap 1 .. n)} : n \in 0 .. Len(key)}

\* The groups for which saveProps() is called.
Written(keys) ==
  {group \in UNION {Paths(keys, key) : key \in keys} : \A g \in Outer(group) : IsGroup(keys, g)}

\* Whether what is left of a key in the list of the group is saved as an option:
\* one member alone is not written as a group.
IsItem(keys, group, rest) ==
  HasSlash(rest) =>
    LET name == FirstName(rest)
    IN name # <<>> /\ \A key, other \in Members(keys, Path(group, name)) : key = other

\* The value of an element, which saveItem() writes with its type.
ValueAt(map, path) ==
  IF path \in DOMAIN map /\ map[path] # Invalid THEN map[path] ELSE None

Element(map, group, name) ==
  [group |-> group, name |-> name, value |-> ValueAt(map, Path(group, name))]

\* toXml() of the properties, saveProps() for the groups in it.
ToXml(map) ==
  LET keys == DOMAIN map
      Items(group) == {rest \in {Rest(key, group) : key \in Members(keys, group)} :
                         IsItem(keys, group, rest)}
  IN UNION {{Element(map, group, name) : name \in Items(group)} : group \in Written(keys)}

\* QMap::operator[] makes an invalid property of a name it does not have.
Indexed(map, xml) ==
  [key \in DOMAIN map \cup {Path(e.group, e.name) : e \in xml} |->
     IF key \in DOMAIN map THEN map[key] ELSE Invalid]

\* Whether the parser takes the file: tag names are not empty and have no slash.
Readable(xml) == \A e \in xml : e.name # <<>> /\ ~HasSlash(e.name)

\* loadProps(): an element without type is a group.
Loaded(xml) == {<<Path(e.group, e.name), e.value>> : e \in {d \in xml : d.value # None}}

\* The properties in the file, none if it is not XML.
Read == IF Readable(file) THEN Loaded(file) ELSE {}

-----------------------------------------------------------------------------

OptionsInit == props = <<>> /\ file = {} /\ saved = <<>>

\* The rules of options.h: no property has the name of a group.
MayBeSet(key) ==
  \A k \in DOMAIN props : /\ ~IsStrictPrefix(Append(key, Slash), k)
                          /\ ~IsStrictPrefix(Append(k, Slash), key)

SetProperty(key, v) ==
  /\ MayBeSet(key)
  /\ props' = [k \in DOMAIN props \cup {key} |-> IF k = key THEN v ELSE props[k]]
  /\ UNCHANGED <<file, saved>>

\* toXml() to the file.
SaveOptions ==
  LET xml == ToXml(props)
  IN saved' = props /\ file' = xml /\ props' = Indexed(props, xml)

\* The program starts again: a new object reads the file.
RestartOptions ==
  /\ props' = [k \in {p[1] : p \in Read} |-> (CHOOSE p \in Read : p[1] = k)[2]]
  /\ UNCHANGED <<file, saved>>

OptionsNext ==
  \/ \E key \in Names, v \in Values : SetProperty(key, v)
  \/ SaveOptions
  \/ RestartOptions

OptionsSpec == OptionsInit /\ [][OptionsNext]_optionVars

-----------------------------------------------------------------------------

\* The groups a name is in: a/b/c is in a and in a/b.
Groups(key) == {SubSeq(key, 1, n - 1) : n \in {j \in DOMAIN key : key[j] = Slash}}

\* A group with a single property in it.
LoneGroup(keys) ==
  \E k \in keys : \E g \in Groups(k) : {j \in keys : g \in Groups(j)} = {k}

\* Another name at the same place begins with the characters of a group: there
\* are /tool/x and /toolbar, or /tab1/x and /tab10/x.
NamesClash(keys) ==
  \E k, j \in keys : \E g \in Groups(k) : IsPrefix(g, j) /\ g \notin Groups(j)

\* Options and the elements of the file are named by strings, and have a value
\* or none (Options::Private::props).
OptionsTypeOK ==
  /\ \A map \in {props, saved} : \A k \in DOMAIN map :
       k \in Seq(STRING) /\ map[k] \in Values \cup {Invalid}
  /\ \A e \in file : /\ {e.group, e.name} \subseteq Seq(STRING)
                     /\ e.value \in Values \cup {None}

\* "Use it to save Options to file" (options.cpp:569): when the program starts
\* again no option has another value than it was saved with, and all options
\* come back, unless a group had a single member; then the file is not XML and
\* none does.  Only names that clash may get lost otherwise, and only when names
\* clash does toXml(), which is const, add properties to those it writes.
OptionsSurvive ==
  [][/\ RestartOptions =>
          /\ \A k \in DOMAIN props' : k \in DOMAIN saved /\ props'[k] = saved[k]
          /\ NamesClash(DOMAIN saved) \/ LoneGroup(DOMAIN saved) \/ props' = saved
          /\ ~NamesClash(DOMAIN saved) /\ LoneGroup(DOMAIN saved) => props' = <<>>
     /\ ~NamesClash(DOMAIN props) /\ SaveOptions => props' = props]_optionVars

\* "Use it to restore saved options from file" (options.cpp:888), with names that
\* keep to the rules of options.h:37-48.  Not so for a group with one property.
OptionsRestored == [][RestartOptions => props' = saved]_optionVars
=============================================================================
