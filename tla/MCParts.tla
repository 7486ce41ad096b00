------------------------------- MODULE MCParts -------------------------------
(***************************************************************************)
(* Components, each in instances of a few icons, windows, names and fields. *)
(***************************************************************************)
EXTENDS Components, MCOptions

CONSTANTS s1, s2, i1, i2, i3, w1, w2

\* One iconset with more icons than a row shows and one with fewer.
MCIconOrder == (s1 :> <<i1, i2>>) @@ (s2 :> <<i3>>)

\* A screen, a tall window high up and a flat one low on the left, and changes
\* next to their edges, among them two that only resize.
Box(x, y, width, height) ==
  [x |-> [pos |-> x, size |-> width], y |-> [pos |-> y, size |-> height]]
MCScreen == Box(0, 0, 20, 16)
MCOtherGeo == (w1 :> Box(8, 2, 6, 6)) @@ (w2 :> Box(1, 9, 6, 4))
MCProposals ==
  {Box(x, y, 5, 4) : x \in {1, 3, 8, 13}, y \in {1, 6}}
    \cup {Box(x, 1, 7, 4) : x \in {3, 8}} \cup {Box(3, 1, 5, 6)}

Short(chars, n) == UNION {[1 .. k -> chars] : k \in 0 .. n}

\* Up to two options with and without labels, some like the value of another, and
\* values of all kinds, empty ones too.
MCForms ==
  LET Field(type, options, value) == [type |-> type, options |-> options, value |-> value]
  IN {Field(t, o, v) : t \in {"list-single", "list-multi"}, v \in Short({"", "a", "b"}, 2),
                       o \in Short([label : {"", "a", "c"}, value : {"a", "b"}], 2)}
       \cup {Field(t, <<>>, u) : t \in {"hidden", "text-single", "text-multi"},
                                 u \in Short({"", "a"}, 2)}
       \cup {Field("boolean", <<>>, u) : u \in {<<>>, <<"1">>, <<"no">>}}

\* Everything short, and hosts of two characters with something around them.
MCStrings ==
  Short({"x", "@", "/"}, 4)
    \cup {pre \o <<"x", "x">> \o post :
            pre \in Short({"x", "@", "'"}, 3),
            post \in {<<>>, <<"/", "x">>, <<"/", "x", "x", "x">>, <<"/", "^">>,
                      <<"/", "@", "/">>, <<" ">>}}
MCResources == Short({"x", "@", "/", "^"}, 2) \cup {<<" ", "'", "x">>}

MCCardEntries == {{"home"}, {}}

\* A card that is empty for isEmpty(), and data with and without what stands in
\* for it.
MCCards ==
  {BlankCard,
   [BlankCard EXCEPT !.suffixName = "a", !.url = "a"],
   [BlankCard EXCEPT !.fullName = "a", !.url = "b", !.agentURI = "a", !.photo = "a",
                     !.photoURI = "b", !.soundURI = "b", !.soundPhonetic = "c", !.key = "bytes"],
   [BlankCard EXCEPT !.familyName = "a", !.photoURI = "a", !.sound = "a",
                     !.soundURI = "a", !.soundPhonetic = "a", !.privacyClass = "a",
                     !.key = "a", !.entries = <<{"home"}, {}>>]}

-----------------------------------------------------------------------------

\* One initial state of the components that have several and are not the one that
\* runs.
MCPartsInit ==
  /\ PartsInit
  /\ part # "snap" => geo = Box(1, 1, 5, 4) /\ stickAt = 0
  /\ part # "flash" => active = FALSE

MCPartsSpec == MCPartsInit /\ [][PartsNext]_allVars /\ FlashFairness
=============================================================================
