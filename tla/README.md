# Verification of neatstuff

neatstuff is a collection of Qt widgets and helper classes of the Psi instant
messenger: notification popups, animated icons and icon sets, a busy indicator,
XMPP data forms, an options tree, addresses, a vCard cache and some widgets. It
is single-threaded; what makes it hard is the order in which the event loop
delivers timers, clicks, deferred deletions and signals, and the pointers and
counts that objects share.

This directory models the parts with state of their own in TLA+, checks them
with TLC on small instances and proves theorems about some of them with TLAPS.

    tlc -config PopupStack.cfg MCPopupStack.tla     # one configuration
    tlapm PopupStackProofs.tla                      # the proofs of a module

## 1. Inventory

| Component | Source | State | Operations |
|---|---|---|---|
| Notification popups | `popups/fancypopup.cpp`, `popuplist.h`, `dialog.ui.h` | per popup: state, height, `animH`, two timers, its own list of newer popups; the `PopupList`; the dialog | `addPopup`, `show`, `hide`, both timers' slots, click, `deleteLater`, `prependPopup`, `popupDestroyed`, closing the dialog |
| Busy indicator | `psiwidgets/busywidget.cpp` | active flag, frame timer, two countdowns, angle/colour of each panel | `start`, `stop`, `animate`, `CPanel::Spin` |
| Animated icons | `iconset/iconset.cpp`, `anim.cpp` | shared `Icon::Private` with an activation count, shared `Anim::Private` with frame, round, timer; signal connections | load, copy, `detach`, `activated`, `stop`, destruction, `refresh` |
| Iconset factory | `iconset/iconset.cpp` | static `QPtrVector` of registered iconsets | `addToFactory`, `removeFromFactory`, `~Iconset`, `icon(name)` |
| Iconset | `iconset/iconset.cpp` | shared `Iconset::Private` with a `QDict` of icons; the static `icon_counter` | copy, `operator=`, `detach`, `load`, `operator+=`, `setIcon`, `removeIcon`, `clear` |
| Icon clients | `psiwidgets/fancylabel.cpp`, `iconwidget.cpp`, `iconselect.cpp`, `psitextview.cpp` | a private copy of an icon, whether it is activated | set icon, show, hide, destroy |
| Options | `options/options.cpp` | tree of named properties | `setProperty`, `property`, `exists`, `toXml`, `fromXml`, `isEmpty` |
| Data forms | `xdata/xmpp_xdata.cpp`, `xdata_widget.cpp` | shared `XData::Private` with a count of references; fields with options and values, the widget's inputs | copy, assign, `detach`, `fromXml`, `toXml`, `setFields`, `fields`, edit |
| Jid | `misc/jid.cpp` | the parts of an address, validity | `set`, `setResource`, `withResource`, `compare` |
| vCard | `vcard/vcard.cpp` | texts, pictures, a sound, lists of entries, an agent (a vCard) | setters, `operator=`, `toXml`, `fromXml`, `isEmpty` |
| vCard cache | `vcard/vcardfactory.cpp` | runtime cache, files, running tasks | `vcard`, `getVCard`, task finished |
| Advanced widget | `advwidget/advwidget.cpp` | cached list of top-level windows with a timer, flash state | move/snap, `doFlash`, focus events |
| Line edit | `lineedit/lineedit.cpp` | wanted height | text and resize events |
| UnZip | `misc/zip.cpp` | archive handle, list of entries | `open`, `list`, `readFile`, `close` |

Not considered further: `psipng.cpp` (pixel decoding through libpng), `qgtk/` (drawing glue),
the Designer plugin, the demonstration programs, the bundled Qt in `byoq/` and
minizip.

How they interact. A program loads an `Iconset`, adds it to `IconsetFactory`,
and names icons to labels, buttons and popups, which look the name up and keep
copies. The copy shares its data with the iconset's icon, so an activation by
one widget moves the frames of all. A popup keeps such an icon, and the busy
widget stands beside them in the same window. Popups talk to each other: each
watches every newer one and takes its own position from their current heights.
`PopupList` watches them all for `started()` and `finished()`, which a dialog
uses to know whether anything is on the screen. Data forms and options use
icons only for their presentation; the vCard cache keys on `Jid`.

What makes each component correct:

* popups: the stack has neither gap nor overlap, a popup that leaves does not come
  back and does leave, no list keeps a dead popup once its death has been told to
  all (while it is being told the code does follow such pointers, see section 5);
* busy indicator: panels come to rest after `stop()`, all spin after `start()`,
  no index leaves the array, the timer lives exactly as long as it is needed;
* icons: the animation runs exactly while someone shows it, each shower hears of
  every frame, animations with a number of rounds end;
* iconset: a change of one object reaches no copy of it, generated names stay
  unique, what a name stands for is what was last done with it;
* factory: no dangling pointers, every registered iconset is found, in order;
* clients: each `activated()` has its `stop()`, none after destruction;
* options, data forms, Jid, vCard: what is written is what is read, invalid input
  leaves a defined state; a change of one form reaches no copy of it;
* vCard cache: the answer is the latest, no pointer outlives its owner;
* advanced widget: the list of windows does not outlive its timer, snapping puts
  a window flush with what it sticks to or where it was asked to be, moved by at
  most twice the snap distance and one for each window of the list.

`PROJECT.json` lists the hazards, each at the line where it bites, with the
properties that watch it.

## 2. Modules

### PopupStack (`popups/`)

| Model | Code |
|---|---|
| `life`, `state`, `animTimer`, `hideTimer`, `height`, `animH`, `pos` | the members of `FancyPopup::Private` and the widget's geometry |
| `newer[p]` | `Private::popupList`, the popups this one stands on |
| `list`, `signal` | `PopupList`, and the last of `started()`/`finished()` it emitted |
| `misread` | no variable of the code: the popups whose `draw` read, in the last event, a `Private` that was freed |
| `AddPopup` | `PopupDlg::addPopup` with the constructor, `PopupList::prepend` (which calls `prependPopup` of every older popup and `show`) |
| `SlideIn`, `SlideOut` | `Private::anim` while opening and while closing, with the `draw` it ends in |
| `Click`, `HideTimeout`, `Hide` | `mouseReleaseEvent` and the hide timer, both calling `Private::hide` |
| `Delete` | the deferred deletion of a hidden popup, with the `destroyed()` slots of every older popup, one after another, and of the list |
| `CloseDialog` | `PopupDlg::destroy` and the deletion of all popups with their owner, from the newest to the oldest, with the same slots |

`draw` of a popup moves it and makes every popup above redraw: the operator
`Cascade` is that chain as one function of the new heights. Popups are numbered
by creation; a number is never used again, as an address might be, because no
list has a popup any more when the event in which it is freed is over (`ListsAgree`).

Within that event some do. `~QWidget` has deleted the children, so the `Private`,
before `destroyed()` is emitted, and the slots run in the order of the
connections: the next older popup first, the oldest and then the list last. Each
`popupDestroyed` draws at once, and that draws all popups above, which have not heard
of the death and read the `animH` of the freed `Private`. `MisreadsAtDeath` goes through
the slots (`ForgetDownTo` are the lists when they have run down to a popup) and collects the popups
that do so in `misread`. What they read only decides where they are for the moment:
each draws again in its own slot, with the dead popup off its list, and draws no
later in that event. So all other variables have the value of that last `draw`. The model
supposes that the read returns something; the C++ standard does not.

Timers may fire at any
time. A popup that has hidden itself runs no further frame, because its deferred
deletion is a posted event and posted events come before timers. Masks, the x
coordinate and painting are left out.

### BusyWidget (`psiwidgets/busywidget.cpp`)

`pcountdown` and `ocountdown` are the two waves of a starting and a stopping
signal over the panels, `panel[i]` the angle, fade and flags of `CPanel`.
`Start` and `Stop` are the slots, `Frame` is `animate()` with `Spin` of each
panel and the deletion of the timer. `start()` calls `animate()` at once, so the
first frame is part of `Start` (`StartFresh`).

### IconAnim (`iconset/iconset.cpp`, `anim.cpp`)

`d[h]` is the `Icon::Private` of icon h, `count` its `activatedCount`, `anim` its
animation; `paused`, `frame` and `loop` belong to the `Anim::Private`. `connected`
is the set of connections from `areaChanged()` to the icons. `Detach` copies the
`Icon::Private` by the copy constructor, which leaves `activatedCount`
uninitialised: a member of the constant `Garbage`. `shown[h]` and `mixed[a]` are
bookkeeping of the model: activations a client has outstanding, and whether an
icon using animation a was ever detached from another. Clients keep the
contract of the comments at iconset.cpp:580 and :609. The state of the timer is
`~paused`, since the speed stays at 100 percent. Assigning one icon to another
and giving an animation to an icon that has one occur nowhere in the code and
are left out, as are sounds, texts and pixel data.

### IconRegistry and IconsetFactory (`iconset/iconset.cpp`)

`IconRegistry` is what a factory promises: a sequence of iconsets, each once, in
the order of registration. `IconsetFactory` has the slots of the `QPtrVector`,
null ones included; the operators `NonNull`, `Resize`, `Put`, `Has` and `Nulled`
are the five operations of the external class the code uses. The refinement
mapping takes the slots the lookup goes through, as many as are not null. `stacked` is bookkeeping: true as long as only
the most recent registration was ever taken back.

### IconsetValue and Iconset (`iconset/iconset.cpp`)

`IconsetValue` is the promise: each object is a mapping from names to icons.
`Iconset` has the shared `Iconset::Private` objects (`d`, `list`), the copy that `detach()`
takes before a change (`Shared`, `Detached`, `Change`), and the `QDict`, in which a name can have
several icons: `insert` hides the older ones, `replace` and `remove` deal with
the newest, and the iterator meets the newest first, so that a copy, which inserts
in the order of the iterator, has them the other way round. Every name is a
sequence of icons for that reason. `Load` goes through the icons of a document
(`LoadIcon`), of which the unnamed ones are named by `icon_counter`; the model supposes that
programs and documents do not use such names themselves. `LoadNothing` is a load
that fails after it has detached. The refinement takes the newest icon of each
name and is stated for steps between states in which no name has two.

### IconClients (`psiwidgets/`)

`lit[c]` is what a widget has activated and not yet stopped, `activations[i]` the
`activatedCount` of an icon, `held` the `Iconset` objects that rows of the list
and the menu keep, `program` the iconsets that the program owns and the factory
knows. Labels, buttons, text icons, rows, the display of all icons and
the selection menu have one action for each call that makes them activate or stop
an icon; `Shows` is what they have in common. The program behaves as `test/main.cpp`
and `test/select.ui.h` do. A null icon given to a button and a menu that outlives
its icons set `fault`, which ends the behaviour. It is the contract of
`IconAnim` that is checked here: a client's calls are paired.

### WindowSnap and WindowFlash (`advwidget/advwidget.cpp`)

`WindowSnap`: a geometry has two axes. `AxisSnapped` is one pass of the loop of
`posChanging()` for one axis and one window, `Dragged` and `Resized` do both axes, and
`PosChanging` is the whole loop as a fold over the list `topWidgets`, which all advanced widgets share until `listTimer` goes off.
Windows open and close at any time; a pointer to one that is closed is
marked by `dangled`. The order of the list is any order of the windows with the desktop last.
`WindowFlash` is `doFlash`, the slot of its timer and the activation of the
window. It has an instance of its own because nothing of sticking touches it.

### OptionsTree (`options/options.cpp`)

A name is the sequence of its characters, since the code cuts names by
character. `saveProps()` calls itself for the groups in a group, with the rest of each
name that begins like the group. What a call does is a function of the path of its group, so
the model has no recursion: `Written` are the groups for which it is called, `Listed` says whether a
name is in the list of a call, `Rest` what the list has of it, and `IsItem` whether the call
saves it as an option. The file is the set of elements that stand for options, each with the
path of the group it is in; `ToXml` makes it, `Readable` says whether an XML
parser takes it, `Loaded` is `loadProps()`. A list has a name as often as properties
left it there, so counts are counts of properties. `SetProperty`,
`SaveOptions` and `RestartOptions` are the operations; `MayBeSet` and `WellNamed` are the rules for names in
`options.h`. The texts that values of each type become are left out. Before it replaced
one with RECURSIVE operators in the form of the code, this form was compared with it by
TLC: for some 130000 sets of names, also ones that break the rules, what is written
can be read in the same cases, gives the same options, and adds the same ones.

### XDataShared and XDataForm (`xdata/`)

`XDataShared`: `at[g]` is the `Private` of an `XData` object, `refs` the count of
references, which `copy()` copies with everything else. `XDataForm`: one field on its
way from XML (`ReceiveForm`) into the widget (`ShowForm`), edited, back
(`TakeForm`), or written and read again as a form (`RereadForm`). Submitting changes
nothing in the program and is left out, as are the name, label and description. Values are
texts of the set `Wording`; the widget of a field is what the user can see and choose in it
(`CanShow`).

### Jid (`misc/jid.cpp`)

The parts of an address and the whole; `SetAddress` and `SetOther` are `set()` for a
string that is one and one that is not, `SetResource` is `setResource()`. One
character stands for each class that `set()` distinguishes.

### VCard (`vcard/vcard.cpp`)

A vCard with its agents is the sequence of their records of fields: the vCard, its agent,
the agent of that one, and so on; so the recursion of the code over agents is a function
on places of the sequence. `Assigned` is `operator=`,
which leaves the URL and, if the other has none, the agent as they were;
`CardToXml` the elements `toXml()` makes, up to the first agent that is not written, `FieldsFromXml` and
`CardFromXml` what `fromXml()` makes of them over the fields and the agents of a vCard that may
have some. The fields that the code treats alike
are one field. The flags of entries may have any value, as the constructors
of `Address`, `Label`, `Phone` and `Email` leave them uninitialised. A key that is a text is an
array that ends in a NUL (`AsText`): `toXml()` takes its length with `strlen` (vcard.cpp:504), the
keys that `fromXml()` makes end so (:718), and nothing in the repository calls `setKey()`.

### Components

The eight components from `IconClients` to `VCard` share no state, and none calls another.
`Components` puts them side by side: the variable `part` says which of them a
behaviour is about, and the others do not move. A product in which all move would show nothing
more. `PartsTypeOK` are the types of all, `ReadsBack` is what addresses and vCards
promise of what is read back.

### MC modules

`MCParts` checks `Components` in one run. `MCPartsInit` gives the components that do not run in a
behaviour one of their initial states; each still begins in all of its own when it
runs. `MCOptions` has the names for the options.

The MC modules only give
constants their values. Definitions commented "Variant" are deliberate mistakes: each
is a plausible wrong form of the definition below it and shows, when it is put
in its place, that the properties notice. Nothing else uses them.

## 3. Runs

| Run | Configuration | What it shows |
|---|---|---|
| popup | `PopupStack.cfg` | the stack is consistent and without gaps, timers and signals agree with it; exactly who reads freed memory, and in which events; no comeback; every popup shown is deleted |
| busy | `BusyWidget.cfg` | all invariants of the widget; accepted calls bring every panel to rest, or up to speed |
| busy_stop_lost | `BusyWidgetFinding.cfg` | **violated**: after a last `stop()` everything comes to rest |
| icon_sharing | `IconAnimSharing.cfg` | connections, counts and the timer under every order of calls |
| icon_playing | `IconAnim.cfg` | types; endless animations keep playing, finite ones end |
| icon_detach_stops | `IconAnimFinding.cfg` | **violated**: paired calls suffice for icons that were detached |
| factory | `IconsetFactory.cfg` | no dangling or doubled pointers; the registry refinement and the lookup as long as removal is last-in first-out |
| factory_null | `IconsetFactoryFinding.cfg` | **violated**: a lookup returns an icon or 0 |
| iconset | `Iconset.cfg` | a change reaches no other object; generated names are unique; objects are values as long as no name has two icons |
| iconset_uncovers | `IconsetFinding.cfg` | **violated**: after `removeIcon(name)` there is no icon of that name |
| parts | `MCParts.cfg` | clients pair their calls, show nothing that is freed, a hidden menu rests; windows are flush or where they were asked to be, flashing ends; options survive a restart; `XData` objects are alive and apart; forms keep values and choices; addresses and vCards read back what they write |
| options_lone_group | `OptionsFinding.cfg` | **violated**: saved options are restored |

### Bounds, and why they are enough

* Popups: three popups, heights 2 and 5, radius 1, animation step 2. Three is the least
  number with a popup both above and below another, where a deletion in the
  middle has to be passed on in both directions, and with one that hears of a deletion
  between the dying popup and one that has not. Of the heights one is a multiple of
  the step and one is not, so overshoot and undershoot of `animH` both happen.
* Busy: five panels, a half turn of 42 in steps of 4 (not a divisor), `SPINOFFSET` 2, six
  fade steps. A wave takes longer than a fade, so waves overlap with panels
  still fading, and up to two waves are under way. The invariants were also
  checked with the code's own constants (5, 4, 512, 24, 16) in 1.2 million states.
* Icons: for sharing three icons with one activation each, three `Icon::Private`
  and two animations (one endless, one of two rounds): two icons that share and a third that was
  detached. For liveness two icons with up to two activations each. `MaxCount` 3 bounds
  a count that began with garbage; garbage is a value too small (-1) or too big (2).
* Factory: four iconsets, two names; name sets that overlap and an empty one. Four slots
  leave room for a hole followed by two more registrations.
* Iconset: three objects, so that two go on sharing when the third has its copy; three
  names, two of them generated; two images for the other; two loads. `+=` appends
  to at most two icons in all, enough for one hidden icon or two names.

* Clients: one label, button and text icon, two rows, a row of one icon and a menu of two;
  one iconset has more icons than a row shows, the other fewer. Two rows
  can share an iconset, and the menu can hold one that a row has given up.
* Windows: the screen and two windows, stick distance 0 or 2, eleven geometries
  near edges of both, so that near and far side stick in the same change and to
  different windows. Five flashes, as in the code.
* Options: four names, two of them in a group of a group, two that begin like a
  group; two values.
* `XData`: three objects and three places, two contents. Three objects are needed for a
  copy of what two share. Places are few because the code leaks them: when
  none is left no more are made.
* Forms: up to two options with labels and values of one character, also equal
  ones, labels that are the value of no option, and up to two values, empty ones
  included, for each of the types that the code treats differently.
* Addresses: all strings up to four characters, and hosts of two with something
  around them; limits of 2 and 3 characters in place of 256 and 255.
* vCards: four cards of six texts, each able to be the agent of each; agents of agents
  (`AgentDepth`); two entries (`MaxEntries`). One card is empty to `isEmpty()`, one
  has data beside URIs and one URIs only.

### Fairness

Fairness is given to timers and deferred deletions only, which the event loop
serves. Clicks, calls of `start()` and `stop()`, and what clients of icons do
get none. `PopupGoesAway` relies on the timer only: a user does not have to
click. `FlashEnds` relies on the `QTimer` of the flashing. `Hide` restarts the animation timer, so a user clicking faster than every
50 ms for ever could keep it from firing; weak fairness of the slide excludes that user.

`CHECK_DEADLOCK FALSE` stands where the system really stops: all popups are
gone and the dialog is closed.

## 4. Proofs

| Module | Theorems |
|---|---|
| `FoldLemmas` | `FoldEmpty`, `FoldPick`, `FoldIn`, `FoldSame`, `FoldAny` |
| `PopupStackProofs` | `PopupInvariant`, `PopupTypeOK`, `PopupStackConsistent`, `PopupStackAbuts`, `PopupTimers`, `PopupSignals`, `PopupNoComeback`, `PopupFreedReads` |
| `BusyWidgetProofs` | `BusyTypeOK`, `BusyTimerWhileMoving`, `BusyFramesKeepOutcome`, `BusyCallsHonoured` |
| `IconAnimProofs` | `IconInvariant`, `IconTypeOK`, `IconUpdatesReachShown`, `IconCountInvariant`, `IconCountDecides` |
| `IconsetFactoryProofs` | `FactoryNoDangling`, `FactoryTypeOK`, `FactoryLookupComplete`, `FactoryIsRegistry` |
| `IconsetProofs` | `IconsetPointers`, `IconsetIsolation`, `IconsetInvariant`, `IconsetTypeOK`, `IconsetFreshNames`, `IconsetIsValue` |
| `TextProofs` | `OptionsInvariant`, `OptionsTypes`, `OptionsKept`, `JidReadsBack`, `CardTypes`, `CardReads` |
| `PartsProofs`, clients | `ClientsTypes`, `ClientsPaired`, `ClientsMenuRests`, `ClientsShownAlive` |
| `PartsProofs`, windows | `SnapTypes`, `SnapStaleWhileTimed`, `MovedFlush`, `ResizedFlush`, `SnapFlushOrAsAsked`, `FlashNeverPasses` |
| `PartsProofs`, data | `SharedTypes`, `SharedAlive`, `SharedApart`, `FormTypes`, `FormUntouchedIsKept`, `FormChosenIsTaken`, `FormRereadAnswersAlike` |
| `PartsProofs`, all | `PartsTypes`, `TextsReadBack`, `PartsKeepAll` |

They hold for every number of popups, panels, icons, iconsets, widgets, forms or windows and all values of
the constants that satisfy the named assumption of each module (positive
sizes and steps, a null pointer that is none of the objects, an icon map that is
not nothing, fields made of texts of the set `Wording`, in which there are the empty
one and the two the code writes for a boolean, names of options that could be those of
nested elements: nothing more than the code's types and
constants justify). Every invariant and every safety property of a step that a passing run checks
is proved.

*Folds.* The loops and sums of the models are folds of the community modules, which are
recursive functions chosen by their equation. That the equation has a solution is an
induction, and the induction theorems of the library take the property as an operator.
`FoldLemmas` therefore proves induction over numbers (`NatInduct`) and over the parts of a
finite set (`SetInduct`) with a *set* that has the property, gets the solution from it
(`FoldExists`), and from that what a proof needs: one more element (`FoldPick`), what is
kept by each step (`FoldIn`), the same values (`FoldSame`), and any element last where
the order does not matter (`FoldAny`). Its constants are the operator and the way an
element is picked; the other modules take it with `INSTANCE ... WITH` and show in a line
that their fold is the `Fold` of the instance.

*Popups.* The inductive invariant is about the states between two events. It joins the types with: who is in which list
(`ListsAgree`), where each popup stands (`StackConsistent`), the range of
`animH`, the timers of each state and the ownership by the dialog. None is inductive
alone: the position of a popup after a frame of another depends on `newer`
naming exactly the living newer popups, and that depends on how a popup leaves
the lists, which only one in state "hidden" does. The proof has one lemma per action
and, under it, one step per conjunct. `PopupStackAbuts` follows from the invariant: the sum
below a popup is the sum below its nearest newer neighbour and that neighbour (`FoldAny`,
as addition has no order), so the two touch. `PopupNoComeback` is the action property that
follows from the types and the states of the timers. `PopupFreedReads` says for any number of
popups who reads freed memory: nobody where no popup dies, by `ListsAgree`; at a death, by
`MisreadsAtDeathAre`, those that have a popup between themselves and the dying one.

*Busy indicator.* Types are inductive by themselves. `TimerWhileMoving` needs
that the timer goes only in a frame that finds every panel still.
`FramesKeepOutcome` says that a frame changes nothing about which panels will
be spinning once the waves are through; `CallsHonoured` says on which panels
a call decides. Both are action properties with the types as invariant.

*Icons.* `UpdatesReachShown` is inductive with the types and "only an icon that exists is
shown". The proof rests on `NewPrivateFree`: the storage of a new `Icon::Private` is
nobody's, so a load or a detachment changes the animation of no other icon; and
on the destructor, which drops connections only of the icon that goes and of
animations that nobody uses any more. `CountDecides` is not inductive: two animated
`Icon::Private` might use one animation, and the stop of one would pause the other. The
invariant adds that an animation no detached icons share has one `Icon::Private` only (`Sole`).
The count then changes with the sum over its holders, one term at a time.

*Iconset factory.* `NoDangling` is inductive with the type of the vector. Two lemmas say what
`registerIconset` and `unregisterIconset` leave in the slots. They need no
count of slots, which the code gets wrong: what it loses it does not
confuse. `FactoryLookupComplete` does need the count. As long as only the latest is ever
removed the null slots are at the end (`Packed`, `Gapless`): there `count()` is the number
of the last used slot, so a registration goes behind it and the lookup reaches
every iconset; the first that has the name exists because numbers are well-founded.
`FactoryIsRegistry` is the refinement with the same invariant: the slots up to `count()` are
the registry, a registration appends to them, an unregistration takes the last one,
and a destruction of what is not registered stutters.

*Iconset.* `IconsetIsolation` says that copy-on-write works: `Change` writes either storage that
nobody holds or storage that only its own object holds, and what `Refer` deletes
has no other holder. Nothing about the icons themselves is used, so the theorem
covers every content that `load` may read. The other three need an invariant of the contents:
no storage has an icon under a name that is still to be generated (`Maps`), and storage that nobody
holds is blank (`Blank`), without which a new object would not start empty. A load is a
fold over the document, and by `FoldIn` keeps to names below the counter as it goes. In
`IconsetIsValue` each action has a lemma that gives the step of `IconsetValue` it implements;
those of `+=`, `setIcon`, `removeIcon` and `load` hold where no name has two icons
(`Single`), which is what the property is stated for.

*Icon clients.* `ActivationsPaired` counts the widgets that show an icon; it is inductive
with the types. The lemma `ShowersChange` says how that number changes when one widget
changes what it shows, from the theorems on the cardinality of finite sets. A
stop of a count that is not above zero would be lost, and the lemma excludes it.
`ShownAreAlive` and `HiddenMenuRests` follow from `Anchored`: what a row, the menu or the
display shows belongs to an iconset that some `Iconset` object holds.

*Sticking.* For one window of the list `MovedFlush` and `ResizedFlush` say that the change is left
alone or made flush, moved by at most `2 * stickAt + 1`. `SnapFlushOrAsAsked` is about the whole list:
what it promises of the result is kept by each window, whatever geometry the ones before have made, so it
is an invariant of the fold (`FoldIn`). Lists are of any length and in any order, though TLC's have three windows.
`FlashNeverPasses` says that the count of flashes stays within its range, so that the test
for equality that ends flashing cannot be missed; that it is reached is left to TLC.

*XData.* `SharedAlive` needs the count of each place to be at least the number of
objects that have it, for places that nobody has as well: `copy()` gives a new `Private`
the count of the old one, so counts are too large and never too small. `SharedApart`
follows from it, because a `Private` that counts one has one owner.

*Forms.* A list answers with a concatenation of what it found for each item, and `FlattenSeq` is
recursive over the sequences; `FlattenIsLast` gets its function from `NatInduct`, and lemmas say
what it returns in length, members and order. The answers are then statements about single
items: an item chosen finds itself unless its text fits another option. `UntouchedIsKept` needs an
invariant: a widget that nobody touched shows the field or was the last to answer (`Fresh`).
Two of the properties were wrong in an earlier form, which the proofs brought to light and TLC confirmed
on a larger instance (empty values, labels that are no values). One option was said to be answered exactly when
a value fits it, which fails for two options of one value and different labels; the set of
values answered is now compared with that of the options fitted. And a form read back without its
labels answers differently if an empty value was given, since an empty label fits it.

*Addresses.* `JidReadsBack` follows from what `Find` returns (the least place of a character, `FindIs`)
and from how concatenation and sub-sequences undo each other; the parts have no separator
that the whole would be cut at instead. It is a conjunct of `ReadsBack`.

*vCards.* The invariant is that no agent has a URL (`VCards`): agents come by assignments, which leave it
out. Without it `CardReads` is false, for the agents that `fromXml()` reads are assigned once more and
lose theirs. The proof then has two parts. One is about the fields of a single vCard (`FieldsReadBack`), with any
element for its agent that `toXml()` may make. The other is about places: which agents are written
(`WrittenIs`: the least place without one inside, from `LeastIs`), and that all of those
come back at their places (`BlankRead`), for any number of agents.

*Options.* `OptionsKept` is about names of any length in any nesting of groups. Its invariant
(`OptionsInv`) is that the file is what `toXml()` made of the options saved, that names
keep to the rules, and that an option without a value was made by a save of names that clash.
The rest is about one file. Whatever the names, an element that is read back stands at the path of
an option that was saved, with its value (`ReadIs`), so no option ever comes back with
another value. That all come back needs two lemmas. Where no names clash, a name that is in the list of a call
really is in that group (`GroupMembers`): one in the list has the characters of the group
before it, but `mid()` skipped the next one unread, and a name that has something other than a slash there
is one that clashes. This goes from the outermost group to the innermost (`OuterReal`), for which the least
length of a group that fails is enough. And what the code takes for the name of a group inside a
group is the next of the groups of the option (`NextGroup`). Hence each
option has its element (`ElementOf`) and no element has a slash (`WrittenReadable`), unless a group has
a single option: then that option has an element with a slash in
its name, and nothing is read (`LoneUnreadable`). The third claim, that saving adds
no options to those of a program (`SaveKeeps`), is the same fact from the other
side: every path in the file is one of an option.

*All components.* `EachPart` shows that a behaviour of `Components` is one of each component alone:
a step of the one that runs is its step, and all others stutter. `PartsTypes`,
`TextsReadBack` and `PartsKeepAll` take from it the safety properties of the
run `parts`, for `PartsSpec`, of whose initial states the run takes some.

Only model-checked is liveness (`PopupGoesAway`, `CallsSettle`, `KeepsPlaying`, `FiniteEnds`, `FlashEnds`), since the
provers handle neither fairness nor ENABLED. That `OptionsTree` agrees with
the recursion of `saveProps()` was compared by TLC and is not proved, as a theorem about recursive
operators is out of reach of the SMT solver.

## 5. Disagreements between code and documentation

Five are shown by runs:

1. `busywidget.cpp:256`: `stop()` begins no wave while an earlier stopping wave is under
   way. If a `start()` came between them, its wave sets panels spinning behind the
   first stopping wave, and nobody stops them: they spin for ever.
2. `iconset.cpp:313`: the copy constructor that `detach()` uses leaves `activatedCount`
   uninitialised and shares the animation, so stopping one icon stops another.
3. `iconset.cpp:695`: the lookup takes the number of non-null slots for the
   number of slots and calls through a null slot after a removal from the middle.
4. `iconset.cpp:1130`: `operator+=` hides icons of the same name instead of replacing them, and a
   later `removeIcon()` brings the old one back.
5. `options.cpp:559`: a group with a single property is written as one element whose tag is
   the whole name with its slash, so the file is no XML and nothing is restored.

Seen on the way, from the same causes or of less weight:

* `fancypopup.cpp:166-170`: with two or more popups above a popup that is deleted, the slot of the
  nearest one draws the others while their lists still have it, and line 153 reads the `animH`
  of its freed `Private`. It happens for each popup but the two oldest when the dialog is closed.
  `FreedReadInBetween` states it as it is; no text of the repository promises the contrary.
* `advwidget.cpp:145`: the list of top-level windows is kept for 250 ms after each move and holds
  plain pointers, so a move after one of the windows was closed asks a deleted window for its geometry.
  The model marks that (`dangled`); `StaleWhileTimed` only says that the list goes with its timer.
* `busywidget.cpp:270`: a `stop()` and a `start()` between the same two frames leave the widget
  active and frozen, as the stopping wave is applied after the starting one.
* `iconset.cpp:672`: registering after a removal from the middle puts the new iconset over, or
  cuts off, another one.
* `iconset.cpp:805-806`: a copy of an iconset with such hidden icons finds the older one first, so a
  `detach()` for an unrelated change may exchange an icon.
* `iconset.cpp:1261-1280`: `setFileName()` and `setInfo()` do not detach and change all copies.
* `anim.cpp:166-171`: `restart()` does not reset the round count, though the comment at
  :346 says "from the very beginning".
* `options.cpp:540`: members of a group are found by the first characters of its name, so
  `/tool/x` takes `/toolbar` with it, which is lost or comes back under another name.
* `xmpp_xdata.cpp:458`: `copy()` copies the count of references, so a copied `Private` is never
  freed and is copied again at each change.
* `xmpp_xdata.cpp:288`: the label of an option is written only if there is none.
* `iconselect.cpp:209`: the menu releases its iconset before the buttons that point into it.
* `iconwidget.cpp:401`: a button given a name of no icon copies through a null pointer.
* `vcard.cpp:421`: the test for the element of an agent lacks a negation: an agent without a
  URI beside it is not written, and one with a URI replaces it, so that it is lost
  when the card is written a second time. `vcard.cpp:729`: so does the test for a suffix
  in `isEmpty()`, which holds only of cards that have one.
* `vcard.cpp:762-810`: `operator=` leaves out the URL, and keeps an agent that the other has not.

## 6. Not modelled

* vCard cache: `vcardfactory.cpp:85-92` does not compile (`vcards.insert`, `file2`, `vcard.toXml` on
  a pointer), so there is no program whose behaviour a model could state.
* Setters of a vCard that has been assigned or read; dates and the recognition of image types.
* Line edit: its height follows from when Qt lays out text and windows, which this code does not determine.
* UnZip: one handle with one caller around the bundled minizip.
* `Field::isValid` has no caller that is called; `Jid::compare` and the functions that return a changed
  address have no state. The texts of option values are conversions of `QVariant`.
* PNG decoding, the GTK bridge, the Designer plugin: no state of the program. The
  demonstration programs are used as examples of clients. The bundled Qt and minizip
  are third-party code; what the sources use of them is modelled as external.

What could follow: a vCard cache once its source compiles, the conversions of option values to text and
back, and a second form on a widget of data forms that had one (`setFields()` called twice), should a client
of the widgets come to use it.
