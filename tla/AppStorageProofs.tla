-------------------------- MODULE AppStorageProofs --------------------------
(***************************************************************************)
(* Proofs about what the app keeps in its database and shows of it: types,  *)
(* the switches and their rows, the tree of views, and the edit box.        *)
(***************************************************************************)
EXTENDS AppStorage, TLAPS

(* Before the tables are loaded there is nothing on the screen to be touched. *)
AtStart ==
    mainPc = "load" =>
        /\ uiPc = "idle" /\ entry = [d \in Device |-> NoEntry] /\ bound = {}
        /\ status = [d \in Device |-> FALSE]
        /\ seen = "none" /\ unsaved = {} /\ overtaken = {}
        /\ attachedDevices = {} /\ attachedContainers = {}

(* The switch d is in the hands of the thread of the user interface.         *)
Handled(d) == uiPc # "idle" /\ d = touched

(* The entry of d is bound from the moment it exists, it has a value when it  *)
(* counts as stored, and the switch shows the value, unless that is being    *)
(* changed by a touch or was overtaken by one.  `IsOn' of a missing value is *)
(* FALSE.                                                                  *)
EntryOf(d) ==
    /\ entry[d].exists <=> d \in bound
    /\ entry[d].value # "none" => entry[d].exists
    /\ entry[d].inLocalDb => entry[d].value # "none"
    /\ entry[d].value = "empty" => Handled(d) /\ uiPc = "set"
    /\ Handled(d) /\ uiPc # "find" => entry[d].exists
    /\ d \notin overtaken /\ (~Handled(d) \/ uiPc = "push") =>
          status[d] = IsOn(entry[d].value)

EntryInv == \A d \in Device : EntryOf(d)

(* What main has read and has still to show is what the entry holds, unless   *)
(* a touch has overtaken main.                                              *)
SeenOf(d) ==
    seen # "none" /\ Visited(d) =>
        /\ entry[d].value # "none"
        /\ d \notin overtaken => IsOn(seen) = IsOn(entry[d].value)

SeenInv ==
    /\ seen # "none" => mainPc = "bind"
    /\ \A d \in Device : SeenOf(d)

(* The rows of d agree with its entry, unless a query about it failed; an     *)
(* entry without a row that is known has at most the rows of queries that    *)
(* failed.                                                                  *)
StoreOf(d) ==
    /\ entry[d].inLocalDb \/ Len(rows[d]) <= failures
    /\ d \notin unsaved =>
          /\ entry[d].inLocalDb <=> rows[d] # <<>>
          /\ ~Handled(d) => /\ entry[d].inLocalDb <=> entry[d].value # "none"
                            /\ entry[d].inLocalDb =>
                                   Last(rows[d]) = entry[d].value

StoreInv == mainPc # "load" => \A d \in Device : StoreOf(d)

(* A touch on a switch that has a value keeps what it is to show, as long as  *)
(* main does not write to it.                                               *)
TurnInv ==
    uiPc # "idle" /\ ~raced =>
        entry[touched].value \in Value /\ status[touched] = wanted

(* Where the loops of main are: what is attached, and what is still to do.   *)
Below == {c \in NewContainers : HasBox(containerParent[c], NewContainers)}
Shown == {d \in Device : HasBox(ParentOf(d), NewContainers)}

TreeInv ==
    /\ mainPc # "load" => containerViews = NewContainers
    /\ mainPc = "attachContainers" =>
          /\ todo \subseteq NewContainers
          /\ attachedContainers = Below \ todo
          /\ attachedDevices = {d \in Device : AttachedByLoad(d)}
    /\ mainPc = "attach" =>
          /\ attachedContainers = Below
          /\ attachedDevices = {d \in Device : AttachedByLoad(d)}
                                   \union (Shown \ todo)
    /\ mainPc \in {"bind", "running"} =>
          attachedContainers = Below /\ attachedDevices = Shown
----------------------------------------------------------------------------
(* Types.                                                                   *)

(* Once a touch has created the entry and its value, there is one to store.  *)
PushInv ==
    /\ uiPc # "idle" => touched \in Device
    /\ uiPc = "push" => entry[touched].value \in Value
    /\ argument # "none" => uiPc = "set" /\ entry[touched].value = "empty"

LEMMA NoEntryTyped == NoEntry \in Entry
  BY DEF NoEntry, Entry

LEMMA LoadedTyped ==
    ASSUME NEW d \in Device, rows[d] \in Seq(Value)
    PROVE  LoadedEntry(d) \in Entry
  <1>1. rows[d] # <<>> => Last(rows[d]) \in Value
    BY DEF Last
  <1> QED
    BY <1>1, NoEntryTyped DEF LoadedEntry, Entry

LEMMA IsOnTyped == \A v : IsOn(v) \in BOOLEAN
  BY DEF IsOn

LEMMA ValueTyped == \A on : ValueOf(on) \in Value
  BY DEF ValueOf, Value

LEMMA ValueKnown == \A v \in Value : v # "none" /\ v # "empty"
  BY DEF Value

LEMMA ArgumentTyped == TypeOK => Argument \in Value
  BY ValueTyped DEF TypeOK, Argument

(* bindToKnxValue() leaves the type of status.                               *)
LEMMA ShownTyped ==
    ASSUME NEW value, NEW on \in BOOLEAN
    PROVE  ShownBy(value, on) \in BOOLEAN
  BY IsOnTyped DEF ShownBy

(* The rows after a query are those of the table's column again.             *)
LEMMA UpdatedTyped ==
    ASSUME NEW d \in Device, rows[d] \in Seq(Value), entry[d].value \in Value
    PROVE  /\ Updated(d) \in Seq(Value)
           /\ entry[d].inLocalDb => Len(Updated(d)) = Len(rows[d])
           /\ ~entry[d].inLocalDb => Len(Updated(d)) = Len(rows[d]) + 1
           /\ Updated(d) # <<>> => Last(Updated(d)) = entry[d].value
  <1>1. CASE entry[d].inLocalDb
    <2>1. Updated(d) = [i \in 1 .. Len(rows[d]) |-> entry[d].value]
      BY <1>1 DEF Updated, RowOf
    <2>2. Updated(d) \in Seq(Value) /\ Len(Updated(d)) = Len(rows[d])
      BY <2>1
    <2>3. Updated(d) # <<>> => Last(Updated(d)) = entry[d].value
      BY <2>1, <2>2 DEF Last
    <2> QED
      BY <1>1, <2>2, <2>3
  <1>2. CASE ~entry[d].inLocalDb
    <2>1. Updated(d) = Append(rows[d], entry[d].value)
      BY <1>2 DEF Updated, RowOf
    <2>2. Updated(d) \in Seq(Value) /\ Len(Updated(d)) = Len(rows[d]) + 1
      BY <2>1
    <2>3. Last(Updated(d)) = entry[d].value
      BY <2>1, <2>2 DEF Last
    <2> QED
      BY <1>2, <2>2, <2>3
  <1> QED
    BY <1>1, <1>2

LEMMA TypeInit == Init => TypeOK /\ PushInv
  <1> SUFFICES ASSUME Init PROVE TypeOK /\ PushInv
    OBVIOUS
  <1>1. rows \in [Device -> Seq(Value)]
    <2>1. {<<>>, <<"0">>, <<"1">>} \subseteq Seq(Value)
      BY DEF Value
    <2> QED
      BY <2>1 DEF Init
  <1>2. failures \in 0 .. MaxFailures
    BY BoundAssumption DEF Init
  <1> QED
    BY <1>1, <1>2, NoEntryTyped DEF Init, TypeOK, PushInv

(* The tables are loaded.                                                   *)
LEMMA TypeLoad == TypeOK /\ LoadElements => TypeOK'
  <1> SUFFICES ASSUME TypeOK, LoadElements PROVE TypeOK'
    OBVIOUS
  <1> USE DEF TypeOK
  <1>1. entry' \in [Device -> Entry]
    BY LoadedTyped, NoEntryTyped DEF LoadElements, LoadKnxValues
  <1>2. failures' \in 0 .. MaxFailures /\ unsaved' \subseteq Device
    BY BoundAssumption DEF LoadElements, LoadKnxValues, QueryFails
  <1>3. bound' \subseteq Device /\ status' \in [Device -> BOOLEAN]
    BY ShownTyped DEF LoadElements
  <1>4. /\ mainPc' \in {"attach", "attachContainers"}
        /\ todo' \subseteq Device \union Container
        /\ containerViews' \subseteq Container
    BY DEF LoadElements, NewContainers
  <1>5. attachedDevices' \subseteq Device
    BY DEF LoadElements
  <1> QED
    BY <1>1, <1>2, <1>3, <1>4, <1>5
    DEF LoadElements, tableVars, touchVars, editVars

(* What is to be done next is a set of devices or of containers.           *)
LEMMA VisitTyped ==
    ASSUME TypeOK, NEW id, NEW loop, NEW following, Visit(id, loop, following),
           following \in {"attach", "bind", "running"}
    PROVE  /\ mainPc' \in {"load", "attachContainers", "attach", "bind",
                           "running"}
           /\ todo' \subseteq Device \union Container
  BY DEF Visit, TypeOK

(* The loops of main take views out of todo and go on to the next loop.    *)
LEMMA TypeLoops ==
    ASSUME TypeOK,
           \/ \E c \in Container : AttachContainer(c)
           \/ \E d \in Device : \/ AttachDevice(d) \/ PassKnxValue(d)
                               \/ ReadKnxValue(d) \/ ShowKnxValue(d)
    PROVE  TypeOK'
  <1>1. ASSUME NEW c \in Container, AttachContainer(c) PROVE TypeOK'
    <2>1. Visit(c, "attachContainers", "attach")
      BY <1>1 DEF AttachContainer
    <2>2. /\ mainPc' \in {"load", "attachContainers", "attach", "bind",
                           "running"}
          /\ todo' \subseteq Device \union Container
      BY <2>1, VisitTyped
    <2> QED
      BY <1>1, <2>2 DEF AttachContainer, TypeOK, tableVars, switchVars,
                        touchVars, editVars
  <1>2. ASSUME NEW d \in Device, AttachDevice(d) PROVE TypeOK'
    <2>1. Visit(d, "attach", "bind")
      BY <1>2 DEF AttachDevice
    <2>2. /\ mainPc' \in {"load", "attachContainers", "attach", "bind",
                           "running"}
          /\ todo' \subseteq Device \union Container
      BY <2>1, VisitTyped
    <2> QED
      BY <1>2, <2>2 DEF AttachDevice, TypeOK, tableVars, switchVars,
                        touchVars, editVars
  <1>3. ASSUME NEW d \in Device, PassKnxValue(d) PROVE TypeOK'
    <2>1. Visit(d, "bind", "running")
      BY <1>3 DEF PassKnxValue
    <2>2. /\ mainPc' \in {"load", "attachContainers", "attach", "bind",
                           "running"}
          /\ todo' \subseteq Device \union Container
      BY <2>1, VisitTyped
    <2> QED
      BY <1>3, <2>2 DEF PassKnxValue, TypeOK, tableVars, viewVars, switchVars,
                        touchVars, editVars
  <1>4. ASSUME NEW d \in Device, ReadKnxValue(d) PROVE TypeOK'
    <2>1. seen' \in Value \union {"none", "empty"}
      BY <1>4 DEF ReadKnxValue, TypeOK, Entry
    <2> QED
      BY <1>4, <2>1 DEF ReadKnxValue, TypeOK, tableVars, viewVars, touchVars,
                        editVars
  <1>5. ASSUME NEW d \in Device, ShowKnxValue(d) PROVE TypeOK'
    <2>1. Visit(d, "bind", "running")
      BY <1>5 DEF ShowKnxValue
    <2>2. /\ mainPc' \in {"load", "attachContainers", "attach", "bind",
                           "running"}
          /\ todo' \subseteq Device \union Container
      BY <2>1, VisitTyped
    <2>3. raced' \in BOOLEAN /\ status' \in [Device -> BOOLEAN]
      BY <1>5, ShownTyped DEF ShowKnxValue, TypeOK
    <2> QED
      BY <1>5, <2>2, <2>3 DEF ShowKnxValue, TypeOK, tableVars, viewVars,
                              editVars
  <1> QED
    BY <1>1, <1>2, <1>3, <1>4, <1>5

LEMMA TypeTouch ==
    ASSUME TypeOK, PushInv,
           \/ \E d \in Device : TouchSwitch(d)
           \/ GetKnxValue \/ CreateField \/ SetValue \/ SyncPush
    PROVE  TypeOK' /\ PushInv'
  <1> USE DEF TypeOK, PushInv, tableVars, viewVars, switchVars, touchVars, editVars
  <1>1. ASSUME NEW d \in Device, TouchSwitch(d) PROVE TypeOK' /\ PushInv'
    <2>1. raced' \in BOOLEAN /\ wanted' \in BOOLEAN
      BY <1>1 DEF TouchSwitch
    <2>2. status' \in [Device -> BOOLEAN]
      BY <1>1 DEF TouchSwitch
    <2> QED
      BY <1>1, <2>1, <2>2 DEF TouchSwitch, Touchable
  <1>2. CASE GetKnxValue
    <2>1. CASE touched \in bound
      BY <1>2, <2>1 DEF GetKnxValue
    <2>2. CASE touched \notin bound
      <3>1. entry' \in [Device -> Entry]
        <4>1. entry' = [entry EXCEPT ![touched].exists = TRUE]
          BY <1>2, <2>2 DEF GetKnxValue
        <4>2. touched \in Device /\ entry[touched] \in Entry
          BY <1>2 DEF GetKnxValue
        <4>3. [entry[touched] EXCEPT !.exists = TRUE] \in Entry
          BY <4>2 DEF Entry
        <4> QED
          BY <4>1, <4>3
      <3>2. bound' \subseteq Device
        BY <1>2, <2>2 DEF GetKnxValue
      <3> QED
        BY <1>2, <3>1, <3>2 DEF GetKnxValue
    <2> QED
      BY <2>1, <2>2
  <1>3. CASE CreateField
    <2>1. touched \in Device
      BY <1>3 DEF CreateField
    <2>2. entry' \in [Device -> Entry] /\ entry'[touched].value = "empty"
      BY <1>3, <2>1 DEF CreateField, Entry
    <2>3. status' \in [Device -> BOOLEAN]
      BY <1>3, IsOnTyped DEF CreateField
    <2>4. argument' \in Value \union {"none"}
      BY <1>3, ValueTyped DEF CreateField
    <2> QED
      BY <1>3, <2>1, <2>2, <2>3, <2>4 DEF CreateField
  <1>4. CASE SetValue
    <2>1. touched \in Device
      BY <1>4 DEF SetValue
    <2>2. Argument \in Value /\ IsOn(Argument) \in BOOLEAN
      BY IsOnTyped, ArgumentTyped
    <2>3. entry' \in [Device -> Entry] /\ entry'[touched].value \in Value
      BY <1>4, <2>1, <2>2 DEF SetValue, Entry
    <2>4. status' \in [Device -> BOOLEAN]
      BY <1>4, <2>2 DEF SetValue
    <2>5. overtaken' \subseteq Device
      BY <1>4, <2>1 DEF SetValue
    <2> QED
      BY <1>4, <2>1, <2>3, <2>4, <2>5 DEF SetValue
  <1>5. CASE SyncPush
    <2>1. touched \in Device /\ entry[touched].value \in Value /\ uiPc = "push"
      BY <1>5 DEF SyncPush
    <2>2. Updated(touched) \in Seq(Value)
      BY <2>1, UpdatedTyped
    <2>3. rows' \in [Device -> Seq(Value)]
      BY <1>5, <2>2 DEF SyncPush
    <2>4. failures' \in 0 .. MaxFailures
      BY <1>5, BoundAssumption DEF SyncPush, QueryFails
    <2>5. unsaved' \subseteq Device
      BY <1>5, <2>1 DEF SyncPush
    <2>6. entry' \in [Device -> Entry]
      <3>1. entry' = [entry EXCEPT ![touched].inLocalDb = TRUE]
        BY <1>5 DEF SyncPush
      <3>2. [entry[touched] EXCEPT !.inLocalDb = TRUE] \in Entry
        BY <2>1 DEF Entry
      <3> QED
        BY <3>1, <3>2
    <2>7. wanted' \in BOOLEAN /\ raced' \in BOOLEAN
      BY <1>5 DEF SyncPush
    <2>8. argument' = "none"
      BY <1>5, <2>1 DEF SyncPush
    <2> QED
      BY <1>5, <2>3, <2>4, <2>5, <2>6, <2>7, <2>8 DEF SyncPush
  <1> QED
    BY <1>1, <1>2, <1>3, <1>4, <1>5

LEMMA TypeEdit ==
    ASSUME TypeOK, (\E d \in Device : TouchName(d)) \/ StartEdit \/ EndEdit
    PROVE  TypeOK'
  <1> USE DEF TypeOK, tableVars, viewVars, switchVars, touchVars
  <1>1. ASSUME NEW d \in Device, TouchName(d) PROVE TypeOK'
    <2>1. boxOpen' \in BOOLEAN
      BY <1>1 DEF TouchName, SetEdit
    <2>2. boxEdit' \subseteq Device /\ editing' \in Device \union {0}
      BY <1>1 DEF TouchName, SetEdit
    <2> QED
      BY <1>1, <2>1, <2>2 DEF TouchName
  <1>2. CASE StartEdit
    BY <1>2 DEF StartEdit
  <1>3. CASE EndEdit
    BY <1>3 DEF EndEdit, RemoveEdit
  <1> QED
    BY <1>1, <1>2, <1>3

LEMMA TypeRestart == TypeOK /\ Restart => TypeOK'
  BY NoEntryTyped DEF TypeOK, Restart, tableVars

LEMMA StartStep == AtStart /\ [Next]_vars => AtStart'
  <1> SUFFICES ASSUME AtStart, [Next]_vars, mainPc' = "load" PROVE AtStart'
    BY DEF AtStart
  <1>1. CASE Restart
    BY <1>1 DEF Restart, AtStart
  <1>2. CASE ~Restart
    <2>1. mainPc = "load"
      BY <1>2 DEF Next, vars, LoadElements, AttachContainer, AttachDevice,
                  PassKnxValue, ReadKnxValue, ShowKnxValue, Visit, TouchSwitch,
                  TouchName, GetKnxValue, CreateField, SetValue, SyncPush,
                  StartEdit, EndEdit
    <2>2. UNCHANGED <<uiPc, switchVars, unsaved, overtaken, attachedDevices,
                      attachedContainers>>
      BY <1>2, <2>1
      DEF AtStart, Next, vars, LoadElements, AttachContainer, AttachDevice,
          PassKnxValue, ReadKnxValue, ShowKnxValue, Visit, TouchSwitch,
          Touchable, OnScreen, TouchName, GetKnxValue, CreateField, SetValue,
          SyncPush, StartEdit, EndEdit, viewVars, switchVars, touchVars
    <2> QED
      BY <2>1, <2>2 DEF AtStart, switchVars
  <1> QED
    BY <1>1, <1>2

LEMMA TypeStep ==
    TypeOK /\ AtStart /\ PushInv /\ [Next]_vars => TypeOK' /\ PushInv'
  <1> SUFFICES ASSUME TypeOK, AtStart, PushInv, [Next]_vars
               PROVE  TypeOK' /\ PushInv'
    OBVIOUS
  <1>1. CASE (\E d \in Device : TouchSwitch(d)) \/ GetKnxValue \/ CreateField
                 \/ SetValue \/ SyncPush
    BY <1>1, TypeTouch
  <1>2. CASE ~((\E d \in Device : TouchSwitch(d)) \/ GetKnxValue
                   \/ CreateField \/ SetValue \/ SyncPush)
    <2>1. TypeOK'
      <3>1. CASE UNCHANGED vars
        BY <3>1 DEF TypeOK, vars, tableVars, viewVars, switchVars, touchVars,
                    editVars
      <3> QED
        BY <1>2, <3>1, TypeLoad, TypeLoops, TypeEdit, TypeRestart DEF Next
    <2>2. PushInv'
      <3>1. CASE LoadElements
        BY <3>1 DEF LoadElements, AtStart, PushInv, touchVars
      <3>2. CASE ~LoadElements /\ ~Restart
        <4>1. UNCHANGED <<uiPc, touched, argument, entry>>
          BY <1>2, <3>2
          DEF Next, vars, AttachContainer, AttachDevice, PassKnxValue,
              ReadKnxValue, ShowKnxValue, TouchName, StartEdit, EndEdit,
              switchVars, touchVars
        <4> QED
          BY <4>1 DEF PushInv
      <3>3. CASE Restart
        BY <3>3 DEF Restart, PushInv
      <3> QED
        BY <3>1, <3>2, <3>3
    <2> QED
      BY <2>1, <2>2
  <1> QED
    BY <1>1, <1>2

(* Every variable of the app keeps its type: whatever main, the touches and   *)
(* the queries that fail do, what is stored is a value of the column.        *)
THEOREM StorageTyped == Spec => []TypeOK
  <1>1. Init => TypeOK /\ AtStart /\ PushInv
    BY TypeInit DEF Init, AtStart
  <1> QED
    BY <1>1, StartStep, TypeStep, PTL DEF Spec
----------------------------------------------------------------------------
(* The edit box.                                                            *)

(* The edit box is on the screen exactly while a switch is edited, with that *)
(* switch's box and no other, and only in edit mode: setEdit() and           *)
(* removeEdit() keep the pointer and the boxes together.                    *)
THEOREM EditBox == Spec => []EditConsistent
  <1>1. Init => EditConsistent
    BY DEF Init, EditConsistent
  <1>2. TypeOK /\ EditConsistent /\ [Next]_vars => EditConsistent'
    <2> SUFFICES ASSUME TypeOK, EditConsistent, [Next]_vars
                 PROVE  EditConsistent'
      OBVIOUS
    <2>1. ASSUME NEW d \in Device, TouchName(d) PROVE EditConsistent'
      <3>1. d # 0
        BY IdAssumption
      <3>2. editing' = d /\ modeEdit' /\ boxEdit' = {d}
        BY <2>1 DEF TouchName, SetEdit, EditConsistent
      <3>3. boxOpen'
        BY <2>1 DEF TouchName, SetEdit, EditConsistent, TypeOK
      <3> QED
        BY <3>1, <3>2, <3>3 DEF EditConsistent
    <2>2. CASE StartEdit
      BY <2>2 DEF StartEdit, EditConsistent
    <2>3. CASE EndEdit
      BY <2>3 DEF EndEdit, RemoveEdit, EditConsistent
    <2>4. CASE Restart
      BY <2>4 DEF Restart, EditConsistent
    <2>5. CASE ~((\E d \in Device : TouchName(d)) \/ StartEdit \/ EndEdit
                     \/ Restart)
      <3>1. UNCHANGED editVars
        BY <2>5 DEF Next, vars, LoadElements, AttachContainer, AttachDevice,
                    PassKnxValue, ReadKnxValue, ShowKnxValue, TouchSwitch,
                    GetKnxValue, CreateField, SetValue, SyncPush
      <3> QED
        BY <3>1 DEF editVars, EditConsistent
    <2> QED
      BY <2>1, <2>2, <2>3, <2>4, <2>5
  <1> QED
    BY <1>1, <1>2, StorageTyped, PTL DEF Spec
----------------------------------------------------------------------------
(* The entries of the switches.                                             *)

(* Two views are never visited at once.                                     *)
LEMMA OneVisited ==
    ASSUME TypeOK, NEW d \in Device, NEW c \in Device, Visited(d), Visited(c)
    PROVE  c = d
  <1>1. c <= d /\ d <= c /\ c \in Nat /\ d \in Nat
    BY IdAssumption DEF Visited
  <1> QED
    BY <1>1

(* main binds an entry twice, a touch may come in between, and a restart   *)
(* forgets all of them: after each step a bound entry is shown.            *)
LEMMA EntryStep ==
    TypeOK /\ AtStart /\ PushInv /\ EntryInv /\ SeenInv /\ [Next]_vars
        => EntryInv'
  <1> SUFFICES ASSUME TypeOK, AtStart, PushInv, EntryInv, SeenInv, [Next]_vars,
                      NEW d \in Device
               PROVE  EntryOf(d)'
    BY DEF EntryInv
  <1>o. EntryOf(d)
    BY DEF EntryInv
  <1> USE DEF Handled, switchVars, touchVars
  <1>1. CASE LoadElements
    <2>1. status[d] = FALSE /\ uiPc' = "idle"
      BY <1>1 DEF LoadElements, AtStart
    <2>2. entry'[d] = LoadedEntry(d) \/ entry'[d] = NoEntry
      BY <1>1 DEF LoadElements, LoadKnxValues
    <2>3. /\ entry'[d].exists <=> entry'[d].value # "none"
          /\ entry'[d].inLocalDb <=> entry'[d].value # "none"
          /\ entry'[d].value # "empty"
      <3>1. rows[d] # <<>> => Last(rows[d]) # "none" /\ Last(rows[d]) # "empty"
        <4>1. rows[d] \in Seq({"0", "1"})
          BY DEF TypeOK, Value
        <4> QED
          BY <4>1 DEF Last
      <3> QED
        BY <2>2, <3>1 DEF LoadedEntry, NoEntry
    <2>4. /\ bound' = {c \in Device : entry'[c].exists}
          /\ status'[d] = ShownBy(entry'[d].value, status[d])
      BY <1>1 DEF LoadElements
    <2>5. status'[d] = IsOn(entry'[d].value)
      BY <2>1, <2>4 DEF ShownBy, IsOn
    <2> QED
      BY <2>1, <2>3, <2>4, <2>5 DEF EntryOf
  <1>2. ASSUME NEW c \in Device, ShowKnxValue(c) PROVE EntryOf(d)'
    <2>1. /\ UNCHANGED <<entry, bound, uiPc, touched, overtaken>>
          /\ Visited(c) /\ seen # "none"
          /\ status' = [status EXCEPT ![c] = ShownBy(seen, @)]
      BY <1>2 DEF ShowKnxValue, Visit
    <2>2. CASE d = c
      <3>1. status'[d] = IsOn(seen)
        BY <2>1, <2>2 DEF TypeOK, ShownBy
      <3>2. d \notin overtaken => IsOn(seen) = IsOn(entry[d].value)
        BY <2>1, <2>2 DEF SeenInv, SeenOf
      <3> QED
        BY <1>o, <2>1, <3>1, <3>2 DEF EntryOf
    <2>3. CASE d # c
      <3>1. status'[d] = status[d]
        BY <2>1, <2>3 DEF TypeOK
      <3> QED
        BY <1>o, <2>1, <3>1 DEF EntryOf
    <2> QED
      BY <2>2, <2>3
  <1>3. ASSUME NEW c \in Device, TouchSwitch(c) PROVE EntryOf(d)'
    BY <1>o, <1>3 DEF TouchSwitch, Touchable, EntryOf, TypeOK
  <1>4. CASE GetKnxValue
    <2>1. touched \in Device
      BY <1>4 DEF GetKnxValue, PushInv
    <2>2. CASE touched \in bound
      BY <1>o, <1>4, <2>2 DEF GetKnxValue, EntryOf
    <2>3. CASE touched \notin bound
      <3>1. /\ entry' = [entry EXCEPT ![touched].exists = TRUE]
            /\ bound' = bound \union {touched}
            /\ status' = status
        BY <1>4, <2>3 DEF GetKnxValue
      <3>2. CASE d = touched
        <4>1. entry'[d] = [entry[d] EXCEPT !.exists = TRUE]
          BY <2>1, <3>1, <3>2 DEF TypeOK
        <4>2. /\ entry'[d].exists /\ entry'[d].value = entry[d].value
              /\ entry'[d].inLocalDb = entry[d].inLocalDb
          BY <4>1 DEF TypeOK, Entry
        <4>3. d \in bound'
          BY <3>1, <3>2
        <4> QED
          BY <1>o, <1>4, <3>2, <4>2, <4>3 DEF GetKnxValue, EntryOf
      <3>3. CASE d # touched
        <4>1. entry'[d] = entry[d] /\ status'[d] = status[d]
          BY <3>1, <3>3 DEF TypeOK
        <4>2. d \in bound' <=> d \in bound
          BY <3>1, <3>3
        <4> QED
          BY <1>o, <1>4, <3>3, <4>1, <4>2 DEF GetKnxValue, EntryOf
      <3> QED
        BY <3>2, <3>3
    <2> QED
      BY <2>2, <2>3
  <1>5. CASE CreateField
    <2>1. touched \in Device /\ uiPc = "set" /\ uiPc' = "set"
      BY <1>5 DEF CreateField, PushInv
    <2>2. CASE d = touched
      <3>1. /\ entry'[d].value = "empty"
            /\ entry'[d].exists = entry[d].exists
            /\ entry'[d].inLocalDb = entry[d].inLocalDb
        BY <1>5, <2>2 DEF CreateField, TypeOK, Entry
      <3> QED
        BY <1>o, <1>5, <2>1, <2>2, <3>1 DEF CreateField, EntryOf
    <2>3. CASE d # touched
      <3>1. entry'[d] = entry[d] /\ status'[d] = status[d]
        BY <1>5, <2>3 DEF CreateField, TypeOK
      <3> QED
        BY <1>o, <1>5, <2>3, <3>1 DEF CreateField, EntryOf
    <2> QED
      BY <2>2, <2>3
  <1>6. CASE SetValue
    <2>1. touched \in Device /\ Argument \in Value
      BY <1>6, ArgumentTyped DEF SetValue, PushInv
    <2>2. CASE d = touched
      <3>1. /\ entry'[d].value = Argument
            /\ entry'[d].exists = entry[d].exists
            /\ entry'[d].inLocalDb = entry[d].inLocalDb
        BY <1>6, <2>2 DEF SetValue, TypeOK, Entry
      <3>2. status'[d] = IsOn(Argument)
        BY <1>6, <2>2 DEF SetValue, TypeOK
      <3>3. Argument # "none" /\ Argument # "empty"
        BY <2>1, ValueKnown
      <3> QED
        BY <1>o, <1>6, <2>2, <3>1, <3>2, <3>3 DEF SetValue, EntryOf
    <2>3. CASE d # touched
      <3>1. entry'[d] = entry[d] /\ status'[d] = status[d]
        BY <1>6, <2>3 DEF SetValue, TypeOK
      <3>2. d \in overtaken' <=> d \in overtaken
        BY <1>6, <2>3 DEF SetValue
      <3> QED
        BY <1>o, <1>6, <2>3, <3>1, <3>2 DEF SetValue, EntryOf
    <2> QED
      BY <2>2, <2>3
  <1>7. CASE SyncPush
    <2>1. CASE d = touched
      <3>1. /\ entry'[d].value = entry[d].value
            /\ entry'[d].exists = entry[d].exists
        BY <1>7, <2>1 DEF SyncPush, TypeOK, Entry
      <3>2. Handled(d) /\ uiPc = "push" /\ entry[d].value # "none"
        BY <1>7, <2>1, ValueKnown DEF SyncPush, PushInv
      <3> QED
        BY <1>o, <1>7, <3>1, <3>2 DEF SyncPush, EntryOf
    <2>2. CASE d # touched
      <3>1. entry'[d] = entry[d]
        BY <1>7, <2>2 DEF SyncPush, TypeOK
      <3> QED
        BY <1>o, <1>7, <2>2, <3>1 DEF SyncPush, EntryOf
    <2> QED
      BY <2>1, <2>2
  <1>8. CASE Restart
    BY <1>8 DEF Restart, EntryOf, NoEntry, IsOn
  <1>9. CASE ~(LoadElements \/ GetKnxValue \/ CreateField \/ SetValue
                   \/ SyncPush \/ Restart
                   \/ \E c \in Device : ShowKnxValue(c) \/ TouchSwitch(c))
    <2>1. UNCHANGED <<entry, bound, status, uiPc, touched, overtaken>>
      BY <1>9 DEF Next, vars, AttachContainer, AttachDevice, PassKnxValue,
                  ReadKnxValue, TouchName, StartEdit, EndEdit
    <2> QED
      BY <1>o, <2>1 DEF EntryOf
  <1> QED
    BY <1>1, <1>2, <1>3, <1>4, <1>5, <1>6, <1>7, <1>8, <1>9

(* Only a touch changes the value that main has read, and then it is known    *)
(* to have overtaken main.                                                  *)
LEMMA SeenStep ==
    TypeOK /\ AtStart /\ PushInv /\ SeenInv /\ [Next]_vars => SeenInv'
  <1> SUFFICES ASSUME TypeOK, AtStart, PushInv, SeenInv, [Next]_vars,
                      seen' # "none"
               PROVE  mainPc' = "bind" /\ \A d \in Device : SeenOf(d)'
    BY DEF SeenInv, SeenOf
  <1> USE DEF switchVars, touchVars
  <1>1. ASSUME NEW c \in Device, ReadKnxValue(c)
        PROVE  mainPc' = "bind" /\ \A d \in Device : SeenOf(d)'
    <2>1. /\ Visited(c) /\ entry[c].value # "none" /\ seen' = entry[c].value
          /\ mainPc' = "bind" /\ todo' = todo /\ entry' = entry
      BY <1>1 DEF ReadKnxValue
    <2>2. ASSUME NEW d \in Device, Visited(d)' PROVE d = c
      <3>1. Visited(d)
        BY <2>1, <2>2 DEF Visited
      <3> QED
        BY <2>1, <3>1, OneVisited
    <2> QED
      BY <2>1, <2>2 DEF SeenOf
  <1>2. CASE ~\E c \in Device : ReadKnxValue(c)
    <2>1. seen' = seen /\ ~LoadElements
      <3>1. LoadElements => seen' = "none"
        BY DEF LoadElements, AtStart
      <3> QED
        BY <1>2, <3>1
        DEF Next, vars, LoadElements, AttachContainer, AttachDevice,
            PassKnxValue, ShowKnxValue, TouchSwitch, TouchName, GetKnxValue,
            CreateField, SetValue, SyncPush, StartEdit, EndEdit, Restart
    <2>2. mainPc = "bind" /\ seen # "none"
      BY <2>1 DEF SeenInv
    <2>3. mainPc' = "bind" /\ todo' = todo
      BY <1>2, <2>1, <2>2
      DEF Next, vars, AttachContainer, AttachDevice, PassKnxValue,
          ShowKnxValue, Visit, TouchSwitch, TouchName, GetKnxValue,
          CreateField, SetValue, SyncPush, StartEdit, EndEdit, Restart
    <2>4. ASSUME NEW d \in Device, Visited(d)' PROVE SeenOf(d)'
      <3>1. /\ Visited(d) /\ entry[d].value # "none"
            /\ d \notin overtaken => IsOn(seen) = IsOn(entry[d].value)
        BY <2>2, <2>3, <2>4 DEF Visited, SeenInv, SeenOf
      <3>2. CASE SetValue
        <4>1. touched \in Device /\ Argument # "none"
          BY <3>2, ArgumentTyped, ValueKnown DEF SetValue, PushInv
        <4>2. CASE d = touched
          <5>1. entry'[d].value = Argument
            BY <3>2, <4>2 DEF SetValue, TypeOK, Entry
          <5>2. d \notin overtaken' => IsOn(seen) = IsOn(Argument)
            BY <2>2, <3>1, <3>2, <4>2 DEF SetValue
          <5> QED
            BY <2>1, <4>1, <5>1, <5>2 DEF SeenOf
        <4>3. CASE d # touched
          <5>1. entry'[d] = entry[d] /\ (d \in overtaken' <=> d \in overtaken)
            BY <3>2, <4>3 DEF SetValue, TypeOK
          <5> QED
            BY <2>1, <3>1, <5>1 DEF SeenOf
        <4> QED
          BY <4>2, <4>3
      <3>3. CASE ~SetValue
        <4>1. overtaken' = overtaken
          BY <1>2, <2>1, <2>2, <3>3
          DEF Next, vars, AttachContainer, AttachDevice, PassKnxValue,
              ShowKnxValue, TouchSwitch, TouchName, GetKnxValue, CreateField,
              SyncPush, StartEdit, EndEdit, Restart
        <4>2. entry'[d].value = entry[d].value
          <5>1. CASE CreateField
            BY <3>1, <5>1 DEF CreateField, TypeOK
          <5>2. CASE GetKnxValue \/ SyncPush
            <6>1. \/ entry' = entry
                  \/ entry' = [entry EXCEPT ![touched].exists = TRUE]
                  \/ entry' = [entry EXCEPT ![touched].inLocalDb = TRUE]
              BY <5>2 DEF GetKnxValue, SyncPush
            <6>2. entry \in [Device -> Entry]
              BY DEF TypeOK
            <6> QED
              BY <6>1, <6>2 DEF Entry
          <5>3. CASE ~(CreateField \/ GetKnxValue \/ SyncPush)
            BY <1>2, <2>1, <2>2, <3>3, <5>3
            DEF Next, vars, AttachContainer, AttachDevice, PassKnxValue,
                ShowKnxValue, TouchSwitch, TouchName, StartEdit, EndEdit,
                Restart
          <5> QED
            BY <5>1, <5>2, <5>3
        <4> QED
          BY <2>1, <3>1, <4>1, <4>2 DEF SeenOf
      <3> QED
        BY <3>2, <3>3
    <2> QED
      BY <2>3, <2>4 DEF SeenOf
  <1> QED
    BY <1>1, <1>2
----------------------------------------------------------------------------
(* The rows of the switches.                                                *)

(* The INSERT or UPDATE of syncPush writes what the entry holds, or fails  *)
(* and leaves the switch among those whose query failed.                   *)
LEMMA StoreStep ==
    TypeOK /\ AtStart /\ PushInv /\ EntryInv /\ OneRowEach /\ StoreInv
        /\ [Next]_vars => OneRowEach' /\ StoreInv'
  <1> SUFFICES ASSUME TypeOK, AtStart, PushInv, EntryInv, OneRowEach,
                      StoreInv, [Next]_vars, NEW d \in Device
               PROVE  /\ (Len(rows[d]) <= 1 + failures)'
                      /\ mainPc' # "load" => StoreOf(d)'
    BY DEF OneRowEach, StoreInv
  <1>o. /\ EntryOf(d) /\ Len(rows[d]) <= 1 + failures
        /\ mainPc # "load" => StoreOf(d)
    BY DEF EntryInv, OneRowEach, StoreInv
  <1>t. /\ rows[d] \in Seq(Value) /\ Len(rows[d]) \in Nat /\ failures \in Nat
        /\ rows[d] = <<>> <=> Len(rows[d]) = 0
    <2>1. rows[d] \in Seq(Value) /\ failures \in Nat
      BY BoundAssumption DEF TypeOK
    <2> QED
      BY <2>1
  <1> USE DEF Handled
  <1>1. CASE LoadElements
    <2>1. rows' = rows /\ uiPc' = "idle"
      BY <1>1 DEF LoadElements, AtStart, tableVars, touchVars
    <2>2. CASE entry' = [c \in Device |-> LoadedEntry(c)]
                   /\ UNCHANGED <<failures, unsaved>>
      <3>1. rows[d] # <<>> => Last(rows[d]) # "none"
        BY <1>t DEF Last, Value
      <3>2. CASE rows[d] = <<>>
        <4>1. entry'[d].inLocalDb = FALSE /\ entry'[d].value = "none"
          BY <2>2, <3>2 DEF LoadedEntry, NoEntry
        <4> QED
          BY <1>o, <1>t, <2>1, <2>2, <3>2, <4>1 DEF StoreOf
      <3>3. CASE rows[d] # <<>>
        <4>1. entry'[d].inLocalDb = TRUE /\ entry'[d].value = Last(rows[d])
          BY <2>2, <3>3 DEF LoadedEntry
        <4> QED
          BY <1>o, <2>1, <2>2, <3>1, <3>3, <4>1 DEF StoreOf
      <3> QED
        BY <3>2, <3>3
    <2>3. CASE /\ QueryFails
               /\ entry' = [c \in Device |-> NoEntry]
               /\ unsaved' = {c \in Device : rows[c] # <<>>}
      <3>1. entry'[d].inLocalDb = FALSE /\ entry'[d].value = "none"
        BY <2>3 DEF NoEntry
      <3>2. d \notin unsaved' => rows[d] = <<>>
        BY <2>3
      <3>3. Len(rows[d]) <= failures' /\ failures' = failures + 1
        BY <1>o, <1>t, <2>3 DEF QueryFails
      <3> QED
        BY <1>t, <2>1, <3>1, <3>2, <3>3 DEF StoreOf
    <2> QED
      BY <1>1, <2>2, <2>3 DEF LoadElements, LoadKnxValues
  <1>2. CASE GetKnxValue
    <2>1. touched \in Device /\ mainPc # "load"
      BY <1>2 DEF GetKnxValue, PushInv, AtStart
    <2>2. /\ entry'[d].inLocalDb = entry[d].inLocalDb
          /\ entry'[d].value = entry[d].value
      <3>1. entry' = entry \/ entry' = [entry EXCEPT ![touched].exists = TRUE]
        BY <1>2 DEF GetKnxValue, switchVars
      <3>2. CASE entry' = [entry EXCEPT ![touched].exists = TRUE]
        BY <2>1, <3>2 DEF TypeOK, Entry
      <3> QED
        BY <3>1, <3>2
    <2>3. UNCHANGED <<rows, unsaved, failures, touched, mainPc>>
      BY <1>2 DEF GetKnxValue, tableVars
    <2>4. uiPc = "find" /\ uiPc' = "set"
      BY <1>2 DEF GetKnxValue
    <2> QED
      BY <1>o, <2>1, <2>2, <2>3, <2>4 DEF StoreOf
  <1>3. CASE CreateField \/ SetValue
    <2>1. touched \in Device /\ mainPc # "load"
      BY <1>3 DEF CreateField, SetValue, PushInv, AtStart
    <2>2. /\ entry'[d].inLocalDb = entry[d].inLocalDb
          /\ d # touched => entry'[d].value = entry[d].value
      <3>1. PICK v : entry' = [entry EXCEPT ![touched].value = v]
        BY <1>3 DEF CreateField, SetValue
      <3> QED
        BY <2>1, <3>1 DEF TypeOK, Entry
    <2>3. UNCHANGED <<rows, unsaved, failures, touched, mainPc>>
      BY <1>3 DEF CreateField, SetValue, tableVars
    <2>4. uiPc = "set" /\ uiPc' \in {"set", "push"}
      BY <1>3 DEF CreateField, SetValue
    <2> QED
      BY <1>o, <2>1, <2>2, <2>3, <2>4 DEF StoreOf
  <1>4. CASE SyncPush
    <2>1. touched \in Device /\ uiPc = "push" /\ uiPc' = "idle"
      BY <1>4 DEF SyncPush, PushInv
    <2>2. mainPc # "load" /\ mainPc' = mainPc
      BY <1>4, <2>1 DEF SyncPush, AtStart
    <2>3. failures' = failures \/ failures' = failures + 1
      BY <1>4 DEF SyncPush, QueryFails
    <2>4. CASE d # touched
      <3>1. rows'[d] = rows[d] /\ entry'[d] = entry[d]
        BY <1>4, <2>4 DEF SyncPush, TypeOK
      <3>2. d \in unsaved' <=> d \in unsaved
        BY <1>4, <2>4 DEF SyncPush
      <3>3. Len(rows[d]) <= failures => Len(rows[d]) <= failures'
        BY <1>t, <2>3
      <3>4. Len(rows[d]) <= 1 + failures'
        BY <1>o, <1>t, <2>3
      <3> QED
        BY <1>o, <2>1, <2>2, <2>4, <3>1, <3>2, <3>3, <3>4 DEF StoreOf
    <2>5. CASE d = touched
      <3>1. entry'[d].inLocalDb = TRUE /\ entry'[d].value = entry[d].value
        BY <1>4, <2>5 DEF SyncPush, TypeOK, Entry
      <3>2. entry[d].value \in Value /\ entry[d].value # "none"
        BY <2>1, <2>5, ValueKnown DEF PushInv
      <3>3. CASE /\ rows' = [rows EXCEPT ![touched] = Updated(touched)]
                 /\ unsaved' = IF Updated(touched) = <<>> THEN unsaved
                               ELSE unsaved \ {touched}
                 /\ UNCHANGED failures
        <4>1. rows'[d] = Updated(d)
          BY <2>5, <3>3 DEF TypeOK
        <4>2. /\ Updated(d) \in Seq(Value)
              /\ entry[d].inLocalDb => Len(Updated(d)) = Len(rows[d])
              /\ ~entry[d].inLocalDb => Len(Updated(d)) = Len(rows[d]) + 1
              /\ Updated(d) # <<>> => Last(Updated(d)) = entry[d].value
          BY <1>t, <3>2, UpdatedTyped
        <4>3. StoreOf(d)
          BY <1>o, <2>2
        <4>4. Len(Updated(d)) <= 1 + failures
          BY <1>o, <1>t, <4>2, <4>3 DEF StoreOf
        <4>5. d \notin unsaved' => Updated(d) # <<>>
          <5>1. CASE d \in unsaved
            BY <2>5, <3>3, <5>1
          <5>2. CASE d \notin unsaved
            <6>1. Len(Updated(d)) # 0
              BY <1>t, <4>2, <4>3, <5>2 DEF StoreOf
            <6> QED
              BY <4>2, <6>1
          <5> QED
            BY <5>1, <5>2
        <4> QED
          BY <2>1, <3>1, <3>2, <3>3, <4>1, <4>2, <4>4, <4>5 DEF StoreOf
      <3>4. CASE /\ QueryFails
                 /\ unsaved' = unsaved \union {touched}
                 /\ UNCHANGED rows
        <4>1. Len(rows[d]) <= 1 + failures'
          BY <1>o, <1>t, <3>4 DEF QueryFails
        <4> QED
          BY <2>5, <3>1, <3>4, <4>1 DEF StoreOf
      <3> QED
        BY <1>4, <3>3, <3>4 DEF SyncPush
    <2> QED
      BY <2>4, <2>5
  <1>5. CASE Restart
    BY <1>o, <1>5 DEF Restart, tableVars
  <1>6. ASSUME NEW c \in Device, TouchSwitch(c)
        PROVE  /\ (Len(rows[d]) <= 1 + failures)'
               /\ mainPc' # "load" => StoreOf(d)'
    BY <1>o, <1>6 DEF TouchSwitch, Touchable, StoreOf, tableVars
  <1>7. CASE ~(LoadElements \/ GetKnxValue \/ CreateField \/ SetValue
                   \/ SyncPush \/ Restart \/ \E c \in Device : TouchSwitch(c))
    <2>1. UNCHANGED <<rows, entry, unsaved, failures, uiPc, touched>>
      BY <1>7 DEF Next, vars, AttachContainer, AttachDevice, PassKnxValue,
                  ReadKnxValue, ShowKnxValue, TouchName, StartEdit, EndEdit,
                  tableVars, switchVars, touchVars
    <2>2. mainPc' # "load" => mainPc # "load"
      BY <1>7 DEF Next, vars, AttachContainer, AttachDevice, PassKnxValue,
                  ReadKnxValue, ShowKnxValue, TouchName, StartEdit, EndEdit,
                  Visit
    <2> QED
      BY <1>o, <2>1, <2>2 DEF StoreOf
  <1> QED
    BY <1>1, <1>2, <1>3, <1>4, <1>5, <1>6, <1>7

(* The invariant behind the theorems about switches and rows.                *)
SwitchInv ==
    /\ TypeOK /\ AtStart /\ PushInv
    /\ EntryInv /\ SeenInv
    /\ OneRowEach /\ StoreInv

LEMMA SwitchInit == Init => SwitchInv
  <1> SUFFICES ASSUME Init PROVE SwitchInv
    OBVIOUS
  <1>1. TypeOK /\ PushInv
    BY TypeInit
  <1>2. AtStart
    BY DEF Init, AtStart
  <1>3. EntryInv
    BY DEF Init, EntryInv, EntryOf, Handled, NoEntry, IsOn
  <1>4. OneRowEach
    <2> SUFFICES ASSUME NEW d \in Device PROVE Len(rows[d]) <= 1 + failures
      BY DEF OneRowEach
    <2>1. rows[d] = <<>> \/ rows[d] = <<"0">> \/ rows[d] = <<"1">>
      BY DEF Init
    <2>2. Len(rows[d]) \in Nat /\ Len(rows[d]) <= 1
      <3>1. CASE rows[d] = <<>>
        BY <3>1
      <3>2. CASE rows[d] = <<"0">>
        BY <3>2
      <3>3. CASE rows[d] = <<"1">>
        BY <3>3
      <3> QED
        BY <2>1, <3>1, <3>2, <3>3
    <2>3. failures = 0
      BY DEF Init
    <2> QED
      BY <2>2, <2>3
  <1>5. StoreInv /\ SeenInv
    BY DEF Init, StoreInv, SeenInv, SeenOf
  <1> QED
    BY <1>1, <1>2, <1>3, <1>4, <1>5 DEF SwitchInv

LEMMA SwitchStep == SwitchInv /\ [Next]_vars => SwitchInv'
  BY TypeStep, StartStep, EntryStep, SeenStep, StoreStep DEF SwitchInv

(* From the moment the tables are loaded every switch that is not being       *)
(* touched shows what the last row of its entry holds, through restarts in   *)
(* the middle of a touch and main's second binding; but for a switch whose   *)
(* query failed, and one whose touch set another value between main's        *)
(* reading of the old one and main's writing of it to the switch.            *)
THEOREM SwitchesShowRows == Spec => []ShownIsStored
  <1>1. SwitchInv => ShownIsStored
    <2> SUFFICES ASSUME SwitchInv, NEW d \in Device, mainPc # "load",
                        d \notin unsaved \union overtaken, ~Handled(d)
                 PROVE  status[d] = Stored(d)
      BY DEF ShownIsStored, Handled
    <2>1. EntryOf(d) /\ StoreOf(d)
      BY DEF SwitchInv, EntryInv, StoreInv
    <2>2. status[d] = IsOn(entry[d].value)
      BY <2>1 DEF EntryOf
    <2>3. CASE rows[d] = <<>>
      <3>1. entry[d].value = "none"
        BY <2>1, <2>3 DEF StoreOf
      <3>2. Stored(d) = FALSE
        BY <2>3 DEF Stored
      <3> QED
        BY <2>2, <3>1, <3>2 DEF IsOn
    <2>4. CASE rows[d] # <<>>
      <3>1. Last(rows[d]) = entry[d].value
        BY <2>1, <2>4 DEF StoreOf
      <3>2. Stored(d) = IsOn(entry[d].value)
        BY <2>4, <3>1 DEF Stored, IsOn
      <3> QED
        BY <2>2, <3>2
    <2> QED
      BY <2>3, <2>4
  <1> QED
    BY <1>1, SwitchInit, SwitchStep, PTL DEF Spec

(* However often a switch is touched and the app restarted, its table has    *)
(* one row for it, and one more at most for each query that failed.          *)
THEOREM RowsBounded == Spec => []OneRowEach
  <1>1. SwitchInv => OneRowEach
    BY DEF SwitchInv
  <1> QED
    BY <1>1, SwitchInit, SwitchStep, PTL DEF Spec
----------------------------------------------------------------------------
(* What a touch shows.                                                      *)

(* The touch of a switch with a value keeps that value and what the switch is *)
(* to show until it is stored, unless main writes to the switch.             *)
LEMMA TurnStep ==
    SwitchInv /\ TurnInv /\ [Next]_vars => TurnInv'
  <1> SUFFICES ASSUME SwitchInv, TurnInv, [Next]_vars, uiPc' # "idle", ~raced'
               PROVE  entry'[touched'].value \in Value
                          /\ status'[touched'] = wanted'
    BY DEF TurnInv
  <1>o. TypeOK /\ AtStart /\ PushInv /\ EntryInv
    BY DEF SwitchInv
  <1> USE DEF switchVars, touchVars
  <1>1. ASSUME NEW d \in Device, TouchSwitch(d)
        PROVE  entry'[touched'].value \in Value /\ status'[touched'] = wanted'
    <2>1. status'[d] = ~status[d] /\ touched' = d /\ wanted' = ~status[d]
      BY <1>1, <1>o DEF TouchSwitch, TypeOK
    <2>2. uiPc = "idle" /\ entry[d].value # "none" /\ entry' = entry
      BY <1>1 DEF TouchSwitch, Touchable
    <2>3. entry[d].value # "empty"
      BY <1>o, <2>2 DEF EntryInv, EntryOf
    <2>4. entry[d].value \in Value
      BY <1>o, <2>2, <2>3 DEF TypeOK, Entry
    <2> QED
      BY <2>1, <2>2, <2>4
  <1>2. CASE ~\E d \in Device : TouchSwitch(d)
    <2>1. ~LoadElements /\ ~Restart /\ ~SyncPush
      <3>1. LoadElements => uiPc' = "idle"
        BY <1>o DEF LoadElements, AtStart
      <3>2. Restart \/ SyncPush => uiPc' = "idle"
        BY DEF Restart, SyncPush
      <3> QED
        BY <3>1, <3>2
    <2>2. /\ uiPc # "idle" /\ ~raced
          /\ touched' = touched /\ wanted' = wanted
      <3>1. uiPc # "idle" /\ touched' = touched /\ wanted' = wanted
        BY <1>2, <2>1
        DEF Next, vars, AttachContainer, AttachDevice, PassKnxValue,
            ReadKnxValue, ShowKnxValue, TouchName, GetKnxValue, CreateField,
            SetValue, StartEdit, EndEdit
      <3>2. ASSUME NEW d \in Device, ShowKnxValue(d) PROVE ~raced
        BY <3>2, Zenon DEF ShowKnxValue
      <3>3. CASE ~\E d \in Device : ShowKnxValue(d)
        <4>1. raced' = raced
          BY <1>2, <2>1, <3>3
          DEF Next, vars, AttachContainer, AttachDevice, PassKnxValue,
              ReadKnxValue, TouchName, GetKnxValue, CreateField, SetValue,
              StartEdit, EndEdit
        <4> QED
          BY <3>1, <4>1
      <3> QED
        BY <3>1, <3>2, <3>3
    <2>3. /\ touched \in Device /\ entry[touched].value \in Value
          /\ status[touched] = wanted
      BY <1>o, <2>2 DEF TurnInv, PushInv
    <2>4. entry[touched].value # "none" /\ entry[touched].value # "empty"
      BY <2>3, ValueKnown
    <2>5. CASE GetKnxValue
      <3>1. touched \in bound
        BY <1>o, <2>3, <2>4 DEF EntryInv, EntryOf
      <3> QED
        BY <2>2, <2>3, <2>5, <3>1 DEF GetKnxValue
    <2>6. CASE SetValue
      <3>1. argument = "none"
        BY <1>o, <2>4 DEF PushInv
      <3>2. Argument = ValueOf(status[touched])
        BY <3>1 DEF Argument
      <3>3. entry'[touched].value = Argument /\ Argument \in Value
        BY <1>o, <2>3, <2>6, ArgumentTyped DEF SetValue, TypeOK, Entry
      <3>4. status'[touched] = IsOn(Argument)
        BY <1>o, <2>3, <2>6 DEF SetValue, TypeOK
      <3>5. status[touched] \in BOOLEAN
        BY <1>o, <2>3 DEF TypeOK
      <3>6. IsOn(Argument) = status[touched]
        BY <3>2, <3>5 DEF IsOn, ValueOf
      <3> QED
        BY <2>2, <2>3, <3>3, <3>4, <3>6
    <2>7. ASSUME NEW d \in Device, ShowKnxValue(d)
          PROVE  entry'[touched].value \in Value /\ status'[touched] = wanted
      <3>1. d # touched /\ entry' = entry
            /\ status' = [status EXCEPT ![d] = ShownBy(seen, @)]
        BY <2>7 DEF ShowKnxValue
      <3>2. status'[touched] = status[touched]
        BY <1>o, <3>1 DEF TypeOK
      <3> QED
        BY <2>3, <3>1, <3>2
    <2>8. CASE ~(GetKnxValue \/ SetValue \/ \E d \in Device : ShowKnxValue(d))
      <3>1. ~CreateField
        BY <2>4 DEF CreateField
      <3>2. UNCHANGED <<entry, status>>
        BY <1>2, <2>1, <2>8, <3>1
        DEF Next, vars, AttachContainer, AttachDevice, PassKnxValue,
            ReadKnxValue, TouchName, StartEdit, EndEdit
      <3> QED
        BY <2>2, <2>3, <3>2
    <2> QED
      BY <2>2, <2>5, <2>6, <2>7, <2>8
  <1> QED
    BY <1>1, <1>2

(* A touch turns the switch: what it stores is the opposite of what was       *)
(* shown, also while main attaches and binds the views; unless the switch    *)
(* had no value yet when it was touched, or main wrote to it since.          *)
THEOREM TouchIsStored == Spec => []TouchTurns
  <1>1. Init => TurnInv
    BY DEF Init, TurnInv
  <1>2. TurnInv => TouchTurns
    BY DEF TurnInv, TouchTurns
  <1> QED
    BY <1>1, <1>2, SwitchInit, SwitchStep, TurnStep, PTL DEF Spec
----------------------------------------------------------------------------
(* The tree of views.                                                       *)

(* What fromSql() attaches has a box in the end as well.                     *)
LEMMA AttachedByLoadShown ==
    ASSUME NEW d \in Device, AttachedByLoad(d) PROVE d \in Shown
  BY DEF AttachedByLoad, Shown, HasBox, ParentOf

LEMMA TreeStep == AtStart /\ TreeInv /\ [Next]_vars => TreeInv'
  <1> SUFFICES ASSUME AtStart, TreeInv, [Next]_vars PROVE TreeInv'
    OBVIOUS
  <1>c. CASE Restart
    BY <1>c DEF Restart, TreeInv
  <1>d. CASE ~Restart
    <2>1. UNCHANGED <<deviceParent, containerParent>>
      BY <1>d DEF Next, vars, tableVars, LoadElements, AttachContainer,
                  AttachDevice, PassKnxValue, ReadKnxValue, ShowKnxValue,
                  TouchSwitch, TouchName, GetKnxValue, CreateField, SetValue,
                  SyncPush, StartEdit, EndEdit
    <2>2. /\ Below' = Below /\ Shown' = Shown
          /\ \A d \in Device : AttachedByLoad(d)' <=> AttachedByLoad(d)
      BY <2>1 DEF Below, Shown, AttachedByLoad, ParentOf
    <2>3. CASE LoadElements
      <3>1. /\ containerViews' = NewContainers
            /\ attachedContainers' = {}
            /\ attachedDevices' = {d \in Device : AttachedByLoad(d)}
        BY <2>3 DEF LoadElements, AtStart
      <3>2. CASE NewContainers = {}
        <4>1. Below = {}
          BY <3>2 DEF Below
        <4>2. mainPc' = "attach" /\ todo' = Device
          BY <2>3, <3>2 DEF LoadElements
        <4>3. Shown \ Device = {}
          BY DEF Shown
        <4> QED
          BY <2>2, <3>1, <4>1, <4>2, <4>3 DEF TreeInv
      <3>3. CASE NewContainers # {}
        <4>1. mainPc' = "attachContainers" /\ todo' = NewContainers
          BY <2>3, <3>3 DEF LoadElements
        <4>2. Below \ NewContainers = {}
          BY DEF Below
        <4> QED
          BY <2>2, <3>1, <4>1, <4>2 DEF TreeInv
      <3> QED
        BY <3>2, <3>3
    <2>4. ASSUME NEW c \in Container, AttachContainer(c) PROVE TreeInv'
      <3>1. /\ mainPc = "attachContainers" /\ c \in todo
            /\ UNCHANGED <<containerViews, attachedDevices>>
        BY <2>4 DEF AttachContainer, Visit, Visited
      <3>2. containerViews = NewContainers /\ c \in NewContainers
        BY <3>1 DEF TreeInv
      <3>3. attachedContainers' = Below \ (todo \ {c})
        <4>1. c \in Below <=> HasBox(containerParent[c], Boxes)
          BY <3>2 DEF Below, Boxes
        <4>2. attachedContainers' = IF c \in Below
                                    THEN (Below \ todo) \union {c}
                                    ELSE Below \ todo
          BY <2>4, <3>1, <4>1 DEF AttachContainer, TreeInv
        <4> QED
          BY <3>1, <4>2
      <3>4. CASE todo = {c}
        <4>1. mainPc' = "attach" /\ todo' = Device
          BY <2>4, <3>4 DEF AttachContainer, Visit
        <4>2. attachedContainers' = Below
          BY <3>3, <3>4
        <4>3. Shown \ Device = {}
          BY DEF Shown
        <4> QED
          BY <2>2, <3>1, <3>2, <4>1, <4>2, <4>3 DEF TreeInv
      <3>5. CASE todo # {c}
        <4>1. mainPc' = mainPc /\ todo' = todo \ {c}
          BY <2>4, <3>5 DEF AttachContainer, Visit
        <4> QED
          BY <2>2, <3>1, <3>2, <3>3, <4>1 DEF TreeInv
      <3> QED
        BY <3>4, <3>5
    <2>5. ASSUME NEW d \in Device, AttachDevice(d) PROVE TreeInv'
      <3>1. /\ mainPc = "attach" /\ d \in todo
            /\ UNCHANGED <<containerViews, attachedContainers>>
        BY <2>5 DEF AttachDevice, Visit, Visited
      <3>2. containerViews = NewContainers /\ attachedContainers = Below
        BY <3>1 DEF TreeInv
      <3>3. attachedDevices' = {e \in Device : AttachedByLoad(e)}
                                   \union (Shown \ (todo \ {d}))
        <4>1. d \in Shown <=> HasBox(ParentOf(d), Boxes)
          BY <3>2 DEF Shown, Boxes
        <4>2. attachedDevices' = IF d \in Shown
                                 THEN attachedDevices \union {d}
                                 ELSE attachedDevices
          BY <2>5, <4>1 DEF AttachDevice
        <4>3. attachedDevices = {e \in Device : AttachedByLoad(e)}
                                    \union (Shown \ todo)
          BY <3>1 DEF TreeInv
        <4> QED
          BY <3>1, <4>2, <4>3
      <3>4. CASE todo = {d}
        <4>1. mainPc' = "bind"
          BY <2>5, <3>4 DEF AttachDevice, Visit
        <4>2. attachedDevices' = Shown
          BY <3>3, <3>4, AttachedByLoadShown
        <4> QED
          BY <2>2, <3>1, <3>2, <4>1, <4>2 DEF TreeInv
      <3>5. CASE todo # {d}
        <4>1. mainPc' = mainPc /\ todo' = todo \ {d}
          BY <2>5, <3>5 DEF AttachDevice, Visit
        <4> QED
          BY <2>2, <3>1, <3>2, <3>3, <4>1 DEF TreeInv
      <3> QED
        BY <3>4, <3>5
    <2>6. ASSUME NEW d \in Device,
                 PassKnxValue(d) \/ ReadKnxValue(d) \/ ShowKnxValue(d)
          PROVE  TreeInv'
      <3>1. /\ mainPc = "bind" /\ mainPc' \in {"bind", "running"}
            /\ UNCHANGED <<containerViews, attachedContainers, attachedDevices>>
        BY <2>6 DEF PassKnxValue, ReadKnxValue, ShowKnxValue, Visit, viewVars
      <3> QED
        BY <2>2, <3>1 DEF TreeInv
    <2>7. CASE ~(LoadElements \/ (\E c \in Container : AttachContainer(c))
                    \/ \E d \in Device :
                          \/ AttachDevice(d) \/ PassKnxValue(d)
                          \/ ReadKnxValue(d) \/ ShowKnxValue(d))
      <3>1. UNCHANGED <<mainPc, todo, containerViews, attachedContainers,
                        attachedDevices>>
        BY <1>d, <2>7 DEF Next, vars, TouchSwitch, TouchName, GetKnxValue,
                          CreateField, SetValue, SyncPush, StartEdit, EndEdit,
                          viewVars
      <3> QED
        BY <2>2, <3>1 DEF TreeInv
    <2> QED
      BY <2>3, <2>4, <2>5, <2>6, <2>7
  <1> QED
    BY <1>c, <1>d

(* Nothing is lost below a container that is not attached itself: a set that  *)
(* traps the one who climbs over attached views grows, by the containers    *)
(* without a view, to one that traps the one who climbs over all views.     *)
LEMMA SameClimb ==
    ASSUME containerParent \in [Container -> Container \union {Root}],
           NEW p \in Container \union {Root}
    PROVE  HasBox(p, NewContainers) /\ BelowRoot(p, containerParent, Below)
               <=> BelowRoot(p, containerParent, NewContainers)
  <1>1. Root \notin Container
    BY IdAssumption DEF Root
  <1>2. ASSUME BelowRoot(p, containerParent, Below)
        PROVE  BelowRoot(p, containerParent, NewContainers)
    <2>1. Below \subseteq NewContainers
      BY DEF Below
    <2> QED
      BY <1>2, <2>1 DEF BelowRoot
  <1>3. ASSUME BelowRoot(p, containerParent, NewContainers)
        PROVE  HasBox(p, NewContainers)
    <2>1. SUFFICES ASSUME p # Root, p \notin NewContainers PROVE FALSE
      BY DEF HasBox
    <2>2. {p} \in SUBSET Container /\ {p} \intersect NewContainers = {}
      BY <2>1
    <2> QED
      BY <1>3, <2>2 DEF BelowRoot
  <1>4. ASSUME BelowRoot(p, containerParent, NewContainers)
        PROVE  BelowRoot(p, containerParent, Below)
    <2>1. SUFFICES ASSUME NEW trap \in SUBSET Container, p \in trap,
                          \A c \in trap \intersect Below :
                              containerParent[c] \in trap
                   PROVE  FALSE
      BY DEF BelowRoot
    <2> DEFINE all == trap \union (Container \ NewContainers)
    <2>2. all \in SUBSET Container /\ p \in all
      BY <2>1
    <2>3. ASSUME NEW c \in all \intersect NewContainers
          PROVE  containerParent[c] \in all
      <3>1. c \in trap /\ c \in NewContainers /\ c \in Container
        BY <2>3
      <3>2. CASE c \in Below
        BY <2>1, <3>1, <3>2
      <3>3. CASE c \notin Below
        <4>1. containerParent[c] # Root /\ containerParent[c] \notin NewContainers
          BY <3>1, <3>3 DEF Below, HasBox
        <4> QED
          BY <3>1, <4>1
      <3> QED
        BY <3>2, <3>3
    <2> QED
      BY <1>4, <2>2, <2>3 DEF BelowRoot
  <1> QED
    BY <1>2, <1>3, <1>4

(* Once main has attached all views, exactly those switches are on the        *)
(* screen whose parents in the database lead to the root, in whatever order  *)
(* tables and rows are read and views attached; but a switch whose entry a   *)
(* container of the same id has overwritten follows that container, and a    *)
(* container with the id of a device cuts off whatever is below it.          *)
THEOREM TreeIsShown == Spec => []TreeShown
  <1>1. Init => TreeInv
    BY DEF Init, TreeInv
  <1>2. TypeOK /\ TreeInv => TreeShown
    <2> SUFFICES ASSUME TypeOK, TreeInv, mainPc \in {"bind", "running"},
                        NEW d \in Device
                 PROVE  OnScreen(d) = BelowRoot(ParentOf(d), containerParent,
                                                NewContainers)
      BY DEF TreeShown, NewContainers
    <2>1. attachedContainers = Below /\ attachedDevices = Shown
      BY DEF TreeInv
    <2>2. d \in attachedDevices <=> HasBox(ParentOf(d), NewContainers)
      BY <2>1 DEF Shown
    <2>3. /\ ParentOf(d) \in Container \union {Root}
          /\ containerParent \in [Container -> Container \union {Root}]
      BY DEF TypeOK, ParentOf
    <2>4. HasBox(ParentOf(d), NewContainers)
              /\ BelowRoot(ParentOf(d), containerParent, Below)
          <=> BelowRoot(ParentOf(d), containerParent, NewContainers)
      BY <2>3, SameClimb
    <2>5. OnScreen(d) <=> BelowRoot(ParentOf(d), containerParent, NewContainers)
      BY <2>1, <2>2, <2>4 DEF OnScreen
    <2> QED
      BY <2>5 DEF OnScreen, BelowRoot
  <1>3. Init => AtStart
    BY DEF Init, AtStart
  <1> QED
    BY <1>1, <1>2, <1>3, StorageTyped, StartStep, TreeStep, PTL DEF Spec
=============================================================================
