----------------------------- MODULE AppStorage -----------------------------
(***************************************************************************)
(* What the app keeps in its database and shows of it: SqlEntry             *)
(* (protocol/src/SqlEntry), Save (client/src/Save.cpp) and the views of     *)
(* containers and switches (client/src/ui).                                *)
(*                                                                         *)
(* main loads all tables, attaches the views to their parents and binds     *)
(* the values to the switches, while the thread of the user interface       *)
(* already handles touches on the switches that are attached.  Nothing is   *)
(* locked, so what main does for one switch and what a touch does to it      *)
(* interleave.  The process may be killed at any moment and is then started *)
(* again.                                                                  *)
(*                                                                         *)
(* Containers, switches (rows of deviceValues) and their parents are never  *)
(* written by the app.  Of knxValues there are the rows named 'out', one     *)
(* for each switch that was ever touched; rows of other names are bound but *)
(* change no switch.                                                       *)
(***************************************************************************)
EXTENDS Naturals, Sequences, SequencesExt

CONSTANTS
    Device,       \* ids in the table deviceValues
    Container,    \* ids in the table container, which counts for itself
    MaxFailures   \* bound: queries that fail

Root  == 0        \* the parent id -1: the root container
Value == {"0", "1"}

ASSUME IdAssumption == /\ Device \subseteq Nat \ {0}
                       /\ Container \subseteq Nat \ {0}
ASSUME BoundAssumption == MaxFailures \in Nat

VARIABLES
    deviceParent, containerParent,  \* columns parentId
    rows,       \* of each device: values of its rows in knxValues
    mainPc,     \* control state of Save::init() in main
    todo,       \* containers or devices the loop of main has still to visit
    containerViews,                     \* containers that have a view
    attachedDevices, attachedContainers,  \* views that are child of a box
    entry,      \* of each device: its SqlEntry of knxValues
    bound,      \* devices whose entry is in their list knxValues
    seen,       \* the value main has read and has still to show, or "none"
    status,     \* SwitchDeviceValue::status, which is what the button shows
    uiPc,       \* control state of a touch on a switch
    touched,    \* the device being touched, or 0
    argument,   \* of setValue(), if it was computed early, or "none"
    modeEdit, editing,      \* KnxUi: the device whose box is edited, or 0
    boxEdit,    \* children of KnxUi::boxEdit
    boxOpen,    \* TRUE iff boxEdit is a child of the root view
    failures,   \* number of queries that failed
    wanted,     \* history: what the touch was to show
    raced,      \* history: the value of the entry did not exist at the touch,
                \* or main wrote to the switch since
    unsaved,    \* history: devices whose value a failed query did not store
                \* or not load
    overtaken   \* history: devices whose value was last set after main had
                \* read a different one and before it showed that

tableVars  == <<deviceParent, containerParent, rows>>
viewVars   == <<containerViews, attachedDevices, attachedContainers>>
switchVars == <<entry, bound, seen, status>>
touchVars  == <<uiPc, touched, argument, wanted, raced>>
editVars   == <<modeEdit, editing, boxEdit, boxOpen>>
vars == <<tableVars, mainPc, todo, viewVars, switchVars, touchVars, editVars,
          failures, unsaved, overtaken>>
----------------------------------------------------------------------------
(* An entry of knxValues; its field `value' is created, empty, when it is     *)
(* first set.                                                              *)
NoEntry == [exists |-> FALSE, value |-> "none", inLocalDb |-> FALSE]
Entry   == [exists : BOOLEAN, value : Value \union {"none", "empty"},
            inLocalDb : BOOLEAN]

(* Every variable has its type.                                             *)
TypeOK ==
    /\ deviceParent \in [Device -> Container \union {Root}]
    /\ containerParent \in [Container -> Container \union {Root}]
    /\ rows \in [Device -> Seq(Value)]
    /\ mainPc \in {"load", "attachContainers", "attach", "bind", "running"}
    /\ todo \subseteq Device \union Container
    /\ containerViews \subseteq Container
    /\ attachedDevices \subseteq Device
    /\ attachedContainers \subseteq Container
    /\ entry \in [Device -> Entry]
    /\ bound \subseteq Device /\ seen \in Value \union {"none", "empty"}
    /\ status \in [Device -> BOOLEAN]
    /\ uiPc \in {"idle", "find", "set", "push"}
    /\ touched \in Device \union {0} /\ argument \in Value \union {"none"}
    /\ modeEdit \in BOOLEAN /\ editing \in Device \union {0}
    /\ boxEdit \subseteq Device /\ boxOpen \in BOOLEAN
    /\ failures \in 0 .. MaxFailures
    /\ wanted \in BOOLEAN /\ raced \in BOOLEAN
    /\ unsaved \subseteq Device /\ overtaken \subseteq Device

(* Climbing from p to the parents of the containers in `boxes' leads to the  *)
(* root: no set of containers traps the one who climbs.                     *)
BelowRoot(p, parent, boxes) ==
    ~ \E trap \in SUBSET Container :
          p \in trap /\ \A c \in trap \intersect boxes : parent[c] \in trap

(* The database is as an earlier run or an editor left it; no container is   *)
(* below itself.                                                            *)
Init ==
    /\ deviceParent \in [Device -> Container \union {Root}]
    /\ containerParent \in {p \in [Container -> Container \union {Root}] :
                                \A c \in Container : BelowRoot(c, p, Container)}
    /\ rows \in [Device -> {<<>>, <<"0">>, <<"1">>}]
    /\ failures = 0
    /\ mainPc = "load" /\ todo = {}
    /\ containerViews = {}
    /\ attachedDevices = {} /\ attachedContainers = {}
    /\ entry = [d \in Device |-> NoEntry] /\ bound = {} /\ seen = "none"
    /\ status = [d \in Device |-> FALSE]
    /\ uiPc = "idle" /\ touched = 0 /\ argument = "none"
    /\ modeEdit = FALSE /\ editing = 0 /\ boxEdit = {} /\ boxOpen = FALSE
    /\ wanted = FALSE /\ raced = FALSE /\ unsaved = {} /\ overtaken = {}
----------------------------------------------------------------------------
(* Save::init() in main.                                                   *)

(* getUniqueID() has no return statement and yields, where it yields         *)
(* anything, the key fields without the table: a container with the id of a *)
(* device is taken for that device's entry.                                 *)
Known(c) == c \in Device

(* The rule for new entries makes a view for every other one.               *)
NewContainers == {c \in Container : ~Known(c)}

(* The parent a device's entry names once all tables are loaded.             *)
ParentOf(d) == IF d \in Container THEN containerParent[d] ELSE deviceParent[d]

(* Where updateParent() finds a box for the parent id p among views.         *)
HasBox(p, views) == p = Root \/ p \in views

(* fromSql() of a later table changed the parent of d's entry: then          *)
(* onChangeField() attaches the view to a container loaded before.          *)
AttachedByLoad(d) ==
    /\ d \in Container
    /\ containerParent[d] # deviceParent[d]
    /\ HasBox(containerParent[d], {c \in NewContainers : c < d})

(* SwitchDeviceValue::onChangeField() for the field `value'.                *)
IsOn(value) == value = "1"

(* Mutant of ShownBy: the override of bindToKnxValue() is not called.        *)
ShownByNothing(value, on) == on

(* bindToKnxValue() of a switch: it shows the value of the entry, if there    *)
(* is one.  setBtOnStatus(), which paints the button, is taken as one with   *)
(* the assignment to status.                                               *)
ShownBy(value, on) == IF value = "none" THEN on ELSE IsOn(value)

(* fromSql() of the rows of d: the values of the last one remain.            *)
LoadedEntry(d) ==
    IF rows[d] = <<>> THEN NoEntry
    ELSE [exists |-> TRUE, value |-> Last(rows[d]), inLocalDb |-> TRUE]

(* sqlQuery(), or a statement of dbLoadElements(), fails, which is logged.   *)
QueryFails == failures < MaxFailures /\ failures' = failures + 1

(* The table knxValues is loaded, or left out because its query failed.      *)
LoadKnxValues ==
    \/ /\ entry' = [d \in Device |-> LoadedEntry(d)]
       /\ UNCHANGED <<failures, unsaved>>
    \/ /\ QueryFails
       /\ entry' = [d \in Device |-> NoEntry]
       /\ unsaved' = {d \in Device : rows[d] # <<>>}

(* dbLoadElements(): one entry for each key, with the values of its last     *)
(* row.  The rule for new entries of knxValues binds each to the switch of   *)
(* its id, which nobody can touch yet and which shows the value.  The rows of *)
(* containers, read last, do not touch values, so a touch on a switch they   *)
(* attach may as well come afterwards.  A query that fails for one of the    *)
(* other tables, and so takes views off the screen, is left out.            *)
LoadElements ==
    /\ mainPc = "load"
    /\ IF NewContainers = {} THEN mainPc' = "attach" /\ todo' = Device
       ELSE mainPc' = "attachContainers" /\ todo' = NewContainers
    /\ containerViews' = NewContainers
    /\ attachedDevices' = {d \in Device : AttachedByLoad(d)}
    /\ LoadKnxValues
    /\ bound' = {d \in Device : entry'[d].exists}
    /\ status' = [d \in Device |-> ShownBy(entry'[d].value, status[d])]
    /\ UNCHANGED <<tableVars, attachedContainers, seen, touchVars, editVars,
                   overtaken>>

(* The loops of init() visit the views in the order of their ids, which is    *)
(* that of their rows.                                                     *)
Visited(id) == id \in todo /\ \A other \in todo : id <= other

(* The last visit of a loop leads to the loop `following'.                   *)
Visit(id, loop, following) ==
    /\ mainPc = loop /\ Visited(id)
    /\ IF todo = {id}
       THEN mainPc' = following
            /\ todo' = IF following = "running" THEN {} ELSE Device
       ELSE todo' = todo \ {id} /\ UNCHANGED mainPc

(* Mutant of Boxes: a parent is looked for among those attached before.      *)
BoxesSoFar == attachedContainers

(* updateParent() looks for the parent among all views of containers.        *)
Boxes == containerViews

(* updateParent() of one container.                                        *)
AttachContainer(c) ==
    /\ Visit(c, "attachContainers", "attach")
    /\ attachedContainers' = IF HasBox(containerParent[c], Boxes)
                             THEN attachedContainers \union {c}
                             ELSE attachedContainers
    /\ UNCHANGED <<tableVars, containerViews, attachedDevices, switchVars,
                   touchVars, editVars, failures, unsaved, overtaken>>

(* updateParent() of one device.                                           *)
AttachDevice(d) ==
    /\ Visit(d, "attach", "bind")
    /\ attachedDevices' = IF HasBox(ParentOf(d), Boxes)
                          THEN attachedDevices \union {d} ELSE attachedDevices
    /\ UNCHANGED <<tableVars, containerViews, attachedContainers, switchVars,
                   touchVars, editVars, failures, unsaved, overtaken>>

(* updateKnxValues() of one device binds its entry once more, also while the  *)
(* switch is being touched.  An entry without a value changes nothing.       *)
PassKnxValue(d) ==
    /\ Visit(d, "bind", "running")
    /\ seen = "none" /\ entry[d].value = "none"
    /\ UNCHANGED <<tableVars, viewVars, switchVars, touchVars, editVars,
                   failures, unsaved, overtaken>>

(* Otherwise main reads the value of the entry ...                           *)
ReadKnxValue(d) ==
    /\ mainPc = "bind" /\ Visited(d)
    /\ seen = "none" /\ entry[d].value # "none"
    /\ seen' = entry[d].value
    /\ UNCHANGED <<tableVars, mainPc, todo, viewVars, entry, bound, status,
                   touchVars, editVars, failures, unsaved, overtaken>>

(* ... and then lets the switch show it, whatever a touch did in between.     *)
ShowKnxValue(d) ==
    /\ Visit(d, "bind", "running")
    /\ seen # "none"
    /\ seen' = "none"
    /\ status' = [status EXCEPT ![d] = ShownBy(seen, @)]
    /\ raced' = (raced \/ d = touched)
    /\ UNCHANGED <<tableVars, viewVars, entry, bound, uiPc, touched, argument,
                   wanted, editVars, failures, unsaved, overtaken>>
----------------------------------------------------------------------------
(* A touch on a switch, in the thread of the user interface.                *)

(* What is drawn and gets touches: the views below the root.                *)
OnScreen(d) ==
    /\ d \in attachedDevices
    /\ BelowRoot(ParentOf(d), containerParent, attachedContainers)

Touchable(d) == uiPc = "idle" /\ OnScreen(d)

TouchSwitch(d) ==
    /\ Touchable(d)
    /\ uiPc' = "find"
    /\ touched' = d
    /\ status' = [status EXCEPT ![d] = ~@]
    /\ wanted' = ~status[d]
    /\ raced' = (entry[d].value = "none")
    /\ UNCHANGED <<tableVars, mainPc, todo, viewVars, entry, bound, seen,
                   argument, editVars, failures, unsaved, overtaken>>

(* getKnxValue("out", true): an entry that is not found is created and, by   *)
(* the rule for its table, bound to the switch; it has no value to show.     *)
GetKnxValue ==
    /\ uiPc = "find"
    /\ uiPc' = "set"
    /\ \/ touched \in bound /\ UNCHANGED <<entry, bound>>
       \/ /\ touched \notin bound
          /\ entry' = [entry EXCEPT ![touched].exists = TRUE]
          /\ bound' = bound \union {touched}
    /\ UNCHANGED <<tableVars, mainPc, todo, viewVars, seen, status, touched,
                   argument, wanted, raced, editVars, failures, unsaved,
                   overtaken>>

(* Mutant of ValueOf: on and off are exchanged.                             *)
ValueOfSwapped(on) == IF on THEN "0" ELSE "1"

ValueOf(on) == IF on THEN "1" ELSE "0"

(* getField("value")->setValue(status ? "1" : "0").  If there is no field yet *)
(* it is created, and onChangeField() with its empty value turns the switch   *)
(* off.  Whether the argument is computed before or after that is up to the   *)
(* compiler.                                                               *)
CreateField ==
    /\ uiPc = "set" /\ entry[touched].value = "none"
    /\ entry' = [entry EXCEPT ![touched].value = "empty"]
    /\ status' = [status EXCEPT ![touched] = IsOn("empty")]
    /\ argument' \in {ValueOf(status[touched]), "none"}
    /\ UNCHANGED <<tableVars, mainPc, todo, viewVars, bound, seen, uiPc,
                   touched, wanted, raced, editVars, failures, unsaved,
                   overtaken>>

Argument == IF argument = "none" THEN ValueOf(status[touched]) ELSE argument

(* setValue() itself: the switch shows the new value.                        *)
SetValue ==
    /\ uiPc = "set" /\ entry[touched].value # "none"
    /\ uiPc' = "push"
    /\ entry' = [entry EXCEPT ![touched].value = Argument]
    /\ status' = [status EXCEPT ![touched] = IsOn(Argument)]
    /\ argument' = "none"
    /\ overtaken' =
           IF seen # "none" /\ Visited(touched) /\ IsOn(seen) # IsOn(Argument)
           THEN overtaken \union {touched} ELSE overtaken \ {touched}
    /\ UNCHANGED <<tableVars, mainPc, todo, viewVars, bound, seen, touched,
                   wanted, raced, editVars, failures, unsaved>>

(* toSql(): the columns of the row of d, of which only `value' is kept.      *)
RowOf(d) == entry[d].value

(* Mutant of Updated: a new row is stored without its value.                 *)
UpdatedWithoutValue(d) ==
    IF entry[d].inLocalDb THEN [i \in DOMAIN rows[d] |-> RowOf(d)]
    ELSE Append(rows[d], NoEntry.value)

(* Another mutant: the row is inserted again each time.                     *)
UpdatedByInsert(d) == Append(rows[d], RowOf(d))

(* UPDATE changes all rows with the key, also if there are none; INSERT adds  *)
(* a row.                                                                   *)
Updated(d) ==
    IF entry[d].inLocalDb THEN [i \in DOMAIN rows[d] |-> RowOf(d)]
    ELSE Append(rows[d], RowOf(d))

(* syncPush(): whether the query succeeded or not, the entry counts as being *)
(* in the database from then on.                                            *)
SyncPush ==
    /\ uiPc = "push"
    /\ uiPc' = "idle"
    /\ \/ /\ rows' = [rows EXCEPT ![touched] = Updated(touched)]
          /\ unsaved' = IF Updated(touched) = <<>> THEN unsaved
                        ELSE unsaved \ {touched}
          /\ UNCHANGED failures
       \/ /\ QueryFails
          /\ unsaved' = unsaved \union {touched}
          /\ UNCHANGED rows
    /\ entry' = [entry EXCEPT ![touched].inLocalDb = TRUE]
    /\ touched' = 0 /\ wanted' = FALSE /\ raced' = FALSE
    /\ UNCHANGED <<deviceParent, containerParent, mainPc, todo, viewVars, bound,
                   seen, status, argument, editVars, overtaken>>
----------------------------------------------------------------------------
(* Editing: the button "Bearbeiten" and the names of the switches.           *)

(* KnxUi::setEdit() for the box of switch d.                                *)
SetEdit(d) ==
    /\ boxEdit' = (boxEdit \ {editing}) \union {d}
    /\ boxOpen' = (boxOpen \/ editing = 0)
    /\ editing' = d

TouchName(d) ==
    /\ modeEdit /\ Touchable(d)
    /\ SetEdit(d)
    /\ UNCHANGED <<tableVars, mainPc, todo, viewVars, switchVars, touchVars,
                   modeEdit, failures, unsaved, overtaken>>

StartEdit ==
    /\ uiPc = "idle" /\ ~modeEdit
    /\ modeEdit' = TRUE
    /\ UNCHANGED <<tableVars, mainPc, todo, viewVars, switchVars, touchVars,
                   editing, boxEdit, boxOpen, failures, unsaved, overtaken>>

(* Mutant of RemoveEdit: editing is not reset.                              *)
RemoveEditKeeps ==
    /\ boxEdit' = boxEdit \ {editing}
    /\ boxOpen' = FALSE
    /\ UNCHANGED editing

(* KnxUi::removeEdit().                                                    *)
RemoveEdit ==
    /\ boxEdit' = boxEdit \ {editing}
    /\ boxOpen' = FALSE
    /\ editing' = 0

EndEdit ==
    /\ uiPc = "idle" /\ modeEdit
    /\ modeEdit' = FALSE
    /\ RemoveEdit
    /\ UNCHANGED <<tableVars, mainPc, todo, viewVars, switchVars, touchVars,
                   failures, unsaved, overtaken>>
----------------------------------------------------------------------------
(* The process is killed, or crashes over the member `parent' of a view,      *)
(* which no constructor sets; it is started again and finds its database.   *)
Restart ==
    /\ mainPc' = "load" /\ todo' = {}
    /\ containerViews' = {}
    /\ attachedDevices' = {} /\ attachedContainers' = {}
    /\ entry' = [d \in Device |-> NoEntry] /\ bound' = {} /\ seen' = "none"
    /\ status' = [d \in Device |-> FALSE]
    /\ uiPc' = "idle" /\ touched' = 0 /\ argument' = "none"
    /\ modeEdit' = FALSE /\ editing' = 0 /\ boxEdit' = {} /\ boxOpen' = FALSE
    /\ wanted' = FALSE /\ raced' = FALSE /\ unsaved' = {} /\ overtaken' = {}
    /\ UNCHANGED <<tableVars, failures>>

Next ==
    \/ LoadElements \/ \E c \in Container : AttachContainer(c)
    \/ \E d \in Device :
          \/ AttachDevice(d)
          \/ PassKnxValue(d) \/ ReadKnxValue(d) \/ ShowKnxValue(d)
          \/ TouchSwitch(d) \/ TouchName(d)
    \/ GetKnxValue \/ CreateField \/ SetValue \/ SyncPush
    \/ StartEdit \/ EndEdit \/ Restart

Spec == Init /\ [][Next]_vars
----------------------------------------------------------------------------
Stored(d) == rows[d] # <<>> /\ IsOn(Last(rows[d]))

(* From the moment the tables are loaded each switch shows what the database  *)
(* holds, also after a restart in the middle of a touch and while main binds  *)
(* the switches once more; but for the one being touched and those whose     *)
(* query failed.  The code has one more way to go wrong: a touch that sets    *)
(* the value of a switch after main has read the old one and before main      *)
(* shows it leaves the switch with the old value, until its next touch.      *)
ShownIsStored ==
    \A d \in Device :
        /\ mainPc # "load"
        /\ d \notin unsaved \union overtaken
        /\ uiPc = "idle" \/ d # touched
        => status[d] = Stored(d)

(* A switch has one row, however often it is touched and the app restarted;   *)
(* a row that a failed query did not load gets a double, and no query that   *)
(* fails makes more than one.                                               *)
OneRowEach == \A d \in Device : Len(rows[d]) <= 1 + failures

(* A touch turns the switch, also while main attaches and binds the views;    *)
(* except the very first one of a switch, which creates its value, and one    *)
(* during which main writes to the same switch.                             *)
TouchTurns ==
    uiPc = "push" => status[touched] = wanted \/ raced

(* Once main has attached all views, a switch is on the screen if and only if *)
(* the parents in the database lead from it to the root; a switch whose      *)
(* entry a container of the same id has overwritten follows that container. *)
(* A container with the id of a device cuts off whatever is below it.       *)
TreeShown ==
    mainPc \in {"bind", "running"} =>
        \A d \in Device :
            OnScreen(d) = BelowRoot(ParentOf(d), containerParent,
                                    {c \in Container : ~Known(c)})

(* The edit box is on the screen exactly while a switch is edited, with that  *)
(* switch's box and no other, and only in edit mode.                        *)
EditConsistent ==
    /\ boxOpen = (editing # 0)
    /\ boxEdit = {editing} \ {0}
    /\ editing # 0 => modeEdit
=============================================================================
