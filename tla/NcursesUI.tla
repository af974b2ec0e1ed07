----------------------------- MODULE NcursesUI -----------------------------
(***************************************************************************)
(* The ncurses printer (printers/ncurses.go): views, sort column, the help *)
(* overlay, the field selector and the hidden fields, and what is drawn.   *)
(* The printer thread calls Screen again and again; each call handles at   *)
(* most one key and draws, so it is one step.  ForceRefresh, which only    *)
(* asks for one call more, is a variable of Runners.                       *)
(*                                                                         *)
(* A field is a pair <<group, name>>, the prefix of its name and the rest. *)
(* A value is represented by the field it is a value of, so a row is       *)
(* aligned when it equals the header.  Every VM has a complete row here    *)
(* (PrintCycle treats the others).  Verbose is always on in this printer.  *)
(***************************************************************************)
EXTENDS Integers, FiniteSets, SequencesExt

CONSTANTS
  DomainFields,  \* printable.DomainFields: UUID, name, and the collectors'
  HostFields,    \* printable.HostFields
  PerDisk,       \* the fields DiskPrintPerDevice has values for
  NetDevFields,  \* HostNetFields(): DEVICE and the rest
  DiskDevFields, \* HostDiskFields(): DEVICE and the rest
  HiddenByDefault, \* the fields Open hides
  Devices,       \* for each VM, its interfaces (network view), disks (disk view)
  Lines,         \* the height of the field selector's list
  Keys,          \* the keys the user may press
  MaxInterval,   \* the longest refresh interval: 60 in the code
  MaxSort        \* bound: the sort column is not moved beyond it

DeviceViews == {"physNet", "physDisk", "lvm", "mpath"}
Views == {"all", "cpu", "mem", "disk", "net", "io"} \cup DeviceViews
OtherKeys == {"esc", "help", "fields", "sortLeft", "sortRight", "reverse",
              "slower", "faster", "units", "up", "down", "toggle", "q",
              "ctrlC"}

ASSUME NcursesAssumption ==
  /\ Len(DomainFields) >= 2
  /\ NetDevFields # <<>> /\ DiskDevFields # <<>>
  /\ Keys \subseteq Views \cup OtherKeys
  /\ Lines \in Nat \ {0} /\ MaxInterval \in Nat \ {0}
  /\ MaxSort \in Nat /\ MaxSort >= 3

VARIABLES
  ui,       \* the settings and the state of the overlays
  terminal, \* what the terminal shows
  paused,   \* runners.CollectionPaused
  running   \* FALSE once a key has quit the program

vars == <<ui, terminal, paused, running>>

Device == <<"device", "DEVICE">>
Blank  == [mode |-> "blank"]

\* Open, and the initial values of the package variables.
Init ==
  /\ ui = [view |-> "cpu", sortColumn |-> 3, ascending |-> FALSE,
           interval |-> 1, human |-> FALSE,
           help |-> FALSE, helpDrawn |-> FALSE,
           selector |-> FALSE, selectorDrawn |-> FALSE,
           cursor |-> 0, available |-> <<>>, hidden |-> HiddenByDefault]
  /\ terminal = Blank
  /\ paused = FALSE /\ running = TRUE

----------------------------------------------------------------------------
(* The keyboard: handleInput.                                              *)

ToggleMember(x, S) == IF x \in S THEN S \ {x} ELSE S \cup {x}

\* Faulty variant: moving the cursor does not ask for a redraw.
SelectorKeyUndrawn(u, k) ==
  LET v == [u EXCEPT !.selectorDrawn = FALSE] IN
  CASE k \in {"q", "esc", "fields"} -> [v EXCEPT !.selector = FALSE]
    [] k = "up" /\ u.cursor > 0 -> [u EXCEPT !.cursor = @ - 1]
    [] k = "down" /\ u.cursor < Len(u.available) - 1 ->
         [u EXCEPT !.cursor = @ + 1]
    [] k = "toggle" /\ u.cursor < Len(u.available) ->
         [v EXCEPT !.hidden = ToggleMember(u.available[u.cursor + 1], @)]
    [] OTHER -> u

\* An open field selector takes every key, even under the help overlay.
SelectorKey(u, k) ==
  LET v == [u EXCEPT !.selectorDrawn = FALSE] IN
  CASE k \in {"q", "esc", "fields"} -> [v EXCEPT !.selector = FALSE]
    [] k = "up" /\ u.cursor > 0 -> [v EXCEPT !.cursor = @ - 1]
    [] k = "down" /\ u.cursor < Len(u.available) - 1 ->
         [v EXCEPT !.cursor = @ + 1]
    [] k = "toggle" /\ u.cursor < Len(u.available) ->
         [v EXCEPT !.hidden = ToggleMember(u.available[u.cursor + 1], @)]
    [] k \in {"up", "down", "toggle"} -> v
    [] OTHER -> u

GlobalKey(u, k) ==
  CASE k \in Views ->
         [u EXCEPT !.view = k, !.help = FALSE, !.helpDrawn = FALSE]
    [] k = "esc" /\ u.help -> [u EXCEPT !.help = FALSE, !.helpDrawn = FALSE]
    [] k = "help" -> [u EXCEPT !.help = ~@, !.helpDrawn = FALSE]
    [] k = "fields" ->
         [u EXCEPT !.selector = TRUE, !.selectorDrawn = FALSE, !.cursor = 0]
    [] k = "sortLeft" /\ u.sortColumn > 0 -> [u EXCEPT !.sortColumn = @ - 1]
    [] k = "sortRight" -> [u EXCEPT !.sortColumn = @ + 1]
    [] k = "reverse" -> [u EXCEPT !.ascending = ~@]
    [] k = "slower" /\ u.interval < MaxInterval -> [u EXCEPT !.interval = @ + 1]
    [] k = "faster" /\ u.interval > 1 -> [u EXCEPT !.interval = @ - 1]
    [] k = "units" -> [u EXCEPT !.human = ~@]
    [] OTHER -> u

\* The settings after the key k, or after the 100ms without one.
Pressed(k) ==
  IF k = "none" THEN ui
  ELSE IF ui.selector THEN SelectorKey(ui, k) ELSE GlobalKey(ui, k)

Quits(k) == ~ui.selector /\ k \in {"q", "ctrlC"}

\* The keys of this call, up to the bound on the sort column.
Pressable ==
  {k \in Keys \cup {"none"} :
     ~Quits(k) /\ (k = "sortRight" => ui.sortColumn < MaxSort)}

----------------------------------------------------------------------------
(* Columns: filterFieldsByView, expandPerDeviceView, applyHiddenFields.    *)

GroupsOf == [cpu |-> {"cpu"}, mem |-> {"mem"}, disk |-> {"dsk"},
             net |-> {"net"}, io |-> {"io", "psi"}]

InView(f, view) == view \in DOMAIN GroupsOf => f[1] \in GroupsOf[view]

\* The place of an index among those of a set.
Place(i, indices) == Cardinality({j \in indices : j <= i})

\* The elements of a sequence at some of its indices, in order.
Pick(s, indices) ==
  [n \in 1..Cardinality(indices) |->
     s[CHOOSE i \in indices : Place(i, indices) = n]]

\* The indices of the fields that belong to a view.
Members(s, view) == {i \in DOMAIN s : InView(s[i], view)}

\* The tables of fields: UUID and name have no group; DiskPrintPerDevice gives
\* the disk fields from the fourth on, without the last, verbose ones.
ASSUME FieldsAssumption ==
  /\ \A s \in {DomainFields, HostFields, PerDisk, NetDevFields, DiskDevFields} :
       s \in Seq(ToSet(s))
  /\ \A view \in {"net", "disk"} : Members(DomainFields, view) \cap {1, 2} = {}
  /\ LET disk == Members(DomainFields, "disk") IN
       /\ Len(PerDisk) + 3 <= Cardinality(disk)
       /\ \A i \in disk :
            Place(i, disk) - 3 \in DOMAIN PerDisk
              => PerDisk[Place(i, disk) - 3] = DomainFields[i]

VisibleIndices(u) ==
  {i \in DOMAIN DomainFields :
     \/ i <= 2
     \/ DomainFields[i] \notin u.hidden /\ InView(DomainFields[i], u.view)}

\* Faulty variant: the header keeps the hidden fields of the view.
VisibleFieldsUnhidden(u) ==
  Pick(DomainFields, {1, 2} \cup Members(DomainFields, u.view))

VisibleFields(u) == Pick(DomainFields, VisibleIndices(u))

VisibleValues(u) == Pick(DomainFields, VisibleIndices(u))

\* A column for the device after UUID and name.
WithDevice(s) == SubSeq(s, 1, 2) \o <<Device>> \o SubSeq(s, 3, Len(s))

\* What DomainPrintPerInterface gives: all network fields, hidden or not.
PerInterface == Pick(DomainFields, Members(DomainFields, "net"))

\* Faulty variant: two of the three totals columns.
DeviceRowShort(base, view) ==
  SubSeq(base, 1, 2) \o <<Device>> \o
    (IF view = "net" THEN PerInterface
     ELSE SubSeq(base, 3, IF Len(base) >= 5 THEN 4 ELSE 2) \o PerDisk)

\* The row of one interface or disk: unfiltered values after the first
\* columns; a disk row begins with three columns of the totals.
DeviceRow(base, view) ==
  SubSeq(base, 1, 2) \o <<Device>> \o
    (IF view = "net" THEN PerInterface
     ELSE SubSeq(base, 3, IF Len(base) >= 5 THEN 5 ELSE 2) \o PerDisk)

VMs == DOMAIN Devices

\* One row per device, or one row of totals for a VM without any.
RowsOf(d, base, view) ==
  IF Devices[d] = {}
  THEN {[vm |-> d, device |-> "-", values |-> WithDevice(base)]}
  ELSE {[vm |-> d, device |-> e, values |-> DeviceRow(base, view)] : e \in Devices[d]}

ExpandedRows(base, view) == UNION {RowsOf(d, base, view) : d \in VMs}

\* applyHiddenFields: the columns of the expanded header to keep.
KeepIndices(fields, hidden) ==
  {i \in DOMAIN fields : i <= 3 \/ fields[i] \notin hidden}

Expanded(u) == u.view \in {"net", "disk"}

\* The header of the domain table.
Header(u) ==
  IF Expanded(u)
  THEN LET fields == WithDevice(VisibleFields(u))
       IN Pick(fields, KeepIndices(fields, u.hidden))
  ELSE VisibleFields(u)

\* Its rows; those of an expanded view are cut by the indices of the header.
Rows(u) ==
  IF Expanded(u)
  THEN LET keep == KeepIndices(WithDevice(VisibleFields(u)), u.hidden)
       IN {[r EXCEPT !.values = Pick(@, keep \cap DOMAIN @)] :
             r \in ExpandedRows(VisibleValues(u), u.view)}
  ELSE {[vm |-> d, device |-> "-", values |-> VisibleValues(u)] : d \in VMs}

----------------------------------------------------------------------------
(* What is drawn.                                                          *)

HelpPicture == [mode |-> "help"]

\* filterFieldsForSelector
SelectorFields(u) ==
  CASE u.view = "physNet" -> Tail(NetDevFields)
    [] u.view \in DeviceViews \ {"physNet"} -> Tail(DiskDevFields)
    [] OTHER -> Pick(DomainFields, Members(DomainFields, u.view))

\* Faulty variant: the cursor of an empty list is left at -1.
ClampCursorNegative(u) ==
  IF u.cursor < Len(u.available) THEN u.cursor ELSE Len(u.available) - 1

ClampCursor(u) ==
  IF u.cursor < Len(u.available) THEN u.cursor
  ELSE IF u.available = <<>> THEN 0 ELSE Len(u.available) - 1

\* Faulty variant: the window of the list ends one field early.
FirstLineEarly(u) == IF u.cursor >= Lines THEN u.cursor - Lines ELSE 0

\* The first field of the list when it is scrolled to the cursor.
FirstLine(u) == IF u.cursor >= Lines THEN u.cursor - Lines + 1 ELSE 0

SelectorPicture(u) ==
  LET first == FirstLine(u)
      last  == IF first + Lines < Len(u.available)
               THEN first + Lines ELSE Len(u.available)
      lines == SubSeq(u.available, first + 1, last)
  IN [mode |-> "selector", view |-> u.view, lines |-> lines,
      unchecked |-> ToSet(lines) \cap u.hidden,
      highlight |-> {lines[i] : i \in {j \in DOMAIN lines :
                                         first + j = u.cursor + 1}}]

\* A device table: its rows are filtered by the indices of its header, and
\* padded to it; a sort column beyond it means the first.
DeviceTable(u, all) ==
  LET fields == Pick(all, {i \in DOMAIN all : i = 1 \/ all[i] \notin u.hidden})
  IN [mode |-> "devices", view |-> u.view, fields |-> fields,
      human |-> u.human, ascending |-> u.ascending,
      sorted |-> IF u.sortColumn >= Len(fields) THEN 0 ELSE u.sortColumn]

NetDevices(u) == DeviceTable(u, NetDevFields)

\* Physical disks, logical volumes and multipath devices.
DiskDevices(u) == DeviceTable(u, DiskDevFields)

DevicePicture(u) == IF u.view = "physNet" THEN NetDevices(u) ELSE DiskDevices(u)

\* filterHostFieldsByView
HostPanel(u) == Pick(HostFields, Members(HostFields, u.view))

\* sortDomainIDsByField: the rows that have a value to sort by.
ListedRows(rows, column) == {r \in rows : Len(r.values) > column}

DomainPicture(u) ==
  [mode |-> "domains", view |-> u.view, fields |-> Header(u),
   human |-> u.human, ascending |-> u.ascending, sorted |-> u.sortColumn,
   host |-> HostPanel(u), rows |-> ListedRows(Rows(u), u.sortColumn)]

\* Faulty variant: one column past the last is taken for a column.
ClampSortPast(u) ==
  LET columns == Len(Header(u))
  IN IF u.sortColumn > columns THEN columns - 1 ELSE u.sortColumn

ClampSort(u) ==
  LET columns == Len(Header(u))
  IN IF u.sortColumn >= columns THEN columns - 1 ELSE u.sortColumn

----------------------------------------------------------------------------
(* One call of Screen, for each thing it may draw.                         *)

\* What handleInput leaves for the other threads.
Input(k) ==
  /\ paused' = (Pressed(k).help \/ Pressed(k).selector)
  /\ UNCHANGED running

ScreenHelp(k) ==
  LET u == Pressed(k) IN
  /\ u.help
  /\ ui' = [u EXCEPT !.helpDrawn = TRUE]
  /\ terminal' = IF u.helpDrawn THEN terminal ELSE HelpPicture
  /\ Input(k)

ScreenSelector(k) ==
  LET u == [Pressed(k) EXCEPT !.helpDrawn = FALSE]
      v == [u EXCEPT !.available = SelectorFields(u)]
      w == [v EXCEPT !.cursor = ClampCursor(v), !.selectorDrawn = TRUE]
  IN
  /\ ~u.help /\ u.selector
  /\ IF u.selectorDrawn THEN ui' = u /\ UNCHANGED terminal
                        ELSE ui' = w /\ terminal' = SelectorPicture(w)
  /\ Input(k)

\* Neither overlay is shown: the screen is cleared and drawn again.
Uncovered(k) == [Pressed(k) EXCEPT !.helpDrawn = FALSE, !.selectorDrawn = FALSE]

ScreenDevices(k) ==
  LET u == Uncovered(k) IN
  /\ ~u.help /\ ~u.selector /\ u.view \in DeviceViews
  /\ ui' = u /\ terminal' = DevicePicture(u)
  /\ Input(k)

ScreenDomains(k) ==
  LET u == Uncovered(k)
      v == [u EXCEPT !.sortColumn = ClampSort(u)]
  IN
  /\ ~u.help /\ ~u.selector /\ u.view \notin DeviceViews
  /\ ui' = v /\ terminal' = DomainPicture(v)
  /\ Input(k)

Screen ==
  /\ running
  /\ \E k \in Pressable : \/ ScreenHelp(k) \/ ScreenSelector(k)
                          \/ ScreenDevices(k) \/ ScreenDomains(k)

\* goncurses.End() and os.Exit(0).
Quit ==
  /\ running
  /\ \E k \in Keys : Quits(k)
  /\ running' = FALSE /\ terminal' = Blank
  /\ UNCHANGED <<ui, paused>>

Exited == ~running /\ UNCHANGED vars

Next == Screen \/ Quit \/ Exited

Spec == Init /\ [][Next]_vars

----------------------------------------------------------------------------
(* Properties.                                                             *)

Fields == ToSet(DomainFields) \cup ToSet(NetDevFields) \cup ToSet(DiskDevFields)

(* The type invariant of the printer's state.                              *)
TypeOK ==
  /\ ui.view \in Views
  /\ ui.sortColumn \in 0..MaxSort /\ ui.interval \in 1..MaxInterval
  /\ {ui.ascending, ui.human, ui.help, ui.helpDrawn, ui.selector,
      ui.selectorDrawn, paused, running} \subseteq BOOLEAN
  /\ ui.cursor \in 0..Len(DomainFields \o NetDevFields \o DiskDevFields)
  /\ ToSet(ui.available) \subseteq Fields
  /\ ui.hidden \subseteq Fields \cup HiddenByDefault

Picture(u) ==
  CASE u.help -> HelpPicture
    [] ~u.help /\ u.selector -> SelectorPicture(u)
    [] ~u.help /\ ~u.selector /\ u.view \in DeviceViews -> DevicePicture(u)
    [] OTHER -> DomainPicture(u)

(* "Settings changes take effect immediately": although an overlay is only *)
(* drawn when its drawn flag is FALSE, the terminal shows after each call  *)
(* of Screen what the settings, the cursor and the hidden fields now are,  *)
(* and collection is paused exactly while an overlay is what it shows.     *)
TerminalCurrent ==
  terminal # Blank =>
    /\ terminal = Picture(ui)
    /\ paused = (terminal.mode \in {"help", "selector"})

\* The fields whose visibility a step changes.
Flipped == (ui.hidden \ ui'.hidden) \cup (ui'.hidden \ ui.hidden)

(* Without the help overlay, a key that changes the visibility of fields   *)
(* changes that of the one field highlighted on the terminal, and that     *)
(* field belongs to the view.                                              *)
HighlightToggled ==
  [][~ui.help /\ ui'.hidden # ui.hidden =>
       /\ terminal.mode = "selector" /\ Flipped = terminal.highlight
       /\ terminal.view = ui.view /\ Flipped \subseteq ToSet(SelectorFields(ui))]_vars

RowAligned(r) ==
  \A i \in DOMAIN r.values : i \in DOMAIN terminal.fields
                             /\ r.values[i] = terminal.fields[i]

AllAligned == \A r \in terminal.rows : RowAligned(r)

(* In the views that are not expanded per device, every value stands in    *)
(* the column of its field, whichever fields are hidden.                   *)
PlainViewsAligned ==
  terminal.mode = "domains" /\ terminal.view \notin {"net", "disk"} => AllAligned

\* The hidden fields of the view are its last ones, and the disk view keeps
\* all three of the columns its device rows take from the totals, or none.
OnlyTailHidden ==
  LET mine == Members(DomainFields, ui.view)
      seen == {i \in mine : DomainFields[i] \notin ui.hidden}
  IN /\ \A i \in seen, j \in mine : j < i => j \in seen
     /\ ui.view = "disk" => seen = {} \/ Cardinality(seen) >= 3

(* In the views expanded per device, the values stand in the columns of    *)
(* their fields as long as only trailing fields are hidden, as Open does.  *)
TailHiddenAligned ==
  terminal.mode = "domains" /\ OnlyTailHidden => AllAligned

(* Whatever column the rows are sorted by and whatever is hidden, no VM    *)
(* and none of its interfaces is missing outside the disk view.            *)
EveryVMListed ==
  terminal.mode = "domains" /\ terminal.view # "disk" =>
    \A d \in VMs :
      {r.device : r \in {x \in terminal.rows : x.vm = d}} =
        IF terminal.view = "net" /\ Devices[d] # {} THEN Devices[d] ELSE {"-"}

(* What the documentation and the comments say, and the code does not do.  *)

(* "Press Space or Enter to toggle field visibility": the rows stay        *)
(* aligned whatever fields are hidden.                                     *)
DeviceViewsAligned == terminal.mode = "domains" => AllAligned

=============================================================================
