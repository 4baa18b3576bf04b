------------------------------- MODULE Browser -------------------------------
(***************************************************************************)
(* The interactive views: the render loop of ncda/src/tui/mod.rs, the key  *)
(* handling of input.rs, the rows of flat_view.rs, tree_view.rs and        *)
(* filter.rs, and the process list of process.rs.                          *)
(*                                                                         *)
(* The loop takes the state lock to draw and up to three times more for a  *)
(* key.  Between any two of these the aggregator records operations and    *)
(* forgets processes, so that lists change under the cursor.               *)
(*                                                                         *)
(* One measure, the number of operations, stands for the five that rows    *)
(* can be sorted by.  A process has a row while some node has a breakdown  *)
(* for it (SinksAgree of module Ingest).  A node that has operations of    *)
(* its own is a directory as well once something is recorded below it.     *)
(***************************************************************************)
EXTENDS Naturals, Sequences, SequencesExt, FiniteSetsExt

CONSTANTS
  Nodes,          \* what may be recorded, as sequences of path components
  NameRank,       \* the place of each component in the order of names
  Pids,           \* process ids, numbers from one
  PageHeight,     \* the rows of a page
  Keys,           \* the keys that the user presses
  None,
  MaxRecords,     \* bound: operations recorded since the last reset
  MaxKeys         \* bound: keys pressed

Root == <<>>

Places == Nodes \cup {Root}

Parent(node) == Front(node)

\* The texts of the filter editor, as the terms they are parsed to: none, one
\* pid:N, or what does not parse.
NoFilter == <<>>
Unparsable == <<0>>
Texts == {NoFilter, Unparsable} \cup {<<pid>> : pid \in Pids}

\* What a key asks of the rest of the loop's iteration.
KeyEffects == [navigates : BOOLEAN, switches : BOOLEAN, resets : BOOLEAN, quits : BOOLEAN]

ASSUME BrowserAssumption ==
  /\ IsFiniteSet(Nodes) /\ Nodes \subseteq Seq(DOMAIN NameRank)
  /\ \A node \in Nodes : node # Root /\ \A i \in 1 .. Len(node) : SubSeq(node, 1, i) \in Nodes
  /\ NameRank \in [DOMAIN NameRank -> Nat] /\ IsInjective(NameRank)
  /\ IsFiniteSet(Pids) /\ Pids \subseteq Nat \ {0}
  /\ PageHeight \in Nat \ {0}
  /\ None \notin Nodes /\ None \notin Pids /\ None \notin Texts /\ None \notin KeyEffects
  /\ MaxRecords \in Nat /\ MaxKeys \in Nat

VARIABLES
  store,          \* AppState: the operations of each node itself, and per process
  ui,             \* what the loop does next
  view,           \* ViewState
  selected,       \* selected_file_path
  pending,        \* the key in hand, after it was handled
  presses,        \* how many keys were pressed
  kept            \* history: the file that the user chose, while it stays listed

uiVars == <<ui, view, selected, pending, presses>>
vars == <<store, uiVars, kept>>

--------------------------------------------------------------------------------
\* What is listed.

MatchesActivity(filter, pid) == \A i \in DOMAIN filter : filter[i] = pid

\* The node and what is below it.
Below(place) == {node \in Nodes : IsPrefix(place, node)}

\* The breakdowns of the node itself that match.
OwnStats(s, node, filter) ==
  SumFunctionOnSet(s.byProcess[node], {pid \in Pids : MatchesActivity(filter, pid)})

AggregateStats(s, node) == SumFunctionOnSet(s.recorded, Below(node))

Exists(s, node) == \E path \in Below(node) : s.recorded[path] > 0

\* Something is recorded below the node.
IsDir(s, node) == \E path \in Below(node) : path # node /\ s.recorded[path] > 0

Directories(s) == {node \in Nodes : IsDir(s, node)}

\* agg_stats, or the breakdowns that match, which a directory would not count of
\* its own.
FilteredLeafStats(s, node, filter) ==
  IF filter = NoFilter THEN AggregateStats(s, node)
  ELSE SumFunctionOnSet([path \in Nodes |-> OwnStats(s, path, filter)],
                        {path \in Below(node) : ~IsDir(s, path)})

\* agg_stats, or the breakdowns that match, of the node and what is below it.
FilteredStats(s, node, filter) ==
  IF filter = NoFilter THEN AggregateStats(s, node)
  ELSE SumFunctionOnSet([path \in Nodes |-> OwnStats(s, path, filter)], Below(node))

Children(s, dir, filter) ==
  {node \in Nodes : /\ Parent(node) = dir
                    /\ Exists(s, node)
                    /\ filter = NoFilter \/ FilteredStats(s, node, filter) > 0}

\* The set in the order of the pairs.
Sorted(S, order) ==
  CHOOSE s \in SetToSeqs(S) : \A i, j \in DOMAIN s : i < j => <<s[i], s[j]>> \in order

\* a is before b by an ascending order, or by its reverse; names decide ties.
Precedes(less, more, descending, tie) ==
  IF less = more THEN tie ELSE (less < more) # descending

RowOrder(s, nodes, sortBy, descending, filter) ==
  LET stats == [node \in nodes |-> FilteredStats(s, node, filter)]
      ByName(a, b) == NameRank[Last(a)] < NameRank[Last(b)]
  IN  {p \in nodes \X nodes :
         IF sortBy = "Name" THEN ByName(p[1], p[2]) # descending
         ELSE Precedes(stats[p[1]], stats[p[2]], descending, ByName(p[1], p[2]))}

SortedChildren(s, v, dir) ==
  LET children == Children(s, dir, v.filter)
  IN  Sorted(children, RowOrder(s, children, v.sortBy, v.sortDesc, v.filter))

\* Each directory that is expanded is followed by what is below it; nothing is
\* below another node.
LinesOf(children, expanded) ==
  LET lines[place \in Places] ==
        LET nodes == children[place]
        IN  FlattenSeq([i \in DOMAIN nodes |->
              <<nodes[i]>> \o (IF nodes[i] \in expanded THEN lines[nodes[i]] ELSE <<>>)])
  IN  lines[Root]

TreeLines(s, v) == LinesOf([place \in Places |-> SortedChildren(s, v, place)], v.expanded)

Rows(s, v) == IF v.mode = "Flat" THEN SortedChildren(s, v, v.cwd) ELSE TreeLines(s, v)

ProcessStats(s, pid) == SumFunctionOnSet([node \in Nodes |-> s.byProcess[node][pid]], Nodes)

ProcessOrder(s, pids, sortBy, descending) ==
  LET stats == [pid \in pids |-> ProcessStats(s, pid)]
  IN  {p \in pids \X pids :
         IF sortBy = "Pid" THEN (p[1] < p[2]) # descending
         ELSE Precedes(stats[p[1]], stats[p[2]], descending, p[1] < p[2])}

\* matching_pids, in the order of ProcessTable::sorted.
VisibleProcesses(s, v) ==
  LET pids == {pid \in Pids : ProcessStats(s, pid) > 0 /\ MatchesActivity(v.filter, pid)}
  IN  Sorted(pids, ProcessOrder(s, pids, v.processSort, v.processSortDesc))

\* The row under a cursor that counts from zero.
At(rows, cursor) == IF cursor < Len(rows) THEN rows[cursor + 1] ELSE None

IndexIn(rows, row) == (CHOOSE i \in DOMAIN rows : rows[i] = row) - 1

--------------------------------------------------------------------------------
\* Selections and lists that change.

AtMost(cursor, rows) == IF cursor < Len(rows) THEN cursor ELSE Len(rows) - 1

\* A selection that stays in its place in the list.
ReconcileFilesByPlace(s, v, path) ==
  LET rows == Rows(s, v)
  IN  IF rows = <<>> THEN [view |-> [v EXCEPT !.cursor = 0], selected |-> None]
      ELSE [view |-> [v EXCEPT !.cursor = AtMost(v.cursor, rows)],
            selected |-> rows[AtMost(v.cursor, rows) + 1]]

\* reconcile_file_selection.
ReconcileFiles(s, v, path) ==
  LET rows == Rows(s, v)
  IN  IF path \in Range(rows)
      THEN [view |-> [v EXCEPT !.cursor = IndexIn(rows, path)], selected |-> path]
      ELSE ReconcileFilesByPlace(s, v, path)

\* A process list whose cursor stays in its place.
ReconcileProcessesByPlace(v, pids) ==
  IF pids = <<>> THEN [v EXCEPT !.processCursor = 0, !.selectedProcess = None]
  ELSE [v EXCEPT !.processCursor = AtMost(@, pids),
                 !.selectedProcess = pids[AtMost(v.processCursor, pids) + 1]]

\* ViewState::reconcile_process_selection.
ReconcileProcesses(v, pids) ==
  IF v.selectedProcess \in Range(pids)
  THEN [v EXCEPT !.processCursor = IndexIn(pids, v.selectedProcess)]
  ELSE ReconcileProcessesByPlace(v, pids)

--------------------------------------------------------------------------------
\* Keys.

Enterings == {"Enter", "Right"}

FileNavigation ==
  Enterings \cup {"Up", "Down", "Home", "End", "PageUp", "PageDown", "Left", "Backspace"}

Characters == {"q", "r", "s", "S", "p", "P", "/", "?"}

ASSUME KeysAssumption == Keys \subseteq FileNavigation \cup Characters \cup {"Tab", "Esc"}

\* Where the keys that move a cursor take it in a list.
Move(key, cursor, rows) ==
  LET last == IF rows = <<>> THEN 0 ELSE Len(rows) - 1
  IN  CASE key = "Up" -> IF cursor > 0 THEN cursor - 1 ELSE 0
        [] key = "Down" -> IF cursor < last THEN cursor + 1 ELSE cursor
        [] key = "Home" -> 0
        [] key = "End" -> last
        [] key = "PageUp" -> IF cursor > PageHeight THEN cursor - PageHeight ELSE 0
        [] key = "PageDown" -> Min({cursor + PageHeight, last})

Moves == {"Up", "Down", "Home", "End", "PageUp", "PageDown"}

\* Esc, the one global key that depends on where the focus is.
Escape(v) ==
  IF v.filterInput # None THEN [v EXCEPT !.filterInput = None, !.filterError = FALSE]
  ELSE IF v.focus = "Processes" THEN [v EXCEPT !.focus = "Files"]
  ELSE [v EXCEPT !.filter = NoFilter, !.filterError = FALSE, !.cursor = 0]

SwitchMode(v) ==
  [v EXCEPT !.mode = IF @ = "Flat" THEN "Tree" ELSE "Flat", !.cursor = 0]

\* handle_filter_input; editing may lead to any text.
EditFilter(key, text, v) ==
  CASE key = "Enter" ->
         IF v.filterInput = Unparsable THEN [v EXCEPT !.filterError = TRUE]
         ELSE [v EXCEPT !.filter = v.filterInput, !.filterInput = None,
                        !.filterError = FALSE, !.cursor = 0]
    [] key \in Characters \cup {"Backspace"} ->
         [v EXCEPT !.filterInput = text, !.filterError = FALSE]
    [] OTHER -> v

OpenEditor(v) == [v EXCEPT !.filterInput = v.filter, !.filterError = FALSE]

\* A pane that is hidden and keeps the focus.
HidePaneOnly(v) == [v EXCEPT !.showProcesses = FALSE]

HidePane(v) == [v EXCEPT !.showProcesses = FALSE, !.focus = "Files"]

\* What a key does in the process pane, but for the selection that follows it.
InProcessPane(key, v, pids) ==
  CASE key \in Moves -> [v EXCEPT !.processCursor = Move(key, @, pids)]
    [] key = "Enter" /\ At(pids, v.processCursor) # None ->
         [v EXCEPT !.filter = <<At(pids, v.processCursor)>>, !.cursor = 0, !.focus = "Files"]
    [] key = "P" -> [v EXCEPT !.focus = "Files"]
    [] key = "p" -> HidePane(v)
    [] key = "s" -> [v EXCEPT !.processSort = IF @ = "Pid" THEN "TotalBytes" ELSE "Pid"]
    [] key = "S" -> [v EXCEPT !.processSortDesc = ~@]
    [] key = "/" -> OpenEditor(v)
    [] key = "?" -> [v EXCEPT !.showHelp = TRUE]
    [] OTHER -> v

\* handle_process_key.
HandleProcessKey(key, v, pids) ==
  LET after == InProcessPane(key, v, pids)
  IN  [after EXCEPT !.selectedProcess = At(pids, after.processCursor)]

\* Enter on a directory of the tree expands or collapses it.
ToggleLine(v, line, dirs) ==
  IF line \notin dirs THEN v
  ELSE [v EXCEPT !.expanded = IF line \in @ THEN @ \ {line} ELSE @ \cup {line}]

\* Left in the tree collapses a directory or goes to the parent.
LeaveLine(v, lines, line, dirs) ==
  IF line \in dirs \cap v.expanded THEN [v EXCEPT !.expanded = @ \ {line}]
  ELSE IF Parent(line) # Root THEN [v EXCEPT !.cursor = IndexIn(lines, Parent(line))]
  ELSE v

GoUp(v) == IF v.cwd = Root THEN v ELSE [v EXCEPT !.cwd = Parent(@), !.cursor = 0]

ToggleProcesses(v) == IF v.showProcesses THEN HidePane(v) ELSE [v EXCEPT !.showProcesses = TRUE]

\* The other keys, while the files have the focus.
HandleFileKey(key, v, rows, dirs, pids) ==
  LET line == At(rows, v.cursor)
  IN  CASE key \in Moves -> [v EXCEPT !.cursor = Move(key, @, rows)]
        [] key \in Enterings -> IF v.mode = "Tree" /\ line # None THEN ToggleLine(v, line, dirs) ELSE v
        [] key \in {"Left", "Backspace"} ->
             IF v.mode = "Flat" THEN GoUp(v)
             ELSE IF line # None THEN LeaveLine(v, rows, line, dirs) ELSE v
        [] key = "s" -> [v EXCEPT !.sortBy = IF @ = "Name" THEN "TotalBytes" ELSE "Name"]
        [] key = "S" -> [v EXCEPT !.sortDesc = ~@]
        [] key = "/" -> OpenEditor(v)
        [] key = "p" -> ToggleProcesses(v)
        [] key = "P" -> ReconcileProcesses([v EXCEPT !.showProcesses = TRUE,
                                                     !.focus = "Processes"], pids)
        [] key = "?" -> [v EXCEPT !.showHelp = TRUE]

\* handle_key_with_page_height, but for quitting and resetting.
HandleKey(key, text, v, rows, dirs, pids) ==
  IF v.showHelp THEN [v EXCEPT !.showHelp = FALSE]
  ELSE CASE key \in {"q", "r"} -> v
         [] key = "Tab" -> SwitchMode(v)
         [] key = "Esc" -> Escape(v)
         [] OTHER ->
              IF v.filterInput # None THEN EditFilter(key, text, v)
              ELSE IF v.focus = "Processes" THEN HandleProcessKey(key, v, pids)
              ELSE HandleFileKey(key, v, rows, dirs, pids)

--------------------------------------------------------------------------------
\* The aggregator.

NothingRecorded ==
  [recorded |-> [node \in Nodes |-> 0],
   byProcess |-> [node \in Nodes |-> [pid \in Pids |-> 0]]]

\* The file that the user chose is forgotten once it is not listed.
Follow == kept' = IF kept # None /\ kept \in Range(Rows(store', view')) THEN kept ELSE None

\* AppState::ingest records an operation.
Record(node, pid) ==
  /\ ui # "ended" /\ FilteredStats(store, Root, NoFilter) < MaxRecords
  /\ store' = [store EXCEPT !.recorded[node] = @ + 1, !.byProcess[node][pid] = @ + 1]
  /\ UNCHANGED uiVars
  /\ Follow

\* A process ends or executes another program.
RemoveProcess(pid) ==
  /\ ui # "ended" /\ ProcessStats(store, pid) > 0
  /\ store' = [store EXCEPT !.byProcess = [node \in Nodes |-> [@[node] EXCEPT ![pid] = 0]]]
  /\ UNCHANGED uiVars
  /\ Follow

--------------------------------------------------------------------------------
\* The loop of run_with_shutdown.

ObserveShutdown ==
  /\ ui = "draw"
  /\ ui' = "ended"
  /\ UNCHANGED <<store, view, selected, pending, presses, kept>>

\* A frame of the selection as it was.
DrawAsIs ==
  /\ ui = "draw"
  /\ ui' = "poll"
  /\ UNCHANGED <<store, view, selected, pending, presses, kept>>

\* Under the lock: reconcile the selection and draw.
Draw ==
  /\ ui = "draw"
  /\ ui' = "poll"
  /\ LET reconciled == ReconcileFiles(store, view, selected)
     IN  view' = reconciled.view /\ selected' = reconciled.selected
  /\ UNCHANGED <<store, pending, presses, kept>>

\* No key within 250 ms.
Timeout ==
  /\ ui = "poll"
  /\ ui' = "draw"
  /\ UNCHANGED <<store, view, selected, pending, presses, kept>>

Drills(key) ==
  /\ key \in Enterings
  /\ ~view.showHelp
  /\ view.mode = "Flat" /\ view.focus = "Files" /\ view.filterInput = None

\* Enter on a row of the flat view, under one lock.
DrillIn(key) ==
  /\ ui = "poll" /\ presses < MaxKeys
  /\ Drills(key)
  /\ LET row == At(Rows(store, view), view.cursor)
         inside == [view EXCEPT !.cwd = row, !.cursor = 0]
     IN  IF row # None /\ IsDir(store, row)
         THEN /\ view' = inside
              /\ selected' = At(Rows(store, inside), 0)
              /\ kept' = selected'
         ELSE UNCHANGED <<view, selected, kept>>
  /\ ui' = "draw"
  /\ presses' = presses + 1
  /\ UNCHANGED <<store, pending>>

\* The texts that a key may leave in the editor, if it is open.
Edits == IF view.filterInput = None THEN {NoFilter} ELSE Texts

\* Any other key: the lists are taken under the lock, and the key is handled.
PressKey ==
  /\ ui = "poll" /\ presses < MaxKeys
  /\ LET rows == Rows(store, view)
         pids == VisibleProcesses(store, view)
         before == ReconcileProcesses(view, pids)
     IN  \E key \in Keys, text \in Edits :
           /\ ~Drills(key)
           /\ view' = HandleKey(key, text, before, rows, Directories(store), pids)
           /\ pending' = [navigates |-> /\ view.focus = "Files" /\ view.filterInput = None
                                        /\ key \in FileNavigation,
                          switches |-> view'.mode # view.mode,
                          resets |-> key = "r" /\ ~view.showHelp,
                          quits |-> key = "q" /\ ~view.showHelp]
  /\ ui' = "update"
  /\ presses' = presses + 1
  /\ UNCHANGED <<store, selected>>
  /\ Follow

\* r: AppState::reset.
ResetCounters ==
  /\ ui = "update" /\ pending.resets
  /\ store' = NothingRecorded
  /\ view' = [view EXCEPT !.cursor = 0]
  /\ selected' = None
  /\ kept' = None
  /\ ui' = "processes"
  /\ UNCHANGED <<pending, presses>>

\* The selection is what the cursor came to.
SelectAtCursor ==
  /\ ui = "update" /\ ~pending.resets /\ pending.navigates
  /\ selected' = At(Rows(store, view), view.cursor)
  /\ kept' = selected'
  /\ ui' = "processes"
  /\ UNCHANGED <<store, view, pending, presses>>

\* Any other key keeps the selection, unless it changed the mode.
KeepSelection ==
  /\ ui = "update" /\ ~pending.resets /\ ~pending.navigates
  /\ LET reconciled == ReconcileFiles(store, view, IF pending.switches THEN None ELSE selected)
     IN  view' = reconciled.view /\ selected' = reconciled.selected
  /\ kept' = IF pending.switches THEN None ELSE kept
  /\ ui' = "processes"
  /\ UNCHANGED <<store, pending, presses>>

\* The third lock of a key, and the end of the loop.
UpdateProcesses ==
  /\ ui = "processes"
  /\ view' = ReconcileProcesses(view, VisibleProcesses(store, view))
  /\ ui' = IF pending.quits THEN "ended" ELSE "draw"
  /\ pending' = None
  /\ UNCHANGED <<store, selected, presses, kept>>

--------------------------------------------------------------------------------

\* ViewState::new, over whatever was recorded before the view starts.
NewViewState ==
  [mode |-> "Flat", cwd |-> Root, cursor |-> 0, expanded |-> {},
   sortBy |-> "TotalBytes", sortDesc |-> TRUE, showProcesses |-> FALSE,
   focus |-> "Files", processCursor |-> 0, selectedProcess |-> None,
   processSort |-> "TotalBytes", processSortDesc |-> TRUE, showHelp |-> FALSE,
   filter |-> NoFilter, filterInput |-> None, filterError |-> FALSE]

Init ==
  /\ store = NothingRecorded
  /\ ui = "draw"
  /\ view = NewViewState
  /\ selected = None
  /\ pending = None
  /\ presses = 0
  /\ kept = None

Next ==
  \/ \E node \in Nodes, pid \in Pids : Record(node, pid)
  \/ \E pid \in Pids : RemoveProcess(pid)
  \/ ObserveShutdown
  \/ Draw
  \/ Timeout
  \/ \E key \in Keys : DrillIn(key)
  \/ PressKey
  \/ ResetCounters
  \/ SelectAtCursor
  \/ KeepSelection
  \/ UpdateProcesses

Spec == Init /\ [][Next]_vars

--------------------------------------------------------------------------------

ViewStates ==
  [mode : {"Flat", "Tree"}, cwd : Places, cursor : 0 .. Cardinality(Nodes),
   expanded : SUBSET Nodes, sortBy : {"TotalBytes", "Name"}, sortDesc : BOOLEAN,
   showProcesses : BOOLEAN, focus : {"Files", "Processes"},
   processCursor : 0 .. Cardinality(Pids), selectedProcess : Pids \cup {None},
   processSort : {"TotalBytes", "Pid"}, processSortDesc : BOOLEAN, showHelp : BOOLEAN,
   filter : Texts \ {Unparsable}, filterInput : Texts \cup {None}, filterError : BOOLEAN]

\* Type invariant: the focus is on a pane that shows, and an error is of the text
\* that stands in the editor.
TypeOK ==
  /\ store \in [recorded : [Nodes -> 0 .. MaxRecords], byProcess : [Nodes -> [Pids -> Nat]]]
  /\ \A node \in Nodes, pid \in Pids : store.byProcess[node][pid] <= store.recorded[node]
  /\ ui \in {"draw", "poll", "update", "processes", "ended"}
  /\ view \in ViewStates
  /\ view.focus = "Processes" => view.showProcesses
  /\ view.filterError => view.filterInput = Unparsable
  /\ selected \in Nodes \cup {None}
  /\ kept \in Nodes \cup {None}
  /\ pending \in KeyEffects \cup {None}
  /\ (pending # None) = (ui \in {"update", "processes"})
  /\ presses \in 0 .. MaxKeys

\* "Reconcile by path before every render so a live re-sort does not silently move
\* the selection to another file": the file a user went to stays the selected one
\* for as long as it is listed, whatever is recorded and forgotten meanwhile and
\* whichever other keys re-sort, filter and cover the list.
SelectionFollowsFile == ui = "poll" /\ kept # None => selected = kept

\* The highlighted row is the one that is selected, whenever a frame is drawn.
FileHighlightIsSelection ==
  [][ui = "draw" /\ ui' = "poll" => At(Rows(store', view'), view'.cursor) = selected']_vars

\* A filter set from the process pane is that of the selected process, wherever
\* the list has it by now, unless it is not listed any more.
EnterFiltersSelectedProcess ==
  [][(/\ ui = "poll" /\ view.focus = "Processes" /\ view.filterInput = None
      /\ view'.filter # view.filter
      /\ view.selectedProcess \in Range(VisibleProcesses(store, view)))
       => view'.filter = <<view.selectedProcess>>]_vars

\* A filter hides no activity that matches it, be it of a file, of a directory that
\* was opened, or of a path that became a directory later: whatever it matches is
\* reached through rows that are listed, from the root down, and every row on the
\* way but the last is one of a directory, which Enter goes into.
FilterHidesNoMatch ==
  \A node \in Nodes, pid \in Pids :
    store.byProcess[node][pid] > 0 /\ MatchesActivity(view.filter, pid) =>
      \A i \in 1 .. Len(node) :
        /\ SubSeq(node, 1, i) \in Children(store, SubSeq(node, 1, i - 1), view.filter)
        /\ i < Len(node) => IsDir(store, SubSeq(node, 1, i))

\* " Enter      Filter selected process": the process that the pane highlights is
\* the selected one, which Enter filters, as long as that one is listed.
ProcessHighlightIsSelection ==
  [][ui = "draw" /\ ui' = "poll" /\ view.focus = "Processes" =>
       LET pids == VisibleProcesses(store', view')
       IN  view'.selectedProcess \in Range(pids) =>
             At(pids, view'.processCursor) = view'.selectedProcess]_vars
=============================================================================
