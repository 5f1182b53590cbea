----------------------------- MODULE CellEvents -----------------------------
(***************************************************************************)
(* The cell sinks of samplers/event_sources.cpp and the cell in flight     *)
(* that they keep in LatestCache (diagnostics/latest_cache.cpp), which     *)
(* StutterFlagger::OnFrame puts into every stutter record.                 *)
(*                                                                         *)
(* The game (external) attaches and detaches a cell one reference at a     *)
(* time; a reference may also enter a cell that has long been loaded.      *)
(* Nothing says that it sends both kinds of event on one thread: the sink  *)
(* of TESCellFullyLoadedEvent takes two steps, the other one.  Times are   *)
(* left out: a start is the number of the attach event that set it.        *)
(***************************************************************************)
EXTENDS Naturals, Sequences, SequencesExt, Functions

CONSTANTS
  Cell,           \* the cells
  NameOf,         \* what GetFormEditorID or GetName says of each
  MaxCellEvents   \* bound: events of the game

\* The name of an exterior that has none, and _inFlightCell when cleared.
NoName == ""

Nobody == 0

ASSUME CellAssumption == MaxCellEvents \in Nat /\ Nobody \notin Cell

VARIABLES
  life,          \* each cell in the game
  cellEvents,    \* events so far
  attachStart,   \* attach_start_us: the attach it was set at, 0 where absent
  completing,    \* the cell whose full load is being noted, and its start
  cellInFlight,      \* _inFlightCell
  blamed,        \* in_flight_cell_load of the last stutter
  attachedLast,  \* history: the cell attached last
  completed      \* history: a load of its name has been noted since

cellVars == <<life, cellEvents, attachStart, completing, cellInFlight, blamed,
              attachedLast, completed>>

NotLoading == [cell |-> Nobody, start |-> 0]
Name == {NameOf[c] : c \in Cell} \union {NoName}

CellTypeOK ==
  /\ life \in [Cell -> {"out", "loading", "loaded"}]
  /\ cellEvents \in 0 .. MaxCellEvents
  /\ attachStart \in [Cell -> 0 .. cellEvents]
  /\ completing \in [cell : Cell \union {Nobody}, start : 0 .. cellEvents]
  /\ {cellInFlight, blamed} \subseteq Name
  /\ attachedLast \in Cell \union {Nobody} /\ completed \in BOOLEAN

CellInit ==
  /\ life = [c \in Cell |-> "out"] /\ cellEvents = 0
  /\ attachStart = [c \in Cell |-> 0] /\ completing = NotLoading
  /\ cellInFlight = NoName /\ blamed = NoName
  /\ attachedLast = Nobody /\ completed = FALSE

GameEvent ==
  /\ cellEvents < MaxCellEvents
  /\ cellEvents' = cellEvents + 1

\* Attached: the start and the cell in flight, under the one lock.
CellAttached(c) ==
  /\ GameEvent
  /\ life' = [life EXCEPT ![c] = IF @ = "out" THEN "loading" ELSE @]
  /\ attachStart' = [attachStart EXCEPT ![c] = cellEvents']
  /\ cellInFlight' = NameOf[c]
  /\ attachedLast' = c /\ completed' = FALSE
  /\ UNCHANGED <<completing, blamed>>

\* find and erase, under the lock
TakeStart(c) == attachStart' = [attachStart EXCEPT ![c] = 0]

\* Detached: the record's duration is from the start, or zero without one.
CellDetached(c) ==
  /\ life[c] # "out"
  /\ GameEvent
  /\ life' \in {life, [life EXCEPT ![c] = "out"]}   \* the last reference, or not
  /\ TakeStart(c)
  /\ UNCHANGED <<completing, cellInFlight, blamed, attachedLast, completed>>

\* Fully loaded: the start is looked up, and stays.
FullyLoaded(c) ==
  /\ life[c] = "loading" /\ completing = NotLoading
  /\ GameEvent
  /\ life' = [life EXCEPT ![c] = "loaded"]
  /\ completing' = [cell |-> c, start |-> attachStart[c]]
  /\ UNCHANGED <<attachStart, cellInFlight, blamed, attachedLast, completed>>

\* mutant: the load of any cell clears the one in flight
AfterAnyComplete(name) == NoName

\* What NoteCellAttachComplete leaves in _inFlightCell.
AfterComplete(name) == IF cellInFlight = name THEN NoName ELSE cellInFlight

\* The rest of that sink: the cache is told, and the record submitted.
NoteCellAttachComplete ==
  /\ completing # NotLoading
  /\ cellInFlight' = AfterComplete(NameOf[completing.cell])
  /\ completed' = \/ completed
                  \/ /\ attachedLast # Nobody
                     /\ NameOf[attachedLast] = NameOf[completing.cell]
  /\ completing' = NotLoading
  /\ UNCHANGED <<life, cellEvents, attachStart, blamed, attachedLast>>

\* OnFrame: in_flight_cell_load of a stutter.
StutterBlames ==
  /\ blamed' = cellInFlight
  /\ UNCHANGED <<life, cellEvents, attachStart, completing, cellInFlight,
                 attachedLast, completed>>

CellNext ==
  \/ \E c \in Cell : CellAttached(c) \/ CellDetached(c) \/ FullyLoaded(c)
  \/ NoteCellAttachComplete \/ StutterBlames

CellSpec == CellInit /\ [][CellNext]_cellVars
-----------------------------------------------------------------------------
(* LatestCache: the cell in flight is the one of the last attach, until a  *)
(* cell of that name has loaded: neither the load of another cell nor any  *)
(* detach ends it.  So a cell that is detached before it has loaded stays  *)
(* in flight, and a reference that enters a loaded cell puts it back.      *)
InFlightIsLastAttach ==
  cellInFlight = IF attachedLast = Nobody \/ completed THEN NoName
             ELSE NameOf[attachedLast]

\* What latest_cache.h says of it: a cell named as in flight is loading. Not
\* so, see above; it is not the subject of a run.
InFlightIsLoading ==
  blamed # NoName => \E c \in Cell : NameOf[c] = blamed /\ life[c] = "loading"
=============================================================================
