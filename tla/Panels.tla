------------------------------- MODULE Panels -------------------------------
(***************************************************************************)
(* What the viewer's panels keep from frame to frame (the static states of *)
(* App::DrawUi, viewer/src/app.cpp) and draw from the store: the list of   *)
(* stutters with its details, the pie of the scripts, the playhead.  The   *)
(* store is drained, drawn and cleared on the one UI thread; a menu may    *)
(* replace the source, and the panels are not told.                        *)
(***************************************************************************)
EXTENDS TelemetryStore

CONSTANTS
  Diets,       \* bound: which types the sources of one behaviour deliver
  MaxSlices,   \* kMaxSlices
  MaxOpens     \* bound: sources opened

ASSUME PanelsAssumption == {MaxSlices, MaxOpens} \subseteq Nat \ {0}

VARIABLES
  diet,        \* the types this behaviour's sources deliver
  opened,      \* sources opened so far
  replaying,   \* the source is a file being replayed
  sort,        \* sort_col and sort_desc of the stutter panel
  selected,    \* selected_index, counted from one; 0 for -1
  jumpTo,      \* jump_to_t, or 0
  pie,         \* pie_cumulative
  playhead,    \* playhead_t, or 0
  latched,     \* initialized
  clicked,     \* history: the stutter last clicked
  shifted,     \* history: a stutter dropped, or all cleared, since then
  observed,    \* history: the time of named scripts since Clear or Reset
  latchedFor   \* history: the source whose time the playhead was set to

stutterVars == <<sort, selected, jumpTo, clicked, shifted>>
pieVars     == <<pie, observed>>
timeVars    == <<playhead, latched, latchedFor>>
panelVars   == <<store, diet, opened, replaying, stutterVars, pieVars, timeVars>>

Column == {"time", "frame ms", "x p50"}

PanelsTypeOK ==
  /\ StoreTypeOK
  /\ diet \in Diets
  /\ opened \in 1 .. MaxOpens /\ latchedFor \in 0 .. opened
  /\ {replaying, pie, latched, shifted} \subseteq BOOLEAN
  /\ sort \in [col : Column, desc : BOOLEAN]
  /\ selected \in 0 .. RingCap
  /\ {jumpTo, playhead, observed} \subseteq Nat
  /\ clicked \in Rec \union {NoRecord}

\* Run has opened the first source.
PanelsInit ==
  /\ store = EmptyStore /\ diet \in Diets
  /\ opened = 1 /\ replaying \in BOOLEAN
  /\ sort = [col |-> "frame ms", desc |-> TRUE]
  /\ selected = 0 /\ jumpTo = 0 /\ clicked = NoRecord /\ shifted = FALSE
  /\ pie = TRUE /\ observed = 0
  /\ playhead = 0 /\ latched = FALSE /\ latchedFor = 0

-----------------------------------------------------------------------------
Stutters == store.rings["event.stutter"]

\* Drain: one record. A whole file may be drained before a frame is drawn, or
\* a part of it.
IngestOne(r) ==
  /\ TypeOf[r] \in diet /\ store.total < MaxIngested
  /\ Ingest(r)
  /\ shifted' = \/ shifted
                \/ /\ TypeOf[r] = "event.stutter"
                   /\ Len(Stutters) = RingCap
  /\ observed' = IF TypeOf[r] = "papyrus.top" THEN observed + TimeIn(r, Named(r)) ELSE observed
  /\ UNCHANGED <<diet, opened, replaying, sort, selected, jumpTo, clicked, pie, timeVars>>

\* OpenLivePipe, OpenReplayFile: the store is cleared, the panels are not.
OpenSource ==
  /\ opened < MaxOpens
  /\ opened' = opened + 1 /\ replaying' \in BOOLEAN
  /\ Clear
  /\ shifted' = TRUE /\ observed' = 0
  /\ UNCHANGED <<diet, sort, selected, jumpTo, clicked, pie, timeVars>>

-----------------------------------------------------------------------------
(* The stutter panel.                                                      *)

SortBy(spec) ==
  /\ sort' = spec
  /\ UNCHANGED <<store, diet, opened, replaying, selected, jumpTo, clicked, shifted,
                 pieVars, timeVars>>

Key(r) == CASE sort.col = "time"     -> TimeOf[r]
            [] sort.col = "frame ms" -> SizeOf[r]
            [] sort.col = "x p50"    -> RatioOf[r]

\* std::sort, not a stable one, of the indices: any order among equals.
Listings ==
  {idx \in [DOMAIN Stutters -> DOMAIN Stutters] :
     /\ IsInjective(idx)
     /\ \A i, j \in DOMAIN idx : i < j =>
          IF sort.desc THEN Key(Stutters[idx[i]]) >= Key(Stutters[idx[j]])
                       ELSE Key(Stutters[idx[i]]) <= Key(Stutters[idx[j]])}

RowChosen(idx, row) == row        \* mutant: the row for the stutter in it
Chosen(idx, row)    == idx[row]

\* A click on a row that shows a stutter.
Click ==
  /\ \E idx \in Listings : \E row \in DOMAIN idx :
       /\ selected' = Chosen(idx, row)
       /\ jumpTo' = TimeOf[Stutters[idx[row]]]
       /\ clicked' = Stutters[idx[row]]
  /\ shifted' = FALSE
  /\ UNCHANGED <<store, diet, opened, replaying, sort, pieVars, timeVars>>

Details == IF selected \in DOMAIN Stutters THEN Stutters[selected] ELSE NoRecord

-----------------------------------------------------------------------------
(* The Papyrus panel.                                                      *)

\* The times in hot_scripts.
HotTimes ==
  IF store.last["papyrus.top"] = NoRecord THEN <<>> ELSE RowTimes(store.last["papyrus.top"])

\* Without script times the panel says so, and ends before the buttons.
AnyTimes == HotTimes # <<>> \/ DOMAIN store.cumulative # {}

ChoosePie ==
  /\ AnyTimes
  /\ pie' = ~pie
  /\ UNCHANGED <<store, diet, opened, replaying, stutterVars, observed, timeVars>>

ResetPie ==
  /\ AnyTimes /\ pie
  /\ ResetPapyrusCumulative
  /\ observed' = 0
  /\ UNCHANGED <<diet, opened, replaying, stutterVars, pie, timeVars>>

PieRows == IF pie THEN store.cumulative ELSE HotTimes

\* std::partial_sort: the rows before cutEnd, any of those that are equal.
Cuts(rows) ==
  {top \in SUBSET DOMAIN rows :
     /\ Cardinality(top) = Min({MaxSlices, Cardinality(DOMAIN rows)})
     /\ \A i \in top, j \in DOMAIN rows \ top : rows[i] >= rows[j]}

OtherPastOne(rows, top) ==   \* mutant: the loop for "(other)" starts one late
  LET rest == DOMAIN rows \ top
      late == IF rest = {} THEN {} ELSE rest \ {CHOOSE i \in rest : TRUE}
  IN  [rows |-> {i \in top : rows[i] > 0}, other |-> SumFunctionOnSet(rows, late)]

\* DrawTopPie: a slice for each of them that took a time, and "(other)" for all
\* the others; none if that is zero.
Slices(rows, top) ==
  [rows  |-> {i \in top : rows[i] > 0},
   other |-> SumFunctionOnSet(rows, DOMAIN rows \ top)]

-----------------------------------------------------------------------------
(* The timeline.                                                           *)

FrameTimes == [i \in DOMAIN store.rings["frame"] |-> TimeOf[store.rings["frame"][i]]]

\* Draw, of the first frame in which there is a file's time to show.
LatchPlayhead ==
  /\ FrameTimes # <<>> /\ replaying /\ ~latched
  /\ playhead' = Last(FrameTimes)
  /\ latched' = TRUE /\ latchedFor' = opened
  /\ UNCHANGED <<store, diet, opened, replaying, stutterVars, pieVars>>

\* The slider, and its button.
MovePlayhead ==
  /\ FrameTimes # <<>> /\ replaying /\ playhead # 0
  /\ playhead' \in Head(FrameTimes) .. Last(FrameTimes)
  /\ latchedFor' = opened
  /\ UNCHANGED <<store, diet, opened, replaying, stutterVars, pieVars, latched>>

PanelsNext ==
  \/ \E r \in Rec : IngestOne(r)
  \/ OpenSource
  \/ \E spec \in [col : Column, desc : BOOLEAN] : SortBy(spec)
  \/ Click \/ ChoosePie \/ ResetPie \/ LatchPlayhead \/ MovePlayhead

PanelsSpec == PanelsInit /\ [][PanelsNext]_panelVars
-----------------------------------------------------------------------------
(* stutter_panel::Draw: whatever has arrived since, and however the list   *)
(* has been sorted, the details are those of the stutter that was clicked. *)
(* Only when the ring has dropped one since, or the source was replaced,   *)
(* does the same index mean another.                                       *)
DetailsAreClicked ==
  clicked # NoRecord /\ ~shifted => Details = clicked /\ jumpTo = TimeOf[clicked]

(* DrawTopPie ("so the pie always sums to 100% of observed Papyrus work"): *)
(* the slices sum to the time of all scripts, in the last window or, when  *)
(* cumulative, of all windows since the source was opened or Reset.        *)
PieIsWhole ==
  \A top \in Cuts(PieRows) :
    LET slices == Slices(PieRows, top)
    IN  SumFunctionOnSet(PieRows, slices.rows) + slices.other =
          IF pie THEN observed ELSE SumFunction(HotTimes)

(* timeline_panel.h, of `initialized`: "reset on file change". It is not:  *)
(* the playhead of one recording is kept for the next.                     *)
PlayheadOfFile == latched /\ replaying /\ FrameTimes # <<>> => latchedFor = opened
=============================================================================
