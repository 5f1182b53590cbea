--------------------------- MODULE TelemetryStore ---------------------------
(***************************************************************************)
(* The viewer's store (viewer/src/state/telemetry_store.cpp): what Ingest  *)
(* keeps of each type of record, and Clear.  Only the UI thread uses it.   *)
(*                                                                         *)
(* A record is a number; what the panels look at in it is given by         *)
(* functions.  A field that is missing reads as zero.                      *)
(***************************************************************************)
EXTENDS Naturals, Sequences, SequencesExt, FiniteSetsExt, Functions

CONSTANTS
  Rec,           \* the records a source may deliver
  TypeOf,        \* of a record: its type
  TimeOf,        \* its time, which is none for a plugins record
  SizeOf,        \* frame_ms or dt_ms
  RatioOf,       \* of a stutter
  ScriptsOf,     \* of a papyrus.top: a sequence of <<name, us_window>>
  RingCap,       \* kFrameRing and the like
  MaxIngested    \* bound: records ingested since Clear

\* The types of which there is a last sample, and those that have a ring.
\* "event" stands for every event but the stutter, "ack" for the one of
\* save_session with a path. Any other type is only counted.
LatestType == {"hello", "heartbeat", "frame", "cpu_breakdown", "memory",
               "memory_pressure", "state", "papyrus.snapshot", "papyrus.top",
               "plugins", "ack"}
RingType   == {"frame", "cpu_breakdown", "memory", "memory_pressure",
               "event", "event.stutter"}

\* A script without a name.
Unnamed == ""
NoRecord == 0

ASSUME StoreAssumption ==
  /\ NoRecord \notin Rec /\ RingCap \in Nat \ {0} /\ MaxIngested \in Nat
  /\ {TimeOf, SizeOf, RatioOf} \subseteq [Rec -> Nat]
  /\ ScriptsOf \in [Rec -> Seq(STRING \X Nat)]

VARIABLE
  store        \* _store (see StoreTypeOK)

\* Of papyrus_cumulative_us: the names in it, each with its microseconds.
StoreTypeOK ==
  /\ store = [last |-> store.last, rings |-> store.rings,
              cumulative |-> store.cumulative, total |-> store.total]
  /\ store.last \in [LatestType -> Rec \union {NoRecord}]
  /\ store.rings \in [RingType -> Seq(Rec)]
  /\ DOMAIN store.cumulative \subseteq STRING \ {Unnamed}
  /\ IsFiniteSet(DOMAIN store.cumulative)
  /\ store.cumulative \in [DOMAIN store.cumulative -> Nat]
  /\ store.total \in Nat

EmptyStore ==
  [last |-> [k \in LatestType |-> NoRecord],
   rings |-> [k \in RingType |-> <<>>],
   cumulative |-> <<>>,
   total |-> 0]

-----------------------------------------------------------------------------
\* The rows of a papyrus.top: their microseconds, and where a name is.
RowTimes(r) == [i \in DOMAIN ScriptsOf[r] |-> ScriptsOf[r][i][2]]
RowsOf(r, names) == {i \in DOMAIN ScriptsOf[r] : ScriptsOf[r][i][1] \in names}

Named(r) == {ScriptsOf[r][i][1] : i \in DOMAIN ScriptsOf[r]} \ {Unnamed}
TimeIn(r, names) == SumFunctionOnSet(RowTimes(r), RowsOf(r, names))

PushCapped(ring, r) ==
  LET longer == Append(ring, r)
  IN  IF Len(longer) > RingCap THEN Tail(longer) ELSE longer

\* mutant: the window takes the place of the sum
CumulateLast(cumulative, r) ==
  [s \in DOMAIN cumulative \union Named(r) |-> TimeIn(r, {s})]

\* papyrus_cumulative_us, of named scripts.
Cumulate(cumulative, r) ==
  [s \in DOMAIN cumulative \union Named(r) |->
     TimeIn(r, {s}) + IF s \in DOMAIN cumulative THEN cumulative[s] ELSE 0]

Ingest(r) ==
  LET t == TypeOf[r]
  IN  store' = [store EXCEPT
        !.total = @ + 1,
        !.last = IF t \in LatestType THEN [@ EXCEPT ![t] = r] ELSE @,
        !.rings = IF t \in RingType THEN [@ EXCEPT ![t] = PushCapped(store.rings[t], r)] ELSE @,
        !.cumulative = IF t = "papyrus.top" THEN Cumulate(@, r) ELSE @]

\* mutant: the sums of the last source stay
ClearForgetsSums == store' = [EmptyStore EXCEPT !.cumulative = store.cumulative]
Clear == store' = EmptyStore

ResetPapyrusCumulative == store' = [store EXCEPT !.cumulative = EmptyStore.cumulative]
=============================================================================
