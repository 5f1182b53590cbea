--------------------------- MODULE StateSnapshot ----------------------------
(***************************************************************************)
(* The game state from its sample to a stutter record: the ticker of       *)
(* StateSampler queues tasks (samplers/state_sampler.cpp), the game's main *)
(* thread runs them, UpdateState stores what they saw in LatestCache       *)
(* (diagnostics/latest_cache.cpp), and OnFrame reads it on the same thread *)
(* (diagnostics/stutter_flagger.cpp).                                      *)
(*                                                                         *)
(* The state of the game is a number: that of the sample it would give.    *)
(***************************************************************************)
EXTENDS Naturals

CONSTANTS
  MaxStates,   \* bound: states of the game; in state 0 there is no player
  MaxTasks     \* bound: tasks waiting

ASSUME StateAssumption == MaxStates \in Nat /\ MaxTasks \in Nat

VARIABLES
  main,        \* where the main thread is in OnFrame, or elsewhere
  storing,     \* UpdateState has stored the counts and not the name
  world,       \* the state of the game
  tasks,       \* SKSE's queue: each task is EmitStateOnMainThread
  actors,      \* _actorHi and its like
  cellName,    \* _cellName
  snapshot,    \* of the stutter being reported
  sampledLast  \* history: the state of the last record

stateVars == <<main, storing, world, tasks, actors, cellName, snapshot, sampledLast>>

StateTypeOK ==
  /\ main \in {"elsewhere", "strings", "submit"} /\ storing \in BOOLEAN
  /\ tasks \in 0 .. MaxTasks
  /\ {world, actors, cellName, sampledLast} \subseteq 0 .. MaxStates
  /\ snapshot \in [actors : 0 .. MaxStates, cell : 0 .. MaxStates]

StateInit ==
  /\ main = "elsewhere" /\ storing = FALSE /\ world = 0 /\ tasks = 0
  /\ actors = 0 /\ cellName = 0 /\ sampledLast = 0
  /\ snapshot = [actors |-> 0, cell |-> 0]

\* The main thread does one thing after the other.
Free == main = "elsewhere" /\ ~storing

GameMoves ==
  /\ Free /\ world < MaxStates
  /\ world' = world + 1
  /\ UNCHANGED <<main, storing, tasks, actors, cellName, snapshot, sampledLast>>

\* AddTask, on the ticker's thread, whatever the main thread is doing.
ScheduleSample ==
  /\ tasks < MaxTasks
  /\ tasks' = tasks + 1
  /\ UNCHANGED <<main, storing, world, actors, cellName, snapshot, sampledLast>>

\* mutant: the ticker takes the sample itself
OnAnyThread == ~storing /\ tasks > 0
OnMainThread == Free /\ tasks > 0

\* No player: nothing is stored, nothing submitted.
SampleNobody ==
  /\ OnMainThread /\ world = 0
  /\ tasks' = tasks - 1
  /\ UNCHANGED <<main, storing, world, actors, cellName, snapshot, sampledLast>>

\* UpdateState: the counts one by one, then the name under its mutex.
StoreActors ==
  /\ OnMainThread /\ world > 0
  /\ tasks' = tasks - 1
  /\ actors' = world
  /\ storing' = TRUE
  /\ UNCHANGED <<main, world, cellName, snapshot, sampledLast>>

StoreCell ==
  /\ storing
  /\ cellName' = world /\ sampledLast' = world
  /\ storing' = FALSE
  /\ UNCHANGED <<main, world, tasks, actors, snapshot>>

\* OnFrame of a stutter: the counts, much later the name, then Submit.
ReadActors ==
  /\ Free
  /\ snapshot' = [snapshot EXCEPT !.actors = actors]
  /\ main' = "strings"
  /\ UNCHANGED <<storing, world, tasks, actors, cellName, sampledLast>>

ReadCell ==
  /\ main = "strings"
  /\ snapshot' = [snapshot EXCEPT !.cell = cellName]
  /\ main' = "submit"
  /\ UNCHANGED <<storing, world, tasks, actors, cellName, sampledLast>>

SubmitStutter ==
  /\ main = "submit"
  /\ main' = "elsewhere"
  /\ UNCHANGED <<storing, world, tasks, actors, cellName, snapshot, sampledLast>>

StateNext ==
  \/ GameMoves \/ ScheduleSample \/ SampleNobody \/ StoreActors \/ StoreCell
  \/ ReadActors \/ ReadCell \/ SubmitStutter

StateSpec == StateInit /\ [][StateNext]_stateVars
-----------------------------------------------------------------------------
(* OnFrame: the actor counts and the cell of a stutter are those of one    *)
(* and the same state record, the last one submitted, though nothing locks *)
(* the two together: both sides run on the main thread.                    *)
SnapshotIsOneState ==
  main = "submit" => /\ snapshot.actors = snapshot.cell
                     /\ snapshot.cell = sampledLast

\* What the cache and a half-read snapshot hold between the two: inductive.
CacheIsOneState ==
  /\ IF storing THEN main = "elsewhere" /\ actors = world
     ELSE actors = cellName /\ cellName = sampledLast
  /\ main # "elsewhere" => snapshot.actors = actors
  /\ main = "submit" => snapshot.cell = cellName

StateInv == StateTypeOK /\ CacheIsOneState
=============================================================================
