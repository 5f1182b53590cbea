------------------------- MODULE PapyrusAttribution -------------------------
(***************************************************************************)
(* The table of script times (samplers/papyrus_attribution.cpp), its three *)
(* users - the hook on the VM's function calls and the snapshot loop       *)
(* (samplers/papyrus_sampler.cpp), the stutter flagger                     *)
(* (diagnostics/stutter_flagger.cpp) - and the start and stop of the       *)
(* sampler. Each operation on the table is one critical section.           *)
(***************************************************************************)
EXTENDS Naturals, Sequences, SequencesExt, FiniteSetsExt, Functions

CONSTANTS
  Script,       \* the script names
  Times,        \* the times of a call, in microseconds
  TopN,         \* scripts in a papyrus.top record
  MaxCalls      \* bound: calls of the VM hook

ASSUME PapyrusAssumption ==
  Times \subseteq Nat \ {0} /\ TopN \in Nat \ {0} /\ MaxCalls \in Nat

VARIABLES
  sampler,     \* "off", "running", "stopping" (Stop waits) or "stopped"
  hooked,      \* _hookInstalled
  table,       \* Storage::table: total_us and calls_in_window by script
  top,         \* the last papyrus.top record
  fresh,       \* history: the scripts called since that record's snapshot
  calls,       \* history: the number of calls of the hook
  spent        \* history: the time of each script since the last Reset

papyrusVars == <<sampler, hooked, table, top, fresh, calls, spent>>

Entry == [us : Nat, calls : Nat]
EmptyTable == [s \in {} |-> [us |-> 0, calls |-> 0]]

PapyrusTypeOK ==
  /\ sampler \in {"off", "running", "stopping", "stopped"}
  /\ hooked \in BOOLEAN
  /\ DOMAIN table \subseteq Script /\ \A s \in DOMAIN table : table[s] \in Entry
  /\ top \in Seq(Script) /\ Len(top) <= TopN
  /\ fresh \subseteq Script /\ calls \in 0 .. MaxCalls
  /\ spent \in [Script -> Nat]

PapyrusInit ==
  /\ sampler = "off" /\ hooked = FALSE
  /\ table = EmptyTable /\ top = <<>>
  /\ fresh = {} /\ calls = 0 /\ spent = [s \in Script |-> 0]

-----------------------------------------------------------------------------
(* The table.                                                              *)

Add(t, s, us) ==
  IF s \in DOMAIN t
  THEN [t EXCEPT ![s] = [us |-> @.us + us, calls |-> @.calls + 1]]
  ELSE [r \in DOMAIN t \union {s} |->
          IF r = s THEN [us |-> us, calls |-> 1] ELSE t[r]]

\* round(n * 0.55), halves away from zero.
Decayed(n) == (55 * n + 50) \div 100
DecayReapsOne(t) ==   \* mutant: reaps what has come to one
  LET d == [s \in DOMAIN t |-> [us |-> Decayed(t[s].us), calls |-> Decayed(t[s].calls)]]
  IN  Restrict(d, {s \in DOMAIN d : d[s].us > 1 \/ d[s].calls > 1})

\* Decay every entry, and reap those that have come to nothing.
DecayTable(t) ==
  LET d == [s \in DOMAIN t |-> [us |-> Decayed(t[s].us), calls |-> Decayed(t[s].calls)]]
  IN  Restrict(d, {s \in DOMAIN d : d[s].us # 0 \/ d[s].calls # 0})

\* partial_sort of an unordered table: any order among equals.
Tops(t) ==
  {q \in UNION {[1 .. n -> DOMAIN t] : n \in {Min({TopN, Cardinality(DOMAIN t)})}} :
     /\ \A i, j \in DOMAIN q : i < j => q[i] # q[j] /\ t[q[i]].us >= t[q[j]].us
     /\ \A s \in DOMAIN t \ ToSet(q), i \in DOMAIN q : t[q[i]].us >= t[s].us}

-----------------------------------------------------------------------------
\* PapyrusSampler::Start. The hook may fail to install, or be disabled.
StartSampler ==
  /\ sampler = "off"
  /\ sampler' = "running"
  /\ hooked' \in BOOLEAN
  /\ UNCHANGED <<table, top, fresh, calls, spent>>

\* The hook's thunk, from any thread of the VM, even after Stop: it is never
\* taken out.
CallReturns(s, us) ==
  /\ hooked /\ calls < MaxCalls
  /\ table' = Add(table, s, us)
  /\ fresh' = fresh \union {s}
  /\ calls' = calls + 1
  /\ spent' = [spent EXCEPT ![s] = @ + us]
  /\ UNCHANGED <<sampler, hooked, top>>

\* SnapshotLoop: EmitTopScripts at every period, with the hook only.
EmitTop ==
  /\ sampler \in {"running", "stopping"} /\ hooked
  /\ top' \in Tops(table)
  /\ table' = DecayTable(table)
  /\ fresh' = {}
  /\ UNCHANGED <<sampler, hooked, calls, spent>>

\* (StutterFlagger::OnFrame takes its list with a factor of 1, which leaves the
\* table as it is.)

\* Stop: clear _running, join the loop, forget everything.
StopSampler ==
  /\ sampler = "running"
  /\ sampler' = "stopping"
  /\ UNCHANGED <<hooked, table, top, fresh, calls, spent>>

StopResets ==
  /\ sampler = "stopping"
  /\ sampler' = "stopped"
  /\ table' = EmptyTable /\ spent' = [s \in Script |-> 0]
  /\ fresh' = {}
  /\ UNCHANGED <<hooked, top, calls>>

PapyrusNext ==
  \/ StartSampler \/ EmitTop \/ StopSampler \/ StopResets
  \/ \E s \in Script, us \in Times : CallReturns(s, us)

PapyrusSpec == PapyrusInit /\ [][PapyrusNext]_papyrusVars
PapyrusFair == WF_papyrusVars(EmitTop)
-----------------------------------------------------------------------------
(* SnapshotTopAndDecay: what the table holds is every script that was      *)
(* called since the last Reset, however long ago: the decay, which rounds  *)
(* 0.55 up to 1, brings no entry to nothing and the reaping reaps none.    *)
KeepsEveryScript == DOMAIN table = {s \in Script : spent[s] > 0}

(* papyrus_attribution.cpp: "Reap entries that have decayed to nothing to  *)
(* keep the table bounded across long sessions." When no script is called  *)
(* any more, the table becomes empty. It does not.                         *)
Reaped ==
  (sampler = "running" /\ hooked)
    ~> (sampler # "running" \/ table = EmptyTable)
=============================================================================
