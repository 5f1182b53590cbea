---------------------------- MODULE HookInstall -----------------------------
(***************************************************************************)
(* The hooks installed at kPostLoad (plugin.cpp, OnSkseMessage): the call  *)
(* of Main::Update (samplers/frame_sampler.cpp), the hooks of              *)
(* subsystem_hooks.cpp behind their gates, the VM's                        *)
(* (papyrus_sampler.cpp) and the archive reader's (streaming_sampler.cpp). *)
(*                                                                         *)
(* A site is an address of the game's code and write_call (external) turns *)
(* the call there to a thunk, handing back the callee.  What else a site   *)
(* may be is a choice: an id of the configuration may be missing from the  *)
(* Address Library, or be that of a function's entry, where there is no    *)
(* call to turn.  A byte 0xE8 that is no call is left out.                 *)
(***************************************************************************)
EXTENDS Naturals, Sequences, SequencesExt, Functions

CONSTANTS
  Order,      \* the hooks in the order of their installation
  Checked,    \* those of TryInstallCallSite
  Counted,    \* those with a bit in the enabled mask
  Site        \* addresses the ids may resolve to

Hook == ToSet(Order)

\* A hook switched off, or without an id; what a call may reach.
NoSite == "no site"
Callee == "callee"
Wild   == "wild"

ASSUME HookAssumption ==
  /\ Order \in Seq(ToSet(Order)) /\ IsInjective(Order)
  /\ Checked \subseteq Counted /\ Counted \subseteq Hook
  /\ NoSite \notin Site /\ {Callee, Wild} \cap Hook = {}

VARIABLES
  place,      \* the site of each hook: the configuration's, or the default
  code,       \* what is at each site
  turn,       \* the hook being installed: its index in Order
  patched,    \* write_call has returned, and _original is not assigned yet
  merged,     \* InstallAll has set the mask
  dead,       \* the process has ended in report_and_fail
  target,     \* where each site calls
  handed,     \* what write_call returned in this turn
  original,   \* _original of each thunk
  installed,  \* _installed, _hookInstalled, and the results in InstallAll
  mask        \* the enabled mask

installVars == <<place, code, turn, patched, merged, dead, target, handed,
                original, installed, mask>>

HookTypeOK ==
  /\ place \in [Hook -> Site \union {NoSite}]
  /\ code \in [Site -> {"absent", "entry", "call"}]
  /\ turn \in 1 .. Len(Order) + 1
  /\ {patched, merged, dead} \subseteq BOOLEAN
  /\ target \in [Site -> Hook \union {Callee}]
  /\ handed \in Hook \union {Callee, Wild}
  /\ original \in [Hook -> Hook \union {Callee, Wild}]
  /\ installed \in [Hook -> BOOLEAN] /\ mask \in [Counted -> BOOLEAN]

HookInit ==
  /\ place \in [Hook -> Site \union {NoSite}]
  /\ code \in [Site -> {"absent", "entry", "call"}]
  /\ turn = 1 /\ patched = FALSE /\ merged = FALSE /\ dead = FALSE
  /\ target = [s \in Site |-> Callee]
  /\ handed = Wild /\ original = [h \in Hook |-> Wild]
  /\ installed = [h \in Hook |-> FALSE] /\ mask = [h \in Counted |-> FALSE]

-----------------------------------------------------------------------------
\* It is the turn of h. InstallAll returns before the later samplers start.
Begins(h) ==
  /\ ~dead /\ ~patched /\ turn <= Len(Order) /\ h = Order[turn]
  /\ h \in Counted \ Checked => merged

\* TryInstallCallSite: the id, asked of KnownIdSet, and the byte there.
IdExists(h) == place[h] # NoSite /\ code[place[h]] # "absent"
GatesNoOpcode(h) == IdExists(h)   \* mutant: the byte is not looked at
Gates(h) == IdExists(h) /\ code[place[h]] = "call"

\* A hook that is off, stopped at a gate, or whose installation throws.
TurnFails(h) ==
  /\ turn' = turn + 1
  /\ UNCHANGED <<place, code, patched, merged, dead, target, handed, original,
                 installed, mask>>

CheckedFails(h) == h \in Checked /\ Begins(h) /\ TurnFails(h)
OtherFails(h) ==
  /\ h \notin Checked /\ Begins(h)
  /\ place[h] = NoSite \/ IdExists(h)
  /\ TurnFails(h)

\* REL::ID ends the process on a missing id, and no catch is reached.
ReportAndFail(h) ==
  /\ h \notin Checked /\ Begins(h)
  /\ place[h] # NoSite /\ ~IdExists(h)
  /\ dead' = TRUE
  /\ UNCHANGED <<place, code, turn, patched, merged, target, handed, original,
                 installed, mask>>

\* write_call: the site calls the thunk; what it called is handed back, and is
\* no address at all where there was no call.
WriteCall(h) ==
  /\ target' = [target EXCEPT ![place[h]] = h]
  /\ handed' = IF code[place[h]] = "call" THEN target[place[h]] ELSE Wild
  /\ patched' = TRUE
  /\ UNCHANGED <<place, code, turn, merged, dead, original, installed, mask>>

PatchChecked(h) == h \in Checked /\ Begins(h) /\ Gates(h) /\ WriteCall(h)
PatchOther(h)   == h \notin Checked /\ Begins(h) /\ IdExists(h) /\ WriteCall(h)

\* _original = what was handed back.
Assign(h) ==
  /\ patched /\ h = Order[turn]
  /\ original' = [original EXCEPT ![h] = handed]
  /\ installed' = [installed EXCEPT ![h] = TRUE]
  /\ patched' = FALSE /\ handed' = Wild
  /\ turn' = turn + 1
  /\ UNCHANGED <<place, code, merged, dead, target>>

\* InstallHavok, InstallAi, InstallRenderSubmit; FrameSampler::Start.
Assigned(h) == h \notin Counted \ Checked /\ Assign(h) /\ UNCHANGED mask

\* Start of the Papyrus and of the streaming sampler: its own bit of the mask.
AssignedWithBit(h) ==
  /\ h \in Counted \ Checked /\ Assign(h)
  /\ mask' = [mask EXCEPT ![h] = TRUE]

\* The end of InstallAll: its results, and the other bits as they were.
MaskAsAsked ==   \* mutant: the hooks that were asked for
  mask' = [h \in Counted |-> IF h \in Checked THEN place[h] # NoSite ELSE mask[h]]
MaskMerged ==
  mask' = [h \in Counted |-> IF h \in Checked THEN installed[h] ELSE mask[h]]

InstallAllEnds ==
  /\ ~dead /\ ~patched /\ ~merged
  /\ \A i \in DOMAIN Order : Order[i] \in Checked => i < turn
  /\ MaskMerged
  /\ merged' = TRUE
  /\ UNCHANGED <<place, code, turn, patched, dead, target, handed, original,
                 installed>>

HookNext ==
  \/ \E h \in Hook :
       \/ CheckedFails(h) \/ OtherFails(h) \/ ReportAndFail(h)
       \/ PatchChecked(h) \/ PatchOther(h) \/ Assigned(h) \/ AssignedWithBit(h)
  \/ InstallAllEnds

HookSpec == HookInit /\ [][HookNext]_installVars
-----------------------------------------------------------------------------
\* The thunks a call passes, and where it ends: they may share a site.
Through(s) ==
  LET hop[n \in 0 .. Cardinality(Hook)] ==
        IF n = 0 THEN target[s]
        ELSE IF hop[n - 1] \in Hook THEN original[hop[n - 1]] ELSE hop[n - 1]
  IN  hop
EndOf(s) == Through(s)[Cardinality(Hook)]
Thunks(s) == {Through(s)[n] : n \in 0 .. Cardinality(Hook)} \cap Hook

\* Hooks without the gates, on a function's entry.
Ungated(s) == \E h \in Hook \ Checked : place[h] = s /\ code[s] = "entry"

(* TryInstallCallSite ("enabling these hooks can never crash the load,     *)
(* regardless of the configured ids"): whatever the ids, and though hooks  *)
(* may share a site, a call of the game ends in the callee it always had,  *)
(* and the process lives; except by a hook without the gates, and except   *)
(* for a thread that calls between write_call and the assignment.          *)
(* EnabledMask ("which subsystems are actually instrumented"): between two *)
(* assignments a bit is set only when the calls of some site pass that     *)
(* thunk, and, once all has been installed, whenever they do.              *)
HooksSafeAndTold ==
  /\ dead => \E h \in Hook \ Checked : ~IdExists(h)
  /\ \A s \in Site :
       \/ EndOf(s) = Callee \/ Ungated(s)
       \/ patched /\ place[Order[turn]] = s
  /\ \A h \in Counted :
       LET instrumented == \E s \in Site : h \in Thunks(s)
       IN  /\ mask[h] /\ ~patched => instrumented \/ Ungated(place[h])
           /\ turn > Len(Order) /\ merged /\ instrumented => mask[h]

\* What streaming_sampler.cpp says: without its id, that hook is off, and
\* nothing else is. Not so, see ReportAndFail; it is not the subject of a run.
MissingIdDemotes == ~dead
=============================================================================
