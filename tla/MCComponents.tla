---------------------------- MODULE MCComponents ----------------------------
(***************************************************************************)
(* The components that share no state, for TLC.  Each behaviour runs one   *)
(* of them and leaves the others in an initial state: every state of each  *)
(* is checked, and not their product.                                      *)
(***************************************************************************)
EXTENDS FrameSampler, PapyrusAttribution, PacedLoops, CellEvents, MemoryPressure,
        StateSnapshot, HookInstall, PluginLoad, MCPanels, RollingRecorder

CONSTANT Parts   \* the components to be run

ASSUME RecorderIsAssumed == RecorderAssumption

VARIABLE part

mcVars == <<part, frameVars, papyrusVars, loopVars, cellVars, pressureVars, stateVars,
            installVars, loadVars, panelVars, vars>>

\* A component that is not run starts in one of its initial states only.
FirstUnless(p, choices, firsts) == part = p \/ choices = firsts

PartsInit ==
  /\ part \in Parts
  /\ Init /\ FrameInit /\ PapyrusInit /\ LoopInit /\ CellInit /\ StateInit /\ LoadInit
  /\ PressureInit /\ FirstUnless("pressure", counter, 0)
  /\ HookInit
  /\ FirstUnless("hooks", <<place, code>>,
                 <<[h \in Hook |-> NoSite], [s \in Site |-> "absent"]>>)
  /\ PanelsInit
  /\ FirstUnless("panels", <<diet, replaying>>, <<{"frame", "event"}, FALSE>>)

FramePart == /\ part = "frame" /\ FrameNext
             /\ UNCHANGED <<part, papyrusVars, loopVars, cellVars, pressureVars, stateVars,
                            installVars, loadVars, panelVars, vars>>
PapyrusPart == /\ part = "papyrus" /\ PapyrusNext
               /\ UNCHANGED <<part, frameVars, loopVars, cellVars, pressureVars, stateVars,
                              installVars, loadVars, panelVars, vars>>
LoopPart == /\ part = "loops" /\ LoopNext
            /\ UNCHANGED <<part, frameVars, papyrusVars, cellVars, pressureVars, stateVars,
                           installVars, loadVars, panelVars, vars>>
CellPart == /\ part = "cells" /\ CellNext
            /\ UNCHANGED <<part, frameVars, papyrusVars, loopVars, pressureVars, stateVars,
                           installVars, loadVars, panelVars, vars>>
PressurePart == /\ part = "pressure" /\ PressureNext
                /\ UNCHANGED <<part, frameVars, papyrusVars, loopVars, cellVars, stateVars,
                               installVars, loadVars, panelVars, vars>>
StatePart == /\ part = "state" /\ StateNext
             /\ UNCHANGED <<part, frameVars, papyrusVars, loopVars, cellVars, pressureVars,
                            installVars, loadVars, panelVars, vars>>
HookPart == /\ part = "hooks" /\ HookNext
            /\ UNCHANGED <<part, frameVars, papyrusVars, loopVars, cellVars, pressureVars,
                           stateVars, loadVars, panelVars, vars>>
LoadPart == /\ part = "load" /\ LoadNext
            /\ UNCHANGED <<part, frameVars, papyrusVars, loopVars, cellVars, pressureVars,
                           stateVars, installVars, panelVars, vars>>
PanelsPart == /\ part = "panels" /\ PanelsNext
              /\ UNCHANGED <<part, frameVars, papyrusVars, loopVars, cellVars, pressureVars,
                             stateVars, installVars, loadVars, vars>>
RecorderPart == /\ part = "recorder" /\ Next
                /\ UNCHANGED <<part, frameVars, papyrusVars, loopVars, cellVars,
                               pressureVars, stateVars, installVars, loadVars, panelVars>>

PartsNext == FramePart \/ PapyrusPart \/ LoopPart \/ CellPart \/ PressurePart \/ StatePart
               \/ HookPart \/ LoadPart \/ PanelsPart \/ RecorderPart

PartsSpec == PartsInit /\ [][PartsNext]_mcVars

PartsTypeOK ==   \* of the one that is run, for the others do not change
  /\ part = "frame" => FrameTypeOK
  /\ part = "papyrus" => PapyrusTypeOK
  /\ part = "loops" => LoopTypeOK
  /\ part = "cells" => CellTypeOK
  /\ part = "pressure" => PressureTypeOK
  /\ part = "state" => StateTypeOK
  /\ part = "hooks" => HookTypeOK
  /\ part = "load" => LoadTypeOK
  /\ part = "panels" => PanelsTypeOK
  /\ part = "recorder" => TypeOK

(* Two accumulators, the last of them the archive reads'.                  *)
MCSubsystems == <<"havok", "streaming">>

(* One loop with two deadlines, one of twice the other's period.           *)
MCDeadlines == [memory |-> <<"memory", "pressure">>]
MCPeriod == [memory |-> 1, pressure |-> 2]

(* Two of three cells are exteriors that share a name.                     *)
MCNameOf == <<"inn", "wild", "wild">>

MCOrder == <<"frame", "havok", "ai", "papyrus", "streaming">>
=============================================================================
