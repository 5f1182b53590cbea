------------------------------ MODULE MCPanels ------------------------------
(* The records and the diets of the panels, and what the charts compute of *)
(* short rings, for TLC.                                                   *)
EXTENDS Panels, Charts

\* Three stutters that each column sorts in another order, two windows of
\* scripts, two frames, a state record and an event.
MCRec == 1 .. 9
MCTypeOf == <<"event.stutter", "event.stutter", "event.stutter", "papyrus.top",
              "papyrus.top", "frame", "frame", "state", "event">>
MCTimeOf  == <<1, 2, 3, 1, 2, 1, 3, 1, 1>>
MCSizeOf  == <<2, 1, 2, 0, 0, 1, 2, 0, 0>>
MCRatioOf == <<1, 3, 2, 0, 0, 0, 0, 0, 0>>
MCScriptsOf ==
  [r \in MCRec |-> CASE r = 4 -> << <<"a", 3>>, <<"b", 2>>, <<"", 1>> >>
                     [] r = 5 -> << <<"b", 4>>, <<"c", 1>>, <<"d", 2>> >>
                     [] OTHER -> <<>>]

(* ComputePacing sees each frame that took a time once, whatever the order *)
(* of the ring, and its lows are times of frames, the rarer the longer.    *)
ASSUME PacingOfShortRings ==
  \A dts \in UNION {[1 .. n -> {0, 1, 2, 5}] : n \in 1 .. 4} :
    LET timed == {i \in DOMAIN dts : dts[i] > 0}
        pacing == ComputePacing(dts)
        Rank(t) == Cardinality({i \in timed : dts[i] < t})
    IN  IF timed = {} THEN pacing = NoPacing
        ELSE /\ pacing.count = Cardinality(timed)
             /\ pacing.total = MapThenSumSet(LAMBDA i : dts[i], timed)
             /\ {pacing.p99, pacing.p999} \subseteq {dts[i] : i \in timed}
             /\ pacing.p99 <= pacing.p999
             \* of up to 100 frames, the worst is in neither low
             /\ Cardinality(timed) > 1 => Rank(pacing.p999) < Cardinality(timed) - 1

MCDiets == {{"event.stutter", "frame"}, {"papyrus.top", "state"}, {"frame", "event"}}
=============================================================================
