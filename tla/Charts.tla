------------------------------- MODULE Charts -------------------------------
(***************************************************************************)
(* What the charts panel computes from the store's rings                   *)
(* (viewer/src/panels/charts_panel.cpp): the pacing line and the stacked   *)
(* CPU breakdown.  The drawing is left out.  Times are natural numbers,    *)
(* and a frame rate is given by the frame time it is the inverse of.       *)
(***************************************************************************)
EXTENDS Integers, Sequences, SequencesExt, TLC

\* The frames that count: those that took a time. The smallest first.
Timed(dts) == SelectSeq(dts, LAMBDA d : d > 0)
Ascending(dts) == SortSeq(dts, LAMBDA a, b : a < b)

\* pIdx: the index from zero, of n sorted times, for a quantile in thousandths.
PercentileIndex(perMille, n) == (perMille * (n - 1)) \div 1000

\* ComputePacing: mean_fps as total and count, p99_low_fps and p999_low_fps as
\* the time of one frame. Without a frame that counts, all are zero.
NoPacing == [total |-> 0, count |-> 0, p99 |-> 0, p999 |-> 0]

ComputePacing(dts) ==
  LET sorted == Ascending(Timed(dts))
      n == Len(sorted)
  IN  IF n = 0 THEN NoPacing
      ELSE [total |-> FoldLeft(+, 0, sorted), count |-> n,
            p99   |-> sorted[PercentileIndex(990, n) + 1],
            p999  |-> sorted[PercentileIndex(999, n) + 1]]

-----------------------------------------------------------------------------
Band == {"papyrus", "havok", "ai", "render_submit", "streaming", "other"}

\* DrawBreakdownChart: where each band of a sample ends, from the bottom up.
Stack(s) ==
  LET havok == s["papyrus"] + s["havok"]
      ai == havok + s["ai"]
      render == ai + s["render_submit"]
      streaming == render + s["streaming"]
  IN  [b \in Band |-> CASE b = "papyrus" -> s["papyrus"]
                        [] b = "havok" -> havok
                        [] b = "ai" -> ai
                        [] b = "render_submit" -> render
                        [] b = "streaming" -> streaming
                        [] b = "other" -> streaming + s["other"]]

\* The band a band is shaded from.
Below == [b \in Band \ {"papyrus"} |->
            CASE b = "havok" -> "papyrus" [] b = "ai" -> "havok"
              [] b = "render_submit" -> "ai" [] b = "streaming" -> "render_submit"
              [] b = "other" -> "streaming"]

\* Each band is shaded between its neighbour's end, or zero, and its own.
Shade(s, b) == [low  |-> IF b = "papyrus" THEN 0 ELSE Stack(s)[Below[b]],
                high |-> Stack(s)[b]]
=============================================================================
