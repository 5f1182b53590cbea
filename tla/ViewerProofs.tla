---------------------------- MODULE ViewerProofs ----------------------------
(***************************************************************************)
(* Proofs about Viewer, for any number of sources, breaks and records and  *)
(* any size of the buffers: the types; the handle of every connection is   *)
(* closed exactly once, by the worker or by Stop; only a line after one    *)
(* that was cut off is lost; and the store holds the last records of its   *)
(* source.                                                                 *)
(***************************************************************************)
EXTENDS Viewer, SequenceTheorems, FiniteSetTheorems, NaturalsInduction, WellFoundedInduction, TLAPS


(***************************************************************************)
(* Who is where.  The UI thread is inside Stop only while it replaces the  *)
(* source or quits, inside SendCommand only in a frame; it holds the mutex *)
(* only with a handle that is published.                                   *)
(***************************************************************************)
Cleared == {"lock", "cancel", "closeHandle", "join"}

UiPlace ==
  /\ call \in {"none", "stop", "send", "write"} \union Cleared
  /\ call \in {"stop"} \union Cleared => ui = "busy"
  /\ call \in {"send", "write"} => ui = "panels"
  /\ call \in Cleared => ~running
  /\ mutex = "ui" <=> call \in {"cancel", "closeHandle", "write"}
  /\ mutex = "ui" => handle # NoHandle
  /\ ui = "busy" /\ call = "none" => worker = "done"
  /\ kind = "none" => worker = "done"

(***************************************************************************)
(* The handles.  Those of the earlier connections are closed; that of the  *)
(* last one is open until it is closed once, and published while the loop  *)
(* is in the connection and Stop has not closed it.                        *)
(***************************************************************************)
Handles ==
  /\ closes \in [Conn -> Nat]
  /\ h \in Conn \union {NoHandle}
  /\ handle \in {NoHandle, h}
  /\ \A c \in Conn : (c < h => closes[c] = 1) /\ (c > h => closes[c] = 0)
  /\ handle # NoHandle => closes[h] = 0
  /\ handle = NoHandle /\ h # NoHandle /\ worker # "publish" => closes[h] = 1
  /\ worker = "publish" => h # NoHandle /\ closes[h] = 0
  /\ worker \in {"top", "connect", "publish", "open", "done"} => handle = NoHandle
  /\ kind = "file" => handle = NoHandle

(***************************************************************************)
(* The connections that there can still be: one for every source that was  *)
(* opened and one for every break of the plugin.                           *)
(***************************************************************************)
Budget ==
  /\ source \in 0 .. MaxSources /\ breaks \in Nat
  /\ link = [up |-> link.up, unread |-> link.unread] /\ link.up \in BOOLEAN
  /\ ui = "busy" /\ goal \in {"pipe", "file"} => source < MaxSources
  /\ plugin = "listening" => breaks <= MaxBreaks
  /\ link.up => worker \in {"publish", "test", "read", "pending", "feed", "close"}
  /\ link.up => kind = "pipe"
  /\ link.up => h # NoHandle /\ closes[h] = 0
  /\ link.up /\ worker = "close" => ~running
  /\ h <= source + breaks
  /\ kind = "pipe" /\ ~link.up /\ (running \/ worker = "connect") => h < source + breaks
  /\ kind # "pipe" => worker # "connect"

HandleInv == UiPlace /\ Handles /\ Budget

handleInvVars == <<plugin, breaks, link, kind, running, worker, h, handle, mutex, closes,
                   call, ui, source, goal>>

\* An action that changes none of the variables.
LEMMA HandleStutter ==
  ASSUME HandleInv, UNCHANGED handleInvVars
  PROVE  HandleInv'
BY DEF HandleInv, UiPlace, Handles, Budget, handleInvVars

\* There is no connection yet.
LEMMA HandleInit == Init => HandleInv
<1> SUFFICES ASSUME Init PROVE HandleInv
  OBVIOUS
<1> USE SourceAssumption DEF SourceAssumption
<1>1. UiPlace
  BY DEF Init, SourceInit, UiPlace, Cleared, NoHandle
<1>2. Handles
  BY DEF Init, SourceInit, Handles, Conn, NoHandle
<1>3. Budget
  BY DEF Init, SourceInit, Budget, NoHandle
<1> QED BY <1>1, <1>2, <1>3 DEF HandleInv

\* Connections, sources and breaks are counted.
LEMMA Counts ==
  ASSUME HandleInv
  PROVE  /\ h \in Nat /\ source \in Nat /\ breaks \in Nat /\ MaxSources \in Nat /\ MaxBreaks \in Nat
         /\ h <= source + breaks /\ source <= MaxSources
BY SourceAssumption DEF HandleInv, Handles, Budget, Conn, NoHandle, SourceAssumption

\* The plugin's end: a break makes room for one connection more.
LEMMA PluginKeeps ==
  ASSUME HandleInv, Plugin, UNCHANGED <<ui, source, goal>>
  PROVE  HandleInv'
<1> USE DEF HandleInv
<1>1. CASE PluginStatus
  BY <1>1 DEF PluginStatus, UiPlace, Handles, Budget, handleVars, bufferVars
<1>2. CASE PluginBreaks
  <2>1. UiPlace' /\ Handles'
    BY <1>2 DEF PluginBreaks, UiPlace, Handles, handleVars
  <2>2. Budget'
    <3>1. /\ link'.up = FALSE /\ link' = [up |-> link'.up, unread |-> link'.unread]
          /\ link.up /\ breaks' = breaks + 1 /\ breaks <= MaxBreaks
          /\ UNCHANGED <<kind, running, worker, h, closes, ui, source, goal>>
      BY <1>2 DEF PluginBreaks, handleVars
    <3>2. plugin' = "listening" => breaks < MaxBreaks
      BY <1>2 DEF PluginBreaks
    <3>3. plugin' = "listening" => breaks' <= MaxBreaks
      BY <3>1, <3>2, SourceAssumption DEF Budget, SourceAssumption
    <3>4. h < source + breaks' /\ h <= source + breaks' /\ breaks' \in Nat
      BY <3>1, Counts
    <3>5. /\ source' \in 0 .. MaxSources
          /\ ui' = "busy" /\ goal' \in {"pipe", "file"} => source' < MaxSources
          /\ kind' # "pipe" => worker' # "connect"
      BY <3>1 DEF Budget
    <3> QED BY <3>1, <3>3, <3>4, <3>5 DEF Budget
  <2> QED BY <2>1, <2>2
<1>3. CASE \E k \in 1 .. MaxBatch : PluginSends(k)
  <2>1. /\ link'.up = link.up /\ link' = [up |-> link'.up, unread |-> link'.unread]
        /\ UNCHANGED <<plugin, breaks, kind, running, worker, h, handle, mutex, closes, call>>
    BY <1>3 DEF PluginSends, handleVars, Budget
  <2> QED BY <2>1 DEF UiPlace, Handles, Budget
<1> QED BY <1>1, <1>2, <1>3 DEF Plugin

\* PipeClient::Loop.
LEMMA PipeKeeps ==
  ASSUME HandleInv, PipeLoop, UNCHANGED <<ui, source, goal>>
  PROVE  HandleInv'
<1> USE DEF HandleInv
<1>0. kind = "pipe"
  BY DEF PipeLoop
<1>1. CASE LoopTop
  BY <1>0, <1>1 DEF LoopTop, UiPlace, Handles, Budget, handleVars, pluginVars
<1>2. CASE ConnectFails
  BY <1>0, <1>2 DEF ConnectFails, UiPlace, Handles, Budget, handleVars, pluginVars
<1>3. CASE ConnectSucceeds
  <2>1. /\ worker = "connect" /\ plugin = "listening" /\ h' = h + 1
        /\ link'.up = TRUE /\ link' = [up |-> link'.up, unread |-> link'.unread]
        /\ worker' = "publish"
        /\ UNCHANGED <<plugin, breaks, kind, running, handle, mutex, closes, call>>
    BY <1>3 DEF ConnectSucceeds, pluginVars
  <2>2. ~link.up /\ h < source + breaks
    BY <1>0, <2>1 DEF Budget
  <2>3. h + 1 \in Conn /\ h \in Nat
    BY <2>1, <2>2, SourceAssumption DEF Budget, Handles, Conn, NoHandle, SourceAssumption
  <2>4. UiPlace'
    BY <2>1 DEF UiPlace
  <2>5. Handles'
    BY <1>0, <2>1, <2>3 DEF Handles, Conn, NoHandle
  <2>6. Budget'
    <3>1. h' <= source + breaks /\ h' # NoHandle
      BY <2>1, <2>2, <2>3, Counts DEF NoHandle
    <3>2. closes[h + 1] = 0
      BY <2>3 DEF Handles
    <3> QED BY <1>0, <2>1, <3>1, <3>2 DEF Budget
  <2> QED BY <2>4, <2>5, <2>6
<1>4. CASE Publish
  <2>1. UiPlace'
    BY <1>4 DEF Publish, UiPlace, Handles, pluginVars
  <2>2. Handles'
    BY <1>0, <1>4 DEF Publish, Handles
  <2>3. Budget'
    BY <1>0, <1>4 DEF Publish, Budget, pluginVars
  <2> QED BY <2>1, <2>2, <2>3
<1>5. CASE TestRunning
  <2>1. /\ worker = "test" /\ worker' = IF running THEN "read" ELSE "close"
        /\ UNCHANGED <<plugin, breaks, link, kind, running, h, handle, mutex, closes, call>>
    BY <1>0, <1>5 DEF TestRunning, handleVars, pluginVars
  <2> QED BY <1>0, <2>1 DEF UiPlace, Handles, Budget
<1>6. CASE ReadBegins
  <2>1. UiPlace' /\ Handles'
    BY <1>0, <1>6 DEF ReadBegins, UiPlace, Handles, handleVars
  <2>2. Budget'
    BY <1>0, <1>6 DEF ReadBegins, Budget, Handles, handleVars, pluginVars
  <2> QED BY <2>1, <2>2
<1>7. CASE ReadReturns
  <2>1. /\ worker = "pending" /\ worker' = "feed"
        /\ link'.up = link.up /\ link' = [up |-> link'.up, unread |-> link'.unread]
        /\ UNCHANGED <<plugin, breaks, kind, running, h, handle, mutex, closes, call>>
    BY <1>7 DEF ReadReturns, handleVars, pluginVars, Budget
  <2> QED BY <1>0, <2>1 DEF UiPlace, Handles, Budget
<1>8. CASE ReadFails
  BY <1>0, <1>8 DEF ReadFails, UiPlace, Handles, Budget, handleVars, pluginVars
<1>9. CASE Feed
  BY <1>0, <1>9 DEF Feed, UiPlace, Handles, Budget, handleVars, pluginVars
<1>10. CASE LoopCloses
  <2>1. /\ worker = "close" /\ mutex = "free" /\ worker' = "top"
        /\ closes' = IF handle = NoHandle THEN closes ELSE [closes EXCEPT ![handle] = @ + 1]
        /\ handle' = NoHandle
        /\ link'.up = FALSE /\ link' = [up |-> link'.up, unread |-> link'.unread]
        /\ UNCHANGED <<plugin, breaks, kind, running, h, mutex, call>>
    BY <1>10 DEF LoopCloses, pluginVars
  <2>2. UiPlace'
    BY <1>0, <2>1 DEF UiPlace
  <2>3. Handles'
    BY <1>0, <2>1 DEF Handles, Conn, NoHandle
  <2>4. Budget'
    BY <1>0, <2>1 DEF Budget
  <2> QED BY <2>2, <2>3, <2>4
<1> QED BY <1>1, <1>2, <1>3, <1>4, <1>5, <1>6, <1>7, <1>8, <1>9, <1>10 DEF PipeLoop

\* FileSource::Loop has no connection.
LEMMA FileKeeps ==
  ASSUME HandleInv, FileLoop, UNCHANGED <<ui, source, goal>>
  PROVE  HandleInv'
<1>1. /\ kind = "file" /\ worker # "done" /\ worker # "publish" /\ ~link.up
      /\ worker' \in {"test", "read", "feed", "done"}
      /\ UNCHANGED <<plugin, breaks, link, kind, running, h, handle, mutex, closes, call>>
  BY DEF FileLoop, OpenFile, TestRunning, ReadChunk, EndOfFile, FileDamaged, Feed, pluginVars,
         handleVars, HandleInv, Budget
<1> QED BY <1>1 DEF HandleInv, UiPlace, Handles, Budget

\* Stop closes the handle only when it finds one published.
LEMMA StopKeeps ==
  ASSUME HandleInv, Stop, UNCHANGED <<ui, source, goal>>
  PROVE  HandleInv'
<1> USE DEF HandleInv
<1>1. CASE StopClears
  BY <1>1 DEF StopClears, UiPlace, Cleared, Handles, Budget, handleVars, pluginVars
<1>2. CASE StopLocks
  BY <1>2 DEF StopLocks, UiPlace, Cleared, Handles, Budget, handleVars, pluginVars
<1>3. CASE StopCancels
  <2>1. UiPlace' /\ Handles'
    BY <1>3 DEF StopCancels, UiPlace, Cleared, Handles, handleVars
  <2>2. Budget'
    BY <1>3 DEF StopCancels, UiPlace, Cleared, Budget, handleVars, pluginVars
  <2> QED BY <2>1, <2>2
<1>4. CASE StopCloses
  <2>1. /\ call = "closeHandle" /\ call' = "join" /\ handle' = NoHandle /\ mutex' = "free"
        /\ closes' = [closes EXCEPT ![handle] = @ + 1]
        /\ link'.up = FALSE /\ link' = [up |-> link'.up, unread |-> link'.unread]
        /\ UNCHANGED <<plugin, breaks, kind, running, worker, h>>
    BY <1>4 DEF StopCloses, pluginVars
  <2>2. mutex = "ui" /\ handle # NoHandle /\ ~running
    BY <2>1 DEF UiPlace, Cleared
  <2>3. UiPlace'
    BY <2>1 DEF UiPlace, Cleared
  <2>4. Handles'
    BY <2>1, <2>2 DEF Handles, Conn, NoHandle
  <2>5. Budget'
    BY <2>1, <2>2 DEF Budget, Handles
  <2> QED BY <2>3, <2>4, <2>5
<1>5. CASE StopJoins
  BY <1>5 DEF StopJoins, UiPlace, Cleared, Handles, Budget, handleVars, pluginVars
<1> QED BY <1>1, <1>2, <1>3, <1>4, <1>5 DEF Stop

\* SendCommand closes nothing.
LEMMA SendKeeps ==
  ASSUME HandleInv, Send, UNCHANGED <<ui, source, goal>>
  PROVE  HandleInv'
BY DEF Send, SendLocks, SendWrites, HandleInv, UiPlace, Cleared, Handles, Budget, pluginVars

\* The UI thread makes a new source only when the old one's worker has ended.
LEMMA UiKeeps ==
  ASSUME HandleInv, Ui
  PROVE  HandleInv'
<1> USE DEF HandleInv
<1>1. CASE DrainIntoStore
  BY <1>1 DEF DrainIntoStore, Drain, UiPlace, Cleared, Handles, Budget, handleVars, pluginVars
<1>2. CASE MenuOpens
  <2>1. UiPlace'
    BY <1>2 DEF MenuOpens, UiPlace, Cleared, handleVars
  <2>2. Handles'
    BY <1>2 DEF MenuOpens, Handles, handleVars
  <2>3. Budget'
    BY <1>2 DEF MenuOpens, Budget, handleVars, pluginVars
  <2> QED BY <2>1, <2>2, <2>3
<1>3. CASE MenuExits \/ SaveButton \/ NothingPressed \/ Panels \/ Exited
  <2>1. /\ ui' \in {"panels", "frame", "exited"} /\ (ui = "panels" => call = "none")
        /\ ui = "busy" => call = "none"
        /\ UNCHANGED <<plugin, breaks, link, kind, running, worker, h, handle, mutex, closes,
                       call, source, goal>>
    BY <1>3 DEF MenuExits, SaveButton, NothingPressed, Panels, Exited, sourceVars, handleVars,
                pluginVars
  <2>2. UiPlace'
    BY <2>1 DEF UiPlace, Cleared
  <2>3. Handles' /\ Budget'
    BY <2>1 DEF Handles, Budget
  <2> QED BY <2>2, <2>3
<1>4. CASE SourceOpened
  <2>1. /\ ui = "busy" /\ call = "none" /\ ui' = "panels" /\ source' = source + 1
        /\ goal \in {"pipe", "file"} /\ running' = TRUE
        /\ \/ kind' = "pipe" /\ worker' = "top"
           \/ kind' = "file" /\ worker' = "open"
        /\ UNCHANGED <<plugin, breaks, link, h, handle, mutex, closes, call, goal>>
    BY <1>4 DEF SourceOpened, StartPipe, StartFile, Fresh, pluginVars, handleVars
  <2>2. worker = "done"
    BY <2>1 DEF UiPlace
  <2>3. UiPlace'
    BY <2>1 DEF UiPlace, Cleared
  <2>4. Handles'
    BY <2>1, <2>2 DEF Handles
  <2>5. Budget'
    BY <2>1, <2>2, SourceAssumption DEF Budget, Handles, Conn, NoHandle, SourceAssumption
  <2> QED BY <2>3, <2>4, <2>5
<1>5. CASE SaveConfirmed
  BY <1>5 DEF SaveConfirmed, UiPlace, Cleared, Handles, Budget, handleVars, pluginVars
<1>6. CASE Quit
  BY <1>6 DEF Quit, UiPlace, Cleared, Handles, Budget, handleVars, pluginVars
<1> QED BY <1>1, <1>2, <1>3, <1>4, <1>5, <1>6 DEF Ui

\* Every step keeps HandleInv.
LEMMA HandleStep ==
  ASSUME HandleInv, [Next]_vars
  PROVE  HandleInv'
<1>1. CASE Ui
  BY <1>1, UiKeeps
<1>2. CASE Calls
  BY <1>2, StopKeeps, SendKeeps DEF Calls, uiVars
<1>3. CASE Outside
  BY <1>3, PluginKeeps DEF Outside, uiVars
<1>4. CASE PipeWorker
  BY <1>4, PipeKeeps DEF PipeWorker, uiVars
<1>5. CASE FileWorker
  BY <1>5, FileKeeps DEF FileWorker, uiVars
<1>6. CASE UNCHANGED vars
  BY <1>6, HandleStutter DEF vars, sourceVars, uiVars, pluginVars, handleVars, handleInvVars
<1> QED BY <1>1, <1>2, <1>3, <1>4, <1>5, <1>6 DEF Next

(***************************************************************************)
(* _handle: the handle of every connection is closed at most once, by the  *)
(* loop or by Stop, whatever their order, and when the loop has ended all  *)
(* of them have been closed.                                               *)
(***************************************************************************)
THEOREM HandlesClosedOnce == Spec => []ClosedOnce
<1>1. Init => HandleInv
  BY HandleInit
<1>2. HandleInv /\ [Next]_vars => HandleInv'
  BY HandleStep
<1>3. HandleInv => ClosedOnce
  BY DEF HandleInv, Handles, ClosedOnce, Conn, NoHandle
<1> QED BY <1>1, <1>2, <1>3, PTL DEF Spec

-----------------------------------------------------------------------------
(* Least and greatest.                                                     *)

\* A set of numbers that is not empty has a least one.
LEMMA LeastOf ==
  ASSUME NEW S \in SUBSET Nat, S # {}
  PROVE  Min(S) \in S /\ \A y \in S : Min(S) <= y
<1>1. \E x \in S : \A y \in S : <<y, x>> \notin OpToRel(<, Nat)
  BY NatLessThanWellFounded, WFMin
<1>2. PICK x \in S : \A y \in S : ~(y < x)
  BY <1>1 DEF OpToRel
<1>3. \A y \in S : x <= y
  BY <1>2
<1> QED BY <1>2, <1>3 DEF Min

\* The lesser of two numbers.
LEMMA MinOfTwo ==
  ASSUME NEW a \in Nat, NEW b \in Nat
  PROVE  /\ Min({a, b}) \in {a, b} /\ Min({a, b}) <= a /\ Min({a, b}) <= b
         /\ Min({a, b}) \in Nat
BY LeastOf

\* The greater of two numbers.
LEMMA MaxOfTwo ==
  ASSUME NEW a \in Nat, NEW b \in Nat
  PROVE  Max({a, b}) \in Nat /\ a <= Max({a, b}) /\ b <= Max({a, b})
<1>1. CASE a <= b
  <2>1. b \in {a, b} /\ \A y \in {a, b} : b >= y
    BY <1>1
  <2>2. Max({a, b}) \in {a, b} /\ \A y \in {a, b} : Max({a, b}) >= y
    BY <2>1 DEF Max
  <2> QED BY <2>2
<1>2. CASE ~(a <= b)
  <2>1. a \in {a, b} /\ \A y \in {a, b} : a >= y
    BY <1>2
  <2>2. Max({a, b}) \in {a, b} /\ \A y \in {a, b} : Max({a, b}) >= y
    BY <2>1 DEF Max
  <2> QED BY <2>2
<1> QED BY <1>1, <1>2

\* The greatest of a bounded set: one below the least bound would be a bound.
LEMMA GreatestOf ==
  ASSUME NEW n \in Nat, NEW S \in SUBSET (0 .. n), S # {}
  PROVE  Max(S) \in S /\ \A y \in S : Max(S) >= y
<1> DEFINE B == {u \in Nat : \A y \in S : u >= y}
<1>1. B \in SUBSET Nat /\ n \in B
  OBVIOUS
<1>2. Min(B) \in B /\ \A u \in B : Min(B) <= u
  BY <1>1, LeastOf
<1>3. PICK m \in B : \A u \in B : m <= u
  BY <1>2
<1>4. m \in Nat /\ \A y \in S : m >= y
  BY <1>3
<1>5. m \in S
  <2>1. SUFFICES ASSUME m \notin S PROVE FALSE
    OBVIOUS
  <2>2. PICK y \in S : TRUE
    OBVIOUS
  <2>3. y \in Nat /\ m >= y /\ m # y
    BY <1>4, <2>1
  <2>4. m - 1 \in Nat /\ \A z \in S : m - 1 >= z
    BY <1>4, <2>1, <2>3
  <2> QED BY <1>3, <1>4, <2>4
<1>6. \E x \in S : \A y \in S : x >= y
  BY <1>4, <1>5
<1> QED BY <1>6 DEF Max

-----------------------------------------------------------------------------
\* What a fragment is.
LEMMA FragmentIs ==
  /\ \A f \in Fragment : /\ f[1] \in Record /\ f[1] \in Nat
                         /\ EndsLine(f) => f = Closing(f[1])
                         /\ ~EndsLine(f) => f = Opening(f[1])
  /\ \A n \in Record : /\ Opening(n) \in Fragment /\ Closing(n) \in Fragment
  /\ \A n : ~EndsLine(Opening(n)) /\ EndsLine(Closing(n)) /\ Opening(n)[1] = n /\ Closing(n)[1] = n
<1>0. Max({MaxRecords, FileRecords}) \in Nat
  BY SourceAssumption, MaxOfTwo DEF SourceAssumption
<1>1. \A f \in Fragment : f[1] \in Record /\ f[1] \in Nat /\ f[2] \in BOOLEAN /\ f = <<f[1], f[2]>>
  BY <1>0 DEF Fragment, Record
<1>2. ASSUME NEW f \in Fragment
      PROVE  (EndsLine(f) => f = Closing(f[1])) /\ (~EndsLine(f) => f = Opening(f[1]))
  <2>1. f[2] = TRUE \/ f[2] = FALSE
    BY <1>1
  <2>2. CASE f[2] = TRUE
    BY <1>1, <2>2 DEF EndsLine, Closing
  <2>3. CASE f[2] = FALSE
    BY <1>1, <2>3 DEF EndsLine, Opening
  <2> QED BY <2>1, <2>2, <2>3
<1>3. \A n \in Record : Opening(n) \in Fragment /\ Closing(n) \in Fragment
  BY DEF Opening, Closing, Fragment
<1>4. ASSUME NEW n
      PROVE  ~EndsLine(Opening(n)) /\ EndsLine(Closing(n)) /\ Opening(n)[1] = n /\ Closing(n)[1] = n
  <2>1. Opening(n)[2] = FALSE /\ Closing(n)[2] = TRUE
    BY DEF Opening, Closing
  <2> QED BY <2>1 DEF EndsLine, Opening, Closing
<1> QED BY <1>1, <1>2, <1>3, <1>4

-----------------------------------------------------------------------------
(* The fragments on the wire, and what Feed makes of them.                 *)

\* The records go up, and each newline follows the rest of its record: nothing is repeated,
\* and what is missing is missing at the end of a record.
InOrder(s) ==
  \A i \in DOMAIN s :
    /\ EndsLine(s[i]) => i > 1 /\ s[i - 1] = Opening(s[i][1])
    /\ ~EndsLine(s[i]) => \A j \in 1 .. i - 1 : s[j][1] < s[i][1]

\* Every record of s is before every record of t.
Before(s, t) == \A i \in DOMAIN s, j \in DOMAIN t : s[i][1] < t[j][1]

\* Whole records, in order.
LEMMA WireIs ==
  ASSUME NEW a \in Nat, NEW c \in Nat, a + c <= Max({MaxRecords, FileRecords})
  PROVE  /\ Wire(a + 1, c) \in Seq(Fragment) /\ Len(Wire(a + 1, c)) = 2 * c
         /\ InOrder(Wire(a + 1, c))
         /\ \A i \in DOMAIN Wire(a + 1, c) :
              Wire(a + 1, c)[i][1] >= a + 1 /\ Wire(a + 1, c)[i][1] <= a + c
<1> DEFINE w == Wire(a + 1, c)
<1>0. Max({MaxRecords, FileRecords}) \in Nat
  BY SourceAssumption, MaxOfTwo DEF SourceAssumption
<1>1. DOMAIN w = 1 .. 2 * c
  BY DEF Wire
<1>2. \A i \in 1 .. 2 * c : w[i] = IF i % 2 = 1 THEN Opening(a + 1 + i \div 2)
                                                 ELSE Closing(a + 1 + i \div 2 - 1)
  BY DEF Wire
<1> HIDE DEF w
<1>3. ASSUME NEW i \in 1 .. 2 * c
      PROVE  \E k \in 0 .. c - 1 :
               \/ i = 2 * k + 1 /\ w[i] = Opening(a + 1 + k)
               \/ i = 2 * k + 2 /\ w[i] = Closing(a + 1 + k)
  <2>1. CASE i % 2 = 1
    <3>1. i = 2 * (i \div 2) + 1 /\ i \div 2 \in 0 .. c - 1
      BY <2>1
    <3> QED BY <1>2, <2>1, <3>1
  <2>2. CASE i % 2 # 1
    <3>1. i = 2 * (i \div 2 - 1) + 2 /\ i \div 2 - 1 \in 0 .. c - 1
      BY <2>2
    <3>2. a + 1 + i \div 2 - 1 = a + 1 + (i \div 2 - 1)
      BY <3>1
    <3> QED BY <1>2, <2>2, <3>1, <3>2
  <2> QED BY <2>1, <2>2
<1>4. \A k \in 0 .. c - 1 : a + 1 + k \in Record
  BY <1>0 DEF Record
<1>5. \A i \in 1 .. 2 * c : w[i] \in Fragment /\ w[i][1] >= a + 1 /\ w[i][1] <= a + c
  <2> TAKE i \in 1 .. 2 * c
  <2>1. PICK k \in 0 .. c - 1 : \/ i = 2 * k + 1 /\ w[i] = Opening(a + 1 + k)
                                \/ i = 2 * k + 2 /\ w[i] = Closing(a + 1 + k)
    BY <1>3
  <2>2. a + 1 + k \in Record
    BY <1>4
  <2>3. w[i] \in Fragment /\ w[i][1] = a + 1 + k
    BY <2>1, <2>2, FragmentIs
  <2>4. a + 1 + k >= a + 1 /\ a + 1 + k <= a + c
    OBVIOUS
  <2> QED BY <2>3, <2>4
<1>6. w \in Seq(Fragment) /\ Len(w) = 2 * c
  <2>1. w = [i \in 1 .. 2 * c |-> w[i]]
    BY <1>1 DEF Wire, w
  <2> QED BY <1>5, <2>1
<1>7. ASSUME NEW i \in 1 .. 2 * c
      PROVE  /\ EndsLine(w[i]) => i > 1 /\ w[i - 1] = Opening(w[i][1])
             /\ ~EndsLine(w[i]) => \A j \in 1 .. i - 1 : w[j][1] < w[i][1]
  <2>1. PICK k \in 0 .. c - 1 : \/ i = 2 * k + 1 /\ w[i] = Opening(a + 1 + k)
                                \/ i = 2 * k + 2 /\ w[i] = Closing(a + 1 + k)
    BY <1>3
  <2>2. CASE i = 2 * k + 1 /\ w[i] = Opening(a + 1 + k)
    <3>1. w[i][1] = a + 1 + k /\ ~EndsLine(w[i])
      BY <2>2, FragmentIs
    <3>2. ASSUME NEW j \in 1 .. i - 1 PROVE w[j][1] < w[i][1]
      <4>1. j \in 1 .. 2 * c
        BY <2>2
      <4>2. PICK l \in 0 .. c - 1 : \/ j = 2 * l + 1 /\ w[j] = Opening(a + 1 + l)
                                    \/ j = 2 * l + 2 /\ w[j] = Closing(a + 1 + l)
        BY <1>3, <4>1
      <4>3. w[j][1] = a + 1 + l /\ l < k
        BY <2>2, <4>2, FragmentIs
      <4> QED BY <3>1, <4>3
    <3> QED BY <3>1, <3>2
  <2>3. CASE i = 2 * k + 2 /\ w[i] = Closing(a + 1 + k)
    <3>1. w[i][1] = a + 1 + k /\ EndsLine(w[i]) /\ i - 1 \in 1 .. 2 * c /\ i > 1
      BY <2>3, FragmentIs
    <3>2. PICK l \in 0 .. c - 1 : \/ i - 1 = 2 * l + 1 /\ w[i - 1] = Opening(a + 1 + l)
                                  \/ i - 1 = 2 * l + 2 /\ w[i - 1] = Closing(a + 1 + l)
      BY <1>3, <3>1
    <3>3. l = k /\ w[i - 1] = Opening(a + 1 + k)
      BY <2>3, <3>2
    <3> QED BY <3>1, <3>3
  <2> QED BY <2>1, <2>2, <2>3
<1>8. InOrder(w)
  BY <1>1, <1>7 DEF InOrder
<1> QED BY <1>1, <1>5, <1>6, <1>8 DEF w

-----------------------------------------------------------------------------
\* What follows place e.
LEMMA SuffixIs ==
  ASSUME NEW S, NEW s \in Seq(S), NEW e \in 0 .. Len(s)
  PROVE  /\ SubSeq(s, e + 1, Len(s)) \in Seq(S)
         /\ Len(SubSeq(s, e + 1, Len(s))) = Len(s) - e
         /\ \A i \in 1 .. Len(SubSeq(s, e + 1, Len(s))) : SubSeq(s, e + 1, Len(s))[i] = s[e + i]
<1>1. \A i \in e + 1 .. Len(s) : s[i] \in S
  OBVIOUS
<1>2. e + 1 \in Int /\ Len(s) \in Int
  OBVIOUS
<1> DEFINE r == SubSeq(s, e + 1, Len(s))
<1>3. /\ r \in Seq(S)
      /\ Len(r) = IF e + 1 <= Len(s) THEN Len(s) - (e + 1) + 1 ELSE 0
      /\ \A i \in 1 .. Len(s) - (e + 1) + 1 : r[i] = s[e + 1 + i - 1]
  BY <1>1, <1>2, SubSeqProperties
<1> HIDE DEF r
<1>4. Len(r) = Len(s) - e
  BY <1>3
<1>5. \A i \in 1 .. Len(r) : e + 1 + i - 1 = e + i /\ i \in 1 .. Len(s) - (e + 1) + 1
  BY <1>4
<1> QED BY <1>3, <1>4, <1>5 DEF r

\* What precedes it, and how the two make the whole.
LEMMA PrefixIs ==
  ASSUME NEW S, NEW s \in Seq(S), NEW e \in 0 .. Len(s)
  PROVE  /\ SubSeq(s, 1, e) \in Seq(S) /\ Len(SubSeq(s, 1, e)) = e
         /\ \A i \in 1 .. e : SubSeq(s, 1, e)[i] = s[i]
         /\ SubSeq(s, 1, e) \o SubSeq(s, e + 1, Len(s)) = s
<1>1. \A i \in 1 .. e : s[i] \in S
  OBVIOUS
<1>2. 1 \in Int /\ e \in Int
  OBVIOUS
<1> DEFINE p == SubSeq(s, 1, e)
           r == SubSeq(s, e + 1, Len(s))
<1>3. /\ p \in Seq(S) /\ Len(p) = IF 1 <= e THEN e - 1 + 1 ELSE 0
      /\ \A i \in 1 .. e - 1 + 1 : p[i] = s[1 + i - 1]
  BY <1>1, <1>2, SubSeqProperties
<1> HIDE DEF p
<1>4. Len(p) = e
  BY <1>3
<1>5. \A i \in 1 .. e : p[i] = s[i]
  BY <1>3
<1>6. r \in Seq(S) /\ Len(r) = Len(s) - e /\ \A i \in 1 .. Len(r) : r[i] = s[e + i]
  BY SuffixIs
<1> HIDE DEF r
<1>7. /\ p \o r \in Seq(S) /\ Len(p \o r) = Len(s)
      /\ \A i \in 1 .. Len(s) : (p \o r)[i] = IF i <= e THEN p[i] ELSE r[i - e]
  <2>1. Len(p) + Len(r) = Len(s)
    BY <1>4, <1>6
  <2>2. /\ p \o r \in Seq(S) /\ Len(p \o r) = Len(p) + Len(r)
        /\ \A i \in 1 .. Len(p) + Len(r) : (p \o r)[i] = IF i <= Len(p) THEN p[i] ELSE r[i - Len(p)]
    BY <1>3, <1>6, ConcatProperties
  <2> QED BY <1>4, <2>1, <2>2
<1>8. \A i \in 1 .. Len(s) : (p \o r)[i] = s[i]
  <2> TAKE i \in 1 .. Len(s)
  <2>1. CASE i <= e
    BY <1>5, <1>7, <2>1
  <2>2. CASE ~(i <= e)
    <3>1. i - e \in 1 .. Len(r) /\ e + (i - e) = i
      BY <1>6, <2>2
    <3>2. r[i - e] = s[i]
      BY <1>6, <3>1
    <3> QED BY <1>7, <2>2, <3>2
  <2> QED BY <2>1, <2>2
<1>9. p \o r = s
  BY <1>7, <1>8, SeqEqual
<1> QED BY <1>3, <1>4, <1>5, <1>9 DEF p, r

\* Line i of s is finished, and a record.
Good(s, i) == EndsLine(s[i]) /\ Parses(s, i)
\* g is what Parsed computes on its way to line n.
ParsedTo(g, s, n) ==
  g = [i \in 0 .. n |-> IF i = 0 THEN <<>>
                        ELSE IF EndsLine(s[i]) /\ Parses(s, i) THEN Append(g[i - 1], s[i][1])
                        ELSE g[i - 1]]

\* There is such a g for every n: that of the least n without one would be that of n - 1
\* and one value more.
LEMMA ParseExists ==
  ASSUME NEW N \in Nat, NEW s
  PROVE  \E g : ParsedTo(g, s, N)
<1> DEFINE S == {m \in Nat : ~ \E g : ParsedTo(g, s, m)}
<1>1. ASSUME S # {} PROVE FALSE
  <2>1. PICK m \in S : \A y \in S : m <= y
    BY <1>1, LeastOf
  <2>2. m \in Nat /\ ~ \E g : ParsedTo(g, s, m)
    BY <2>1
  <2>3. CASE m = 0
    <3> DEFINE g == [n \in 0 .. 0 |-> <<>>]
    <3>1. ParsedTo(g, s, 0)
      BY DEF ParsedTo
    <3> QED BY <2>2, <2>3, <3>1
  <2>4. CASE m # 0
    <3>1. m - 1 \in Nat /\ ~(m <= m - 1)
      BY <2>2, <2>4
    <3>2. m - 1 \notin S
      BY <2>1, <3>1
    <3>3. PICK f : ParsedTo(f, s, m - 1)
      BY <3>1, <3>2
    <3> DEFINE e == IF EndsLine(s[m]) /\ Parses(s, m) THEN Append(f[m - 1], s[m][1]) ELSE f[m - 1]
               g == [n \in 0 .. m |-> IF n = m THEN e ELSE f[n]]
    <3>4. \A n \in 0 .. m - 1 : f[n] =
            IF n = 0 THEN <<>> ELSE IF EndsLine(s[n]) /\ Parses(s, n) THEN Append(f[n - 1], s[n][1])
            ELSE f[n - 1]
      BY <3>3 DEF ParsedTo
    <3>5. \A n \in 0 .. m - 1 : g[n] = f[n]
      BY <2>2
    <3>6. g[m] = e
      BY <2>2
    <3>7. g = [n \in 0 .. m |-> g[n]]
      OBVIOUS
    <3> HIDE DEF g
    <3>8. \A n \in 0 .. m : g[n] =
            IF n = 0 THEN <<>> ELSE IF EndsLine(s[n]) /\ Parses(s, n) THEN Append(g[n - 1], s[n][1])
            ELSE g[n - 1]
      <4> TAKE n \in 0 .. m
      <4>1. CASE n = m
        <5>1. g[n - 1] = f[m - 1] /\ n # 0
          BY <2>2, <2>4, <3>1, <3>5, <4>1
        <5> QED BY <3>6, <4>1, <5>1
      <4>2. CASE n # m
        <5>1. n \in 0 .. m - 1 /\ (n # 0 => n - 1 \in 0 .. m - 1)
          BY <2>2, <4>2
        <5> QED BY <3>4, <3>5, <5>1
      <4> QED BY <4>1, <4>2
    <3>9. ParsedTo(g, s, m)
      BY <3>7, <3>8 DEF ParsedTo
    <3> QED BY <2>2, <3>9
  <2> QED BY <2>3, <2>4
<1> QED BY <1>1

\* The records parsed out of s are those of its good lines, in their order.
Parse(q, s, n) ==
  /\ q \in Seq(Record)
  /\ \A k \in DOMAIN q : \E i \in 1 .. n : Good(s, i) /\ q[k] = s[i][1]
  /\ \A i \in 1 .. n : Good(s, i) => \E k \in DOMAIN q : q[k] = s[i][1]
  /\ (\A i, j \in 1 .. n : Good(s, i) /\ Good(s, j) /\ i < j => s[i][1] < s[j][1])
       => \A k \in 1 .. Len(q) - 1 : q[k] < q[k + 1]

\* The same for what Parsed returns: the least line up to which it is wrong would be one
\* before which it is right.
LEMMA ParsedIs ==
  ASSUME NEW s \in Seq(Fragment)
  PROVE  Parse(Parsed(s), s, Len(s))
<1> DEFINE N == Len(s)
           f == CHOOSE g : ParsedTo(g, s, N)
<1>1. N \in Nat /\ ParsedTo(f, s, N)
  BY ParseExists
<1>2. Parsed(s) = f[N]
  BY DEF Parsed, ParsedTo
<1> HIDE DEF f
<1>3. \A n \in 0 .. N : f[n] =
        IF n = 0 THEN <<>> ELSE IF Good(s, n) THEN Append(f[n - 1], s[n][1]) ELSE f[n - 1]
  BY <1>1 DEF ParsedTo, Good
<1> DEFINE S == {n \in 0 .. N : ~Parse(f[n], s, n)}
<1>4. ASSUME S # {} PROVE FALSE
  <2>1. S \in SUBSET Nat
    BY <1>1
  <2>2. PICK n \in S : \A y \in S : n <= y
    BY <1>4, <2>1, LeastOf
  <2>3. n \in 0 .. N /\ n \in Nat /\ ~Parse(f[n], s, n)
    BY <1>1, <2>2
  <2>4. CASE n = 0
    <3>1. f[0] = <<>>
      BY <1>1, <1>3
    <3>2. Parse(<<>>, s, 0)
      BY DEF Parse
    <3> QED BY <2>3, <2>4, <3>1, <3>2
  <2>5. CASE n # 0
    <3>1. n - 1 \in 0 .. N /\ ~(n <= n - 1) /\ n \in DOMAIN s
      BY <1>1, <2>3, <2>5
    <3>2. Parse(f[n - 1], s, n - 1)
      BY <2>2, <3>1
    <3> DEFINE p == f[n - 1]
               q == f[n]
    <3>3. p \in Seq(Record) /\ Len(p) \in Nat
      BY <3>2 DEF Parse
    <3>4. s[n] \in Fragment /\ s[n][1] \in Record
      BY <3>1, FragmentIs
    <3>5. CASE ~Good(s, n)
      <4>1. q = p
        BY <1>3, <2>3, <2>5, <3>5
      <4>2. Parse(p, s, n)
        BY <2>3, <2>5, <3>2, <3>5 DEF Parse
      <4> QED BY <2>3, <4>1, <4>2
    <3>6. CASE Good(s, n)
      <4>1. q = Append(p, s[n][1])
        BY <1>3, <2>3, <2>5, <3>6
      <4> HIDE DEF p, q
      <4>2. /\ q \in Seq(Record) /\ Len(q) = Len(p) + 1 /\ q[Len(q)] = s[n][1]
            /\ \A k \in 1 .. Len(p) : q[k] = p[k]
            /\ DOMAIN p = 1 .. Len(p) /\ DOMAIN q = 1 .. Len(p) + 1
        BY <3>3, <3>4, <4>1
      <4>3. Parse(p, s, n - 1)
        BY <3>2 DEF p
      <4>4. \A k \in DOMAIN q : \E i \in 1 .. n : Good(s, i) /\ q[k] = s[i][1]
        <5> TAKE k \in DOMAIN q
        <5>1. CASE k = Len(p) + 1
          BY <2>3, <2>5, <3>6, <4>2, <5>1
        <5>2. CASE k \in 1 .. Len(p)
          <6>1. PICK i \in 1 .. n - 1 : Good(s, i) /\ p[k] = s[i][1]
            BY <4>2, <4>3, <5>2 DEF Parse
          <6> QED BY <2>3, <4>2, <5>2, <6>1
        <5> QED BY <3>3, <4>2, <5>1, <5>2
      <4>5. \A i \in 1 .. n : Good(s, i) => \E k \in DOMAIN q : q[k] = s[i][1]
        <5> TAKE i \in 1 .. n
        <5>1. CASE i = n
          BY <3>3, <4>2, <5>1
        <5>2. CASE i # n
          <6>1. i \in 1 .. n - 1
            BY <2>3, <5>2
          <6>2. Good(s, i) => \E k \in DOMAIN p : p[k] = s[i][1]
            BY <4>3, <6>1 DEF Parse
          <6> QED BY <3>3, <4>2, <6>2
        <5> QED BY <5>1, <5>2
      <4>6. ASSUME \A i, j \in 1 .. n : Good(s, i) /\ Good(s, j) /\ i < j => s[i][1] < s[j][1]
            PROVE  \A k \in 1 .. Len(q) - 1 : q[k] < q[k + 1]
        <5>1. \A i, j \in 1 .. n - 1 : Good(s, i) /\ Good(s, j) /\ i < j => s[i][1] < s[j][1]
          BY <2>3, <4>6
        <5>2. \A k \in 1 .. Len(p) - 1 : p[k] < p[k + 1]
          BY <4>3, <5>1 DEF Parse
        <5>3. ASSUME Len(p) # 0 PROVE q[Len(p)] < q[Len(p) + 1]
          <6>1. Len(p) \in DOMAIN p
            BY <3>3, <4>2, <5>3
          <6>2. PICK i \in 1 .. n - 1 : Good(s, i) /\ p[Len(p)] = s[i][1]
            BY <4>3, <6>1 DEF Parse
          <6>3. i \in 1 .. n /\ n \in 1 .. n /\ i < n
            BY <2>3, <2>5
          <6>4. s[i][1] < s[n][1]
            BY <3>6, <4>6, <6>2, <6>3
          <6> QED BY <4>2, <6>1, <6>2, <6>4
        <5> TAKE k \in 1 .. Len(q) - 1
        <5>4. CASE k = Len(p)
          BY <3>3, <4>2, <5>3, <5>4
        <5>5. CASE k # Len(p)
          <6>1. k \in 1 .. Len(p) - 1 /\ k \in 1 .. Len(p) /\ k + 1 \in 1 .. Len(p)
            <7>1. Len(q) = Len(p) + 1
              BY <4>2
            <7> QED BY <3>3, <5>5, <7>1
          <6> QED BY <4>2, <5>2, <6>1
        <5> QED BY <5>4, <5>5
      <4>7. Parse(q, s, n)
        BY <4>2, <4>4, <4>5, <4>6 DEF Parse
      <4> QED BY <2>3, <4>7 DEF q
    <3> QED BY <3>5, <3>6
  <2> QED BY <2>4, <2>5
<1>5. N \in 0 .. N
  BY <1>1
<1>6. Parse(f[N], s, N)
  BY <1>4, <1>5
<1> QED BY <1>2, <1>6

\* What stays in _scratch: what follows the last newline, or nothing when that is too much.
LEMMA RestIs ==
  ASSUME NEW s \in Seq(Fragment)
  PROVE  /\ Rest(s) \in Seq(Fragment) /\ Len(Rest(s)) <= ScratchMax
         /\ Len(Rest(s)) <= Len(s)
         /\ \A i \in DOMAIN Rest(s) : /\ ~EndsLine(Rest(s)[i])
                                      /\ Rest(s)[i] = s[Len(s) - Len(Rest(s)) + i]
         /\ s # <<>> /\ Rest(s) = <<>> /\ ~EndsLine(s[Len(s)]) =>
              Len(s) > 1 /\ ~EndsLine(s[Len(s) - 1])
<1> DEFINE ends == LineEnds(s)
<1>0. Len(s) \in Nat /\ DOMAIN s = 1 .. Len(s) /\ ScratchMax \in Nat \ {0}
  BY SourceAssumption DEF SourceAssumption
<1>1. ends \union {0} \in SUBSET (0 .. Len(s)) /\ ends \union {0} # {}
  BY <1>0 DEF LineEnds
<1>2. PICK e \in 0 .. Len(s) : /\ e = Max(ends \union {0})
                               /\ e \in ends \union {0} /\ \A y \in ends \union {0} : e >= y
  BY <1>0, <1>1, GreatestOf
<1> DEFINE r == SubSeq(s, e + 1, Len(s))
<1>3. Rest(s) = IF Len(r) > ScratchMax THEN <<>> ELSE r
  BY <1>2 DEF Rest
<1>4. e \in 0 .. Len(s)
  BY <1>2
<1>5. \A i \in DOMAIN s : i > e => ~EndsLine(s[i])
  <2> TAKE i \in DOMAIN s
  <2>1. EndsLine(s[i]) => i \in ends
    BY DEF LineEnds
  <2>2. i \in ends => e >= i
    BY <1>2
  <2> QED BY <1>0, <1>4, <2>1, <2>2
<1>6. /\ r \in Seq(Fragment) /\ Len(r) = Len(s) - e
      /\ \A i \in 1 .. Len(r) : r[i] = s[e + i]
  BY SuffixIs
<1> HIDE DEF r, ends
<1>7. \A i \in 1 .. Len(r) : ~EndsLine(r[i])
  <2> TAKE i \in 1 .. Len(r)
  <2>1. r[i] = s[e + i] /\ e + i \in 1 .. Len(s) /\ e + i > e
    BY <1>0, <1>4, <1>6
  <2> QED BY <1>0, <1>5, <2>1
<1>8. CASE Len(r) > ScratchMax
  <2>1. Rest(s) = <<>> /\ Len(s) - 1 > e /\ Len(s) > 1
    BY <1>0, <1>3, <1>4, <1>6, <1>8
  <2>2. ~EndsLine(s[Len(s) - 1])
    BY <1>0, <1>5, <2>1
  <2> QED BY <1>0, <2>1, <2>2
<1>9. CASE ~(Len(r) > ScratchMax)
  <2>1. Rest(s) = r
    BY <1>3, <1>9
  <2>2. s # <<>> /\ r = <<>> => EndsLine(s[Len(s)])
    <3>1. SUFFICES ASSUME s # <<>>, r = <<>> PROVE EndsLine(s[Len(s)])
      OBVIOUS
    <3>2. Len(r) = 0 /\ Len(s) # 0
      BY <1>0, <3>1
    <3>3. e = Len(s)
      <4>1. Len(r) = Len(s) - e
        BY <1>6
      <4>2. e \in Nat /\ Len(s) \in Nat
        BY <1>0, <1>4
      <4> QED BY <3>2, <4>1, <4>2
    <3>4. e # 0
      BY <3>2, <3>3
    <3> QED BY <1>2, <3>3, <3>4 DEF ends, LineEnds
  <2>3. Len(r) <= ScratchMax /\ Len(r) <= Len(s)
    BY <1>0, <1>4, <1>6, <1>9
  <2>4. \A i \in 1 .. Len(r) : r[i] = s[Len(s) - Len(r) + i]
    BY <1>0, <1>4, <1>6
  <2>5. DOMAIN r = 1 .. Len(r)
    BY <1>6
  <2> QED BY <1>6, <1>7, <2>1, <2>2, <2>3, <2>4, <2>5
<1> QED BY <1>8, <1>9

-----------------------------------------------------------------------------
(***************************************************************************)
(* The store.  What a ring holds of the records s, of one kind.            *)
(***************************************************************************)
Kinds == {"frame", "stutter"}
OfKind(s, k) == {i \in DOMAIN s : KindOf(s[i]) = k}
Later(s, k, i) == {j \in OfKind(s, k) : j > i}

Holds(ring, s, k) ==
  /\ ring \in Seq(Record)
  /\ Len(ring) = Min({RingCap, Cardinality(OfKind(s, k))})
  /\ \A i \in OfKind(s, k) : Cardinality(Later(s, k, i)) < RingCap =>
       ring[Len(ring) - Cardinality(Later(s, k, i))] = s[i]

\* Those of a kind are finitely many, and fewer of them are later than one of them.
LEMMA LaterAreFewer ==
  ASSUME NEW s \in Seq(Record), NEW k
  PROVE  /\ IsFiniteSet(OfKind(s, k)) /\ Cardinality(OfKind(s, k)) \in Nat
         /\ \A i \in OfKind(s, k) :
              /\ IsFiniteSet(Later(s, k, i)) /\ Cardinality(Later(s, k, i)) \in Nat
              /\ Cardinality(Later(s, k, i)) < Cardinality(OfKind(s, k))
<1> DEFINE A == OfKind(s, k)
<1>1. A \in SUBSET (1 .. Len(s)) /\ Len(s) \in Nat
  BY DEF OfKind
<1>2. IsFiniteSet(1 .. Len(s))
  BY <1>1, FS_Interval
<1>3. IsFiniteSet(A) /\ Cardinality(A) \in Nat
  BY <1>1, <1>2, FS_Subset, FS_CardinalityType
<1>4. ASSUME NEW i \in A
      PROVE  /\ IsFiniteSet(Later(s, k, i)) /\ Cardinality(Later(s, k, i)) \in Nat
             /\ Cardinality(Later(s, k, i)) < Cardinality(A)
  <2>1. IsFiniteSet(A \ {i}) /\ Cardinality(A \ {i}) = Cardinality(A) - 1
    BY <1>3, <1>4, FS_RemoveElement
  <2>2. Later(s, k, i) \in SUBSET (A \ {i})
    BY <1>1 DEF Later
  <2>3. /\ IsFiniteSet(Later(s, k, i)) /\ Cardinality(Later(s, k, i)) \in Nat
        /\ Cardinality(Later(s, k, i)) <= Cardinality(A \ {i})
    BY <2>1, <2>2, FS_Subset, FS_CardinalityType
  <2> QED BY <1>3, <2>1, <2>3
<1> QED BY <1>3, <1>4

\* A record of another kind changes nothing.
LEMMA OtherKind ==
  ASSUME NEW s \in Seq(Record), NEW n \in Record, NEW k, KindOf(n) # k, NEW ring, Holds(ring, s, k)
  PROVE  Holds(ring, Append(s, n), k)
<1> DEFINE t == Append(s, n)
<1>1. /\ DOMAIN s = 1 .. Len(s) /\ DOMAIN t = 1 .. Len(s) + 1 /\ Len(s) \in Nat
      /\ t[Len(s) + 1] = n /\ \A i \in DOMAIN s : t[i] = s[i]
  OBVIOUS
<1> HIDE DEF t
<1>2. OfKind(t, k) = OfKind(s, k)
  BY <1>1 DEF OfKind
<1>3. \A i : Later(t, k, i) = Later(s, k, i)
  BY <1>2 DEF Later
<1>4. \A i \in OfKind(s, k) : t[i] = s[i]
  BY <1>1 DEF OfKind
<1>5. Holds(ring, t, k)
  BY <1>2, <1>3, <1>4 DEF Holds
<1> QED BY <1>5 DEF t

\* One of its kind becomes the newest, and what no longer fits is dropped.
LEMMA SameKind ==
  ASSUME NEW s \in Seq(Record), NEW n \in Record, NEW k, KindOf(n) = k, NEW ring, Holds(ring, s, k)
  PROVE  Holds(PushCapped(ring, n), Append(s, n), k)
<1> DEFINE t == Append(s, n)
           c == Cardinality(OfKind(s, k))
           longer == Append(ring, n)
           new == PushCapped(ring, n)
<1>1. /\ DOMAIN s = 1 .. Len(s) /\ DOMAIN t = 1 .. Len(s) + 1 /\ Len(s) \in Nat
      /\ t[Len(s) + 1] = n /\ \A i \in DOMAIN s : t[i] = s[i] /\ t \in Seq(Record)
  OBVIOUS
<1>2. RingCap \in Nat \ {0}
  BY ViewerAssumption DEF ViewerAssumption
<1>3. ring \in Seq(Record) /\ Len(ring) = Min({RingCap, c}) /\ Len(ring) \in Nat
  BY DEF Holds
<1>4. /\ longer \in Seq(Record) /\ Len(longer) = Len(ring) + 1 /\ longer[Len(ring) + 1] = n
      /\ \A i \in 1 .. Len(ring) : longer[i] = ring[i]
  <2>1. ring \in Seq(Record)
    BY <1>3
  <2> QED BY <2>1
<1> HIDE DEF t, longer
<1>5. PICK l \in Nat : l = Len(ring)
  BY <1>3
<1>6. PICK m \in Nat : /\ m = Min({RingCap, l + 1})
                       /\ m \in {RingCap, l + 1} /\ m <= RingCap /\ m <= l + 1
  <2>1. l + 1 \in Nat /\ RingCap \in Nat
    BY <1>2
  <2> QED BY <2>1, MinOfTwo
<1>7. m \in {RingCap, l + 1} /\ m <= RingCap /\ m <= l + 1 /\ m # 0
  BY <1>2, <1>6
<1>8. new = SubSeq(longer, l + 1 - m + 1, l + 1)
  <2>1. Len(longer) = l + 1
    BY <1>4, <1>5
  <2>2. new = SubSeq(longer, Len(longer) - Min({RingCap, Len(longer)}) + 1, Len(longer))
    BY DEF PushCapped, longer
  <2>3. Min({RingCap, Len(longer)}) = m
    BY <1>6, <2>1
  <2>4. new = SubSeq(longer, (l + 1) - m + 1, l + 1)
    BY <2>1, <2>2, <2>3, Zenon
  <2> QED BY <2>4
<1> HIDE DEF new
<1>9. /\ new \in Seq(Record) /\ Len(new) = m
      /\ \A i \in 1 .. m : new[i] = longer[l + 1 - m + i]
  <2>1. l + 1 - m \in 0 .. Len(longer) /\ Len(longer) = l + 1
    BY <1>4, <1>5, <1>7
  <2>2. /\ new \in Seq(Record) /\ Len(new) = l + 1 - (l + 1 - m)
        /\ \A i \in 1 .. Len(new) : new[i] = longer[l + 1 - m + i]
    BY <1>4, <1>8, <2>1, SuffixIs
  <2>3. l + 1 - (l + 1 - m) = m
    OBVIOUS
  <2> QED BY <2>2, <2>3
<1>10. c \in Nat /\ IsFiniteSet(OfKind(s, k))
  BY LaterAreFewer
<1>11. OfKind(t, k) = OfKind(s, k) \union {Len(s) + 1} /\ Len(s) + 1 \notin OfKind(s, k)
  BY <1>1 DEF OfKind
<1>12. Cardinality(OfKind(t, k)) = c + 1
  BY <1>10, <1>11, FS_AddElement
<1> HIDE DEF c
<1>13. l \in {RingCap, c} /\ l <= RingCap /\ l <= c
  BY <1>2, <1>3, <1>5, <1>10, MinOfTwo
<1>14. Len(new) = Min({RingCap, c + 1})
  <2>1. PICK d \in Nat : d = Min({RingCap, c + 1})
    BY <1>2, <1>10, MinOfTwo
  <2>2. d \in {RingCap, c + 1} /\ d <= RingCap /\ d <= c + 1
    BY <1>2, <1>10, <2>1, MinOfTwo
  <2>3. m = d
    BY <1>2, <1>7, <1>10, <1>13, <2>2
  <2> QED BY <1>9, <2>1, <2>3
<1>15. ASSUME NEW i \in OfKind(t, k), Cardinality(Later(t, k, i)) < RingCap
       PROVE  new[Len(new) - Cardinality(Later(t, k, i))] = t[i]
  <2>1. CASE i = Len(s) + 1
    <3>1. Later(t, k, i) = {}
      BY <1>1, <2>1 DEF Later, OfKind
    <3>2. Cardinality(Later(t, k, i)) = 0
      BY <3>1, FS_EmptySet
    <3>3. Len(new) - 0 = m /\ m \in 1 .. m /\ l + 1 - m + m = l + 1
      BY <1>7, <1>9
    <3>4. new[m] = longer[l + 1]
      BY <1>9, <3>3
    <3> QED BY <1>1, <1>4, <1>5, <2>1, <3>2, <3>3, <3>4
  <2>2. CASE i \in OfKind(s, k)
    <3>1. PICK e \in Nat : e = Cardinality(Later(s, k, i))
      BY <2>2, LaterAreFewer
    <3>2. e < c /\ IsFiniteSet(Later(s, k, i))
      BY <2>2, <3>1, LaterAreFewer DEF c
    <3>3. i \in 1 .. Len(s)
      BY <1>1, <2>2 DEF OfKind
    <3>4. /\ Later(t, k, i) = Later(s, k, i) \union {Len(s) + 1}
          /\ Len(s) + 1 \notin Later(s, k, i)
      BY <1>1, <1>11, <3>3 DEF Later
    <3>5. Cardinality(Later(t, k, i)) = e + 1
      BY <3>1, <3>2, <3>4, FS_AddElement
    <3>6. e + 1 < RingCap /\ e < RingCap
      BY <1>2, <1>15, <3>5
    <3>7. ring[l - e] = s[i]
      BY <1>5, <2>2, <3>1, <3>6 DEF Holds
    <3>8. l - e \in 1 .. l /\ m - (e + 1) \in 1 .. m /\ l + 1 - m + (m - (e + 1)) = l - e
      BY <1>2, <1>7, <1>10, <1>13, <3>2, <3>6
    <3>9. new[m - (e + 1)] = longer[l - e]
      BY <1>9, <3>8
    <3>10. longer[l - e] = ring[l - e]
      BY <1>4, <1>5, <3>8
    <3>11. t[i] = s[i]
      BY <1>1, <3>3
    <3> QED BY <1>9, <3>5, <3>7, <3>9, <3>10, <3>11
  <2> QED BY <1>11, <2>1, <2>2
<1> QED BY <1>9, <1>12, <1>14, <1>15 DEF Holds, t, new

-----------------------------------------------------------------------------
\* Both rings.
StoreHolds(store, s) == store \in [Kinds -> Seq(Record)] /\ \A k \in Kinds : Holds(store[k], s, k)

\* Ingest, of one record.
LEMMA IngestHolds ==
  ASSUME NEW s \in Seq(Record), NEW n \in Record, NEW store, StoreHolds(store, s)
  PROVE  StoreHolds(Ingest(store, n), Append(s, n))
<1>1. store \in [Kinds -> Seq(Record)] /\ KindOf(n) \in Kinds
  BY DEF StoreHolds, KindOf, Kinds
<1>2. \A k \in Kinds : Ingest(store, n)[k] = IF k = KindOf(n) THEN PushCapped(store[k], n)
                                             ELSE store[k]
  BY <1>1 DEF Ingest
<1>3. ASSUME NEW k \in Kinds
      PROVE  Holds(Ingest(store, n)[k], Append(s, n), k) /\ Ingest(store, n)[k] \in Seq(Record)
  <2>1. Holds(store[k], s, k)
    BY DEF StoreHolds
  <2>2. Holds(Ingest(store, n)[k], Append(s, n), k)
    <3>1. CASE k = KindOf(n)
      BY <1>2, <2>1, <3>1, SameKind
    <3>2. CASE k # KindOf(n)
      BY <1>2, <2>1, <3>2, OtherKind
    <3> QED BY <3>1, <3>2
  <2> QED BY <2>2 DEF Holds
<1>4. Ingest(store, n) = [k \in Kinds |-> Ingest(store, n)[k]]
  BY <1>1 DEF Ingest
<1>5. Ingest(store, n) \in [Kinds -> Seq(Record)]
  BY <1>3, <1>4
<1> QED BY <1>3, <1>5 DEF StoreHolds

\* g is what IngestAll computes on its way to record n.
IngestedTo(g, store, records, n) ==
  g = [i \in 0 .. n |-> IF i = 0 THEN store ELSE Ingest(g[i - 1], records[i])]

\* There is such a g, for the reason ParseExists gives.
LEMMA IngestExists ==
  ASSUME NEW N \in Nat, NEW a, NEW d
  PROVE  \E g : IngestedTo(g, a, d, N)
<1> DEFINE S == {m \in Nat : ~ \E g : IngestedTo(g, a, d, m)}
<1>1. ASSUME S # {} PROVE FALSE
  <2>1. PICK m \in S : \A y \in S : m <= y
    BY <1>1, LeastOf
  <2>2. m \in Nat /\ ~ \E g : IngestedTo(g, a, d, m)
    BY <2>1
  <2>3. CASE m = 0
    <3> DEFINE g == [n \in 0 .. 0 |-> a]
    <3>1. IngestedTo(g, a, d, 0)
      BY DEF IngestedTo
    <3> QED BY <2>2, <2>3, <3>1
  <2>4. CASE m # 0
    <3>1. m - 1 \in Nat /\ ~(m <= m - 1)
      BY <2>2, <2>4
    <3>2. m - 1 \notin S
      BY <2>1, <3>1
    <3>3. PICK f : IngestedTo(f, a, d, m - 1)
      BY <3>1, <3>2
    <3> DEFINE e == Ingest(f[m - 1], d[m])
               g == [n \in 0 .. m |-> IF n = m THEN e ELSE f[n]]
    <3>4. \A n \in 0 .. m - 1 : f[n] = IF n = 0 THEN a ELSE Ingest(f[n - 1], d[n])
      BY <3>3 DEF IngestedTo
    <3>5. \A n \in 0 .. m - 1 : g[n] = f[n]
      BY <2>2
    <3>6. g[m] = e
      BY <2>2
    <3>7. g = [n \in 0 .. m |-> g[n]]
      OBVIOUS
    <3> HIDE DEF g
    <3>8. \A n \in 0 .. m : g[n] = IF n = 0 THEN a ELSE Ingest(g[n - 1], d[n])
      <4> TAKE n \in 0 .. m
      <4>1. CASE n = m
        <5>1. g[n - 1] = f[m - 1] /\ n # 0
          BY <2>2, <2>4, <3>1, <3>5, <4>1
        <5> QED BY <3>6, <4>1, <5>1
      <4>2. CASE n # m
        <5>1. n \in 0 .. m - 1 /\ (n # 0 => n - 1 \in 0 .. m - 1)
          BY <2>2, <4>2
        <5> QED BY <3>4, <3>5, <5>1
      <4> QED BY <4>1, <4>2
    <3>9. IngestedTo(g, a, d, m)
      BY <3>7, <3>8 DEF IngestedTo
    <3> QED BY <2>2, <3>9
  <2> QED BY <2>3, <2>4
<1> QED BY <1>1

\* And of all that were drained, one by one.
LEMMA IngestAllHolds ==
  ASSUME NEW s \in Seq(Record), NEW d \in Seq(Record), NEW store, StoreHolds(store, s)
  PROVE  StoreHolds(IngestAll(store, d), s \o d)
<1> DEFINE N == Len(d)
           f == CHOOSE g : IngestedTo(g, store, d, N)
           P(i) == SubSeq(d, 1, i)
<1>1. N \in Nat /\ IngestedTo(f, store, d, N)
  BY IngestExists
<1>2. IngestAll(store, d) = f[N]
  BY DEF IngestAll, IngestedTo
<1> HIDE DEF f
<1>3. \A n \in 0 .. N : f[n] = IF n = 0 THEN store ELSE Ingest(f[n - 1], d[n])
  BY <1>1 DEF IngestedTo
<1> DEFINE S == {n \in 0 .. N : ~StoreHolds(f[n], s \o P(n))}
<1>4. ASSUME S # {} PROVE FALSE
  <2>1. S \in SUBSET Nat
    BY <1>1
  <2>2. PICK n \in S : \A y \in S : n <= y
    BY <1>4, <2>1, LeastOf
  <2>3. n \in 0 .. N /\ n \in Nat /\ ~StoreHolds(f[n], s \o P(n))
    BY <1>1, <2>2
  <2>4. CASE n = 0
    <3>1. P(0) = <<>> /\ f[0] = store
      BY <1>1, <1>3, PrefixIs
    <3>2. s \o <<>> = s
      BY ConcatEmptySeq
    <3> QED BY <2>3, <2>4, <3>1, <3>2
  <2>5. CASE n # 0
    <3>1. n - 1 \in 0 .. N /\ ~(n <= n - 1) /\ n \in DOMAIN d
      BY <1>1, <2>3, <2>5
    <3>2. StoreHolds(f[n - 1], s \o P(n - 1))
      BY <2>2, <3>1
    <3>3. d[n] \in Record
      BY <3>1
    <3>4. /\ P(n - 1) \in Seq(Record) /\ Len(P(n - 1)) = n - 1
          /\ \A i \in 1 .. n - 1 : P(n - 1)[i] = d[i]
      BY <3>1, PrefixIs
    <3>5. P(n) \in Seq(Record) /\ Len(P(n)) = n /\ \A i \in 1 .. n : P(n)[i] = d[i]
      BY <2>3, PrefixIs
    <3> DEFINE p == P(n - 1)
               q == P(n)
    <3> HIDE DEF P
    <3>6. s \o q = Append(s \o p, d[n])
      <4>1. q = Append(p, d[n])
        <5>1. /\ Append(p, d[n]) \in Seq(Record) /\ Len(Append(p, d[n])) = n
              /\ \A i \in 1 .. n : Append(p, d[n])[i] = d[i]
          BY <2>3, <2>5, <3>3, <3>4
        <5> QED BY <3>5, <5>1, SeqEqual
      <4>2. p \in Seq(Record)
        BY <3>4
      <4> HIDE DEF p, q
      <4> QED BY <3>3, <4>1, <4>2
    <3>7. s \o p \in Seq(Record)
      BY <3>4, ConcatProperties
    <3>8. StoreHolds(Ingest(f[n - 1], d[n]), Append(s \o p, d[n]))
      BY <3>2, <3>3, <3>7, IngestHolds
    <3>9. f[n] = Ingest(f[n - 1], d[n])
      BY <1>3, <2>3, <2>5
    <3> QED BY <2>3, <3>6, <3>8, <3>9
  <2> QED BY <2>4, <2>5
<1>5. N \in 0 .. N
  BY <1>1
<1>6. StoreHolds(f[N], s \o P(N))
  BY <1>4, <1>5
<1>7. P(N) = d
  <2>1. P(N) \in Seq(Record) /\ Len(P(N)) = N /\ \A i \in 1 .. N : P(N)[i] = d[i]
    BY <1>5, PrefixIs
  <2> QED BY <2>1, SeqEqual
<1> QED BY <1>2, <1>6, <1>7

-----------------------------------------------------------------------------
(***************************************************************************)
(* The stream of one source: what was taken from the pipe, s, the messages *)
(* that wait in it, u, and the number of records sent, n.  The records go  *)
(* up, and each is whole, but for those that the end of a connection cut.  *)
(***************************************************************************)
Stream(s, u, n) ==
  /\ InOrder(s)
  /\ \A i \in DOMAIN s : s[i][1] <= n
  /\ u # <<>> => InOrder(s \o u[1])
  /\ \A k \in DOMAIN u : /\ k > 1 => InOrder(u[k]) /\ Before(s, u[k])
                         /\ \A i \in DOMAIN u[k] : u[k][i][1] <= n
                         /\ \A j \in 1 .. k - 1 : Before(u[j], u[k])

\* Joining sequences may be grouped either way.
LEMMA Regroup ==
  \A a, b, c \in Seq(Fragment) : (a \o b) \o c = a \o (b \o c)
BY ConcatAssociative

\* Two sequences in order, one before the other.
LEMMA InOrderCat ==
  ASSUME NEW a \in Seq(Fragment), NEW b \in Seq(Fragment), InOrder(a), InOrder(b), Before(a, b)
  PROVE  InOrder(a \o b)
<1> DEFINE c == a \o b
<1>1. /\ DOMAIN a = 1 .. Len(a) /\ DOMAIN b = 1 .. Len(b) /\ Len(a) \in Nat /\ Len(b) \in Nat
      /\ DOMAIN c = 1 .. Len(a) + Len(b)
      /\ \A i \in 1 .. Len(a) : c[i] = a[i]
      /\ \A i \in 1 .. Len(b) : c[Len(a) + i] = b[i]
  OBVIOUS
<1> HIDE DEF c
<1>2. ASSUME NEW i \in DOMAIN c
      PROVE  /\ EndsLine(c[i]) => i > 1 /\ c[i - 1] = Opening(c[i][1])
             /\ ~EndsLine(c[i]) => \A j \in 1 .. i - 1 : c[j][1] < c[i][1]
  <2>1. CASE i <= Len(a)
    <3>1. i \in 1 .. Len(a) /\ c[i] = a[i] /\ \A j \in 1 .. i - 1 : c[j] = a[j]
      BY <1>1, <2>1
    <3>2. EndsLine(a[i]) => i > 1 /\ a[i - 1] = Opening(a[i][1])
      BY <1>1, <3>1 DEF InOrder
    <3>3. ~EndsLine(a[i]) => \A j \in 1 .. i - 1 : a[j][1] < a[i][1]
      BY <1>1, <3>1 DEF InOrder
    <3>4. i > 1 => c[i - 1] = a[i - 1]
      BY <1>1, <3>1
    <3> QED BY <3>1, <3>2, <3>3, <3>4
  <2>2. CASE ~(i <= Len(a))
    <3>1. PICK k \in 1 .. Len(b) : i = Len(a) + k
      <4>1. i - Len(a) \in 1 .. Len(b) /\ i = Len(a) + (i - Len(a))
        BY <1>1, <2>2
      <4> QED BY <4>1
    <3>2. c[i] = b[k]
      BY <1>1, <3>1
    <3>3. EndsLine(b[k]) => k > 1 /\ b[k - 1] = Opening(b[k][1])
      BY <1>1 DEF InOrder
    <3>4. k > 1 => i > 1 /\ c[i - 1] = b[k - 1]
      <4>1. SUFFICES ASSUME k > 1 PROVE i > 1 /\ c[i - 1] = b[k - 1]
        OBVIOUS
      <4>2. k - 1 \in 1 .. Len(b) /\ i - 1 = Len(a) + (k - 1) /\ i > 1
        BY <1>1, <3>1, <4>1
      <4> QED BY <1>1, <4>2
    <3>5. ASSUME ~EndsLine(b[k]), NEW j \in 1 .. i - 1 PROVE c[j][1] < c[i][1]
      <4>1. CASE j <= Len(a)
        <5>1. j \in 1 .. Len(a)
          BY <1>1, <4>1
        <5> QED BY <1>1, <3>2, <5>1 DEF Before
      <4>2. CASE ~(j <= Len(a))
        <5>1. j - Len(a) \in 1 .. k - 1 /\ j = Len(a) + (j - Len(a)) /\ j - Len(a) \in 1 .. Len(b)
          BY <1>1, <3>1, <4>2
        <5>2. b[j - Len(a)][1] < b[k][1]
          BY <1>1, <3>5, <5>1 DEF InOrder
        <5>3. c[j] = b[j - Len(a)]
          BY <1>1, <5>1
        <5> QED BY <3>2, <5>2, <5>3
      <4> QED BY <4>1, <4>2
    <3> QED BY <3>2, <3>3, <3>4, <3>5
  <2> QED BY <2>1, <2>2
<1>3. InOrder(c)
  BY <1>2 DEF InOrder
<1> QED BY <1>3 DEF c

\* What comes first of a sequence in order is in order.
LEMMA InOrderPrefix ==
  ASSUME NEW a \in Seq(Fragment), NEW b \in Seq(Fragment), InOrder(a \o b)
  PROVE  InOrder(a)
<1> DEFINE c == a \o b
<1>1. /\ DOMAIN a = 1 .. Len(a) /\ Len(a) \in Nat /\ Len(b) \in Nat
      /\ DOMAIN c = 1 .. Len(a) + Len(b)
      /\ \A i \in 1 .. Len(a) : c[i] = a[i]
  OBVIOUS
<1>2. InOrder(c)
  OBVIOUS
<1> HIDE DEF c
<1>3. ASSUME NEW i \in DOMAIN a
      PROVE  /\ EndsLine(a[i]) => i > 1 /\ a[i - 1] = Opening(a[i][1])
             /\ ~EndsLine(a[i]) => \A j \in 1 .. i - 1 : a[j][1] < a[i][1]
  <2>1. i \in DOMAIN c /\ c[i] = a[i] /\ \A j \in 1 .. i - 1 : c[j] = a[j]
    BY <1>1
  <2>2. EndsLine(c[i]) => i > 1 /\ c[i - 1] = Opening(c[i][1])
    BY <1>2, <2>1 DEF InOrder
  <2>3. ~EndsLine(c[i]) => \A j \in 1 .. i - 1 : c[j][1] < c[i][1]
    BY <1>2, <2>1 DEF InOrder
  <2>4. i > 1 => c[i - 1] = a[i - 1]
    BY <1>1, <2>1
  <2> QED BY <2>1, <2>2, <2>3, <2>4
<1> QED BY <1>3 DEF InOrder

\* So is one that is cut short.
LEMMA InOrderFront ==
  ASSUME NEW a \in Seq(Fragment), InOrder(a), NEW e \in 0 .. Len(a)
  PROVE  InOrder(SubSeq(a, 1, e))
<1>1. SubSeq(a, 1, e) \in Seq(Fragment) /\ SubSeq(a, e + 1, Len(a)) \in Seq(Fragment)
  BY PrefixIs, SuffixIs
<1>2. InOrder(SubSeq(a, 1, e) \o SubSeq(a, e + 1, Len(a)))
  BY PrefixIs
<1> QED BY <1>1, <1>2, InOrderPrefix

\* The newlines of a sequence in order end records that go up.
LEMMA ClosingsAscend ==
  ASSUME NEW t \in Seq(Fragment), InOrder(t), NEW i \in DOMAIN t, NEW j \in DOMAIN t, i < j,
         EndsLine(t[i]), EndsLine(t[j])
  PROVE  t[i][1] < t[j][1]
<1>1. i \in Nat /\ j \in Nat /\ DOMAIN t = 1 .. Len(t) /\ Len(t) \in Nat
  OBVIOUS
<1>2. j > 1 /\ t[j - 1] = Opening(t[j][1])
  BY DEF InOrder
<1>3. ~EndsLine(t[j - 1]) /\ t[j - 1][1] = t[j][1]
  BY <1>2, FragmentIs
<1>4. i # j - 1
  BY <1>3
<1>5. j - 1 \in DOMAIN t /\ i \in 1 .. (j - 1) - 1
  BY <1>1, <1>2, <1>4
<1>6. t[i][1] < t[j - 1][1]
  BY <1>3, <1>5 DEF InOrder
<1> QED BY <1>3, <1>6

-----------------------------------------------------------------------------
(* The steps of the stream.                                                *)

\* The plugin sends whole records, the next ones.
LEMMA StreamSend ==
  ASSUME NEW s \in Seq(Fragment), NEW u \in Seq(Seq(Fragment)), NEW n \in Nat, NEW c \in Nat,
         n + c <= MaxRecords, Stream(s, u, n)
  PROVE  Stream(s, Append(u, Wire(n + 1, c)), n + c)
<1> DEFINE w == Wire(n + 1, c)
           v == Append(u, w)
<1>1. n + c <= Max({MaxRecords, FileRecords})
  <2>1. MaxRecords \in Nat /\ FileRecords \in Nat
    BY SourceAssumption DEF SourceAssumption
  <2>2. Max({MaxRecords, FileRecords}) \in Nat /\ MaxRecords <= Max({MaxRecords, FileRecords})
    BY <2>1, MaxOfTwo
  <2> QED BY <2>1, <2>2
<1>2. /\ w \in Seq(Fragment) /\ InOrder(w)
      /\ \A i \in DOMAIN w : w[i][1] >= n + 1 /\ w[i][1] <= n + c
  BY <1>1, WireIs
<1> HIDE DEF w
<1>3. /\ DOMAIN u = 1 .. Len(u) /\ Len(u) \in Nat /\ DOMAIN v = 1 .. Len(u) + 1
      /\ v[Len(u) + 1] = w /\ v # <<>> /\ \A k \in DOMAIN u : v[k] = u[k]
  <2>1. w \in Seq(Fragment)
    BY <1>2
  <2>2. /\ v \in Seq(Seq(Fragment)) /\ Len(v) = Len(u) + 1
        /\ \A i \in 1 .. Len(u) : v[i] = u[i]
        /\ v[Len(u) + 1] = w
    BY <2>1, AppendProperties
  <2>3. DOMAIN u = 1 .. Len(u) /\ Len(u) \in Nat
    OBVIOUS
  <2> HIDE DEF v
  <2>4. DOMAIN v = 1 .. Len(u) + 1 /\ v # <<>>
    BY <2>2, <2>3
  <2> QED BY <2>2, <2>3, <2>4
<1> HIDE DEF v
<1>4. \A f \in Fragment : f[1] \in Nat
  BY FragmentIs
<1>5. \A q \in Seq(Fragment) : \A i \in DOMAIN q : q[i][1] \in Nat
  BY <1>4
<1>6. ASSUME NEW q \in Seq(Fragment), \A i \in DOMAIN q : q[i][1] <= n
      PROVE  Before(q, w) /\ \A i \in DOMAIN q : q[i][1] <= n + c
  BY <1>2, <1>5, <1>6 DEF Before
<1>7. InOrder(s) /\ \A i \in DOMAIN s : s[i][1] <= n
  BY DEF Stream
<1>8. Before(s, w) /\ \A i \in DOMAIN s : s[i][1] <= n + c
  BY <1>6, <1>7
<1>9. InOrder(s \o v[1])
  <2>1. CASE Len(u) = 0
    BY <1>2, <1>3, <1>7, <1>8, <2>1, InOrderCat
  <2>2. CASE Len(u) # 0
    <3>1. 1 \in DOMAIN u /\ u # <<>>
      <4>1. DOMAIN u = 1 .. Len(u) /\ Len(u) \in Nat
        BY <1>3
      <4> QED BY <2>2, <4>1
    <3>2. v[1] = u[1]
      BY <1>3, <3>1
    <3> QED BY <3>1, <3>2 DEF Stream
  <2> QED BY <2>1, <2>2
<1>10. \A k \in DOMAIN u : Before(u[k], w) /\ \A i \in DOMAIN u[k] : u[k][i][1] <= n + c
  <2> TAKE k \in DOMAIN u
  <2>1. u[k] \in Seq(Fragment) /\ \A i \in DOMAIN u[k] : u[k][i][1] <= n
    BY DEF Stream
  <2> QED BY <1>6, <2>1
<1>11. ASSUME NEW k \in DOMAIN v
       PROVE  /\ k > 1 => InOrder(v[k]) /\ Before(s, v[k])
              /\ \A i \in DOMAIN v[k] : v[k][i][1] <= n + c
              /\ \A j \in 1 .. k - 1 : Before(v[j], v[k])
  <2>0. k \in 1 .. Len(u) + 1
    BY <1>3
  <2>1. CASE k = Len(u) + 1
    <3>1. v[k] = w
      BY <1>3, <2>1
    <3>2. \A j \in 1 .. k - 1 : v[j] = u[j] /\ j \in DOMAIN u
      <4>1. k - 1 = Len(u)
        BY <1>3, <2>1
      <4> QED BY <1>3, <4>1
    <3> QED BY <1>2, <1>8, <1>10, <3>1, <3>2
  <2>2. CASE k # Len(u) + 1
    <3>1. k \in DOMAIN u /\ v[k] = u[k] /\ \A j \in 1 .. k - 1 : v[j] = u[j]
      <4>1. k \in 1 .. Len(u) /\ \A j \in 1 .. k - 1 : j \in 1 .. Len(u)
        BY <1>3, <2>0, <2>2
      <4> QED BY <1>3, <4>1
    <3>2. /\ k > 1 => InOrder(u[k]) /\ Before(s, u[k])
          /\ \A j \in 1 .. k - 1 : Before(u[j], u[k])
      BY <3>1 DEF Stream
    <3> QED BY <1>10, <3>1, <3>2
  <2> QED BY <2>1, <2>2
<1>12. Stream(s, v, n + c)
  BY <1>7, <1>8, <1>9, <1>11 DEF Stream
<1> QED BY <1>12 DEF v, w

\* What waits is lost with the connection.
LEMMA StreamCut ==
  ASSUME NEW s, NEW u, NEW n, Stream(s, u, n)
  PROVE  Stream(s, <<>>, n)
BY DEF Stream

\* A message is taken.
LEMMA StreamTake ==
  ASSUME NEW s \in Seq(Fragment), NEW u \in Seq(Seq(Fragment)), NEW n \in Nat, u # <<>>,
         Stream(s, u, n)
  PROVE  Stream(s \o Head(u), Tail(u), n)
<1> DEFINE m == Head(u)
           v == Tail(u)
           t == s \o m
<1>1. /\ DOMAIN u = 1 .. Len(u) /\ Len(u) \in Nat /\ Len(u) # 0 /\ 1 \in DOMAIN u
      /\ m = u[1] /\ m \in Seq(Fragment) /\ v \in Seq(Seq(Fragment))
      /\ Len(v) = Len(u) - 1 /\ DOMAIN v = 1 .. Len(u) - 1
      /\ \A k \in DOMAIN v : v[k] = u[k + 1] /\ k + 1 \in DOMAIN u /\ k + 1 > 1
  OBVIOUS
<1> HIDE DEF m, v
<1>2. /\ t \in Seq(Fragment) /\ DOMAIN t = 1 .. Len(s) + Len(m) /\ DOMAIN s = 1 .. Len(s)
      /\ Len(s) \in Nat /\ Len(m) \in Nat /\ DOMAIN m = 1 .. Len(m)
      /\ \A i \in 1 .. Len(s) : t[i] = s[i]
      /\ \A i \in 1 .. Len(m) : t[Len(s) + i] = m[i]
  BY <1>1
<1>3. InOrder(t)
  BY <1>1 DEF Stream, t
<1> HIDE DEF t
<1>4. \A i \in DOMAIN t : \/ i \in DOMAIN s /\ t[i] = s[i]
                          \/ \E j \in DOMAIN m : t[i] = m[j]
  <2> TAKE i \in DOMAIN t
  <2>1. CASE i <= Len(s)
    BY <1>2, <2>1
  <2>2. CASE ~(i <= Len(s))
    <3>1. i - Len(s) \in 1 .. Len(m) /\ Len(s) + (i - Len(s)) = i
      BY <1>2, <2>2
    <3>2. t[i] = m[i - Len(s)]
      BY <1>2, <3>1
    <3> QED BY <1>2, <3>1, <3>2
  <2> QED BY <2>1, <2>2
<1>5. \A i \in DOMAIN t : t[i][1] <= n
  <2>1. \A i \in DOMAIN s : s[i][1] <= n
    BY DEF Stream
  <2>2. \A j \in DOMAIN m : m[j][1] <= n
    BY <1>1 DEF Stream
  <2> QED BY <1>4, <2>1, <2>2
<1>6. ASSUME NEW k \in DOMAIN v
      PROVE  /\ InOrder(v[k]) /\ Before(t, v[k]) /\ \A i \in DOMAIN v[k] : v[k][i][1] <= n
             /\ \A j \in 1 .. k - 1 : Before(v[j], v[k])
  <2>1. v[k] = u[k + 1] /\ k + 1 \in DOMAIN u /\ k + 1 > 1 /\ k \in Nat
    BY <1>1
  <2>2. /\ InOrder(u[k + 1]) /\ Before(s, u[k + 1])
        /\ \A i \in DOMAIN u[k + 1] : u[k + 1][i][1] <= n
        /\ \A j \in 1 .. k + 1 - 1 : Before(u[j], u[k + 1])
    BY <2>1 DEF Stream
  <2>3. Before(m, u[k + 1])
    <3>1. 1 \in 1 .. k + 1 - 1
      BY <1>1, <2>1
    <3> QED BY <1>1, <2>2, <3>1
  <2>4. Before(t, u[k + 1])
    BY <1>4, <2>2, <2>3 DEF Before
  <2>5. \A j \in 1 .. k - 1 : v[j] = u[j + 1] /\ j + 1 \in 1 .. k + 1 - 1
    <3> TAKE j \in 1 .. k - 1
    <3>1. DOMAIN v = 1 .. Len(u) - 1 /\ Len(u) \in Nat
      BY <1>1
    <3>2. k \in 1 .. Len(u) - 1
      BY <3>1
    <3>3. j \in 1 .. Len(u) - 1 /\ j + 1 \in 1 .. k + 1 - 1
      BY <3>1, <3>2
    <3>4. v[j] = u[j + 1]
      BY <1>1, <3>1, <3>3
    <3> QED BY <3>3, <3>4
  <2> QED BY <2>1, <2>2, <2>4, <2>5
<1>7. v # <<>> => InOrder(t \o v[1])
  <2>1. SUFFICES ASSUME v # <<>> PROVE InOrder(t \o v[1])
    OBVIOUS
  <2>2. 1 \in DOMAIN v /\ v[1] \in Seq(Fragment)
    BY <1>1, <2>1
  <2> QED BY <1>2, <1>3, <1>6, <2>2, InOrderCat
<1>8. Stream(t, v, n)
  BY <1>3, <1>5, <1>6, <1>7 DEF Stream
<1> QED BY <1>8 DEF t, v, m

\* A part of one is taken; what is left of it goes on where the part ends.
LEMMA StreamTakePart ==
  ASSUME NEW s \in Seq(Fragment), NEW u \in Seq(Seq(Fragment)), NEW n \in Nat, u # <<>>,
         Stream(s, u, n), NEW e \in 0 .. Len(Head(u))
  PROVE  Stream(s \o SubSeq(Head(u), 1, e),
                <<SubSeq(Head(u), e + 1, Len(Head(u)))>> \o Tail(u), n)
<1> DEFINE m == Head(u)
           p == SubSeq(m, 1, e)
           r == SubSeq(m, e + 1, Len(m))
           v == <<r>> \o Tail(u)
           t == s \o p
<1>1. /\ DOMAIN u = 1 .. Len(u) /\ Len(u) \in Nat /\ Len(u) # 0 /\ 1 \in DOMAIN u
      /\ m = u[1] /\ m \in Seq(Fragment) /\ Tail(u) \in Seq(Seq(Fragment))
      /\ Len(Tail(u)) = Len(u) - 1 /\ \A k \in 1 .. Len(u) - 1 : Tail(u)[k] = u[k + 1]
  OBVIOUS
<1> HIDE DEF m
<1>2. /\ p \in Seq(Fragment) /\ Len(p) = e /\ \A i \in 1 .. e : p[i] = m[i]
      /\ r \in Seq(Fragment) /\ Len(r) = Len(m) - e /\ \A i \in 1 .. Len(r) : r[i] = m[e + i]
      /\ p \o r = m /\ e \in 0 .. Len(m)
  <2>1. e \in 0 .. Len(m) /\ m \in Seq(Fragment)
    BY <1>1 DEF m
  <2>2. p \in Seq(Fragment) /\ Len(p) = e /\ (\A i \in 1 .. e : p[i] = m[i]) /\ p \o r = m
    BY <2>1, PrefixIs
  <2>3. r \in Seq(Fragment) /\ Len(r) = Len(m) - e /\ \A i \in 1 .. Len(r) : r[i] = m[e + i]
    BY <2>1, SuffixIs
  <2> QED BY <2>1, <2>2, <2>3
<1> HIDE DEF p, r
<1>3. /\ v \in Seq(Seq(Fragment)) /\ DOMAIN v = DOMAIN u /\ v[1] = r /\ v # <<>>
      /\ \A k \in DOMAIN u : k > 1 => v[k] = u[k]
  <2>1. <<r>> \in Seq(Seq(Fragment)) /\ Len(<<r>>) = 1 /\ <<r>>[1] = r
    BY <1>2
  <2>2. /\ v \in Seq(Seq(Fragment)) /\ Len(v) = Len(<<r>>) + Len(Tail(u))
        /\ \A i \in 1 .. Len(<<r>>) + Len(Tail(u)) :
             v[i] = IF i <= Len(<<r>>) THEN <<r>>[i] ELSE Tail(u)[i - Len(<<r>>)]
    BY <1>1, <2>1, ConcatProperties
  <2>3. Len(v) = Len(u) /\ DOMAIN v = 1 .. Len(v)
    BY <1>1, <2>1, <2>2
  <2>4. ASSUME NEW k \in 1 .. Len(u) PROVE v[k] = IF k = 1 THEN r ELSE u[k]
    <3>1. v[k] = IF k <= 1 THEN <<r>>[k] ELSE Tail(u)[k - 1]
      BY <1>1, <2>1, <2>2
    <3>2. CASE k = 1
      BY <2>1, <3>1, <3>2
    <3>3. CASE k # 1
      <4>1. k - 1 \in 1 .. Len(u) - 1 /\ (k - 1) + 1 = k /\ ~(k <= 1)
        BY <1>1, <3>3
      <4> QED BY <1>1, <3>1, <3>3, <4>1
    <3> QED BY <3>2, <3>3
  <2>5. v # <<>>
    BY <1>1, <2>3
  <2> QED BY <1>1, <2>2, <2>3, <2>4, <2>5
<1> HIDE DEF v
<1>4. /\ t \in Seq(Fragment) /\ DOMAIN t = 1 .. Len(s) + e /\ DOMAIN s = 1 .. Len(s)
      /\ Len(s) \in Nat /\ Len(m) \in Nat /\ DOMAIN m = 1 .. Len(m)
      /\ \A i \in 1 .. Len(s) : t[i] = s[i]
      /\ \A i \in 1 .. e : t[Len(s) + i] = p[i]
  <2>1. t \in Seq(Fragment) /\ Len(t) = Len(s) + e
    BY <1>2, ConcatProperties
  <2>2. \A i \in 1 .. Len(s) : t[i] = s[i]
    BY <1>2
  <2>3. \A i \in 1 .. e : t[Len(s) + i] = p[i]
    BY <1>2
  <2> QED BY <1>1, <2>1, <2>2, <2>3
<1>5. t \o r = s \o m
  <2>1. p \in Seq(Fragment) /\ r \in Seq(Fragment) /\ p \o r = m
    BY <1>2
  <2>2. (s \o p) \o r = s \o (p \o r)
    BY <2>1, Regroup
  <2> QED BY <2>1, <2>2
<1>6. InOrder(s \o m)
  BY <1>1 DEF Stream
<1>7. InOrder(t \o v[1]) /\ InOrder(t)
  BY <1>2, <1>3, <1>4, <1>5, <1>6, InOrderPrefix
<1> HIDE DEF t
<1>8. \A i \in DOMAIN t : \/ i \in DOMAIN s /\ t[i] = s[i]
                          \/ \E j \in DOMAIN m : t[i] = m[j]
  <2> TAKE i \in DOMAIN t
  <2>1. CASE i <= Len(s)
    BY <1>4, <2>1
  <2>2. CASE ~(i <= Len(s))
    <3>1. i - Len(s) \in 1 .. e /\ Len(s) + (i - Len(s)) = i /\ i - Len(s) \in DOMAIN m
      BY <1>2, <1>4, <2>2
    <3>2. t[i] = m[i - Len(s)]
      BY <1>2, <1>4, <3>1
    <3> QED BY <3>1, <3>2
  <2> QED BY <2>1, <2>2
<1>9. \A i \in DOMAIN r : e + i \in DOMAIN m /\ r[i] = m[e + i]
  <2> TAKE i \in DOMAIN r
  <2>1. i \in 1 .. Len(r) /\ Len(r) \in Nat
    <3>1. r \in Seq(Fragment)
      BY <1>2
    <3> QED BY <3>1
  <2>2. e + i \in 1 .. Len(m)
    BY <1>2, <1>4, <2>1
  <2> QED BY <1>2, <1>4, <2>1, <2>2
<1>10. \A i \in DOMAIN t : t[i][1] <= n
  <2>1. \A i \in DOMAIN s : s[i][1] <= n
    BY DEF Stream
  <2>2. \A j \in DOMAIN m : m[j][1] <= n
    BY <1>1 DEF Stream
  <2> QED BY <1>8, <2>1, <2>2
<1>11. ASSUME NEW k \in DOMAIN v
       PROVE  /\ k > 1 => InOrder(v[k]) /\ Before(t, v[k])
              /\ \A i \in DOMAIN v[k] : v[k][i][1] <= n
              /\ \A j \in 1 .. k - 1 : Before(v[j], v[k])
  <2>1. CASE k = 1
    <3>1. \A i \in DOMAIN r : r[i][1] <= n
      BY <1>1, <1>9 DEF Stream
    <3> QED BY <1>3, <2>1, <3>1
  <2>2. CASE k # 1
    <3>1. k \in DOMAIN u /\ k > 1 /\ v[k] = u[k]
      BY <1>1, <1>3, <2>2
    <3>2. /\ InOrder(u[k]) /\ Before(s, u[k]) /\ \A i \in DOMAIN u[k] : u[k][i][1] <= n
          /\ \A j \in 1 .. k - 1 : Before(u[j], u[k])
      BY <3>1 DEF Stream
    <3>3. Before(m, u[k])
      <4>1. 1 \in 1 .. k - 1
        BY <1>1, <3>1
      <4> QED BY <1>1, <3>2, <4>1
    <3>4. Before(t, u[k])
      BY <1>8, <3>2, <3>3 DEF Before
    <3>5. Before(r, u[k])
      BY <1>9, <3>3 DEF Before
    <3>6. \A j \in 1 .. k - 1 : Before(v[j], u[k])
      <4> TAKE j \in 1 .. k - 1
      <4>1. CASE j = 1
        BY <1>3, <3>5, <4>1
      <4>2. CASE j # 1
        <5>1. v[j] = u[j]
          <6>1. j \in 1 .. Len(u) /\ j > 1
            BY <1>1, <3>1, <4>2
          <6> QED BY <1>1, <1>3, <6>1
        <5> QED BY <3>2, <5>1
      <4> QED BY <4>1, <4>2
    <3> QED BY <3>1, <3>2, <3>4, <3>6
  <2> QED BY <2>1, <2>2
<1>12. Stream(t, v, n)
  BY <1>7, <1>10, <1>11 DEF Stream
<1> QED BY <1>12 DEF t, v, m, p, r

-----------------------------------------------------------------------------
(***************************************************************************)
(* Feed.  _scratch is the unfinished line at the end of what was fed, or,  *)
(* after an overflow, a shorter end of it; nothing is kept of a line only  *)
(* if there were two fragments of it or more.                              *)
(***************************************************************************)
Framed(rest, all) ==
  /\ \A i \in DOMAIN rest : ~EndsLine(rest[i])
  /\ Len(rest) <= Len(all)
  /\ \A i \in DOMAIN rest : rest[i] = all[Len(all) - Len(rest) + i]
  /\ all # <<>> /\ rest = <<>> /\ ~EndsLine(all[Len(all)]) =>
       Len(all) > 1 /\ ~EndsLine(all[Len(all) - 1])

\* What was received is of what was fed: LostOnlyAfterTear, for any two such sequences.
Got(received, all) ==
  /\ \A i \in 1 .. Len(received) - 1 : received[i] < received[i + 1]
  /\ \A i \in DOMAIN all : EndsLine(all[i]) =>
       \/ \E k \in DOMAIN received : received[k] = all[i][1]
       \/ i = 1
       \/ i > 2 /\ ~EndsLine(all[i - 2])
  /\ \A k \in DOMAIN received : \E i \in DOMAIN all :
       i > 1 /\ all[i - 1] = Opening(received[k]) /\ all[i] = Closing(received[k])

\* What the concatenation of two sequences holds.
LEMMA CatIs ==
  ASSUME NEW S, NEW a \in Seq(S), NEW b \in Seq(S)
  PROVE  /\ a \o b \in Seq(S) /\ Len(a \o b) = Len(a) + Len(b)
         /\ DOMAIN (a \o b) = 1 .. Len(a) + Len(b)
         /\ DOMAIN a = 1 .. Len(a) /\ DOMAIN b = 1 .. Len(b) /\ Len(a) \in Nat /\ Len(b) \in Nat
         /\ \A i \in 1 .. Len(a) : (a \o b)[i] = a[i]
         /\ \A i \in 1 .. Len(b) : (a \o b)[Len(a) + i] = b[i]
OBVIOUS

\* Feed keeps the end of the line that is not finished.
LEMMA FeedFrames ==
  ASSUME NEW all \in Seq(Fragment), NEW rest \in Seq(Fragment), NEW more \in Seq(Fragment),
         Framed(rest, all)
  PROVE  Framed(Rest(rest \o more), all \o more)
<1> DEFINE s == rest \o more
           t == all \o more
           r == Rest(s)
<1>1. /\ s \in Seq(Fragment) /\ Len(s) = Len(rest) + Len(more)
      /\ \A i \in 1 .. Len(rest) : s[i] = rest[i]
      /\ \A i \in 1 .. Len(more) : s[Len(rest) + i] = more[i]
      /\ DOMAIN rest = 1 .. Len(rest) /\ Len(rest) \in Nat /\ Len(more) \in Nat
  BY CatIs
<1>2. /\ t \in Seq(Fragment) /\ Len(t) = Len(all) + Len(more)
      /\ \A i \in 1 .. Len(all) : t[i] = all[i]
      /\ \A i \in 1 .. Len(more) : t[Len(all) + i] = more[i]
      /\ Len(all) \in Nat
  BY CatIs
<1>3. /\ r \in Seq(Fragment) /\ Len(r) <= Len(s) /\ Len(r) \in Nat /\ DOMAIN r = 1 .. Len(r)
      /\ \A i \in DOMAIN r : ~EndsLine(r[i]) /\ r[i] = s[Len(s) - Len(r) + i]
      /\ s # <<>> /\ r = <<>> /\ ~EndsLine(s[Len(s)]) => Len(s) > 1 /\ ~EndsLine(s[Len(s) - 1])
  <2>1. r \in Seq(Fragment)
    BY <1>1, RestIs
  <2>2. Len(r) \in Nat /\ DOMAIN r = 1 .. Len(r)
    BY <2>1
  <2> QED BY <1>1, <2>1, <2>2, RestIs
<1> HIDE DEF r
<1>4. /\ Len(rest) <= Len(all)
      /\ \A i \in 1 .. Len(rest) : rest[i] = all[Len(all) - Len(rest) + i]
  BY <1>1 DEF Framed
<1> HIDE DEF s, t
<1>5. PICK d \in Nat : d = Len(all) - Len(rest)
  <2>1. Len(rest) \in Nat
    BY <1>1
  <2>2. Len(all) \in Nat
    BY <1>2
  <2>3. Len(rest) <= Len(all)
    BY <1>4
  <2>4. Len(all) - Len(rest) \in Nat
    BY <2>1, <2>2, <2>3
  <2> QED BY <2>4
<1>6. Len(t) = d + Len(s) /\ Len(s) \in Nat
  <2>1. Len(s) = Len(rest) + Len(more) /\ Len(rest) \in Nat /\ Len(more) \in Nat
    BY <1>1
  <2>2. Len(t) = Len(all) + Len(more) /\ Len(all) \in Nat
    BY <1>2
  <2> QED BY <1>5, <2>1, <2>2
<1>7. \A i \in 1 .. Len(s) : s[i] = t[d + i]
  <2> TAKE i \in 1 .. Len(s)
  <2>1. CASE i <= Len(rest)
    <3>1. i \in 1 .. Len(rest) /\ Len(all) - Len(rest) + i = d + i /\ d + i \in 1 .. Len(all)
      BY <1>1, <1>2, <1>4, <1>5, <2>1
    <3>2. s[i] = rest[i] /\ rest[i] = all[d + i] /\ t[d + i] = all[d + i]
      BY <1>1, <1>2, <1>4, <3>1
    <3> QED BY <3>2
  <2>2. CASE ~(i <= Len(rest))
    <3>1. /\ i - Len(rest) \in 1 .. Len(more) /\ Len(rest) + (i - Len(rest)) = i
          /\ Len(all) + (i - Len(rest)) = d + i
      BY <1>1, <1>2, <1>5, <2>2
    <3>2. s[i] = more[i - Len(rest)] /\ t[d + i] = more[i - Len(rest)]
      BY <1>1, <1>2, <3>1
    <3> QED BY <3>2
  <2> QED BY <2>1, <2>2
<1>8. \A i \in DOMAIN r : ~EndsLine(r[i]) /\ r[i] = t[Len(t) - Len(r) + i]
  <2> TAKE i \in DOMAIN r
  <2>1. i \in 1 .. Len(r)
    BY <1>3
  <2>2. Len(s) - Len(r) + i \in 1 .. Len(s) /\ d + (Len(s) - Len(r) + i) = Len(t) - Len(r) + i
    BY <1>3, <1>6, <2>1
  <2> QED BY <1>3, <1>7, <2>2
<1>9. Len(r) <= Len(t)
  BY <1>3, <1>6
<1>10. ASSUME t # <<>>, r = <<>>, ~EndsLine(t[Len(t)])
       PROVE  Len(t) > 1 /\ ~EndsLine(t[Len(t) - 1])
  <2>1. CASE Len(s) # 0
    <3>1. s # <<>> /\ Len(s) \in 1 .. Len(s)
      BY <1>1, <1>6, <2>1
    <3>2. s[Len(s)] = t[Len(t)]
      BY <1>6, <1>7, <3>1
    <3>3. Len(s) > 1 /\ ~EndsLine(s[Len(s) - 1])
      BY <1>3, <1>10, <3>1, <3>2
    <3>4. Len(s) - 1 \in 1 .. Len(s) /\ d + (Len(s) - 1) = Len(t) - 1 /\ Len(t) > 1
      BY <1>6, <3>3
    <3> QED BY <1>7, <3>3, <3>4
  <2>2. CASE Len(s) = 0
    <3>1. Len(rest) = 0 /\ Len(more) = 0
      BY <1>1, <2>2
    <3>2. rest = <<>> /\ Len(t) = Len(all)
      BY <1>1, <1>2, <3>1
    <3>3. Len(t) # 0
      BY <1>2, <1>10
    <3>4. all # <<>> /\ Len(all) \in 1 .. Len(all)
      BY <1>2, <3>2, <3>3
    <3>5. all[Len(all)] = t[Len(t)]
      BY <1>2, <3>2, <3>4
    <3>6. Len(all) > 1 /\ ~EndsLine(all[Len(all) - 1])
      BY <1>10, <3>2, <3>4, <3>5 DEF Framed
    <3>7. Len(all) - 1 \in 1 .. Len(all)
      BY <1>2, <3>6
    <3> QED BY <1>2, <3>2, <3>6, <3>7
  <2> QED BY <2>1, <2>2
<1>11. Framed(r, t)
  BY <1>8, <1>9, <1>10 DEF Framed
<1> QED BY <1>11 DEF r, s, t

\* Feed: every finished line is a record received, unless the one before it was cut off;
\* of a line that began in _scratch nothing is lost.
LEMMA FeedGets ==
  ASSUME NEW all \in Seq(Fragment), NEW rest \in Seq(Fragment), NEW more \in Seq(Fragment),
         NEW received \in Seq(Record),
         Framed(rest, all), InOrder(all \o more), Got(received, all)
  PROVE  Got(received \o Parsed(rest \o more), all \o more)
<1> DEFINE s == rest \o more
           t == all \o more
           p == Parsed(s)
           q == received \o p
<1>1. /\ s \in Seq(Fragment) /\ Len(s) = Len(rest) + Len(more)
      /\ \A i \in 1 .. Len(rest) : s[i] = rest[i]
      /\ \A i \in 1 .. Len(more) : s[Len(rest) + i] = more[i]
      /\ DOMAIN rest = 1 .. Len(rest) /\ Len(rest) \in Nat /\ Len(more) \in Nat
      /\ DOMAIN s = 1 .. Len(s)
  BY CatIs
<1>2. /\ t \in Seq(Fragment) /\ Len(t) = Len(all) + Len(more)
      /\ \A i \in 1 .. Len(all) : t[i] = all[i]
      /\ \A i \in 1 .. Len(more) : t[Len(all) + i] = more[i]
      /\ Len(all) \in Nat /\ DOMAIN t = 1 .. Len(t) /\ DOMAIN all = 1 .. Len(all)
  BY CatIs
<1>3. Parse(p, s, Len(s))
  BY <1>1, ParsedIs
<1>4. p \in Seq(Record)
  BY <1>3 DEF Parse
<1> HIDE DEF p
<1>5. /\ q \in Seq(Record) /\ Len(q) = Len(received) + Len(p)
      /\ DOMAIN q = 1 .. Len(received) + Len(p) /\ DOMAIN received = 1 .. Len(received)
      /\ DOMAIN p = 1 .. Len(p) /\ Len(p) \in Nat /\ Len(received) \in Nat
      /\ \A i \in 1 .. Len(received) : q[i] = received[i]
      /\ \A i \in 1 .. Len(p) : q[Len(received) + i] = p[i]
  BY <1>4, CatIs
<1>6. InOrder(t)
  OBVIOUS
<1> HIDE DEF s, t, q
<1>7. /\ Len(rest) <= Len(all)
      /\ \A i \in 1 .. Len(rest) : ~EndsLine(rest[i]) /\ rest[i] = all[Len(all) - Len(rest) + i]
  BY <1>1 DEF Framed
<1>8. PICK d \in Nat : d = Len(all) - Len(rest)
  <2>1. Len(rest) \in Nat
    BY <1>1
  <2>2. Len(all) \in Nat
    BY <1>2
  <2>3. Len(rest) <= Len(all)
    BY <1>7
  <2>4. Len(all) - Len(rest) \in Nat
    BY <2>1, <2>2, <2>3
  <2> QED BY <2>4
<1>9. Len(t) = d + Len(s) /\ Len(s) \in Nat
  <2>1. Len(s) = Len(rest) + Len(more) /\ Len(rest) \in Nat /\ Len(more) \in Nat
    BY <1>1
  <2>2. Len(t) = Len(all) + Len(more) /\ Len(all) \in Nat
    BY <1>2
  <2> QED BY <1>8, <2>1, <2>2
<1>10. \A i \in 1 .. Len(s) : s[i] = t[d + i] /\ (i <= Len(rest) => ~EndsLine(s[i]))
  <2> TAKE i \in 1 .. Len(s)
  <2>1. CASE i <= Len(rest)
    <3>1. i \in 1 .. Len(rest) /\ Len(all) - Len(rest) + i = d + i /\ d + i \in 1 .. Len(all)
      BY <1>1, <1>2, <1>7, <1>8, <2>1
    <3>2. s[i] = rest[i] /\ rest[i] = all[d + i] /\ t[d + i] = all[d + i] /\ ~EndsLine(rest[i])
      BY <1>1, <1>2, <1>7, <3>1
    <3> QED BY <3>2
  <2>2. CASE ~(i <= Len(rest))
    <3>1. /\ i - Len(rest) \in 1 .. Len(more) /\ Len(rest) + (i - Len(rest)) = i
          /\ Len(all) + (i - Len(rest)) = d + i
      BY <1>1, <1>2, <1>8, <2>2
    <3>2. s[i] = more[i - Len(rest)] /\ t[d + i] = more[i - Len(rest)]
      BY <1>1, <1>2, <3>1
    <3> QED BY <2>2, <3>2
  <2> QED BY <2>1, <2>2
\* A good line ends in what is new, and with its record is one of t.
<1>11. ASSUME NEW i \in 1 .. Len(s), Good(s, i)
       PROVE  /\ d + i \in DOMAIN t /\ d + i > Len(all) /\ d + i > 1
              /\ t[d + i - 1] = Opening(s[i][1]) /\ t[d + i] = Closing(s[i][1])
              /\ EndsLine(t[d + i]) /\ t[d + i][1] = s[i][1]
  <2>1. EndsLine(s[i]) /\ i > 1 /\ s[i - 1] = Opening(s[i][1])
    BY <1>11 DEF Good, Parses
  <2>2. ~(i <= Len(rest))
    BY <1>10, <2>1
  <2>3. d + i \in DOMAIN t /\ d + i > Len(all) /\ d + i > 1
    BY <1>1, <1>2, <1>8, <1>9, <2>1, <2>2
  <2>4. i - 1 \in 1 .. Len(s) /\ d + (i - 1) = d + i - 1
    BY <1>9, <2>1
  <2>5. t[d + i - 1] = Opening(s[i][1])
    BY <1>10, <2>1, <2>4
  <2>6. s[i] \in Fragment /\ s[i] = t[d + i]
    BY <1>1, <1>10
  <2> QED BY <2>1, <2>3, <2>5, <2>6, FragmentIs
<1>12. ASSUME NEW i \in 1 .. Len(s), NEW j \in 1 .. Len(s), Good(s, i), Good(s, j), i < j
       PROVE  s[i][1] < s[j][1]
  <2>1. d + i < d + j
    BY <1>12
  <2> QED BY <1>2, <1>6, <1>11, <1>12, <2>1, ClosingsAscend
<1>13. \A k \in 1 .. Len(p) : \E i \in 1 .. Len(s) : Good(s, i) /\ p[k] = s[i][1]
  BY <1>3, <1>5 DEF Parse
<1>14. \A k \in 1 .. Len(received) : \E i \in DOMAIN all :
         i > 1 /\ all[i - 1] = Opening(received[k]) /\ all[i] = Closing(received[k])
  BY <1>5 DEF Got
<1>15. \A k \in 1 .. Len(q) - 1 : q[k] < q[k + 1]
  <2> TAKE k \in 1 .. Len(q) - 1
  <2>1. CASE k < Len(received)
    <3>1. k \in 1 .. Len(received) - 1 /\ k \in 1 .. Len(received) /\ k + 1 \in 1 .. Len(received)
      BY <1>5, <2>1
    <3>2. received[k] < received[k + 1]
      BY <3>1 DEF Got
    <3> QED BY <1>5, <3>1, <3>2
  <2>2. CASE k = Len(received)
    <3>1. k \in 1 .. Len(received) /\ 1 \in 1 .. Len(p)
      BY <1>5, <2>2
    <3>2. q[k] = received[k] /\ q[k + 1] = p[1]
      BY <1>5, <2>2, <3>1
    <3>3. PICK i \in DOMAIN all : all[i] = Closing(received[k])
      BY <1>14, <3>1
    <3>4. PICK j \in 1 .. Len(s) : Good(s, j) /\ p[1] = s[j][1]
      BY <1>13, <3>1
    <3>5. i \in DOMAIN t /\ t[i] = all[i] /\ i < d + j
      BY <1>2, <1>11, <3>4
    <3>6. EndsLine(t[i]) /\ t[i][1] = received[k]
      BY <3>3, <3>5, FragmentIs
    <3>7. d + j \in DOMAIN t /\ EndsLine(t[d + j]) /\ t[d + j][1] = p[1]
      BY <1>11, <3>4
    <3>8. t[i][1] < t[d + j][1]
      BY <1>2, <1>6, <3>5, <3>6, <3>7, ClosingsAscend
    <3> QED BY <3>2, <3>6, <3>7, <3>8
  <2>3. CASE k > Len(received)
    <3>1. PICK l \in 1 .. Len(p) - 1 : k = Len(received) + l
      <4>1. k - Len(received) \in 1 .. Len(p) - 1 /\ k = Len(received) + (k - Len(received))
        BY <1>5, <2>3
      <4> QED BY <4>1
    <3>2. l \in 1 .. Len(p) /\ l + 1 \in 1 .. Len(p) /\ k + 1 = Len(received) + (l + 1)
      BY <1>5, <3>1
    <3>3. q[k] = p[l] /\ q[k + 1] = p[l + 1]
      BY <1>5, <3>1, <3>2
    <3>4. p[l] < p[l + 1]
      BY <1>3, <1>12, <3>1 DEF Parse
    <3> QED BY <3>3, <3>4
  <2>4. k \in Int /\ Len(received) \in Int
    BY <1>5
  <2>5. k < Len(received) \/ k = Len(received) \/ k > Len(received)
    BY <2>4
  <2> QED BY <2>1, <2>2, <2>3, <2>5
<1>16. \A k \in DOMAIN q : \E i \in DOMAIN t :
         i > 1 /\ t[i - 1] = Opening(q[k]) /\ t[i] = Closing(q[k])
  <2> TAKE k \in DOMAIN q
  <2>1. CASE k <= Len(received)
    <3>1. k \in 1 .. Len(received) /\ q[k] = received[k]
      BY <1>5, <2>1
    <3>2. PICK i \in DOMAIN all :
            i > 1 /\ all[i - 1] = Opening(received[k]) /\ all[i] = Closing(received[k])
      BY <1>14, <3>1
    <3>3. i \in 1 .. Len(all) /\ i - 1 \in 1 .. Len(all) /\ i \in DOMAIN t
      BY <1>2, <3>2
    <3>4. t[i] = all[i] /\ t[i - 1] = all[i - 1]
      BY <1>2, <3>3
    <3> QED BY <3>1, <3>2, <3>3, <3>4
  <2>2. CASE ~(k <= Len(received))
    <3>1. k - Len(received) \in 1 .. Len(p) /\ k = Len(received) + (k - Len(received))
      BY <1>5, <2>2
    <3>2. q[k] = p[k - Len(received)]
      BY <1>5, <3>1
    <3>3. PICK i \in 1 .. Len(s) : Good(s, i) /\ q[k] = s[i][1]
      BY <1>13, <3>1, <3>2
    <3>4. /\ d + i \in DOMAIN t /\ d + i > 1
          /\ t[d + i - 1] = Opening(s[i][1]) /\ t[d + i] = Closing(s[i][1])
      BY <1>11, <3>3
    <3>5. PICK e \in DOMAIN t :
            e > 1 /\ t[e - 1] = Opening(s[i][1]) /\ t[e] = Closing(s[i][1])
      <4>1. d + i \in DOMAIN t
        BY <3>4
      <4> WITNESS d + i \in DOMAIN t
      <4> QED BY <3>4
    <3>6. e > 1 /\ t[e - 1] = Opening(q[k]) /\ t[e] = Closing(q[k])
      BY <3>3, <3>5
    <3> QED BY <3>6
  <2> QED BY <2>1, <2>2
<1>17. ASSUME NEW i \in DOMAIN t, EndsLine(t[i])
       PROVE  \/ \E k \in DOMAIN q : q[k] = t[i][1]
              \/ i = 1
              \/ i > 2 /\ ~EndsLine(t[i - 2])
  <2>1. CASE i <= Len(all)
    <3>1. i \in DOMAIN all /\ t[i] = all[i] /\ i \in Nat
      BY <1>2, <2>1
    <3>2. \/ \E k \in DOMAIN received : received[k] = all[i][1]
          \/ i = 1
          \/ i > 2 /\ ~EndsLine(all[i - 2])
      BY <1>17, <3>1 DEF Got
    <3>3. CASE \E k \in DOMAIN received : received[k] = all[i][1]
      BY <1>5, <3>1, <3>3
    <3>4. CASE i > 2 /\ ~EndsLine(all[i - 2])
      <4>1. i - 2 \in 1 .. Len(all)
        BY <2>1, <3>1, <3>4
      <4> QED BY <1>2, <3>4, <4>1
    <3> QED BY <3>2, <3>3, <3>4
  <2>2. CASE ~(i <= Len(all))
    <3>1. PICK j \in 1 .. Len(s) : i = d + j /\ j > Len(rest)
      <4>1. i - d \in 1 .. Len(s) /\ i = d + (i - d) /\ i - d > Len(rest)
        BY <1>1, <1>2, <1>8, <1>9, <2>2
      <4> QED BY <4>1
    <3>2. s[j] = t[i] /\ i > 1 /\ t[i - 1] = Opening(t[i][1])
      BY <1>6, <1>10, <1>17, <3>1 DEF InOrder
    <3>3. CASE Good(s, j)
      <4>1. PICK k \in DOMAIN p : p[k] = s[j][1]
        BY <1>3, <3>3 DEF Parse
      <4>2. Len(received) + k \in DOMAIN q /\ q[Len(received) + k] = p[k]
        BY <1>5
      <4> QED BY <3>2, <4>1, <4>2
    <3>4. CASE ~Good(s, j)
      <4>1. ~Parses(s, j)
        BY <1>17, <3>2, <3>4 DEF Good
      <4>2. CASE j > 1
        <5>1. j - 1 \in 1 .. Len(s) /\ d + (j - 1) = i - 1
          BY <1>9, <3>1, <4>2
        <5>2. s[j - 1] = Opening(s[j][1])
          BY <1>10, <3>2, <5>1
        <5>3. j > 2 /\ ~EndsLine(s[j - 2])
          BY <4>1, <4>2, <5>2 DEF Parses
        <5>4. j - 2 \in 1 .. Len(s) /\ d + (j - 2) = i - 2 /\ i > 2
          BY <1>9, <3>1, <5>3
        <5> QED BY <1>10, <5>3, <5>4
      <4>3. CASE ~(j > 1)
        <5>1. j = 1 /\ Len(rest) = 0
          BY <1>1, <3>1, <4>3
        <5>2. i = Len(all) + 1 /\ i - 1 = Len(all) /\ i - 2 = Len(all) - 1
          BY <1>2, <1>8, <3>1, <5>1
        <5>3. Len(all) \in 1 .. Len(all) /\ all # <<>> /\ rest = <<>>
          BY <1>1, <1>2, <3>2, <5>1, <5>2
        <5>4. t[Len(all)] = all[Len(all)]
          BY <1>2, <5>3
        <5>5. ~EndsLine(all[Len(all)])
          BY <3>2, <5>2, <5>4, FragmentIs
        <5>6. Len(all) > 1 /\ ~EndsLine(all[Len(all) - 1])
          BY <5>3, <5>5 DEF Framed
        <5>7. Len(all) - 1 \in 1 .. Len(all) /\ i > 2
          BY <1>2, <5>2, <5>6
        <5>8. t[Len(all) - 1] = all[Len(all) - 1]
          BY <1>2, <5>7
        <5> QED BY <5>2, <5>6, <5>7, <5>8
      <4> QED BY <4>2, <4>3
    <3> QED BY <3>3, <3>4
  <2> QED BY <2>1, <2>2
<1>18. Got(q, t)
  BY <1>15, <1>16, <1>17 DEF Got
<1> QED BY <1>18 DEF q, p, s, t

-----------------------------------------------------------------------------
(***************************************************************************)
(* The types, in two parts: where everybody is, and what is carried.       *)
(***************************************************************************)
Control ==
  /\ plugin \in {"absent", "busy", "listening"}
  /\ sent \in 0 .. MaxRecords /\ breaks \in 0 .. MaxBreaks + 1
  /\ kind \in {"none", "pipe", "file"}
  /\ running \in BOOLEAN
  /\ worker \in {"top", "connect", "publish", "test", "read", "pending", "feed",
                 "close", "open", "done"}
  /\ mutex \in {"free", "ui"}
  /\ state \in {"Disconnected", "Connecting", "Connected", "Replaying", "Error"}
  /\ call \in {"none", "stop", "lock", "cancel", "closeHandle", "join", "send", "write"}
  /\ ui \in {"frame", "menu", "panels", "busy", "exited"}
  /\ goal \in {"pipe", "file", "quit"}
  /\ quitting \in BOOLEAN /\ popup \in BOOLEAN

Data ==
  /\ link \in [up : BOOLEAN, unread : Seq(Seq(Fragment))]
  /\ file \in Seq(Fragment)
  /\ piece \in Seq(Fragment) /\ Len(piece) <= BufSize
  /\ scratch \in Seq(Fragment) /\ Len(scratch) <= ScratchMax
  /\ queue \in Seq(Record)
  /\ fed \in Seq(Fragment)
  /\ shown \in Seq(Record)
  /\ StoreHolds(rings, shown) /\ total = Len(shown)

(***************************************************************************)
(* The lines: what was fed is in order with the piece just read and with   *)
(* what there is still to read; the buffers are empty where nothing can be *)
(* in them; _scratch is the end of what was fed, and what was received is  *)
(* of what was fed.                                                        *)
(***************************************************************************)
Lines ==
  /\ worker # "feed" => piece = <<>>
  /\ worker \in {"top", "connect", "open", "done"} \/ kind # "pipe" => link.unread = <<>>
  /\ kind = "pipe" => Stream(fed \o piece, link.unread, sent)
  /\ kind = "file" => InOrder((fed \o piece) \o file)
  /\ Framed(scratch, fed)
  /\ Got(Received, fed)

ViewerInv == HandleInv /\ Control /\ Data /\ Lines

dataVars == <<file, piece, scratch, queue, fed, shown, rings, total>>

\* Everybody starts at a place there is.
LEMMA ControlInit == Init => Control
<1>1. 0 \in 0 .. MaxRecords /\ 0 \in 0 .. MaxBreaks + 1
  BY SourceAssumption DEF SourceAssumption
<1> QED BY <1>1 DEF Init, SourceInit, Control

\* Every action leaves everybody at a place there is.
LEMMA ControlStep ==
  ASSUME Control, Next
  PROVE  Control'
<1> USE DEF Control
<1>1. CASE Ui
  <2>1. CASE DrainIntoStore
    BY <2>1 DEF DrainIntoStore, Drain, pluginVars, handleVars
  <2>2. CASE MenuOpens
    BY <2>2 DEF MenuOpens, pluginVars, handleVars
  <2>3. CASE MenuExits \/ SaveButton \/ NothingPressed \/ Panels \/ Exited
    BY <2>3 DEF MenuExits, SaveButton, NothingPressed, Panels, Exited, sourceVars, pluginVars,
                handleVars
  <2>4. CASE SourceOpened
    <3>1. /\ ui' = "panels" /\ running' = TRUE /\ state' = "Disconnected"
          /\ kind' \in {"pipe", "file"} /\ worker' \in {"top", "open"}
          /\ UNCHANGED <<plugin, sent, breaks, mutex, call, goal, quitting, popup>>
      BY <2>4 DEF SourceOpened, StartPipe, StartFile, Fresh, pluginVars, handleVars
    <3> QED BY <3>1
  <2>5. CASE SaveConfirmed
    <3>1. /\ call' \in {"send", "none"} /\ popup' \in BOOLEAN /\ ui' = "panels"
          /\ UNCHANGED <<plugin, sent, breaks, kind, running, worker, mutex, state, goal, quitting>>
      BY <2>5 DEF SaveConfirmed, pluginVars, handleVars
    <3> QED BY <3>1
  <2>6. CASE Quit
    BY <2>6 DEF Quit, pluginVars, handleVars
  <2> HIDE DEF Control
  <2>7. \/ DrainIntoStore \/ MenuOpens \/ SourceOpened \/ SaveConfirmed \/ Quit
        \/ MenuExits \/ SaveButton \/ NothingPressed \/ Panels \/ Exited
    BY <1>1 DEF Ui
  <2> QED BY <2>1, <2>2, <2>3, <2>4, <2>5, <2>6, <2>7
<1>2. CASE Calls
  <2>1. UNCHANGED <<ui, goal, quitting, popup>>
    BY <1>2 DEF Calls, uiVars
  <2>2. CASE Stop
    BY <2>1, <2>2 DEF Stop, StopClears, StopLocks, StopCancels, StopCloses, StopJoins, pluginVars,
                      handleVars
  <2>3. CASE Send
    BY <2>1, <2>3 DEF Send, SendLocks, SendWrites, pluginVars, handleVars
  <2> QED BY <1>2, <2>2, <2>3 DEF Calls
<1>3. CASE Outside
  <2>1. UNCHANGED <<ui, goal, quitting, popup>>
    BY <1>3 DEF Outside, uiVars
  <2>2. CASE PluginStatus
    BY <2>1, <2>2 DEF PluginStatus, handleVars
  <2>3. CASE PluginBreaks
    <3>1. breaks' \in 0 .. MaxBreaks + 1
      BY <2>3, SourceAssumption DEF PluginBreaks, SourceAssumption
    <3> QED BY <2>1, <2>3, <3>1 DEF PluginBreaks, handleVars
  <2>4. CASE \E k \in 1 .. MaxBatch : PluginSends(k)
    <3>1. PICK k \in 1 .. MaxBatch : PluginSends(k)
      BY <2>4
    <3>2. sent' \in 0 .. MaxRecords
      BY <3>1, SourceAssumption DEF PluginSends, SourceAssumption
    <3> QED BY <2>1, <3>1, <3>2 DEF PluginSends, handleVars
  <2> QED BY <1>3, <2>2, <2>3, <2>4 DEF Outside, Plugin
<1>4. CASE PipeWorker
  <2>1. UNCHANGED <<ui, goal, quitting, popup>>
    BY <1>4 DEF PipeWorker, uiVars
  <2>2. UNCHANGED <<plugin, sent, breaks, kind, running, mutex, call>>
    BY <1>4 DEF PipeWorker, PipeLoop, LoopTop, ConnectFails, ConnectSucceeds, Publish, TestRunning,
                ReadBegins, ReadReturns, ReadFails, Feed, LoopCloses, pluginVars, handleVars
  <2>3. /\ worker' \in {"connect", "done", "top", "publish", "test", "read", "close", "pending",
                        "feed"}
        /\ state' \in {state, "Connecting", "Error", "Connected", "Disconnected"}
    BY <1>4 DEF PipeWorker, PipeLoop, LoopTop, ConnectFails, ConnectSucceeds, Publish, TestRunning,
                ReadBegins, ReadReturns, ReadFails, Feed, LoopCloses
  <2> QED BY <2>1, <2>2, <2>3
<1>5. CASE FileWorker
  <2>1. UNCHANGED <<ui, goal, quitting, popup>>
    BY <1>5 DEF FileWorker, uiVars
  <2> QED BY <1>5, <2>1 DEF FileWorker, FileLoop, OpenFile, TestRunning, ReadChunk, EndOfFile,
                            FileDamaged, Feed, pluginVars, handleVars
<1> QED BY <1>1, <1>2, <1>3, <1>4, <1>5 DEF Next

-----------------------------------------------------------------------------
\* Taking nothing in and nothing out.
LEMMA Joins ==
  /\ \A a \in Seq(Fragment) : a \o <<>> = a /\ <<>> \o a = a
  /\ \A a \in Seq(Record) : a \o <<>> = a /\ <<>> \o a = a
  /\ \A a, b \in Seq(Fragment) : a \o b \in Seq(Fragment)
  /\ \A a, b \in Seq(Record) : a \o b \in Seq(Record) /\ Len(a \o b) = Len(a) + Len(b)
<1>1. \A a \in Seq(Fragment) : a \o <<>> = a /\ <<>> \o a = a
  BY ConcatEmptySeq
<1>2. \A a \in Seq(Record) : a \o <<>> = a /\ <<>> \o a = a
  BY ConcatEmptySeq
<1>3. \A a, b \in Seq(Fragment) : a \o b \in Seq(Fragment)
  OBVIOUS
<1>4. \A a, b \in Seq(Record) : a \o b \in Seq(Record) /\ Len(a \o b) = Len(a) + Len(b)
  OBVIOUS
<1> QED BY <1>1, <1>2, <1>3, <1>4

\* Regroup, for records.
LEMMA RegroupRecords ==
  \A a, b, c \in Seq(Record) : (a \o b) \o c = a \o (b \o c)
BY ConcatAssociative

\* Nothing was read, nothing received, nothing stored.
LEMMA EmptyHolds ==
  /\ Framed(<<>>, <<>>) /\ Got(<<>>, <<>>) /\ InOrder(<<>>)
  /\ \A n : Stream(<<>>, <<>>, n)
  /\ StoreHolds(EmptyRings, <<>>)
<1>1. Framed(<<>>, <<>>) /\ Got(<<>>, <<>>) /\ InOrder(<<>>)
  BY DEF Framed, Got, InOrder
<1>2. \A n : Stream(<<>>, <<>>, n)
  BY DEF Stream, InOrder
<1>3. StoreHolds(EmptyRings, <<>>)
  <2>1. ASSUME NEW k \in Kinds PROVE Holds(<<>>, <<>>, k)
    <3>1. OfKind(<<>>, k) = {}
      BY DEF OfKind
    <3>2. Cardinality(OfKind(<<>>, k)) = 0
      BY <3>1, FS_EmptySet
    <3>3. RingCap \in Nat
      BY ViewerAssumption DEF ViewerAssumption
    <3>4. Min({RingCap, 0}) \in Nat /\ Min({RingCap, 0}) <= 0
      BY <3>3, MinOfTwo
    <3>5. Min({RingCap, 0}) = 0
      BY <3>4
    <3>6. <<>> \in Seq(Record) /\ Len(<<>>) = Min({RingCap, Cardinality(OfKind(<<>>, k))})
      BY <3>2, <3>5
    <3> QED BY <3>1, <3>6 DEF Holds
  <2> QED BY <2>1 DEF StoreHolds, EmptyRings, Kinds
<1> QED BY <1>1, <1>2, <1>3

\* At first nothing is carried.
LEMMA DataInit == Init => Data
<1> SUFFICES ASSUME Init PROVE Data
  OBVIOUS
<1>1. /\ link = [up |-> FALSE, unread |-> <<>>] /\ file = <<>> /\ piece = <<>> /\ scratch = <<>>
      /\ queue = <<>> /\ fed = <<>> /\ shown = <<>> /\ rings = EmptyRings /\ total = 0
  BY DEF Init, SourceInit
<1>2. BufSize \in Nat /\ ScratchMax \in Nat
  BY SourceAssumption DEF SourceAssumption
<1>3. link \in [up : BOOLEAN, unread : Seq(Seq(Fragment))]
  BY <1>1
<1> QED BY <1>1, <1>2, <1>3, EmptyHolds DEF Data

\* And nothing was read.
LEMMA LinesInit == Init => Lines
<1> SUFFICES ASSUME Init PROVE Lines
  OBVIOUS
<1>1. /\ link.unread = <<>> /\ piece = <<>> /\ scratch = <<>> /\ kind = "none"
      /\ queue = <<>> /\ fed = <<>> /\ shown = <<>>
  BY DEF Init, SourceInit
<1>2. Received = <<>>
  BY <1>1 DEF Received
<1> QED BY <1>1, <1>2, EmptyHolds DEF Lines

\* A step that carries nothing.
LEMMA Quiet ==
  ASSUME Data, Lines, UNCHANGED dataVars, UNCHANGED <<link, sent, kind>>,
         worker' # "feed" => piece = <<>>,
         worker' \in {"top", "connect", "open", "done"} => link.unread = <<>>
  PROVE  Data' /\ Lines'
<1>1. Data'
  BY DEF Data, dataVars
<1>2. Received' = Received
  BY DEF Received, dataVars
<1> QED BY <1>1, <1>2 DEF Lines, dataVars

\* The connection ends, or begins: what waits in it may be lost.
LEMMA CutKeeps ==
  ASSUME Data, Lines, UNCHANGED dataVars, UNCHANGED <<sent, kind>>,
         link' \in [up : BOOLEAN, unread : {<<>>, link.unread}],
         worker' # "feed" => piece = <<>>,
         worker' \in {"top", "connect", "open", "done"} => link'.unread = <<>>
  PROVE  Data' /\ Lines'
<1>0. link.unread \in Seq(Seq(Fragment)) /\ <<>> \in Seq(Seq(Fragment))
  BY DEF Data
<1>1. link'.unread \in {<<>>, link.unread} /\ link'.unread \in Seq(Seq(Fragment))
  BY <1>0
<1>2. link' \in [up : BOOLEAN, unread : Seq(Seq(Fragment))]
  BY <1>1
<1>3. Data'
  BY <1>2 DEF Data, dataVars
<1>4. Received' = Received
  BY DEF Received, dataVars
<1>5. kind = "pipe" => Stream(fed \o piece, link'.unread, sent)
  BY <1>1, StreamCut DEF Lines
<1>6. kind # "pipe" => link'.unread = <<>>
  BY <1>1 DEF Lines
<1>7. UNCHANGED <<file, piece, scratch, fed>>
  BY DEF dataVars
<1>8. kind' = "file" => InOrder((fed' \o piece') \o file')
  BY <1>7 DEF Lines
<1>9. kind' = "pipe" => Stream(fed' \o piece', link'.unread, sent')
  BY <1>5, <1>7
<1>10. Framed(scratch', fed') /\ Got(Received', fed')
  BY <1>4, <1>7 DEF Lines
<1> QED BY <1>3, <1>6, <1>7, <1>8, <1>9, <1>10 DEF Lines

-----------------------------------------------------------------------------
(* The steps that carry something.                                         *)

\* PluginSends: the messages that wait are one more.
LEMMA SendCarries ==
  ASSUME Control, Data, Lines, HandleInv, NEW c \in 1 .. MaxBatch, PluginSends(c),
         UNCHANGED <<shown, rings, total>>
  PROVE  Data' /\ Lines'
<1> DEFINE w == Wire(sent + 1, c)
<1>1. /\ link.up /\ sent + c <= MaxRecords /\ sent' = sent + c
      /\ UNCHANGED <<file, kind, worker, piece, scratch, queue, fed>>
  BY DEF PluginSends, bufferVars
<1>2. link' = [link EXCEPT !.unread = Append(link.unread, w)]
  BY DEF PluginSends
<1>3. kind = "pipe" /\ worker \notin {"top", "connect", "open", "done"}
  BY <1>1 DEF HandleInv, Budget
<1>4. link.up \in BOOLEAN /\ link.unread \in Seq(Seq(Fragment)) /\ fed \o piece \in Seq(Fragment)
  BY DEF Data
<1>5. sent \in Nat /\ c \in Nat /\ MaxRecords \in Nat
  BY SourceAssumption DEF Control, SourceAssumption
<1>6. sent + c <= Max({MaxRecords, FileRecords})
  <2>1. FileRecords \in Nat
    BY SourceAssumption DEF SourceAssumption
  <2>2. Max({MaxRecords, FileRecords}) \in Nat /\ MaxRecords <= Max({MaxRecords, FileRecords})
    BY <1>5, <2>1, MaxOfTwo
  <2> QED BY <1>1, <1>5, <2>2
<1>7. w \in Seq(Fragment)
  BY <1>5, <1>6, WireIs
<1> HIDE DEF w
<1>8. link' = [up |-> link.up, unread |-> Append(link.unread, w)]
  <2>1. link \in [up : BOOLEAN, unread : Seq(Seq(Fragment))]
    BY DEF Data
  <2> QED BY <1>2, <2>1
<1>9. link' \in [up : BOOLEAN, unread : Seq(Seq(Fragment))] /\ link'.unread = Append(link.unread, w)
  BY <1>4, <1>7, <1>8
<1>10. Data'
  BY <1>1, <1>9 DEF Data
<1>11. Stream(fed \o piece, link.unread, sent)
  BY <1>3 DEF Lines
<1>12. Stream(fed \o piece, Append(link.unread, w), sent + c)
  BY <1>1, <1>4, <1>5, <1>11, StreamSend DEF w
<1>13. Received' = Received
  BY <1>1 DEF Received
<1>14. Stream(fed' \o piece', link'.unread, sent')
  BY <1>1, <1>9, <1>12
<1>15. Framed(scratch', fed') /\ Got(Received', fed') /\ (worker' # "feed" => piece' = <<>>)
  BY <1>1, <1>13 DEF Lines
<1> QED BY <1>1, <1>3, <1>10, <1>14, <1>15 DEF Lines

\* ReadReturns: a message, or as much of it as the buffer holds.
LEMMA ReadCarries ==
  ASSUME Control, Data, Lines, kind = "pipe", ReadReturns, UNCHANGED <<shown, rings, total>>
  PROVE  Data' /\ Lines'
<1> DEFINE u == link.unread
           m == Head(u)
<1>1. /\ worker = "pending" /\ u # <<>> /\ worker' = "feed"
      /\ UNCHANGED <<sent, file, kind, scratch, queue, fed>>
  BY DEF ReadReturns, pluginVars, bufferVars
<1>2. /\ link \in [up : BOOLEAN, unread : Seq(Seq(Fragment))] /\ fed \in Seq(Fragment)
      /\ BufSize \in Nat /\ sent \in Nat
  BY SourceAssumption DEF Data, Control, SourceAssumption
<1>3. u \in Seq(Seq(Fragment)) /\ link.up \in BOOLEAN
  BY <1>2
<1>4. m \in Seq(Fragment) /\ Tail(u) \in Seq(Seq(Fragment)) /\ Len(m) \in Nat
  <2>1. m \in Seq(Fragment) /\ Tail(u) \in Seq(Seq(Fragment))
    BY <1>1, <1>3
  <2> QED BY <2>1
<1>5. piece = <<>> /\ fed \o piece = fed
  <2>1. piece = <<>>
    BY <1>1 DEF Lines
  <2> QED BY <1>2, <2>1, Joins
<1>6. Stream(fed, u, sent)
  BY <1>5 DEF Lines
<1>7. \E v : /\ link' = [link EXCEPT !.unread = v] /\ v \in Seq(Seq(Fragment))
             /\ piece' \in Seq(Fragment) /\ Len(piece') <= BufSize
             /\ Stream(fed \o piece', v, sent)
  <2>1. CASE Len(m) <= BufSize
    <3>1. piece' = m /\ link' = [link EXCEPT !.unread = Tail(u)]
      BY <2>1 DEF ReadReturns
    <3>2. Stream(fed \o m, Tail(u), sent)
      BY <1>1, <1>2, <1>3, <1>6, StreamTake
    <3> QED BY <1>4, <2>1, <3>1, <3>2
  <2>2. CASE ~(Len(m) <= BufSize)
    <3> DEFINE r == SubSeq(m, BufSize + 1, Len(m))
               v == <<r>> \o Tail(u)
    <3>1. piece' = SubSeq(m, 1, BufSize) /\ link' = [link EXCEPT !.unread = v]
      BY <2>2 DEF ReadReturns
    <3>2. BufSize \in 0 .. Len(m)
      BY <1>2, <1>4, <2>2
    <3>3. Stream(fed \o SubSeq(m, 1, BufSize), v, sent)
      BY <1>1, <1>2, <1>3, <1>6, <3>2, StreamTakePart
    <3>4. SubSeq(m, 1, BufSize) \in Seq(Fragment) /\ Len(SubSeq(m, 1, BufSize)) = BufSize
      BY <1>4, <3>2, PrefixIs
    <3>5. r \in Seq(Fragment)
      BY <1>4, <3>2, SuffixIs
    <3>6. v \in Seq(Seq(Fragment))
      <4> HIDE DEF r
      <4>1. <<r>> \in Seq(Seq(Fragment))
        BY <3>5
      <4> QED BY <1>4, <4>1
    <3>7. piece' \in Seq(Fragment) /\ Len(piece') <= BufSize
      BY <1>2, <3>1, <3>4
    <3>8. Stream(fed \o piece', v, sent)
      BY <3>1, <3>3
    <3> HIDE DEF v
    <3> QED BY <3>1, <3>6, <3>7, <3>8
  <2> QED BY <2>1, <2>2
<1>8. PICK v : /\ link' = [link EXCEPT !.unread = v] /\ v \in Seq(Seq(Fragment))
               /\ piece' \in Seq(Fragment) /\ Len(piece') <= BufSize
               /\ Stream(fed \o piece', v, sent)
  BY <1>7
<1>9. link' \in [up : BOOLEAN, unread : Seq(Seq(Fragment))] /\ link'.unread = v
  BY <1>2, <1>8
<1>10. Data'
  BY <1>1, <1>8, <1>9 DEF Data
<1>11. Received' = Received
  BY <1>1 DEF Received
<1>12. Stream(fed' \o piece', link'.unread, sent')
  BY <1>1, <1>8, <1>9
<1>13. Framed(scratch', fed') /\ Got(Received', fed') /\ kind' = "pipe" /\ worker' = "feed"
  BY <1>1, <1>11 DEF Lines
<1> QED BY <1>10, <1>12, <1>13 DEF Lines

\* ReadChunk: the next bytes of the file.
LEMMA ChunkCarries ==
  ASSUME Data, Lines, kind = "file", ReadChunk, UNCHANGED <<shown, rings, total>>
  PROVE  Data' /\ Lines'
<1>1. /\ worker = "read" /\ worker' = "feed"
      /\ UNCHANGED <<sent, link, kind, scratch, queue, fed>>
  BY DEF ReadChunk, pluginVars, bufferVars
<1>2. file \in Seq(Fragment) /\ fed \in Seq(Fragment) /\ BufSize \in Nat /\ Len(file) \in Nat
  BY SourceAssumption DEF Data, SourceAssumption
<1>3. PICK n \in 0 .. Len(file) :
        n <= BufSize /\ piece' = SubSeq(file, 1, n) /\ file' = SubSeq(file, n + 1, Len(file))
  <2>1. /\ piece' = SubSeq(file, 1, Min({BufSize, Len(file)}))
        /\ file' = SubSeq(file, Min({BufSize, Len(file)}) + 1, Len(file))
    BY DEF ReadChunk
  <2>2. /\ Min({BufSize, Len(file)}) \in Nat /\ Min({BufSize, Len(file)}) <= BufSize
        /\ Min({BufSize, Len(file)}) <= Len(file)
    BY <1>2, MinOfTwo
  <2>3. Min({BufSize, Len(file)}) \in 0 .. Len(file)
    BY <1>2, <2>2
  <2> QED BY <2>1, <2>2, <2>3
<1>4. /\ piece' \in Seq(Fragment) /\ Len(piece') <= BufSize /\ file' \in Seq(Fragment)
      /\ piece' \o file' = file
  <2>1. /\ SubSeq(file, 1, n) \in Seq(Fragment) /\ Len(SubSeq(file, 1, n)) = n
        /\ SubSeq(file, 1, n) \o SubSeq(file, n + 1, Len(file)) = file
    BY <1>2, PrefixIs
  <2>2. SubSeq(file, n + 1, Len(file)) \in Seq(Fragment)
    BY <1>2, SuffixIs
  <2> QED BY <1>3, <2>1, <2>2
<1>5. (fed \o piece') \o file' = fed \o file
  <2>1. (fed \o piece') \o file' = fed \o (piece' \o file')
    BY <1>2, <1>4, Regroup
  <2> QED BY <1>4, <2>1
<1>6. (fed \o piece) \o file = fed \o file
  <2>1. piece = <<>> /\ fed \o <<>> = fed
    BY <1>1, <1>2, Joins DEF Lines
  <2> QED BY <2>1
<1>7. InOrder((fed' \o piece') \o file')
  <2>1. InOrder((fed \o piece) \o file)
    BY DEF Lines
  <2>2. InOrder((fed \o piece') \o file')
    BY <1>5, <1>6, <2>1
  <2> QED BY <1>1, <2>2
<1>8. Data'
  BY <1>1, <1>4 DEF Data
<1>9. Received' = Received
  BY <1>1 DEF Received
<1>10. /\ Framed(scratch', fed') /\ Got(Received', fed') /\ kind' = "file" /\ worker' = "feed"
       /\ link'.unread = <<>>
  BY <1>1, <1>9 DEF Lines
<1> QED BY <1>7, <1>8, <1>10 DEF Lines

\* Feed: the finished lines become records, the rest of the bytes stays.
LEMMA FeedCarries ==
  ASSUME Data, Lines, kind \in {"pipe", "file"}, Feed, UNCHANGED <<shown, rings, total>>
  PROVE  Data' /\ Lines'
<1> DEFINE p == Parsed(scratch \o piece)
           r == Rest(scratch \o piece)
<1>1. /\ worker' = "test" /\ piece' = <<>> /\ fed' = fed \o piece
      /\ queue' = queue \o p /\ scratch' = r
      /\ UNCHANGED <<sent, link, file, kind>>
  BY DEF Feed, pluginVars
<1>2. /\ scratch \in Seq(Fragment) /\ piece \in Seq(Fragment) /\ fed \in Seq(Fragment)
      /\ queue \in Seq(Record) /\ shown \in Seq(Record) /\ file \in Seq(Fragment)
      /\ BufSize \in Nat /\ ScratchMax \in Nat
  BY SourceAssumption DEF Data, SourceAssumption
<1>3. scratch \o piece \in Seq(Fragment) /\ fed \o piece \in Seq(Fragment)
  BY <1>2
<1>4. p \in Seq(Record)
  BY <1>3, ParsedIs DEF Parse
<1>5. r \in Seq(Fragment) /\ Len(r) <= ScratchMax
  BY <1>3, RestIs
<1>6. Framed(r, fed \o piece)
  BY <1>2, FeedFrames DEF Lines
<1>7. InOrder(fed \o piece)
  <2>1. CASE kind = "pipe"
    BY <2>1 DEF Lines, Stream
  <2>2. CASE kind = "file"
    <3>1. InOrder((fed \o piece) \o file)
      BY <2>2 DEF Lines
    <3> QED BY <1>2, <1>3, <3>1, InOrderPrefix
  <2> QED BY <2>1, <2>2
<1>8. Got((shown \o queue) \o p, fed \o piece)
  <2>1. shown \o queue \in Seq(Record)
    BY <1>2
  <2>2. Framed(scratch, fed) /\ Got(shown \o queue, fed)
    BY DEF Lines, Received
  <2> QED BY <1>2, <1>7, <2>1, <2>2, FeedGets
<1> HIDE DEF p, r
<1>9. Received' = (shown \o queue) \o p
  <2>1. Received' = shown \o (queue \o p)
    BY <1>1 DEF Received
  <2>2. (shown \o queue) \o p = shown \o (queue \o p)
    <3>1. shown \in Seq(Record) /\ queue \in Seq(Record)
      BY <1>2
    <3> QED BY <3>1, <1>4, RegroupRecords
  <2> QED BY <2>1, <2>2
<1>10. Framed(scratch', fed') /\ Got(Received', fed')
  BY <1>1, <1>6, <1>8, <1>9
<1>11. fed' \o piece' = fed \o piece
  BY <1>1, <1>3, Joins
<1>12. Data'
  <2>1. queue' \in Seq(Record)
    BY <1>1, <1>2, <1>4
  <2>2. piece' \in Seq(Fragment) /\ Len(piece') <= BufSize
    BY <1>1, <1>2
  <2>3. fed' \in Seq(Fragment) /\ scratch' \in Seq(Fragment) /\ Len(scratch') <= ScratchMax
    BY <1>1, <1>3, <1>5
  <2> QED BY <1>1, <2>1, <2>2, <2>3 DEF Data
<1>13. kind' = "pipe" => Stream(fed' \o piece', link'.unread, sent')
  BY <1>1, <1>11 DEF Lines
<1>14. kind' = "file" => InOrder((fed' \o piece') \o file')
  BY <1>1, <1>11 DEF Lines
<1>15. kind' # "pipe" => link'.unread = <<>>
  BY <1>1 DEF Lines
<1> QED BY <1>1, <1>10, <1>12, <1>13, <1>14, <1>15 DEF Lines

\* DrainIntoStore: what is taken from the front of the queue goes to the end of the store.
LEMMA DrainCarries ==
  ASSUME Data, Lines, DrainIntoStore
  PROVE  Data' /\ Lines'
<1>1. UNCHANGED <<sent, link, file, kind, worker, piece, scratch, fed>>
  BY DEF DrainIntoStore, Drain, pluginVars
<1>2. /\ queue \in Seq(Record) /\ shown \in Seq(Record) /\ StoreHolds(rings, shown)
      /\ total = Len(shown) /\ DrainMax \in Nat /\ Len(queue) \in Nat
  BY ViewerAssumption DEF Data, ViewerAssumption
<1>3. PICK n : n = Min({DrainMax, Len(queue)})
  OBVIOUS
<1>4. n \in 0 .. Len(queue) /\ (n = DrainMax \/ n = Len(queue)) /\ n <= DrainMax
  <2>1. n \in Nat /\ n <= DrainMax /\ n <= Len(queue) /\ n \in {DrainMax, Len(queue)}
    BY <1>2, <1>3, MinOfTwo
  <2> QED BY <1>2, <2>1
<1> DEFINE d == SubSeq(queue, 1, n)
           q == SubSeq(queue, n + 1, Len(queue))
<1>5. rings' = IngestAll(rings, d) /\ total' = total + Len(d) /\ shown' = shown \o d
  BY <1>3 DEF DrainIntoStore
<1>6. d \in Seq(Record) /\ q \in Seq(Record) /\ d \o q = queue
  BY <1>2, <1>4, PrefixIs, SuffixIs
<1>7. queue' = q
  <2>1. queue' = SubSeq(queue, DrainMax + 1, Len(queue))
    BY DEF DrainIntoStore, Drain
  <2>2. CASE n = DrainMax
    BY <2>1, <2>2
  <2>3. CASE n # DrainMax
    <3>1. n = Len(queue) /\ DrainMax + 1 > Len(queue)
      BY <1>2, <1>4, <2>3
    <3>2. SubSeq(queue, DrainMax + 1, Len(queue)) = <<>>
      BY <1>2, <3>1
    <3>3. SubSeq(queue, n + 1, Len(queue)) = <<>>
      BY <1>2, <3>1
    <3> QED BY <2>1, <3>2, <3>3
  <2> QED BY <2>2, <2>3
<1> HIDE DEF d, q
<1>8. shown' \o queue' = shown \o queue
  <2>1. (shown \o d) \o q = shown \o (d \o q)
    <3>1. shown \in Seq(Record)
      BY <1>2
    <3>2. d \in Seq(Record) /\ q \in Seq(Record)
      BY <1>6
    <3> QED BY <3>1, <3>2, RegroupRecords
  <2>2. d \o q = queue /\ shown' = shown \o d /\ queue' = q
    BY <1>5, <1>6, <1>7
  <2> QED BY <2>1, <2>2
<1>9. Received' = Received
  BY <1>8 DEF Received
<1>10. shown' \in Seq(Record) /\ Len(shown') = Len(shown) + Len(d)
  BY <1>2, <1>5, <1>6, Joins
<1>11. StoreHolds(rings', shown')
  BY <1>2, <1>5, <1>6, IngestAllHolds
<1>12. Data'
  BY <1>1, <1>2, <1>5, <1>6, <1>7, <1>10, <1>11 DEF Data
<1> QED BY <1>1, <1>9, <1>12 DEF Lines

\* SourceOpened: everything starts afresh, and the records of a file are in order.
LEMMA OpenCarries ==
  ASSUME HandleInv, Data, Lines, SourceOpened
  PROVE  Data' /\ Lines'
<1>1. /\ piece' = <<>> /\ scratch' = <<>> /\ queue' = <<>> /\ fed' = <<>>
      /\ shown' = <<>> /\ rings' = EmptyRings /\ total' = 0
      /\ worker' \in {"top", "open"} /\ UNCHANGED <<link, sent>>
  BY DEF SourceOpened, StartPipe, StartFile, Fresh, Clear, pluginVars
<1>2. \/ kind' = "pipe" /\ UNCHANGED file
      \/ kind' = "file" /\ file' \in {Wire(1, FileRecords), Front(Wire(1, FileRecords))}
  BY DEF SourceOpened, StartPipe, StartFile
<1>3. link.unread = <<>>
  BY DEF SourceOpened, HandleInv, UiPlace, Lines
<1>4. /\ Wire(1, FileRecords) \in Seq(Fragment) /\ InOrder(Wire(1, FileRecords))
      /\ Len(Wire(1, FileRecords)) = 2 * FileRecords
  <2>1. MaxRecords \in Nat /\ FileRecords \in Nat
    BY SourceAssumption DEF SourceAssumption
  <2>2. 0 + FileRecords <= Max({MaxRecords, FileRecords})
    BY <2>1, MaxOfTwo
  <2>3. 0 \in Nat /\ 0 + 1 = 1
    OBVIOUS
  <2>4. /\ Wire(0 + 1, FileRecords) \in Seq(Fragment) /\ InOrder(Wire(0 + 1, FileRecords))
        /\ Len(Wire(0 + 1, FileRecords)) = 2 * FileRecords
    BY <2>1, <2>2, <2>3, WireIs
  <2> QED BY <2>3, <2>4
<1>5. Front(Wire(1, FileRecords)) \in Seq(Fragment) /\ InOrder(Front(Wire(1, FileRecords)))
  <2>1. FileRecords \in Nat /\ FileRecords # 0
    BY SourceAssumption DEF SourceAssumption
  <2>2. 2 * FileRecords - 1 \in 0 .. 2 * FileRecords
    BY <2>1
  <2>3. Front(Wire(1, FileRecords)) = SubSeq(Wire(1, FileRecords), 1, 2 * FileRecords - 1)
    BY <1>4 DEF Front
  <2>4. InOrder(SubSeq(Wire(1, FileRecords), 1, 2 * FileRecords - 1))
    BY <1>4, <2>2, InOrderFront
  <2>5. SubSeq(Wire(1, FileRecords), 1, 2 * FileRecords - 1) \in Seq(Fragment)
    BY <1>4, <2>2, PrefixIs
  <2> QED BY <2>3, <2>4, <2>5
<1>6. file' \in Seq(Fragment) /\ (kind' = "file" => InOrder(file'))
  BY <1>2, <1>4, <1>5 DEF Data
<1>7. Received' = <<>>
  BY <1>1 DEF Received
<1>8. fed' \o piece' = <<>>
  BY <1>1
<1>9. (fed' \o piece') \o file' = file'
  BY <1>6, <1>8, Joins
<1>10. BufSize \in Nat /\ ScratchMax \in Nat
  BY SourceAssumption DEF SourceAssumption
<1>11. Data'
  <2>1. Len(<<>>) = 0 /\ <<>> \in Seq(Fragment) /\ <<>> \in Seq(Record)
    OBVIOUS
  <2> QED BY <1>1, <1>6, <1>10, <2>1, EmptyHolds DEF Data
<1>12. kind' = "pipe" => Stream(fed' \o piece', link'.unread, sent')
  BY <1>1, <1>3, <1>8, EmptyHolds
<1>13. kind' = "file" => InOrder((fed' \o piece') \o file')
  BY <1>6, <1>9
<1>14. Framed(scratch', fed') /\ Got(Received', fed')
  BY <1>1, <1>7, EmptyHolds
<1> QED BY <1>1, <1>3, <1>11, <1>12, <1>13, <1>14 DEF Lines

\* The plugin's end.
LEMMA PluginCarries ==
  ASSUME ViewerInv, Outside
  PROVE  Data' /\ Lines'
<1> USE DEF ViewerInv
<1>0. UNCHANGED <<shown, rings, total>>
  BY DEF Outside, storeVars
<1>1. CASE PluginStatus
  BY <1>0, <1>1, Quiet DEF PluginStatus, dataVars, bufferVars, Lines
<1>2. CASE PluginBreaks
  <2>1. link.up /\ link' \in [up : BOOLEAN, unread : {<<>>, link.unread}]
    BY <1>2 DEF PluginBreaks
  <2>2. UNCHANGED dataVars /\ UNCHANGED <<sent, kind, worker>>
    BY <1>0, <1>2 DEF PluginBreaks, dataVars, bufferVars
  <2>3. worker' \notin {"top", "connect", "open", "done"}
    BY <2>1, <2>2 DEF HandleInv, Budget
  <2>4. worker' # "feed" => piece = <<>>
    BY <2>2 DEF Lines
  <2> QED BY <2>1, <2>2, <2>3, <2>4, CutKeeps
<1>3. CASE \E k \in 1 .. MaxBatch : PluginSends(k)
  BY <1>0, <1>3, SendCarries
<1> QED BY <1>1, <1>2, <1>3 DEF Outside, Plugin

\* PipeClient::Loop.
LEMMA PipeCarries ==
  ASSUME ViewerInv, PipeWorker
  PROVE  Data' /\ Lines'
<1> USE DEF ViewerInv
<1>0. kind = "pipe" /\ UNCHANGED <<shown, rings, total>>
  BY DEF PipeWorker, PipeLoop, storeVars
<1>1. CASE LoopTop \/ ConnectFails \/ Publish \/ TestRunning \/ ReadBegins \/ ReadFails
  <2>1. UNCHANGED dataVars /\ UNCHANGED <<link, sent, kind>>
    BY <1>0, <1>1 DEF LoopTop, ConnectFails, Publish, TestRunning, ReadBegins, ReadFails, dataVars,
                      pluginVars, bufferVars
  <2>2. /\ worker # "feed"
        /\ worker' \in {"top", "connect", "open", "done"} =>
             worker \in {"top", "connect", "open", "done"}
    BY <1>0, <1>1 DEF LoopTop, ConnectFails, Publish, TestRunning, ReadBegins, ReadFails
  <2>3. piece = <<>> /\ (worker' \in {"top", "connect", "open", "done"} => link.unread = <<>>)
    BY <2>2 DEF Lines
  <2> QED BY <2>1, <2>3, Quiet
<1>2. CASE ConnectSucceeds \/ LoopCloses
  <2>1. UNCHANGED dataVars /\ UNCHANGED <<sent, kind>> /\ worker # "feed"
    BY <1>0, <1>2 DEF ConnectSucceeds, LoopCloses, dataVars, pluginVars, bufferVars
  <2>2. link' \in [up : BOOLEAN, unread : {<<>>, link.unread}] /\ link'.unread = <<>>
    <3>1. \/ link' = [up |-> TRUE, unread |-> <<>>]
          \/ link' = [up |-> FALSE, unread |-> <<>>]
      BY <1>2 DEF ConnectSucceeds, LoopCloses
    <3>2. \A b \in BOOLEAN : [up |-> b, unread |-> <<>>] \in
                              [up : BOOLEAN, unread : {<<>>, link.unread}]
      OBVIOUS
    <3>3. \A b \in BOOLEAN : [up |-> b, unread |-> <<>>].unread = <<>>
      OBVIOUS
    <3> QED BY <3>1, <3>2, <3>3
  <2>3. piece = <<>>
    BY <2>1 DEF Lines
  <2> QED BY <2>1, <2>2, <2>3, CutKeeps
<1>3. CASE ReadReturns
  BY <1>0, <1>3, ReadCarries
<1>4. CASE Feed
  BY <1>0, <1>4, FeedCarries
<1> QED BY <1>1, <1>2, <1>3, <1>4 DEF PipeWorker, PipeLoop

\* FileSource::Loop.
LEMMA FileCarries ==
  ASSUME ViewerInv, FileWorker
  PROVE  Data' /\ Lines'
<1> USE DEF ViewerInv
<1>0. kind = "file" /\ UNCHANGED <<shown, rings, total>>
  BY DEF FileWorker, FileLoop, storeVars
<1>1. CASE OpenFile \/ TestRunning \/ EndOfFile \/ FileDamaged
  <2>1. UNCHANGED dataVars /\ UNCHANGED <<link, sent, kind>> /\ worker # "feed"
    BY <1>0, <1>1 DEF OpenFile, TestRunning, EndOfFile, FileDamaged, dataVars, pluginVars,
                      bufferVars
  <2>2. piece = <<>> /\ link.unread = <<>>
    BY <1>0, <2>1 DEF Lines
  <2> QED BY <2>1, <2>2, Quiet
<1>2. CASE ReadChunk
  BY <1>0, <1>2, ChunkCarries
<1>3. CASE Feed
  BY <1>0, <1>3, FeedCarries
<1> QED BY <1>1, <1>2, <1>3 DEF FileWorker, FileLoop

\* Stop and SendCommand.
LEMMA CallsCarry ==
  ASSUME ViewerInv, Calls
  PROVE  Data' /\ Lines'
<1> USE DEF ViewerInv
<1>0. UNCHANGED <<shown, rings, total>>
  BY DEF Calls, storeVars
<1>1. CASE StopClears \/ StopLocks \/ StopJoins \/ SendLocks \/ SendWrites
  <2>1. UNCHANGED dataVars /\ UNCHANGED <<link, sent, kind, worker>>
    BY <1>0, <1>1 DEF StopClears, StopLocks, StopJoins, SendLocks, SendWrites, dataVars, pluginVars,
                      bufferVars
  <2>2. /\ worker' # "feed" => piece = <<>>
        /\ worker' \in {"top", "connect", "open", "done"} => link.unread = <<>>
    BY <2>1 DEF Lines
  <2> QED BY <2>1, <2>2, Quiet
<1>2. CASE StopCancels
  <2>1. UNCHANGED dataVars /\ UNCHANGED <<link, sent, kind>>
    BY <1>0, <1>2 DEF StopCancels, dataVars, pluginVars, bufferVars
  <2>2. worker' = worker \/ (worker = "pending" /\ worker' = "close")
    BY <1>2 DEF StopCancels
  <2>3. /\ worker' # "feed" => piece = <<>>
        /\ worker' \in {"top", "connect", "open", "done"} => link.unread = <<>>
    BY <2>2 DEF Lines
  <2> QED BY <2>1, <2>3, Quiet
<1>3. CASE StopCloses
  <2>1. UNCHANGED dataVars /\ UNCHANGED <<sent, kind, worker>>
    BY <1>0, <1>3 DEF StopCloses, dataVars, pluginVars, bufferVars
  <2>2. link' \in [up : BOOLEAN, unread : {<<>>, link.unread}] /\ link'.unread = <<>>
    BY <1>3 DEF StopCloses
  <2>3. worker' # "feed" => piece = <<>>
    BY <2>1 DEF Lines
  <2> QED BY <2>1, <2>2, <2>3, CutKeeps
<1> QED BY <1>1, <1>2, <1>3 DEF Calls, Stop, Send

\* The UI thread.
LEMMA UiCarries ==
  ASSUME ViewerInv, Ui
  PROVE  Data' /\ Lines'
<1> USE DEF ViewerInv
<1>1. CASE DrainIntoStore
  BY <1>1, DrainCarries
<1>2. CASE SourceOpened
  BY <1>2, OpenCarries
<1>3. CASE \/ MenuOpens \/ MenuExits \/ SaveButton \/ SaveConfirmed \/ NothingPressed
           \/ Panels \/ Quit \/ Exited
  <2>1. UNCHANGED dataVars /\ UNCHANGED <<link, sent, kind, worker>>
    BY <1>3 DEF MenuOpens, MenuExits, SaveButton, SaveConfirmed, NothingPressed, Panels, Quit,
                Exited, dataVars, sourceVars, storeVars, pluginVars, bufferVars
  <2>2. /\ worker' # "feed" => piece = <<>>
        /\ worker' \in {"top", "connect", "open", "done"} => link.unread = <<>>
    BY <2>1 DEF Lines
  <2> QED BY <2>1, <2>2, Quiet
<1> QED BY <1>1, <1>2, <1>3 DEF Ui

(***************************************************************************)
(* ViewerInv is inductive: it holds at first, every step keeps it, and so  *)
(* it holds always.                                                        *)
(***************************************************************************)
LEMMA ViewerStarts == Init => ViewerInv
BY HandleInit, ControlInit, DataInit, LinesInit DEF ViewerInv

\* Every step keeps it.
LEMMA ViewerStep ==
  ASSUME ViewerInv, [Next]_vars
  PROVE  ViewerInv'
<1>1. HandleInv'
  BY HandleStep DEF ViewerInv
<1>2. CASE Next
  <2>1. Control'
    BY <1>2, ControlStep DEF ViewerInv
  <2>2. Data' /\ Lines'
    BY <1>2, PluginCarries, PipeCarries, FileCarries, CallsCarry, UiCarries DEF Next
  <2> QED BY <1>1, <2>1, <2>2 DEF ViewerInv
<1>3. CASE UNCHANGED vars
  <2>1. /\ UNCHANGED dataVars /\ UNCHANGED <<link, sent, kind, worker>>
        /\ UNCHANGED <<plugin, breaks, running, mutex, state, call, ui, goal, quitting, popup>>
    BY <1>3 DEF vars, sourceVars, pluginVars, handleVars, bufferVars, uiVars, storeVars, dataVars
  <2>2. Control'
    BY <2>1 DEF ViewerInv, Control
  <2>3. /\ worker' # "feed" => piece = <<>>
        /\ worker' \in {"top", "connect", "open", "done"} => link.unread = <<>>
    BY <2>1 DEF ViewerInv, Lines
  <2>4. Data' /\ Lines'
    BY <2>1, <2>3, Quiet DEF ViewerInv
  <2> QED BY <1>1, <2>2, <2>4 DEF ViewerInv
<1> QED BY <1>2, <1>3

\* It is an invariant.
LEMMA ViewerInvariant == Spec => []ViewerInv
BY ViewerStarts, ViewerStep, PTL DEF Spec

(***************************************************************************)
(* Everything the viewer keeps is what it is declared as: no more handles  *)
(* than connections, no read longer than the buffer, no unfinished line    *)
(* longer than its bound.                                                  *)
(***************************************************************************)
THEOREM TypeCorrect == Spec => []TypeOK
<1>1. ViewerInv => TypeOK
  <2> SUFFICES ASSUME ViewerInv PROVE TypeOK
    OBVIOUS
  <2>1. SourceTypeOK
    BY DEF ViewerInv, SourceTypeOK, Control, Data, HandleInv, Handles
  <2>2. rings \in [{"frame", "stutter"} -> Seq(Record)] /\ total \in Nat
    BY DEF ViewerInv, Data, StoreHolds, Kinds
  <2>3. source \in 0 .. MaxSources
    BY DEF ViewerInv, HandleInv, Budget
  <2> QED BY <2>1, <2>2, <2>3 DEF TypeOK, ViewerInv, Control, Data
<1> QED BY <1>1, ViewerInvariant, PTL

(***************************************************************************)
(* NdjsonSource::Feed: however the reads cut the lines, what reaches the   *)
(* store are whole records in the order they were sent, each at most once, *)
(* and one that was read whole is missing only when the line before it was *)
(* cut off by the end of a connection.                                     *)
(***************************************************************************)
THEOREM OnlyTornLinesAreLost == Spec => []LostOnlyAfterTear
<1>1. ViewerInv => LostOnlyAfterTear
  BY DEF ViewerInv, Lines, Got, LostOnlyAfterTear
<1> QED BY <1>1, ViewerInvariant, PTL

(***************************************************************************)
(* TelemetryStore: each ring holds the last RingCap records of its kind    *)
(* that the current source has delivered, whatever was there before it.    *)
(***************************************************************************)
THEOREM StoreFollowsSource == Spec => []StoreIsCurrent
<1>1. ViewerInv => StoreIsCurrent
  <2> SUFFICES ASSUME ViewerInv PROVE StoreIsCurrent
    OBVIOUS
  <2>1. StoreHolds(rings, shown) /\ total = Len(shown)
    BY DEF ViewerInv, Data
  <2> QED BY <2>1 DEF StoreIsCurrent, StoreHolds, Holds, Kinds, OfKind, Later
<1> QED BY <1>1, ViewerInvariant, PTL
=============================================================================
