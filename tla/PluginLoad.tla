----------------------------- MODULE PluginLoad -----------------------------
(***************************************************************************)
(* SKSEPluginLoad (plugin/src/plugin.cpp) on the loading thread, with the  *)
(* threads it starts on its way: the pipe's readers, which run             *)
(* HandleCommand as soon as the pipe is up, the writer thread, the         *)
(* samplers, the heartbeat; then the messages SKSE sends.                  *)
(*                                                                         *)
(* What the ring, the pipe and the recorder do is in modules of their own: *)
(* here the queue drops nothing, and a file that is open stays so.  The    *)
(* hooks that kPostLoad installs are in HookInstall.                       *)
(***************************************************************************)
EXTENDS Naturals, Sequences, SequencesExt

CONSTANTS
  Options,       \* what g_config can switch on, of {"recorder"} and Origin
  Client,        \* connected viewers, each with its reader thread
  MaxCommands,   \* bound: commands of all viewers
  MaxQueue       \* bound: records waiting

\* The records the plugin makes of itself, by the step after which they come.
Since == [memory |-> "memory", heartbeat |-> "heartbeat", frame |-> "kPostLoad",
          events |-> "kDataLoaded", state |-> "kDataLoaded"]
Origin == DOMAIN Since
Answer == {"pong", "ack"}
Kind == Origin \union Answer \union {"hello", "plugins"}

ASSUME LoadAssumption ==
  /\ Options \subseteq {"recorder"} \union Origin
  /\ MaxCommands \in Nat /\ MaxQueue \in Nat

VARIABLES
  config,      \* g_config: what is switched on
  done,        \* how many of Steps have been taken
  recorder,    \* the file of g_recorder: "shut", "open" or "failed"
  attached,    \* WriterThread::_recorder is set
  queue,       \* records submitted and not yet popped
  held,        \* what the writer has broadcast and not yet recorded, or none
  command,     \* what each reader is executing
  commands,    \* commands received so far
  missed,      \* history: the kinds broadcast while no recorder was attached
  inOrder      \* history: the loading thread's own records that were broadcast

loadVars == <<config, done, recorder, attached, queue, held, command, commands,
              missed, inOrder>>

\* mutant: the pipe is up before there is a writer
StepsPipeFirst ==
  <<"config", "pipe", "pipeStart", "writer", "writerStart", "recorder", "open", "attach",
    "memory", "listener", "hello", "heartbeat", "kPostLoad", "kDataLoaded">>

\* mutant: the recorder is attached when all else runs
StepsAttachLast ==
  <<"config", "pipe", "writer", "pipeStart", "writerStart", "recorder", "open", "memory",
    "listener", "hello", "heartbeat", "attach", "kPostLoad", "kDataLoaded">>

\* mutant: the hello is left to the first message of SKSE
StepsHelloLate ==
  <<"config", "pipe", "writer", "pipeStart", "writerStart", "recorder", "open", "attach",
    "memory", "listener", "heartbeat", "kPostLoad", "kDataLoaded", "hello">>

Steps ==
  <<"config", "pipe", "writer", "pipeStart", "writerStart", "recorder", "open", "attach",
    "memory", "listener", "hello", "heartbeat", "kPostLoad", "kDataLoaded">>

Done(s) == \E i \in 1 .. done : Steps[i] = s

Nothing == "nothing"

LoadTypeOK ==
  /\ config \subseteq Options
  /\ done \in 0 .. Len(Steps)
  /\ recorder \in {"shut", "open", "failed"} /\ attached \in BOOLEAN
  /\ queue \in Seq(Kind) /\ held \in Kind \union {Nothing}
  /\ command \in [Client -> {Nothing, "ping", "save_session", "pinned"}]
  /\ commands \in 0 .. MaxCommands
  /\ missed \subseteq Kind
  /\ inOrder \in Seq({"hello", "plugins"})

LoadInit ==
  /\ config = {} /\ done = 0
  /\ recorder = "shut" /\ attached = FALSE
  /\ queue = <<>> /\ held = Nothing
  /\ command = [c \in Client |-> Nothing] /\ commands = 0
  /\ missed = {} /\ inOrder = <<>>

Submit(kind) == Len(queue) < MaxQueue /\ queue' = Append(queue, kind)

-----------------------------------------------------------------------------
(* The loading thread.                                                     *)

Step(s) == done < Len(Steps) /\ Steps[done + 1] = s /\ done' = done + 1

\* LoadOrDefault: what the file says, or the defaults without one or with a
\* broken one.
LoadConfig ==
  /\ Step("config")
  /\ config' \in SUBSET Options
  /\ UNCHANGED <<recorder, attached, queue, held, command, commands, missed, inOrder>>

\* Something is made or started, of which there is no more to say.
Begin ==
  /\ \E s \in {"pipe", "writer", "pipeStart", "writerStart", "recorder", "memory",
               "listener", "heartbeat", "kPostLoad"} : Step(s)
  /\ UNCHANGED <<config, recorder, attached, queue, held, command, commands, missed,
                 inOrder>>

\* RollingRecorder::Start.
StartRecorder ==
  /\ Step("open")
  /\ recorder' \in IF "recorder" \in config THEN {"open", "failed"} ELSE {"shut"}
  /\ UNCHANGED <<config, attached, queue, held, command, commands, missed, inOrder>>

AttachRecorder ==
  /\ Step("attach")
  /\ attached' = (recorder = "open")
  /\ UNCHANGED <<config, recorder, queue, held, command, commands, missed, inOrder>>

EmitHello ==
  /\ Step("hello") /\ Submit("hello")
  /\ UNCHANGED <<config, recorder, attached, held, command, commands, missed, inOrder>>

\* kDataLoaded: the event sinks, with the load order, and the state sampler.
DataLoaded ==
  /\ Step("kDataLoaded")
  /\ IF "events" \in config THEN Submit("plugins") ELSE UNCHANGED queue
  /\ UNCHANGED <<config, recorder, attached, held, command, commands, missed, inOrder>>

-----------------------------------------------------------------------------
(* The others.                                                             *)

\* A record of a sampler, a sink (a save before kDataLoaded finds none) or the
\* heartbeat.
Report(o) ==
  /\ Done(Since[o]) /\ o \in config \union {"heartbeat"}
  /\ Submit(o)
  /\ UNCHANGED <<config, done, recorder, attached, held, command, commands, missed,
                 inOrder>>

CommandArrives(c) ==
  /\ Done("pipeStart") /\ command[c] = Nothing /\ commands < MaxCommands
  /\ commands' = commands + 1
  /\ command' \in {[command EXCEPT ![c] = k] : k \in {"ping", "save_session"}}
  /\ UNCHANGED <<config, done, recorder, attached, queue, held, missed, inOrder>>

Answered(c, kind) ==
  /\ Submit(kind)
  /\ command' = [command EXCEPT ![c] = Nothing]
  /\ UNCHANGED <<config, done, recorder, attached, held, commands, missed, inOrder>>

\* A heartbeat that says it replies to the ping.
ReplyToPing(c) == command[c] = "ping" /\ Answered(c, "pong")

\* No recorder, or none with an open file, or a copy that fails: no answer.
SaveSession(c) ==
  /\ command[c] = "save_session"
  /\ command' \in {[command EXCEPT ![c] = k] :
                     k \in {Nothing} \union IF recorder = "open" THEN {"pinned"} ELSE {}}
  /\ UNCHANGED <<config, done, recorder, attached, queue, held, commands, missed, inOrder>>

Acknowledge(c) == command[c] = "pinned" /\ Answered(c, "ack")

\* WriterThread::Loop: pop and broadcast; then ask for the recorder.
WriterBroadcasts ==
  /\ Done("writerStart") /\ held = Nothing /\ queue # <<>>
  /\ held' = Head(queue) /\ queue' = Tail(queue)
  /\ inOrder' = IF held' \in {"hello", "plugins"} THEN Append(inOrder, held') ELSE inOrder
  /\ UNCHANGED <<config, done, recorder, attached, command, commands, missed>>

WriterRecords ==
  /\ held # Nothing
  /\ held' = Nothing
  /\ missed' = IF attached THEN missed ELSE missed \union {held}
  /\ UNCHANGED <<config, done, recorder, attached, queue, command, commands, inOrder>>

LoadNext ==
  \/ LoadConfig \/ Begin \/ StartRecorder \/ AttachRecorder \/ EmitHello \/ DataLoaded
  \/ \E o \in Origin : Report(o)
  \/ \E c \in Client : \/ CommandArrives(c) \/ ReplyToPing(c)
                       \/ SaveSession(c) \/ Acknowledge(c)
  \/ WriterBroadcasts \/ WriterRecords

LoadSpec == LoadInit /\ [][LoadNext]_loadVars
-----------------------------------------------------------------------------
(* SKSEPluginLoad: threads run before the loading thread is through, and   *)
(* none is too early.  A command finds a writer to answer with; a recorder *)
(* whose file opens misses nothing but answers to commands; and where the  *)
(* load order is told, the hello was told before it.                       *)
NoneTooEarly ==
  /\ \A c \in Client : command[c] # Nothing => Done("writer")
  /\ recorder = "open" => missed \subseteq Answer
  /\ inOrder \in {<<>>, <<"hello">>, <<"hello", "plugins">>}

\* The recorder is attached before there is a record that must not be missed.
AttachedInTime ==
  /\ recorder # "shut" => Done("open")
  /\ attached <=> recorder = "open" /\ Done("attach")
  /\ ~Done("attach") => /\ held \in Answer \union {Nothing} /\ missed \subseteq Answer
                        /\ \A i \in DOMAIN queue : queue[i] \in Answer

Waiting(kind) == \E i \in DOMAIN queue : queue[i] = kind

\* Where the hello and the load order are: submitted once, in this order.
ToldOnce ==
  /\ Done("hello") <=> inOrder # <<>> \/ Waiting("hello")
  /\ ~Done("kDataLoaded") => Len(inOrder) < 2 /\ ~Waiting("plugins")
  /\ inOrder # <<>> => ~Waiting("hello")
  /\ Len(inOrder) = 2 => ~Waiting("plugins")
  /\ \A i, j \in DOMAIN queue :
       /\ queue[i] \in {"hello", "plugins"} /\ queue[i] = queue[j] => i = j
       /\ queue[i] = "hello" /\ queue[j] = "plugins" => i < j

LoadInv == LoadTypeOK /\ NoneTooEarly /\ AttachedInTime /\ ToldOnce
=============================================================================
