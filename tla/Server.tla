------------------------------- MODULE Server -------------------------------
(***************************************************************************)
(* The replstoke server (src/server.rs) at the granularity of its threads: *)
(* the supervisor loop of `run`, one `pump` per REPL output stream and one *)
(* `client_in` per connection, together with what surrounds them: the REPL *)
(* process, the operating system's clocks and the connecting clients.      *)
(*                                                                         *)
(* A step is one critical section (one acquisition of the Core, sink or    *)
(* repl_stdin mutex) or one access to an atomic flag, so everything the    *)
(* code reads under a lock and uses after the unlock can be stale here as  *)
(* it is there.  Blocking on a full pipe or socket is not modelled: a      *)
(* write completes or fails.                                               *)
(*                                                                         *)
(* A chunk of output is a record [from, mark]: what it is an answer to,    *)
(* and whether it completes the marker its stream is watched for in the    *)
(* phase in which the pump handles it.                                     *)
(***************************************************************************)
EXTENDS Core, Naturals, Sequences, FiniteSets

CONSTANTS
  Clients,              \* connections; each is made at most once
  None,                 \* no connection
  Streams,              \* the REPL's output streams, "out" and "err"
  Restart,              \* --restart
  ReadyMarkerTimeout,   \* --ready-marker-timeout is given
  WarmupMarker,         \* --warmup-marker-stdout or -stderr is given
  WarmupWait,           \* --warmup-wait is given
  WarmupMarkerTimeout,  \* --warmup-marker-timeout is given
  ResponseTimeout,      \* --response-timeout is given
  MaxStartupFailures,   \* MAX_STARTUP_FAILURES (5 in the code)
  Signals,              \* a shutdown signal may arrive
  Prompting,            \* the REPL finishes each unit of work with the marker
                        \* and prints nothing after it until it is fed again
  MaxSpawns,            \* bound: REPL processes spawned
  MaxOutput,            \* bound: chunks one REPL process prints
  MaxSends,             \* bound: writes of one client
  PipeSize              \* bound: unread chunks in one output pipe

Origins == Clients \cup {"boot", "warmup"}

\* The combinations build_server accepts.
TimeoutsAccepted ==
  /\ ReadyMarkerTimeout => ReadyMarker
  /\ HasWarmup <=> (WarmupMarker \/ WarmupWait)
  /\ WarmupMarkerTimeout => WarmupMarker

ASSUME ServerOptions ==
  /\ {Restart, ReadyMarkerTimeout, WarmupMarker, WarmupWait,
      WarmupMarkerTimeout, ResponseTimeout, Signals, Prompting} \subseteq BOOLEAN
  /\ TimeoutsAccepted

ASSUME Bounds ==
  /\ {MaxStartupFailures, MaxSpawns} \subseteq Nat \ {0}
  /\ {MaxOutput, MaxSends, PipeSize} \subseteq Nat

ASSUME Names ==
  /\ None \notin Clients
  /\ Clients \cap {"boot", "warmup", "status", "error"} = {}

VARIABLES
  \* Shared, beside Core
  sink,        \* the attached client whose socket output is written to
  stdin,       \* the REPL process whose stdin Shared.repl_stdin holds
  warmupSent,  \* the atomic flag
  shutdown,    \* the atomic flag, or the one the signal handler sets
  \* the supervisor
  spc,         \* where it is in its loop
  forced,      \* a draining deadline fired
  stuck,       \* a marker timeout fired
  failures,    \* consecutive_startup_failures
  outcome,     \* what run returns
  \* the pumps
  ppc,         \* where each is
  chunk,       \* the chunk it read and has not finished with
  \* the clients and their client_in threads
  cpc,         \* where each connection is on the server's side
  peer,        \* the state of its client's end
  inbox,       \* writes of the client not yet read by client_in
  sent,        \* writes of the client so far
  got,         \* what the client received: origins of output, ctl packets
  \* the REPL process
  inst,        \* the number of processes spawned
  alive,       \* the latest one is running
  fed,         \* what was written to the latest one's stdin, in order
  took,        \* how much of it the process has read
  working,     \* a prompting REPL has not printed its marker yet
  printed,     \* chunks it has printed
  pipe,        \* its unread output
  \* history, for the properties only
  born,        \* the process that was running when a client was accepted
  dropped,     \* clients that lost the sink before their client_in ended
  lastGood,    \* the latest process whose exit was no startup failure
  outOfTurn    \* some request was started while another was in flight, or was
               \* started or written for a client that had lost the sink

shared     == <<sink, stdin, warmupSent, shutdown>>
supervisor == <<spc, forced, stuck, failures, outcome>>
pumps      == <<ppc, chunk>>
clients    == <<cpc, peer, inbox, sent, got>>
repl       == <<inst, alive, fed, took, working, printed, pipe>>
history    == <<born, dropped, lastGood, outOfTurn>>
vars == <<core, shared, supervisor, pumps, clients, repl, history>>

Chunks == [from : Origins, mark : BOOLEAN]
Nothing == [from |-> "boot", mark |-> FALSE]
Running == spc # "exited"

\* A client_in thread exists, or is about to be spawned, for these.
Threads == {c \in Clients :
              cpc[c] \in {"greet", "wait", "read", "start", "fwait", "fwrite", "gone"}}

Init ==
  /\ CoreInit
  /\ sink = None /\ stdin = 1 /\ warmupSent = FALSE /\ shutdown = FALSE
  /\ spc = "top" /\ forced = FALSE /\ stuck = FALSE /\ failures = 0
  /\ outcome = "ok"
  /\ ppc = [s \in Streams |-> "read"]
  /\ chunk = [s \in Streams |-> Nothing]
  /\ cpc = [c \in Clients |-> "none"]
  /\ peer = [c \in Clients |-> "away"]
  /\ inbox = [c \in Clients |-> 0] /\ sent = [c \in Clients |-> 0]
  /\ got = [c \in Clients |-> {}]
  /\ inst = 1 /\ alive = TRUE /\ fed = <<>> /\ took = 0
  /\ working = TRUE /\ printed = 0
  /\ pipe = [s \in Streams |-> <<>>]
  /\ born = [c \in Clients |-> 0]
  /\ dropped = {} /\ lastGood = 0 /\ outOfTurn = FALSE

-----------------------------------------------------------------------------
(* Writing to the attached client and to the REPL.                         *)

\* Shared::deliver to whoever the sink holds, under the sink lock.  A write to
\* a client that has left may fail, and then the sink is dropped.
Deliver(item) ==
  \/ /\ sink = None
     /\ UNCHANGED <<sink, got, dropped>>
  \/ /\ sink # None
     /\ got' = [got EXCEPT ![sink] = IF peer[sink] = "open" THEN @ \cup {item} ELSE @]
     /\ UNCHANGED <<sink, dropped>>
  \/ /\ sink # None /\ peer[sink] = "left"
     /\ sink' = None /\ dropped' = dropped \cup {sink}
     /\ UNCHANGED got

SendCtl(item) ==
  IF Protocol THEN Deliver(item) ELSE UNCHANGED <<sink, got, dropped>>

\* The handle in repl_stdin leads to a process that still reads it.
StdinOpen == alive /\ stdin = inst

-----------------------------------------------------------------------------
(* The supervisor: the loop of `run`.                                      *)

Goto(l) == spc' = l

\* Mutant: a shutdown request is not looked at.
LoopTopDeaf ==
  /\ spc = "top" /\ Goto("phase")
  /\ UNCHANGED <<core, shared, forced, stuck, failures, outcome,
                 pumps, clients, repl, history>>

\* `if shared.should_stop() { break; }`
LoopTop ==
  /\ spc = "top"
  /\ IF shutdown THEN Goto("cleanup") ELSE Goto("phase")
  /\ UNCHANGED <<core, shared, forced, stuck, failures, outcome,
                 pumps, clients, repl, history>>

\* The match on a snapshot of the phase.  A bound of the phase that is found to
\* have elapsed, or an unsent warmup, leads to a step of its own.
NothingDue ==
  /\ spc = "phase"
  /\ phase = "Warmup" => warmupSent
  /\ Goto("reap")
  /\ UNCHANGED <<core, shared, forced, stuck, failures, outcome,
                 pumps, clients, repl, history>>

Due ==
  /\ spc = "phase"
  /\ \/ phase = "Booting" /\ (ReadyWait \/ (ReadyMarkerTimeout /\ ~stuck))
        /\ Goto("booting")
     \/ phase = "Warmup" /\ (~warmupSent \/ WarmupWait \/ (WarmupMarkerTimeout /\ ~stuck))
        /\ Goto("warmup")
     \/ phase = "Draining" /\ ResponseTimeout /\ ~forced
        /\ Goto("draining")
  /\ UNCHANGED <<core, shared, forced, stuck, failures, outcome,
                 pumps, clients, repl, history>>

ReadyWaitElapsed ==
  /\ spc = "booting" /\ ReadyWait
  /\ Ready
  /\ Goto("reap")
  /\ UNCHANGED <<shared, forced, stuck, failures, outcome,
                 pumps, clients, repl, history>>

\* guard.terminate() sends SIGTERM and, after a grace period, SIGKILL: no more is
\* heard of the process, though its exit may be reported later.
Kill == alive' = FALSE /\ UNCHANGED <<inst, fed, took, working, printed, pipe>>

MarkerTimeout ==
  /\ ~stuck
  /\ \/ spc = "booting" /\ ReadyMarkerTimeout
     \/ spc = "warmup" /\ warmupSent /\ WarmupMarkerTimeout
  /\ stuck' = TRUE
  /\ Kill
  /\ Goto("reap")
  /\ UNCHANGED <<core, shared, forced, failures, outcome, pumps, clients, history>>

\* send_warmup, the write: best effort.
SendWarmup ==
  /\ spc = "warmup" /\ ~warmupSent
  /\ fed' = IF StdinOpen THEN Append(fed, "warmup") ELSE fed
  /\ Goto("flag")
  /\ UNCHANGED <<core, shared, forced, stuck, failures, outcome, pumps, clients,
                 inst, alive, took, working, printed, pipe, history>>

\* send_warmup, the store that follows the write.
MarkWarmupSent ==
  /\ spc = "flag"
  /\ warmupSent' = TRUE
  /\ Goto("reap")
  /\ UNCHANGED <<core, sink, stdin, shutdown, forced, stuck, failures, outcome,
                 pumps, clients, repl, history>>

WarmupWaitElapsed ==
  /\ spc = "warmup" /\ warmupSent /\ WarmupWait
  /\ WarmupDone
  /\ Goto("reap")
  /\ UNCHANGED <<shared, forced, stuck, failures, outcome,
                 pumps, clients, repl, history>>

\* Mutant: the process is not terminated.
DrainTimeoutSpares ==
  /\ spc = "draining"
  /\ forced' = TRUE
  /\ Goto("reap")
  /\ UNCHANGED <<core, shared, stuck, failures, outcome, pumps, clients, repl, history>>

DrainTimeout ==
  /\ spc = "draining"
  /\ forced' = TRUE
  /\ Kill
  /\ Goto("reap")
  /\ UNCHANGED <<core, shared, stuck, failures, outcome, pumps, clients, history>>

\* try_wait reports the exit.
Reap ==
  /\ spc = "reap" /\ ~alive
  /\ IF Restart \/ forced THEN Goto("join") ELSE Goto("last_words")
  /\ forced' = FALSE
  /\ UNCHANGED <<core, shared, stuck, failures, outcome,
                 pumps, clients, repl, history>>

\* try_wait finds the process running, or not dead yet of the SIGKILL.
StillRunning ==
  /\ spc = "reap" /\ (alive \/ forced \/ stuck)
  /\ Goto("accept")
  /\ UNCHANGED <<core, shared, forced, stuck, failures, outcome,
                 pumps, clients, repl, history>>

\* try_wait itself fails.
ReapFails ==
  /\ spc = "reap"
  /\ Goto("stop")
  /\ UNCHANGED <<core, shared, forced, stuck, failures, outcome,
                 pumps, clients, repl, history>>

\* Mutants: stuck is not consumed, and the limit is off by one.
JoinAndJudgeKeepsStuck(young) ==
  LET failure == stuck \/ (~served /\ young) IN
  /\ spc = "join"
  /\ \A s \in Streams : ppc[s] = "done"
  /\ failures' = IF failure THEN failures + 1 ELSE 0
  /\ lastGood' = IF failure THEN lastGood ELSE inst
  /\ IF failures' >= MaxStartupFailures
     THEN outcome' = "gave_up" /\ Goto("last_words")
     ELSE outcome' = outcome /\ Goto("clear")
  /\ UNCHANGED <<core, shared, forced, stuck, pumps, clients, repl, born, dropped,
                 outOfTurn>>
JoinAndJudgeLate(young) ==
  LET failure == stuck \/ (~served /\ young) IN
  /\ spc = "join"
  /\ \A s \in Streams : ppc[s] = "done"
  /\ failures' = IF failure THEN failures + 1 ELSE 0
  /\ lastGood' = IF failure THEN lastGood ELSE inst
  /\ stuck' = FALSE
  /\ IF failures' > MaxStartupFailures
     THEN outcome' = "gave_up" /\ Goto("last_words")
     ELSE outcome' = outcome /\ Goto("clear")
  /\ UNCHANGED <<core, shared, forced, pumps, clients, repl, born, dropped,
                 outOfTurn>>

\* join_threads returns once both pumps have seen the end of their streams;
\* then the exit is judged.  Whether the process died within STARTUP_GRACE of
\* being spawned is chosen.
JoinAndJudge(young) ==
  LET failure == stuck \/ (~served /\ young) IN
  /\ spc = "join"
  /\ \A s \in Streams : ppc[s] = "done"
  /\ failures' = IF failure THEN failures + 1 ELSE 0
  /\ lastGood' = IF failure THEN lastGood ELSE inst
  /\ stuck' = FALSE
  /\ IF failures' >= MaxStartupFailures
     THEN outcome' = "gave_up" /\ Goto("last_words")
     ELSE outcome' = outcome /\ Goto("clear")
  /\ UNCHANGED <<core, shared, forced, pumps, clients, repl, born, dropped,
                 outOfTurn>>

\* Mutant: the client's socket is shut down and its sink kept.
ClearSinkKeeps ==
  /\ spc = "clear"
  /\ peer' = IF sink = None THEN peer ELSE [peer EXCEPT ![sink] = "cut"]
  /\ Goto("spawn")
  /\ UNCHANGED <<core, shared, forced, stuck, failures, outcome,
                 pumps, cpc, inbox, sent, got, repl, history>>

\* clear_sink: the dropped client's socket is shut down.
ClearSink ==
  /\ spc = "clear"
  /\ sink' = None
  /\ IF sink = None
     THEN UNCHANGED <<peer, dropped>>
     ELSE /\ peer' = [peer EXCEPT ![sink] = "cut"]
          /\ dropped' = dropped \cup {sink}
  /\ Goto("spawn")
  /\ UNCHANGED <<core, stdin, warmupSent, shutdown, forced, stuck, failures,
                 outcome, pumps, cpc, inbox, sent, got, repl, born, lastGood,
                 outOfTurn>>

\* Mutant: begin_booting forgets warmup_sent.
SpawnKeepsWarmupSent ==
  /\ spc = "spawn" /\ inst < MaxSpawns
  /\ inst' = inst + 1 /\ alive' = TRUE
  /\ fed' = <<>> /\ took' = 0 /\ working' = TRUE /\ printed' = 0
  /\ pipe' = [s \in Streams |-> <<>>]
  /\ Goto("boot")
  /\ UNCHANGED <<core, shared, forced, stuck, failures, outcome, pumps, clients, history>>

\* repl::spawn succeeds, and begin_booting stores warmup_sent.  Only the pumps,
\* which have been joined, and the supervisor read that flag.
Spawn ==
  /\ spc = "spawn" /\ inst < MaxSpawns
  /\ inst' = inst + 1 /\ alive' = TRUE
  /\ fed' = <<>> /\ took' = 0 /\ working' = TRUE /\ printed' = 0
  /\ pipe' = [s \in Streams |-> <<>>]
  /\ warmupSent' = FALSE
  /\ Goto("boot")
  /\ UNCHANGED <<core, sink, stdin, shutdown, forced, stuck, failures, outcome,
                 pumps, clients, history>>

SpawnFails ==
  /\ spc = "spawn"
  /\ outcome' = "cannot_restart"
  /\ Goto("last_words")
  /\ UNCHANGED <<core, shared, forced, stuck, failures, pumps, clients, repl, history>>

\* begin_booting, under the Core lock.
Reboot ==
  /\ spc = "boot"
  /\ BeginBooting
  /\ Goto("wire")
  /\ UNCHANGED <<shared, forced, stuck, failures, outcome,
                 pumps, clients, repl, history>>

\* Mutant: the old stdin handle stays.
WireReplKeepsStdin ==
  /\ spc = "wire"
  /\ ppc' = [s \in Streams |-> "read"]
  /\ Goto("accept")
  /\ UNCHANGED <<core, shared, forced, stuck, failures, outcome,
                 chunk, clients, repl, history>>

WireRepl ==
  /\ spc = "wire"
  /\ stdin' = inst
  /\ ppc' = [s \in Streams |-> "read"]
  /\ Goto("accept")
  /\ UNCHANGED <<core, sink, warmupSent, shutdown, forced, stuck, failures, outcome,
                 chunk, clients, repl, history>>

\* The ctl error packet of the three ways the loop gives up.
LastWords ==
  /\ spc = "last_words"
  /\ SendCtl("error")
  /\ Goto("stop")
  /\ UNCHANGED <<core, stdin, warmupSent, shutdown, forced, stuck, failures, outcome,
                 pumps, cpc, peer, inbox, sent, repl, born, lastGood,
                 outOfTurn>>

StopServer ==
  /\ spc = "stop"
  /\ shutdown' = TRUE
  /\ Stop
  /\ Goto("cleanup")
  /\ UNCHANGED <<sink, stdin, warmupSent, forced, stuck, failures, outcome,
                 pumps, clients, repl, history>>

\* cleanup, and the return of run, which ends every other thread.
Cleanup ==
  /\ spc = "cleanup"
  /\ Kill
  /\ Goto("exited")
  /\ UNCHANGED <<core, shared, forced, stuck, failures, outcome, pumps, clients, history>>

\* listener.accept() would block.
NobodyWaiting ==
  /\ spc = "accept"
  /\ \A c \in Clients : cpc[c] # "queued"
  /\ Goto("top")
  /\ UNCHANGED <<core, shared, forced, stuck, failures, outcome,
                 pumps, clients, repl, history>>

\* handle_connection: the gate, under the Core and the sink lock.
Accept(c) ==
  /\ spc = "accept" /\ cpc[c] = "queued"
  /\ sink = None
  /\ TryAccept
  /\ sink' = c
  /\ cpc' = [cpc EXCEPT ![c] = "greet"]
  /\ born' = [born EXCEPT ![c] = inst]
  /\ Goto("greet")
  /\ UNCHANGED <<stdin, warmupSent, shutdown, forced, stuck, failures, outcome,
                 pumps, peer, inbox, sent, got, repl, dropped, lastGood,
                 outOfTurn>>

\* The gate is closed, or the socket cannot be cloned: the connection is dropped.
Refuse(c) ==
  /\ spc = "accept" /\ cpc[c] = "queued"
  /\ cpc' = [cpc EXCEPT ![c] = "done"]
  /\ peer' = [peer EXCEPT ![c] = "cut"]
  /\ Goto("top")
  /\ UNCHANGED <<core, shared, forced, stuck, failures, outcome,
                 pumps, inbox, sent, got, repl, history>>

\* send_ctl_status, then the client_in thread.
Greet(c) ==
  /\ spc = "greet" /\ cpc[c] = "greet"
  /\ SendCtl("status")
  /\ cpc' = [cpc EXCEPT ![c] = "wait"]
  /\ Goto("top")
  /\ UNCHANGED <<core, stdin, warmupSent, shutdown, forced, stuck, failures, outcome,
                 pumps, peer, inbox, sent, repl, born, lastGood,
                 outOfTurn>>

Supervise ==
  \/ LoopTop \/ NothingDue \/ Due \/ ReadyWaitElapsed \/ MarkerTimeout
  \/ SendWarmup \/ MarkWarmupSent \/ WarmupWaitElapsed \/ DrainTimeout
  \/ Reap \/ StillRunning \/ ReapFails
  \/ \E young \in BOOLEAN : JoinAndJudge(young)
  \/ ClearSink \/ Spawn \/ SpawnFails \/ Reboot \/ WireRepl
  \/ LastWords \/ StopServer \/ Cleanup \/ NobodyWaiting
  \/ \E c \in Clients : Accept(c) \/ Refuse(c) \/ Greet(c)

-----------------------------------------------------------------------------
(* The pumps.                                                              *)

\* Mutant: only boot output is withheld from the client.
HandlingWarmupAsTail(ch) ==
  IF phase = "Booting" THEN IF ch.mark /\ ReadyMarker THEN "ready" ELSE "read"
  ELSE IF phase = "Warmup" THEN IF ch.mark /\ WarmupMarker THEN "warmup" ELSE "tail"
  ELSE IF phase \in {"Busy", "Draining"} THEN "response"
  ELSE IF ~Protocol \/ (phase = "Idle" /\ serving) THEN "tail" ELSE "read"

\* What the phase and serving say is to be done with a chunk: nothing more when
\* it goes to the server's own streams only.
Handling(ch) ==
  IF phase = "Booting" THEN IF ch.mark /\ ReadyMarker THEN "ready" ELSE "read"
  ELSE IF phase = "Warmup" THEN IF ch.mark /\ WarmupMarker THEN "warmup" ELSE "read"
  ELSE IF phase \in {"Busy", "Draining"} THEN "response"
  ELSE IF ~Protocol \/ (phase = "Idle" /\ serving) THEN "tail" ELSE "read"

\* Read a chunk and take the snapshot of phase and serving that routes it.
\* Output kept from the client goes to the server's own streams.
PumpRead(s) ==
  /\ Running /\ ppc[s] = "read" /\ pipe[s] # <<>>
  /\ LET ch == Head(pipe[s])
         next == Handling(ch)
     IN /\ ppc' = [ppc EXCEPT ![s] = next]
        /\ chunk' = [chunk EXCEPT ![s] = IF next = "read" THEN Nothing ELSE ch]
  /\ pipe' = [pipe EXCEPT ![s] = Tail(@)]
  /\ UNCHANGED <<core, shared, supervisor, clients,
                 inst, alive, fed, took, working, printed, history>>

PumpNext(s) == ppc' = [ppc EXCEPT ![s] = "read"] /\ chunk' = [chunk EXCEPT ![s] = Nothing]

\* detect_ready
PumpReady(s) ==
  /\ Running /\ ppc[s] = "ready"
  /\ Ready
  /\ PumpNext(s)
  /\ UNCHANGED <<shared, supervisor, clients, repl, history>>

\* detect_warmup
PumpWarmup(s) ==
  /\ Running /\ ppc[s] = "warmup"
  /\ IF warmupSent THEN WarmupDone ELSE UNCHANGED core
  /\ PumpNext(s)
  /\ UNCHANGED <<shared, supervisor, clients, repl, history>>

\* deliver_repl_output with to_client: route_out or route_err.
PumpRoute(s) ==
  /\ Running /\ ppc[s] \in {"response", "tail"}
  /\ Deliver(chunk[s].from)
  /\ IF ppc[s] = "response" /\ chunk[s].mark
     THEN ppc' = [ppc EXCEPT ![s] = "boundary"] /\ UNCHANGED chunk
     ELSE PumpNext(s)
  /\ UNCHANGED <<core, stdin, warmupSent, shutdown, supervisor,
                 cpc, peer, inbox, sent, repl, born, lastGood,
                 outOfTurn>>

\* The scanner found an end marker.
PumpBoundary(s) ==
  /\ Running /\ ppc[s] = "boundary"
  /\ ResponseEnd
  /\ PumpNext(s)
  /\ UNCHANGED <<shared, supervisor, clients, repl, history>>

\* The stream ends when the process is gone and its output has been read.
PumpEof(s) ==
  /\ Running /\ ppc[s] = "read" /\ pipe[s] = <<>> /\ ~alive
  /\ ppc' = [ppc EXCEPT ![s] = "done"]
  /\ UNCHANGED <<core, shared, supervisor, chunk, clients, repl, history>>

Pump(s) == PumpRead(s) \/ PumpReady(s) \/ PumpWarmup(s) \/ PumpRoute(s)
             \/ PumpBoundary(s) \/ PumpEof(s)

-----------------------------------------------------------------------------
(* The client_in threads.                                                  *)

ClientGoto(c, l) == Running /\ cpc' = [cpc EXCEPT ![c] = l]

\* Mutant: only the boot is waited for.
WaitUntilBooted(c) ==
  /\ cpc[c] \in {"wait", "fwait"}
  /\ phase # "Booting" \/ shutdown
  /\ ClientGoto(c, IF shutdown THEN "gone"
                   ELSE IF cpc[c] = "wait" THEN "read" ELSE "fwrite")
  /\ UNCHANGED <<core, shared, supervisor, pumps, peer, inbox, sent, got, repl, history>>

\* wait_until_ready, before the read and in forward_to_repl.
WaitUntilReady(c) ==
  /\ cpc[c] \in {"wait", "fwait"}
  /\ ~PreServing \/ shutdown
  /\ ClientGoto(c, IF shutdown THEN "gone"
                   ELSE IF cpc[c] = "wait" THEN "read" ELSE "fwrite")
  /\ UNCHANGED <<core, shared, supervisor, pumps, peer, inbox, sent, got, repl, history>>

\* Mutant: a read of no bytes is not the end.
ReadInputOrNothing(c) ==
  /\ cpc[c] = "read" /\ (inbox[c] > 0 \/ peer[c] = "left")
  /\ inbox' = [inbox EXCEPT ![c] = @ - 1]
  /\ ClientGoto(c, "start")
  /\ UNCHANGED <<core, shared, supervisor, pumps, peer, sent, got, repl, history>>

ReadInput(c) ==
  /\ cpc[c] = "read" /\ inbox[c] > 0
  /\ inbox' = [inbox EXCEPT ![c] = @ - 1]
  /\ ClientGoto(c, "start")
  /\ UNCHANGED <<core, shared, supervisor, pumps, peer, sent, got, repl, history>>

\* Mutant: the end of a connection that the client closed goes unnoticed.
ReadEofCutOnly(c) ==
  /\ cpc[c] = "read"
  /\ peer[c] = "cut" /\ inbox[c] = 0
  /\ ClientGoto(c, "gone")
  /\ UNCHANGED <<core, shared, supervisor, pumps, peer, inbox, sent, got, repl, history>>

\* End of file or a reset.  What a client sent before leaving may be read first.
ReadEof(c) ==
  /\ cpc[c] = "read"
  /\ peer[c] = "left" \/ (peer[c] = "cut" /\ inbox[c] = 0)
  /\ ClientGoto(c, "gone")
  /\ UNCHANGED <<core, shared, supervisor, pumps, peer, inbox, sent, got, repl, history>>

StartRequest(c) ==
  /\ cpc[c] = "start"
  /\ RequestStart
  /\ ClientGoto(c, "fwait")
  /\ outOfTurn' = (outOfTurn \/ sink # c \/ phase # "Idle")
  /\ UNCHANGED <<shared, supervisor, pumps, peer, inbox, sent, got, repl,
                 born, dropped, lastGood>>

\* forward_to_repl: the write, under the repl_stdin lock.  It fails in the gap
\* between an exit and the next wire_repl, and is retried.
Forward(c) ==
  /\ cpc[c] = "fwrite"
  /\ IF StdinOpen
     THEN fed' = Append(fed, c) /\ ClientGoto(c, "wait")
     ELSE fed' = fed /\ ClientGoto(c, IF shutdown THEN "gone" ELSE "fwait")
  /\ outOfTurn' = (outOfTurn \/ (StdinOpen /\ sink # c))
  /\ UNCHANGED <<core, shared, supervisor, pumps, peer, inbox, sent, got,
                 inst, alive, took, working, printed, pipe, born, dropped, lastGood>>

\* Mutant: the sink is kept.
GoneKeepsSink(c) ==
  /\ cpc[c] = "gone"
  /\ ClientGone
  /\ ClientGoto(c, "done")
  /\ UNCHANGED <<shared, supervisor, pumps, peer, inbox, sent, got, repl, history>>

\* Shared::client_gone, under the Core and the sink lock.
Gone(c) ==
  /\ cpc[c] = "gone"
  /\ sink' = IF sink = c THEN None ELSE sink
  /\ ClientGone
  /\ ClientGoto(c, "done")
  /\ UNCHANGED <<stdin, warmupSent, shutdown, supervisor, pumps,
                 peer, inbox, sent, got, repl, history>>

ClientIn(c) == WaitUntilReady(c) \/ ReadInput(c) \/ ReadEof(c) \/ StartRequest(c)
                 \/ Forward(c) \/ Gone(c)

-----------------------------------------------------------------------------
(* The surroundings: clients, the REPL process and signals.                *)

Connect(c) ==
  /\ Running /\ cpc[c] = "none"
  /\ cpc' = [cpc EXCEPT ![c] = "queued"] /\ peer' = [peer EXCEPT ![c] = "open"]
  /\ UNCHANGED <<core, shared, supervisor, pumps, inbox, sent, got, repl, history>>

Send(c) ==
  /\ Running /\ peer[c] = "open" /\ cpc[c] # "done" /\ sent[c] < MaxSends
  /\ sent' = [sent EXCEPT ![c] = @ + 1] /\ inbox' = [inbox EXCEPT ![c] = @ + 1]
  /\ UNCHANGED <<core, shared, supervisor, pumps, cpc, peer, got, repl, history>>

\* The client closes its socket or dies.
Leave(c) ==
  /\ Running /\ peer[c] = "open" /\ cpc[c] # "done"
  /\ peer' = [peer EXCEPT ![c] = "left"]
  /\ UNCHANGED <<core, shared, supervisor, pumps, cpc, inbox, sent, got, repl, history>>

ReplReads ==
  /\ Running /\ alive /\ took < Len(fed)
  /\ Prompting => ~working
  /\ took' = took + 1 /\ working' = TRUE
  /\ UNCHANGED <<core, shared, supervisor, pumps, clients,
                 inst, alive, fed, printed, pipe, history>>

\* What the REPL prints is an answer to the last thing it read.
ReplPrints(s, mark) ==
  /\ Running /\ alive /\ printed < MaxOutput /\ Len(pipe[s]) < PipeSize
  /\ Prompting => working
  /\ pipe' = [pipe EXCEPT ![s] =
                Append(@, [from |-> IF took = 0 THEN "boot" ELSE fed[took], mark |-> mark])]
  /\ printed' = printed + 1
  /\ working' = (working /\ ~mark)
  /\ UNCHANGED <<core, shared, supervisor, pumps, clients,
                 inst, alive, fed, took, history>>

ReplDies ==
  /\ Running /\ alive
  /\ alive' = FALSE
  /\ UNCHANGED <<core, shared, supervisor, pumps, clients,
                 inst, fed, took, working, printed, pipe, history>>

\* SIGINT, SIGTERM or --kill.
Signal ==
  /\ Running /\ Signals /\ ~shutdown
  /\ shutdown' = TRUE
  /\ UNCHANGED <<core, sink, stdin, warmupSent, supervisor, pumps, clients, repl, history>>

Surroundings ==
  \/ \E c \in Clients : Connect(c) \/ Send(c) \/ Leave(c)
  \/ ReplReads \/ ReplDies \/ Signal
  \/ \E s \in Streams, mark \in BOOLEAN : ReplPrints(s, mark)

\* The process has exited; the model may stay there.
Exited == ~Running /\ UNCHANGED vars

Next ==
  \/ Supervise
  \/ \E s \in Streams : Pump(s)
  \/ \E c \in Clients : ClientIn(c)
  \/ Surroundings
  \/ Exited

Spec == Init /\ [][Next]_vars

\* Every thread that can take a step eventually does, a bound of a phase that
\* lasts is eventually found to have elapsed, and an exit to have happened.
\* Nothing is asked of the REPL, of the clients or of whoever sends signals.
Fairness ==
  /\ WF_vars(Supervise) /\ SF_vars(Due) /\ SF_vars(Reap)
  /\ \A s \in Streams : WF_vars(Pump(s))
  /\ \A c \in Clients : WF_vars(ClientIn(c))

FairSpec == Spec /\ Fairness

Life == INSTANCE Lifecycle WITH
          holder <- sink, process <- inst, fresh <- (spc = "boot"),
          streak <- failures, FirstPhase <- InitialPhase

-----------------------------------------------------------------------------
(* Properties.                                                             *)

\* The variables hold values of their kinds: Core and Shared, the locals of run,
\* of pump and of client_in, and the surroundings.
SharedTypeOK ==
  /\ CoreTypeOK
  /\ sink \in Clients \cup {None} /\ stdin \in 1..inst
  /\ warmupSent \in BOOLEAN /\ shutdown \in BOOLEAN
SupervisorTypeOK ==
  /\ spc \in {"top", "phase", "booting", "warmup", "draining", "flag", "reap", "join",
              "clear", "spawn", "boot", "wire", "accept", "greet", "last_words",
              "stop", "cleanup", "exited"}
  /\ forced \in BOOLEAN /\ stuck \in BOOLEAN
  /\ failures \in 0..MaxStartupFailures
  /\ outcome \in {"ok", "gave_up", "cannot_restart"}
PumpsTypeOK ==
  /\ ppc \in [Streams -> {"read", "ready", "warmup", "response", "tail", "boundary", "done"}]
  /\ chunk \in [Streams -> Chunks]
ClientsTypeOK ==
  /\ cpc \in [Clients -> {"none", "queued", "greet", "wait", "read", "start", "fwait",
                         "fwrite", "gone", "done"}]
  /\ peer \in [Clients -> {"away", "open", "left", "cut"}]
  /\ inbox \in [Clients -> Nat] /\ sent \in [Clients -> Nat]
  /\ got \in [Clients -> SUBSET (Origins \cup {"status", "error"})]
ReplTypeOK ==
  /\ inst \in Nat \ {0} /\ alive \in BOOLEAN
  /\ fed \in Seq(Clients \cup {"warmup"}) /\ took \in 0..Len(fed)
  /\ working \in BOOLEAN /\ printed \in Nat
  /\ pipe \in [Streams -> Seq(Chunks)]
HistoryTypeOK ==
  /\ born \in [Clients -> 0..inst] /\ dropped \subseteq Clients
  /\ lastGood \in 0..inst /\ outOfTurn \in BOOLEAN

TypeOK == SharedTypeOK /\ SupervisorTypeOK /\ PumpsTypeOK /\ ClientsTypeOK
            /\ ReplTypeOK /\ HistoryTypeOK

\* The slot is never leaked: whoever holds the sink has a client_in thread that
\* will give it back (client_gone compares generations before clearing it).
SlotHasThread == sink # None => sink \in Threads

\* A reservation is never orphaned: while the phase is Busy some client_in
\* thread is left that will turn it into Draining and arm its deadline.
BusyHasThread == phase = "Busy" => Threads # {}

\* Output is forwarded to a client only while somebody is there to end that:
\* serving never outlives every client_in thread.
ServingHasThread == serving => Threads # {}

\* forced and stuck describe the process that was killed and never the next
\* one: neither is set while a process is running.
KillReasonsAreFresh == forced \/ stuck => ~alive

\* The crash-loop breaker: a process that is running follows fewer than
\* MaxStartupFailures startup failures in a row, and the server gives up after
\* exactly that many.
RestartsAreBounded ==
  /\ alive => inst - 1 - lastGood < MaxStartupFailures
  /\ outcome = "gave_up" => inst - lastGood = MaxStartupFailures

\* A client that is connected when a restart fails is told so by a ctl error.
RestartFailureReported ==
  outcome = "cannot_restart" /\ spc = "stop"
    => \A c \in Clients : born[c] = inst /\ peer[c] = "cut" => "error" \in got[c]

\* What a client sends never precedes the warmup in the stdin of the process
\* that was running when it was accepted, and the warmup is written only once.
WarmupBeforeInput ==
  /\ \A i, j \in DOMAIN fed : fed[i] = "warmup" /\ fed[j] = "warmup" => i = j
  /\ HasWarmup =>
       \A i \in DOMAIN fed : fed[i] \in Clients /\ born[fed[i]] = inst
                              => \E j \in 1..(i - 1) : fed[j] = "warmup"

\* Draining means that the requester has left, unless a client whose sink had
\* been dropped under it was still about to run client_gone.
DrainingHasNoClient == phase = "Draining" => sink = None
DrainingUnlessDropped == phase = "Draining" /\ dropped = {} => sink = None

\* What keeping the clients apart takes: framed packets, a REPL that ends each unit
\* of work with the marker, all its output on one stream, and the ends of boot and
\* warmup told by markers alone.  (What is left in the pipe of a second stream, or
\* comes when a wait has elapsed, goes to whoever is there by then.)
OneStream == \A s, t \in Streams : s = t
UnitsAreMarked ==
  /\ Protocol /\ Prompting /\ OneStream /\ ReadyMarker
  /\ HasWarmup => WarmupMarker /\ ~WarmupWait

\* No client is sent what the REPL answered to another one, as long as no request
\* is started while one is in flight (a client sending more before its answer) and
\* none is started or written for a client that has lost the sink (by a failed
\* write, or because the REPL was replaced) and whose client_in still runs.
ForeignOutput(c) == (got[c] \cap Clients) \ {c}
Isolation == \A c \in Clients : ForeignOutput(c) = {}
IsolationInTurn == UnitsAreMarked /\ ~outOfTurn => Isolation

\* Under the same conditions what the REPL prints while booting or for the warmup
\* reaches no client.
QuietStart == \A c \in Clients : got[c] \cap {"boot", "warmup"} = {}
QuietStartInTurn == UnitsAreMarked /\ ~outOfTurn => QuietStart

\* Whatever a process is fed starts with the warmup.
WarmupFirst == HasWarmup /\ fed # <<>> => fed[1] = "warmup"

\* The threads together do what Lifecycle allows and nothing else.
ImplementsLifecycle == Life!Spec

\* A reservation ends: with --response-timeout the REPL is not left draining for
\* ever, whether it answers or not.
DrainingEnds == phase = "Draining" ~> phase # "Draining" \/ ~Running

\* The slot of a client that has left is given back, if the boot is bounded.
SlotIsFreed == \A c \in Clients : (sink = c /\ peer[c] = "left") ~> (sink # c \/ ~Running)

\* Input that was read is forwarded, also across a respawn, or its client is gone.
InputIsForwarded ==
  \A c \in Clients : cpc[c] = "fwait" ~> (cpc[c] \in {"wait", "gone"} \/ ~Running)

\* A shutdown request ends the server.
ShutdownCompletes == shutdown ~> ~Running
=============================================================================
