---------------------------- MODULE ServerLocks ----------------------------
(***************************************************************************)
(* The mutexes of the server (src/server.rs) and the I/O that may block    *)
(* under them.  Server treats a critical section as one step and a write   *)
(* as something that completes or fails; here a thread can be stopped      *)
(* inside, by a client that does not read its socket, by a REPL that does  *)
(* not read its stdin, or by a process that keeps the REPL's pipes open    *)
(* after the REPL has exited.                                              *)
(*                                                                         *)
(* A lock that is only held for a few instructions has no owner here: the  *)
(* step that takes it needs it free and leaves it free.  A lock has an     *)
(* owner while that thread waits for something else: Core in client_gone   *)
(* and handle_connection (for the sink), the sink during a socket write,   *)
(* repl_stdin during a pipe write.                                         *)
(*                                                                         *)
(* What Server already says is simplified: a chunk is only a marker or     *)
(* not, the breaker may give up at any failure, and a process is alive or  *)
(* not.                                                                    *)
(***************************************************************************)
EXTENDS Core, Naturals, FiniteSets

CONSTANTS
  Clients,        \* connections; each is made at most once
  Streams,        \* the REPL's output streams
  Main,           \* the supervisor
  None,           \* no thread, no client
  Restart,        \* --restart
  ResponseTimeout,\* --response-timeout is given
  Orphans         \* a process of the REPL's may outlive it and keep its pipes

Threads == {Main} \cup Streams \cup Clients

ASSUME LockOptions ==
  {Restart, ResponseTimeout, Orphans} \subseteq BOOLEAN
ASSUME LockThreads ==
  /\ Main \notin Streams /\ Main \notin Clients
  /\ Streams \cap Clients = {} /\ None \notin Threads

VARIABLES
  coreBy, sinkBy, stdinBy,   \* the owners of the three mutexes
  pc,           \* where each thread is
  slot,         \* Shared.sink: the attached client
  shutdown,     \* Shared.shutdown or the signal handler's flag
  warmupSent,   \* Shared.warmup_sent
  forced,       \* a draining deadline fired
  marker,       \* streams whose pump holds a chunk with the end marker
  peer,         \* each client's end of its connection
  sockFull,     \* the attached client's socket takes no more output
  stdinFull,    \* the REPL's stdin pipe takes no more input
  alive,        \* the REPL process is running
  orphan        \* somebody else holds its pipes

locks == <<coreBy, sinkBy, stdinBy>>
vars == <<core, locks, pc, slot, shutdown, warmupSent, forced, marker, peer,
          sockFull, stdinFull, alive, orphan>>
\* Everything a step of a thread leaves alone unless it says otherwise.
outside == <<peer, alive, orphan>>

Running == pc[Main] # "exited"
At(t, l) == Running /\ pc[t] = l
Goto(t, l) == pc' = [pc EXCEPT ![t] = l]
CoreFree  == coreBy = None
SinkFree  == sinkBy = None
StdinFree == stdinBy = None

Init ==
  /\ CoreInit
  /\ coreBy = None /\ sinkBy = None /\ stdinBy = None
  /\ pc = [t \in Threads |-> IF t = Main THEN "top" ELSE IF t \in Streams THEN "read" ELSE "none"]
  /\ slot = None /\ shutdown = FALSE /\ warmupSent = FALSE /\ forced = FALSE
  /\ marker = {}
  /\ peer = [c \in Clients |-> "away"]
  /\ sockFull = FALSE /\ stdinFull = FALSE
  /\ alive = TRUE /\ orphan = FALSE

-----------------------------------------------------------------------------
(* Blocking writes.                                                        *)

\* Mutant: nobody looks whether a client is attached.
LockSinkUnattended(t, from, writing, after) ==
  /\ At(t, from) /\ SinkFree
  /\ Goto(t, writing) /\ sinkBy' = t
  /\ UNCHANGED <<core, coreBy, stdinBy, slot, shutdown, warmupSent, forced, marker,
                 sockFull, stdinFull, outside>>

\* route_out, route_err and send_ctl lock the sink.  With nobody attached the
\* chunk goes to the server's own streams and the lock is given back at once.
LockSink(t, from, writing, after) ==
  /\ At(t, from) /\ SinkFree
  /\ IF slot = None
     THEN Goto(t, after) /\ UNCHANGED sinkBy
     ELSE Goto(t, writing) /\ sinkBy' = t
  /\ UNCHANGED <<core, coreBy, stdinBy, slot, shutdown, warmupSent, forced, marker,
                 sockFull, stdinFull, outside>>

\* Mutant: the sink is still locked when the pump goes on.
WriteSocketKeepsLock(t, writing, after) ==
  /\ At(t, writing)
  /\ ~sockFull \/ peer[slot] = "left"
  /\ sockFull' \in {sockFull, TRUE}
  /\ IF after = "boundary" THEN UNCHANGED sinkBy ELSE sinkBy' = None
  /\ Goto(t, after)
  /\ UNCHANGED <<core, coreBy, stdinBy, slot, shutdown, warmupSent, forced, marker,
                 stdinFull, outside>>

\* deliver: it does not return while the client's socket is full.  It may be the
\* write that fills it, and it may fail once the client has left.
WriteSocket(t, writing, after) ==
  /\ At(t, writing)
  /\ \/ /\ ~sockFull \/ peer[slot] = "left"
        /\ sockFull' \in {sockFull, TRUE}
        /\ UNCHANGED slot
     \/ /\ peer[slot] = "left"
        /\ slot' = None /\ sockFull' = FALSE
  /\ sinkBy' = None
  /\ Goto(t, after)
  /\ UNCHANGED <<core, coreBy, stdinBy, shutdown, warmupSent, forced, marker,
                 stdinFull, outside>>

LockStdin(t, from, writing) ==
  /\ At(t, from) /\ StdinFree
  /\ stdinBy' = t
  /\ Goto(t, writing)
  /\ UNCHANGED <<core, coreBy, sinkBy, slot, shutdown, warmupSent, forced, marker,
                 sockFull, stdinFull, outside>>

\* A write to the REPL's stdin fails when nobody can read it any more, and does
\* not return while the pipe is full.
StdinBroken == ~alive /\ ~orphan

-----------------------------------------------------------------------------
(* The supervisor.                                                         *)

LoopTop ==
  /\ At(Main, "top")
  /\ Goto(Main, IF shutdown THEN "cleanup" ELSE "phase")
  /\ UNCHANGED <<core, locks, slot, shutdown, warmupSent, forced, marker,
                 sockFull, stdinFull, outside>>

\* The match on shared.phase(): nothing due, or one of the timed actions.  Which
\* of the bounds on the warmup and on the ready marker are given is left open.
Phase ==
  /\ At(Main, "phase") /\ CoreFree
  /\ \/ (phase = "Warmup" => warmupSent) /\ Goto(Main, "reap")
     \/ phase = "Booting" /\ Goto(Main, IF ReadyWait THEN "ready" ELSE "kill")
     \/ phase = "Warmup" /\ ~warmupSent /\ Goto(Main, "warmup")
     \/ phase = "Warmup" /\ warmupSent /\ (Goto(Main, "warmed") \/ Goto(Main, "kill"))
     \/ phase = "Draining" /\ ResponseTimeout /\ ~forced /\ Goto(Main, "drain")
  /\ UNCHANGED <<core, locks, slot, shutdown, warmupSent, forced, marker,
                 sockFull, stdinFull, outside>>

\* --ready-wait or --warmup-wait has elapsed: signal_ready, warmup_done.
WaitElapsed ==
  /\ Running /\ pc[Main] \in {"ready", "warmed"} /\ CoreFree
  /\ IF pc[Main] = "ready" THEN Ready ELSE WarmupDone
  /\ Goto(Main, "reap")
  /\ UNCHANGED <<locks, slot, shutdown, warmupSent, forced, marker,
                 sockFull, stdinFull, outside>>

\* A marker timeout or a draining deadline: terminate.
Terminate ==
  /\ Running /\ pc[Main] \in {"kill", "drain"}
  /\ forced' = (forced \/ pc[Main] = "drain")
  /\ alive' = FALSE
  /\ Goto(Main, "reap")
  /\ UNCHANGED <<core, locks, slot, shutdown, warmupSent, marker, peer,
                 sockFull, stdinFull, orphan>>

\* send_warmup: the supervisor itself writes under the repl_stdin lock.
SendWarmup ==
  /\ At(Main, "warmup_write")
  /\ \/ StdinBroken /\ UNCHANGED stdinFull
     \/ ~StdinBroken /\ ~stdinFull /\ stdinFull' \in BOOLEAN
  /\ stdinBy' = None /\ warmupSent' = TRUE
  /\ Goto(Main, "reap")
  /\ UNCHANGED <<core, coreBy, sinkBy, slot, shutdown, forced, marker, sockFull, outside>>

\* send_ctl_error comes before stop in framed mode.
LastWords == IF Protocol THEN "words" ELSE "stop"

\* try_wait: running, exited, or failing.
Reap ==
  /\ At(Main, "reap")
  /\ \/ alive /\ Goto(Main, "accept") /\ UNCHANGED forced
     \/ ~alive /\ forced' = FALSE
        /\ Goto(Main, IF Restart \/ forced THEN "join" ELSE LastWords)
     \/ Goto(Main, "stop") /\ UNCHANGED forced
  /\ UNCHANGED <<core, locks, slot, shutdown, warmupSent, marker,
                 sockFull, stdinFull, outside>>

\* join_threads, then served() and the breaker.
Join ==
  /\ At(Main, "join") /\ \A s \in Streams : pc[s] = "done"
  /\ Goto(Main, "judge")
  /\ UNCHANGED <<core, locks, slot, shutdown, warmupSent, forced, marker,
                 sockFull, stdinFull, outside>>

Judge ==
  /\ At(Main, "judge") /\ CoreFree
  /\ \/ Goto(Main, "clear")
     \/ Goto(Main, LastWords)
  /\ UNCHANGED <<core, locks, slot, shutdown, warmupSent, forced, marker,
                 sockFull, stdinFull, outside>>

ClearSink ==
  /\ At(Main, "clear") /\ SinkFree
  /\ slot' = None
  /\ peer' = [c \in Clients |-> IF c = slot /\ peer[c] = "open" THEN "cut" ELSE peer[c]]
  /\ sockFull' = FALSE
  /\ Goto(Main, "spawn")
  /\ UNCHANGED <<core, locks, shutdown, warmupSent, forced, marker, stdinFull,
                 alive, orphan>>

Spawn ==
  /\ At(Main, "spawn")
  /\ \/ alive' = TRUE /\ Goto(Main, "boot")
     \/ Goto(Main, LastWords) /\ UNCHANGED alive
  /\ UNCHANGED <<core, locks, slot, shutdown, warmupSent, forced, marker, peer,
                 sockFull, stdinFull, orphan>>

Reboot ==
  /\ At(Main, "boot") /\ CoreFree
  /\ warmupSent' = FALSE
  /\ BeginBooting
  /\ Goto(Main, "wire")
  /\ UNCHANGED <<locks, slot, shutdown, forced, marker, sockFull, stdinFull, outside>>

\* wire_repl: the new stdin under its lock, then the pumps of the new pipes.
WireRepl ==
  /\ At(Main, "wire") /\ StdinFree
  /\ stdinFull' = FALSE
  /\ pc' = [t \in Threads |-> IF t = Main THEN "accept" ELSE IF t \in Streams THEN "read" ELSE pc[t]]
  /\ UNCHANGED <<core, locks, slot, shutdown, warmupSent, forced, marker, sockFull, outside>>

\* shared.stop()
StopServer ==
  /\ At(Main, "stop") /\ CoreFree
  /\ shutdown' = TRUE
  /\ Stop
  /\ Goto(Main, "cleanup")
  /\ UNCHANGED <<locks, slot, warmupSent, forced, marker, sockFull, stdinFull, outside>>

\* cleanup and the return from main end every thread.
Cleanup ==
  /\ At(Main, "cleanup")
  /\ Goto(Main, "exited") /\ alive' = FALSE
  /\ UNCHANGED <<core, locks, slot, shutdown, warmupSent, forced, marker, peer,
                 sockFull, stdinFull, orphan>>

NobodyWaiting ==
  /\ At(Main, "accept") /\ \A c \in Clients : pc[c] # "queued"
  /\ Goto(Main, "top")
  /\ UNCHANGED <<core, locks, slot, shutdown, warmupSent, forced, marker,
                 sockFull, stdinFull, outside>>

\* handle_connection: Core first, then the sink.
AcceptCore ==
  /\ At(Main, "accept") /\ CoreFree /\ \E c \in Clients : pc[c] = "queued"
  /\ coreBy' = Main
  /\ Goto(Main, "accept_sink")
  /\ UNCHANGED <<core, sinkBy, stdinBy, slot, shutdown, warmupSent, forced, marker,
                 sockFull, stdinFull, outside>>

AcceptSink(c) ==
  /\ At(Main, "accept_sink") /\ SinkFree /\ pc[c] = "queued"
  /\ IF slot = None /\ Acceptable
     THEN /\ TryAccept
          /\ slot' = c
          /\ pc' = [pc EXCEPT ![Main] = "greet", ![c] = "greeted"]
          /\ UNCHANGED peer
     ELSE /\ pc' = [pc EXCEPT ![Main] = "top", ![c] = "done"]
          /\ peer' = [peer EXCEPT ![c] = "cut"]
          /\ UNCHANGED <<core, slot>>
  /\ coreBy' = None
  /\ UNCHANGED <<sinkBy, stdinBy, shutdown, warmupSent, forced, marker,
                 sockFull, stdinFull, alive, orphan>>

\* send_ctl_status reads the request count under Core before it locks the sink.
GreetCore ==
  /\ At(Main, "greet") /\ CoreFree
  /\ Goto(Main, IF Protocol THEN "greet_sink" ELSE "thread")
  /\ UNCHANGED <<core, locks, slot, shutdown, warmupSent, forced, marker,
                 sockFull, stdinFull, outside>>

SpawnClientIn ==
  /\ At(Main, "thread")
  /\ pc' = [t \in Threads |-> IF t = Main THEN "top" ELSE
                               IF pc[t] = "greeted" THEN "wait" ELSE pc[t]]
  /\ UNCHANGED <<core, locks, slot, shutdown, warmupSent, forced, marker,
                 sockFull, stdinFull, outside>>

MainIO ==
  \/ LockStdin(Main, "warmup", "warmup_write") \/ SendWarmup
  \/ LockSink(Main, "greet_sink", "greet_write", "thread")
  \/ WriteSocket(Main, "greet_write", "thread")
  \/ LockSink(Main, "words", "words_write", "stop")
  \/ WriteSocket(Main, "words_write", "stop")

Supervise ==
  \/ LoopTop \/ Phase \/ WaitElapsed \/ Terminate \/ Reap \/ Join
  \/ Judge \/ ClearSink \/ Spawn \/ Reboot \/ WireRepl \/ StopServer \/ Cleanup
  \/ NobodyWaiting \/ AcceptCore \/ (\E c \in Clients : AcceptSink(c))
  \/ GreetCore \/ SpawnClientIn \/ MainIO

-----------------------------------------------------------------------------
(* The pumps.                                                              *)

\* route_out locks the sink for output that is kept from the client, too;
\* route_err does not.
Own(s) == IF s = "err" THEN "read" ELSE "own"

\* Where the snapshot of phase and serving sends a chunk.
Destination(s) ==
  IF phase = "Booting" THEN IF s \in marker /\ ReadyMarker THEN "ready" ELSE Own(s)
  ELSE IF phase = "Warmup" THEN IF s \in marker /\ warmupSent THEN "warmed" ELSE Own(s)
  ELSE IF phase \in {"Busy", "Draining"} \/ ~Protocol \/ (phase = "Idle" /\ serving)
       THEN "route" ELSE Own(s)

\* phase_and_serving, and what it leads to.  In Busy and Draining the pump takes Core once
\* more, for req_seq, and when a new request has begun the sink, to write what the scanner
\* held back on the server's own stdout.  Both are taken with no lock held and given back
\* before the next one, as in the steps that are modelled, and they are left out.
Snapshot(s) ==
  /\ At(s, "snap") /\ CoreFree
  /\ Goto(s, Destination(s))
  /\ marker' = IF phase \in {"Busy", "Draining"} /\ Protocol THEN marker ELSE marker \ {s}
  /\ UNCHANGED <<core, locks, slot, shutdown, warmupSent, forced,
                 sockFull, stdinFull, outside>>

\* detect_ready, detect_warmup
Detected(s) ==
  /\ Running /\ pc[s] \in {"ready", "warmed"} /\ CoreFree
  /\ IF pc[s] = "ready" THEN Ready ELSE WarmupDone
  /\ Goto(s, Own(s))
  /\ UNCHANGED <<locks, slot, shutdown, warmupSent, forced, marker,
                 sockFull, stdinFull, outside>>

KeepFromClient(s) ==
  /\ At(s, "own") /\ SinkFree
  /\ Goto(s, "read")
  /\ UNCHANGED <<core, locks, slot, shutdown, warmupSent, forced, marker,
                 sockFull, stdinFull, outside>>

AfterRoute(s) == IF s \in marker THEN "boundary" ELSE "read"

Boundary(s) ==
  /\ At(s, "boundary") /\ CoreFree
  /\ ResponseEnd
  /\ marker' = marker \ {s}
  /\ Goto(s, "read")
  /\ UNCHANGED <<locks, slot, shutdown, warmupSent, forced,
                 sockFull, stdinFull, outside>>

\* The stream ends when nobody holds its other end.
Eof(s) ==
  /\ At(s, "read") /\ ~alive /\ ~orphan
  /\ Goto(s, "done")
  /\ UNCHANGED <<core, locks, slot, shutdown, warmupSent, forced, marker,
                 sockFull, stdinFull, outside>>

Pump(s) ==
  \/ Snapshot(s) \/ Detected(s) \/ KeepFromClient(s) \/ Boundary(s) \/ Eof(s)
  \/ LockSink(s, "route", "write", AfterRoute(s))
  \/ WriteSocket(s, "write", AfterRoute(s))

-----------------------------------------------------------------------------
(* The client_in threads.                                                  *)

\* wait_until_ready: the condvar gives Core back while it waits.
WaitUntilReady(c) ==
  /\ Running /\ pc[c] \in {"wait", "fwait"}
  /\ CoreFree /\ (~PreServing \/ shutdown)
  /\ Goto(c, IF shutdown THEN "gone" ELSE IF pc[c] = "wait" THEN "read" ELSE "fstdin")
  /\ UNCHANGED <<core, locks, slot, shutdown, warmupSent, forced, marker,
                 sockFull, stdinFull, outside>>

ReadEof(c) ==
  /\ At(c, "read") /\ peer[c] \in {"left", "cut"}
  /\ Goto(c, "gone")
  /\ UNCHANGED <<core, locks, slot, shutdown, warmupSent, forced, marker,
                 sockFull, stdinFull, outside>>

StartRequest(c) ==
  /\ At(c, "start") /\ CoreFree
  /\ RequestStart
  /\ Goto(c, "fwait")
  /\ UNCHANGED <<locks, slot, shutdown, warmupSent, forced, marker,
                 sockFull, stdinFull, outside>>

\* forward_to_repl: the write under the repl_stdin lock, and what follows it.
Forward(c) ==
  /\ At(c, "fwrite")
  /\ \/ StdinBroken /\ UNCHANGED stdinFull
          /\ Goto(c, IF shutdown THEN "gone" ELSE "fwait")
     \/ ~StdinBroken /\ ~stdinFull /\ stdinFull' \in BOOLEAN
          /\ Goto(c, "wait")
  /\ stdinBy' = None
  /\ UNCHANGED <<core, coreBy, sinkBy, slot, shutdown, warmupSent, forced, marker,
                 sockFull, outside>>

\* client_gone: Core first, then the sink.
GoneCore(c) ==
  /\ At(c, "gone") /\ CoreFree
  /\ coreBy' = c
  /\ Goto(c, "gone_sink")
  /\ UNCHANGED <<core, sinkBy, stdinBy, slot, shutdown, warmupSent, forced, marker,
                 sockFull, stdinFull, outside>>

\* Mutant: Core is not given back.
GoneSinkKeepsCore(c) ==
  /\ At(c, "gone_sink") /\ SinkFree
  /\ slot' = IF slot = c THEN None ELSE slot
  /\ sockFull' = (sockFull /\ slot # c)
  /\ ClientGone
  /\ Goto(c, "done") /\ peer' = [peer EXCEPT ![c] = "cut"]
  /\ UNCHANGED <<locks, shutdown, warmupSent, forced, marker, stdinFull, alive, orphan>>

\* Mutant: the thread's own handle is leaked.
GoneSinkLeavesOpen(c) ==
  /\ At(c, "gone_sink") /\ SinkFree
  /\ slot' = IF slot = c THEN None ELSE slot
  /\ sockFull' = (sockFull /\ slot # c)
  /\ ClientGone
  /\ coreBy' = None
  /\ Goto(c, "done")
  /\ UNCHANGED <<sinkBy, stdinBy, shutdown, warmupSent, forced, marker, stdinFull, outside>>

\* The thread's own handle of the connection is dropped when it ends.
GoneSink(c) ==
  /\ At(c, "gone_sink") /\ SinkFree
  /\ slot' = IF slot = c THEN None ELSE slot
  /\ sockFull' = (sockFull /\ slot # c)
  /\ ClientGone
  /\ coreBy' = None
  /\ Goto(c, "done") /\ peer' = [peer EXCEPT ![c] = "cut"]
  /\ UNCHANGED <<sinkBy, stdinBy, shutdown, warmupSent, forced, marker, stdinFull,
                 alive, orphan>>

ClientIn(c) ==
  \/ WaitUntilReady(c) \/ ReadEof(c) \/ StartRequest(c)
  \/ LockStdin(c, "fstdin", "fwrite") \/ Forward(c)
  \/ GoneCore(c) \/ GoneSink(c)

-----------------------------------------------------------------------------
(* The surroundings.  None of their steps is ever owed to the server.      *)

inside == <<core, locks, slot, warmupSent, forced>>

Connect(c) ==
  /\ At(c, "none")
  /\ Goto(c, "queued") /\ peer' = [peer EXCEPT ![c] = "open"]
  /\ UNCHANGED <<inside, shutdown, marker, sockFull, stdinFull, alive, orphan>>

\* A client writes and its client_in reads.
Input(c) ==
  /\ At(c, "read") /\ peer[c] # "cut"
  /\ Goto(c, "start")
  /\ UNCHANGED <<inside, shutdown, marker, sockFull, stdinFull, peer, alive, orphan>>

ClientReads ==
  /\ Running /\ sockFull
  /\ sockFull' = FALSE
  /\ UNCHANGED <<inside, pc, shutdown, marker, stdinFull, outside>>

Leave(c) ==
  /\ Running /\ peer[c] = "open" /\ pc[c] # "done"
  /\ peer' = [peer EXCEPT ![c] = "left"]
  /\ UNCHANGED <<inside, pc, shutdown, marker, sockFull, stdinFull, alive, orphan>>

\* A pump reads a chunk, which may also be left from a process that has exited.
Output(s, mark) ==
  /\ At(s, "read")
  /\ marker' = IF mark THEN marker \cup {s} ELSE marker
  /\ Goto(s, "snap")
  /\ UNCHANGED <<inside, shutdown, sockFull, stdinFull, peer, alive, orphan>>

ReplReads ==
  /\ Running /\ stdinFull /\ (alive \/ orphan)
  /\ stdinFull' = FALSE
  /\ UNCHANGED <<inside, pc, shutdown, marker, sockFull, outside>>

ReplDies ==
  /\ Running /\ alive
  /\ alive' = FALSE /\ orphan' \in IF Orphans THEN BOOLEAN ELSE {FALSE}
  /\ UNCHANGED <<inside, pc, shutdown, marker, sockFull, stdinFull, peer>>

OrphanEnds ==
  /\ Running /\ orphan
  /\ orphan' = FALSE
  /\ UNCHANGED <<inside, pc, shutdown, marker, sockFull, stdinFull, peer, alive>>

Signal ==
  /\ Running /\ ~shutdown
  /\ shutdown' = TRUE
  /\ UNCHANGED <<inside, pc, marker, sockFull, stdinFull, outside>>

Surroundings ==
  \/ \E c \in Clients : Connect(c) \/ Input(c) \/ Leave(c)
  \/ \E s \in Streams, mark \in BOOLEAN : Output(s, mark)
  \/ ClientReads \/ ReplReads \/ ReplDies \/ OrphanEnds \/ Signal

Exited == ~Running /\ UNCHANGED vars

Server == Supervise \/ (\E s \in Streams : Pump(s)) \/ (\E c \in Clients : ClientIn(c))
Next == Server \/ Surroundings \/ Exited

Spec == Init /\ [][Next]_vars

-----------------------------------------------------------------------------
(* Properties.                                                             *)

MainPlaces ==
  {"top", "phase", "ready", "warmed", "warmup", "warmup_write", "kill", "drain",
   "reap", "join", "judge", "clear", "spawn", "boot", "wire", "words", "words_write",
   "stop", "cleanup", "accept", "accept_sink", "greet", "greet_sink", "greet_write",
   "thread", "exited"}
PumpPlaces == {"read", "snap", "ready", "warmed", "own", "route", "write", "boundary", "done"}
ClientPlaces ==
  {"none", "queued", "greeted", "wait", "read", "start", "fwait", "fstdin", "fwrite",
   "gone", "gone_sink", "done"}

PlacesOK ==
  /\ pc \in [Threads -> MainPlaces \cup PumpPlaces \cup ClientPlaces]
  /\ pc[Main] \in MainPlaces
  /\ \A s \in Streams : pc[s] \in PumpPlaces
  /\ \A c \in Clients : pc[c] \in ClientPlaces
OwnersOK ==
  /\ {coreBy, sinkBy, stdinBy} \subseteq Threads \cup {None}
  /\ slot \in Clients \cup {None}
  /\ marker \subseteq Streams
FlagsOK ==
  {shutdown, warmupSent, forced, sockFull, stdinFull, alive, orphan} \subseteq BOOLEAN
PeersOK ==
  /\ peer \in [Clients -> {"away", "open", "left", "cut"}]
  /\ \A c \in Clients : pc[c] = "done" => peer[c] = "cut"

\* The variables hold values of their kinds, and no connection stays open after
\* its client_in has ended.
TypeOK == CoreTypeOK /\ PlacesOK /\ OwnersOK /\ FlagsOK /\ PeersOK

\* The places in which a thread waits for each of the mutexes.
NeedsCore == {"phase", "ready", "warmed", "judge", "boot", "stop", "accept", "greet",
              "snap", "boundary", "wait", "fwait", "start", "gone"}
NeedsSink == {"clear", "accept_sink", "greet_sink", "words", "own", "route", "gone_sink"}
NeedsStdin == {"warmup", "wire", "fstdin"}

\* The lock order, Core before the sink and repl_stdin with neither: who writes to
\* a socket or to the REPL waits for no lock, and who holds Core waits at most for
\* the sink, never for repl_stdin and never in a read or write of its own.
LockOrder ==
  /\ coreBy # None => pc[coreBy] \in {"accept_sink", "gone_sink"}
  /\ sinkBy # None => slot # None /\ pc[sinkBy] \in {"greet_write", "words_write", "write"}
  /\ stdinBy # None => pc[stdinBy] \in {"warmup_write", "fwrite"}

\* t cannot go on before u has.
WaitsFor(t, u) ==
  \/ pc[t] \in NeedsCore /\ coreBy = u
  \/ pc[t] \in NeedsSink /\ sinkBy = u
  \/ pc[t] \in NeedsStdin /\ stdinBy = u
  \/ t = Main /\ pc[t] = "join" /\ u \in Streams /\ pc[u] # "done"

\* The threads never wait for each other in a circle, join_threads included.
NoCircularWait ==
  \A group \in (SUBSET Threads) \ {{}} :
    \E t \in group : \A u \in group : ~WaitsFor(t, u)

\* A write that cannot go on before somebody outside does.
SocketStalled == sinkBy # None /\ sockFull /\ peer[slot] = "open"
StdinStalled  == stdinBy # None /\ stdinFull /\ ~StdinBroken

SinkWrites  == {"greet_write", "words_write", "write"}
StdinWrites == {"warmup_write", "fwrite"}

\* t has no step to take: it waits for another thread, in a write, in a read, on the
\* condition variable, or has nothing to do.
Blocked(t) ==
  \/ \E u \in Threads : WaitsFor(t, u)
  \/ pc[t] \in SinkWrites /\ sockFull /\ peer[slot] = "open"
  \/ pc[t] \in StdinWrites /\ stdinFull /\ ~StdinBroken
  \/ pc[t] = "read" /\ (IF t \in Streams THEN ~StdinBroken ELSE peer[t] = "open")
  \/ pc[t] \in {"wait", "fwait"} /\ PreServing /\ ~shutdown
  \/ pc[t] \in {"none", "queued", "greeted", "done"}

\* When no thread of the server can go on, somebody outside is to blame: a client or a
\* REPL that does not read, or a process that has inherited the pipes of the REPL.
StallsComeFromOutside ==
  Running /\ (\A t \in Threads : Blocked(t)) => SocketStalled \/ StdinStalled \/ orphan
=============================================================================
