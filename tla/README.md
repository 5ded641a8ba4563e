# A TLA+ model of replstoke

replstoke keeps one REPL process (an interpreter, a database shell, ...) running
behind a socket. A *server* owns the REPL, restarts it, boots and warms it up and
lets one client at a time talk to it; a *client* sends input and reads the answer
up to an end-of-response marker. This directory holds TLA+ modules that model the
program, TLC configurations that check them on small instances, and proofs that
TLAPS checks for every instance.

Source references are to `src/` of the repository; `server.rs:366` is
`src/src/server.rs`, line 366. `PROJECT.json` maps every definition to its lines.

## 1. The system

| component | state it keeps | operations | modelled in |
|---|---|---|---|
| **Core**, the request lifecycle (`server.rs` 55-221) | phase (Booting, Warmup, Idle, Busy, Draining, Stopped), `served`, `serving`; counters | `try_accept`, `request_start`, `response_end`, `client_gone`, `ready`, `warmup_done`, `begin_booting`, `stop` | `Core`, abstractly `Lifecycle` |
| **Shared** (`server.rs` 223-510) | Core, the sink (the attached client's socket and generation), the REPL's stdin, the flags `warmup_sent` and `shutdown`; three mutexes and a condvar | routing of output, forwarding of input, clearing the sink | `Server`; the mutexes in `ServerLocks` |
| **supervisor**, the loop of `run` (`server.rs` 512-733) | the child, `forced`, `stuck`, `consecutive_startup_failures`, `outcome` | timeouts, exit handling, restart, accept | `Server`; before and after the loop `Processes` |
| **pumps**, one per REPL stream (`server.rs` 767-957) | the chunk just read, three scanners | read, detect ready / warmup / end markers, route | `Server` by chunks, `Delivery` by symbols |
| **client_in**, one per connection (`server.rs` 735-753) | the data just read | wait, read, start a request, forward, leave | `Server`, `ServerLocks` |
| **marker scanners** (`marker.rs`) | held-back bytes | feed, flush | `Marker`, used by `Delivery` and `Client` |
| **packet protocol** (`protocol.rs`) | the reader's buffer | encode, read a packet | `Protocol`, used by `Client` |
| **client mode** (`client.rs`) | result, `timed_out`, `done` | reader, sender, watchdog threads | `Client` |
| **files and --kill** (`general.rs`, `names.rs`, parts of `server.rs`) | pidfile, socket file | bind, clean up, discover, kill | `Processes` |
| **command line** (`cli/`) | none | tokenize, choose a mode, reject combinations | `Cli` |
| **platform** (`platform/unix.rs`) | shutdown flag, process group | terminate, `is_alive`, `terminate_pid` | its effects in `Server`, `ServerLocks`, `Processes` |
| **transport**, **errors**, **repl.rs**, **lib.rs** | none of their own | open, read, write; exit codes; spawn; dispatch | as calls that succeed, fail or block; `Program` |

The threads of a server share memory only through `Shared`. The supervisor
accepts connections, writes the status packet and spawns a `client_in`; `client_in`
writes to the REPL's stdin; the pumps read its stdout and stderr, write to the sink
and move the phase when they see markers. When the REPL exits the supervisor joins
the pumps, judges the exit, drops the client and spawns the next process. Processes
of replstoke meet in the file system (socket files, pidfiles), through signals and on
the connection between a client and a server.

What is hard here:

- **Two locks for one decision.** The phase is read under the Core lock and acted on
  under the sink or the stdin lock, or under none: the snapshot a pump routes by, the
  check in `wait_until_ready`, the flag `warmup_sent`.
- **Threads that outlive what they are about.** A `client_in` whose sink was dropped
  (by a failed write or a respawn) goes on reading, forwarding, and at last calls
  `client_gone`, by when another client may be attached.
- **The respawn** is eight steps in the supervisor, with clients acting between any
  two of them.
- **Flags consumed later**: `forced` and `stuck` are set by a timeout and read when the
  exit is seen.
- **Bytes that arrive in any pieces**: markers and packets that are cut anywhere, markers
  that overlap themselves or each other, text held back at a boundary.
- **Blocking writes under locks**: `client_gone` (366-376) and `handle_connection`
  (712-727) hold Core while they wait for the sink, and a pump holds the sink during a
  write that a client may block. The comment at 19-21 forbids only I/O under Core.
- **Deadlines that race what they guard**: the client's watchdog and its reader, the
  draining deadline and the end of the response, `--kill`'s grace period and the cleanup.
- **Processes that share names**: two servers on one path, a killer beside a server that
  starts or ends, files left by a server that was killed, servers of another user.

What makes each component correct:

- Core and supervisor: the lifecycle of `Lifecycle.tla`; the breaker trips at its limit;
  the slot and the reservation of the REPL are neither leaked nor given twice; shutdown
  completes.
- Locks: one order, no circle, and the server stands still only if somebody outside does.
- Pumps: no client is sent what belongs to another one, to the boot or to the warmup;
  every byte has exactly one fate; markers move the phase when they are complete.
- client_in: input is forwarded once the REPL serves, after its warmup, across a respawn.
- Scanners and packet reader: the result does not depend on how text is cut into reads.
- Client: it shows all that was said up to the marker, a completed answer beats the
  deadline, and with `--timeout` it ends.
- Processes: an option that has no use is refused, unless `--help` or `--raw` is why;
  nothing is left behind by a server that could clean up, a serving server can be reached,
  `--kill` means gone.

## 2. The modules

| module | what it is |
|---|---|
| `Core` | `enum Phase` and `impl Core`, one operator per method. |
| `Lifecycle` | The abstract specification: the REPL, the slot and the breaker without threads. |
| `Server` | All server threads, the REPL, the clients; properties at the end. |
| `ServerInv` | The inductive invariant of `Server`, in named parts. |
| `ServerParts` | Proof that the two larger parts of it, `TypeOK` and `FlowInv`, are preserved. |
| `ServerProofs` | Proof of the invariant, of the safety properties and of the refinement. |
| `ServerLocks` | The same threads with their mutexes and with I/O that blocks. |
| `ServerLocksProofs` | Proof of the lock order, of the absence of circular waits, and of who is to blame for a standstill. |
| `Marker` | The scanners of `marker.rs` as functions on texts. |
| `MarkerProofs` | What the scanners find in any text, and that it does not matter how it is cut. |
| `Delivery` | The pumps with their scanners: every symbol from the REPL to its fate. |
| `DeliveryProofs` | Proof of the properties of `Delivery`. |
| `Protocol` | `protocol.rs` as functions on texts. |
| `ProtocolProofs` | Proof that what is written is what is read. |
| `Client` | The three threads of a client, the connection, and a server that says anything. |
| `ClientProofs` | Proof of the properties of `Client`. |
| `Cli` | The command line as functions from arguments to a configuration. |
| `Processes` | Servers outside their loop and `--kill`, in one file system. |
| `ProcessesProofs` | Proof of what the command line, the files and `--kill` promise. It takes its induction from `MarkerProofs`. |
| `Program` | `lib.rs`: processes side by side, with the inside of a client. |
| `MCServer`, `MCServerLocks`, `MCDelivery`, `MCProgram` | The instances for TLC. |

`Server` is the centre. What it abstracts from is the subject of a module of its own:
`ServerLocks` takes its critical sections apart, `Delivery` its chunks, `Processes`
what comes before and after its loop, and `Client` is the other end of its connections.
`Core` is shared by `Server`, `ServerLocks` and `Delivery`, `Marker` by `Delivery` and
`Client`. `AcceptedServersCanServe` of `Processes` is what `Server` assumes of its options
(`LifecycleOptions`, `ServerOptions`): the command line establishes it.

### Server: state and steps

A step is one critical section or one access to an atomic flag. The program counters
`spc` (supervisor), `ppc[s]` (pump of stream s) and `cpc[c]` (client_in of c) say
where each thread stands between two such steps.

| code | model |
|---|---|
| top of the loop, match on the phase (583-623) | `LoopTop`; `NothingDue` or `Due`, then `ReadyWaitElapsed`, `MarkerTimeout`, `SendWarmup` and `MarkWarmupSent`, `WarmupWaitElapsed`, `DrainTimeout` |
| `try_wait` (625-683) | `Reap`, `StillRunning`, `ReapFails` |
| restart (634-676) | `JoinAndJudge`, `ClearSink`, `Spawn` or `SpawnFails`, `Reboot`, `WireRepl` |
| giving up, end (629-632, 648-654, 670-675, 692) | `LastWords`, `StopServer`, `Cleanup` |
| `accept`, `handle_connection` (685-733) | `NobodyWaiting`, `Accept`, `Refuse`, `Greet` |
| `pump` (767-862) | `PumpRead` (with the snapshot), `PumpReady`, `PumpWarmup`, `PumpRoute`, `PumpBoundary`, `PumpEof` |
| `client_in` (735-753) | `WaitUntilReady`, `ReadInput`, `ReadEof`, `StartRequest`, `Forward`, `Gone` |

How data and the outside are abstracted:

- **Time**: whether a bound has elapsed is chosen in `Due`. So is whether a process that
  exits was younger than `STARTUP_GRACE`. The backoff is not modelled.
- **Output** is a sequence of chunks. A chunk says what it answers (the last thing the
  REPL read: a client's input, the warmup, or nothing yet) and whether it completes the
  marker its pump is watching for. How markers are found in bytes is in `Delivery`.
- **Input** is a count of writes per client; the REPL's stdin is the sequence of who wrote.
- **Prompting** restricts the REPL to one that finishes each unit of work with its marker
  and is silent until it is fed again. The code relies on this ("an approximation, not
  exact", SPEC.md:316): with an unrestricted REPL no isolation property can hold. When
  `Prompting` is FALSE the REPL prints what and when it likes.
- **A client** may send, leave at any time and be cut off; a write to one that has left
  succeeds or fails. `Refuse` also stands for a failing `try_clone`.
- **The REPL** may die at any time. `terminate` ends what it does at once, but `try_wait`
  may report the exit only later, since `terminate` does not wait after its SIGKILL.
- **Blocking** is left to `ServerLocks`: here a write completes or fails.
- Left out of Core: `requests` (printed only), `next_gen` (connections are named
  directly, so comparing generations is comparing names), `req_seq` (in `Delivery`).
- `born`, `dropped`, `lastGood` and `outOfTurn` are history variables; no action reads them.

### ServerLocks

A lock that is held for a few instructions needs no owner: the step that takes it finds
it free. A lock has an owner (`coreBy`, `sinkBy`, `stdinBy`) while its holder waits: Core
in `client_gone` and `handle_connection` for the sink, the sink during a socket write,
`repl_stdin` during a pipe write. `pc[t]` is a place between two waits. `sockFull` and
`stdinFull` say that the other side has stopped reading, `orphan` that a process outside
the REPL's group keeps its pipes open.

| code | model |
|---|---|
| `route_out`, `route_err`, `send_ctl`, `deliver` (386-452) | `LockSink`, `WriteSocket` |
| `send_warmup` (330-344), `forward_to_repl` (486-509) | `SendWarmup`, `LockStdin`, `Forward` |
| `handle_connection` (707-727), `send_ctl_status` (454-466) | `AcceptCore`, `AcceptSink`, `GreetCore` |
| `client_gone` (363-376) | `GoneCore`, `GoneSink` |
| `join_threads` (958-963) | `Join`, which waits for every pump |

Simplified against `Server`: a chunk is a marker or not, the breaker may give up at any
failure, the deadlines are one choice. The property is about waiting, not about routing. A
pump's second look at Core, for `req_seq` (837), and the sink lock of a flush (839-841,
858-861) are left out: the thread holds nothing when it takes them, and it waits there for
what it waits for at its other steps.

### Delivery and Marker

A text is a sequence of symbols; a scanner's state is the text it holds back. `Find`
and `Overlap` are `Markers::find` and `overlap`, `Once` is `MarkerScanner::feed` and `Scan`
`ResponseScanner::feed`, defined on the whole of what is held back and the chunk.

| code | model |
|---|---|
| read, snapshot and what follows from it (807-840) | `ReadChunk`, with a read of any length |
| `detect_ready`, `detect_warmup` (915-946) | `DetectReady`, `DetectWarmup`, `Withhold` |
| a new scanner at a new request, feed (833-848) | `ScanResponse` |
| `route_out`, `route_err`, `response_end` (404-439, 849-851) | `Route`, `EndResponse` |
| what is held back at the end of a stream (857-862) | `EndOfStream` |
| the supervisor, the clients and the REPL | `Around` |

Every symbol is named by stream and position, so that losing or doubling one shows.
What the REPL prints is `for` the client whose input was forwarded to it last.
`ended` records, for each pump, the requests it ended; with `log`, `seen`
and `dropped` it is history. One process and framed mode only: with `--raw` a pump has no
scanners.

### Client and Protocol

`Protocol` is a pair of functions: `Encode` from payloads to text, `ReadPacket` from the
text that has arrived to a packet, an error, or the need for more. The constants of the
format are parameters. Numbers are digits: the code's parsing also takes a leading `+` and
refuses a version beyond 32 bits, which no encoder writes and no property tells apart.
`Client` has the main thread (`ReadFramed`, `ReadPanics`, `ReadRaw`, `ReadFails`, `Release`,
`JoinWatchdog`, `Exit`), the sender (`Write`, `SendEnds`) and the watchdog
(`Deadline`, `Shutdown`). The server's text arrives in pieces of any size (`Arrive`) and
ends anywhere (`ServerCloses`). What has arrived stays readable after the socket has been
shut down, as on Linux. A scenario fixes how the client was called and what it is sent.

### Processes and Cli

`Cli` is `tokenize`, `handle_long`, `handle_short` and `build_config` with one function per
mode. An argument is a sequence of symbols: `-`, `=`, the letters of short options, a long
name as one symbol. `Processes` runs command lines: a step is one system call that another
process can notice.

| code | model |
|---|---|
| `lib.rs` | `ParseArgs`, `ClientRuns` (the exit codes that `Client` has) |
| `run` before the loop (512-570), `resolve_bind`, `remove_stale_socket`, `write_pidfile` | `SpawnRepl`, `ResolveBind`, `Bind`, `BindFails`, `SetNonblocking`, `WritePidfile`, `SetupFails` |
| the loop, seen from outside | `ReplEnds`, `RestartRepl`, `LeaveLoop` |
| `cleanup` (1031-1043) | `TerminateRepl`, `RemoveSocket`, `RemovePidfile` |
| signals | `Signal`, `Killed` |
| `kill`, `read_pid` (`general.rs` 29-62), `discover_one_in`, `terminate_pid` | `Discover`, `ReadPid`, `Probe`, `SendTerm`, `SeeItGone`, `GraceOver`, `SendKill`, `Tidy` |

`taken` is the file system and the TCP addresses: what is where, and whose. Each process
belongs to one of two users (`Foreign`); neither can signal the other's processes or
overwrite its files, and whether it can remove them depends on the directory. `strayed`
is a history variable.

`Program` puts `Client` and `Processes` into one state space. They share nothing but the
connection, whose other end is free in `Client`; so the inside of one client is followed
while no other process runs, and the processes while no client's inside does.

## 3. The runs

| run | instance | question |
|---|---|---|
| `serving` | 2 clients, ready marker, warmup, response timeout, 3 chunks per process, 2 processes | Slot, reservation, isolation, quiet boot and warmup under all interleavings. |
| `breaker` | 1 client, all timeouts of boot and warmup, restart, 3 chunks, 4 processes, limit 2 | The inductive invariant, warmup before input, breaker, kill reasons, refinement of `Lifecycle`. |
| `liveness` | 1 client, ready wait, response timeout, restart, signal, 2 processes | Draining ends, the slot is freed, input is forwarded, shutdown completes. |
| `locks` | 2 clients, 1 stream, warmup, response timeout, orphans | Lock order, no circular wait, who is to blame for a standstill. |
| `delivery` | 2 streams, overlapping markers, five scenarios of at most 4 symbols | The fate of every symbol, scanners under every split, phases and markers. |
| `program` | 4 meetings of two servers and a third process, some 2000 command lines, 13 client scenarios | Options, files, `--kill`, and a client under every cut of the connection. |
| `draining` | 2 clients, response timeout | *violated*, finding 1 |
| `isolation` | 2 clients, ready marker | *violated*, finding 2 |
| `overtaking` | 2 clients, warmup, restart | *violated*, finding 3 |
| `restart_failure` | 1 client, restart | *violated*, finding 4 |
| `kill_foreign` | as `program` | *violated*, finding 5 |
| `received_lost` | as `program` | *violated*, finding 6 |

**Bounds.** Of `Server`: `MaxSpawns`, `MaxOutput`, `MaxSends`, `PipeSize` and the size of
`Clients` (each connects once). Two clients are what interference between
"the one that left" and "the one that came" takes; one write each is a whole request.
Two processes make one respawn with stale threads of the first; the breaker needs
`MaxStartupFailures` + 2 processes to be passed and to be reset, so its run has a limit
of 2 (5 in the code) and 4 processes. Three chunks let one process print for the boot,
the warmup and one request, or for two requests. Clients are symmetric in runs without
temporal properties. The bounds only stop surroundings and spawning, never a thread of
the server; a spawn beyond the bound can still fail, so no run ends in a deadlock.

`ServerLocks` has no bound but its clients and streams: who waits for whom takes two
clients (one that blocks a write, one that connects or leaves) and one pump. The proofs
cover any number.

`Delivery` bounds the symbols printed per stream, the clients and the inputs, together in
`Scenarios`. The markers have two symbols on stdout and share them (`ab` and `bb` end a
response, `ab` ends the boot, `aa` the warmup), so that three or four symbols hold a marker
that is cut, overlaps itself or another, or follows another one. Two inputs of one client
are pipelining, two clients the change of the recipient, two streams a second end marker.

`Client`: numbers of the protocol are in base 4 with two digits, so that a packet has at
most 15 symbols and a payload of six needs two packets. The scenarios are: all three
streams with such a payload, and raw with a marker that only the second try completes, each
with and without a deadline and with and without the end of stdin; an error marker after
an empty packet; a ctl error after a full one; and what may begin a marker on both outputs,
followed by nonsense, by a newer version or by a packet too short for its newlines.
`Cli` and `Processes`: any one or two words, any three about the address and the command,
and servers with up to three words about boot and warmup; the meetings are servers on
default names, on one path, on one pidfile and on one TCP address, one of them of another
user, with a killer or a client beside them.

**Deadlock** is checked in every passing run but `program`, whose processes really end.

**Fairness** (`FairSpec` of `Server`). Weak fairness for the supervisor, each pump and each
client_in: the operating system runs threads that can run, and no step modelled there
blocks for ever. Strong fairness for `Due`: the loop tests a deadline at every turn, and
a phase that lasts outlasts its bound; and for `Reap`: a process that was killed is
reported by some later `try_wait`. Nothing is assumed of the REPL, the clients or
signals. `SlotIsFreed` needs the boot to be bounded, which is why its run has
`--ready-wait`: with a ready marker that never appears and no timeout, a client that
left during the boot keeps the slot until the REPL is ready, since `client_in` does not
read before that.

`ClientFairness`: the client's threads run when they can, and the clock goes on. Nothing is
assumed of the server, which may stay silent and may not take the input; so `Write` is
not fair. `ProcFairness`: a killer runs; a server may hang anywhere. That is why `KillEnds`
rests on the deadline and on SIGKILL.

**When clients are kept apart.** The server tells answers apart by markers on a stream
(SPEC.md:316) and cannot do so otherwise, so `IsolationInTurn` and `QuietStartInTurn` have
two premises. `UnitsAreMarked`: one output stream, packets, and a REPL whose boot, warmup
and answers all end with markers. `~outOfTurn`: nobody is served out of turn. A request is
out of turn when it is started while another is in flight (a client that sends more before
its answer), or when it is started or written for a client that has lost the sink and
whose `client_in` still runs. A client loses its sink before its `client_in` has ended
when a write to it fails (407-409, 435-437, 448-450) or when the REPL is replaced (656);
findings 1 to 3 show what may follow. It is not enough to ask that a client with a lost
sink gets nothing wrong itself: its late input makes the marker of a later answer end
another client's request, and with three clients the third is then sent what the second
one asked for. `DrainingUnlessDropped` has the premise that no sink was dropped.

**Where `Delivery` excuses the code.** A response scanner that holds text back as the
possible beginning of a marker gives it to the server's own streams, not to the client, when
the next request begins before the text goes on or the stream ends (839-841, 858-861). The
comment at 91-95 says that all output is forwarded for as long as a client is served, "so a
response is not truncated"; text held back at the end of one of its requests is.
`AnswersAreForwarded` excepts what was `flushed`. It also excepts a server that has stopped:
without `--restart` the exit is announced before the pumps have read the rest.
`LateMarkersAreSecond` says when an end marker is acted on after its own request: only if
another stream's pump has ended its own (perhaps by a marker that was itself late, as three
requests in the pipe can show). `SplitsDoNotMatter` is relative to the text since the
scanner was made, and presumes that no marker of the stream occurs inside another one
(`Separate`). Without that it fails in the code: with the markers `abc` and `b`, a read that
ends after `ab` finds the second, a read that goes on finds the first. `CompletedReadWins`
presumes the same of the client's markers.

**When a server can be reached.** `ReachableUnlessContested` excepts a socket file whose path
the command lines share: a server told to put its socket or its pidfile at a path replaces
what it finds there, a default name is never another process's. A TCP address needs no
exception, nor does a socket when another server is killed, ends or is cleaned up after.

**What the client's properties leave open.** `TimeoutEndsClient` excepts `SenderLeftAlone`:
the response has ended before the deadline and the sender still waits for a server that
takes no input (client.rs:79 joins it). It presumes that the client's own stdin ends: with a
stdin that stays open, the client outlives its timeout. `ShownIsSaid` accounts for every
symbol: what was said in the packets read so far is written, but for the longest end that
may begin a marker, and all of it when the stream has ended. It does not ask that what is
held back be written when the client gives up for another reason; `ReceivedIsWritten` does
(finding 6). `ShutdownIsATimeout` excludes exit 1 only. A raw client without markers takes
the shutdown by its own watchdog for the end of the response and exits 0 (290-294), where
README.md:148 and SPEC.md:235 promise 124. A packet whose body is too short for its two
newlines makes the client panic (protocol.rs:199), with 101, or by SIGABRT in a release
build (Cargo.toml:21); the proofs say that no beginning of a packet `encode` writes is read
that way.

**Which options are given in vain.** `OnlyHelpAndRawIgnore` says that an option the mode has
no use for is refused, as SPEC.md:306 asks, in all but two cases, in which the code takes
and ignores it. `--help` and `--version` are looked at first (cli/mod.rs:375-376), so `-s
--help` prints the help although SPEC.md:296 forbids it. And `--raw` is not refused beside
the options it makes pointless: the end and error markers, strip flags and response
timeout of a server, whose pumps look for no end of a response (775-794), and `--ctl` and
`--strip-marker-stderr` of a client.

### Findings

1. **A late `client_gone` ends another client's request** (`draining`): it compares
   generations before clearing the sink (371) but not before Busy becomes Draining (375).
2. **A dropped client's input is still forwarded** (`isolation`): its answer goes to the
   next client (README.md:275).
3. **Input can overtake the warmup after a respawn** (`overtaking`; comment at 331-333).
   What does hold is `WarmupBeforeInput`: never for a client accepted by that process.
4. **A failed restart is reported to nobody** (`restart_failure`; SPEC.md:311): the sink is
   cleared before the spawn.
5. **`--kill` succeeds on a server it may not signal** (`kill_foreign`; SPEC.md:322): any
   failure of `kill(pid, 0)` is read as "gone" (unix.rs:95). `terminate_pid` is never false.
6. **A client that gives up does not write all it has received** (`received_lost`;
   SPEC.md:322): only the end of the stream flushes the scanners (client.rs:177-178). After
   an error marker, a ctl error or an unreadable packet (158-170, 183-189) what they hold
   back is lost.

## 4. The proofs

The theorems hold for every value of the constants that satisfies the named assumptions:
any sets of clients, streams and processes, any markers, texts and command lines, all
options, all bounds. Every safety property that a run checks is one of them.

### Server

Assumptions: `LifecycleOptions`, `ServerOptions`, `Bounds`, `Names`.

| theorem | statement |
|---|---|
| `Invariant` | `Spec => []IInv` |
| `TypeCorrect` | `Spec => []TypeOK` |
| `SlotNeverLeaks`, `ReservationNeverOrphaned`, `ServingEnds`, `DrainingIsUnattended` | from `ThreadInv` |
| `KillReasonsNeverStale` | from `ReplaceInv` |
| `BreakerTrips` | from `BreakerInv` and `ReplaceInv` |
| `WarmupComesFirst` | from `WarmupInv` |
| `ClientsAreIsolated`, `StartIsQuiet` | from `FlowInv` |
| `Refinement` | `Spec => Life!Spec` |

The safety properties are not inductive: each says something of all states and needs to
know where the supervisor stands. `IInv` adds that, in parts that are proved one after
the other:

- `ThreadInv`: a thread that is not the holder of the sink has lost it (so `dropped`
  explains every stray thread).
- `ReplaceInv`: during a respawn the old process is dead, its pumps are done, the kill
  reasons are consumed and the slot is empty, each from the step on that makes it so.
- `BreakerInv`: the counter is the number of processes judged since the last good one,
  where "judged" depends on how far the supervisor has come. `TypeOK` needs it too.
- `StopInv`: Stopped is only found on the way out of the loop, with `shutdown` set; so
  `wait_until_ready` lets nobody pass by it.
- `WarmupInv`: a REPL in a serving phase has had its warmup written, except in the gap in
  which the flag is already lowered and the phase not yet reset ("boot"), when every
  client belongs to an older process. A client that was not accepted has fed nothing.
- `FlowInv`: when units are marked and nobody is served out of turn, all output under way,
  in the pipe or in the pump's hands, is of one unit of work, its marker comes last, and
  there is at most one input the REPL has not read, for which everything is drained. Each
  phase then says whose that unit is, and a chunk is only delivered to whoever it is for.

TLC checks `IInv` in `breaker`, where a REPL boots, warms up, serves and is replaced. The
refinement maps the sink to the slot, the failure counter to the streak, and "fresh" to
the gap between the spawn and the reset of the phase.

### ServerLocks

`LocksTypeCorrect`, `LockOrderKept` and `NoDeadlockAmongThreads`, from `LockOptions` and
`LockThreads`. The invariant is the types, the lock order and `PumpsJoined`: from the join
to the wiring of the next REPL there is no pump, without which `WireRepl` could start one
anew in the middle of a write. `NoCircularWait` then follows for every set of threads at
once: whoever holds repl_stdin or the sink waits for no thread, whoever holds Core waits at
most for such a one, and the supervisor holds no lock while it joins the pumps.

`StallsAreForeign` is about a server of which no thread can go on. The prover does not take
ENABLED apart, so the property says it with `Blocked(t)`, a predicate of the state: t waits
for another thread, in a write, in a read, on the condition variable, or has nothing to do.
Two theorems show that this is right. `UnblockedThreadsMove`: if t is not blocked, `Takes(t)`
gives the next value of every variable as a function of the state, and the step there is one
of t. `BlockedThreadsStay`: if t is blocked it has no step. The one exception, the supervisor
that finds nobody to accept while another thread has Core, only makes the claim stronger.
The argument: with a thread in a write, the write is the cause. Otherwise every lock is free,
since who holds Core waits at most for the sink; so the supervisor can only be waiting in
`join_threads`, for a pump that reads from a process that has ended, whose pipes somebody
else must hold. `StallInv` supplies what that needs and the lock order does not say: who is in
a critical section has its lock (`Holding`), the client in the slot is connected (`Attached`),
and the supervisor joins the pumps only once the process has ended (`Purposeful`).

### Processes and Cli

From `PendingIsNoCode` and `Arguments`, for `ProcSpec`; `Spec` of `Program` implies it, its
other steps leaving `procVars` alone.

- `KillIsFinal`, `ServersAreServable`, `LittleIsInVain`, from `ProcInv`: a process does
  what its command line says, a killer past its lookup has a process in view, which is
  gone before the last step, and a killer that ended with 0 left things that way; a process
  that is gone never writes its pidfile again. The last two rest on lemmas about `Cli`.
- `ProcessesTyped`, `ServersCleanUp`, `ServersAreReachable`, from `FilesInv`: every file and
  address belongs to a server that has put it there (`Owners`); how much a server on its way
  out still owns at each step (`Cleaned`); what a killer will remove is the pidfile it looked
  up (`LookedUpPidfile`); and nobody has a file at an uncontested place, or is about to
  remove one there, but the server bound to it (`Bound`).
- `CommandsAreOpaque`, for command lines of any length. The tokenizer reads a command line
  (any arguments, any symbols in them) and each of its beginnings that has the command side
  by side. An argument before the command comes to the same in both (`TokenAlike`, which
  rests on the same for a long option, for a cluster of short ones and for an option with
  its value); the one that is the command takes what is left in each (`Longer`). The
  settings are put together from the last argument down (`SettingsLonger`, by
  `DownwardInduction`), and since no setting follows the command's, the last setting of
  every other option is the same (`LongerValues`).

### Texts

What the recursive functions on texts compute is proved by induction on sets of numbers:
that a set with 0 that is closed under successors holds every number follows from the
well-foundedness of `<` (`SetInduction` in `MarkerProofs`). So `Marker` and `Protocol`
define their recursions as functions, whose existence is proved first.

- `ScanInParts`, for any text and any markers none of which occurs inside another: feeding
  a text in two parts, the second behind what the first held back, gives out, strips,
  counts and holds back what feeding it at once does. It rests on what `Find` finds and on `Overlap` being the longest
  end of a text that can still become a marker.
- `ReadEncoded` (from `ProtocolFormat`): what `read_packet` makes of a packet that
  `encode_one` wrote is nothing until its last symbol is there, then exactly that packet.

`DeliveryProofs` (from `DeliveryOptions`): `DeliveryTyped`, `SymbolsArePlacedOnce`,
`AnswersReachClients`, `LateEndsAreSecond`, `ScansIgnoreSplits`, `PhasesNeedMarkers`. `DInv` says
where every symbol that was read is, and in one place only (`Placed`); that what a pump
holds comes after what it sent (`InOrder`); that each scanner stands where it would after
its whole text at once (`Scans`, which `ScanInParts` keeps) and has not passed over a marker
(`Watching`); and, for the request numbers, that a pump which is late was overtaken by
another stream's pump (`Ends`).

`ClientProofs` (from `StreamNames`, `Conversations`, `UnsetIsNoResult`, `ProtocolFormat`),
for `Spec` of `Program`: `ClientTyped`, `ShutdownMeansTimeout`, `PacketsAreDecoded`,
`OutputIsWhatWasSaid`, `CompletedResponseWins`. `CInv` names the place in the conversation
up to which the reader has come, a whole number of packets (`Spot`), and says that up to
there no marker was met and why reading has ended if it has: for want of more, at a packet
that cannot be read, or at the first marker. `Accounted` says what each output has been
given there and how much of it is held back (`Kept`); `PlaceIs` and `PlaceOf` show that
these places are the `Places` of `ShownIsSaid` and `EncodedIsDecoded`. A reader that panics
has read all that was encoded. `Conversations` says what a server may say: packets that
`encode` writes, then text of which no beginning is a packet.

### What is only model-checked

All liveness (`DrainingEnds`, `SlotIsFreed`, `InputIsForwarded`, `ShutdownCompletes`,
`TimeoutEndsClient`, `KillEnds`): it needs fairness and with it ENABLED. That `Server` does not
end in a deadlock is checked by TLC too.

## 5. Not modelled

- **Windows** (`platform/windows.rs`): foreign calls with no state of the program's own.
- **Time**: whether a bound has elapsed is a choice; the backoff and the polling intervals
  are left out. So are numbers on the command line: a value parses or it does not (a
  number of seconds beyond the range of `Duration` panics at `cli/mod.rs:369`).
- **The error exits between bind and loop** (532-536) are modelled (`SetupFails`) and
  excused: they leave the REPL and the socket file behind (`strayed`). So is SIGKILL, after
  which nothing ends the REPL, although SPEC.md:320 says it is "reaped by other means".
- **Process ids** are not reused; a stale pidfile may name a stranger, and the code cannot
  tell. Two servers told to use one pidfile: `--kill` removes the file by its path, even
  if the other server has written it meanwhile.
- **A client's discovery of its socket** (`names.rs`), failing lookups of directories, and
  the details of `transport.rs`, a thin enum over two kinds of socket.
- **Texts** of help, errors, logs and ctl messages; `format_utc`; where a client prints ctl
  messages.
- **`--raw` in the server**: in `Server` it only switches detection off; isolation says
  nothing there, since raw mode has no request boundaries by design.
- **The respawn in `Delivery`**: one process. What a respawn does to the scanners is that
  each pump gets new ones, after the old pumps have been joined.
