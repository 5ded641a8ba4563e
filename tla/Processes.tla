------------------------------ MODULE Processes ------------------------------
(***************************************************************************)
(* What the processes of replstoke do to each other through the file       *)
(* system, through signals and through the address they listen on: servers *)
(* from the command line to the loop and from the loop to the end          *)
(* (src/server.rs 512-570, 692 and the functions they call), and --kill    *)
(* (src/general.rs).  The loop itself is Server, a client's inside Client. *)
(*                                                                         *)
(* A step is one system call that another process can notice; a pidfile is *)
(* written in one.  Process ids are not reused, and files are changed by   *)
(* nobody else.  A file of another user cannot be overwritten; whether it  *)
(* can be removed depends on the directory.                                *)
(***************************************************************************)
EXTENDS Cli

CONSTANTS
  Pending,       \* no exit code, nothing looked up yet
  Invocations,   \* functions from the processes started to their arguments
  Foreign        \* the processes of a second user; users may not signal each other's

ASSUME PendingIsNoCode == Pending \notin Nat
ASSUME Arguments ==
  \A inv \in Invocations : \A p \in DOMAIN inv : inv[p] \in Seq(Seq(STRING))

Nothing == [mode |-> "none"]
ByKill  == 137   \* what a shell reports of a process that SIGKILL ended

VARIABLES
  args,        \* process -> its command line
  config,      \* what it has parsed it to
  pc,          \* where it is
  status,      \* its exit code
  repl,        \* a server's REPL: "none", "alive" or "dead"
  signalled,   \* the processes whose SHUTDOWN flag is set
  strayed,     \* history: the servers that left by an error after the bind
  taken,       \* place -> what is there: a socket or a pidfile, and whose
  aim          \* what a killer has looked up: a path and a process

procVars == <<args, config, pc, status, repl, signalled, strayed, taken, aim>>

Procs == DOMAIN args

\* Places: paths of the file system, and TCP addresses.
File(path)      == <<"file", path>>
Tcp(addr, port) == <<"tcp", addr \o <<":">> \o port>>

\* Mutant: the name does not depend on the process.
SocketOfCommand(p) == File(<<"socket_of", "repl">>)

\* names.rs: names of one directory.  All servers here run the same command, so that
\* default names differ by process only.
DefaultSocket(p)  == File(<<"socket_of", p>>)
DefaultPidfile(p) == File(<<"pidfile_of", p>>)

\* resolve_bind of server.rs: where a server listens.
SocketPath(p) ==
  IF config[p].bind.path = <<>> THEN DefaultSocket(p) ELSE File(config[p].bind.path[1])
Place(p) ==
  IF config[p].bind.unix THEN SocketPath(p)
  ELSE Tcp(config[p].bind.addr, config[p].bind.port)
PidfilePath(p) ==
  IF config[p].pidfile[1] = <<>> THEN DefaultPidfile(p) ELSE File(config[p].pidfile[1][1])
HasPidfile(p) == config[p].pidfile # <<>>

Socket(p) == [kind |-> "socket", of |-> p]
Pid(p)    == [kind |-> "pid", of |-> p]

Exists(place)  == place \in DOMAIN taken
Holds(place, x) == Exists(place) /\ taken[place] = x
With(f, x, v)   == [y \in DOMAIN f \cup {x} |-> IF y = x THEN v ELSE f[y]]
Without(f, S)   == [x \in DOMAIN f \ S |-> f[x]]

SameUser(p, q)      == p \in Foreign <=> q \in Foreign
OfOthers(p, place)  == Exists(place) /\ ~SameUser(p, taken[place].of)

\* What there can be after remove_file, whose errors are ignored.
AfterRemoval(p, place) ==
  {Without(taken, {place})} \cup (IF OfOthers(p, place) THEN {taken} ELSE {})

Is(p, mode) == config[p].mode = mode
Running(p)  == pc[p] # "gone"

\* The operating system gives up the TCP address of a process that ends.
Freed(p, all) ==
  Without(all, {x \in DOMAIN all : all[x] = Socket(p) /\ x[1] = "tcp"})

GoesOn(p, l) == pc' = [pc EXCEPT ![p] = l] /\ UNCHANGED status

\* Mutant: the exit code is lost.
EndsWithoutCode(p, code) == pc' = [pc EXCEPT ![p] = "gone"] /\ UNCHANGED status

Ends(p, code) ==
  /\ pc' = [pc EXCEPT ![p] = "gone"]
  /\ status' = [status EXCEPT ![p] = code]

ProcInit ==
  /\ args \in Invocations
  /\ config = [p \in Procs |-> Nothing]
  /\ pc = [p \in Procs |-> "parse"]
  /\ status = [p \in Procs |-> Pending]
  /\ repl = [p \in Procs |-> "none"]
  /\ signalled = {} /\ strayed = {}
  /\ taken = <<>>
  /\ aim = [p \in Procs |-> [path |-> Pending, pid |-> Pending]]

-----------------------------------------------------------------------------
(* Starting.                                                               *)

\* run of lib.rs: parse, report a usage error, or go on in the mode's own way.
ParseArgs(p) ==
  /\ pc[p] = "parse"
  /\ \E c \in {Parse(args[p])} :
       /\ config' = [config EXCEPT ![p] = c]
       /\ CASE c.mode = "usage"  -> Ends(p, 2)
            [] c.mode = "help"   -> Ends(p, 0)
            [] c.mode = "server" -> GoesOn(p, "spawn")
            [] c.mode = "client" -> GoesOn(p, "client")
            [] c.mode = "kill"   -> GoesOn(p, "discover")
  /\ UNCHANGED <<args, repl, signalled, strayed, taken, aim>>

\* A client ends with one of the codes that Client gives it.
ClientRuns(p) ==
  /\ pc[p] = "client"
  /\ \E code \in {0, 1, 101, 124, 134} :
       /\ (code = 124 => config[p].timeout) /\ (code \in {101, 134} => ~config[p].raw)
       /\ Ends(p, code)
  /\ UNCHANGED <<args, config, repl, signalled, strayed, taken, aim>>

SpawnRepl(p) ==
  /\ pc[p] = "spawn"
  /\ \/ repl' = [repl EXCEPT ![p] = "alive"] /\ GoesOn(p, "resolve")
     \/ UNCHANGED repl /\ Ends(p, 1)
  /\ UNCHANGED <<args, config, signalled, strayed, taken, aim>>

\* resolve_bind and remove_stale_socket: a socket at the path is removed.
ResolveBind(p) ==
  /\ pc[p] = "resolve"
  /\ IF config[p].bind.unix /\ Exists(Place(p)) /\ taken[Place(p)].kind = "socket"
     THEN taken' \in AfterRemoval(p, Place(p)) ELSE UNCHANGED taken
  /\ GoesOn(p, "bind")
  /\ UNCHANGED <<args, config, repl, signalled, strayed, aim>>

Bind(p) ==
  /\ pc[p] = "bind" /\ ~Exists(Place(p))
  /\ taken' = With(taken, Place(p), Socket(p))
  /\ GoesOn(p, "nonblocking")
  /\ UNCHANGED <<args, config, repl, signalled, strayed, aim>>

\* Mutant: the REPL is not terminated.
BindFailsOnly(p) ==
  /\ pc[p] = "bind"
  /\ Ends(p, 1)
  /\ UNCHANGED <<args, config, repl, signalled, strayed, taken, aim>>

\* The place is taken, or it cannot be bound for a reason of its own.
BindFails(p) ==
  /\ pc[p] = "bind"
  /\ repl' = [repl EXCEPT ![p] = "dead"]
  /\ Ends(p, 1)
  /\ UNCHANGED <<args, config, signalled, strayed, taken, aim>>

SetNonblocking(p) ==
  /\ pc[p] = "nonblocking"
  /\ GoesOn(p, "pidfile")
  /\ UNCHANGED <<args, config, repl, signalled, strayed, taken, aim>>

\* write_pidfile: the file is created or overwritten; a socket cannot be.
WritePidfile(p) ==
  /\ pc[p] = "pidfile"
  /\ IF HasPidfile(p)
     THEN /\ ~OfOthers(p, PidfilePath(p))
          /\ ~(Exists(PidfilePath(p)) /\ taken[PidfilePath(p)].kind = "socket")
          /\ taken' = With(taken, PidfilePath(p), Pid(p))
     ELSE UNCHANGED taken
  /\ GoesOn(p, "serve")
  /\ UNCHANGED <<args, config, repl, signalled, strayed, aim>>

\* set_nonblocking or write_pidfile fails: `?` leaves everything as it is.
SetupFails(p) ==
  /\ pc[p] = "nonblocking" \/ (pc[p] = "pidfile" /\ HasPidfile(p))
  /\ strayed' = strayed \cup {p}
  /\ taken' = Freed(p, taken)
  /\ Ends(p, 1)
  /\ UNCHANGED <<args, config, repl, signalled, aim>>

-----------------------------------------------------------------------------
(* Serving and ending.                                                     *)

\* The REPL exits, by itself or at a draining deadline, and may be replaced.
MayRestart(p) == config[p].restart \/ (config[p].response /\ ~config[p].raw)
ReplEnds(p) ==
  /\ pc[p] = "serve" /\ repl[p] = "alive"
  /\ repl' = [repl EXCEPT ![p] = "dead"]
  /\ UNCHANGED <<args, config, pc, status, signalled, strayed, taken, aim>>
RestartRepl(p) ==
  /\ pc[p] = "serve" /\ repl[p] = "dead" /\ MayRestart(p)
  /\ repl' = [repl EXCEPT ![p] = "alive"]
  /\ UNCHANGED <<args, config, pc, status, signalled, strayed, taken, aim>>

\* The loop ends at a signal or without a REPL.
LeaveLoop(p) ==
  /\ pc[p] = "serve" /\ (p \in signalled \/ repl[p] = "dead")
  /\ GoesOn(p, "terminate")
  /\ UNCHANGED <<args, config, repl, signalled, strayed, taken, aim>>

\* cleanup: the REPL's process group, the socket, the pidfile; with that the server
\* ends, with an error if it gave up restarting.
TerminateRepl(p) ==
  /\ pc[p] = "terminate"
  /\ repl' = [repl EXCEPT ![p] = "dead"]
  /\ GoesOn(p, "unlink")
  /\ UNCHANGED <<args, config, signalled, strayed, taken, aim>>
RemoveSocket(p) ==
  /\ pc[p] = "unlink"
  /\ IF config[p].bind.unix THEN taken' \in AfterRemoval(p, Place(p)) ELSE UNCHANGED taken
  /\ GoesOn(p, "leave")
  /\ UNCHANGED <<args, config, repl, signalled, strayed, aim>>
RemovePidfile(p) ==
  /\ pc[p] = "leave"
  /\ \E left \in IF HasPidfile(p) THEN AfterRemoval(p, PidfilePath(p)) ELSE {taken} :
       taken' = Freed(p, left)
  /\ \E code \in {0, 1} : (code = 1 => MayRestart(p)) /\ Ends(p, code)
  /\ UNCHANGED <<args, config, repl, signalled, strayed, aim>>

\* From outside: SIGTERM or SIGINT sets the flag, SIGKILL ends the process and leaves
\* the REPL, which is in a process group of its own.
Signal(p) ==
  /\ Is(p, "server") /\ Running(p) /\ p \notin signalled
  /\ signalled' = signalled \cup {p}
  /\ UNCHANGED <<args, config, pc, status, repl, strayed, taken, aim>>
Killed(p) ==
  /\ Is(p, "server") /\ Running(p)
  /\ taken' = Freed(p, taken)
  /\ Ends(p, ByKill)
  /\ UNCHANGED <<args, config, repl, signalled, strayed, aim>>

-----------------------------------------------------------------------------
(* --kill.                                                                 *)

Killer(k, l) == pc[k] = l
Target(k)    == aim[k].pid

\* is_alive: kill(pid, 0) succeeds, which it does not for a process of another user.
IsAlive(k) == Running(Target(k)) /\ SameUser(k, Target(k))

\* The path given, or the one pidfile there is (discover_one_in).
Discover(k) ==
  /\ Killer(k, "discover")
  /\ LET found == {x \in DOMAIN taken : \E p \in Procs : x = DefaultPidfile(p)} IN
     IF config[k].path # <<>> \/ \E x \in found : found = {x}
     THEN /\ aim' = [aim EXCEPT ![k].path = IF config[k].path # <<>> THEN File(config[k].path[1])
                                            ELSE CHOOSE x \in found : TRUE]
          /\ GoesOn(k, "read")
     ELSE UNCHANGED aim /\ Ends(k, 1)
  /\ UNCHANGED <<args, config, repl, signalled, strayed, taken>>

\* read_pid fails if there is no file or no number in it.
ReadPid(k) ==
  /\ Killer(k, "read")
  /\ LET path == aim[k].path IN
     IF Exists(path) /\ taken[path].kind = "pid"
     THEN aim' = [aim EXCEPT ![k].pid = taken[path].of] /\ GoesOn(k, "probe")
     ELSE UNCHANGED aim /\ Ends(k, 1)
  /\ UNCHANGED <<args, config, repl, signalled, strayed, taken>>

\* terminate_pid: nothing to do if the process is not alive; SIGTERM; and until the
\* deadline passes, to see whether it is gone.
Probe(k) ==
  /\ Killer(k, "probe")
  /\ GoesOn(k, IF IsAlive(k) THEN "term" ELSE "tidy")
  /\ UNCHANGED <<args, config, repl, signalled, strayed, taken, aim>>
SendTerm(k) ==
  /\ Killer(k, "term")
  /\ signalled' = IF IsAlive(k) THEN signalled \cup {Target(k)} ELSE signalled
  /\ GoesOn(k, "poll")
  /\ UNCHANGED <<args, config, repl, strayed, taken, aim>>
SeeItGone(k) ==
  /\ Killer(k, "poll") /\ ~IsAlive(k)
  /\ GoesOn(k, "tidy")
  /\ UNCHANGED <<args, config, repl, signalled, strayed, taken, aim>>

\* Mutant: the deadline is not looked at.
GraceOverWhenGone(k) ==
  /\ Killer(k, "poll") /\ ~IsAlive(k)
  /\ GoesOn(k, "force")
  /\ UNCHANGED <<args, config, repl, signalled, strayed, taken, aim>>

GraceOver(k) ==
  /\ Killer(k, "poll")
  /\ GoesOn(k, "force")
  /\ UNCHANGED <<args, config, repl, signalled, strayed, taken, aim>>

\* Mutant: the signal that could not be caught is not sent.
SendNoKill(k) ==
  /\ Killer(k, "force")
  /\ pc' = [pc EXCEPT ![k] = "tidy"]
  /\ UNCHANGED <<args, config, status, repl, signalled, strayed, taken, aim>>

\* SIGKILL.  If it cannot be delivered the process does not count as alive either, so
\* that terminate_pid is always true in the end.
SendKill(k) ==
  /\ Killer(k, "force")
  /\ IF IsAlive(k)
     THEN /\ pc' = [pc EXCEPT ![k] = "tidy", ![Target(k)] = "gone"]
          /\ status' = [status EXCEPT ![Target(k)] = ByKill]
          /\ taken' = Freed(Target(k), taken)
     ELSE pc' = [pc EXCEPT ![k] = "tidy"] /\ UNCHANGED <<status, taken>>
  /\ UNCHANGED <<args, config, repl, signalled, strayed, aim>>

\* The pidfile is removed if it is still there.
Tidy(k) ==
  /\ Killer(k, "tidy")
  /\ taken' \in AfterRemoval(k, aim[k].path)
  /\ Ends(k, 0)
  /\ UNCHANGED <<args, config, repl, signalled, strayed, aim>>

-----------------------------------------------------------------------------

Server(p) ==
  \/ SpawnRepl(p) \/ ResolveBind(p) \/ Bind(p) \/ BindFails(p) \/ SetNonblocking(p)
  \/ WritePidfile(p) \/ SetupFails(p) \/ LeaveLoop(p)
  \/ TerminateRepl(p) \/ RemoveSocket(p) \/ RemovePidfile(p)
Kill(k) ==
  \/ Discover(k) \/ ReadPid(k) \/ Probe(k) \/ SendTerm(k) \/ SeeItGone(k) \/ GraceOver(k)
  \/ SendKill(k) \/ Tidy(k)
Outside(p) == ReplEnds(p) \/ RestartRepl(p) \/ Signal(p) \/ Killed(p)

ProcNext ==
  \E p \in Procs : ParseArgs(p) \/ ClientRuns(p) \/ Server(p) \/ Kill(p) \/ Outside(p)

\* A killer runs on by itself; nothing is assumed of a server.
Startable == UNION {DOMAIN a : a \in Invocations}
ProcFairness ==
  \A k \in Startable : WF_procVars(k \in Procs /\ Kill(k))

ProcSpec == ProcInit /\ [][ProcNext]_procVars /\ ProcFairness

-----------------------------------------------------------------------------
(* Properties.                                                             *)

Stages ==
  {"parse", "client", "spawn", "resolve", "bind", "nonblocking", "pidfile", "serve",
   "terminate", "unlink", "leave", "discover", "read", "probe", "term", "poll", "force",
   "tidy", "gone"}

\* The variables hold values of their kinds; an exit code means the process has ended,
\* a configuration that its command line has been read.
ProcTypeOK ==
  /\ {DOMAIN config, DOMAIN pc, DOMAIN status, DOMAIN repl, DOMAIN aim} = {Procs}
  /\ \A p \in Procs :
       /\ pc[p] \in Stages /\ repl[p] \in {"none", "alive", "dead"}
       /\ status[p] \in {Pending, 0, 1, 2, 101, 124, 134, ByKill}
       /\ (status[p] = Pending) = Running(p)
       /\ (config[p] = Nothing) = (pc[p] = "parse")
  /\ signalled \subseteq Procs /\ strayed \subseteq Procs
  /\ \A x \in DOMAIN taken : taken[x] \in UNION {{Socket(p), Pid(p)} : p \in Procs}

\* What follows -e or -- is the command's, whatever it looks like: it sets no option of
\* replstoke and is not rejected (SPEC.md:55).
CommandIsOpaque ==
  \A p \in Procs : pc[p] = "parse" =>
    \A n \in DOMAIN args[p] :
      LET head == SubSeq(args[p], 1, n)
          tail == SubSeq(args[p], n + 1, Len(args[p]))
      IN Accepted(head) /\ Given(Tokenize(head), "exec") =>
           /\ Accepted(args[p])
           /\ Tokenize(args[p]) = [Tokenize(head) EXCEPT !["exec"] = @ \o tail]

\* An option is given in vain only beside one that makes it pointless: beside --help or
\* --version, which replstoke takes before it looks at anything else, or beside --raw,
\* if the same mode has a use for it without.  Every other option that the mode run has
\* no use for is rejected (SPEC.md:306).
GivenInVain(p) == DOMAIN Tokenize(args[p]) \ UsedBy(config[p])
OnlyHelpAndRawIgnore ==
  \A p \in Procs : config[p].mode \in {"help", "server", "client", "kill"} =>
    \A o \in GivenInVain(p) :
      \/ Is(p, "help")
      \/ /\ config[p].mode \in {"server", "client"} /\ config[p].raw
         /\ o \in Framed(config[p].mode)

\* A server that is started can tell when its REPL has booted and warmed up.  These are
\* the assumptions that Server makes of its options.
AcceptedServersCanServe == \A p \in Procs : Is(p, "server") => CanServe(config[p])

\* A server that ends leaves no REPL running and no file of its own behind, unless it
\* was killed, or an error stopped it between the bind and the loop.
LeftBehindOnlyByKillsAndLateErrors ==
  \A p \in Procs :
    pc[p] = "gone" /\ status[p] # ByKill /\ p \notin strayed =>
      repl[p] # "alive" /\ \A x \in DOMAIN taken : taken[x].of # p

\* A server that serves can be reached: its TCP address is its own, and so is its socket
\* file, unless the path was named on a command line for it to share with another server,
\* as that one's socket or pidfile.
ToldWhere(p) == ~config[p].bind.unix \/ config[p].bind.path # <<>>
ToldPidfile(p) == HasPidfile(p) /\ config[p].pidfile[1] # <<>>
Told(p) == (IF ToldWhere(p) THEN {Place(p)} ELSE {})
             \cup (IF ToldPidfile(p) THEN {PidfilePath(p)} ELSE {})
Uses(p) == {Place(p)} \cup (IF HasPidfile(p) THEN {PidfilePath(p)} ELSE {})
Contested(p) ==
  \E q \in Procs \ {p} :
    Is(q, "server") /\ Place(p) \in IF ToldWhere(p) THEN Uses(q) ELSE Told(q)
ReachableUnlessContested ==
  \A p \in Procs :
    pc[p] = "serve" /\ (config[p].bind.unix => ~Contested(p)) => Holds(Place(p), Socket(p))

\* When --kill succeeds on a server of the same user, the server is gone, and so is the
\* pidfile that named it.
KillMeansGone ==
  \A k \in Procs :
    Is(k, "kill") /\ status[k] = 0 /\ SameUser(k, Target(k)) =>
      pc[Target(k)] = "gone" /\ ~Holds(aim[k].path, Pid(Target(k)))

\* --kill reports that it could not terminate a server (SPEC.md:322).  Not so for a
\* server of another user.
KillReportsFailure ==
  \A k \in Procs : Is(k, "kill") /\ status[k] = 0 => pc[Target(k)] = "gone"

\* --kill does not take for ever, whatever the server does.
KillEnds ==
  \A k \in Startable :
    (k \in Procs /\ Is(k, "kill")) ~> (k \in Procs /\ status[k] # Pending)
=============================================================================
