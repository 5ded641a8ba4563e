--------------------------- MODULE ProcessesProofs ---------------------------
(***************************************************************************)
(* What the command line and --kill promise, and what servers leave behind *)
(* and whether they can be reached, for any processes, arguments and users.*)
(*                                                                         *)
(* KillMeansGone is not inductive: it needs to know that a killer looks up *)
(* a process and only then acts on it, that a process that is gone never   *)
(* comes back to write its pidfile again, and that nobody but a killer     *)
(* takes a killer's steps.  For the files it takes a second invariant,     *)
(* which says whose every file is and how it came to its place, so that    *)
(* what a process removes can be told from what others rely on.            *)
(*                                                                         *)
(* That what follows the command is not looked at is shown by reading a    *)
(* command line and its beginning side by side, from the last argument     *)
(* down: each argument comes to the same in both, until one of them is the *)
(* command and takes all that is left.                                     *)
(***************************************************************************)
EXTENDS Processes, MarkerProofs

KillerStages == {"discover", "read", "probe", "term", "poll", "force", "tidy"}
LookedUp     == {"probe", "term", "poll", "force", "tidy"}
ServerStages ==
  {"spawn", "resolve", "bind", "nonblocking", "pidfile", "serve", "terminate", "unlink",
   "leave"}

\* Every process has its own variables, and every file an owner.
Shape ==
  /\ config = [p \in Procs |-> config[p]]
  /\ pc \in [Procs -> Stages]
  /\ status = [p \in Procs |-> status[p]]
  /\ aim = [p \in Procs |-> [path |-> aim[p].path, pid |-> aim[p].pid]]
  /\ \A x \in DOMAIN taken : \E p \in Procs : taken[x] \in {Socket(p), Pid(p)}

\* A process does what its command line told it to do.
InItsMode ==
  \A p \in Procs :
    /\ pc[p] = "parse" => config[p] = Nothing
    /\ config[p] # Nothing => config[p] = Parse(args[p])
    /\ pc[p] \in ServerStages => Is(p, "server")
    /\ pc[p] = "client" => Is(p, "client")
    /\ pc[p] \in KillerStages => Is(p, "kill")

\* A killer knows whom it is after, and goes on to its last step when that one is gone.
AimedAt ==
  \A k \in Procs :
    /\ pc[k] \in LookedUp => Target(k) \in Procs
    /\ pc[k] = "tidy" /\ SameUser(k, Target(k)) => pc[Target(k)] = "gone"

\* What killers that have ended found.
FoundIt(k) ==
  Is(k, "kill") /\ pc[k] = "gone" /\ status[k] = 0 =>
    /\ Target(k) \in Procs
    /\ SameUser(k, Target(k)) =>
         pc[Target(k)] = "gone" /\ ~Holds(aim[k].path, Pid(Target(k)))
OnlyTheDeadEnd ==
  \A k \in Procs : FoundIt(k) /\ (status[k] # Pending => pc[k] = "gone")

ProcInv == Shape /\ InItsMode /\ AimedAt /\ OnlyTheDeadEnd

-----------------------------------------------------------------------------
(* What command lines come to.                                             *)

\* There are five of them: every command line is a usage error, asks for help or the
\* version, or is run in one mode.
LEMMA ParsedModes ==
  ASSUME NEW line
  PROVE  Parse(line).mode \in {"usage", "help", "server", "client", "kill"}
BY DEF Parse, BuildConfig, BuildServer, BuildClient, BuildGeneral, Usage

\* A command line that starts a server is one that build_server does not reject.
LEMMA ParsedServer ==
  ASSUME NEW line, Parse(line).mode = "server"
  PROVE  /\ ~ServerRejected(Tokenize(line))
         /\ Parse(line) = BuildServer(Tokenize(line))
         /\ ~AnyGiven(Tokenize(line), {"help", "version", "client"})
<1> DEFINE raw == Tokenize(line)
<1>1. BuildConfig(raw).mode = "server" /\ Parse(line) = BuildConfig(raw)
  BY DEF Parse, Usage
<1>2. ~Given(raw, "help") /\ ~Given(raw, "version") /\ ~Given(raw, "client")
      /\ BuildConfig(raw) = BuildServer(raw)
  BY <1>1 DEF BuildConfig, BuildClient, BuildGeneral, Usage
<1>3. ~ServerRejected(raw)
  BY <1>1, <1>2 DEF BuildServer, Usage
<1> QED
  BY <1>1, <1>2, <1>3 DEF AnyGiven, Given

\* Such a server can tell the ends of its boot and of its warmup.
LEMMA ServersCanServe ==
  ASSUME NEW raw, ~ServerRejected(raw)
  PROVE  CanServe(BuildServer(raw))
BY DEF ServerRejected, CanServe, BuildServer, WarmupEndOf

\* The options that build_server, build_client and build_general let pass are those
\* their modes have a use for, at least if the streams are framed.
Used(mode, raw) == UsedBy([mode |-> mode, raw |-> Given(raw, "raw")])
InVain(mode, raw) == IF Given(raw, "raw") THEN Framed(mode) ELSE {}

LEMMA ServerHeeds ==
  ASSUME NEW raw, DOMAIN raw \subseteq Options, ~ServerRejected(raw),
         ~AnyGiven(raw, {"help", "version", "client"})
  PROVE  DOMAIN raw \ Used("server", raw) \subseteq InVain("server", raw)
BY DEF ServerRejected, AnyGiven, Used, InVain, UsedBy, Options, Flags, ValueOptional,
       ValueRequired, Numeric, EndMarkerOptions, Readiness, Warmup, Shared, Framed

LEMMA ClientHeeds ==
  ASSUME NEW raw, DOMAIN raw \subseteq Options, ~ClientRejected(raw),
         ~AnyGiven(raw, {"help", "version", "server"})
  PROVE  DOMAIN raw \ Used("client", raw) \subseteq InVain("client", raw)
BY DEF ClientRejected, AnyGiven, Used, InVain, UsedBy, Options, Flags, ValueOptional,
       ValueRequired, Numeric, EndMarkerOptions, Readiness, Warmup, Shared, Framed

LEMMA KillHeeds ==
  ASSUME NEW raw, DOMAIN raw \subseteq Options, BuildGeneral(raw) # Usage,
         ~AnyGiven(raw, {"help", "version", "server", "client"})
  PROVE  DOMAIN raw \subseteq {"kill"}
BY DEF BuildGeneral, AnyGiven, Options, Flags, ValueOptional, ValueRequired,
       Numeric, EndMarkerOptions, Readiness, Warmup

\* So in a mode that is run, beside --raw or not, there is nothing else in vain.
LEMMA ParsedHeeds ==
  ASSUME NEW line, Parse(line).mode \in {"server", "client", "kill"}
  PROVE  LET c == Parse(line) IN
         \A o \in DOMAIN Tokenize(line) \ UsedBy(c) :
           c.mode \in {"server", "client"} /\ c.raw /\ o \in Framed(c.mode)
<1> DEFINE raw == Tokenize(line)
           c   == Parse(line)
<1>1. DOMAIN raw \subseteq Options
  BY DEF Tokenize
<1>2. c = BuildConfig(raw) /\ ~Given(raw, "help") /\ ~Given(raw, "version")
  BY DEF Parse, BuildConfig, Usage
<1>3. CASE c.mode = "server"
  <2>1. ~ServerRejected(raw) /\ c = BuildServer(raw) /\ ~AnyGiven(raw, {"help", "version", "client"})
    BY <1>3, ParsedServer
  <2>2. DOMAIN raw \ Used("server", raw) \subseteq InVain("server", raw)
    BY <1>1, <2>1, ServerHeeds
  <2>3. c.raw = Given(raw, "raw")
    BY <2>1 DEF BuildServer
  <2>4. UsedBy(c) = Used("server", raw)
    BY <1>3, <2>3 DEF Used, UsedBy
  <2> QED
    BY <1>3, <2>2, <2>3, <2>4 DEF InVain
<1>4. CASE c.mode = "client"
  <2>1. Given(raw, "client") /\ ~Given(raw, "server") /\ ~ClientRejected(raw) /\ c = BuildClient(raw)
    BY <1>2, <1>4 DEF BuildConfig, BuildServer, BuildClient, BuildGeneral, Usage
  <2>2. DOMAIN raw \ Used("client", raw) \subseteq InVain("client", raw)
    BY <1>1, <1>2, <2>1, ClientHeeds DEF AnyGiven, Given
  <2>3. c.raw = Given(raw, "raw")
    BY <2>1 DEF BuildClient
  <2>4. UsedBy(c) = Used("client", raw)
    BY <1>4, <2>3 DEF Used, UsedBy
  <2> QED
    BY <1>4, <2>2, <2>3, <2>4 DEF InVain
<1>5. CASE c.mode = "kill"
  <2>1. ~Given(raw, "client") /\ ~Given(raw, "server") /\ BuildGeneral(raw) # Usage
    BY <1>2, <1>5 DEF BuildConfig, BuildServer, BuildClient, BuildGeneral, Usage
  <2>2. DOMAIN raw \subseteq {"kill"}
    BY <1>1, <1>2, <2>1, KillHeeds DEF AnyGiven, Given
  <2>3. UsedBy(c) = {"kill"}
    BY <1>5 DEF UsedBy
  <2> QED
    BY <2>2, <2>3
<1> QED
  BY <1>3, <1>4, <1>5

-----------------------------------------------------------------------------
(* The invariant.                                                          *)

\* It holds when the processes start.
LEMMA InitProcesses == ProcInit => ProcInv
BY PendingIsNoCode
   DEF ProcInit, ProcInv, Shape, InItsMode, AimedAt, OnlyTheDeadEnd, FoundIt, Is, Nothing,
       Procs, Stages, KillerStages, LookedUp, ServerStages, Exists

\* Nothing the invariant is about changes.
LEMMA Resting ==
  ASSUME ProcInv, UNCHANGED <<args, config, pc, status, aim, taken>>
  PROVE  ProcInv'
BY DEF ProcInv, Shape, InItsMode, AimedAt, OnlyTheDeadEnd, FoundIt, Is, Procs, Target,
       SameUser, Holds, Exists

\* One process p goes on to another place.  What files it leaves are old or its own.
LEMMA GoingOn ==
  ASSUME ProcInv, NEW p \in Procs, NEW l \in Stages \ {"parse", "client", "gone"},
         Running(p), GoesOn(p, l), UNCHANGED <<args, config, aim>>,
         l \in ServerStages => Is(p, "server"),
         l \in KillerStages => Is(p, "kill"),
         l \in LookedUp => Target(p) \in Procs,
         l = "tidy" /\ SameUser(p, Target(p)) => pc[Target(p)] = "gone",
         \A x \in DOMAIN taken' : \/ x \in DOMAIN taken /\ taken'[x] = taken[x]
                                  \/ taken'[x] \in {Socket(p), Pid(p)}
  PROVE  ProcInv'
<1>1. \A q \in Procs : pc'[q] = IF q = p THEN l ELSE pc[q]
  BY DEF ProcInv, Shape, GoesOn
<1>2. \A q \in Procs : pc[q] = "gone" => pc'[q] = "gone"
  BY <1>1 DEF Running
<1>3. Procs' = Procs /\ \A q \in Procs : Target(q)' = Target(q) /\ status'[q] = status[q]
  BY DEF Procs, Target, GoesOn
<1>4. Shape'
  BY <1>1, <1>3 DEF ProcInv, Shape, GoesOn, Socket, Pid
<1>5. InItsMode'
  BY <1>1, <1>3 DEF ProcInv, InItsMode, Is, Stages
<1>6. AimedAt'
  <2> SUFFICES ASSUME NEW k \in Procs
               PROVE  /\ pc'[k] \in LookedUp => Target(k) \in Procs
                      /\ pc'[k] = "tidy" /\ SameUser(k, Target(k)) => pc'[Target(k)] = "gone"
    BY <1>3 DEF AimedAt, SameUser
  <2>1. CASE k = p
    BY <1>1, <1>2, <2>1 DEF LookedUp
  <2>2. CASE k # p
    BY <1>1, <1>2, <2>2 DEF ProcInv, AimedAt, LookedUp
  <2> QED
    BY <2>1, <2>2
<1>7. OnlyTheDeadEnd'
  <2> SUFFICES ASSUME NEW k \in Procs
               PROVE  FoundIt(k)' /\ (status'[k] # Pending => pc'[k] = "gone")
    BY <1>3 DEF OnlyTheDeadEnd
  <2>1. status'[k] # Pending => pc'[k] = "gone"
    BY <1>2, <1>3 DEF ProcInv, OnlyTheDeadEnd
  <2>2. ASSUME Is(k, "kill"), pc'[k] = "gone", status[k] = 0,
               SameUser(k, Target(k)), Holds(aim[k].path, Pid(Target(k)))'
        PROVE  FALSE
    <3>1. pc[k] = "gone" /\ pc[Target(k)] = "gone" /\ ~Holds(aim[k].path, Pid(Target(k)))
      BY <1>1, <2>2 DEF ProcInv, OnlyTheDeadEnd, FoundIt
    <3>2. Target(k) # p
      BY <3>1 DEF Running
    <3> QED
      BY <1>3, <2>2, <3>1, <3>2 DEF Holds, Exists, Pid, Socket
  <2>3. Is(k, "kill") /\ pc'[k] = "gone" /\ status[k] = 0
          => Target(k) \in Procs /\ (SameUser(k, Target(k)) => pc'[Target(k)] = "gone")
    BY <1>1, <1>2 DEF ProcInv, OnlyTheDeadEnd, FoundIt
  <2>4. FoundIt(k)'
    BY <1>3, <2>2, <2>3 DEF FoundIt, Is, SameUser
  <2> QED
    BY <2>1, <2>4
<1> QED
  BY <1>4, <1>5, <1>6, <1>7 DEF ProcInv

\* One process p ends.  Files are only removed.
LEMMA Ending ==
  ASSUME ProcInv, NEW p \in Procs, NEW code, Running(p), Ends(p, code),
         UNCHANGED <<args, config, aim>>,
         \A x \in DOMAIN taken' : x \in DOMAIN taken /\ taken'[x] = taken[x],
         FoundIt(p)'
  PROVE  ProcInv'
<1>1. \A q \in Procs : /\ pc'[q] = IF q = p THEN "gone" ELSE pc[q]
                       /\ q # p => status'[q] = status[q]
  BY DEF ProcInv, Shape, Ends
<1>2. \A q \in Procs : pc[q] = "gone" => pc'[q] = "gone"
  BY <1>1
<1>3. Procs' = Procs /\ \A q \in Procs : Target(q)' = Target(q)
  BY DEF Procs, Target
<1>4. Shape'
  BY <1>1, <1>3 DEF ProcInv, Shape, Ends, Socket, Pid, Stages
<1>5. InItsMode'
  BY <1>1, <1>3 DEF ProcInv, InItsMode, Is, ServerStages, KillerStages
<1>6. AimedAt'
  <2> SUFFICES ASSUME NEW k \in Procs
               PROVE  /\ pc'[k] \in LookedUp => Target(k) \in Procs
                      /\ pc'[k] = "tidy" /\ SameUser(k, Target(k)) => pc'[Target(k)] = "gone"
    BY <1>3 DEF AimedAt, SameUser
  <2>1. CASE k = p
    BY <1>1, <2>1 DEF LookedUp
  <2>2. CASE k # p
    BY <1>1, <1>2, <2>2 DEF ProcInv, AimedAt, LookedUp
  <2> QED
    BY <2>1, <2>2
<1>7. OnlyTheDeadEnd'
  <2> SUFFICES ASSUME NEW k \in Procs
               PROVE  FoundIt(k)' /\ (status'[k] # Pending => pc'[k] = "gone")
    BY <1>3 DEF OnlyTheDeadEnd
  <2>1. status'[k] # Pending => pc'[k] = "gone"
    BY <1>1 DEF ProcInv, OnlyTheDeadEnd
  <2>2. CASE k = p
    BY <2>1, <2>2
  <2>3. CASE k # p
    <3>1. Is(k, "kill") /\ pc[k] = "gone" /\ status[k] = 0 =>
            /\ Target(k) \in Procs
            /\ SameUser(k, Target(k)) =>
                 pc'[Target(k)] = "gone" /\ ~Holds(aim[k].path, Pid(Target(k)))
      BY <1>2 DEF ProcInv, OnlyTheDeadEnd, FoundIt
    <3>2. Holds(aim[k].path, Pid(Target(k)))' => Holds(aim[k].path, Pid(Target(k)))
      BY <1>3, <2>3 DEF Holds, Exists, Pid
    <3>3. FoundIt(k)'
      BY <1>1, <1>3, <2>3, <3>1, <3>2 DEF FoundIt, Is, SameUser
    <3> QED
      BY <2>1, <3>3
  <2> QED
    BY <2>2, <2>3
<1> QED
  BY <1>4, <1>5, <1>6, <1>7 DEF ProcInv

\* Removing files, giving up an address and changing nothing leave no file behind that
\* was not there, and adding one's own adds only that.
LEMMA FilesRemoved ==
  ASSUME NEW p, NEW place, NEW files \in AfterRemoval(p, place) \cup {taken}
  PROVE  /\ \A x \in DOMAIN files : x \in DOMAIN taken /\ files[x] = taken[x]
         /\ \A x \in DOMAIN Freed(p, files) :
              x \in DOMAIN taken /\ Freed(p, files)[x] = taken[x]
BY DEF AfterRemoval, Freed, Without

LEMMA FileAdded ==
  ASSUME NEW place, NEW file, taken' = With(taken, place, file)
  PROVE  \A x \in DOMAIN taken' : \/ x \in DOMAIN taken /\ taken'[x] = taken[x]
                                  \/ taken'[x] = file
BY DEF With

-----------------------------------------------------------------------------
(* The steps.                                                              *)

\* What the mode of a process says of the place it is at.
LEMMA StageOfMode ==
  ASSUME ProcInv, NEW p \in Procs, pc[p] \in ServerStages
  PROVE  Is(p, "server") /\ ~Is(p, "kill") /\ Running(p)
BY DEF ProcInv, InItsMode, Is, ServerStages, Running

LEMMA StageOfKiller ==
  ASSUME ProcInv, NEW k \in Procs, pc[k] \in KillerStages
  PROVE  Is(k, "kill") /\ Running(k)
BY DEF ProcInv, InItsMode, KillerStages, Running

\* A process that is no killer, or ends with another code than 0, has found nothing.
LEMMA NothingFound ==
  ASSUME ProcInv, NEW p \in Procs, NEW code, Ends(p, code), UNCHANGED config,
         ~Is(p, "kill") \/ code # 0
  PROVE  FoundIt(p)'
BY DEF ProcInv, Shape, FoundIt, Is, Ends

\* A command line decides what a process is to do.
LEMMA ParseArgsStep ==
  ASSUME ProcInv, NEW p \in Procs, ParseArgs(p)
  PROVE  ProcInv'
<1> DEFINE c == Parse(args[p])
<1>1. /\ pc[p] = "parse" /\ config' = [config EXCEPT ![p] = c]
      /\ UNCHANGED <<args, aim, taken>>
  BY DEF ParseArgs
<1>2. \/ c.mode = "usage" /\ Ends(p, 2)
      \/ c.mode = "help" /\ Ends(p, 0)
      \/ c.mode = "server" /\ GoesOn(p, "spawn")
      \/ c.mode = "client" /\ GoesOn(p, "client")
      \/ c.mode = "kill" /\ GoesOn(p, "discover")
  BY ParsedModes DEF ParseArgs
<1>3. c # Nothing
  BY ParsedModes DEF Nothing
<1>4. /\ Procs' = Procs
      /\ \A q \in Procs : /\ Target(q)' = Target(q)
                          /\ config'[q] = IF q = p THEN c ELSE config[q]
                          /\ q # p => pc'[q] = pc[q] /\ status'[q] = status[q]
                          /\ pc[q] = "gone" => pc'[q] = "gone"
  BY <1>1, <1>2 DEF ProcInv, Shape, Procs, Target, GoesOn, Ends
<1>5. /\ pc'[p] \in {"gone", "spawn", "client", "discover"}
      /\ pc'[p] = "spawn" => c.mode = "server"
      /\ pc'[p] = "client" => c.mode = "client"
      /\ pc'[p] = "discover" => c.mode = "kill"
      /\ pc'[p] = "gone" => c.mode # "kill"
      /\ pc'[p] # "gone" => status'[p] = status[p]
  BY <1>2 DEF ProcInv, Shape, GoesOn, Ends
<1>6. Shape'
  <2>1. pc' \in [Procs -> Stages] /\ status' = [q \in Procs |-> status'[q]]
    BY <1>2 DEF ProcInv, Shape, GoesOn, Ends, Stages
  <2>2. config' = [q \in Procs |-> config'[q]]
    BY <1>1 DEF ProcInv, Shape
  <2> QED
    BY <1>1, <1>4, <2>1, <2>2 DEF ProcInv, Shape, Socket, Pid
<1>7. InItsMode'
  BY <1>1, <1>3, <1>4, <1>5 DEF ProcInv, InItsMode, Is, ServerStages, KillerStages
<1>8. AimedAt'
  <2> SUFFICES ASSUME NEW k \in Procs
               PROVE  /\ pc'[k] \in LookedUp => Target(k) \in Procs
                      /\ pc'[k] = "tidy" /\ SameUser(k, Target(k)) => pc'[Target(k)] = "gone"
    BY <1>4 DEF AimedAt, SameUser
  <2> QED
    BY <1>4, <1>5 DEF ProcInv, AimedAt, LookedUp
<1>9. OnlyTheDeadEnd'
  <2> SUFFICES ASSUME NEW k \in Procs
               PROVE  FoundIt(k)' /\ (status'[k] # Pending => pc'[k] = "gone")
    BY <1>4 DEF OnlyTheDeadEnd
  <2>1. CASE k = p
    BY <1>1, <1>4, <1>5, <2>1 DEF ProcInv, OnlyTheDeadEnd, FoundIt, Is
  <2>2. CASE k # p
    BY <1>1, <1>4, <2>2
    DEF ProcInv, OnlyTheDeadEnd, FoundIt, Is, SameUser, Holds, Exists, Pid
  <2> QED
    BY <2>1, <2>2
<1> QED
  BY <1>6, <1>7, <1>8, <1>9 DEF ProcInv

\* Servers and clients.
LEMMA ServerStep ==
  ASSUME ProcInv, NEW p \in Procs, Server(p) \/ ClientRuns(p)
  PROVE  ProcInv'
<1> USE DEF ServerStages, KillerStages, LookedUp, Stages
<1>1. CASE SpawnRepl(p)
  <2>1. Is(p, "server") /\ ~Is(p, "kill") /\ Running(p)
    BY <1>1, StageOfMode DEF SpawnRepl
  <2>2. CASE GoesOn(p, "resolve")
    BY <1>1, <2>1, <2>2, GoingOn DEF SpawnRepl
  <2>3. CASE Ends(p, 1)
    BY <1>1, <2>1, <2>3, NothingFound, Ending DEF SpawnRepl
  <2> QED
    BY <1>1, <2>2, <2>3 DEF SpawnRepl
<1>2. CASE ResolveBind(p)
  BY <1>2, StageOfMode, FilesRemoved, GoingOn DEF ResolveBind
<1>3. CASE Bind(p)
  BY <1>3, StageOfMode, FileAdded, GoingOn DEF Bind
<1>4. CASE BindFails(p)
  BY <1>4, StageOfMode, NothingFound, Ending DEF BindFails
<1>5. CASE SetNonblocking(p)
  BY <1>5, StageOfMode, GoingOn DEF SetNonblocking
<1>6. CASE WritePidfile(p)
  BY <1>6, StageOfMode, FileAdded, GoingOn DEF WritePidfile
<1>7. CASE SetupFails(p)
  BY <1>7, StageOfMode, FilesRemoved, NothingFound, Ending DEF SetupFails
<1>8. CASE LeaveLoop(p)
  BY <1>8, StageOfMode, GoingOn DEF LeaveLoop
<1>9. CASE TerminateRepl(p)
  BY <1>9, StageOfMode, GoingOn DEF TerminateRepl
<1>10. CASE RemoveSocket(p)
  BY <1>10, StageOfMode, FilesRemoved, GoingOn DEF RemoveSocket
<1>11. CASE RemovePidfile(p)
  <2>1. PICK code \in {0, 1} : Ends(p, code)
    BY <1>11 DEF RemovePidfile
  <2>2. \A x \in DOMAIN taken' : x \in DOMAIN taken /\ taken'[x] = taken[x]
    <3>1. PICK left \in AfterRemoval(p, PidfilePath(p)) \cup {taken} :
                 taken' = Freed(p, left)
      BY <1>11 DEF RemovePidfile
    <3>2. \A x \in DOMAIN Freed(p, left) :
            x \in DOMAIN taken /\ Freed(p, left)[x] = taken[x]
      BY DEF AfterRemoval, Freed, Without
    <3> QED
      BY <3>1, <3>2
  <2> QED
    BY <1>11, <2>1, <2>2, StageOfMode, NothingFound, Ending DEF RemovePidfile
<1>12. CASE ClientRuns(p)
  <2>1. PICK code \in {0, 1, 101, 124, 134} : Ends(p, code)
    BY <1>12 DEF ClientRuns
  <2>2. ~Is(p, "kill") /\ Running(p)
    BY <1>12 DEF ClientRuns, ProcInv, InItsMode, Is, Running
  <2> QED
    BY <1>12, <2>1, <2>2, NothingFound, Ending DEF ClientRuns
<1> QED
  BY <1>1, <1>2, <1>3, <1>4, <1>5, <1>6, <1>7, <1>8, <1>9, <1>10, <1>11, <1>12 DEF Server

\* What happens to servers from outside.
LEMMA OutsideStep ==
  ASSUME ProcInv, NEW p \in Procs, Outside(p)
  PROVE  ProcInv'
<1>1. CASE ReplEnds(p) \/ RestartRepl(p) \/ Signal(p)
  BY <1>1, Resting DEF ReplEnds, RestartRepl, Signal
<1>2. CASE Killed(p)
  <2>1. ~Is(p, "kill")
    BY <1>2 DEF Killed, Is
  <2> QED
    BY <1>2, <2>1, FilesRemoved, NothingFound, Ending DEF Killed
<1> QED
  BY <1>1, <1>2 DEF Outside

\* A killer that has to give up.
LEMMA GivingUp ==
  ASSUME ProcInv, NEW k \in Procs, pc[k] \in KillerStages, Ends(k, 1),
         UNCHANGED <<args, config, taken, aim>>
  PROVE  ProcInv'
BY StageOfKiller, NothingFound, Ending

\* A killer that reads a pidfile.
LEMMA ReadPidStep ==
  ASSUME ProcInv, NEW k \in Procs, ReadPid(k) \/ Discover(k)
  PROVE  ProcInv'
<1> USE DEF KillerStages, LookedUp, Stages, ServerStages
<1>1. pc[k] \in {"discover", "read"} /\ Is(k, "kill") /\ Running(k)
  BY StageOfKiller DEF ReadPid, Discover, Killer
<1>a. PICK a, b : aim[k] = [path |-> a, pid |-> b]
  BY ZenonT(30) DEF ProcInv, Shape
<1>2. CASE Ends(k, 1) /\ UNCHANGED <<args, config, taken, aim>>
  BY <1>1, <1>2, GivingUp
<1>3. ASSUME NEW l \in {"read", "probe"}, GoesOn(k, l), UNCHANGED <<args, config, taken>>,
             \E path, pid : aim' = [aim EXCEPT ![k] = [path |-> path, pid |-> pid]],
             l = "probe" => Target(k)' \in Procs
      PROVE  ProcInv'
  <2>1. /\ Procs' = Procs
        /\ \A q \in Procs : /\ pc'[q] = IF q = k THEN l ELSE pc[q]
                            /\ status'[q] = status[q]
                            /\ q # k => aim'[q] = aim[q] /\ Target(q)' = Target(q)
    BY <1>3 DEF ProcInv, Shape, GoesOn, Procs, Target
  <2>2. aim' = [q \in Procs |-> [path |-> aim'[q].path, pid |-> aim'[q].pid]]
    BY <1>3 DEF ProcInv, Shape
  <2>3. Shape'
    BY <1>3, <2>1, <2>2 DEF ProcInv, Shape, GoesOn, Socket, Pid
  <2>4. InItsMode'
    BY <1>1, <1>3, <2>1 DEF ProcInv, InItsMode, Is
  <2>5. \A q \in Procs : pc[q] = "gone" => pc'[q] = "gone"
    BY <1>1, <2>1
  <2>6. AimedAt'
    <3> SUFFICES ASSUME NEW q \in Procs
                 PROVE  /\ pc'[q] \in LookedUp => Target(q)' \in Procs
                        /\ pc'[q] = "tidy" /\ SameUser(q, Target(q))' => pc'[Target(q)'] = "gone"
      BY <2>1 DEF AimedAt
    <3>1. CASE q = k
      BY <1>3, <2>1, <3>1
    <3>2. CASE q # k
      BY <2>1, <2>5, <3>2 DEF ProcInv, AimedAt, SameUser
    <3> QED
      BY <3>1, <3>2
  <2>7. OnlyTheDeadEnd'
    <3> SUFFICES ASSUME NEW q \in Procs
                 PROVE  FoundIt(q)' /\ (status'[q] # Pending => pc'[q] = "gone")
      BY <2>1 DEF OnlyTheDeadEnd
    <3>1. status'[q] # Pending => pc'[q] = "gone"
      BY <2>1, <2>5 DEF ProcInv, OnlyTheDeadEnd
    <3>2. CASE q = k
      BY <1>3, <2>1, <3>1, <3>2 DEF FoundIt
    <3>3. CASE q # k
      BY <1>3, <2>1, <2>5, <3>1, <3>3
      DEF ProcInv, OnlyTheDeadEnd, FoundIt, Is, SameUser, Holds, Exists, Pid
    <3> QED
      BY <3>2, <3>3
  <2> QED
    BY <2>3, <2>4, <2>6, <2>7 DEF ProcInv
<1>4. CASE Discover(k) /\ GoesOn(k, "read")
  <2>1. PICK path : aim' = [aim EXCEPT ![k].path = path]
    BY <1>1, <1>4 DEF Discover, GoesOn, Ends, ProcInv, Shape
  <2>2. aim' = [aim EXCEPT ![k] = [path |-> path, pid |-> b]]
    <3>1. [aim[k] EXCEPT !.path = path] = [path |-> path, pid |-> b]
      BY <1>a
    <3> QED
      BY <2>1, <3>1
  <2> QED
    BY <1>3, <1>4, <2>2 DEF Discover
<1>5. CASE ReadPid(k) /\ GoesOn(k, "probe")
  <2>1. PICK q \in Procs : aim' = [aim EXCEPT ![k].pid = q]
    <3>1. /\ aim' = [aim EXCEPT ![k].pid = taken[aim[k].path].of]
          /\ Exists(aim[k].path)
      BY <1>1, <1>5 DEF ReadPid, GoesOn, Ends, ProcInv, Shape
    <3>2. taken[aim[k].path].of \in Procs
      BY <3>1 DEF Exists, ProcInv, Shape, Socket, Pid
    <3> QED
      BY <3>1, <3>2
  <2>2. aim' = [aim EXCEPT ![k] = [path |-> a, pid |-> q]]
    <3>1. [aim[k] EXCEPT !.pid = q] = [path |-> a, pid |-> q]
      BY <1>a
    <3> QED
      BY <2>1, <3>1
  <2>3. Target(k)' = q
    BY <2>2 DEF Target, ProcInv, Shape
  <2> QED
    BY <1>3, <1>5, <2>2, <2>3 DEF ReadPid
<1> QED
  BY <1>2, <1>4, <1>5 DEF ReadPid, Discover

\* A killer that signals, waits and tidies up.
LEMMA KillStep ==
  ASSUME ProcInv, NEW k \in Procs, Kill(k)
  PROVE  ProcInv'
<1> USE DEF KillerStages, LookedUp, Stages, ServerStages
<1>1. CASE ReadPid(k) \/ Discover(k)
  BY <1>1, ReadPidStep
<1>2. \A l \in LookedUp : Killer(k, l) => /\ Is(k, "kill") /\ Running(k)
                                          /\ Target(k) \in Procs
  BY StageOfKiller DEF ProcInv, AimedAt, Killer
<1>3. CASE Probe(k)
  BY <1>2, <1>3, GoingOn DEF Probe, IsAlive, Running
<1>4. CASE SendTerm(k)
  BY <1>2, <1>4, GoingOn DEF SendTerm
<1>5. CASE SeeItGone(k)
  BY <1>2, <1>5, GoingOn DEF SeeItGone, IsAlive, Running
<1>6. CASE GraceOver(k)
  BY <1>2, <1>6, GoingOn DEF GraceOver
<1>7. CASE SendKill(k) /\ ~IsAlive(k)
  <2>1. GoesOn(k, "tidy") /\ UNCHANGED <<args, config, aim, taken>>
    BY <1>7 DEF SendKill, GoesOn
  <2> QED
    BY <1>2, <1>7, <2>1, GoingOn DEF SendKill, IsAlive, Running
<1>8. CASE SendKill(k) /\ IsAlive(k)
  <2> DEFINE t == Target(k)
  <2>1. /\ t \in Procs /\ SameUser(k, t) /\ Is(k, "kill") /\ Running(k) /\ Running(t)
        /\ UNCHANGED <<args, config, aim>> /\ pc[k] = "force"
    BY <1>2, <1>8 DEF SendKill, IsAlive, Killer
  <2>2. /\ Procs' = Procs
        /\ \A q \in Procs :
             /\ pc'[q] = IF q = t THEN "gone" ELSE IF q = k THEN "tidy" ELSE pc[q]
             /\ status'[q] = IF q = t THEN ByKill ELSE status[q]
             /\ Target(q)' = Target(q)
    BY <1>8, <2>1 DEF SendKill, ProcInv, Shape, Procs, Target
  <2>3. \A x \in DOMAIN taken' : x \in DOMAIN taken /\ taken'[x] = taken[x]
    BY <1>8 DEF SendKill, Freed, Without
  <2>4. Shape'
    <3>1. pc' \in [Procs -> Stages] /\ status' = [q \in Procs |-> status'[q]]
      BY <1>8, <2>1 DEF SendKill, ProcInv, Shape
    <3> QED
      BY <2>1, <2>2, <2>3, <3>1 DEF ProcInv, Shape, Socket, Pid
  <2>5. InItsMode'
    BY <2>1, <2>2 DEF ProcInv, InItsMode, Is
  <2>6. \A q \in Procs : pc[q] = "gone" => pc'[q] = "gone"
    BY <2>1, <2>2 DEF Running
  <2>7. AimedAt'
    <3> SUFFICES ASSUME NEW q \in Procs
                 PROVE  /\ pc'[q] \in LookedUp => Target(q) \in Procs
                        /\ pc'[q] = "tidy" /\ SameUser(q, Target(q)) => pc'[Target(q)] = "gone"
      BY <2>2 DEF AimedAt, SameUser
    <3> QED
      BY <2>1, <2>2, <2>6 DEF ProcInv, AimedAt
  <2>8. OnlyTheDeadEnd'
    <3> SUFFICES ASSUME NEW q \in Procs
                 PROVE  FoundIt(q)' /\ (status'[q] # Pending => pc'[q] = "gone")
      BY <2>2 DEF OnlyTheDeadEnd
    <3>1. CASE q = t
      BY <2>2, <3>1 DEF FoundIt, ByKill
    <3>2. CASE q # t
      BY <2>1, <2>2, <2>3, <2>6, <3>2
      DEF ProcInv, OnlyTheDeadEnd, FoundIt, Is, SameUser, Holds, Exists, Pid, Running
    <3> QED
      BY <3>1, <3>2
  <2> QED
    BY <2>4, <2>5, <2>7, <2>8 DEF ProcInv
<1>9. CASE Tidy(k)
  <2>1. /\ Is(k, "kill") /\ Running(k) /\ Target(k) \in Procs /\ Ends(k, 0)
        /\ UNCHANGED <<args, config, aim>> /\ pc[k] = "tidy"
        /\ taken' \in AfterRemoval(k, aim[k].path)
    BY <1>2, <1>9 DEF Tidy, Killer
  <2>2. \A x \in DOMAIN taken' : x \in DOMAIN taken /\ taken'[x] = taken[x]
    BY <2>1, FilesRemoved
  <2>3. ASSUME SameUser(k, Target(k))
        PROVE  pc[Target(k)] = "gone" /\ ~Holds(aim[k].path, Pid(Target(k)))'
    <3>1. pc[Target(k)] = "gone"
      BY <2>1, <2>3 DEF ProcInv, AimedAt
    <3>2. ASSUME taken[aim[k].path] = Pid(Target(k))  PROVE ~OfOthers(k, aim[k].path)
      BY <2>3, <3>2 DEF OfOthers, Pid
    <3>3. ASSUME Holds(aim[k].path, Pid(Target(k)))'  PROVE FALSE
      <4>1. aim[k].path \in DOMAIN taken' /\ taken[aim[k].path] = Pid(Target(k))
        BY <2>1, <2>2, <3>3 DEF Holds, Exists, Target, Pid
      <4> QED
        BY <2>1, <3>2, <4>1 DEF AfterRemoval, Without
    <3> QED
      BY <3>1, <3>3
  <2>4. FoundIt(k)'
    <3>1. \A q \in Procs : pc[q] = "gone" => pc'[q] = "gone"
      BY <2>1 DEF ProcInv, Shape, Ends
    <3> QED
      BY <2>1, <2>3, <3>1 DEF FoundIt, SameUser, Procs, Target
  <2> QED
    BY <2>1, <2>2, <2>4, Ending
<1> QED
  BY <1>1, <1>3, <1>4, <1>5, <1>6, <1>7, <1>8, <1>9 DEF Kill

-----------------------------------------------------------------------------
(* The theorems.                                                           *)

\* The invariant holds in every reachable state.
THEOREM ProcessInvariant == ProcSpec => []ProcInv
<1>1. ProcInv /\ [ProcNext]_procVars => ProcInv'
  <2> SUFFICES ASSUME ProcInv, [ProcNext]_procVars PROVE ProcInv'
    OBVIOUS
  <2>1. CASE UNCHANGED procVars
    BY <2>1, Resting DEF procVars
  <2>2. CASE ProcNext
    <3>1. PICK p \in Procs :
            ParseArgs(p) \/ ClientRuns(p) \/ Server(p) \/ Kill(p) \/ Outside(p)
      BY <2>2 DEF ProcNext
    <3> QED
      BY <3>1, ParseArgsStep, ServerStep, KillStep, OutsideStep
  <2> QED
    BY <2>1, <2>2
<1> QED
  BY InitProcesses, <1>1, PTL DEF ProcSpec

\* When --kill (general.rs:36) exits with 0 after it was aimed at a server of the same
\* user, that server has ended and the pidfile that named it is gone, however many
\* servers and killers share a path.
THEOREM KillIsFinal == ProcSpec => []KillMeansGone
<1>1. ProcInv => KillMeansGone
  BY PendingIsNoCode DEF ProcInv, OnlyTheDeadEnd, FoundIt, KillMeansGone
<1> QED
  BY ProcessInvariant, <1>1, PTL

\* A server that parse of cli/mod.rs lets start can tell when its boot and its warmup
\* have ended, for any command line.
THEOREM ServersAreServable == ProcSpec => []AcceptedServersCanServe
<1>1. ProcInv => AcceptedServersCanServe
  <2> SUFFICES ASSUME ProcInv, NEW p \in Procs, Is(p, "server")
               PROVE  CanServe(config[p])
    BY DEF AcceptedServersCanServe
  <2>1. config[p] = Parse(args[p]) /\ config[p].mode = "server"
    BY DEF ProcInv, InItsMode, Is, Nothing
  <2> QED
    BY <2>1, ParsedServer, ServersCanServe
<1> QED
  BY ProcessInvariant, <1>1, PTL

\* For every command line that is accepted, what is given in vain is given beside --help
\* or --version, or it is one of the options that --raw makes pointless: all others that
\* the mode has no use for are rejected (build_server, build_client, build_general).
THEOREM LittleIsInVain == ProcSpec => []OnlyHelpAndRawIgnore
<1>1. ProcInv => OnlyHelpAndRawIgnore
  <2> SUFFICES ASSUME ProcInv, NEW p \in Procs,
                      config[p].mode \in {"help", "server", "client", "kill"},
                      NEW o \in GivenInVain(p), ~Is(p, "help")
               PROVE  /\ config[p].mode \in {"server", "client"} /\ config[p].raw
                      /\ o \in Framed(config[p].mode)
    BY DEF OnlyHelpAndRawIgnore
  <2>1. config[p].mode \in {"server", "client", "kill"} /\ config[p] = Parse(args[p])
    BY DEF ProcInv, InItsMode, Is, Nothing
  <2> QED
    BY <2>1, ParsedHeeds DEF GivenInVain
<1> QED
  BY ProcessInvariant, <1>1, PTL
-----------------------------------------------------------------------------
(* Files: sockets, pidfiles and REPLs.                                      *)

PastBind    == {"nonblocking", "pidfile", "serve", "terminate", "unlink", "leave", "gone"}
PastPidfile == {"serve", "terminate", "unlink", "leave", "gone"}
Listening   == {"nonblocking", "pidfile", "serve", "terminate", "unlink"}

\* A file is where its owner's command line wants it, and its owner has been there.
Owners ==
  \A x \in DOMAIN taken, q \in Procs :
    /\ taken[x] = Socket(q) => Is(q, "server") /\ x = Place(q) /\ pc[q] \in PastBind
    /\ taken[x] = Pid(q) => /\ Is(q, "server") /\ HasPidfile(q) /\ x = PidfilePath(q)
                            /\ pc[q] \in PastPidfile

\* Without a REPL that could be running: before it is started and once it has ended.
NoRepl == {"parse", "client", "spawn", "unlink", "leave"} \cup KillerStages

\* What a process has cleaned up.
OwnsNothing(p) == \A x \in DOMAIN taken : taken[x] \notin {Socket(p), Pid(p)}
Clean(p) ==
  /\ pc[p] \in NoRepl => repl[p] # "alive"
  /\ pc[p] = "leave" /\ config[p].bind.unix => \A x \in DOMAIN taken : taken[x] # Socket(p)
  /\ pc[p] = "gone" /\ status[p] # ByKill /\ p \notin strayed =>
       repl[p] # "alive" /\ OwnsNothing(p)
Cleaned == \A p \in Procs : Clean(p)

\* What a killer has looked up is the pidfile of the server it is after.
LookedUpPidfile ==
  \A k \in Procs :
    pc[k] \in LookedUp => /\ Is(Target(k), "server") /\ HasPidfile(Target(k))
                          /\ aim[k].path = PidfilePath(Target(k))

\* A server that has bound its place has it, and nobody else may come to have a file
\* there or be about to remove one.
Alone(p) ==
  /\ \A x \in DOMAIN taken : x = Place(p) => taken[x] = Socket(p)
  /\ \A k \in Procs : pc[k] \in LookedUp => aim[k].path # Place(p)
Bound ==
  \A p \in Procs : Is(p, "server") =>
    /\ pc[p] \in Listening /\ (config[p].bind.unix => ~Contested(p)) => Holds(Place(p), Socket(p))
    /\ config[p].bind.unix /\ ~Contested(p) => Alone(p)

FilesInv == ProcTypeOK /\ Owners /\ Cleaned /\ LookedUpPidfile /\ Bound

-----------------------------------------------------------------------------
(* Places.                                                                 *)

\* Pidfiles and sockets in the file system are no TCP addresses.
LEMMA FilesAreFiles ==
  ASSUME NEW p, NEW q, ~config[q].bind.unix
  PROVE  /\ PidfilePath(p) # Place(q)
         /\ config[p].bind.unix => Place(p) # Place(q)
BY DEF PidfilePath, Place, SocketPath, DefaultPidfile, DefaultSocket, File, Tcp

\* Places that nobody was told to share are different.
LEMMA Apart ==
  ASSUME NEW p \in Procs, NEW q \in Procs, p # q, Is(p, "server"),
         config[q].bind.unix, ~Contested(q)
  PROVE  Place(p) # Place(q) /\ (HasPidfile(p) => PidfilePath(p) # Place(q))
<1>1. CASE ToldWhere(q)
  BY <1>1 DEF Contested, Uses
<1>2. CASE ~ToldWhere(q)
  <2>1. Place(q) = <<"file", <<"socket_of", q>>>>
    BY <1>2 DEF ToldWhere, Place, SocketPath, DefaultSocket, File
  <2>2. Place(q) \notin Told(p)
    BY <1>2 DEF Contested
  <2>3. ToldWhere(p) => Place(p) # Place(q)
    BY <2>2 DEF Told
  <2>4. ~ToldWhere(p) => Place(p) = <<"file", <<"socket_of", p>>>>
    BY DEF ToldWhere, Place, SocketPath, DefaultSocket, File
  <2>5. ToldPidfile(p) => PidfilePath(p) # Place(q)
    BY <2>2 DEF Told
  <2>6. HasPidfile(p) /\ ~ToldPidfile(p) => PidfilePath(p) = <<"file", <<"pidfile_of", p>>>>
    BY DEF ToldPidfile, PidfilePath, DefaultPidfile, File
  <2>7. /\ <<"file", <<"socket_of", p>>>> # <<"file", <<"socket_of", q>>>>
        /\ <<"file", <<"pidfile_of", p>>>> # <<"file", <<"socket_of", q>>>>
    <3>1. <<"socket_of", p>> # <<"socket_of", q>> /\ <<"pidfile_of", p>> # <<"socket_of", q>>
      OBVIOUS
    <3> QED
      BY <3>1
  <2> QED
    BY <2>1, <2>3, <2>4, <2>5, <2>6, <2>7
<1> QED
  BY <1>1, <1>2

\* The same of the next state.
LEMMA ApartThen ==
  ASSUME NEW p \in Procs', NEW q \in Procs', p # q, Is(p, "server")',
         config'[q].bind.unix, ~Contested(q)'
  PROVE  Place(p)' # Place(q)' /\ (HasPidfile(p)' => PidfilePath(p)' # Place(q)')
<1>1. CASE ToldWhere(q)'
  BY <1>1 DEF Contested, Uses
<1>2. CASE ~ToldWhere(q)'
  <2>1. Place(q)' = <<"file", <<"socket_of", q>>>>
    BY <1>2 DEF ToldWhere, Place, SocketPath, DefaultSocket, File
  <2>2. Place(q)' \notin Told(p)'
    BY <1>2 DEF Contested
  <2>3. ToldWhere(p)' => Place(p)' # Place(q)'
    BY <2>2 DEF Told
  <2>4. ~ToldWhere(p)' => Place(p)' = <<"file", <<"socket_of", p>>>>
    BY DEF ToldWhere, Place, SocketPath, DefaultSocket, File
  <2>5. ToldPidfile(p)' => PidfilePath(p)' # Place(q)'
    BY <2>2 DEF Told
  <2>6. HasPidfile(p)' /\ ~ToldPidfile(p)' => PidfilePath(p)' = <<"file", <<"pidfile_of", p>>>>
    BY DEF ToldPidfile, PidfilePath, DefaultPidfile, File
  <2>7. /\ <<"file", <<"socket_of", p>>>> # <<"file", <<"socket_of", q>>>>
        /\ <<"file", <<"pidfile_of", p>>>> # <<"file", <<"socket_of", q>>>>
    <3>1. <<"socket_of", p>> # <<"socket_of", q>> /\ <<"pidfile_of", p>> # <<"socket_of", q>>
      OBVIOUS
    <3> QED
      BY <3>1
  <2> QED
    BY <2>1, <2>3, <2>4, <2>5, <2>6, <2>7
<1> QED
  BY <1>1, <1>2

\* Where processes want their files depends on their command lines only.
LEMMA SamePlaces ==
  ASSUME UNCHANGED <<args, config>>
  PROVE  /\ Procs' = Procs
         /\ \A q \in Procs :
              /\ Place(q)' = Place(q) /\ PidfilePath(q)' = PidfilePath(q)
              /\ HasPidfile(q)' <=> HasPidfile(q)
              /\ Is(q, "server")' <=> Is(q, "server")
              /\ Contested(q)' <=> Contested(q)
              /\ OwnsNothing(q)' <=> \A x \in DOMAIN taken' : taken'[x] \notin {Socket(q), Pid(q)}
BY DEF Procs, Place, SocketPath, DefaultSocket, PidfilePath, DefaultPidfile, HasPidfile, Is,
       Contested, ToldWhere, ToldPidfile, Told, Uses, OwnsNothing, Socket, Pid

-----------------------------------------------------------------------------
(* One process moves.                                                      *)

\* A file that was there before, as it was.
Old(x) == x \in DOMAIN taken /\ taken'[x] = taken[x]

\* No server that goes on listening loses its socket.
SocketsStay ==
  \A q \in Procs :
    Is(q, "server") /\ pc'[q] \in Listening /\ (config[q].bind.unix => ~Contested(q)) =>
      (Place(q) \in DOMAIN taken => Place(q) \in DOMAIN taken')

\* Values of their kinds, and what has been cleaned up stays so.
LEMMA OneMoves ==
  ASSUME ProcInv, ProcTypeOK, Cleaned, NEW p \in Procs, UNCHANGED <<args, config>>,
         pc[p] # "parse",
         DOMAIN pc' = Procs, DOMAIN status' = Procs, DOMAIN repl' = Procs, DOMAIN aim' = Procs,
         \A q \in Procs : q # p => /\ pc'[q] = pc[q] /\ status'[q] = status[q]
                                   /\ repl'[q] = repl[q] /\ (q \in strayed' <=> q \in strayed),
         signalled' \subseteq Procs, strayed' \subseteq Procs,
         \A x \in DOMAIN taken' : Old(x) \/ taken'[x] \in {Socket(p), Pid(p)},
         pc'[p] \in Stages \ {"parse"}, repl'[p] \in {"none", "alive", "dead"},
         status'[p] \in {Pending, 0, 1, 2, 101, 124, 134, ByKill},
         status'[p] = Pending <=> pc'[p] # "gone",
         Clean(p)'
  PROVE  ProcTypeOK' /\ Cleaned'
<1>1. Procs' = Procs
  BY DEF Procs
<1>2. {DOMAIN config, DOMAIN pc, DOMAIN status, DOMAIN repl, DOMAIN aim}' = {Procs}
  BY DEF ProcTypeOK
<1>3. ASSUME NEW q \in Procs
      PROVE  /\ pc'[q] \in Stages /\ repl'[q] \in {"none", "alive", "dead"}
             /\ status'[q] \in {Pending, 0, 1, 2, 101, 124, 134, ByKill}
             /\ (status'[q] = Pending) = (pc'[q] # "gone")
             /\ (config'[q] = Nothing) = (pc'[q] = "parse")
  BY DEF ProcTypeOK, Running
<1>4. \A x \in DOMAIN taken' : taken'[x] \in UNION {{Socket(q), Pid(q)} : q \in Procs}
  BY DEF ProcTypeOK, Old
<1>5. ProcTypeOK'
  BY <1>1, <1>2, <1>3, <1>4 DEF ProcTypeOK, Running, Nothing, Socket, Pid
<1>6. ASSUME NEW q \in Procs, q # p  PROVE Clean(q)'
  <2>1. \A x \in DOMAIN taken' : taken'[x] \in {Socket(q), Pid(q)} => Old(x)
    BY <1>6 DEF Socket, Pid
  <2>2. OwnsNothing(q) => OwnsNothing(q)'
    BY <2>1 DEF OwnsNothing, Old, Socket, Pid
  <2>3. (\A x \in DOMAIN taken : taken[x] # Socket(q))
          => \A x \in DOMAIN taken' : taken'[x] # Socket(q)'
    BY <2>1 DEF Old, Socket, Pid
  <2> QED
    BY <1>6, <2>2, <2>3 DEF Cleaned, Clean
<1> QED
  BY <1>1, <1>5, <1>6 DEF Cleaned

\* Files have the owners they had, and nobody looks up or binds anything.
LEMMA NothingNew ==
  ASSUME FilesInv, UNCHANGED <<args, config>>,
         \A q \in Procs : /\ pc[q] \in PastBind => pc'[q] \in PastBind
                          /\ pc[q] \in PastPidfile => pc'[q] \in PastPidfile
                          /\ pc'[q] \in Listening => pc[q] \in Listening
                          /\ pc'[q] \in LookedUp => pc[q] \in LookedUp /\ aim'[q] = aim[q],
         \A x \in DOMAIN taken' : Old(x),
         SocketsStay
  PROVE  Owners' /\ LookedUpPidfile' /\ Bound'
<1>1. Procs' = Procs
  BY DEF Procs
<1>2. Owners'
  <2> SUFFICES ASSUME NEW x \in DOMAIN taken', NEW q \in Procs
               PROVE  /\ taken'[x] = Socket(q)' =>
                           Is(q, "server")' /\ x = Place(q)' /\ pc'[q] \in PastBind
                      /\ taken'[x] = Pid(q)' =>
                           /\ Is(q, "server")' /\ HasPidfile(q)' /\ x = PidfilePath(q)'
                           /\ pc'[q] \in PastPidfile
    BY <1>1 DEF Owners
  <2>1. Old(x) /\ Socket(q)' = Socket(q) /\ Pid(q)' = Pid(q)
    BY DEF Socket, Pid
  <2> QED
    BY <2>1, SamePlaces DEF FilesInv, Owners, Old
<1>3. LookedUpPidfile'
  <2> SUFFICES ASSUME NEW k \in Procs, pc'[k] \in LookedUp
               PROVE  /\ Is(Target(k), "server")' /\ HasPidfile(Target(k))'
                      /\ aim'[k].path = PidfilePath(Target(k))'
    BY <1>1 DEF LookedUpPidfile
  <2>1. /\ Is(Target(k), "server") /\ HasPidfile(Target(k))
        /\ aim[k].path = PidfilePath(Target(k)) /\ aim'[k] = aim[k]
    BY DEF FilesInv, LookedUpPidfile
  <2> QED
    BY <2>1 DEF Is, HasPidfile, PidfilePath, DefaultPidfile, Target
<1>4. Bound'
  <2> SUFFICES ASSUME NEW q \in Procs, Is(q, "server")
               PROVE  /\ pc'[q] \in Listening /\ (config[q].bind.unix => ~Contested(q))
                           => Holds(Place(q), Socket(q))'
                      /\ config[q].bind.unix /\ ~Contested(q) => Alone(q)'
    BY <1>1, SamePlaces DEF Bound
  <2>1. ASSUME pc'[q] \in Listening, config[q].bind.unix => ~Contested(q)
        PROVE  Holds(Place(q), Socket(q))'
    <3>1. Holds(Place(q), Socket(q))
      BY <2>1 DEF FilesInv, Bound
    <3>2. Place(q) \in DOMAIN taken'
      BY <2>1, <3>1 DEF SocketsStay, Holds, Exists
    <3> QED
      BY <3>1, <3>2, SamePlaces DEF Holds, Exists, Old, Socket
  <2>2. ASSUME config[q].bind.unix, ~Contested(q)
        PROVE  Alone(q)'
    <3>1. Alone(q)
      BY <2>2 DEF FilesInv, Bound
    <3> QED
      BY <1>1, <3>1, SamePlaces DEF Alone, Old, Socket
  <2> QED
    BY <2>1, <2>2
<1> QED
  BY <1>2, <1>3, <1>4

\* A process goes on, and looks up and binds nothing.
LEMMA FilesGoOn ==
  ASSUME ProcInv, FilesInv, NEW p \in Procs, NEW l \in Stages \ {"parse", "gone"},
         pc[p] \notin {"parse", "gone"}, GoesOn(p, l),
         UNCHANGED <<args, config, aim, strayed>>, signalled' \subseteq Procs,
         repl' = repl \/ \E r \in {"alive", "dead"} : repl' = [repl EXCEPT ![p] = r],
         pc[p] \in PastBind => l \in PastBind,
         pc[p] \in PastPidfile => l \in PastPidfile,
         l \in Listening => pc[p] \in Listening,
         l \in LookedUp => pc[p] \in LookedUp,
         \A x \in DOMAIN taken' : Old(x),
         SocketsStay,
         l \in NoRepl => repl'[p] # "alive",
         l = "leave" /\ config[p].bind.unix => \A x \in DOMAIN taken' : taken'[x] # Socket(p)
  PROVE  FilesInv'
<1>1. /\ DOMAIN pc' = Procs /\ DOMAIN repl = Procs /\ DOMAIN aim = Procs
      /\ DOMAIN status = Procs
      /\ \A q \in Procs : pc'[q] = IF q = p THEN l ELSE pc[q]
  BY DEF ProcInv, Shape, GoesOn, FilesInv, ProcTypeOK
<1>2. /\ DOMAIN repl' = Procs /\ \A q \in Procs : q # p => repl'[q] = repl[q]
      /\ repl'[p] \in {"none", "alive", "dead"}
  BY <1>1 DEF FilesInv, ProcTypeOK
<1>3. status' = status /\ status[p] = Pending /\ strayed \subseteq Procs
  BY DEF GoesOn, FilesInv, ProcTypeOK, Running
<1>4. Clean(p)'
  BY <1>1 DEF Clean, Socket
<1>5. ProcTypeOK' /\ Cleaned'
  BY <1>1, <1>2, <1>3, <1>4, OneMoves DEF FilesInv
<1>6. Owners' /\ LookedUpPidfile' /\ Bound'
  BY <1>1, NothingNew
<1> QED
  BY <1>5, <1>6 DEF FilesInv

\* A process ends.
LEMMA FilesEnd ==
  ASSUME ProcInv, FilesInv, NEW p \in Procs, NEW code \in {0, 1, 2, 101, 124, 134, ByKill},
         pc[p] \notin {"parse", "gone"}, Ends(p, code),
         UNCHANGED <<args, config, aim>>, signalled' = signalled,
         strayed' \in {strayed, strayed \cup {p}},
         repl' = repl \/ repl' = [repl EXCEPT ![p] = "dead"],
         \A x \in DOMAIN taken' : Old(x),
         SocketsStay,
         code # ByKill /\ p \notin strayed' =>
           repl'[p] # "alive" /\ \A x \in DOMAIN taken' : taken'[x] \notin {Socket(p), Pid(p)}
  PROVE  FilesInv'
<1>1. /\ DOMAIN pc' = Procs /\ DOMAIN repl = Procs /\ DOMAIN aim = Procs
      /\ DOMAIN status' = Procs /\ status'[p] = code
      /\ \A q \in Procs : /\ pc'[q] = IF q = p THEN "gone" ELSE pc[q]
                          /\ q # p => status'[q] = status[q]
  BY DEF ProcInv, Shape, Ends, FilesInv, ProcTypeOK
<1>2. /\ DOMAIN repl' = Procs /\ \A q \in Procs : q # p => repl'[q] = repl[q]
      /\ repl'[p] \in {"none", "alive", "dead"}
  BY <1>1 DEF FilesInv, ProcTypeOK
<1>3. /\ strayed' \subseteq Procs /\ signalled' \subseteq Procs
      /\ \A q \in Procs : q # p => (q \in strayed' <=> q \in strayed)
  BY DEF FilesInv, ProcTypeOK
<1>4. code # Pending
  BY PendingIsNoCode DEF ByKill
<1>5. Clean(p)'
  BY <1>1 DEF Clean, OwnsNothing, Socket, Pid, NoRepl, KillerStages
<1>6. ProcTypeOK' /\ Cleaned'
  BY <1>1, <1>2, <1>3, <1>4, <1>5, OneMoves DEF FilesInv, Stages
<1>7. Owners' /\ LookedUpPidfile' /\ Bound'
  BY <1>1, NothingNew DEF PastBind, PastPidfile, Listening, LookedUp
<1> QED
  BY <1>6, <1>7 DEF FilesInv

-----------------------------------------------------------------------------
(* The steps of servers.                                                   *)

\* What removing one file and giving up an address leave.
LEMMA OneRemoved ==
  ASSUME NEW p, NEW place, taken' \in AfterRemoval(p, place)
  PROVE  /\ \A x \in DOMAIN taken' : Old(x)
         /\ \A x \in DOMAIN taken : x # place => x \in DOMAIN taken'
         /\ place \in DOMAIN taken' => OfOthers(p, place)
BY DEF AfterRemoval, Without, Old

LEMMA AddressFreed ==
  ASSUME NEW p, taken' = Freed(p, taken)
  PROVE  /\ \A x \in DOMAIN taken' : Old(x)
         /\ \A x \in DOMAIN taken : taken[x] # Socket(p) => x \in DOMAIN taken'
BY DEF Freed, Without, Old

\* Nothing the invariant is about changes.
LEMMA FilesRest ==
  ASSUME FilesInv, UNCHANGED procVars
  PROVE  FilesInv'
<1>1. ProcTypeOK'
  BY DEF FilesInv, ProcTypeOK, procVars, Procs, Running, Socket, Pid
<1>2. Owners'
  BY DEF FilesInv, Owners, procVars, Procs, Is, Place, SocketPath, DefaultSocket, HasPidfile,
         PidfilePath, DefaultPidfile, Socket, Pid
<1>3. Cleaned'
  BY DEF FilesInv, Cleaned, procVars, Procs, Clean, OwnsNothing, Socket, Pid
<1>4. LookedUpPidfile'
  BY DEF FilesInv, LookedUpPidfile, procVars, Procs, Is, HasPidfile, PidfilePath,
         DefaultPidfile, Target
<1>5. Bound'
  <2>1. Procs' = Procs /\ UNCHANGED <<args, config, pc, taken, aim>>
    BY DEF procVars, Procs
  <2>2. \A q \in Procs : /\ Alone(q)' <=> Alone(q)
                         /\ Holds(Place(q), Socket(q))' <=> Holds(Place(q), Socket(q))
    BY <2>1, SamePlaces DEF Alone, Holds, Exists, Socket
  <2> QED
    BY <2>1, <2>2, SamePlaces DEF FilesInv, Bound
<1> QED
  BY <1>1, <1>2, <1>3, <1>4, <1>5 DEF FilesInv

\* Removing a file that is nobody's socket, or only the socket of one who does not listen.
LEMMA SparingSockets ==
  ASSUME UNCHANGED <<args, config>>, NEW p \in Procs, pc'[p] \notin Listening, NEW place,
         \A x \in DOMAIN taken : x # place /\ taken[x] # Socket(p) => x \in DOMAIN taken',
         FilesInv, \A q \in Procs : pc'[q] \in Listening => pc[q] \in Listening,
         \A q \in Procs : q # p /\ Is(q, "server") /\ (config[q].bind.unix => ~Contested(q)) =>
           place # Place(q)
  PROVE  SocketsStay
<1> SUFFICES ASSUME NEW q \in Procs, Is(q, "server"), pc'[q] \in Listening,
                    config[q].bind.unix => ~Contested(q)
             PROVE  Place(q) \in DOMAIN taken'
  BY DEF SocketsStay
<1>1. q # p /\ Holds(Place(q), Socket(q))
  BY DEF FilesInv, Bound
<1>2. Socket(q) # Socket(p)
  BY <1>1 DEF Socket
<1> QED
  BY <1>1, <1>2 DEF Holds, Exists

\* A server has no files of its own before it binds.
LEMMA NoFilesYet ==
  ASSUME FilesInv, NEW p \in Procs, pc[p] \notin PastBind
  PROVE  OwnsNothing(p)
BY DEF FilesInv, Owners, OwnsNothing, PastBind, PastPidfile

\* A server on its way to the loop: nothing is bound or written.
LEMMA StartingFiles ==
  ASSUME ProcInv, FilesInv, NEW p \in Procs,
         SpawnRepl(p) \/ ResolveBind(p) \/ BindFails(p) \/ SetNonblocking(p) \/ SetupFails(p)
  PROVE  FilesInv'
<1> USE DEF Stages, PastBind, PastPidfile, Listening, LookedUp, NoRepl, KillerStages
<1>s. signalled \subseteq Procs
  BY DEF FilesInv, ProcTypeOK
<1>o. taken' = taken => (\A x \in DOMAIN taken' : Old(x)) /\ SocketsStay
  BY DEF Old, SocketsStay
<1>1. CASE SpawnRepl(p) /\ GoesOn(p, "resolve")
  BY <1>1, <1>s, <1>o, FilesGoOn DEF SpawnRepl, GoesOn, Ends, ProcInv, Shape
<1>2. CASE SpawnRepl(p) /\ Ends(p, 1)
  <2>1. repl' = repl /\ pc[p] = "spawn" /\ taken' = taken
    BY <1>2 DEF SpawnRepl, GoesOn, Ends, ProcInv, Shape
  <2>2. repl[p] # "alive" /\ OwnsNothing(p)
    BY <2>1, NoFilesYet DEF FilesInv, Cleaned, Clean
  <2> QED
    BY <1>2, <1>o, <2>1, <2>2, FilesEnd DEF SpawnRepl, OwnsNothing
<1>3. CASE ResolveBind(p)
  <2>1. /\ pc[p] = "resolve" /\ GoesOn(p, "bind")
        /\ UNCHANGED <<args, config, repl, signalled, strayed, aim>>
    BY <1>3 DEF ResolveBind
  <2>2. \A q \in Procs : pc'[q] = IF q = p THEN "bind" ELSE pc[q]
    BY <2>1 DEF GoesOn, ProcInv, Shape
  <2>3. CASE taken' = taken
    BY <1>s, <1>o, <2>1, <2>3, FilesGoOn
  <2>4. CASE config[p].bind.unix /\ taken' \in AfterRemoval(p, Place(p))
    <3>1. \A q \in Procs : q # p /\ Is(q, "server") /\ (config[q].bind.unix => ~Contested(q)) =>
            Place(p) # Place(q)
      BY <2>1, <2>4, StageOfMode, Apart, FilesAreFiles DEF ServerStages
    <3>2. \A x \in DOMAIN taken' : Old(x)
      BY <2>4, OneRemoved
    <3>3. SocketsStay
      BY <2>1, <2>2, <2>4, <3>1, OneRemoved, SparingSockets
    <3> QED
      BY <1>s, <2>1, <3>2, <3>3, FilesGoOn
  <2> QED
    BY <1>3, <2>3, <2>4 DEF ResolveBind
<1>4. CASE BindFails(p)
  <2>1. /\ pc[p] = "bind" /\ Ends(p, 1) /\ repl' = [repl EXCEPT ![p] = "dead"]
        /\ UNCHANGED <<args, config, signalled, strayed, taken, aim>>
    BY <1>4 DEF BindFails
  <2>2. repl'[p] # "alive" /\ OwnsNothing(p)
    BY <2>1, NoFilesYet DEF FilesInv, ProcTypeOK
  <2> QED
    BY <1>o, <2>1, <2>2, FilesEnd DEF OwnsNothing
<1>5. CASE SetNonblocking(p)
  BY <1>5, <1>s, <1>o, FilesGoOn DEF SetNonblocking
<1>6. CASE SetupFails(p)
  <2>1. /\ pc[p] \in {"nonblocking", "pidfile"} /\ Ends(p, 1) /\ p \in strayed'
        /\ strayed' = strayed \cup {p} /\ taken' = Freed(p, taken)
        /\ UNCHANGED <<args, config, repl, signalled, aim>>
    BY <1>6 DEF SetupFails
  <2>2. \A q \in Procs : pc'[q] = IF q = p THEN "gone" ELSE pc[q]
    BY <2>1 DEF Ends, ProcInv, Shape
  <2>3. SocketsStay
    <3> SUFFICES ASSUME NEW q \in Procs, Is(q, "server"), pc'[q] \in Listening,
                        config[q].bind.unix => ~Contested(q)
                 PROVE  Place(q) \in DOMAIN taken'
      BY DEF SocketsStay
    <3>1. q # p /\ Holds(Place(q), Socket(q))
      BY <2>2 DEF FilesInv, Bound
    <3>2. Socket(q) # Socket(p)
      BY <3>1 DEF Socket
    <3> QED
      BY <2>1, <3>1, <3>2, AddressFreed DEF Holds, Exists
  <2> QED
    BY <2>1, <2>3, AddressFreed, FilesEnd
<1> QED
  BY <1>1, <1>2, <1>3, <1>4, <1>5, <1>6 DEF SpawnRepl

\* A server in the loop and on its way out.
LEMMA EndingFiles ==
  ASSUME ProcInv, FilesInv, NEW p \in Procs,
         LeaveLoop(p) \/ TerminateRepl(p) \/ RemoveSocket(p) \/ RemovePidfile(p)
  PROVE  FilesInv'
<1> USE DEF Stages, PastBind, PastPidfile, Listening, LookedUp, NoRepl, KillerStages
<1>s. signalled \subseteq Procs
  BY DEF FilesInv, ProcTypeOK
<1>o. taken' = taken => (\A x \in DOMAIN taken' : Old(x)) /\ SocketsStay
  BY DEF Old, SocketsStay
<1>1. CASE LeaveLoop(p)
  BY <1>1, <1>s, <1>o, FilesGoOn DEF LeaveLoop
<1>2. CASE TerminateRepl(p)
  <2>1. repl'[p] # "alive"
    BY <1>2 DEF TerminateRepl, FilesInv, ProcTypeOK
  <2> QED
    BY <1>2, <1>s, <1>o, <2>1, FilesGoOn DEF TerminateRepl
<1>3. CASE RemoveSocket(p)
  <2>1. /\ pc[p] = "unlink" /\ GoesOn(p, "leave")
        /\ UNCHANGED <<args, config, repl, signalled, strayed, aim>>
    BY <1>3 DEF RemoveSocket
  <2>2. \A q \in Procs : pc'[q] = IF q = p THEN "leave" ELSE pc[q]
    BY <2>1 DEF GoesOn, ProcInv, Shape
  <2>3. repl'[p] # "alive"
    BY <2>1 DEF FilesInv, Cleaned, Clean
  <2>4. CASE ~config[p].bind.unix
    BY <1>3, <1>s, <1>o, <2>1, <2>3, <2>4, FilesGoOn DEF RemoveSocket
  <2>5. CASE config[p].bind.unix /\ taken' \in AfterRemoval(p, Place(p))
    <3>1. \A q \in Procs : q # p /\ Is(q, "server") /\ (config[q].bind.unix => ~Contested(q)) =>
            Place(p) # Place(q)
      BY <2>1, <2>5, StageOfMode, Apart, FilesAreFiles DEF ServerStages
    <3>2. \A x \in DOMAIN taken' : Old(x)
      BY <2>5, OneRemoved
    <3>3. SocketsStay
      BY <2>1, <2>2, <2>5, <3>1, OneRemoved, SparingSockets
    <3>4. ASSUME NEW x \in DOMAIN taken', taken'[x] = Socket(p) PROVE FALSE
      <4>1. x \in DOMAIN taken /\ taken[x] = Socket(p) /\ x = Place(p)
        BY <3>2, <3>4 DEF Old, FilesInv, Owners
      <4>2. ~OfOthers(p, Place(p))
        BY <4>1 DEF OfOthers, SameUser, Socket
      <4> QED
        BY <2>5, <3>4, <4>1, <4>2, OneRemoved
    <3> QED
      BY <1>s, <2>1, <2>3, <3>2, <3>3, <3>4, FilesGoOn
  <2> QED
    BY <1>3, <2>4, <2>5 DEF RemoveSocket
<1>4. CASE RemovePidfile(p)
  <2>1. /\ pc[p] = "leave" /\ \E code \in {0, 1} : Ends(p, code)
        /\ UNCHANGED <<args, config, repl, signalled, strayed, aim>>
    BY <1>4 DEF RemovePidfile
  <2>2. PICK left : taken' = Freed(p, left) /\
          left \in IF HasPidfile(p) THEN AfterRemoval(p, PidfilePath(p)) ELSE {taken}
    BY <1>4 DEF RemovePidfile
  <2>3. /\ \A x \in DOMAIN left : x \in DOMAIN taken /\ left[x] = taken[x]
        /\ \A x \in DOMAIN taken : x # PidfilePath(p) \/ ~HasPidfile(p) => x \in DOMAIN left
        /\ HasPidfile(p) /\ PidfilePath(p) \in DOMAIN left => OfOthers(p, PidfilePath(p))
    BY <2>2 DEF AfterRemoval, Without
  <2>4. /\ \A x \in DOMAIN taken' : x \in DOMAIN left /\ taken'[x] = left[x]
        /\ \A x \in DOMAIN left : left[x] # Socket(p) => x \in DOMAIN taken'
        /\ \A x \in DOMAIN taken' : taken'[x] = Socket(p) => x[1] # "tcp"
    BY <2>2 DEF Freed, Without
  <2>5. \A x \in DOMAIN taken' : Old(x)
    BY <2>3, <2>4 DEF Old
  <2>6. \A q \in Procs : pc'[q] = IF q = p THEN "gone" ELSE pc[q]
    BY <2>1 DEF Ends, ProcInv, Shape
  <2>7. SocketsStay
    <3> SUFFICES ASSUME NEW q \in Procs, Is(q, "server"), pc'[q] \in Listening,
                        config[q].bind.unix => ~Contested(q)
                 PROVE  Place(q) \in DOMAIN taken'
      BY DEF SocketsStay
    <3>1. q # p /\ Holds(Place(q), Socket(q))
      BY <2>6 DEF FilesInv, Bound
    <3>2. Socket(q) # Socket(p)
      BY <3>1 DEF Socket
    <3>3. HasPidfile(p) => PidfilePath(p) # Place(q)
      BY <2>1, <3>1, StageOfMode, Apart, FilesAreFiles DEF ServerStages
    <3> QED
      BY <2>3, <2>4, <3>1, <3>2, <3>3 DEF Holds, Exists
  <2>8. repl'[p] # "alive"
    BY <2>1 DEF FilesInv, Cleaned, Clean
  <2>9. ASSUME NEW x \in DOMAIN taken', taken'[x] = Socket(p) PROVE FALSE
    <3>1. x \in DOMAIN taken /\ taken[x] = Socket(p) /\ x = Place(p)
      BY <2>5, <2>9 DEF Old, FilesInv, Owners
    <3>2. ~config[p].bind.unix
      BY <2>1, <3>1 DEF FilesInv, Cleaned, Clean
    <3>3. x[1] = "tcp"
      BY <3>1, <3>2 DEF Place, Tcp
    <3> QED
      BY <2>4, <2>9, <3>3
  <2>10. ASSUME NEW x \in DOMAIN taken', taken'[x] = Pid(p) PROVE FALSE
    <3>1. x \in DOMAIN taken /\ taken[x] = Pid(p) /\ x = PidfilePath(p) /\ HasPidfile(p)
      BY <2>5, <2>10 DEF Old, FilesInv, Owners
    <3>2. ~OfOthers(p, PidfilePath(p))
      BY <3>1 DEF OfOthers, SameUser, Pid
    <3> QED
      BY <2>3, <2>4, <3>1, <3>2
  <2> QED
    BY <2>1, <2>5, <2>7, <2>8, <2>9, <2>10, FilesEnd
<1> QED
  BY <1>1, <1>2, <1>3, <1>4

\* What happens to a server from outside, and to its REPL.
LEMMA OutsideFiles ==
  ASSUME ProcInv, FilesInv, NEW p \in Procs, Outside(p)
  PROVE  FilesInv'
<1> USE DEF Stages, PastBind, PastPidfile, Listening, LookedUp, NoRepl, KillerStages
<1>s. signalled \subseteq Procs
  BY DEF FilesInv, ProcTypeOK
<1>o. taken' = taken => (\A x \in DOMAIN taken' : Old(x)) /\ SocketsStay
  BY DEF Old, SocketsStay
<1>g. pc' = pc /\ status' = status => GoesOn(p, pc[p])
  BY DEF GoesOn, ProcInv, Shape
<1>1. CASE ReplEnds(p)
  BY <1>1, <1>s, <1>o, <1>g, FilesGoOn DEF ReplEnds
<1>2. CASE RestartRepl(p)
  BY <1>2, <1>s, <1>o, <1>g, FilesGoOn DEF RestartRepl
<1>3. CASE Signal(p)
  <2>1. /\ pc[p] \notin {"parse", "gone"} /\ signalled' = signalled \cup {p}
        /\ UNCHANGED <<args, config, pc, status, repl, strayed, taken, aim>>
    BY <1>3 DEF Signal, Is, Running, ProcInv, InItsMode, Nothing
  <2>2. /\ pc[p] \in NoRepl => repl'[p] # "alive"
        /\ pc[p] = "leave" /\ config[p].bind.unix => \A x \in DOMAIN taken' : taken'[x] # Socket(p)
    BY <2>1 DEF FilesInv, Cleaned, Clean
  <2>3. pc[p] \in Stages \ {"parse", "gone"}
    BY <2>1 DEF ProcInv, Shape
  <2> QED
    BY <1>s, <1>o, <1>g, <2>1, <2>2, <2>3, FilesGoOn
<1>4. CASE Killed(p)
  <2>1. /\ pc[p] \notin {"parse", "gone"} /\ Ends(p, ByKill) /\ taken' = Freed(p, taken)
        /\ UNCHANGED <<args, config, repl, signalled, strayed, aim>>
    BY <1>4 DEF Killed, Is, Running, ProcInv, InItsMode, Nothing
  <2>2. \A q \in Procs : pc'[q] = IF q = p THEN "gone" ELSE pc[q]
    BY <2>1 DEF Ends, ProcInv, Shape
  <2>3. SocketsStay
    <3> SUFFICES ASSUME NEW q \in Procs, Is(q, "server"), pc'[q] \in Listening,
                        config[q].bind.unix => ~Contested(q)
                 PROVE  Place(q) \in DOMAIN taken'
      BY DEF SocketsStay
    <3>1. q # p /\ Holds(Place(q), Socket(q))
      BY <2>2 DEF FilesInv, Bound
    <3>2. Socket(q) # Socket(p)
      BY <3>1 DEF Socket
    <3> QED
      BY <2>1, <3>1, <3>2, AddressFreed DEF Holds, Exists
  <2> QED
    BY <2>1, <2>3, AddressFreed, FilesEnd
<1> QED
  BY <1>1, <1>2, <1>3, <1>4 DEF Outside

\* A client ends.
LEMMA ClientFiles ==
  ASSUME ProcInv, FilesInv, NEW p \in Procs, ClientRuns(p)
  PROVE  FilesInv'
<1>1. /\ pc[p] = "client" /\ \E code \in {0, 1, 101, 124, 134} : Ends(p, code)
      /\ UNCHANGED <<args, config, repl, signalled, strayed, taken, aim>>
  BY DEF ClientRuns
<1>2. repl[p] # "alive" /\ OwnsNothing(p)
  BY <1>1, NoFilesYet DEF FilesInv, Cleaned, Clean, NoRepl, PastBind
<1>3. (\A x \in DOMAIN taken' : Old(x)) /\ SocketsStay
  BY <1>1 DEF Old, SocketsStay
<1> QED
  BY <1>1, <1>2, <1>3, FilesEnd DEF OwnsNothing

\* A server makes a file of its own, where its command line wants it.
LEMMA MakingFiles ==
  ASSUME ProcInv, FilesInv, NEW p \in Procs, NEW l \in Stages \ {"parse", "gone"},
         NEW place, NEW file, Is(p, "server"), pc[p] \notin {"parse", "gone"},
         GoesOn(p, l), UNCHANGED <<args, config, repl, signalled, strayed, aim>>,
         taken' = With(taken, place, file),
         l \notin NoRepl \cup LookedUp, l \in PastBind,
         pc[p] \in PastPidfile => l \in PastPidfile,
         \/ file = Socket(p) /\ place = Place(p) /\ place \notin DOMAIN taken
         \/ /\ file = Pid(p) /\ HasPidfile(p) /\ place = PidfilePath(p)
            /\ l \in PastPidfile /\ pc[p] \in Listening
            /\ place \in DOMAIN taken => taken[place].kind # "socket"
  PROVE  FilesInv'
<1>1. /\ DOMAIN pc = Procs /\ DOMAIN pc' = Procs /\ DOMAIN repl = Procs /\ DOMAIN aim = Procs
      /\ DOMAIN status = Procs /\ status' = status
      /\ \A q \in Procs : pc'[q] = IF q = p THEN l ELSE pc[q]
  BY DEF ProcInv, Shape, GoesOn, FilesInv, ProcTypeOK
<1>2. /\ DOMAIN taken' = DOMAIN taken \cup {place} /\ taken'[place] = file
      /\ \A x \in DOMAIN taken : x # place => Old(x)
      /\ \A x \in DOMAIN taken' : x # place => Old(x)
  BY DEF With, Old
<1>3. Procs' = Procs /\ file \in {Socket(p), Pid(p)}
  BY DEF Procs
<1>4. ProcTypeOK' /\ Cleaned'
  <2>1. /\ signalled \subseteq Procs /\ strayed \subseteq Procs
        /\ repl[p] \in {"none", "alive", "dead"} /\ status[p] = Pending
    BY DEF FilesInv, ProcTypeOK, Running
  <2>2. Clean(p)'
    BY <1>1 DEF Clean, NoRepl
  <2>3. \A x \in DOMAIN taken' : Old(x) \/ taken'[x] \in {Socket(p), Pid(p)}
    BY <1>2, <1>3
  <2> QED
    BY <1>1, <2>1, <2>2, <2>3, OneMoves DEF FilesInv
<1>5. Owners'
  <2> SUFFICES ASSUME NEW x \in DOMAIN taken', NEW q \in Procs
               PROVE  /\ taken'[x] = Socket(q) =>
                           Is(q, "server") /\ x = Place(q) /\ pc'[q] \in PastBind
                      /\ taken'[x] = Pid(q) =>
                           /\ Is(q, "server") /\ HasPidfile(q) /\ x = PidfilePath(q)
                           /\ pc'[q] \in PastPidfile
    BY <1>3, SamePlaces DEF Owners, Socket, Pid
  <2>1. CASE x = place
    BY <1>1, <1>2, <2>1 DEF Socket, Pid
  <2>2. CASE x # place
    BY <1>1, <1>2, <2>2 DEF FilesInv, Owners, Old
  <2> QED
    BY <2>1, <2>2
<1>6. LookedUpPidfile'
  <2> SUFFICES ASSUME NEW k \in Procs, pc'[k] \in LookedUp
               PROVE  /\ Is(Target(k), "server")' /\ HasPidfile(Target(k))'
                      /\ aim'[k].path = PidfilePath(Target(k))'
    BY <1>3 DEF LookedUpPidfile
  <2>1. /\ Is(Target(k), "server") /\ HasPidfile(Target(k))
        /\ aim[k].path = PidfilePath(Target(k)) /\ aim'[k] = aim[k]
    BY <1>1 DEF FilesInv, LookedUpPidfile
  <2> QED
    BY <2>1 DEF Is, HasPidfile, PidfilePath, DefaultPidfile, Target
<1>7. Bound'
  <2> SUFFICES ASSUME NEW q \in Procs, Is(q, "server")
               PROVE  /\ pc'[q] \in Listening /\ (config[q].bind.unix => ~Contested(q))
                           => Holds(Place(q), Socket(q))'
                      /\ config[q].bind.unix /\ ~Contested(q) => Alone(q)'
    BY <1>3, SamePlaces DEF Bound
  <2>1. CASE q = p /\ file = Socket(p) /\ place = Place(p)
    <3>1. Holds(Place(p), Socket(p))'
      BY <1>2, <2>1, SamePlaces DEF Holds, Exists, Socket
    <3>2. config[p].bind.unix /\ ~Contested(p) => Alone(p)
      BY <2>1 DEF FilesInv, Bound
    <3>3. config[p].bind.unix /\ ~Contested(p) => Alone(p)'
      BY <1>1, <1>2, <1>3, <2>1, <3>2, SamePlaces DEF Alone, Socket
    <3> QED
      BY <2>1, <3>1, <3>3
  <2>2. ASSUME config[q].bind.unix => ~Contested(q),
               ~(q = p /\ file = Socket(p) /\ place = Place(p)),
               pc[q] \in Listening \/ config[q].bind.unix \/ q = p
        PROVE  place # Place(q)
    <3>1. CASE q # p /\ config[q].bind.unix
      BY <2>2, <3>1, Apart
    <3>2. CASE q # p /\ ~config[q].bind.unix
      <4>1. Holds(Place(q), Socket(q))
        BY <2>2, <3>2 DEF FilesInv, Bound
      <4> QED
        BY <3>2, <4>1, FilesAreFiles DEF Holds, Exists
    <3>3. CASE q = p
      <4>1. Holds(Place(q), Socket(q))
        BY <2>2, <3>3 DEF FilesInv, Bound
      <4> QED
        BY <2>2, <3>3, <4>1 DEF Holds, Exists, Socket
    <3> QED
      BY <3>1, <3>2, <3>3
  <2>3. ASSUME config[q].bind.unix => ~Contested(q),
               ~(q = p /\ file = Socket(p) /\ place = Place(p)), pc'[q] \in Listening
        PROVE  Holds(Place(q), Socket(q))'
    <3>1. pc[q] \in Listening
      BY <1>1, <2>3 DEF Socket, Pid
    <3>2. Holds(Place(q), Socket(q)) /\ place # Place(q)
      BY <2>2, <2>3, <3>1 DEF FilesInv, Bound
    <3> QED
      BY <1>2, <3>2, SamePlaces DEF Holds, Exists, Old, Socket
  <2>4. ASSUME config[q].bind.unix, ~Contested(q),
               ~(q = p /\ file = Socket(p) /\ place = Place(p))
        PROVE  Alone(q)'
    <3>1. Alone(q) /\ place # Place(q)
      BY <2>2, <2>4 DEF FilesInv, Bound
    <3>2. \A k \in Procs : pc'[k] \in LookedUp => pc[k] \in LookedUp
      BY <1>1
    <3> QED
      BY <1>2, <1>3, <3>1, <3>2, SamePlaces DEF Alone, Old, Socket
  <2> QED
    BY <2>1, <2>3, <2>4
<1> QED
  BY <1>4, <1>5, <1>6, <1>7 DEF FilesInv

LEMMA BindingFiles ==
  ASSUME ProcInv, FilesInv, NEW p \in Procs, Bind(p) \/ WritePidfile(p)
  PROVE  FilesInv'
<1> USE DEF Stages, PastBind, PastPidfile, Listening, LookedUp, NoRepl, KillerStages
<1>1. CASE Bind(p)
  <2>1. /\ pc[p] = "bind" /\ GoesOn(p, "nonblocking") /\ Place(p) \notin DOMAIN taken
        /\ taken' = With(taken, Place(p), Socket(p))
        /\ UNCHANGED <<args, config, repl, signalled, strayed, aim>>
    BY <1>1 DEF Bind, Exists
  <2>2. Is(p, "server")
    BY <2>1, StageOfMode DEF ServerStages
  <2> QED
    BY <2>1, <2>2, MakingFiles
<1>2. CASE WritePidfile(p) /\ HasPidfile(p)
  <2>1. /\ pc[p] = "pidfile" /\ GoesOn(p, "serve")
        /\ PidfilePath(p) \in DOMAIN taken => taken[PidfilePath(p)].kind # "socket"
        /\ taken' = With(taken, PidfilePath(p), Pid(p))
        /\ UNCHANGED <<args, config, repl, signalled, strayed, aim>>
    BY <1>2 DEF WritePidfile, Exists
  <2>2. Is(p, "server")
    BY <2>1, StageOfMode DEF ServerStages
  <2> QED
    BY <1>2, <2>1, <2>2, MakingFiles
<1>3. CASE WritePidfile(p) /\ ~HasPidfile(p)
  <2>1. /\ pc[p] = "pidfile" /\ GoesOn(p, "serve") /\ taken' = taken
        /\ UNCHANGED <<args, config, repl, signalled, strayed, aim>>
    BY <1>3 DEF WritePidfile
  <2>2. signalled \subseteq Procs
    BY DEF FilesInv, ProcTypeOK
  <2>3. (\A x \in DOMAIN taken' : Old(x)) /\ SocketsStay
    BY <2>1 DEF Old, SocketsStay
  <2> QED
    BY <2>1, <2>2, <2>3, FilesGoOn
<1> QED
  BY <1>1, <1>2, <1>3

-----------------------------------------------------------------------------
(* The steps of killers, and of command lines.                             *)

\* A killer goes on or ends, and touches no file.
LEMMA WaitingFiles ==
  ASSUME ProcInv, FilesInv, NEW k \in Procs,
         \/ Probe(k) \/ SendTerm(k) \/ SeeItGone(k) \/ GraceOver(k)
         \/ SendKill(k) /\ ~IsAlive(k)
  PROVE  FilesInv'
<1> USE DEF Stages, PastBind, PastPidfile, Listening, LookedUp, NoRepl, KillerStages
<1>1. \E l \in {"term", "tidy", "poll", "force"} : GoesOn(k, l)
  BY DEF Probe, SendTerm, SeeItGone, GraceOver, SendKill, GoesOn
<1>2. /\ pc[k] \in {"probe", "term", "poll", "force"}
      /\ UNCHANGED <<args, config, repl, strayed, taken, aim>>
      /\ signalled' = signalled \/ signalled' = signalled \cup {Target(k)}
  BY DEF Probe, SendTerm, SeeItGone, GraceOver, SendKill, Killer
<1>3. signalled' \subseteq Procs /\ repl[k] # "alive"
  BY <1>2 DEF FilesInv, ProcTypeOK, Cleaned, Clean, ProcInv, AimedAt
<1>4. (\A x \in DOMAIN taken' : Old(x)) /\ SocketsStay
  BY <1>2 DEF Old, SocketsStay
<1> QED
  BY <1>1, <1>2, <1>3, <1>4, FilesGoOn

\* SIGKILL ends another process.
LEMMA SendKillFiles ==
  ASSUME ProcInv, FilesInv, NEW k \in Procs, SendKill(k), IsAlive(k)
  PROVE  FilesInv'
<1> DEFINE t == Target(k)
<1>1. /\ pc[k] = "force" /\ t \in Procs /\ Is(t, "server") /\ pc[t] \notin {"gone", "parse"}
      /\ pc' = [pc EXCEPT ![k] = "tidy", ![t] = "gone"]
      /\ status' = [status EXCEPT ![t] = ByKill]
      /\ taken' = Freed(t, taken)
      /\ UNCHANGED <<args, config, repl, signalled, strayed, aim>>
  BY DEF SendKill, IsAlive, Killer, Running, FilesInv, LookedUpPidfile, LookedUp, ProcInv,
         AimedAt, InItsMode, Is, Nothing
<1>2. k # t
  BY <1>1, StageOfKiller DEF KillerStages, Is
<1>3. /\ Procs' = Procs /\ DOMAIN pc' = Procs /\ DOMAIN status' = Procs
      /\ \A q \in Procs :
           /\ pc'[q] = IF q = t THEN "gone" ELSE IF q = k THEN "tidy" ELSE pc[q]
           /\ status'[q] = IF q = t THEN ByKill ELSE status[q]
  BY <1>1, <1>2 DEF ProcInv, Shape, Procs
<1>4. \A x \in DOMAIN taken' : Old(x)
  BY <1>1, AddressFreed
<1>5. ProcTypeOK'
  <2>1. {DOMAIN config, DOMAIN pc, DOMAIN status, DOMAIN repl, DOMAIN aim}' = {Procs}
    BY <1>1, <1>3 DEF FilesInv, ProcTypeOK
  <2>2. ASSUME NEW q \in Procs
        PROVE  /\ pc'[q] \in Stages /\ repl'[q] \in {"none", "alive", "dead"}
               /\ status'[q] \in {Pending, 0, 1, 2, 101, 124, 134, ByKill}
               /\ (status'[q] = Pending) = (pc'[q] # "gone")
               /\ (config'[q] = Nothing) = (pc'[q] = "parse")
    BY <1>1, <1>2, <1>3, PendingIsNoCode DEF FilesInv, ProcTypeOK, Running, Stages, ByKill
  <2>3. \A x \in DOMAIN taken' : taken'[x] \in UNION {{Socket(q), Pid(q)} : q \in Procs}
    BY <1>4 DEF FilesInv, ProcTypeOK, Old
  <2> QED
    BY <1>1, <1>3, <2>1, <2>2, <2>3
    DEF FilesInv, ProcTypeOK, Running, Nothing, Socket, Pid
<1>6. Cleaned'
  <2> SUFFICES ASSUME NEW q \in Procs PROVE Clean(q)'
    BY <1>3 DEF Cleaned
  <2>1. CASE q = t
    BY <1>3, <2>1 DEF Clean, NoRepl, KillerStages
  <2>2. CASE q = k
    <3>1. repl[q] # "alive"
      BY <1>1, <2>2 DEF FilesInv, Cleaned, Clean, NoRepl, KillerStages
    <3> QED
      BY <1>1, <1>2, <1>3, <2>2, <3>1 DEF Clean
  <2>3. CASE q \notin {t, k}
    <3>1. OwnsNothing(q) => OwnsNothing(q)'
      BY <1>4 DEF OwnsNothing, Old, Socket, Pid
    <3>2. (\A x \in DOMAIN taken : taken[x] # Socket(q))
            => \A x \in DOMAIN taken' : taken'[x] # Socket(q)'
      BY <1>4 DEF Old, Socket
    <3> QED
      BY <1>1, <1>3, <2>3, <3>1, <3>2 DEF FilesInv, Cleaned, Clean
  <2> QED
    BY <2>1, <2>2, <2>3
<1>7. SocketsStay
  <2> SUFFICES ASSUME NEW q \in Procs, Is(q, "server"), pc'[q] \in Listening,
                      config[q].bind.unix => ~Contested(q)
               PROVE  Place(q) \in DOMAIN taken'
    BY DEF SocketsStay
  <2>1. q # t /\ pc[q] \in Listening
    BY <1>3 DEF Listening
  <2>2. Holds(Place(q), Socket(q)) /\ Socket(q) # Socket(t)
    BY <2>1 DEF FilesInv, Bound, Socket
  <2> QED
    BY <1>1, <2>2, AddressFreed DEF Holds, Exists
<1>8. Owners' /\ LookedUpPidfile' /\ Bound'
  <2>1. \A q \in Procs : /\ pc[q] \in PastBind => pc'[q] \in PastBind
                         /\ pc[q] \in PastPidfile => pc'[q] \in PastPidfile
                         /\ pc'[q] \in Listening => pc[q] \in Listening
                         /\ pc'[q] \in LookedUp => pc[q] \in LookedUp /\ aim'[q] = aim[q]
    BY <1>1, <1>3 DEF PastBind, PastPidfile, Listening, LookedUp
  <2> QED
    BY <1>1, <1>4, <1>7, <2>1, NothingNew
<1> QED
  BY <1>5, <1>6, <1>8 DEF FilesInv

\* The pidfile is removed, which is nobody's socket.
LEMMA TidyFiles ==
  ASSUME ProcInv, FilesInv, NEW k \in Procs, Tidy(k)
  PROVE  FilesInv'
<1>1. /\ pc[k] = "tidy" /\ taken' \in AfterRemoval(k, aim[k].path) /\ Ends(k, 0)
      /\ UNCHANGED <<args, config, repl, signalled, strayed, aim>>
  BY DEF Tidy, Killer
<1>2. Is(k, "kill") /\ repl[k] # "alive" /\ OwnsNothing(k)
  BY <1>1, StageOfKiller, NoFilesYet
  DEF KillerStages, PastBind, FilesInv, Cleaned, Clean, NoRepl
<1>3. \A x \in DOMAIN taken' : Old(x)
  BY <1>1, OneRemoved
<1>4. SocketsStay
  <2> SUFFICES ASSUME NEW q \in Procs, Is(q, "server"), pc'[q] \in Listening,
                      config[q].bind.unix => ~Contested(q), Place(q) \in DOMAIN taken
               PROVE  Place(q) \in DOMAIN taken'
    BY DEF SocketsStay
  <2>1. CASE config[q].bind.unix
    <3>1. aim[k].path # Place(q)
      BY <1>1, <2>1 DEF FilesInv, Bound, Alone, LookedUp
    <3> QED
      BY <1>1, <3>1, OneRemoved
  <2>2. CASE ~config[q].bind.unix
    <3>1. aim[k].path = PidfilePath(Target(k))
      BY <1>1 DEF FilesInv, LookedUpPidfile, LookedUp
    <3> QED
      BY <1>1, <2>2, <3>1, OneRemoved, FilesAreFiles
  <2> QED
    BY <2>1, <2>2
<1> QED
  BY <1>1, <1>2, <1>3, <1>4, FilesEnd DEF Old, OwnsNothing

\* A killer looks up a path, and then the process it names.
LEMMA LookingUpFiles ==
  ASSUME ProcInv, FilesInv, NEW k \in Procs, Discover(k) \/ ReadPid(k)
  PROVE  FilesInv'
<1> USE DEF Stages, PastBind, PastPidfile, Listening, LookedUp, NoRepl, KillerStages
<1>1. /\ pc[k] \in {"discover", "read"}
      /\ UNCHANGED <<args, config, repl, signalled, strayed, taken>>
  BY DEF Discover, ReadPid, Killer
<1>2. /\ Is(k, "kill") /\ repl[k] # "alive" /\ OwnsNothing(k)
      /\ (\A x \in DOMAIN taken' : Old(x)) /\ SocketsStay
  BY <1>1, StageOfKiller, NoFilesYet DEF FilesInv, Cleaned, Clean, Old, SocketsStay
<1>3. CASE Ends(k, 1) /\ UNCHANGED aim
  BY <1>1, <1>2, <1>3, FilesEnd DEF OwnsNothing
<1>4. ASSUME NEW l \in {"read", "probe"}, GoesOn(k, l), DOMAIN aim' = Procs,
             \A q \in Procs : q # k => aim'[q] = aim[q],
             l = "probe" =>
               /\ Is(aim'[k].pid, "server") /\ HasPidfile(aim'[k].pid)
               /\ aim'[k].path = PidfilePath(aim'[k].pid)
               /\ aim'[k].path \in DOMAIN taken /\ taken[aim'[k].path].kind = "pid"
      PROVE  FilesInv'
  <2>1. /\ DOMAIN pc' = Procs /\ DOMAIN status = Procs /\ DOMAIN repl = Procs
        /\ \A q \in Procs : pc'[q] = IF q = k THEN l ELSE pc[q]
        /\ Procs' = Procs /\ UNCHANGED status /\ status[k] = Pending
        /\ signalled \subseteq Procs /\ strayed \subseteq Procs
        /\ repl[k] \in {"none", "alive", "dead"}
    BY <1>1, <1>4
    DEF ProcInv, Shape, GoesOn, Procs, FilesInv, ProcTypeOK, Running
  <2>2. ProcTypeOK' /\ Cleaned'
    <3>1. Clean(k)'
      BY <1>1, <1>2, <1>4, <2>1 DEF Clean
    <3> QED
      BY <1>1, <1>2, <1>4, <2>1, <3>1, OneMoves DEF FilesInv
  <2>3. Owners'
    <3> SUFFICES ASSUME NEW x \in DOMAIN taken, NEW q \in Procs
                 PROVE  /\ taken[x] = Socket(q) =>
                             Is(q, "server") /\ x = Place(q) /\ pc'[q] \in PastBind
                        /\ taken[x] = Pid(q) =>
                             /\ Is(q, "server") /\ HasPidfile(q) /\ x = PidfilePath(q)
                             /\ pc'[q] \in PastPidfile
      BY <1>1, <2>1, SamePlaces DEF Owners, Socket, Pid
    <3> QED
      BY <1>1, <2>1 DEF FilesInv, Owners
  <2>4. LookedUpPidfile'
    <3> SUFFICES ASSUME NEW q \in Procs, pc'[q] \in LookedUp
                 PROVE  /\ Is(Target(q), "server")' /\ HasPidfile(Target(q))'
                        /\ aim'[q].path = PidfilePath(Target(q))'
      BY <2>1 DEF LookedUpPidfile
    <3>1. CASE q = k
      BY <1>1, <1>4, <2>1, <3>1 DEF Is, HasPidfile, PidfilePath, DefaultPidfile, Target
    <3>2. CASE q # k
      <4>1. /\ Is(Target(q), "server") /\ HasPidfile(Target(q))
            /\ aim[q].path = PidfilePath(Target(q)) /\ aim'[q] = aim[q]
        BY <1>4, <2>1, <3>2 DEF FilesInv, LookedUpPidfile
      <4> QED
        BY <1>1, <4>1 DEF Is, HasPidfile, PidfilePath, DefaultPidfile, Target
    <3> QED
      BY <3>1, <3>2
  <2>5. Bound'
    <3> SUFFICES ASSUME NEW q \in Procs, Is(q, "server")
                 PROVE  /\ pc'[q] \in Listening /\ (config[q].bind.unix => ~Contested(q))
                             => Holds(Place(q), Socket(q))'
                        /\ config[q].bind.unix /\ ~Contested(q) => Alone(q)'
      BY <1>1, <2>1, SamePlaces DEF Bound
    <3>1. pc'[q] \in Listening /\ (config[q].bind.unix => ~Contested(q))
            => Holds(Place(q), Socket(q))'
      BY <1>1, <2>1, SamePlaces DEF FilesInv, Bound, Holds, Exists, Socket
    <3>2. ASSUME config[q].bind.unix, ~Contested(q)
          PROVE  Alone(q)'
      <4>1. Alone(q)
        BY <3>2 DEF FilesInv, Bound
      <4>2. \A x \in DOMAIN taken : x = Place(q) => taken[x].kind = "socket"
        BY <4>1 DEF Alone, Socket
      <4>3. \A j \in Procs : pc'[j] \in LookedUp => aim'[j].path # Place(q)
        BY <1>4, <2>1, <4>1, <4>2 DEF Alone
      <4> QED
        BY <1>1, <2>1, <4>1, <4>3, SamePlaces DEF Alone, Socket
    <3> QED
      BY <3>1, <3>2
  <2> QED
    BY <2>2, <2>3, <2>4, <2>5 DEF FilesInv
<1>5. CASE Discover(k) /\ GoesOn(k, "read")
  <2>1. DOMAIN aim' = Procs /\ \A q \in Procs : q # k => aim'[q] = aim[q]
    BY SMTT(20), <1>5 DEF Discover, FilesInv, ProcTypeOK
  <2> QED
    BY <1>4, <1>5, <2>1
<1>6. CASE ReadPid(k) /\ GoesOn(k, "probe")
  <2>1. /\ aim[k].path \in DOMAIN taken /\ taken[aim[k].path].kind = "pid"
        /\ aim' = [aim EXCEPT ![k].pid = taken[aim[k].path].of]
    BY <1>6 DEF ReadPid, Exists, GoesOn, Ends, ProcInv, Shape
  <2>2. PICK p \in Procs : taken[aim[k].path] = Pid(p)
    BY <2>1 DEF ProcInv, Shape, Socket
  <2>3. /\ Is(p, "server") /\ HasPidfile(p) /\ aim[k].path = PidfilePath(p)
        /\ taken[aim[k].path].of = p
    BY <2>1, <2>2 DEF FilesInv, Owners, Pid
  <2>4. /\ DOMAIN aim' = Procs /\ \A q \in Procs : q # k => aim'[q] = aim[q]
        /\ aim'[k].path = aim[k].path /\ aim'[k].pid = p
    <3>1. PICK a, b : aim[k] = [path |-> a, pid |-> b]
      BY ZenonT(30) DEF ProcInv, Shape
    <3>2. [aim[k] EXCEPT !.pid = p] = [path |-> a, pid |-> p]
      BY <3>1
    <3> QED
      BY <2>1, <2>3, <3>1, <3>2 DEF FilesInv, ProcTypeOK
  <2> QED
    BY <1>4, <1>6, <2>1, <2>3, <2>4
<1> QED
  BY <1>3, <1>5, <1>6 DEF Discover, ReadPid

\* A new command line may want files at places of others, but has none yet.
LEMMA ParsingFiles ==
  ASSUME ProcInv, FilesInv, NEW p \in Procs, ParseArgs(p)
  PROVE  FilesInv'
<1> DEFINE c == Parse(args[p])
<1>1. /\ pc[p] = "parse" /\ config[p] = Nothing /\ config' = [config EXCEPT ![p] = c]
      /\ UNCHANGED <<args, repl, signalled, strayed, taken, aim>>
  BY DEF ParseArgs, ProcInv, InItsMode
<1>2. \/ c.mode \in {"usage", "help"} /\ \E code \in {0, 2} : Ends(p, code)
      \/ c.mode = "server" /\ GoesOn(p, "spawn")
      \/ c.mode = "client" /\ GoesOn(p, "client")
      \/ c.mode = "kill" /\ GoesOn(p, "discover")
  BY ParsedModes DEF ParseArgs
<1>3. /\ DOMAIN config' = Procs /\ DOMAIN pc' = Procs /\ DOMAIN status' = Procs
      /\ Procs' = Procs
      /\ \A q \in Procs : /\ config'[q] = IF q = p THEN c ELSE config[q]
                          /\ q # p => pc'[q] = pc[q] /\ status'[q] = status[q]
      /\ pc'[p] \in {"gone", "spawn", "client", "discover"}
      /\ IF pc'[p] = "gone" THEN status'[p] \in {0, 2} ELSE status'[p] = status[p]
  BY <1>1, <1>2 DEF ProcInv, Shape, Procs, GoesOn, Ends
<1>4. ~Is(p, "server") /\ c # Nothing /\ repl[p] # "alive" /\ OwnsNothing(p)
  BY <1>1, ParsedModes, NoFilesYet
  DEF Is, Nothing, FilesInv, Cleaned, Clean, NoRepl, PastBind
<1>5. ProcTypeOK'
  <2>1. {DOMAIN config, DOMAIN pc, DOMAIN status, DOMAIN repl, DOMAIN aim}' = {Procs}
    BY <1>1, <1>3 DEF FilesInv, ProcTypeOK
  <2>2. ASSUME NEW q \in Procs
        PROVE  /\ pc'[q] \in Stages /\ repl'[q] \in {"none", "alive", "dead"}
               /\ status'[q] \in {Pending, 0, 1, 2, 101, 124, 134, ByKill}
               /\ (status'[q] = Pending) = (pc'[q] # "gone")
               /\ (config'[q] = Nothing) = (pc'[q] = "parse")
    BY <1>1, <1>3, <1>4, PendingIsNoCode DEF FilesInv, ProcTypeOK, Running, Stages
  <2> QED
    BY <1>1, <1>3, <2>1, <2>2 DEF FilesInv, ProcTypeOK, Running, Nothing, Socket, Pid
<1>6. ASSUME NEW q \in Procs, q # p
      PROVE  /\ Place(q)' = Place(q) /\ PidfilePath(q)' = PidfilePath(q)
             /\ HasPidfile(q)' <=> HasPidfile(q)
             /\ Is(q, "server")' <=> Is(q, "server")
  BY <1>3, <1>6
  DEF Place, SocketPath, DefaultSocket, PidfilePath, DefaultPidfile, HasPidfile, Is
<1>7. Owners'
  <2> SUFFICES ASSUME NEW x \in DOMAIN taken, NEW q \in Procs
               PROVE  /\ taken[x] = Socket(q) =>
                           Is(q, "server")' /\ x = Place(q)' /\ pc'[q] \in PastBind
                      /\ taken[x] = Pid(q) =>
                           /\ Is(q, "server")' /\ HasPidfile(q)' /\ x = PidfilePath(q)'
                           /\ pc'[q] \in PastPidfile
    BY <1>1, <1>3 DEF Owners, Socket, Pid
  <2>1. CASE q = p
    BY <1>4, <2>1 DEF OwnsNothing
  <2>2. CASE q # p
    BY <1>3, <1>6, <2>2 DEF FilesInv, Owners
  <2> QED
    BY <2>1, <2>2
<1>8. Cleaned'
  <2> SUFFICES ASSUME NEW q \in Procs PROVE Clean(q)'
    BY <1>3 DEF Cleaned
  <2>1. OwnsNothing(q)' <=> OwnsNothing(q)
    BY <1>1 DEF OwnsNothing, Socket, Pid
  <2>2. CASE q = p
    BY <1>1, <1>3, <1>4, <2>1, <2>2 DEF Clean
  <2>3. CASE q # p
    BY <1>1, <1>3, <2>1, <2>3 DEF FilesInv, Cleaned, Clean, Socket
  <2> QED
    BY <2>2, <2>3
<1>9. \A k \in Procs : pc'[k] \in LookedUp =>
        /\ k # p /\ pc[k] \in LookedUp /\ Target(k)' = Target(k)
        /\ Target(k) \in Procs /\ Target(k) # p
        /\ Is(Target(k), "server") /\ HasPidfile(Target(k))
        /\ aim[k].path = PidfilePath(Target(k))
  BY <1>1, <1>3, <1>4 DEF FilesInv, LookedUpPidfile, LookedUp, ProcInv, AimedAt, Target
<1>10. LookedUpPidfile'
  <2> SUFFICES ASSUME NEW k \in Procs, pc'[k] \in LookedUp
               PROVE  /\ Is(Target(k), "server")' /\ HasPidfile(Target(k))'
                      /\ aim'[k].path = PidfilePath(Target(k))'
    BY <1>3 DEF LookedUpPidfile
  <2> QED
    BY <1>1, <1>3, <1>9 DEF Is, HasPidfile, PidfilePath, DefaultPidfile, Target
<1>11. ASSUME NEW q \in Procs, q # p, Is(q, "server"), ~Contested(q)'
       PROVE  ~Contested(q)
  <2> SUFFICES ASSUME NEW r \in Procs, r # q, Is(r, "server"),
                      Place(q) \in IF ToldWhere(q) THEN Uses(r) ELSE Told(r)
               PROVE  Contested(q)'
    BY <1>11 DEF Contested
  <2>1. r # p
    BY <1>4
  <2>2. /\ Is(r, "server")' /\ Uses(r)' = Uses(r) /\ Told(r)' = Told(r)
        /\ Place(q)' = Place(q) /\ (ToldWhere(q)' <=> ToldWhere(q))
    BY <1>3, <1>6, <1>11, <2>1 DEF Uses, Told, ToldWhere, ToldPidfile, HasPidfile
  <2> QED
    BY <1>3, <2>2 DEF Contested
<1>12. Bound'
  <2> SUFFICES ASSUME NEW q \in Procs, Is(q, "server")'
               PROVE  /\ pc'[q] \in Listening /\ (config'[q].bind.unix => ~Contested(q)')
                           => Holds(Place(q), Socket(q))'
                      /\ config'[q].bind.unix /\ ~Contested(q)' => Alone(q)'
    BY <1>3 DEF Bound
  <2>1. CASE q = p
    <3>1. pc'[q] \notin Listening
      BY <1>3, <2>1 DEF Listening
    <3>2. ASSUME config'[q].bind.unix, ~Contested(q)'
          PROVE  Alone(q)'
      <4>1. ASSUME NEW r \in Procs, r # q, Is(r, "server")
            PROVE  Place(r) # Place(q)' /\ (HasPidfile(r) => PidfilePath(r) # Place(q)')
        <5>1. r \in Procs' /\ q \in Procs' /\ Is(r, "server")'
          BY <1>3, <1>6, <2>1, <4>1
        <5>2. Place(r)' # Place(q)' /\ (HasPidfile(r)' => PidfilePath(r)' # Place(q)')
          BY <3>2, <4>1, <5>1, ApartThen
        <5> QED
          BY <1>6, <2>1, <4>1, <5>2
      <4>2. ASSUME NEW x \in DOMAIN taken PROVE x # Place(q)'
        <5>1. PICK r \in Procs : taken[x] \in {Socket(r), Pid(r)}
          BY DEF ProcInv, Shape
        <5>2. r # q
          BY <1>4, <2>1, <5>1 DEF OwnsNothing
        <5>3. CASE taken[x] = Socket(r)
          <6>1. Is(r, "server") /\ x = Place(r)
            BY <5>3 DEF FilesInv, Owners
          <6> QED
            BY <4>1, <5>2, <6>1
        <5>4. CASE taken[x] = Pid(r)
          <6>1. Is(r, "server") /\ HasPidfile(r) /\ x = PidfilePath(r)
            BY <5>4 DEF FilesInv, Owners
          <6> QED
            BY <4>1, <5>2, <6>1
        <5> QED
          BY <5>1, <5>3, <5>4
      <4>3. \A k \in Procs : pc'[k] \in LookedUp => aim[k].path # Place(q)'
        BY <1>9, <2>1, <4>1
      <4> QED
        BY <1>1, <1>3, <4>2, <4>3 DEF Alone
    <3> QED
      BY <3>1, <3>2
  <2>2. CASE q # p
    <3>1. Is(q, "server") /\ config'[q] = config[q] /\ pc'[q] = pc[q] /\ Place(q)' = Place(q)
      BY <1>3, <1>6, <2>2
    <3>2. ~Contested(q)' => ~Contested(q)
      BY <1>11, <2>2, <3>1
    <3>3. pc'[q] \in Listening /\ (config'[q].bind.unix => ~Contested(q)')
            => Holds(Place(q), Socket(q))'
      BY <1>1, <3>1, <3>2 DEF FilesInv, Bound, Holds, Exists, Socket
    <3>4. ASSUME config'[q].bind.unix, ~Contested(q)'
          PROVE  Alone(q)'
      <4>1. Alone(q)
        BY <3>1, <3>2, <3>4 DEF FilesInv, Bound
      <4> QED
        BY <1>1, <1>3, <1>9, <3>1, <4>1 DEF Alone, Socket
    <3> QED
      BY <3>3, <3>4
  <2> QED
    BY <2>1, <2>2
<1> QED
  BY <1>5, <1>7, <1>8, <1>10, <1>12 DEF FilesInv

-----------------------------------------------------------------------------
(* The theorems.                                                           *)

LEMMA InitFiles == ProcInit => FilesInv
<1> SUFFICES ASSUME ProcInit PROVE FilesInv
  OBVIOUS
<1>1. /\ DOMAIN config = Procs /\ DOMAIN pc = Procs /\ DOMAIN status = Procs
      /\ DOMAIN repl = Procs /\ DOMAIN aim = Procs /\ signalled = {} /\ strayed = {}
      /\ DOMAIN taken = {}
      /\ \A p \in Procs : /\ config[p] = Nothing /\ pc[p] = "parse"
                          /\ status[p] = Pending /\ repl[p] = "none"
  BY DEF ProcInit
<1>2. \A p \in Procs : ~Is(p, "server")
  BY <1>1 DEF Is, Nothing
<1>3. ProcTypeOK
  BY <1>1 DEF ProcTypeOK, Running, Stages
<1>4. Owners /\ Cleaned /\ LookedUpPidfile /\ Bound
  BY <1>1, <1>2 DEF Owners, Cleaned, Clean, LookedUpPidfile, LookedUp, Bound
<1> QED
  BY <1>3, <1>4 DEF FilesInv

\* Whose every file is, what has been cleaned up, and whose places are safe, in every
\* reachable state.
THEOREM FilesInvariant == ProcSpec => []FilesInv
<1>1. ProcInv /\ FilesInv /\ [ProcNext]_procVars => FilesInv'
  <2> SUFFICES ASSUME ProcInv, FilesInv, [ProcNext]_procVars PROVE FilesInv'
    OBVIOUS
  <2>1. CASE UNCHANGED procVars
    BY <2>1, FilesRest
  <2>2. ASSUME NEW p \in Procs,
               ParseArgs(p) \/ ClientRuns(p) \/ Server(p) \/ Kill(p) \/ Outside(p)
        PROVE  FilesInv'
    <3>1. CASE ParseArgs(p) \/ ClientRuns(p) \/ Outside(p)
      BY <3>1, ParsingFiles, ClientFiles, OutsideFiles
    <3>2. CASE Server(p)
      BY <3>2, StartingFiles, BindingFiles, EndingFiles DEF Server
    <3>3. CASE Kill(p)
      BY <3>3, LookingUpFiles, WaitingFiles, SendKillFiles, TidyFiles DEF Kill
    <3> QED
      BY <2>2, <3>1, <3>2, <3>3
  <2> QED
    BY <2>1, <2>2 DEF ProcNext
<1> QED
  BY InitFiles, ProcessInvariant, <1>1, PTL DEF ProcSpec

\* The variables of the processes hold values of their kinds; what has ended has an exit
\* code, and what has not has none.
THEOREM ProcessesTyped == ProcSpec => []ProcTypeOK
BY FilesInvariant, PTL DEF FilesInv

\* A server that ends by itself (server.rs cleanup) leaves no REPL and no file behind,
\* unless an error stopped it between the bind and the loop, whoever else shares its
\* paths, signals it, or removes its pidfile first.
THEOREM ServersCleanUp == ProcSpec => []LeftBehindOnlyByKillsAndLateErrors
<1>1. ProcTypeOK /\ Cleaned => LeftBehindOnlyByKillsAndLateErrors
  <2> SUFFICES ASSUME ProcTypeOK, Cleaned, NEW p \in Procs,
                      pc[p] = "gone", status[p] # ByKill, p \notin strayed
               PROVE  repl[p] # "alive" /\ \A x \in DOMAIN taken : taken[x].of # p
    BY DEF LeftBehindOnlyByKillsAndLateErrors
  <2>1. repl[p] # "alive" /\ OwnsNothing(p)
    BY DEF Cleaned, Clean
  <2>2. ASSUME NEW x \in DOMAIN taken, taken[x].of = p PROVE FALSE
    <3>1. PICK q \in Procs : taken[x] \in {Socket(q), Pid(q)}
      BY DEF ProcTypeOK
    <3> QED
      BY <2>1, <2>2, <3>1 DEF OwnsNothing, Socket, Pid
  <2> QED
    BY <2>1, <2>2
<1> QED
  BY FilesInvariant, <1>1, PTL DEF FilesInv

\* A server that serves has the address or the socket file it bound, as long as no other
\* server was told to put a file of its own there, whatever servers end, kill or clean up
\* at other places.
THEOREM ServersAreReachable == ProcSpec => []ReachableUnlessContested
<1>1. ProcInv /\ FilesInv => ReachableUnlessContested
  <2> SUFFICES ASSUME ProcInv, FilesInv, NEW p \in Procs, pc[p] = "serve",
                      config[p].bind.unix => ~Contested(p)
               PROVE  Holds(Place(p), Socket(p))
    BY DEF ReachableUnlessContested
  <2>1. Is(p, "server")
    BY StageOfMode DEF ServerStages
  <2> QED
    BY <2>1 DEF FilesInv, Bound, Listening
<1> QED
  BY FilesInvariant, ProcessInvariant, <1>1, PTL
-----------------------------------------------------------------------------
(* The tokenizer.                                                          *)

\* Each value is given by those after it.
Downward(f, V, a, L, F) ==
  f \in [a..L -> V] /\ \A i \in a..L : f[i] = F[<<i, [k \in (i + 1)..L |-> f[k]]>>]

\* A function whose every value is made from the later ones exists: what lets the recursive
\* functions of Cli be evaluated at all.
LEMMA DownwardExists ==
  ASSUME NEW V, NEW a \in Nat, NEW L \in Nat, NEW F,
         \A i \in a..L : \A g \in [(i + 1)..L -> V] : F[<<i, g>>] \in V
  PROVE  \E f : Downward(f, V, a, L, F)
<1> DEFINE D(m) == {k \in a..L : k + m > L}
           Part(f, m) == /\ f \in [D(m) -> V]
                         /\ \A i \in D(m) : f[i] = F[<<i, [k \in (i + 1)..L |-> f[k]]>>]
           P == {m \in Nat : \E f : Part(f, m)}
<1>1. 0 \in P
  <2>1. D(0) = {}
    OBVIOUS
  <2> DEFINE f == [i \in D(0) |-> i]
  <2>2. Part(f, 0)
    BY <2>1
  <2>3. QED
    BY <2>2
<1>2. ASSUME NEW m \in Nat, m \in P PROVE m + 1 \in P
  <2>1. PICK f : Part(f, m)
    BY <1>2
  <2> DEFINE new(i) == F[<<i, [k \in (i + 1)..L |-> f[k]]>>]
             g == [i \in D(m + 1) |-> IF i \in D(m) THEN f[i] ELSE new(i)]
  <2>2. \A i \in D(m + 1) : \A k \in (i + 1)..L : k \in D(m) /\ k \in D(m + 1)
    OBVIOUS
  <2>3. D(m) \subseteq D(m + 1) /\ D(m + 1) \subseteq a..L
    OBVIOUS
  <2>4. f \in [D(m) -> V] /\ \A i \in D(m) : f[i] = new(i)
    BY <2>1
  <2> HIDE DEF D
  <2>5. ASSUME NEW i \in D(m + 1) PROVE new(i) \in V
    <3> DEFINE h == [k \in (i + 1)..L |-> f[k]]
    <3>1. h \in [(i + 1)..L -> V]
      BY <2>2, <2>4
    <3>2. i \in a..L
      BY <2>3
    <3> HIDE DEF h
    <3>3. F[<<i, h>>] \in V
      BY <3>1, <3>2
    <3>4. QED
      BY <3>3 DEF h
  <2> HIDE DEF new
  <2>6. g \in [D(m + 1) -> V] /\ \A i \in D(m + 1) : g[i] = new(i)
    BY <2>3, <2>4, <2>5
  <2>7. \A k \in D(m) : g[k] = f[k]
    BY <2>3
  <2> HIDE DEF g
  <2>8. ASSUME NEW i \in D(m + 1)
        PROVE  g[i] = F[<<i, [k \in (i + 1)..L |-> g[k]]>>]
    <3>1. [k \in (i + 1)..L |-> g[k]] = [k \in (i + 1)..L |-> f[k]]
      BY <2>2, <2>7
    <3>2. g[i] = F[<<i, [k \in (i + 1)..L |-> f[k]]>>]
      BY <2>6 DEF new
    <3>3. QED
      BY <3>1, <3>2
  <2>9. Part(g, m + 1)
    BY <2>6, <2>8
  <2>10. QED
    BY <2>9
<1>3. L + 1 \in P
  <2> HIDE DEF P
  <2>1. Nat \subseteq P
    BY <1>1, <1>2, SetInduction
  <2>2. QED
    BY <2>1
<1>4. PICK f : Part(f, L + 1)
  BY <1>3
<1>5. D(L + 1) = a..L
  OBVIOUS
<1>6. QED
  BY <1>4, <1>5 DEF Downward

\* What holds of a place when it holds of all later ones holds everywhere.
LEMMA DownwardInduction ==
  ASSUME NEW a \in Nat, NEW L \in Nat, NEW S,
         \A i \in a..L : (\A k \in (i + 1)..L : k \in S) => i \in S
  PROVE  a..L \subseteq S
<1> DEFINE P == {m \in Nat : \A k \in a..L : k + m > L => k \in S}
<1>1. 0 \in P
  OBVIOUS
<1>2. ASSUME NEW m \in Nat, m \in P PROVE m + 1 \in P
  <2> SUFFICES ASSUME NEW i \in a..L, i + (m + 1) > L PROVE i \in S
    OBVIOUS
  <2>1. \A k \in (i + 1)..L : k \in a..L /\ k + m > L
    OBVIOUS
  <2>2. \A k \in (i + 1)..L : k \in S
    BY <1>2, <2>1
  <2>3. QED
    BY <2>2
<1> HIDE DEF P
<1>3. Nat \subseteq P
  BY <1>1, <1>2, SetInduction
<1>4. L + 1 \in P
  BY <1>3
<1>5. QED
  BY <1>4 DEF P
-----------------------------------------------------------------------------
(* Tokens.                                                                 *)

Words        == Seq(Seq(STRING))
SettingNames == Options \cup {"wrong"}
Setting      == [opt : SettingNames, val : Words]
Rejected(s) == \E k \in 1..Len(s) : s[k].opt = "wrong"

\* What an argument comes to: the next one is a later one, unless it is rejected.
IsToken(t, i, L) ==
  /\ t \in [set : Seq(Setting), next : Nat]
  /\ t.next \in {0} \cup (i + 1)..(L + 1)
  /\ t.next = 0 => Rejected(t.set)

\* No option is of two kinds, and none is called like an error.
LEMMA OptionsDiffer ==
  /\ "exec" \notin Flags \cup ValueOptional \cup ValueRequired
  /\ "wrong" \notin Flags \cup ValueOptional \cup ValueRequired
  /\ ValueOptional \cap ValueRequired = {}
BY DEF Flags, ValueOptional, ValueRequired, Numeric, EndMarkerOptions, Readiness, Warmup

\* Take, with its CASE as a chain.
LEMMA TakeIs ==
  ASSUME NEW o, NEW attached, NEW line, NEW i
  PROVE  LET value == IF attached = <<>> /\ i < Len(line) THEN <<line[i + 1]>> ELSE attached
             next  == IF attached = <<>> THEN i + 2 ELSE i + 1
         IN Take(o, attached, line, i) =
              IF o = "exec"
              THEN Sets(o, attached \o SubSeq(line, i + 1, Len(line)), Len(line) + 1)
              ELSE IF o \in ValueOptional THEN Sets(o, attached, i + 1)
              ELSE IF o \in ValueRequired
                      /\ ~(value = <<>> \/ (o \in Numeric /\ value[1] \notin Numerals))
              THEN Sets(o, value, next)
              ELSE Wrong
BY OptionsDiffer DEF Take

LEMMA OneWord ==
  ASSUME NEW S, NEW x \in S
  PROVE  <<x>> \in Seq(S) /\ Len(<<x>>) = 1 /\ <<x>>[1] = x /\ <<x>> # <<>>
OBVIOUS

\* One setting, and a later argument to go on with, make a token.
LEMMA SetsIs ==
  ASSUME NEW o \in SettingNames, NEW v \in Words, NEW n \in Nat
  PROVE  /\ Sets(o, v, n) \in [set : Seq(Setting), next : Nat]
         /\ Sets(o, v, n).set = <<[opt |-> o, val |-> v]>> /\ Sets(o, v, n).next = n
<1>1. [opt |-> o, val |-> v] \in Setting
  BY DEF Setting
<1>2. <<[opt |-> o, val |-> v]>> \in Seq(Setting)
  BY <1>1, OneWord
<1> QED
  BY <1>2 DEF Sets

LEMMA WrongIs == \A i, L : IsToken(Wrong, i, L)
<1>1. "wrong" \in SettingNames /\ <<>> \in Words /\ 0 \in Nat
  <2>1. <<>> \in Seq(Seq(STRING))
    BY EmptySeq
  <2>2. <<>> \in Words
    BY <2>1 DEF Words
  <2>3. "wrong" \in SettingNames
    BY DEF SettingNames
  <2> QED
    BY <2>2, <2>3
<1>2. Wrong = Sets("wrong", <<>>, 0)
  BY DEF Wrong, Sets
<1>3. Wrong \in [set : Seq(Setting), next : Nat]
      /\ Wrong.set = <<[opt |-> "wrong", val |-> <<>>]>> /\ Wrong.next = 0
  BY <1>1, <1>2, SetsIs
<1>4. Rejected(<<[opt |-> "wrong", val |-> <<>>]>>)
  BY DEF Rejected
<1> QED
  BY <1>3, <1>4 DEF IsToken

\* The arguments from a place on are a command line.
LEMMA RestOfWords ==
  ASSUME NEW line \in Words, NEW i \in 1..Len(line)
  PROVE  SubSeq(line, i + 1, Len(line)) \in Words
<1>1. Len(line) \in Nat /\ i \in Nat
  BY LenProperties DEF Words
<1>2. \A k \in (i + 1)..Len(line) : line[k] \in Seq(STRING)
  BY <1>1, ElementOfSeq DEF Words
<1> QED
  BY <1>1, <1>2, SubSeqProperties DEF Words

\* An option with what it takes makes a token.
LEMMA TakeIsToken ==
  ASSUME NEW o, NEW attached \in Words, NEW line \in Words, NEW i \in 1..Len(line)
  PROVE  IsToken(Take(o, attached, line, i), i, Len(line))
<1> DEFINE value == IF attached = <<>> /\ i < Len(line) THEN <<line[i + 1]>> ELSE attached
           next  == IF attached = <<>> THEN i + 2 ELSE i + 1
           t == Take(o, attached, line, i)
           L == Len(line)
           rest == attached \o SubSeq(line, i + 1, L)
<1>1. L \in Nat /\ i \in Nat /\ i <= L
  BY LenProperties DEF Words
<1>2. t = IF o = "exec" THEN Sets(o, rest, L + 1)
          ELSE IF o \in ValueOptional THEN Sets(o, attached, i + 1)
          ELSE IF o \in ValueRequired
                      /\ ~(value = <<>> \/ (o \in Numeric /\ value[1] \notin Numerals))
          THEN Sets(o, value, next)
          ELSE Wrong
  BY TakeIs
<1>3. rest \in Words
  BY RestOfWords, ConcatProperties DEF Words
<1>4. value \in Words
  <2>1. i < L => line[i + 1] \in Seq(STRING)
    BY <1>1, ElementOfSeq DEF Words
  <2> QED
    BY <2>1, OneWord DEF Words
<1>5. value # <<>> => next \in (i + 1)..(L + 1)
  BY <1>1
<1> HIDE DEF t, rest, value, next, L
<1>6. ASSUME o \in SettingNames, NEW v \in Words, NEW n \in (i + 1)..(L + 1)
      PROVE  IsToken(Sets(o, v, n), i, L)
  <2>1. n \in Nat /\ n # 0
    BY <1>1
  <2>2. Sets(o, v, n) \in [set : Seq(Setting), next : Nat] /\ Sets(o, v, n).next = n
    BY <1>6, <2>1, SetsIs
  <2> QED
    BY <2>1, <2>2 DEF IsToken
<1>7. L + 1 \in (i + 1)..(L + 1) /\ i + 1 \in (i + 1)..(L + 1)
  BY <1>1
<1>8. {"exec"} \cup ValueOptional \cup ValueRequired \subseteq SettingNames
  BY DEF SettingNames, Options
<1>9. CASE o = "exec"
  BY <1>2, <1>3, <1>6, <1>7, <1>8, <1>9 DEF L, t
<1>10. CASE o # "exec"
  BY <1>2, <1>4, <1>5, <1>6, <1>7, <1>8, <1>10, WrongIs DEF L, t
<1> QED
  BY <1>9, <1>10

\* One symbol of a cluster of short options, with what the rest comes to.
Cluster(line, i, f, j) ==
  LET t == line[i] IN
  IF j > Len(t) THEN [set |-> <<>>, next |-> i + 1]
  ELSE IF t[j] \notin DOMAIN ShortOf THEN Wrong
  ELSE IF ShortOf[t[j]] \in Flags
  THEN [f[j + 1] EXCEPT !.set = <<[opt |-> ShortOf[t[j]], val |-> <<>>]>> \o @]
  ELSE Take(ShortOf[t[j]], IF j = Len(t) THEN <<>> ELSE <<SubSeq(t, j + 1, Len(t))>>, line, i)

TokensAt(i, L) == {t \in [set : Seq(Setting), next : Nat] : IsToken(t, i, L)}

LEMMA TokensAtAre == \A t, i, L : IsToken(t, i, L) <=> t \in TokensAt(i, L)
BY DEF TokensAt, IsToken

\* What is attached to a short option is nothing or the rest of the argument.
LEMMA AttachedIs ==
  ASSUME NEW t \in Seq(STRING), NEW j \in 1..Len(t)
  PROVE  (IF j = Len(t) THEN <<>> ELSE <<SubSeq(t, j + 1, Len(t))>>) \in Words
<1>1. <<>> \in Words
  <2>1. <<>> \in Seq(Seq(STRING))
    BY EmptySeq
  <2> QED
    BY <2>1 DEF Words
<1>2. Len(t) \in Nat /\ j \in Nat
  BY LenProperties
<1>3. \A k \in (j + 1)..Len(t) : t[k] \in STRING
  BY <1>2, ElementOfSeq
<1>4. SubSeq(t, j + 1, Len(t)) \in Seq(STRING)
  BY <1>2, <1>3, SubSeqProperties
<1>5. <<SubSeq(t, j + 1, Len(t))>> \in Words
  BY <1>4, OneWord DEF Words
<1> QED
  BY <1>1, <1>5

\* A flag before a token makes a token of it.
LEMMA FlagBefore ==
  ASSUME NEW o \in Flags, NEW i, NEW L, NEW t \in TokensAt(i, L)
  PROVE  LET u == [t EXCEPT !.set = <<[opt |-> o, val |-> <<>>]>> \o @]
         IN /\ u \in TokensAt(i, L) /\ u.next = t.next
            /\ u.set = <<[opt |-> o, val |-> <<>>]>> \o t.set
            /\ Len(u.set) = Len(t.set) + 1
            /\ u.set[1] = [opt |-> o, val |-> <<>>]
            /\ \A k \in 1..Len(t.set) : u.set[k + 1] = t.set[k]
<1> DEFINE u == [t EXCEPT !.set = <<[opt |-> o, val |-> <<>>]>> \o @]
           s == t.set
           new == [opt |-> o, val |-> <<>>]
           p == <<new>>
           q == p \o s
<1>1. /\ s \in Seq(Setting) /\ Len(s) \in Nat
      /\ t.next \in Nat /\ t \in [set : Seq(Setting), next : Nat]
      /\ t.next \in {0} \cup (i + 1)..(L + 1) /\ (t.next = 0 => Rejected(s))
  BY LenProperties DEF TokensAt, IsToken
<1>2. new \in Setting
  <2>1. <<>> \in Seq(Seq(STRING))
    BY EmptySeq
  <2>2. o \in SettingNames
    BY DEF SettingNames, Options
  <2> QED
    BY <2>1, <2>2 DEF Words, Setting
<1> HIDE DEF new
<1>3. p \in Seq(Setting) /\ Len(p) = 1 /\ p[1] = new
  BY <1>2, OneWord
<1> HIDE DEF p
<1>4. q \in Seq(Setting) /\ Len(q) = 1 + Len(s)
      /\ \A k \in 1..(1 + Len(s)) : q[k] = IF k <= 1 THEN p[k] ELSE s[k - 1]
  <2>1. /\ q \in Seq(Setting) /\ Len(q) = Len(p) + Len(s)
        /\ \A k \in 1..(Len(p) + Len(s)) : q[k] = IF k <= Len(p) THEN p[k] ELSE s[k - Len(p)]
    BY <1>1, <1>3, ConcatProperties
  <2> QED
    BY <1>3, <2>1
<1>5. u.set = q /\ u.next = t.next /\ u \in [set : Seq(Setting), next : Nat]
  BY <1>1, <1>4 DEF p, new
<1> HIDE DEF q, u, s
<1>6. /\ Len(q) = Len(s) + 1 /\ q[1] = new
      /\ \A k \in 1..Len(s) : q[k + 1] = s[k] /\ k + 1 \in 1..Len(q)
  BY <1>1, <1>3, <1>4
<1>7. Rejected(s) => Rejected(q)
  BY <1>6 DEF Rejected
<1>8. u \in TokensAt(i, L)
  BY <1>1, <1>5, <1>7 DEF TokensAt, IsToken
<1>9. /\ u \in TokensAt(i, L) /\ u.next = t.next
      /\ u.set = p \o s
      /\ Len(u.set) = Len(s) + 1
      /\ u.set[1] = new
      /\ \A k \in 1..Len(s) : u.set[k + 1] = s[k]
  BY <1>5, <1>6, <1>8 DEF q
<1> QED
  BY <1>9 DEF u, s, p, new

\* A symbol of a cluster makes a token if the symbols after it do.
LEMMA ClusterToken ==
  ASSUME NEW line \in Words, NEW i \in 1..Len(line), NEW f,
         NEW j \in 2..(Len(line[i]) + 1),
         j <= Len(line[i]) => f[j + 1] \in TokensAt(i, Len(line))
  PROVE  Cluster(line, i, f, j) \in TokensAt(i, Len(line))
<1> DEFINE t == line[i]
           L == Len(line)
           o == ShortOf[t[j]]
           w == IF j = Len(t) THEN <<>> ELSE <<SubSeq(t, j + 1, Len(t))>>
           c == Cluster(line, i, f, j)
           none == [set |-> <<>>, next |-> i + 1]
           more == [f[j + 1] EXCEPT !.set = <<[opt |-> o, val |-> <<>>]>> \o @]
           take == Take(o, w, line, i)
<1>1. t \in Seq(STRING) /\ Len(t) \in Nat /\ L \in Nat /\ i \in 1..L /\ j \in Nat
  BY ElementOfSeq, LenProperties DEF Words
<1>2. c = IF j > Len(t) THEN none ELSE IF t[j] \notin DOMAIN ShortOf THEN Wrong
          ELSE IF o \in Flags THEN more ELSE take
  BY DEF Cluster
<1>3. none \in TokensAt(i, L)
  <2>1. <<>> \in Seq(Setting)
    BY EmptySeq
  <2>2. none \in [set : Seq(Setting), next : Nat] /\ none.next = i + 1
    BY <1>1, <2>1
  <2>3. i + 1 \in (i + 1)..(L + 1) /\ i + 1 # 0
    BY <1>1
  <2> HIDE DEF none
  <2>4. IsToken(none, i, L)
    BY <2>2, <2>3 DEF IsToken
  <2> QED
    BY <2>4, TokensAtAre
<1>4. Wrong \in TokensAt(i, L)
  BY WrongIs, TokensAtAre
<1>5. j <= Len(t) /\ o \in Flags => more \in TokensAt(i, L)
  <2> SUFFICES ASSUME j <= Len(t), o \in Flags PROVE more \in TokensAt(i, L)
    OBVIOUS
  <2>1. f[j + 1] \in TokensAt(i, L)
    OBVIOUS
  <2> HIDE DEF o
  <2> QED
    BY <2>1, FlagBefore
<1>6. j <= Len(t) => take \in TokensAt(i, L)
  <2> SUFFICES ASSUME j <= Len(t) PROVE take \in TokensAt(i, L)
    OBVIOUS
  <2>0. j \in 1..Len(t)
    BY <1>1
  <2>1. w \in Words
    BY <1>1, <2>0, AttachedIs
  <2> HIDE DEF w, o
  <2>2. IsToken(take, i, L)
    BY <2>1, TakeIsToken
  <2> QED
    BY <2>2, TokensAtAre
<1> HIDE DEF c, none, more, take, o
<1>7. c \in TokensAt(i, L)
  BY <1>1, <1>2, <1>3, <1>4, <1>5, <1>6
<1> QED
  BY <1>7 DEF c

Clusters(line, i, g) == g = [j \in 2..(Len(line[i]) + 1) |-> Cluster(line, i, g, j)]

\* handle_short goes through an argument from its second symbol.
LEMMA ShortIs ==
  ASSUME NEW line \in Words, NEW i \in 1..Len(line), Len(line[i]) > 1
  PROVE  \E g : /\ g \in [2..(Len(line[i]) + 1) -> TokensAt(i, Len(line))]
                /\ \A j \in 2..(Len(line[i]) + 1) : g[j] = Cluster(line, i, g, j)
                /\ Short(line, i) = g[2]
<1> DEFINE t == line[i]
           V == TokensAt(i, Len(line))
           Z == Len(t) + 1
           D == UNION {{j} \X [(j + 1)..Z -> V] : j \in 2..Z}
           F == [x \in D |-> Cluster(line, i, x[2], x[1])]
           chosen == CHOOSE g : Clusters(line, i, g)
<1>1. t \in Seq(STRING) /\ Len(t) \in Nat /\ Z \in Nat /\ 2 \in 2..Z
  BY ElementOfSeq, LenProperties DEF Words
<1>2. \A j \in 2..Z : \A g \in [(j + 1)..Z -> V] :
         F[<<j, g>>] = Cluster(line, i, g, j) /\ F[<<j, g>>] \in V
  <2> SUFFICES ASSUME NEW j \in 2..Z, NEW g \in [(j + 1)..Z -> V]
               PROVE  F[<<j, g>>] = Cluster(line, i, g, j) /\ F[<<j, g>>] \in V
    OBVIOUS
  <2>1. <<j, g>> \in D
    OBVIOUS
  <2>2. F[<<j, g>>] = Cluster(line, i, g, j)
    BY <2>1
  <2>3. j <= Len(t) => g[j + 1] \in V
    BY <1>1
  <2>4. Cluster(line, i, g, j) \in V
    BY <2>3, ClusterToken
  <2> QED
    BY <2>2, <2>4
<1>3. \E f : Downward(f, V, 2, Z, F)
  <2> HIDE DEF F, V, Z
  <2> QED
    BY <1>1, <1>2, DownwardExists
<1>4. \E f : Clusters(line, i, f)
  <2>1. PICK f : Downward(f, V, 2, Z, F)
    BY <1>3
  <2>2. f \in [2..Z -> V] /\ \A j \in 2..Z : f[j] = F[<<j, [k \in (j + 1)..Z |-> f[k]]>>]
    BY <2>1 DEF Downward
  <2>3. ASSUME NEW j \in 2..Z PROVE f[j] = Cluster(line, i, f, j)
    <3> DEFINE g == [k \in (j + 1)..Z |-> f[k]]
    <3>1. g \in [(j + 1)..Z -> V]
      BY <1>1, <2>2
    <3>2. f[j] = F[<<j, g>>]
      BY <2>2
    <3>3. f[j] = Cluster(line, i, g, j)
      BY ONLY <1>2, <2>3, <3>1, <3>2
    <3>4. ~(j > Len(t)) => g[j + 1] = f[j + 1]
      BY <1>1
    <3> HIDE DEF g
    <3>5. Cluster(line, i, g, j) = Cluster(line, i, f, j)
      <4>1. CASE j > Len(t)
        BY <4>1 DEF Cluster
      <4>2. CASE ~(j > Len(t))
        <5>1. g[j + 1] = f[j + 1]
          BY <3>4, <4>2
        <5> QED
          BY ONLY <5>1 DEF Cluster
      <4> QED
        BY <4>1, <4>2
    <3> QED
      BY <3>3, <3>5
  <2>4. f = [j \in 2..Z |-> f[j]]
    BY <2>2
  <2>5. f = [j \in 2..Z |-> Cluster(line, i, f, j)]
    BY <2>3, <2>4
  <2> QED
    BY <2>5 DEF Clusters
<1>5. Clusters(line, i, chosen)
  BY <1>4
<1>6. Short(line, i) = chosen[2]
  BY DEF Short, Clusters, Cluster
<1> HIDE DEF chosen
<1>7. DOMAIN chosen = 2..Z /\ \A j \in 2..Z : chosen[j] = Cluster(line, i, chosen, j)
  BY <1>5 DEF Clusters
<1>8. 2..Z \subseteq {j \in 2..Z : chosen[j] \in V}
  <2> DEFINE S == {j \in 2..Z : chosen[j] \in V}
  <2>1. ASSUME NEW j \in 2..Z, \A k \in (j + 1)..Z : k \in S PROVE j \in S
    <3>1. j <= Len(t) => j + 1 \in S
      BY <1>1, <2>1
    <3>2. j <= Len(t) => chosen[j + 1] \in V
      BY <3>1
    <3>3. Cluster(line, i, chosen, j) \in V
      BY <3>2, ClusterToken
    <3> QED
      BY <1>7, <3>3
  <2> HIDE DEF S, Z
  <2>2. 2..Z \subseteq S
    BY <1>1, <2>1, DownwardInduction
  <2> QED
    BY <2>2 DEF S
<1>9. chosen \in [2..Z -> V]
  <2>1. chosen = [j \in 2..Z |-> chosen[j]]
    BY <1>5 DEF Clusters
  <2> QED
    BY <1>8, <2>1
<1> QED
  BY <1>6, <1>7, <1>9

\* What handle_long makes of an argument t depends on its name and what is attached.
LongForm(b, o, w, line, i) ==
  IF b THEN Wrong
  ELSE IF o \in Flags THEN IF w = <<>> THEN Sets(o, <<>>, i + 1) ELSE Wrong
  ELSE Take(o, w, line, i)

\* handle_long tells arguments apart by their text alone.
LEMMA LongIs ==
  ASSUME NEW t \in Seq(STRING)
  PROVE  \E b, o, w :
           /\ w \in Words
           /\ \A line, i : line[i] = t => Long(line, i) = LongForm(b, o, w, line, i)
<1> DEFINE body     == SubSeq(t, 3, Len(t))
           eqs      == {n \in DOMAIN body : body[n] = "="}
           eq       == CHOOSE n \in eqs : \A m \in eqs : n <= m
           name     == IF eqs = {} THEN body ELSE SubSeq(body, 1, eq - 1)
           attached == IF eqs = {} THEN <<>> ELSE <<SubSeq(body, eq + 1, Len(body))>>
<1>1. body \in Seq(STRING) /\ Len(body) \in Nat
  <2>1. Len(t) \in Nat /\ \A k \in 3..Len(t) : t[k] \in STRING
    BY ElementOfSeq, LenProperties
  <2> QED
    BY <2>1, SubSeqProperties, LenProperties
<1>2. <<>> \in Words
  <2>1. <<>> \in Seq(Seq(STRING))
    BY EmptySeq
  <2> QED
    BY <2>1 DEF Words
<1>3. eqs # {} => <<SubSeq(body, eq + 1, Len(body))>> \in Words
  <2> SUFFICES ASSUME eqs # {} PROVE <<SubSeq(body, eq + 1, Len(body))>> \in Words
    OBVIOUS
  <2>1. eqs \subseteq Nat
    BY <1>1, LenProperties
  <2>2. \E n \in eqs : \A m \in eqs : n <= m
    <3> HIDE DEF eqs
    <3> QED
      BY <2>1, LeastOf
  <2>3. eq \in Nat
    BY <2>1, <2>2
  <2> HIDE DEF body, eq
  <2>4. \A k \in (eq + 1)..Len(body) : body[k] \in STRING
    BY <1>1, <2>3, ElementOfSeq
  <2>5. SubSeq(body, eq + 1, Len(body)) \in Seq(STRING)
    BY <1>1, <2>3, <2>4, SubSeqProperties
  <2> QED
    BY <2>5, OneWord DEF Words
<1>4. attached \in Words
  <2> HIDE DEF eqs, body, eq
  <2> QED
    BY <1>2, <1>3
<1>5. ASSUME NEW line, NEW i, line[i] = t
      PROVE  Long(line, i) = LongForm(Len(name) # 1, name[1], attached, line, i)
  BY <1>5 DEF Long, LongForm
<1> DEFINE bad == Len(name) # 1
           first == name[1]
<1>6. \A line, i : line[i] = t => Long(line, i) = LongForm(bad, first, attached, line, i)
  BY <1>5
<1> HIDE DEF attached, bad, first
<1> QED
  BY <1>4, <1>6

TokenForm(line, i) ==
  LET t == line[i] IN
  IF t = <<"-", "-">> THEN Take("exec", <<>>, line, i)
  ELSE IF Len(t) > 2 /\ SubSeq(t, 1, 2) = <<"-", "-">> THEN Long(line, i)
  ELSE IF Len(t) > 1 /\ t[1] = "-" /\ t[2] # "-" THEN Short(line, i)
  ELSE Wrong

\* Token, with its CASE as a chain.
LEMMA TokenIs ==
  ASSUME NEW line \in Words, NEW i \in 1..Len(line)
  PROVE  Token(line, i) = TokenForm(line, i)
<1> DEFINE t == line[i]
           A == t = <<"-", "-">>
           B == Len(t) > 2 /\ SubSeq(t, 1, 2) = <<"-", "-">>
           C == Len(t) > 1 /\ t[1] = "-" /\ t[2] # "-"
           a == Take("exec", <<>>, line, i)
           b == Long(line, i)
           c == Short(line, i)
<1>1. t \in Seq(STRING) /\ Len(t) \in Nat
  BY ElementOfSeq, LenProperties DEF Words
<1>2. A => Len(t) = 2 /\ t[2] = "-"
  OBVIOUS
<1>3. B => t[2] = "-"
  <2> SUFFICES ASSUME B PROVE t[2] = "-"
    OBVIOUS
  <2>1. \A k \in 1..2 : t[k] \in STRING
    BY <1>1, ElementOfSeq
  <2>2. \A k \in 1..(2 - 1 + 1) : SubSeq(t, 1, 2)[k] = t[1 + k - 1]
    BY <2>1, SubSeqProperties
  <2>3. SubSeq(t, 1, 2)[2] = t[2]
    BY <2>2
  <2>4. <<"-", "-">>[2] = "-"
    OBVIOUS
  <2> QED
    BY <2>3, <2>4
<1>4. ~(A /\ B) /\ ~(A /\ C) /\ ~(B /\ C)
  <2>1. B => Len(t) # 2
    <3>1. B => Len(t) > 2
      OBVIOUS
    <3>2. \A n \in Nat : n > 2 => n # 2
      OBVIOUS
    <3>3. Len(t) > 2 => Len(t) # 2
      BY ONLY <1>1, <3>2
    <3> HIDE DEF B
    <3> QED
      BY <3>1, <3>3
  <2>2. C => t[2] # "-"
    OBVIOUS
  <2> HIDE DEF A, B, C
  <2> QED
    BY <1>2, <1>3, <2>1, <2>2
<1>5. Token(line, i) = CASE A -> a [] B -> b [] C -> c [] OTHER -> Wrong
  BY DEF Token
<1>6. TokenForm(line, i) = IF A THEN a ELSE IF B THEN b ELSE IF C THEN c ELSE Wrong
  BY DEF TokenForm
<1> HIDE DEF A, B, C, a, b, c
<1> QED
  BY <1>4, <1>5, <1>6

\* Every argument makes a token.
LEMMA TokenIsToken ==
  ASSUME NEW line \in Words, NEW i \in 1..Len(line)
  PROVE  Token(line, i) \in TokensAt(i, Len(line))
<1> DEFINE t == line[i]
           V == TokensAt(i, Len(line))
<1>1. t \in Seq(STRING) /\ Len(t) \in Nat /\ Len(line) \in Nat /\ i \in Nat /\ i <= Len(line)
  BY ElementOfSeq, LenProperties DEF Words
<1>2. <<>> \in Words
  <2>1. <<>> \in Seq(Seq(STRING))
    BY EmptySeq
  <2> QED
    BY <2>1 DEF Words
<1>3. \A o : \A w \in Words : Take(o, w, line, i) \in V
  BY TakeIsToken, TokensAtAre
<1>4. Wrong \in V
  BY WrongIs, TokensAtAre
<1>5. Long(line, i) \in V
  <2>1. PICK b, o, w :
          w \in Words /\ \A x, k : x[k] = t => Long(x, k) = LongForm(b, o, w, x, k)
    BY <1>1, LongIs
  <2>2. Long(line, i) = LongForm(b, o, w, line, i)
    BY <2>1
  <2>3. o \in Flags => Sets(o, <<>>, i + 1) \in V
    <3> SUFFICES ASSUME o \in Flags PROVE Sets(o, <<>>, i + 1) \in V
      OBVIOUS
    <3>1. o \in SettingNames
      BY DEF SettingNames, Options
    <3> DEFINE s == Sets(o, <<>>, i + 1)
    <3>2. i + 1 \in Nat /\ i + 1 \in (i + 1)..(Len(line) + 1) /\ i + 1 # 0
      BY <1>1
    <3>3. s \in [set : Seq(Setting), next : Nat] /\ s.next = i + 1
      BY <1>2, <3>1, <3>2, SetsIs
    <3> HIDE DEF s
    <3>4. s \in V
      BY <3>2, <3>3 DEF TokensAt, IsToken
    <3> QED
      BY <3>4 DEF s
  <2> HIDE DEF V
  <2> QED
    BY <1>3, <1>4, <2>1, <2>2, <2>3 DEF LongForm
<1>6. Len(t) > 1 => Short(line, i) \in V
  <2> SUFFICES ASSUME Len(t) > 1 PROVE Short(line, i) \in V
    OBVIOUS
  <2>1. 2 \in 2..(Len(t) + 1)
    BY <1>1
  <2>2. PICK g : g \in [2..(Len(t) + 1) -> V] /\ Short(line, i) = g[2]
    BY ShortIs
  <2> QED
    BY <2>1, <2>2
<1> HIDE DEF V
<1>7. Token(line, i) \in V
  BY <1>2, <1>3, <1>4, <1>5, <1>6, TokenIs DEF TokenForm
<1> QED
  BY <1>7 DEF V
-----------------------------------------------------------------------------
(* A command line and its beginning.                                       *)

\* Settings before the command and without an error, and those that end with it; in
\* the second sequence the command has more arguments.
Plain(s) == \A k \in 1..Len(s) : s[k].opt # "exec" /\ s[k].opt # "wrong"
Longer(s, u, more) ==
  /\ s \in Seq(Setting) /\ u \in Seq(Setting) /\ Len(u) = Len(s) /\ Len(s) # 0
  /\ \A k \in 1..Len(s) : k # Len(s) => u[k] = s[k] /\ s[k].opt # "exec" /\ s[k].opt # "wrong"
  /\ s[Len(s)].opt = "exec" /\ u[Len(s)].opt = "exec"
  /\ u[Len(s)].val = s[Len(s)].val \o more

\* What an argument comes to in a command line and in one that goes on.
Alike(x, y, h, more) ==
  \/ x.next = 0
  \/ x = y /\ Plain(x.set)
  \/ /\ x.next = Len(h) + 1 /\ y.next = Len(h) + Len(more) + 1
     /\ Longer(x.set, y.set, more)

\* The arguments up to a place are the same, and those after it go on.
Continued(h, more, a, i) ==
  /\ a \in Words /\ Len(a) = Len(h) + Len(more) /\ i \in 1..Len(a) /\ a[i] = h[i]
  /\ i < Len(h) => i < Len(a) /\ a[i + 1] = h[i + 1]
  /\ SubSeq(a, i + 1, Len(a)) = SubSeq(h, i + 1, Len(h)) \o more

\* A command line goes on after its beginning.
LEMMA ContinuedIs ==
  ASSUME NEW h \in Words, NEW more \in Words, NEW i \in 1..Len(h), NEW a, a = h \o more
  PROVE  Continued(h, more, a, i)
<1> DEFINE S == Seq(STRING)
           n == Len(h)
           m == Len(more)
           rest == SubSeq(h, i + 1, n)
           p == SubSeq(a, i + 1, Len(a))
           q == rest \o more
<1>1. n \in Nat /\ m \in Nat /\ h \in Seq(S) /\ more \in Seq(S) /\ i \in 1..n
  BY LenProperties DEF Words
<1>2. a \in Seq(S) /\ Len(a) = n + m
      /\ \A k \in 1..(n + m) : a[k] = IF k <= n THEN h[k] ELSE more[k - n]
  BY <1>1, ConcatProperties
<1>3. /\ rest \in Seq(S) /\ Len(rest) = n - i
      /\ \A k \in 1..(n - i) : rest[k] = h[i + k]
  <2>1. \A k \in (i + 1)..n : h[k] \in S
    BY <1>1, ElementOfSeq
  <2>2. i + 1 \in Int /\ n \in Int
    BY <1>1
  <2>3. /\ rest \in Seq(S) /\ Len(rest) = (IF i + 1 <= n THEN n - (i + 1) + 1 ELSE 0)
        /\ \A k \in 1..(n - (i + 1) + 1) : rest[k] = h[(i + 1) + k - 1]
    BY <2>1, <2>2, SubSeqProperties
  <2> HIDE DEF rest, n
  <2>4. (IF i + 1 <= n THEN n - (i + 1) + 1 ELSE 0) = n - i /\ n - (i + 1) + 1 = n - i
    BY <1>1
  <2>5. \A k \in 1..(n - i) : (i + 1) + k - 1 = i + k
    BY <1>1
  <2> QED
    BY <2>3, <2>4, <2>5
<1>4. /\ p \in Seq(S) /\ Len(p) = n + m - i
      /\ \A k \in 1..(n + m - i) : p[k] = a[i + k]
  <2> DEFINE l == n + m
  <2>0. l \in Nat /\ i <= l /\ i \in Nat
    BY <1>1
  <2>1. \A k \in (i + 1)..l : a[k] \in S
    BY <1>1, <1>2, ElementOfSeq
  <2>2. i + 1 \in Int /\ l \in Int
    BY <1>1
  <2>6. p = SubSeq(a, i + 1, l)
    BY <1>2
  <2> HIDE DEF l, p
  <2>3. /\ p \in Seq(S) /\ Len(p) = (IF i + 1 <= l THEN l - (i + 1) + 1 ELSE 0)
        /\ \A k \in 1..(l - (i + 1) + 1) : p[k] = a[(i + 1) + k - 1]
    <3> DEFINE x == SubSeq(a, i + 1, l)
    <3>1. /\ x \in Seq(S) /\ Len(x) = (IF i + 1 <= l THEN l - (i + 1) + 1 ELSE 0)
          /\ \A k \in 1..(l - (i + 1) + 1) : x[k] = a[(i + 1) + k - 1]
      BY ONLY <2>1, <2>2, SubSeqProperties
    <3> QED
      BY <2>6, <3>1
  <2>4. (IF i + 1 <= l THEN l - (i + 1) + 1 ELSE 0) = l - i /\ l - (i + 1) + 1 = l - i
    BY <2>0
  <2>5. \A k \in 1..(l - i) : (i + 1) + k - 1 = i + k
    BY <2>0
  <2>7. p \in Seq(S) /\ Len(p) = l - i /\ \A k \in 1..(l - i) : p[k] = a[i + k]
    BY <2>3, <2>4, <2>5
  <2> QED
    BY <2>7 DEF l
<1>5. /\ q \in Seq(S) /\ Len(q) = (n - i) + m
      /\ \A k \in 1..((n - i) + m) : q[k] = IF k <= n - i THEN rest[k] ELSE more[k - (n - i)]
  <2>1. /\ q \in Seq(S) /\ Len(q) = Len(rest) + m
        /\ \A k \in 1..(Len(rest) + m) :
             q[k] = IF k <= Len(rest) THEN rest[k] ELSE more[k - Len(rest)]
    BY <1>1, <1>3, ConcatProperties
  <2> HIDE DEF q, rest
  <2> QED
    BY <1>3, <2>1
<1> HIDE DEF p, q, rest, n, m
<1>6. p = q
  <2>1. (n - i) + m = n + m - i /\ n + m - i \in Nat
    BY <1>1
  <2>2. ASSUME NEW k \in 1..(n + m - i) PROVE p[k] = q[k]
    <3>1. i + k \in 1..(n + m) /\ k \in 1..((n - i) + m)
          /\ (k <= n - i <=> i + k <= n) /\ (k <= n - i => k \in 1..(n - i))
          /\ (i + k) - n = k - (n - i)
      BY <1>1
    <3> QED
      BY <1>2, <1>3, <1>4, <1>5, <3>1
  <2> QED
    BY <1>4, <1>5, <2>1, <2>2, SeqEqual
<1>7. i \in 1..(n + m) /\ i <= n
      /\ (i < n => i < n + m /\ i + 1 \in 1..(n + m) /\ i + 1 <= n)
  BY <1>1
<1>8. a[i] = h[i] /\ (i < n => i < n + m /\ a[i + 1] = h[i + 1])
  BY <1>2, <1>7
<1>9. a \in Words /\ Len(a) = n + m /\ i \in 1..Len(a) /\ (i < n => i < Len(a))
  BY <1>2, <1>7 DEF Words
<1>10. SubSeq(a, i + 1, Len(a)) = SubSeq(h, i + 1, Len(h)) \o more
  BY <1>6 DEF p, q, rest, n
<1>11. a \in Words /\ Len(a) = Len(h) + Len(more) /\ i \in 1..Len(a)
  BY <1>9 DEF n, m
<1>12. i < Len(h) => i < Len(a) /\ a[i + 1] = h[i + 1]
  BY <1>8, <1>9 DEF n, m
<1> QED
  BY <1>8, <1>10, <1>11, <1>12 DEF Continued

\* The command alone, with its arguments and with more.
LEMMA LongerOne ==
  ASSUME NEW v \in Words, NEW more \in Words
  PROVE  Longer(<<[opt |-> "exec", val |-> v]>>, <<[opt |-> "exec", val |-> v \o more]>>, more)
<1> DEFINE x == [opt |-> "exec", val |-> v]
           y == [opt |-> "exec", val |-> v \o more]
           s == <<x>>
           u == <<y>>
<1>1. v \o more \in Words
  BY ConcatProperties DEF Words
<1>2. "exec" \in SettingNames
  BY DEF SettingNames, Options
<1>3. /\ x \in Setting /\ y \in Setting
      /\ x.opt = "exec" /\ y.opt = "exec" /\ y.val = x.val \o more
  BY <1>1, <1>2 DEF Setting
<1> HIDE DEF x, y
<1>4. /\ s \in Seq(Setting) /\ Len(s) = 1 /\ s[1] = x
      /\ u \in Seq(Setting) /\ Len(u) = 1 /\ u[1] = y
  BY <1>3, OneWord
<1> HIDE DEF s, u
<1>5. Longer(s, u, more)
  BY <1>3, <1>4 DEF Longer
<1> QED
  BY <1>5 DEF s, u, x, y

\* A setting of another option is plain.
LEMMA PlainOne ==
  ASSUME NEW o, NEW v, o # "exec", o # "wrong"
  PROVE  Plain(<<[opt |-> o, val |-> v]>>)
BY DEF Plain

\* Plain settings one after the other are plain.
LEMMA PlainAfter ==
  ASSUME NEW p \in Seq(Setting), NEW s \in Seq(Setting), Plain(p), Plain(s)
  PROVE  Plain(p \o s)
<1>1. /\ Len(p) \in Nat /\ Len(s) \in Nat /\ Len(p \o s) = Len(p) + Len(s)
      /\ \A k \in 1..(Len(p) + Len(s)) :
           (p \o s)[k] = IF k <= Len(p) THEN p[k] ELSE s[k - Len(p)]
  BY ConcatProperties, LenProperties
<1> DEFINE q == p \o s
           n == Len(p)
           m == Len(s)
<1>2. \A k \in 1..n : p[k].opt # "exec" /\ p[k].opt # "wrong"
  BY DEF Plain
<1>3. \A k \in 1..m : s[k].opt # "exec" /\ s[k].opt # "wrong"
  BY DEF Plain
<1> HIDE DEF q, n, m
<1>4. ASSUME NEW k \in 1..(n + m) PROVE q[k].opt # "exec" /\ q[k].opt # "wrong"
  <2>1. n \in Nat /\ m \in Nat /\ q[k] = IF k <= n THEN p[k] ELSE s[k - n]
    BY <1>1 DEF q, n, m
  <2>2. (k <= n => k \in 1..n) /\ (~(k <= n) => k - n \in 1..m)
    BY <2>1
  <2> QED
    BY <1>2, <1>3, <2>1, <2>2
<1> QED
  BY <1>1, <1>4 DEF Plain, q, n, m

\* Plain settings in front of both change nothing.
LEMMA LongerAfter ==
  ASSUME NEW p \in Seq(Setting), NEW s, NEW u, NEW more, Plain(p), Longer(s, u, more)
  PROVE  Longer(p \o s, p \o u, more)
<1> DEFINE q == p \o s
           r == p \o u
           n == Len(p)
           m == Len(s)
<1>1. /\ s \in Seq(Setting) /\ u \in Seq(Setting)
      /\ Len(u) = m /\ m # 0 /\ n \in Nat /\ m \in Nat
      /\ \A k \in 1..m : k # m => u[k] = s[k] /\ s[k].opt # "exec" /\ s[k].opt # "wrong"
      /\ s[m].opt = "exec" /\ u[m].opt = "exec" /\ u[m].val = s[m].val \o more
  BY LenProperties DEF Longer
<1>2. /\ q \in Seq(Setting) /\ Len(q) = n + m
      /\ \A k \in 1..(n + m) : q[k] = IF k <= n THEN p[k] ELSE s[k - n]
  BY <1>1, ConcatProperties
<1>3. /\ r \in Seq(Setting) /\ Len(r) = n + m
      /\ \A k \in 1..(n + m) : r[k] = IF k <= n THEN p[k] ELSE u[k - n]
  <2>1. /\ r \in Seq(Setting) /\ Len(r) = Len(p) + Len(u)
        /\ \A k \in 1..(Len(p) + Len(u)) : r[k] = IF k <= Len(p) THEN p[k] ELSE u[k - Len(p)]
    <3>1. u \in Seq(Setting)
      BY <1>1
    <3> QED
      BY <3>1, ConcatProperties
  <2> HIDE DEF r
  <2> QED
    BY <1>1, <2>1
<1>4. \A k \in 1..n : p[k].opt # "exec" /\ p[k].opt # "wrong"
  BY DEF Plain
<1> HIDE DEF q, r, n, m
<1>5. ASSUME NEW k \in 1..(n + m), k # n + m
      PROVE  r[k] = q[k] /\ q[k].opt # "exec" /\ q[k].opt # "wrong"
  <2>1. (k <= n => k \in 1..n) /\ (~(k <= n) => k - n \in 1..m /\ k - n # m)
    BY <1>1, <1>5
  <2> QED
    BY <1>1, <1>2, <1>3, <1>4, <2>1
<1>6. n + m \in 1..(n + m) /\ ~(n + m <= n) /\ (n + m) - n = m /\ n + m # 0
  BY <1>1
<1>7. q[n + m] = s[m] /\ r[n + m] = u[m]
  BY <1>2, <1>3, <1>6
<1>8. Longer(q, r, more)
  BY <1>1, <1>2, <1>3, <1>5, <1>6, <1>7 DEF Longer
<1> QED
  BY <1>8 DEF q, r

\* An option takes the same in both command lines, or it is the command and takes the rest.
LEMMA TakeAlike ==
  ASSUME NEW h \in Words, NEW more \in Words, NEW i \in 1..Len(h), NEW a, a = h \o more,
         NEW o, NEW w \in Words
  PROVE  Alike(Take(o, w, h, i), Take(o, w, a, i), h, more)
<1> DEFINE n == Len(h)
           x == Take(o, w, h, i)
           y == Take(o, w, a, i)
           rest == SubSeq(h, i + 1, n)
           longer == SubSeq(a, i + 1, Len(a))
           value == IF w = <<>> /\ i < n THEN <<h[i + 1]>> ELSE w
           value2 == IF w = <<>> /\ i < Len(a) THEN <<a[i + 1]>> ELSE w
           next  == IF w = <<>> THEN i + 2 ELSE i + 1
           Ok(v) == ~(v = <<>> \/ (o \in Numeric /\ v[1] \notin Numerals))
<1>1. /\ a \in Words /\ Len(a) = n + Len(more) /\ i \in 1..Len(a) /\ a[i] = h[i]
      /\ i < n => i < Len(a) /\ a[i + 1] = h[i + 1]
      /\ longer = rest \o more
  <2>1. /\ a \in Words /\ Len(a) = Len(h) + Len(more) /\ i \in 1..Len(a) /\ a[i] = h[i]
        /\ i < Len(h) => i < Len(a) /\ a[i + 1] = h[i + 1]
        /\ SubSeq(a, i + 1, Len(a)) = SubSeq(h, i + 1, Len(h)) \o more
    <3>1. Continued(h, more, a, i)
      BY ContinuedIs
    <3> QED
      BY ONLY <3>1 DEF Continued
  <2> QED
    BY <2>1
<1>2. x = IF o = "exec" THEN Sets(o, w \o rest, n + 1)
          ELSE IF o \in ValueOptional THEN Sets(o, w, i + 1)
          ELSE IF o \in ValueRequired /\ Ok(value) THEN Sets(o, value, next)
          ELSE Wrong
  BY TakeIs
<1>3. y = IF o = "exec" THEN Sets(o, w \o longer, Len(a) + 1)
          ELSE IF o \in ValueOptional THEN Sets(o, w, i + 1)
          ELSE IF o \in ValueRequired /\ Ok(value2) THEN Sets(o, value2, next)
          ELSE Wrong
  BY TakeIs
<1>4. Wrong.next = 0
  BY DEF Wrong
<1>5. CASE o = "exec"
  <2>1. rest \in Words
    BY RestOfWords
  <2>2. w \o rest \in Words
    BY <2>1, ConcatProperties DEF Words
  <2>3. w \o longer = (w \o rest) \o more
    <3>1. w \in Words /\ rest \in Words /\ more \in Words /\ longer = rest \o more
      BY <1>1, <2>1
    <3>2. \A r, s, t \in Words : (r \o s) \o t = r \o (s \o t)
      <4> DEFINE W == Seq(STRING)
      <4>1. \A r, s, t \in Seq(W) : (r \o s) \o t = r \o (s \o t)
        <5> HIDE DEF W
        <5> QED
          BY ONLY ConcatAssociative, SMTT(20)
      <4> QED
        BY ONLY <4>1 DEF Words, W
    <3> HIDE DEF rest, longer
    <3>3. (w \o rest) \o more = w \o (rest \o more)
      BY ONLY <3>1, <3>2
    <3> QED
      BY ONLY <3>1, <3>3
  <2>4. /\ x = Sets("exec", w \o rest, n + 1)
        /\ y = Sets("exec", (w \o rest) \o more, n + Len(more) + 1)
    BY <1>1, <1>2, <1>3, <1>5, <2>3
  <2>5. Longer(<<[opt |-> "exec", val |-> w \o rest]>>,
               <<[opt |-> "exec", val |-> (w \o rest) \o more]>>, more)
    BY <2>2, LongerOne
  <2>6. /\ x.next = n + 1 /\ y.next = n + Len(more) + 1
        /\ x.set = <<[opt |-> "exec", val |-> w \o rest]>>
        /\ y.set = <<[opt |-> "exec", val |-> (w \o rest) \o more]>>
    <3> DEFINE v == w \o rest
               k == n + 1
               l == n + Len(more) + 1
               z == v \o more
    <3>1. x = Sets("exec", v, k) /\ y = Sets("exec", z, l)
      BY <2>4
    <3> HIDE DEF x, y, v, k, l, z
    <3>2. x.next = k /\ y.next = l /\ x.set = <<[opt |-> "exec", val |-> v]>>
          /\ y.set = <<[opt |-> "exec", val |-> z]>>
      BY ONLY <3>1 DEF Sets
    <3> QED
      BY ONLY <3>2 DEF v, k, l, z
  <2> HIDE DEF x, y, rest
  <2>7. Longer(x.set, y.set, more)
    BY <2>5, <2>6
  <2>8. Alike(x, y, h, more)
    BY <2>6, <2>7 DEF Alike
  <2> QED
    BY <2>8 DEF x, y
<1>6. CASE o # "exec"
  <2>1. o \in ValueOptional \cup ValueRequired => o # "wrong"
    BY OptionsDiffer
  <2>2. ASSUME NEW v, NEW k, o \in ValueOptional \cup ValueRequired, x = y, x = Sets(o, v, k)
        PROVE  Alike(x, y, h, more)
    <3>1. x.set = <<[opt |-> o, val |-> v]>>
      BY <2>2 DEF Sets
    <3>2. Plain(x.set)
      BY <1>6, <2>1, <2>2, <3>1, PlainOne
    <3> QED
      BY <2>2, <3>2 DEF Alike
  <2>3. CASE o \in ValueOptional
    BY <1>2, <1>3, <1>6, <2>2, <2>3
  <2>4. CASE o \notin ValueOptional /\ o \in ValueRequired /\ Ok(value)
    <3>1. value # <<>>
      BY <2>4
    <3>2. value2 = value
      <4>1. CASE w # <<>>
        BY <4>1
      <4>2. CASE w = <<>>
        <5>1. i < n
          BY <3>1, <4>2
        <5> QED
          BY <1>1, <4>2, <5>1
      <4> QED
        BY <4>1, <4>2
    <3> HIDE DEF value, value2, x, y, Ok, next
    <3>3. x = Sets(o, value, next) /\ y = Sets(o, value, next)
      BY <1>2, <1>3, <1>6, <2>4, <3>2
    <3>4. Alike(x, y, h, more)
      BY <2>2, <2>4, <3>3
    <3> QED
      BY <3>4 DEF x, y
  <2>5. CASE o \notin ValueOptional /\ ~(o \in ValueRequired /\ Ok(value))
    <3>1. x = Wrong
      BY <1>2, <1>6, <2>5
    <3> QED
      BY <1>4, <3>1 DEF Alike
  <2> QED
    BY <2>3, <2>4, <2>5
<1> QED
  BY <1>5, <1>6

\* So does an argument that begins with two dashes,
LEMMA LongAlike ==
  ASSUME NEW h \in Words, NEW more \in Words, NEW i \in 1..Len(h), NEW a, a = h \o more
  PROVE  Alike(Long(h, i), Long(a, i), h, more)
<1>1. h[i] \in Seq(STRING) /\ a[i] = h[i]
  <2>1. Continued(h, more, a, i)
    BY ContinuedIs
  <2> QED
    BY <2>1, ElementOfSeq DEF Continued, Words
<1>2. PICK b, o, w : /\ w \in Words
                     /\ \A line, k : line[k] = h[i] => Long(line, k) = LongForm(b, o, w, line, k)
  BY <1>1, LongIs
<1>3. Long(h, i) = LongForm(b, o, w, h, i) /\ Long(a, i) = LongForm(b, o, w, a, i)
  BY <1>1, <1>2
<1>4. Wrong.next = 0
  BY DEF Wrong
<1>5. Alike(Take(o, w, h, i), Take(o, w, a, i), h, more)
  BY <1>2, TakeAlike
<1>6. Alike(Wrong, Wrong, h, more)
  BY <1>4 DEF Alike
<1>7. o \in Flags => Alike(Sets(o, <<>>, i + 1), Sets(o, <<>>, i + 1), h, more)
  <2> SUFFICES ASSUME o \in Flags
               PROVE  Alike(Sets(o, <<>>, i + 1), Sets(o, <<>>, i + 1), h, more)
    OBVIOUS
  <2>1. o # "exec" /\ o # "wrong"
    BY OptionsDiffer
  <2>2. Sets(o, <<>>, i + 1).set = <<[opt |-> o, val |-> <<>>]>>
    BY DEF Sets
  <2>3. Plain(Sets(o, <<>>, i + 1).set)
    BY <2>1, <2>2, PlainOne
  <2> QED
    BY <2>3 DEF Alike
<1> QED
  BY <1>3, <1>5, <1>6, <1>7 DEF LongForm

\* a flag before an option for which it holds,
LEMMA FlagsAlike ==
  ASSUME NEW h, NEW more, NEW i, NEW o \in Flags, NEW L, NEW M,
         NEW x \in TokensAt(i, L), NEW y \in TokensAt(i, M), Alike(x, y, h, more)
  PROVE  Alike([x EXCEPT !.set = <<[opt |-> o, val |-> <<>>]>> \o @],
               [y EXCEPT !.set = <<[opt |-> o, val |-> <<>>]>> \o @], h, more)
<1> DEFINE p == <<[opt |-> o, val |-> <<>>]>>
           u == [x EXCEPT !.set = p \o @]
           v == [y EXCEPT !.set = p \o @]
<1>1. u.next = x.next /\ u.set = p \o x.set /\ v.next = y.next /\ v.set = p \o y.set
  BY FlagBefore
<1>2. o # "exec" /\ o # "wrong"
  BY OptionsDiffer
<1>3. Plain(p)
  BY <1>2, PlainOne
<1>4. p \in Seq(Setting)
  <2>1. <<>> \in Seq(Seq(STRING))
    BY EmptySeq
  <2>2. o \in SettingNames
    BY DEF SettingNames, Options
  <2>3. [opt |-> o, val |-> <<>>] \in Setting
    BY <2>1, <2>2 DEF Words, Setting
  <2> QED
    BY <2>3, OneWord
<1>5. x.set \in Seq(Setting) /\ y.set \in Seq(Setting)
  BY DEF TokensAt
<1>6. x = y => u = v
  OBVIOUS
<1> HIDE DEF u, v, p
<1>7. CASE x.next = 0
  BY <1>1, <1>7 DEF Alike, u, v, p
<1>8. CASE x = y /\ Plain(x.set)
  <2>1. Plain(u.set)
    BY <1>1, <1>3, <1>4, <1>5, <1>8, PlainAfter
  <2>2. Alike(u, v, h, more)
    BY <1>6, <1>8, <2>1 DEF Alike
  <2> QED
    BY <2>2 DEF u, v, p
<1>9. CASE /\ x.next = Len(h) + 1 /\ y.next = Len(h) + Len(more) + 1
           /\ Longer(x.set, y.set, more)
  <2>1. Longer(u.set, v.set, more)
    <3>1. Longer(p \o x.set, p \o y.set, more)
      BY <1>3, <1>4, <1>9, LongerAfter
    <3> QED
      BY <1>1, <3>1
  <2>2. Alike(u, v, h, more)
    BY <1>1, <1>9, <2>1 DEF Alike
  <2> QED
    BY <2>2 DEF u, v, p
<1> QED
  BY <1>7, <1>8, <1>9 DEF Alike

\* a cluster of short options,
LEMMA ShortAlike ==
  ASSUME NEW h \in Words, NEW more \in Words, NEW i \in 1..Len(h), NEW a, a = h \o more,
         Len(h[i]) > 1
  PROVE  Alike(Short(h, i), Short(a, i), h, more)
<1> DEFINE t == h[i]
           Z == Len(t) + 1
<1>1. a \in Words /\ i \in 1..Len(a) /\ a[i] = t
  <2>1. Continued(h, more, a, i)
    BY ContinuedIs
  <2> QED
    BY <2>1 DEF Continued
<1>2. t \in Seq(STRING) /\ Len(t) \in Nat /\ Z \in Nat /\ 2 \in 2..Z
  BY ElementOfSeq, LenProperties DEF Words
<1>3. PICK g : /\ g \in [2..Z -> TokensAt(i, Len(h))]
               /\ \A j \in 2..Z : g[j] = Cluster(h, i, g, j)
               /\ Short(h, i) = g[2]
  BY ShortIs
<1>4. PICK f : /\ f \in [2..Z -> TokensAt(i, Len(a))]
               /\ \A j \in 2..Z : f[j] = Cluster(a, i, f, j)
               /\ Short(a, i) = f[2]
  <2>1. Len(a[i]) > 1 /\ Len(a[i]) + 1 = Z
    BY <1>1
  <2>2. \E f : /\ f \in [2..(Len(a[i]) + 1) -> TokensAt(i, Len(a))]
               /\ \A j \in 2..(Len(a[i]) + 1) : f[j] = Cluster(a, i, f, j)
               /\ Short(a, i) = f[2]
    BY <1>1, <2>1, ShortIs
  <2> HIDE DEF Z
  <2> QED
    BY <2>1, <2>2
<1> DEFINE S == {j \in 2..Z : Alike(g[j], f[j], h, more)}
<1>5. ASSUME NEW j \in 2..Z, \A k \in (j + 1)..Z : k \in S
      PROVE  j \in S
  <2> DEFINE o == ShortOf[t[j]]
             w == IF j = Len(t) THEN <<>> ELSE <<SubSeq(t, j + 1, Len(t))>>
             none == [set |-> <<>>, next |-> i + 1]
             x == [g[j + 1] EXCEPT !.set = <<[opt |-> o, val |-> <<>>]>> \o @]
             y == [f[j + 1] EXCEPT !.set = <<[opt |-> o, val |-> <<>>]>> \o @]
  <2>1. g[j] = IF j > Len(t) THEN none ELSE IF t[j] \notin DOMAIN ShortOf THEN Wrong
               ELSE IF o \in Flags THEN x ELSE Take(o, w, h, i)
    BY <1>3 DEF Cluster
  <2>2. f[j] = IF j > Len(t) THEN none ELSE IF t[j] \notin DOMAIN ShortOf THEN Wrong
               ELSE IF o \in Flags THEN y ELSE Take(o, w, a, i)
    BY <1>1, <1>4 DEF Cluster
  <2>3. Alike(none, none, h, more)
    BY DEF Alike, Plain
  <2>4. Alike(Wrong, Wrong, h, more)
    BY DEF Wrong, Alike
  <2>5. ~(j > Len(t)) => Alike(Take(o, w, h, i), Take(o, w, a, i), h, more)
    <3> SUFFICES ASSUME ~(j > Len(t))
                 PROVE  Alike(Take(o, w, h, i), Take(o, w, a, i), h, more)
      OBVIOUS
    <3>1. j \in 1..Len(t)
      BY <1>2
    <3>2. w \in Words
      BY <1>2, <3>1, AttachedIs
    <3> HIDE DEF w, o
    <3> QED
      BY <3>2, TakeAlike
  <2>6. ~(j > Len(t)) /\ o \in Flags => Alike(x, y, h, more)
    <3> SUFFICES ASSUME ~(j > Len(t)), o \in Flags PROVE Alike(x, y, h, more)
      OBVIOUS
    <3>1. j + 1 \in 2..Z /\ j + 1 \in (j + 1)..Z
      BY <1>2
    <3>2. Alike(g[j + 1], f[j + 1], h, more)
      BY <1>5, <3>1
    <3>3. g[j + 1] \in TokensAt(i, Len(h)) /\ f[j + 1] \in TokensAt(i, Len(a))
      BY <1>3, <1>4, <3>1
    <3> HIDE DEF o
    <3> QED
      BY <3>2, <3>3, FlagsAlike
  <2> HIDE DEF none, x, y, o, w
  <2>7. Alike(g[j], f[j], h, more)
    BY <2>1, <2>2, <2>3, <2>4, <2>5, <2>6
  <2> QED
    BY <2>7
<1>6. 2..Z \subseteq S
  <2>1. 2 \in Nat /\ Z \in Nat
    BY <1>2
  <2>2. \A j \in 2..Z : (\A k \in (j + 1)..Z : k \in S) => j \in S
    BY <1>5
  <2> HIDE DEF S, Z
  <2> QED
    BY ONLY <2>1, <2>2, DownwardInduction
<1> QED
  BY <1>2, <1>3, <1>4, <1>6

\* and any argument.
LEMMA TokenAlike ==
  ASSUME NEW h \in Words, NEW more \in Words, NEW i \in 1..Len(h), NEW a, a = h \o more
  PROVE  Alike(Token(h, i), Token(a, i), h, more)
<1>1. a \in Words /\ i \in 1..Len(a) /\ a[i] = h[i]
  <2>1. Continued(h, more, a, i)
    BY ContinuedIs
  <2> QED
    BY <2>1 DEF Continued
<1>2. Token(h, i) = TokenForm(h, i) /\ Token(a, i) = TokenForm(a, i)
  BY <1>1, TokenIs
<1>3. <<>> \in Words
  <2>1. <<>> \in Seq(Seq(STRING))
    BY EmptySeq
  <2> QED
    BY <2>1 DEF Words
<1>4. Alike(Take("exec", <<>>, h, i), Take("exec", <<>>, a, i), h, more)
  BY <1>3, TakeAlike
<1>5. Alike(Long(h, i), Long(a, i), h, more)
  BY LongAlike
<1>6. Len(h[i]) > 1 => Alike(Short(h, i), Short(a, i), h, more)
  BY ShortAlike
<1>7. Alike(Wrong, Wrong, h, more)
  BY DEF Wrong, Alike
<1> DEFINE t == h[i]
           A == t = <<"-", "-">>
           B == Len(t) > 2 /\ SubSeq(t, 1, 2) = <<"-", "-">>
           C == Len(t) > 1 /\ t[1] = "-" /\ t[2] # "-"
<1>8. TokenForm(h, i) = IF A THEN Take("exec", <<>>, h, i) ELSE IF B THEN Long(h, i)
                        ELSE IF C THEN Short(h, i) ELSE Wrong
  BY DEF TokenForm
<1>9. TokenForm(a, i) = IF A THEN Take("exec", <<>>, a, i) ELSE IF B THEN Long(a, i)
                        ELSE IF C THEN Short(a, i) ELSE Wrong
  BY <1>1 DEF TokenForm
<1>10. C => Len(h[i]) > 1
  OBVIOUS
<1> HIDE DEF A, B, C
<1> QED
  BY <1>2, <1>4, <1>5, <1>6, <1>7, <1>8, <1>9, <1>10
-----------------------------------------------------------------------------
(* Whole command lines.                                                    *)

\* What the arguments from i on set.
Onward(line, f, i) ==
  IF i > Len(line) THEN <<>>
  ELSE Token(line, i).set \o (IF Token(line, i).next = 0 THEN <<>> ELSE f[Token(line, i).next])
Onwards(line, f) == f = [i \in 1..(Len(line) + 1) |-> Onward(line, f, i)]

\* The argument that is next is a later one, or there was an error.
LEMMA TokenNext ==
  ASSUME NEW line \in Words, NEW i \in 1..Len(line)
  PROVE  /\ Token(line, i).set \in Seq(Setting)
         /\ Token(line, i).next \in {0} \cup (i + 1)..(Len(line) + 1)
         /\ Token(line, i).next = 0 => Rejected(Token(line, i).set)
BY TokenIsToken DEF TokensAt, IsToken

\* What the arguments from a place on set are settings.
LEMMA OnwardIs ==
  ASSUME NEW line \in Words, NEW i \in 1..(Len(line) + 1), NEW f,
         \A k \in (i + 1)..(Len(line) + 1) : f[k] \in Seq(Setting)
  PROVE  Onward(line, f, i) \in Seq(Setting)
<1>1. Len(line) \in Nat /\ i \in Nat
  BY LenProperties DEF Words
<1>2. <<>> \in Seq(Setting)
  BY EmptySeq
<1>3. CASE i > Len(line)
  BY <1>2, <1>3 DEF Onward
<1>4. CASE ~(i > Len(line))
  <2> DEFINE t == Token(line, i)
             s == t.set
             r == IF t.next = 0 THEN <<>> ELSE f[t.next]
  <2>1. i \in 1..Len(line)
    BY <1>1, <1>4
  <2>2. s \in Seq(Setting) /\ t.next \in {0} \cup (i + 1)..(Len(line) + 1)
    BY <2>1, TokenNext
  <2>3. r \in Seq(Setting)
    BY <1>2, <2>2
  <2>4. Onward(line, f, i) = s \o r
    BY <1>4 DEF Onward
  <2> HIDE DEF s, r
  <2> QED
    BY <2>2, <2>3, <2>4, ConcatProperties
<1> QED
  BY <1>3, <1>4

\* The settings of a command line, argument by argument.
LEMMA SettingsIs ==
  ASSUME NEW line \in Words
  PROVE  \E g : /\ g \in [1..(Len(line) + 1) -> Seq(Setting)]
                /\ \A i \in 1..(Len(line) + 1) : g[i] = Onward(line, g, i)
                /\ Settings(line) = g[1]
<1> DEFINE V == Seq(Setting)
           Z == Len(line) + 1
           D == UNION {{i} \X [(i + 1)..Z -> V] : i \in 1..Z}
           F == [x \in D |-> Onward(line, x[2], x[1])]
           chosen == CHOOSE g : Onwards(line, g)
<1>1. Len(line) \in Nat /\ Z \in Nat /\ 1 \in 1..Z
  BY LenProperties DEF Words
<1>2. \A i \in 1..Z : \A g \in [(i + 1)..Z -> V] :
         F[<<i, g>>] = Onward(line, g, i) /\ F[<<i, g>>] \in V
  <2> SUFFICES ASSUME NEW i \in 1..Z, NEW g \in [(i + 1)..Z -> V]
               PROVE  F[<<i, g>>] = Onward(line, g, i) /\ F[<<i, g>>] \in V
    OBVIOUS
  <2>1. <<i, g>> \in D
    OBVIOUS
  <2>2. F[<<i, g>>] = Onward(line, g, i)
    BY <2>1
  <2>3. Onward(line, g, i) \in V
    BY OnwardIs
  <2> QED
    BY <2>2, <2>3
<1>3. \E f : Downward(f, V, 1, Z, F)
  <2> HIDE DEF F, V, Z
  <2> QED
    BY <1>1, <1>2, DownwardExists
<1>4. \E f : Onwards(line, f)
  <2>1. PICK f : Downward(f, V, 1, Z, F)
    BY <1>3
  <2>2. f \in [1..Z -> V] /\ \A i \in 1..Z : f[i] = F[<<i, [k \in (i + 1)..Z |-> f[k]]>>]
    BY <2>1 DEF Downward
  <2>3. ASSUME NEW i \in 1..Z PROVE f[i] = Onward(line, f, i)
    <3> DEFINE g == [k \in (i + 1)..Z |-> f[k]]
               e == Token(line, i).next
    <3>1. g \in [(i + 1)..Z -> V]
      BY <1>1, <2>2
    <3>2. f[i] = F[<<i, g>>]
      BY <2>2
    <3>3. f[i] = Onward(line, g, i)
      BY ONLY <1>2, <2>3, <3>1, <3>2
    <3>4. ~(i > Len(line)) /\ e # 0 => g[e] = f[e]
      <4> SUFFICES ASSUME ~(i > Len(line)), e # 0 PROVE g[e] = f[e]
        OBVIOUS
      <4>1. i \in 1..Len(line)
        BY <1>1
      <4>2. e \in (i + 1)..Z
        BY <4>1, TokenNext
      <4> HIDE DEF e
      <4> QED
        BY <4>2
    <3> HIDE DEF g
    <3>5. Onward(line, g, i) = Onward(line, f, i)
      <4>1. CASE i > Len(line)
        BY <4>1 DEF Onward
      <4>2. CASE ~(i > Len(line)) /\ e = 0
        BY <4>2 DEF Onward
      <4>3. CASE ~(i > Len(line)) /\ e # 0
        <5>1. g[e] = f[e]
          BY <3>4, <4>3
        <5> QED
          BY ONLY <5>1 DEF Onward
      <4> QED
        BY <4>1, <4>2, <4>3
    <3> QED
      BY <3>3, <3>5
  <2>4. f = [i \in 1..Z |-> f[i]]
    BY <2>2
  <2>5. f = [i \in 1..Z |-> Onward(line, f, i)]
    BY <2>3, <2>4
  <2> QED
    BY <2>5 DEF Onwards
<1>5. Onwards(line, chosen)
  BY <1>4
<1>6. Settings(line) = chosen[1]
  BY DEF Settings, Onwards, Onward
<1> HIDE DEF chosen
<1>7. \A i \in 1..Z : chosen[i] = Onward(line, chosen, i)
  BY <1>5 DEF Onwards
<1>8. 1..Z \subseteq {i \in 1..Z : chosen[i] \in V}
  <2> DEFINE S == {i \in 1..Z : chosen[i] \in V}
  <2>1. ASSUME NEW i \in 1..Z, \A k \in (i + 1)..Z : k \in S PROVE i \in S
    <3>1. \A k \in (i + 1)..Z : chosen[k] \in V
      BY <2>1
    <3>2. Onward(line, chosen, i) \in V
      BY <3>1, OnwardIs
    <3> QED
      BY <1>7, <3>2
  <2> HIDE DEF S, Z
  <2>2. 1..Z \subseteq S
    BY <1>1, <2>1, DownwardInduction
  <2> QED
    BY <2>2 DEF S
<1>9. chosen \in [1..Z -> V]
  <2>1. chosen = [i \in 1..Z |-> chosen[i]]
    BY <1>5 DEF Onwards
  <2> QED
    BY <1>8, <2>1
<1> QED
  BY <1>6, <1>7, <1>9

Commands(s) == \E k \in 1..Len(s) : s[k].opt = "exec"

\* Errors are kept when settings are joined, and the command is in one of the parts.
LEMMA JoinedSettings ==
  ASSUME NEW p \in Seq(Setting), NEW s \in Seq(Setting)
  PROVE  /\ Rejected(p) \/ Rejected(s) => Rejected(p \o s)
         /\ Commands(p \o s) => Commands(p) \/ Commands(s)
<1> DEFINE q == p \o s
           n == Len(p)
           m == Len(s)
<1>1. /\ n \in Nat /\ m \in Nat /\ Len(q) = n + m
      /\ \A k \in 1..(n + m) : q[k] = IF k <= n THEN p[k] ELSE s[k - n]
  BY ConcatProperties, LenProperties
<1> HIDE DEF q, n, m
<1>2. ASSUME NEW k \in 1..n PROVE k \in 1..(n + m) /\ q[k] = p[k]
  <2>1. k \in 1..(n + m) /\ k <= n
    BY <1>1
  <2> QED
    BY <1>1, <2>1
<1>3. ASSUME NEW k \in 1..m PROVE n + k \in 1..(n + m) /\ q[n + k] = s[k]
  <2>1. n + k \in 1..(n + m) /\ ~(n + k <= n) /\ (n + k) - n = k
    BY <1>1
  <2> QED
    BY <1>1, <2>1
<1>4. Rejected(p) => Rejected(q)
  BY <1>1, <1>2 DEF Rejected, n
<1>5. Rejected(s) => Rejected(q)
  BY <1>1, <1>3 DEF Rejected, m
<1>6. Commands(q) => Commands(p) \/ Commands(s)
  <2> SUFFICES ASSUME NEW k \in 1..(n + m), q[k].opt = "exec" PROVE Commands(p) \/ Commands(s)
    BY <1>1 DEF Commands
  <2>1. (k <= n => k \in 1..n) /\ (~(k <= n) => k - n \in 1..m)
    BY <1>1
  <2>2. k <= n => p[k].opt = "exec"
    BY <1>1
  <2>3. ~(k <= n) => s[k - n].opt = "exec"
    BY <1>1
  <2> QED
    BY <2>1, <2>2, <2>3 DEF Commands, n, m
<1> QED
  BY <1>4, <1>5, <1>6 DEF q

\* When the beginning of a command line is accepted and has a command, the whole one
\* gives the same settings, but for the command's arguments.
LEMMA SettingsLonger ==
  ASSUME NEW h \in Words, NEW more \in Words, NEW a, a = h \o more,
         ~Rejected(Settings(h)), Commands(Settings(h))
  PROVE  Longer(Settings(h), Settings(a), more)
<1> DEFINE n == Len(h)
           N == Len(a)
<1>1. a \in Words /\ N = n + Len(more) /\ n \in Nat /\ N \in Nat /\ n <= N
  <2>1. a \in Words /\ N = n + Len(more)
    BY ConcatProperties DEF Words
  <2>2. n \in Nat /\ Len(more) \in Nat
    BY LenProperties DEF Words
  <2> QED
    BY <2>1, <2>2
<1>2. PICK g : /\ g \in [1..(n + 1) -> Seq(Setting)]
               /\ \A i \in 1..(n + 1) : g[i] = Onward(h, g, i)
               /\ Settings(h) = g[1]
  BY SettingsIs
<1>3. PICK f : /\ f \in [1..(N + 1) -> Seq(Setting)]
               /\ \A i \in 1..(N + 1) : f[i] = Onward(a, f, i)
               /\ Settings(a) = f[1]
  BY <1>1, SettingsIs
<1> DEFINE S == {i \in 1..(n + 1) :
                   ~Rejected(g[i]) /\ Commands(g[i]) => Longer(g[i], f[i], more)}
<1>4. ASSUME NEW i \in 1..(n + 1), \A k \in (i + 1)..(n + 1) : k \in S,
             ~Rejected(g[i]), Commands(g[i])
      PROVE  Longer(g[i], f[i], more)
  <2> DEFINE x == Token(h, i)
             y == Token(a, i)
             r == IF x.next = 0 THEN <<>> ELSE g[x.next]
             e == IF y.next = 0 THEN <<>> ELSE f[y.next]
  <2>1. i <= n /\ i \in 1..n
    <3>1. CASE i > n
      <4>1. g[i] = <<>>
        BY <1>2, <3>1 DEF Onward
      <4>2. ~Commands(<<>>)
        BY DEF Commands
      <4> QED
        BY <1>4, <4>1, <4>2
    <3>2. CASE ~(i > n)
      BY <1>1, <3>2
    <3> QED
      BY <3>1, <3>2
  <2>2. i \in 1..(N + 1) /\ i \in 1..N /\ ~(i > N) /\ ~(i > n)
    BY <1>1, <2>1
  <2>3. g[i] = x.set \o r
    BY <1>2, <2>2 DEF Onward
  <2>4. f[i] = y.set \o e
    BY <1>3, <2>2 DEF Onward
  <2>5. /\ x.set \in Seq(Setting) /\ x.next \in {0} \cup (i + 1)..(n + 1)
        /\ x.next = 0 => Rejected(x.set)
    BY <2>1, TokenNext
  <2>6. y.set \in Seq(Setting) /\ y.next \in {0} \cup (i + 1)..(N + 1)
    BY <1>1, <2>2, TokenNext
  <2>7. Alike(x, y, h, more)
    BY <2>1, TokenAlike
  <2>8. <<>> \in Seq(Setting)
    BY EmptySeq
  <2>9. r \in Seq(Setting)
    <3>1. \A k \in (i + 1)..(n + 1) : k \in 1..(n + 1)
      BY <1>1
    <3> QED
      BY <1>2, <2>5, <2>8, <3>1
  <2>10. /\ x.next # 0
         /\ ~Rejected(r)
         /\ Commands(x.set) \/ Commands(r)
    <3>1. x.set \in Seq(Setting) /\ (x.next = 0 => Rejected(x.set))
      BY <2>5
    <3> HIDE DEF r, x
    <3>2. /\ Rejected(x.set) \/ Rejected(r) => Rejected(x.set \o r)
          /\ Commands(x.set \o r) => Commands(x.set) \/ Commands(r)
      BY ONLY <3>1, <2>9, JoinedSettings
    <3> QED
      BY <1>4, <2>3, <3>1, <3>2
  <2>11. ~Rejected(r) /\ (Commands(x.set) \/ Commands(r))
    BY <2>10
  <2>12. CASE x = y /\ Plain(x.set)
    <3>1. ~Commands(x.set)
      BY <2>12 DEF Commands, Plain
    <3>2. r = g[x.next] /\ e = f[x.next] /\ x.next \in (i + 1)..(n + 1)
      BY <2>5, <2>10, <2>12
    <3>3. x.next \in S
      BY <1>4, <3>2
    <3>4. Longer(r, e, more)
      BY <2>11, <3>1, <3>2, <3>3
    <3> HIDE DEF r, e, x, y
    <3>5. Longer(x.set \o r, x.set \o e, more)
      BY <2>5, <2>12, <3>4, LongerAfter
    <3> QED
      BY <2>3, <2>4, <2>12, <3>5
  <2>13. CASE /\ x.next = n + 1 /\ y.next = n + Len(more) + 1
              /\ Longer(x.set, y.set, more)
    <3>1. y.next = N + 1 /\ y.next # 0 /\ n + 1 > n /\ N + 1 > N
          /\ n + 1 \in 1..(n + 1) /\ N + 1 \in 1..(N + 1)
      BY <1>1, <2>13
    <3>2. g[n + 1] = <<>> /\ f[N + 1] = <<>>
      BY <1>2, <1>3, <3>1 DEF Onward
    <3>3. r = <<>> /\ e = <<>>
      BY <2>10, <2>13, <3>1, <3>2
    <3>4. g[i] = x.set /\ f[i] = y.set
      BY <2>3, <2>4, <2>5, <2>6, <3>3, ConcatEmptySeq
    <3> QED
      BY <2>13, <3>4
  <2> QED
    BY <2>7, <2>10, <2>12, <2>13 DEF Alike
<1>5. 1..(n + 1) \subseteq S
  <2>1. \A i \in 1..(n + 1) : (\A k \in (i + 1)..(n + 1) : k \in S) => i \in S
    BY <1>4
  <2> DEFINE Z == n + 1
  <2>2. Z \in Nat /\ 1 \in Nat
    BY <1>1
  <2> HIDE DEF S, Z
  <2>3. 1..Z \subseteq S
    BY <2>1, <2>2, DownwardInduction DEF Z
  <2> QED
    BY <2>3 DEF Z
<1>6. 1 \in S
  BY <1>1, <1>5
<1> QED
  BY <1>2, <1>3, <1>6

-----------------------------------------------------------------------------
(* The options.                                                            *)

Places(s, o)    == {k \in DOMAIN s : s[k].opt = o}
LastPlace(s, o) == CHOOSE k \in Places(s, o) : \A n \in Places(s, o) : n <= k
Values(s)       == [o \in {x \in Options : Places(s, x) # {}} |-> s[LastPlace(s, o)].val]

LEMMA TokenizeIs == ASSUME NEW line PROVE Tokenize(line) = Values(Settings(line))
BY DEF Tokenize, Values, LastPlace, Places

\* An option that is set is set last somewhere.
LEMMA LastPlaceIs ==
  ASSUME NEW s \in Seq(Setting), NEW o, Places(s, o) # {}
  PROVE  LastPlace(s, o) \in Places(s, o)
<1>1. Len(s) \in Nat /\ DOMAIN s = 1..Len(s)
  BY LenProperties
<1>2. Places(s, o) \subseteq 0..Len(s)
  BY <1>1 DEF Places
<1> DEFINE T == Places(s, o)
           m == Max(T)
<1>3. m \in T /\ \A n \in T : n <= m
  <2> HIDE DEF T
  <2> QED
    BY <1>1, <1>2, MaxIs DEF T
<1> QED
  BY <1>3 DEF LastPlace

\* The command with more arguments changes nothing but its own value.
LEMMA LongerValues ==
  ASSUME NEW s, NEW u, NEW more, Longer(s, u, more)
  PROVE  /\ ~Rejected(u) /\ "exec" \in DOMAIN Values(s)
         /\ Values(u) = [Values(s) EXCEPT !["exec"] = @ \o more]
<1> DEFINE n == Len(s)
<1>1. /\ n \in Nat /\ n # 0 /\ n \in 1..n /\ Len(u) = n
      /\ DOMAIN s = 1..n /\ DOMAIN u = 1..n /\ s \in Seq(Setting) /\ u \in Seq(Setting)
  <2>1. s \in Seq(Setting) /\ u \in Seq(Setting) /\ Len(u) = n /\ n # 0
    BY DEF Longer
  <2> QED
    BY <2>1, LenProperties
<1>2. /\ s[n].opt = "exec" /\ u[n].opt = "exec" /\ u[n].val = s[n].val \o more
      /\ \A k \in 1..n : k # n => u[k] = s[k] /\ s[k].opt # "exec" /\ s[k].opt # "wrong"
  BY DEF Longer
<1> HIDE DEF n
<1>3. \A k \in 1..n : u[k].opt = s[k].opt /\ s[k].opt # "wrong"
  <2>1. "exec" # "wrong"
    OBVIOUS
  <2> QED
    BY <1>2, <2>1
<1>4. ~Rejected(u)
  BY <1>1, <1>3 DEF Rejected
<1>5. \A o : Places(u, o) = Places(s, o) /\ LastPlace(u, o) = LastPlace(s, o)
  <2>1. \A o : Places(u, o) = Places(s, o)
    BY <1>1, <1>3 DEF Places
  <2> QED
    BY <2>1 DEF LastPlace
<1>6. Places(s, "exec") = {n}
  BY <1>1, <1>2 DEF Places
<1>7. LastPlace(s, "exec") = n
  BY <1>1, <1>6, LastPlaceIs
<1>8. \A o : Places(s, o) # {} => LastPlace(s, o) \in Places(s, o)
  BY <1>1, LastPlaceIs
<1>9. \A o : Places(s, o) # {} /\ o # "exec" => s[LastPlace(s, o)] = u[LastPlace(u, o)]
  <2> SUFFICES ASSUME NEW o, Places(s, o) # {}, o # "exec"
               PROVE  s[LastPlace(s, o)] = u[LastPlace(s, o)]
    BY <1>5
  <2>1. LastPlace(s, o) \in 1..n /\ s[LastPlace(s, o)].opt = o
    BY <1>1, <1>8 DEF Places
  <2>2. LastPlace(s, o) # n
    BY <1>2, <2>1
  <2> QED
    BY <1>2, <2>1, <2>2
<1>10. "exec" \in Options
  BY DEF Options
<1> DEFINE O == {x \in Options : Places(s, x) # {}}
           at(o) == s[LastPlace(s, o)].val
           is(o) == u[LastPlace(u, o)].val
<1>11. "exec" \in O
  BY <1>6, <1>10
<1>12. is("exec") = at("exec") \o more /\ \A o \in O : o # "exec" => is(o) = at(o)
  BY <1>2, <1>5, <1>7, <1>9
<1>13. Values(s) = [o \in O |-> at(o)] /\ Values(u) = [o \in O |-> is(o)]
  BY <1>5 DEF Values
<1> HIDE DEF O, at, is
<1>14. [o \in O |-> is(o)] = [[o \in O |-> at(o)] EXCEPT !["exec"] = @ \o more]
  BY <1>11, <1>12
<1> QED
  BY <1>4, <1>11, <1>13, <1>14

\* What CommandIsOpaque says of one command line and one place in it.
OpaqueAfter(line, n) ==
  LET head == SubSeq(line, 1, n)
      tail == SubSeq(line, n + 1, Len(line))
  IN Accepted(head) /\ Given(Tokenize(head), "exec") =>
       /\ Accepted(line)
       /\ Tokenize(line) = [Tokenize(head) EXCEPT !["exec"] = @ \o tail]

LEMMA OpaqueIs == ASSUME NEW line \in Words, NEW n \in DOMAIN line PROVE OpaqueAfter(line, n)
<1> DEFINE h    == SubSeq(line, 1, n)
           more == SubSeq(line, n + 1, Len(line))
<1> SUFFICES ASSUME Accepted(h), Given(Tokenize(h), "exec")
             PROVE  /\ Accepted(line)
                    /\ Tokenize(line) = [Tokenize(h) EXCEPT !["exec"] = @ \o more]
  BY DEF OpaqueAfter
<1>1. h = SubSeq(line, 1, n) /\ more = SubSeq(line, n + 1, Len(line))
  OBVIOUS
<1> HIDE DEF h, more
<1>2. Len(line) \in Nat /\ DOMAIN line = 1..Len(line) /\ n \in Nat /\ n <= Len(line) /\ 1 <= n
  <2>1. Len(line) \in Nat /\ DOMAIN line = 1..Len(line)
    BY LenProperties DEF Words
  <2> QED
    BY <2>1
<1> DEFINE L == Len(line)
<1>3. h \in Words /\ more \in Words
  <2>1. /\ \A i \in 1..n : line[i] \in Seq(STRING)
        /\ \A i \in (n + 1)..L : line[i] \in Seq(STRING)
    <3>1. \A i \in 1..L : line[i] \in Seq(STRING)
      BY ElementOfSeq DEF Words
    <3> QED
      BY <1>2, <3>1
  <2>2. 1 \in Int /\ n \in Int /\ n + 1 \in Int /\ L \in Int
    BY <1>2
  <2> HIDE DEF L
  <2>3. SubSeq(line, 1, n) \in Seq(Seq(STRING))
    BY <2>1, <2>2, SubSeqProperties
  <2>4. SubSeq(line, n + 1, L) \in Seq(Seq(STRING))
    BY <2>1, <2>2, SubSeqProperties
  <2> QED
    BY <1>1, <2>3, <2>4 DEF L, Words
<1>4. line = h \o more
  <2>1. line \in Seq(Seq(STRING))
    BY DEF Words
  <2>2. 1 \in 1..(L + 1) /\ n \in (1 - 1)..L /\ L \in n..L
    BY <1>2
  <2>3. SubSeq(line, 1, L) = line
    BY <2>1, SubSeqFull
  <2> HIDE DEF L
  <2>4. \A m \in 1..(L + 1) : \A k \in (m - 1)..L : \A j \in k..L :
          SubSeq(line, m, k) \o SubSeq(line, k + 1, j) = SubSeq(line, m, j)
    BY ONLY <2>1, ConcatAdjacentSubSeq DEF L
  <2>5. SubSeq(line, 1, n) \o SubSeq(line, n + 1, L) = SubSeq(line, 1, L)
    BY <2>2, <2>4
  <2> QED
    BY <1>1, <2>3, <2>5 DEF L
<1>5. Settings(h) \in Seq(Setting) /\ Settings(line) \in Seq(Setting)
  <2>1. ASSUME NEW l \in Words PROVE Settings(l) \in Seq(Setting)
    <3>1. Len(l) \in Nat
      BY LenProperties DEF Words
    <3>2. PICK g : /\ g \in [1..(Len(l) + 1) -> Seq(Setting)]
                   /\ Settings(l) = g[1]
      BY SettingsIs
    <3>3. 1 \in 1..(Len(l) + 1)
      BY <3>1
    <3> QED
      BY <3>2, <3>3
  <2> QED
    BY <1>3, <2>1
<1>6. \A s \in Seq(Setting) : DOMAIN s = 1..Len(s)
  BY LenProperties
<1>7. ~Rejected(Settings(h))
  BY <1>5, <1>6 DEF Accepted, Rejected
<1>8. Commands(Settings(h))
  BY <1>5, <1>6, TokenizeIs DEF Given, Values, Places, Commands
<1>9. Longer(Settings(h), Settings(line), more)
  BY <1>3, <1>4, <1>7, <1>8, SettingsLonger
<1>10. Accepted(line)
  BY <1>5, <1>6, <1>9, LongerValues DEF Accepted, Rejected
<1>11. Values(Settings(line)) = [Values(Settings(h)) EXCEPT !["exec"] = @ \o more]
  BY <1>9, LongerValues
<1> QED
  BY <1>10, <1>11, TokenizeIs

\* Command lines are what processes are started with, and stay what they are.
ArgsAreWords == \A p \in Procs : args[p] \in Words

\* What follows -e or -- is the command's, for any command line (SPEC.md:55).
THEOREM CommandsAreOpaque == ProcSpec => []CommandIsOpaque
<1>1. ProcInit => ArgsAreWords
  BY Arguments DEF ProcInit, ArgsAreWords, Procs, Words
<1>2. ArgsAreWords /\ [ProcNext]_procVars => ArgsAreWords'
  <2> SUFFICES ASSUME ArgsAreWords, [ProcNext]_procVars PROVE args' = args
    BY DEF ArgsAreWords, Procs
  <2> QED
    BY DEF ProcNext, procVars, Server, Kill, Outside, ParseArgs, ClientRuns, SpawnRepl,
       ResolveBind, Bind, BindFails, SetNonblocking, WritePidfile, SetupFails, LeaveLoop,
       TerminateRepl, RemoveSocket, RemovePidfile, Discover, ReadPid, Probe, SendTerm,
       SeeItGone, GraceOver, SendKill, Tidy, ReplEnds, RestartRepl, Signal, Killed
<1>3. ArgsAreWords => CommandIsOpaque
  BY OpaqueIs DEF CommandIsOpaque, OpaqueAfter, ArgsAreWords
<1> QED
  BY <1>1, <1>2, <1>3, PTL DEF ProcSpec
=============================================================================
