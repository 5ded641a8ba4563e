----------------------------- MODULE ServerInv ------------------------------
(***************************************************************************)
(* The inductive invariant of Server, in named parts.  Each part collects  *)
(* what one argument about the server needs to know of the states in       *)
(* between, above all of where the supervisor is in its loop.              *)
(***************************************************************************)
EXTENDS Server

Ended == {"last_words", "stop", "cleanup", "exited"}

\* Slot and threads.  A client_in thread holds the sink unless the sink was
\* dropped under it, and only the supervisor's current guest has none yet.
ThreadInv ==
  /\ SlotHasThread
  /\ \A c \in Threads : c = sink \/ c \in dropped
  /\ BusyHasThread
  /\ ServingHasThread
  /\ DrainingUnlessDropped

\* Where a process has exited and is being replaced.
ReplaceInv ==
  /\ spc \in {"join", "clear", "spawn"} => ~alive /\ ~forced
  /\ spc \in {"clear", "spawn"} => ~stuck
  /\ spc \in {"spawn", "boot", "wire"} => sink = None
  /\ spc \in {"clear", "spawn", "boot", "wire"} => \A s \in Streams : ppc[s] = "done"
  /\ stdin = inst \/ spc \in {"boot", "wire"}
  /\ KillReasonsAreFresh

\* Processes whose exit has been judged.
Judged == IF spc \in {"clear", "spawn"} \/ outcome # "ok" THEN inst ELSE inst - 1

\* The breaker's counter.
BreakerInv ==
  /\ failures = Judged - lastGood
  /\ outcome = "gave_up" => failures = MaxStartupFailures
  /\ outcome # "gave_up" => failures < MaxStartupFailures
  /\ outcome # "ok" => ~alive /\ spc \in Ended

\* Stopping.
StopInv ==
  /\ phase = "Stopped" => shutdown /\ spc \in {"cleanup", "exited"}
  /\ spc = "exited" => ~alive

\* The REPL serves clients only when its warmup has been written, which its
\* flag records; begin_booting lowers the flag before it changes the phase.
WarmupInv ==
  /\ HasWarmup /\ phase \in {"Idle", "Busy", "Draining"} => warmupSent \/ spc = "boot"
  /\ spc = "boot" => \A c \in Clients : born[c] < inst
  /\ HasWarmup => \A c \in Clients :
       cpc[c] \in {"read", "start", "fwait", "fwrite"} /\ born[c] = inst => warmupSent
  /\ \A c \in Clients : cpc[c] \in {"none", "queued"} => \A j \in DOMAIN fed : fed[j] # c
  /\ (warmupSent \/ spc = "flag") /\ alive => \E j \in DOMAIN fed : fed[j] = "warmup"
  /\ ~warmupSent /\ spc # "flag" => \A j \in DOMAIN fed : fed[j] # "warmup"
  /\ spc = "flag" => ~warmupSent
  /\ WarmupBeforeInput

\* The unit of work the REPL is at, or has finished: the boot, the warmup or the
\* request it read last.
Unit == IF took = 0 THEN "boot" ELSE fed[took]

\* The pump of s has read a chunk and not finished with it.
Held(s) == ppc[s] \in {"ready", "warmup", "response", "tail", "boundary"}

\* No output is under way, and neither is anything that will lead to some.
Drained == \A s \in Streams : pipe[s] = <<>> /\ ~Held(s)
Quiet   == Drained /\ ~working /\ took = Len(fed)

\* What is under way comes from the one unit of work, and the marker comes last.
UnitInv ==
  /\ \A s \in Streams : \A i \in DOMAIN pipe[s] :
       /\ pipe[s][i].from = Unit
       /\ pipe[s][i].mark => ~working /\ i = Len(pipe[s])
  /\ \A s \in Streams : Held(s) =>
       /\ chunk[s].from = Unit
       /\ chunk[s].mark => ~working /\ pipe[s] = <<>>
  /\ took < Len(fed) => Drained /\ ~working /\ took = Len(fed) - 1

\* What a pump holds fits the phase, and a response the client it is delivered to.
HeldInv == \A s \in Streams :
  /\ ppc[s] # "tail"
  /\ ppc[s] \in {"ready", "warmup", "boundary"} => chunk[s].mark
  /\ ppc[s] = "ready" => phase \in {"Booting", "Stopped"}
  /\ ppc[s] = "warmup" => phase \in {"Warmup", "Stopped"}
  /\ ppc[s] \in {"response", "boundary"} =>
       /\ phase \in {"Busy", "Draining", "Stopped"}
       /\ chunk[s].from \in Clients /\ sink \in {None, chunk[s].from}

\* What each phase says about the unit of work.  A new process is not in any
\* phase before begin_booting.
PhaseInv ==
  /\ spc = "boot" => fed = <<>>
  /\ spc # "boot" =>
       /\ phase = "Booting" => fed = <<>>
       /\ phase = "Warmup" => /\ \A j \in DOMAIN fed : fed[j] = "warmup"
                              /\ took = 0 => Drained /\ ~working
       /\ phase = "Idle" => Quiet
       /\ phase \in {"Busy", "Draining"} /\ ~Quiet =>
            fed # <<>> /\ fed[Len(fed)] \in Clients /\ sink \in {None, fed[Len(fed)]}
  /\ spc = "flag" \/ (spc = "warmup" /\ ~warmupSent) => phase = "Warmup"
  /\ sink # None /\ cpc[sink] \in {"fwait", "fwrite"} =>
       Quiet /\ phase \in {"Busy", "Draining", "Stopped"}

OwnOutput == \A c \in Clients : got[c] \subseteq {c, "status", "error"}

\* Output is followed from the unit of work it belongs to up to the client.
FlowInv ==
  UnitsAreMarked /\ ~outOfTurn => UnitInv /\ HeldInv /\ PhaseInv /\ OwnOutput

IInv == TypeOK /\ ThreadInv /\ ReplaceInv /\ BreakerInv /\ StopInv /\ WarmupInv /\ FlowInv
=============================================================================
