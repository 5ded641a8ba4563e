---------------------------- MODULE ServerProofs ----------------------------
(***************************************************************************)
(* The inductive invariant IInv of Server is preserved by every step, and  *)
(* with it the safety properties hold for any number of clients, streams   *)
(* and processes and every combination of options; and Server implements   *)
(* Lifecycle.  The steps of TypeOK and of FlowInv are in ServerParts.      *)
(***************************************************************************)
EXTENDS ServerParts

\* A process is replaced one step after the other: exit seen, pumps joined, exit
\* judged, sink cleared, process spawned, phase reset, pipes wired.
THEOREM ReplaceStep ==
  TypeOK /\ ReplaceInv /\ [Next]_vars => ReplaceInv'
<1> SUFFICES ASSUME TypeOK, ReplaceInv, [Next]_vars
             PROVE  ReplaceInv'
  OBVIOUS
<1> USE DEF Goto, ClientGoto, core, shared, supervisor, pumps, clients, repl, history
<1>0. /\ ppc \in [Streams -> {"read", "ready", "warmup", "response", "tail", "boundary", "done"}]
      /\ {alive, forced, stuck} \subseteq BOOLEAN
  BY DEF TypeOK, SupervisorTypeOK, PumpsTypeOK, ReplTypeOK
<1>1. CASE LoopTop
  BY <1>1, <1>0 DEF LoopTop, ReplaceInv, KillReasonsAreFresh
<1>2. CASE NothingDue
  BY <1>2, <1>0 DEF NothingDue, ReplaceInv, KillReasonsAreFresh
<1>3. CASE Due
  BY <1>3, <1>0 DEF Due, ReplaceInv, KillReasonsAreFresh
<1>4. CASE ReadyWaitElapsed
  BY <1>4, <1>0 DEF ReadyWaitElapsed, Ready, ReplaceInv, KillReasonsAreFresh
<1>5. CASE MarkerTimeout
  BY <1>5, <1>0 DEF MarkerTimeout, Kill, ReplaceInv, KillReasonsAreFresh
<1>6. CASE SendWarmup
  BY <1>6, <1>0 DEF SendWarmup, StdinOpen, ReplaceInv, KillReasonsAreFresh
<1>7. CASE MarkWarmupSent
  BY <1>7, <1>0 DEF MarkWarmupSent, ReplaceInv, KillReasonsAreFresh
<1>8. CASE WarmupWaitElapsed
  BY <1>8, <1>0 DEF WarmupWaitElapsed, WarmupDone, ReplaceInv, KillReasonsAreFresh
<1>9. CASE DrainTimeout
  BY <1>9, <1>0 DEF DrainTimeout, Kill, ReplaceInv, KillReasonsAreFresh
<1>10. CASE Reap
  BY <1>10, <1>0 DEF Reap, ReplaceInv, KillReasonsAreFresh
<1>11. CASE StillRunning
  BY <1>11, <1>0 DEF StillRunning, ReplaceInv, KillReasonsAreFresh
<1>12. CASE ReapFails
  BY <1>12, <1>0 DEF ReapFails, ReplaceInv, KillReasonsAreFresh
<1>13. ASSUME NEW young \in BOOLEAN, JoinAndJudge(young)
      PROVE  ReplaceInv'
  BY <1>13, <1>0 DEF JoinAndJudge, ReplaceInv, KillReasonsAreFresh
<1>14. CASE ClearSink
  BY <1>14, <1>0 DEF ClearSink, ReplaceInv, KillReasonsAreFresh
<1>15. CASE Spawn
  BY <1>15, <1>0 DEF Spawn, ReplaceInv, KillReasonsAreFresh
<1>16. CASE SpawnFails
  BY <1>16, <1>0 DEF SpawnFails, ReplaceInv, KillReasonsAreFresh
<1>17. CASE Reboot
  BY <1>17, <1>0 DEF Reboot, BeginBooting, InitialPhase, HasReadiness, ReplaceInv,
         KillReasonsAreFresh
<1>18. CASE WireRepl
  BY <1>18, <1>0 DEF WireRepl, ReplaceInv, KillReasonsAreFresh
<1>19. CASE LastWords
  BY <1>19, <1>0 DEF LastWords, SendCtl, Deliver, ReplaceInv, KillReasonsAreFresh
<1>20. CASE StopServer
  BY <1>20, <1>0 DEF StopServer, Stop, ReplaceInv, KillReasonsAreFresh
<1>21. CASE Cleanup
  BY <1>21, <1>0 DEF Cleanup, Kill, ReplaceInv, KillReasonsAreFresh
<1>22. CASE NobodyWaiting
  BY <1>22, <1>0 DEF NobodyWaiting, ReplaceInv, KillReasonsAreFresh
<1>23. ASSUME NEW c \in Clients, Accept(c)
      PROVE  ReplaceInv'
  BY <1>23, <1>0 DEF Accept, TryAccept, ReplaceInv, KillReasonsAreFresh
<1>24. ASSUME NEW c \in Clients, Refuse(c)
      PROVE  ReplaceInv'
  BY <1>24, <1>0 DEF Refuse, ReplaceInv, KillReasonsAreFresh
<1>25. ASSUME NEW c \in Clients, Greet(c)
      PROVE  ReplaceInv'
  BY <1>25, <1>0 DEF Greet, SendCtl, Deliver, ReplaceInv, KillReasonsAreFresh
<1>26. ASSUME NEW s \in Streams, PumpRead(s)
      PROVE  ReplaceInv'
  BY <1>26, <1>0 DEF PumpRead, Handling, ReplaceInv, KillReasonsAreFresh
<1>27. ASSUME NEW s \in Streams, PumpReady(s)
      PROVE  ReplaceInv'
  BY <1>27, <1>0 DEF PumpReady, Ready, PumpNext, ReplaceInv, KillReasonsAreFresh
<1>28. ASSUME NEW s \in Streams, PumpWarmup(s)
      PROVE  ReplaceInv'
  BY <1>28, <1>0 DEF PumpWarmup, WarmupDone, PumpNext, ReplaceInv,
         KillReasonsAreFresh
<1>29. ASSUME NEW s \in Streams, PumpRoute(s)
      PROVE  ReplaceInv'
  BY <1>29, <1>0 DEF PumpRoute, Deliver, PumpNext, ReplaceInv, KillReasonsAreFresh
<1>30. ASSUME NEW s \in Streams, PumpBoundary(s)
      PROVE  ReplaceInv'
  BY <1>30, <1>0 DEF PumpBoundary, ResponseEnd, PumpNext, ReplaceInv,
         KillReasonsAreFresh
<1>31. ASSUME NEW s \in Streams, PumpEof(s)
      PROVE  ReplaceInv'
  BY <1>31, <1>0 DEF PumpEof, ReplaceInv, KillReasonsAreFresh
<1>32. ASSUME NEW c \in Clients, WaitUntilReady(c)
      PROVE  ReplaceInv'
  BY <1>32, <1>0 DEF WaitUntilReady, ReplaceInv, KillReasonsAreFresh
<1>33. ASSUME NEW c \in Clients, ReadInput(c)
      PROVE  ReplaceInv'
  BY <1>33, <1>0 DEF ReadInput, ReplaceInv, KillReasonsAreFresh
<1>34. ASSUME NEW c \in Clients, ReadEof(c)
      PROVE  ReplaceInv'
  BY <1>34, <1>0 DEF ReadEof, ReplaceInv, KillReasonsAreFresh
<1>35. ASSUME NEW c \in Clients, StartRequest(c)
      PROVE  ReplaceInv'
  BY <1>35, <1>0 DEF StartRequest, RequestStart, ReplaceInv, KillReasonsAreFresh
<1>36. ASSUME NEW c \in Clients, Forward(c)
      PROVE  ReplaceInv'
  BY <1>36, <1>0 DEF Forward, StdinOpen, ReplaceInv, KillReasonsAreFresh
<1>37. ASSUME NEW c \in Clients, Gone(c)
      PROVE  ReplaceInv'
  BY <1>37, <1>0 DEF Gone, ClientGone, ReplaceInv, KillReasonsAreFresh
<1>38. ASSUME NEW c \in Clients, Connect(c)
      PROVE  ReplaceInv'
  BY <1>38, <1>0 DEF Connect, ReplaceInv, KillReasonsAreFresh
<1>39. ASSUME NEW c \in Clients, Send(c)
      PROVE  ReplaceInv'
  BY <1>39, <1>0 DEF Send, ReplaceInv, KillReasonsAreFresh
<1>40. ASSUME NEW c \in Clients, Leave(c)
      PROVE  ReplaceInv'
  BY <1>40, <1>0 DEF Leave, ReplaceInv, KillReasonsAreFresh
<1>41. CASE ReplReads
  BY <1>41, <1>0 DEF ReplReads, ReplaceInv, KillReasonsAreFresh
<1>42. ASSUME NEW s \in Streams, NEW mark \in BOOLEAN, ReplPrints(s, mark)
      PROVE  ReplaceInv'
  BY <1>42, <1>0 DEF ReplPrints, ReplaceInv, KillReasonsAreFresh
<1>43. CASE ReplDies
  BY <1>43, <1>0 DEF ReplDies, ReplaceInv, KillReasonsAreFresh
<1>44. CASE Signal
  BY <1>44, <1>0 DEF Signal, ReplaceInv, KillReasonsAreFresh
<1>45. CASE UNCHANGED vars
  BY <1>45, <1>0 DEF vars, ReplaceInv, KillReasonsAreFresh
<1> QED
  BY <1>1, <1>2, <1>3, <1>4, <1>5, <1>6, <1>7, <1>8, <1>9, <1>10, <1>11, <1>12,
     <1>13, <1>14, <1>15, <1>16, <1>17, <1>18, <1>19, <1>20, <1>21, <1>22, <1>23,
     <1>24, <1>25, <1>26, <1>27, <1>28, <1>29, <1>30, <1>31, <1>32, <1>33, <1>34,
     <1>35, <1>36, <1>37, <1>38, <1>39, <1>40, <1>41, <1>42, <1>43, <1>44, <1>45
     DEF Next, Supervise, Pump, ClientIn, Surroundings, Exited

\* The counter counts: failures is the number of processes judged since the last
\* one that was no startup failure, and the loop is left when it reaches the limit.
THEOREM BreakerStep ==
  TypeOK /\ ReplaceInv /\ BreakerInv /\ [Next]_vars => BreakerInv'
<1> SUFFICES ASSUME TypeOK, ReplaceInv, BreakerInv, [Next]_vars
             PROVE  BreakerInv'
  OBVIOUS
<1> USE DEF Goto, ClientGoto, core, shared, supervisor, pumps, clients, repl, history
<1>a. /\ inst \in Nat \ {0} /\ lastGood \in 0..inst /\ failures \in 0..MaxStartupFailures
      /\ alive \in BOOLEAN
  BY DEF TypeOK, SupervisorTypeOK, ReplTypeOK, HistoryTypeOK
<1>b. MaxStartupFailures \in Nat \ {0}
  BY Bounds
<1>0. /\ inst \in Nat \ {0} /\ lastGood \in Nat /\ failures \in Nat
      /\ MaxStartupFailures \in Nat \ {0} /\ alive \in BOOLEAN
  BY <1>a, <1>b
<1>1. CASE LoopTop
  BY <1>1, <1>0 DEF LoopTop, ReplaceInv, BreakerInv, Judged, Ended
<1>2. CASE NothingDue
  BY <1>2, <1>0 DEF NothingDue, ReplaceInv, BreakerInv, Judged, Ended
<1>3. CASE Due
  BY <1>3, <1>0 DEF Due, ReplaceInv, BreakerInv, Judged, Ended
<1>4. CASE ReadyWaitElapsed
  BY <1>4, <1>0 DEF ReadyWaitElapsed, Ready, ReplaceInv, BreakerInv, Judged, Ended
<1>5. CASE MarkerTimeout
  BY <1>5, <1>0 DEF MarkerTimeout, Kill, ReplaceInv, BreakerInv, Judged, Ended
<1>6. CASE SendWarmup
  BY <1>6, <1>0 DEF SendWarmup, StdinOpen, ReplaceInv, BreakerInv, Judged, Ended
<1>7. CASE MarkWarmupSent
  BY <1>7, <1>0 DEF MarkWarmupSent, ReplaceInv, BreakerInv, Judged, Ended
<1>8. CASE WarmupWaitElapsed
  BY <1>8, <1>0 DEF WarmupWaitElapsed, WarmupDone, ReplaceInv, BreakerInv, Judged,
         Ended
<1>9. CASE DrainTimeout
  BY <1>9, <1>0 DEF DrainTimeout, Kill, ReplaceInv, BreakerInv, Judged, Ended
<1>10. CASE Reap
  BY <1>10, <1>0 DEF Reap, ReplaceInv, BreakerInv, Judged, Ended
<1>11. CASE StillRunning
  BY <1>11, <1>0 DEF StillRunning, ReplaceInv, BreakerInv, Judged, Ended
<1>12. CASE ReapFails
  BY <1>12, <1>0 DEF ReapFails, ReplaceInv, BreakerInv, Judged, Ended
<1>13. ASSUME NEW young \in BOOLEAN, JoinAndJudge(young)
      PROVE  BreakerInv'
  <2>1. outcome = "ok" /\ failures = inst - 1 - lastGood /\ failures < MaxStartupFailures /\ ~alive
    BY <1>13 DEF JoinAndJudge, BreakerInv, ReplaceInv, Judged, Ended
  <2>2. /\ failures' \in Nat /\ failures' <= failures + 1
        /\ failures' = inst - lastGood'
    <3>1. CASE stuck \/ (~served /\ young)
      <4>1. failures' = failures + 1 /\ lastGood' = lastGood
        BY <1>13, <3>1 DEF JoinAndJudge
      <4> QED
        BY <4>1, <2>1, <1>0
    <3>2. CASE ~(stuck \/ (~served /\ young))
      <4>1. failures' = 0 /\ lastGood' = inst
        BY <1>13, <3>2 DEF JoinAndJudge
      <4> QED
        BY <4>1, <2>1, <1>0
    <3> QED
      BY <3>1, <3>2
  <2>3. CASE failures' >= MaxStartupFailures
    <3>1. outcome' = "gave_up" /\ spc' = "last_words" /\ ~alive' /\ inst' = inst
      BY <1>13, <2>1, <2>3 DEF JoinAndJudge, Goto, repl
    <3>2. Judged' = inst
      BY <3>1 DEF Judged
    <3>3. failures' = MaxStartupFailures
      BY <1>0, <2>1, <2>2, <2>3
    <3> QED
      BY <2>2, <3>1, <3>2, <3>3 DEF BreakerInv, Ended
  <2>4. CASE ~(failures' >= MaxStartupFailures)
    <3>1. outcome' = "ok" /\ spc' = "clear" /\ inst' = inst
      BY <1>13, <2>1, <2>4 DEF JoinAndJudge, Goto, repl
    <3>2. Judged' = inst
      BY <3>1 DEF Judged
    <3>3. failures' < MaxStartupFailures
      BY <1>0, <2>1, <2>2, <2>4
    <3> QED
      BY <2>2, <3>1, <3>2, <3>3 DEF BreakerInv
  <2> QED
    BY <2>3, <2>4
<1>14. CASE ClearSink
  BY <1>14, <1>0 DEF ClearSink, ReplaceInv, BreakerInv, Judged, Ended
<1>15. CASE Spawn
  <2>1. outcome = "ok" /\ failures = inst - lastGood /\ failures < MaxStartupFailures
    BY <1>15 DEF Spawn, BreakerInv, Judged, Ended
  <2>2. outcome' = outcome /\ spc' = "boot" /\ inst' = inst + 1
        /\ failures' = failures /\ lastGood' = lastGood
    BY <1>15 DEF Spawn, Goto, history
  <2>3. Judged' = inst
    BY <1>0, <2>1, <2>2 DEF Judged
  <2> QED
    BY <2>1, <2>2, <2>3 DEF BreakerInv
<1>16. CASE SpawnFails
  BY <1>16, <1>0 DEF SpawnFails, ReplaceInv, BreakerInv, Judged, Ended
<1>17. CASE Reboot
  BY <1>17, <1>0 DEF Reboot, BeginBooting, InitialPhase, HasReadiness, ReplaceInv,
         BreakerInv, Judged, Ended
<1>18. CASE WireRepl
  BY <1>18, <1>0 DEF WireRepl, ReplaceInv, BreakerInv, Judged, Ended
<1>19. CASE LastWords
  BY <1>19, <1>0 DEF LastWords, SendCtl, Deliver, ReplaceInv, BreakerInv, Judged,
         Ended
<1>20. CASE StopServer
  BY <1>20, <1>0 DEF StopServer, Stop, ReplaceInv, BreakerInv, Judged, Ended
<1>21. CASE Cleanup
  BY <1>21, <1>0 DEF Cleanup, Kill, ReplaceInv, BreakerInv, Judged, Ended
<1>22. CASE NobodyWaiting
  BY <1>22, <1>0 DEF NobodyWaiting, ReplaceInv, BreakerInv, Judged, Ended
<1>23. ASSUME NEW c \in Clients, Accept(c)
      PROVE  BreakerInv'
  BY <1>23, <1>0 DEF Accept, TryAccept, ReplaceInv, BreakerInv, Judged, Ended
<1>24. ASSUME NEW c \in Clients, Refuse(c)
      PROVE  BreakerInv'
  BY <1>24, <1>0 DEF Refuse, ReplaceInv, BreakerInv, Judged, Ended
<1>25. ASSUME NEW c \in Clients, Greet(c)
      PROVE  BreakerInv'
  BY <1>25, <1>0 DEF Greet, SendCtl, Deliver, ReplaceInv, BreakerInv, Judged, Ended
<1>26. ASSUME NEW s \in Streams, PumpRead(s)
      PROVE  BreakerInv'
  BY <1>26, <1>0 DEF PumpRead, Handling, ReplaceInv, BreakerInv, Judged, Ended
<1>27. ASSUME NEW s \in Streams, PumpReady(s)
      PROVE  BreakerInv'
  BY <1>27, <1>0 DEF PumpReady, Ready, PumpNext, ReplaceInv, BreakerInv, Judged,
         Ended
<1>28. ASSUME NEW s \in Streams, PumpWarmup(s)
      PROVE  BreakerInv'
  BY <1>28, <1>0 DEF PumpWarmup, WarmupDone, PumpNext, ReplaceInv, BreakerInv,
         Judged, Ended
<1>29. ASSUME NEW s \in Streams, PumpRoute(s)
      PROVE  BreakerInv'
  BY <1>29, <1>0 DEF PumpRoute, Deliver, PumpNext, ReplaceInv, BreakerInv, Judged,
         Ended
<1>30. ASSUME NEW s \in Streams, PumpBoundary(s)
      PROVE  BreakerInv'
  BY <1>30, <1>0 DEF PumpBoundary, ResponseEnd, PumpNext, ReplaceInv, BreakerInv,
         Judged, Ended
<1>31. ASSUME NEW s \in Streams, PumpEof(s)
      PROVE  BreakerInv'
  BY <1>31, <1>0 DEF PumpEof, ReplaceInv, BreakerInv, Judged, Ended
<1>32. ASSUME NEW c \in Clients, WaitUntilReady(c)
      PROVE  BreakerInv'
  BY <1>32, <1>0 DEF WaitUntilReady, ReplaceInv, BreakerInv, Judged, Ended
<1>33. ASSUME NEW c \in Clients, ReadInput(c)
      PROVE  BreakerInv'
  BY <1>33, <1>0 DEF ReadInput, ReplaceInv, BreakerInv, Judged, Ended
<1>34. ASSUME NEW c \in Clients, ReadEof(c)
      PROVE  BreakerInv'
  BY <1>34, <1>0 DEF ReadEof, ReplaceInv, BreakerInv, Judged, Ended
<1>35. ASSUME NEW c \in Clients, StartRequest(c)
      PROVE  BreakerInv'
  BY <1>35, <1>0 DEF StartRequest, RequestStart, ReplaceInv, BreakerInv, Judged,
         Ended
<1>36. ASSUME NEW c \in Clients, Forward(c)
      PROVE  BreakerInv'
  BY <1>36, <1>0 DEF Forward, StdinOpen, ReplaceInv, BreakerInv, Judged, Ended
<1>37. ASSUME NEW c \in Clients, Gone(c)
      PROVE  BreakerInv'
  BY <1>37, <1>0 DEF Gone, ClientGone, ReplaceInv, BreakerInv, Judged, Ended
<1>38. ASSUME NEW c \in Clients, Connect(c)
      PROVE  BreakerInv'
  BY <1>38, <1>0 DEF Connect, ReplaceInv, BreakerInv, Judged, Ended
<1>39. ASSUME NEW c \in Clients, Send(c)
      PROVE  BreakerInv'
  BY <1>39, <1>0 DEF Send, ReplaceInv, BreakerInv, Judged, Ended
<1>40. ASSUME NEW c \in Clients, Leave(c)
      PROVE  BreakerInv'
  BY <1>40, <1>0 DEF Leave, ReplaceInv, BreakerInv, Judged, Ended
<1>41. CASE ReplReads
  BY <1>41, <1>0 DEF ReplReads, ReplaceInv, BreakerInv, Judged, Ended
<1>42. ASSUME NEW s \in Streams, NEW mark \in BOOLEAN, ReplPrints(s, mark)
      PROVE  BreakerInv'
  BY <1>42, <1>0 DEF ReplPrints, ReplaceInv, BreakerInv, Judged, Ended
<1>43. CASE ReplDies
  BY <1>43, <1>0 DEF ReplDies, ReplaceInv, BreakerInv, Judged, Ended
<1>44. CASE Signal
  BY <1>44, <1>0 DEF Signal, ReplaceInv, BreakerInv, Judged, Ended
<1>45. CASE UNCHANGED vars
  BY <1>45, <1>0 DEF vars, ReplaceInv, BreakerInv, Judged, Ended
<1> QED
  BY <1>1, <1>2, <1>3, <1>4, <1>5, <1>6, <1>7, <1>8, <1>9, <1>10, <1>11, <1>12,
     <1>13, <1>14, <1>15, <1>16, <1>17, <1>18, <1>19, <1>20, <1>21, <1>22, <1>23,
     <1>24, <1>25, <1>26, <1>27, <1>28, <1>29, <1>30, <1>31, <1>32, <1>33, <1>34,
     <1>35, <1>36, <1>37, <1>38, <1>39, <1>40, <1>41, <1>42, <1>43, <1>44, <1>45
     DEF Next, Supervise, Pump, ClientIn, Surroundings, Exited

\* Stopped is entered on the way out of the loop and nothing leads back into it.
THEOREM StopStep ==
  ReplaceInv /\ StopInv /\ [Next]_vars => StopInv'
<1> SUFFICES ASSUME ReplaceInv, StopInv, [Next]_vars
             PROVE  StopInv'
  OBVIOUS
<1> USE DEF Goto, ClientGoto, core, shared, supervisor, pumps, clients, repl, history
<1>1. CASE LoopTop
  BY <1>1 DEF LoopTop, StopInv, ReplaceInv, Running
<1>2. CASE NothingDue
  BY <1>2 DEF NothingDue, StopInv, ReplaceInv, Running
<1>3. CASE Due
  BY <1>3 DEF Due, StopInv, ReplaceInv, Running
<1>4. CASE ReadyWaitElapsed
  BY <1>4 DEF ReadyWaitElapsed, Ready, StopInv, ReplaceInv, Running
<1>5. CASE MarkerTimeout
  BY <1>5 DEF MarkerTimeout, Kill, StopInv, ReplaceInv, Running
<1>6. CASE SendWarmup
  BY <1>6 DEF SendWarmup, StdinOpen, StopInv, ReplaceInv, Running
<1>7. CASE MarkWarmupSent
  BY <1>7 DEF MarkWarmupSent, StopInv, ReplaceInv, Running
<1>8. CASE WarmupWaitElapsed
  BY <1>8 DEF WarmupWaitElapsed, WarmupDone, StopInv, ReplaceInv, Running
<1>9. CASE DrainTimeout
  BY <1>9 DEF DrainTimeout, Kill, StopInv, ReplaceInv, Running
<1>10. CASE Reap
  BY <1>10 DEF Reap, StopInv, ReplaceInv, Running
<1>11. CASE StillRunning
  BY <1>11 DEF StillRunning, StopInv, ReplaceInv, Running
<1>12. CASE ReapFails
  BY <1>12 DEF ReapFails, StopInv, ReplaceInv, Running
<1>13. ASSUME NEW young \in BOOLEAN, JoinAndJudge(young)
      PROVE  StopInv'
  BY <1>13 DEF JoinAndJudge, StopInv, ReplaceInv, Running
<1>14. CASE ClearSink
  BY <1>14 DEF ClearSink, StopInv, ReplaceInv, Running
<1>15. CASE Spawn
  BY <1>15 DEF Spawn, StopInv, ReplaceInv, Running
<1>16. CASE SpawnFails
  BY <1>16 DEF SpawnFails, StopInv, ReplaceInv, Running
<1>17. CASE Reboot
  BY <1>17 DEF Reboot, BeginBooting, InitialPhase, HasReadiness, StopInv, ReplaceInv,
         Running
<1>18. CASE WireRepl
  BY <1>18 DEF WireRepl, StopInv, ReplaceInv, Running
<1>19. CASE LastWords
  BY <1>19 DEF LastWords, SendCtl, Deliver, StopInv, ReplaceInv, Running
<1>20. CASE StopServer
  BY <1>20 DEF StopServer, Stop, StopInv, ReplaceInv, Running
<1>21. CASE Cleanup
  BY <1>21 DEF Cleanup, Kill, StopInv, ReplaceInv, Running
<1>22. CASE NobodyWaiting
  BY <1>22 DEF NobodyWaiting, StopInv, ReplaceInv, Running
<1>23. ASSUME NEW c \in Clients, Accept(c)
      PROVE  StopInv'
  BY <1>23 DEF Accept, TryAccept, StopInv, ReplaceInv, Running
<1>24. ASSUME NEW c \in Clients, Refuse(c)
      PROVE  StopInv'
  BY <1>24 DEF Refuse, StopInv, ReplaceInv, Running
<1>25. ASSUME NEW c \in Clients, Greet(c)
      PROVE  StopInv'
  BY <1>25 DEF Greet, SendCtl, Deliver, StopInv, ReplaceInv, Running
<1>26. ASSUME NEW s \in Streams, PumpRead(s)
      PROVE  StopInv'
  BY <1>26 DEF PumpRead, Handling, StopInv, ReplaceInv, Running
<1>27. ASSUME NEW s \in Streams, PumpReady(s)
      PROVE  StopInv'
  BY <1>27 DEF PumpReady, Ready, PumpNext, StopInv, ReplaceInv, Running
<1>28. ASSUME NEW s \in Streams, PumpWarmup(s)
      PROVE  StopInv'
  BY <1>28 DEF PumpWarmup, WarmupDone, PumpNext, StopInv, ReplaceInv, Running
<1>29. ASSUME NEW s \in Streams, PumpRoute(s)
      PROVE  StopInv'
  BY <1>29 DEF PumpRoute, Deliver, PumpNext, StopInv, ReplaceInv, Running
<1>30. ASSUME NEW s \in Streams, PumpBoundary(s)
      PROVE  StopInv'
  BY <1>30 DEF PumpBoundary, ResponseEnd, PumpNext, StopInv, ReplaceInv, Running
<1>31. ASSUME NEW s \in Streams, PumpEof(s)
      PROVE  StopInv'
  BY <1>31 DEF PumpEof, StopInv, ReplaceInv, Running
<1>32. ASSUME NEW c \in Clients, WaitUntilReady(c)
      PROVE  StopInv'
  BY <1>32 DEF WaitUntilReady, StopInv, ReplaceInv, Running
<1>33. ASSUME NEW c \in Clients, ReadInput(c)
      PROVE  StopInv'
  BY <1>33 DEF ReadInput, StopInv, ReplaceInv, Running
<1>34. ASSUME NEW c \in Clients, ReadEof(c)
      PROVE  StopInv'
  BY <1>34 DEF ReadEof, StopInv, ReplaceInv, Running
<1>35. ASSUME NEW c \in Clients, StartRequest(c)
      PROVE  StopInv'
  BY <1>35 DEF StartRequest, RequestStart, StopInv, ReplaceInv, Running
<1>36. ASSUME NEW c \in Clients, Forward(c)
      PROVE  StopInv'
  BY <1>36 DEF Forward, StdinOpen, StopInv, ReplaceInv, Running
<1>37. ASSUME NEW c \in Clients, Gone(c)
      PROVE  StopInv'
  BY <1>37 DEF Gone, ClientGone, StopInv, ReplaceInv, Running
<1>38. ASSUME NEW c \in Clients, Connect(c)
      PROVE  StopInv'
  BY <1>38 DEF Connect, StopInv, ReplaceInv, Running
<1>39. ASSUME NEW c \in Clients, Send(c)
      PROVE  StopInv'
  BY <1>39 DEF Send, StopInv, ReplaceInv, Running
<1>40. ASSUME NEW c \in Clients, Leave(c)
      PROVE  StopInv'
  BY <1>40 DEF Leave, StopInv, ReplaceInv, Running
<1>41. CASE ReplReads
  BY <1>41 DEF ReplReads, StopInv, ReplaceInv, Running
<1>42. ASSUME NEW s \in Streams, NEW mark \in BOOLEAN, ReplPrints(s, mark)
      PROVE  StopInv'
  BY <1>42 DEF ReplPrints, StopInv, ReplaceInv, Running
<1>43. CASE ReplDies
  BY <1>43 DEF ReplDies, StopInv, ReplaceInv, Running
<1>44. CASE Signal
  BY <1>44 DEF Signal, StopInv, ReplaceInv, Running
<1>45. CASE UNCHANGED vars
  BY <1>45 DEF vars, StopInv, ReplaceInv, Running
<1> QED
  BY <1>1, <1>2, <1>3, <1>4, <1>5, <1>6, <1>7, <1>8, <1>9, <1>10, <1>11, <1>12,
     <1>13, <1>14, <1>15, <1>16, <1>17, <1>18, <1>19, <1>20, <1>21, <1>22, <1>23,
     <1>24, <1>25, <1>26, <1>27, <1>28, <1>29, <1>30, <1>31, <1>32, <1>33, <1>34,
     <1>35, <1>36, <1>37, <1>38, <1>39, <1>40, <1>41, <1>42, <1>43, <1>44, <1>45
     DEF Next, Supervise, Pump, ClientIn, Surroundings, Exited

\* The slot, the reservation and the forwarding of output always have a client_in
\* thread that will end them.
THEOREM ThreadStep ==
  TypeOK /\ ThreadInv /\ [Next]_vars => ThreadInv'
<1> SUFFICES ASSUME TypeOK, ThreadInv, [Next]_vars
             PROVE  ThreadInv'
  OBVIOUS
<1> USE DEF Goto, ClientGoto, core, shared, supervisor, pumps, clients, repl, history
<1>a. /\ cpc \in [Clients -> {"none", "queued", "greet", "wait", "read", "start", "fwait",
                         "fwrite", "gone", "done"}]
      /\ sink \in Clients \cup {None}
      /\ dropped \subseteq Clients
  BY DEF TypeOK, SharedTypeOK, ClientsTypeOK, HistoryTypeOK
<1>0. /\ cpc \in [Clients -> {"none", "queued", "greet", "wait", "read", "start", "fwait",
                         "fwrite", "gone", "done"}]
      /\ sink \in Clients \cup {None}
      /\ dropped \subseteq Clients
      /\ None \notin Clients
  BY <1>a, Names
<1>1. CASE LoopTop
  BY <1>1, <1>0 DEF LoopTop, ThreadInv, Threads, SlotHasThread, BusyHasThread,
         ServingHasThread, DrainingUnlessDropped
<1>2. CASE NothingDue
  BY <1>2, <1>0 DEF NothingDue, ThreadInv, Threads, SlotHasThread, BusyHasThread,
         ServingHasThread, DrainingUnlessDropped
<1>3. CASE Due
  BY <1>3, <1>0 DEF Due, ThreadInv, Threads, SlotHasThread, BusyHasThread,
         ServingHasThread, DrainingUnlessDropped
<1>4. CASE ReadyWaitElapsed
  BY <1>4, <1>0 DEF ReadyWaitElapsed, Ready, ThreadInv, Threads, SlotHasThread,
         BusyHasThread, ServingHasThread, DrainingUnlessDropped
<1>5. CASE MarkerTimeout
  BY <1>5, <1>0 DEF MarkerTimeout, Kill, ThreadInv, Threads, SlotHasThread,
         BusyHasThread, ServingHasThread, DrainingUnlessDropped
<1>6. CASE SendWarmup
  BY <1>6, <1>0 DEF SendWarmup, StdinOpen, ThreadInv, Threads, SlotHasThread,
         BusyHasThread, ServingHasThread, DrainingUnlessDropped
<1>7. CASE MarkWarmupSent
  BY <1>7, <1>0 DEF MarkWarmupSent, ThreadInv, Threads, SlotHasThread, BusyHasThread,
         ServingHasThread, DrainingUnlessDropped
<1>8. CASE WarmupWaitElapsed
  BY <1>8, <1>0 DEF WarmupWaitElapsed, WarmupDone, ThreadInv, Threads, SlotHasThread,
         BusyHasThread, ServingHasThread, DrainingUnlessDropped
<1>9. CASE DrainTimeout
  BY <1>9, <1>0 DEF DrainTimeout, Kill, ThreadInv, Threads, SlotHasThread,
         BusyHasThread, ServingHasThread, DrainingUnlessDropped
<1>10. CASE Reap
  BY <1>10, <1>0 DEF Reap, ThreadInv, Threads, SlotHasThread, BusyHasThread,
         ServingHasThread, DrainingUnlessDropped
<1>11. CASE StillRunning
  BY <1>11, <1>0 DEF StillRunning, ThreadInv, Threads, SlotHasThread, BusyHasThread,
         ServingHasThread, DrainingUnlessDropped
<1>12. CASE ReapFails
  BY <1>12, <1>0 DEF ReapFails, ThreadInv, Threads, SlotHasThread, BusyHasThread,
         ServingHasThread, DrainingUnlessDropped
<1>13. ASSUME NEW young \in BOOLEAN, JoinAndJudge(young)
      PROVE  ThreadInv'
  BY <1>13, <1>0 DEF JoinAndJudge, ThreadInv, Threads, SlotHasThread, BusyHasThread,
         ServingHasThread, DrainingUnlessDropped
<1>14. CASE ClearSink
  BY <1>14, <1>0 DEF ClearSink, ThreadInv, Threads, SlotHasThread, BusyHasThread,
         ServingHasThread, DrainingUnlessDropped
<1>15. CASE Spawn
  BY <1>15, <1>0 DEF Spawn, ThreadInv, Threads, SlotHasThread, BusyHasThread,
         ServingHasThread, DrainingUnlessDropped
<1>16. CASE SpawnFails
  BY <1>16, <1>0 DEF SpawnFails, ThreadInv, Threads, SlotHasThread, BusyHasThread,
         ServingHasThread, DrainingUnlessDropped
<1>17. CASE Reboot
  BY <1>17, <1>0 DEF Reboot, BeginBooting, InitialPhase, HasReadiness, ThreadInv,
         Threads, SlotHasThread, BusyHasThread, ServingHasThread,
         DrainingUnlessDropped
<1>18. CASE WireRepl
  BY <1>18, <1>0 DEF WireRepl, ThreadInv, Threads, SlotHasThread, BusyHasThread,
         ServingHasThread, DrainingUnlessDropped
<1>19. CASE LastWords
  BY <1>19, <1>0 DEF LastWords, SendCtl, Deliver, ThreadInv, Threads, SlotHasThread,
         BusyHasThread, ServingHasThread, DrainingUnlessDropped
<1>20. CASE StopServer
  BY <1>20, <1>0 DEF StopServer, Stop, ThreadInv, Threads, SlotHasThread,
         BusyHasThread, ServingHasThread, DrainingUnlessDropped
<1>21. CASE Cleanup
  BY <1>21, <1>0 DEF Cleanup, Kill, ThreadInv, Threads, SlotHasThread, BusyHasThread,
         ServingHasThread, DrainingUnlessDropped
<1>22. CASE NobodyWaiting
  BY <1>22, <1>0 DEF NobodyWaiting, ThreadInv, Threads, SlotHasThread, BusyHasThread,
         ServingHasThread, DrainingUnlessDropped
<1>23. ASSUME NEW c \in Clients, Accept(c)
      PROVE  ThreadInv'
  BY <1>23, <1>0 DEF Accept, TryAccept, Acceptable, ThreadInv, Threads,
         SlotHasThread, BusyHasThread, ServingHasThread, DrainingUnlessDropped
<1>24. ASSUME NEW c \in Clients, Refuse(c)
      PROVE  ThreadInv'
  BY <1>24, <1>0 DEF Refuse, ThreadInv, Threads, SlotHasThread, BusyHasThread,
         ServingHasThread, DrainingUnlessDropped
<1>25. ASSUME NEW c \in Clients, Greet(c)
      PROVE  ThreadInv'
  BY <1>25, <1>0 DEF Greet, SendCtl, Deliver, ThreadInv, Threads, SlotHasThread,
         BusyHasThread, ServingHasThread, DrainingUnlessDropped
<1>26. ASSUME NEW s \in Streams, PumpRead(s)
      PROVE  ThreadInv'
  BY <1>26, <1>0 DEF PumpRead, Handling, ThreadInv, Threads, SlotHasThread,
         BusyHasThread, ServingHasThread, DrainingUnlessDropped
<1>27. ASSUME NEW s \in Streams, PumpReady(s)
      PROVE  ThreadInv'
  BY <1>27, <1>0 DEF PumpReady, Ready, PumpNext, ThreadInv, Threads, SlotHasThread,
         BusyHasThread, ServingHasThread, DrainingUnlessDropped
<1>28. ASSUME NEW s \in Streams, PumpWarmup(s)
      PROVE  ThreadInv'
  BY <1>28, <1>0 DEF PumpWarmup, WarmupDone, PumpNext, ThreadInv, Threads,
         SlotHasThread, BusyHasThread, ServingHasThread, DrainingUnlessDropped
<1>29. ASSUME NEW s \in Streams, PumpRoute(s)
      PROVE  ThreadInv'
  BY <1>29, <1>0 DEF PumpRoute, Deliver, PumpNext, ThreadInv, Threads, SlotHasThread,
         BusyHasThread, ServingHasThread, DrainingUnlessDropped
<1>30. ASSUME NEW s \in Streams, PumpBoundary(s)
      PROVE  ThreadInv'
  BY <1>30, <1>0 DEF PumpBoundary, ResponseEnd, PumpNext, ThreadInv, Threads,
         SlotHasThread, BusyHasThread, ServingHasThread, DrainingUnlessDropped
<1>31. ASSUME NEW s \in Streams, PumpEof(s)
      PROVE  ThreadInv'
  BY <1>31, <1>0 DEF PumpEof, ThreadInv, Threads, SlotHasThread, BusyHasThread,
         ServingHasThread, DrainingUnlessDropped
<1>32. ASSUME NEW c \in Clients, WaitUntilReady(c)
      PROVE  ThreadInv'
  BY <1>32, <1>0 DEF WaitUntilReady, ThreadInv, Threads, SlotHasThread,
         BusyHasThread, ServingHasThread, DrainingUnlessDropped
<1>33. ASSUME NEW c \in Clients, ReadInput(c)
      PROVE  ThreadInv'
  BY <1>33, <1>0 DEF ReadInput, ThreadInv, Threads, SlotHasThread, BusyHasThread,
         ServingHasThread, DrainingUnlessDropped
<1>34. ASSUME NEW c \in Clients, ReadEof(c)
      PROVE  ThreadInv'
  BY <1>34, <1>0 DEF ReadEof, ThreadInv, Threads, SlotHasThread, BusyHasThread,
         ServingHasThread, DrainingUnlessDropped
<1>35. ASSUME NEW c \in Clients, StartRequest(c)
      PROVE  ThreadInv'
  BY <1>35, <1>0 DEF StartRequest, RequestStart, ThreadInv, Threads, SlotHasThread,
         BusyHasThread, ServingHasThread, DrainingUnlessDropped
<1>36. ASSUME NEW c \in Clients, Forward(c)
      PROVE  ThreadInv'
  BY <1>36, <1>0 DEF Forward, StdinOpen, ThreadInv, Threads, SlotHasThread,
         BusyHasThread, ServingHasThread, DrainingUnlessDropped
<1>37. ASSUME NEW c \in Clients, Gone(c)
      PROVE  ThreadInv'
  BY <1>37, <1>0 DEF Gone, ClientGone, ThreadInv, Threads, SlotHasThread,
         BusyHasThread, ServingHasThread, DrainingUnlessDropped
<1>38. ASSUME NEW c \in Clients, Connect(c)
      PROVE  ThreadInv'
  BY <1>38, <1>0 DEF Connect, ThreadInv, Threads, SlotHasThread, BusyHasThread,
         ServingHasThread, DrainingUnlessDropped
<1>39. ASSUME NEW c \in Clients, Send(c)
      PROVE  ThreadInv'
  BY <1>39, <1>0 DEF Send, ThreadInv, Threads, SlotHasThread, BusyHasThread,
         ServingHasThread, DrainingUnlessDropped
<1>40. ASSUME NEW c \in Clients, Leave(c)
      PROVE  ThreadInv'
  BY <1>40, <1>0 DEF Leave, ThreadInv, Threads, SlotHasThread, BusyHasThread,
         ServingHasThread, DrainingUnlessDropped
<1>41. CASE ReplReads
  BY <1>41, <1>0 DEF ReplReads, ThreadInv, Threads, SlotHasThread, BusyHasThread,
         ServingHasThread, DrainingUnlessDropped
<1>42. ASSUME NEW s \in Streams, NEW mark \in BOOLEAN, ReplPrints(s, mark)
      PROVE  ThreadInv'
  BY <1>42, <1>0 DEF ReplPrints, ThreadInv, Threads, SlotHasThread, BusyHasThread,
         ServingHasThread, DrainingUnlessDropped
<1>43. CASE ReplDies
  BY <1>43, <1>0 DEF ReplDies, ThreadInv, Threads, SlotHasThread, BusyHasThread,
         ServingHasThread, DrainingUnlessDropped
<1>44. CASE Signal
  BY <1>44, <1>0 DEF Signal, ThreadInv, Threads, SlotHasThread, BusyHasThread,
         ServingHasThread, DrainingUnlessDropped
<1>45. CASE UNCHANGED vars
  BY <1>45, <1>0 DEF vars, ThreadInv, Threads, SlotHasThread, BusyHasThread,
         ServingHasThread, DrainingUnlessDropped
<1> QED
  BY <1>1, <1>2, <1>3, <1>4, <1>5, <1>6, <1>7, <1>8, <1>9, <1>10, <1>11, <1>12,
     <1>13, <1>14, <1>15, <1>16, <1>17, <1>18, <1>19, <1>20, <1>21, <1>22, <1>23,
     <1>24, <1>25, <1>26, <1>27, <1>28, <1>29, <1>30, <1>31, <1>32, <1>33, <1>34,
     <1>35, <1>36, <1>37, <1>38, <1>39, <1>40, <1>41, <1>42, <1>43, <1>44, <1>45
     DEF Next, Supervise, Pump, ClientIn, Surroundings, Exited

\* Clients are let through to a process only after its warmup has been written.
THEOREM WarmupStep ==
  TypeOK /\ ReplaceInv /\ StopInv /\ WarmupInv /\ [Next]_vars => WarmupInv'
<1> SUFFICES ASSUME TypeOK, ReplaceInv, StopInv, WarmupInv, [Next]_vars
             PROVE  WarmupInv'
  OBVIOUS
<1> USE DEF Goto, ClientGoto, core, shared, supervisor, pumps, clients, repl, history
<1>a. /\ cpc \in [Clients -> {"none", "queued", "greet", "wait", "read", "start", "fwait",
                         "fwrite", "gone", "done"}]
      /\ fed \in Seq(Clients \cup {"warmup"})
      /\ born \in [Clients -> 0..inst] /\ inst \in Nat
      /\ alive \in BOOLEAN /\ warmupSent \in BOOLEAN
  BY DEF TypeOK, SharedTypeOK, ClientsTypeOK, HistoryTypeOK, ReplTypeOK
<1>0. /\ cpc \in [Clients -> {"none", "queued", "greet", "wait", "read", "start", "fwait",
                         "fwrite", "gone", "done"}]
      /\ fed \in Seq(Clients \cup {"warmup"})
      /\ born \in [Clients -> 0..inst] /\ inst \in Nat
      /\ alive \in BOOLEAN /\ warmupSent \in BOOLEAN
      /\ "warmup" \notin Clients
  BY <1>a, Names
<1>1. CASE LoopTop
  BY <1>1, <1>0 DEF LoopTop, WarmupInv, WarmupBeforeInput
<1>2. CASE NothingDue
  BY <1>2, <1>0 DEF NothingDue, WarmupInv, WarmupBeforeInput
<1>3. CASE Due
  BY <1>3, <1>0 DEF Due, WarmupInv, WarmupBeforeInput
<1>4. CASE ReadyWaitElapsed
  BY <1>4, <1>0 DEF ReadyWaitElapsed, Ready, WarmupInv, WarmupBeforeInput
<1>5. CASE MarkerTimeout
  BY <1>5, <1>0 DEF MarkerTimeout, Kill, WarmupInv, WarmupBeforeInput
<1>6. CASE SendWarmup
  BY <1>6, <1>0 DEF SendWarmup, StdinOpen, ReplaceInv, WarmupInv, WarmupBeforeInput
<1>7. CASE MarkWarmupSent
  BY <1>7, <1>0 DEF MarkWarmupSent, WarmupInv, WarmupBeforeInput
<1>8. CASE WarmupWaitElapsed
  BY <1>8, <1>0 DEF WarmupWaitElapsed, WarmupDone, WarmupInv, WarmupBeforeInput
<1>9. CASE DrainTimeout
  BY <1>9, <1>0 DEF DrainTimeout, Kill, WarmupInv, WarmupBeforeInput
<1>10. CASE Reap
  BY <1>10, <1>0 DEF Reap, WarmupInv, WarmupBeforeInput
<1>11. CASE StillRunning
  BY <1>11, <1>0 DEF StillRunning, WarmupInv, WarmupBeforeInput
<1>12. CASE ReapFails
  BY <1>12, <1>0 DEF ReapFails, WarmupInv, WarmupBeforeInput
<1>13. ASSUME NEW young \in BOOLEAN, JoinAndJudge(young)
      PROVE  WarmupInv'
  BY <1>13, <1>0 DEF JoinAndJudge, WarmupInv, WarmupBeforeInput
<1>14. CASE ClearSink
  BY <1>14, <1>0 DEF ClearSink, WarmupInv, WarmupBeforeInput
<1>15. CASE Spawn
  BY <1>15, <1>0 DEF Spawn, WarmupInv, WarmupBeforeInput
<1>16. CASE SpawnFails
  BY <1>16, <1>0 DEF SpawnFails, WarmupInv, WarmupBeforeInput
<1>17. CASE Reboot
  BY <1>17, <1>0 DEF Reboot, BeginBooting, InitialPhase, HasReadiness, WarmupInv,
         WarmupBeforeInput
<1>18. CASE WireRepl
  BY <1>18, <1>0 DEF WireRepl, WarmupInv, WarmupBeforeInput
<1>19. CASE LastWords
  BY <1>19, <1>0 DEF LastWords, SendCtl, Deliver, WarmupInv, WarmupBeforeInput
<1>20. CASE StopServer
  BY <1>20, <1>0 DEF StopServer, Stop, StopInv, WarmupInv, WarmupBeforeInput
<1>21. CASE Cleanup
  BY <1>21, <1>0 DEF Cleanup, Kill, WarmupInv, WarmupBeforeInput
<1>22. CASE NobodyWaiting
  BY <1>22, <1>0 DEF NobodyWaiting, WarmupInv, WarmupBeforeInput
<1>23. ASSUME NEW c \in Clients, Accept(c)
      PROVE  WarmupInv'
  <2>1. /\ cpc' = [cpc EXCEPT ![c] = "greet"] /\ born' = [born EXCEPT ![c] = inst]
        /\ phase \in {"Booting", "Warmup", "Idle"} /\ UNCHANGED <<phase, fed, inst, alive, warmupSent>>
        /\ spc' = "greet" /\ spc = "accept" /\ cpc[c] = "queued"
    BY <1>23 DEF Accept, TryAccept, Acceptable, Goto, repl
  <2>2. \A j \in DOMAIN fed : fed[j] # c
    BY <2>1 DEF WarmupInv
  <2>3. WarmupBeforeInput'
    BY <1>0, <2>1, <2>2 DEF WarmupInv, WarmupBeforeInput
  <2> QED
    BY <1>0, <2>1, <2>2, <2>3 DEF WarmupInv
<1>24. ASSUME NEW c \in Clients, Refuse(c)
      PROVE  WarmupInv'
  BY <1>24, <1>0 DEF Refuse, WarmupInv, WarmupBeforeInput
<1>25. ASSUME NEW c \in Clients, Greet(c)
      PROVE  WarmupInv'
  BY <1>25, <1>0 DEF Greet, SendCtl, Deliver, WarmupInv, WarmupBeforeInput
<1>26. ASSUME NEW s \in Streams, PumpRead(s)
      PROVE  WarmupInv'
  BY <1>26, <1>0 DEF PumpRead, Handling, WarmupInv, WarmupBeforeInput
<1>27. ASSUME NEW s \in Streams, PumpReady(s)
      PROVE  WarmupInv'
  BY <1>27, <1>0 DEF PumpReady, Ready, PumpNext, WarmupInv, WarmupBeforeInput
<1>28. ASSUME NEW s \in Streams, PumpWarmup(s)
      PROVE  WarmupInv'
  BY <1>28, <1>0 DEF PumpWarmup, WarmupDone, PumpNext, WarmupInv, WarmupBeforeInput
<1>29. ASSUME NEW s \in Streams, PumpRoute(s)
      PROVE  WarmupInv'
  BY <1>29, <1>0 DEF PumpRoute, Deliver, PumpNext, WarmupInv, WarmupBeforeInput
<1>30. ASSUME NEW s \in Streams, PumpBoundary(s)
      PROVE  WarmupInv'
  BY <1>30, <1>0 DEF PumpBoundary, ResponseEnd, PumpNext, WarmupInv,
         WarmupBeforeInput
<1>31. ASSUME NEW s \in Streams, PumpEof(s)
      PROVE  WarmupInv'
  BY <1>31, <1>0 DEF PumpEof, WarmupInv, WarmupBeforeInput
<1>32. ASSUME NEW c \in Clients, WaitUntilReady(c)
      PROVE  WarmupInv'
  <2>1. phase \in Phases
    BY DEF TypeOK, SharedTypeOK, CoreTypeOK
  <2>2. /\ UNCHANGED <<phase, warmupSent, spc, born, inst, fed, alive>>
        /\ cpc' = [cpc EXCEPT ![c] = IF shutdown THEN "gone"
                                     ELSE IF cpc[c] = "wait" THEN "read" ELSE "fwrite"]
    BY <1>32 DEF WaitUntilReady, ClientGoto, core, shared, supervisor, repl, history
  <2>3. ~shutdown => phase \in {"Idle", "Busy", "Draining"}
    BY <1>32, <2>1 DEF WaitUntilReady, PreServing, Phases, StopInv
  <2>4. HasWarmup /\ ~shutdown /\ born[c] = inst => warmupSent
    BY <1>0, <2>3 DEF WarmupInv
  <2>5. \A d \in Clients : d # c => cpc'[d] = cpc[d]
    BY <1>0, <2>2
  <2>6. cpc'[c] \in {"gone", "read", "fwrite"} /\ (shutdown => cpc'[c] = "gone")
    BY <1>0, <2>2
  <2>7. WarmupBeforeInput'
    BY <2>2 DEF WarmupInv, WarmupBeforeInput
  <2> QED
    BY <2>2, <2>4, <2>5, <2>6, <2>7 DEF WarmupInv
<1>33. ASSUME NEW c \in Clients, ReadInput(c)
      PROVE  WarmupInv'
  BY <1>33, <1>0 DEF ReadInput, WarmupInv, WarmupBeforeInput
<1>34. ASSUME NEW c \in Clients, ReadEof(c)
      PROVE  WarmupInv'
  BY <1>34, <1>0 DEF ReadEof, WarmupInv, WarmupBeforeInput
<1>35. ASSUME NEW c \in Clients, StartRequest(c)
      PROVE  WarmupInv'
  BY <1>35, <1>0 DEF StartRequest, RequestStart, WarmupInv, WarmupBeforeInput
<1>36. ASSUME NEW c \in Clients, Forward(c)
      PROVE  WarmupInv'
  <2>1. /\ UNCHANGED <<phase, warmupSent, spc, born, inst, alive>>
        /\ cpc[c] = "fwrite"
        /\ \E l \in {"wait", "gone", "fwait"} : cpc' = [cpc EXCEPT ![c] = l]
        /\ cpc'[c] = "fwait" => fed' = fed
    BY <1>0, <1>36 DEF Forward, ClientGoto, core, shared, supervisor, history
  <2>2. \A d \in Clients :
          /\ d # c => cpc'[d] = cpc[d]
          /\ cpc'[d] \in {"none", "queued"} => cpc[d] = cpc'[d] /\ d # c
          /\ cpc'[d] \in {"read", "start", "fwait", "fwrite"}
               => cpc[d] \in {"read", "start", "fwait", "fwrite"}
    BY <1>0, <2>1
  <2>3. CASE fed' = fed
    <3>1. WarmupBeforeInput'
      BY <2>1, <2>3 DEF WarmupInv, WarmupBeforeInput
    <3> QED
      BY <2>1, <2>2, <2>3, <3>1 DEF WarmupInv
  <2>4. CASE StdinOpen /\ fed' = Append(fed, c)
    <3>1. /\ Len(fed') = Len(fed) + 1 /\ Len(fed) \in Nat
          /\ DOMAIN fed = 1..Len(fed) /\ DOMAIN fed' = 1..(Len(fed) + 1)
          /\ \A i \in 1..Len(fed) : fed'[i] = fed[i]
          /\ fed'[Len(fed) + 1] = c
      BY <1>0, <2>4
    <3>2. c # "warmup"
      BY <1>0
    <3>3. HasWarmup /\ born[c] = inst => warmupSent
      BY <2>1 DEF WarmupInv
    <3>4. HasWarmup /\ born[c] = inst => \E j \in 1..Len(fed) : fed[j] = "warmup"
      BY <2>4, <3>1, <3>3 DEF WarmupInv, StdinOpen
    <3>5. WarmupBeforeInput'
      <4>1. \A i, j \in DOMAIN fed' : fed'[i] = "warmup" /\ fed'[j] = "warmup" => i = j
        BY <3>1, <3>2 DEF WarmupInv, WarmupBeforeInput
      <4>2. ASSUME HasWarmup, NEW i \in DOMAIN fed', fed'[i] \in Clients, born[fed'[i]] = inst
            PROVE  \E j \in 1..(i - 1) : fed'[j] = "warmup"
        <5>1. CASE i = Len(fed) + 1
          BY <3>1, <3>4, <4>2, <5>1
        <5>2. CASE i \in 1..Len(fed)
          <6>1. PICK j \in 1..(i - 1) : fed[j] = "warmup"
            BY <3>1, <4>2, <5>2 DEF WarmupInv, WarmupBeforeInput
          <6> QED
            BY <3>1, <5>2, <6>1
        <5> QED
          BY <3>1, <4>2, <5>1, <5>2
      <4> QED
        BY <2>1, <4>1, <4>2 DEF WarmupBeforeInput
    <3>6. \A d \in Clients : cpc'[d] \in {"none", "queued"} => \A j \in DOMAIN fed' : fed'[j] # d
      BY <2>2, <3>1 DEF WarmupInv
    <3>7. /\ (\E j \in DOMAIN fed : fed[j] = "warmup") => \E j \in DOMAIN fed' : fed'[j] = "warmup"
          /\ (\A j \in DOMAIN fed : fed[j] # "warmup") => \A j \in DOMAIN fed' : fed'[j] # "warmup"
      BY <3>1, <3>2
    <3> QED
      BY <2>1, <2>2, <3>5, <3>6, <3>7 DEF WarmupInv
  <2> QED
    BY <1>36, <2>3, <2>4 DEF Forward
<1>37. ASSUME NEW c \in Clients, Gone(c)
      PROVE  WarmupInv'
  BY <1>37, <1>0 DEF Gone, ClientGone, WarmupInv, WarmupBeforeInput
<1>38. ASSUME NEW c \in Clients, Connect(c)
      PROVE  WarmupInv'
  BY <1>38, <1>0 DEF Connect, WarmupInv, WarmupBeforeInput
<1>39. ASSUME NEW c \in Clients, Send(c)
      PROVE  WarmupInv'
  BY <1>39, <1>0 DEF Send, WarmupInv, WarmupBeforeInput
<1>40. ASSUME NEW c \in Clients, Leave(c)
      PROVE  WarmupInv'
  BY <1>40, <1>0 DEF Leave, WarmupInv, WarmupBeforeInput
<1>41. CASE ReplReads
  BY <1>41, <1>0 DEF ReplReads, WarmupInv, WarmupBeforeInput
<1>42. ASSUME NEW s \in Streams, NEW mark \in BOOLEAN, ReplPrints(s, mark)
      PROVE  WarmupInv'
  BY <1>42, <1>0 DEF ReplPrints, WarmupInv, WarmupBeforeInput
<1>43. CASE ReplDies
  BY <1>43, <1>0 DEF ReplDies, WarmupInv, WarmupBeforeInput
<1>44. CASE Signal
  BY <1>44, <1>0 DEF Signal, WarmupInv, WarmupBeforeInput
<1>45. CASE UNCHANGED vars
  BY <1>45, <1>0 DEF vars, WarmupInv, WarmupBeforeInput
<1> QED
  BY <1>1, <1>2, <1>3, <1>4, <1>5, <1>6, <1>7, <1>8, <1>9, <1>10, <1>11, <1>12,
     <1>13, <1>14, <1>15, <1>16, <1>17, <1>18, <1>19, <1>20, <1>21, <1>22, <1>23,
     <1>24, <1>25, <1>26, <1>27, <1>28, <1>29, <1>30, <1>31, <1>32, <1>33, <1>34,
     <1>35, <1>36, <1>37, <1>38, <1>39, <1>40, <1>41, <1>42, <1>43, <1>44, <1>45
     DEF Next, Supervise, Pump, ClientIn, Surroundings, Exited

\* Every step of the threads is a step of Lifecycle or leaves its variables alone.
THEOREM RefinementStep ==
  TypeOK /\ ReplaceInv /\ BreakerInv /\ StopInv /\ [Next]_vars => [Life!Next]_(Life!vars)
<1> SUFFICES ASSUME TypeOK, ReplaceInv, BreakerInv, StopInv, [Next]_vars
             PROVE  [Life!Next]_(Life!vars)
  OBVIOUS
<1> USE DEF Goto, ClientGoto, core, shared, supervisor, pumps, clients, repl, history
<1>0. sink \in Clients \cup {None}
  BY DEF TypeOK, SharedTypeOK
<1>1. CASE LoopTop
  BY <1>1, <1>0 DEF LoopTop, Life!vars
<1>2. CASE NothingDue
  BY <1>2, <1>0 DEF NothingDue, Life!vars
<1>3. CASE Due
  BY <1>3, <1>0 DEF Due, Life!vars
<1>4. CASE ReadyWaitElapsed
  BY <1>4, <1>0 DEF ReadyWaitElapsed, Ready, Life!Next, Life!Booted, Life!vars
<1>5. CASE MarkerTimeout
  BY <1>5, <1>0 DEF MarkerTimeout, Kill, Life!vars
<1>6. CASE SendWarmup
  BY <1>6, <1>0 DEF SendWarmup, StdinOpen, Life!vars
<1>7. CASE MarkWarmupSent
  BY <1>7, <1>0 DEF MarkWarmupSent, Life!vars
<1>8. CASE WarmupWaitElapsed
  BY <1>8, <1>0 DEF WarmupWaitElapsed, WarmupDone, Life!Next, Life!Warmed, Life!vars
<1>9. CASE DrainTimeout
  BY <1>9, <1>0 DEF DrainTimeout, Kill, Life!vars
<1>10. CASE Reap
  BY <1>10, <1>0 DEF Reap, Life!vars
<1>11. CASE StillRunning
  BY <1>11, <1>0 DEF StillRunning, Life!vars
<1>12. CASE ReapFails
  BY <1>12, <1>0 DEF ReapFails, Life!vars
<1>13. ASSUME NEW young \in BOOLEAN, JoinAndJudge(young)
      PROVE  [Life!Next]_(Life!vars)
  BY <1>13, <1>0 DEF JoinAndJudge, Life!Next, Life!Judge, ReplaceInv, BreakerInv,
         StopInv, Ended, Life!vars
<1>14. CASE ClearSink
  BY <1>14, <1>0 DEF ClearSink, Life!Next, Life!Detach, Life!vars
<1>15. CASE Spawn
  BY <1>15, <1>0 DEF Spawn, Life!Next, Life!Replace, ReplaceInv, BreakerInv, StopInv,
         Ended, Life!vars
<1>16. CASE SpawnFails
  BY <1>16, <1>0 DEF SpawnFails, Life!vars
<1>17. CASE Reboot
  BY <1>17, <1>0 DEF Reboot, BeginBooting, InitialPhase, HasReadiness, Life!Next,
         Life!Begin, ReplaceInv, BreakerInv, StopInv, Ended, Life!vars
<1>18. CASE WireRepl
  BY <1>18, <1>0 DEF WireRepl, Life!vars
<1>19. CASE LastWords
  BY <1>19, <1>0 DEF LastWords, SendCtl, Deliver, Life!Next, Life!Detach, Life!vars
<1>20. CASE StopServer
  BY <1>20, <1>0 DEF StopServer, Stop, Life!Next, Life!Stop, Life!vars
<1>21. CASE Cleanup
  BY <1>21, <1>0 DEF Cleanup, Kill, Life!vars
<1>22. CASE NobodyWaiting
  BY <1>22, <1>0 DEF NobodyWaiting, Life!vars
<1>23. ASSUME NEW c \in Clients, Accept(c)
      PROVE  [Life!Next]_(Life!vars)
  BY <1>23, <1>0 DEF Accept, TryAccept, Life!Next, Life!Attach, Acceptable, Life!vars
<1>24. ASSUME NEW c \in Clients, Refuse(c)
      PROVE  [Life!Next]_(Life!vars)
  BY <1>24, <1>0 DEF Refuse, Life!vars
<1>25. ASSUME NEW c \in Clients, Greet(c)
      PROVE  [Life!Next]_(Life!vars)
  BY <1>25, <1>0 DEF Greet, SendCtl, Deliver, Life!Next, Life!Detach, Life!vars
<1>26. ASSUME NEW s \in Streams, PumpRead(s)
      PROVE  [Life!Next]_(Life!vars)
  BY <1>26, <1>0 DEF PumpRead, Handling, Life!vars
<1>27. ASSUME NEW s \in Streams, PumpReady(s)
      PROVE  [Life!Next]_(Life!vars)
  BY <1>27, <1>0 DEF PumpReady, Ready, PumpNext, Life!Next, Life!Booted, Life!vars
<1>28. ASSUME NEW s \in Streams, PumpWarmup(s)
      PROVE  [Life!Next]_(Life!vars)
  BY <1>28, <1>0 DEF PumpWarmup, WarmupDone, PumpNext, Life!Next, Life!Warmed,
         Life!vars
<1>29. ASSUME NEW s \in Streams, PumpRoute(s)
      PROVE  [Life!Next]_(Life!vars)
  BY <1>29, <1>0 DEF PumpRoute, Deliver, PumpNext, Life!Next, Life!Detach, Life!vars
<1>30. ASSUME NEW s \in Streams, PumpBoundary(s)
      PROVE  [Life!Next]_(Life!vars)
  BY <1>30, <1>0 DEF PumpBoundary, ResponseEnd, PumpNext, Life!Next, Life!Respond,
         Life!vars
<1>31. ASSUME NEW s \in Streams, PumpEof(s)
      PROVE  [Life!Next]_(Life!vars)
  BY <1>31, <1>0 DEF PumpEof, Life!vars
<1>32. ASSUME NEW c \in Clients, WaitUntilReady(c)
      PROVE  [Life!Next]_(Life!vars)
  BY <1>32, <1>0 DEF WaitUntilReady, Life!vars
<1>33. ASSUME NEW c \in Clients, ReadInput(c)
      PROVE  [Life!Next]_(Life!vars)
  BY <1>33, <1>0 DEF ReadInput, Life!vars
<1>34. ASSUME NEW c \in Clients, ReadEof(c)
      PROVE  [Life!Next]_(Life!vars)
  BY <1>34, <1>0 DEF ReadEof, Life!vars
<1>35. ASSUME NEW c \in Clients, StartRequest(c)
      PROVE  [Life!Next]_(Life!vars)
  BY <1>35, <1>0 DEF StartRequest, RequestStart, Life!Next, Life!Request, Life!vars
<1>36. ASSUME NEW c \in Clients, Forward(c)
      PROVE  [Life!Next]_(Life!vars)
  BY <1>36, <1>0 DEF Forward, StdinOpen, Life!vars
<1>37. ASSUME NEW c \in Clients, Gone(c)
      PROVE  [Life!Next]_(Life!vars)
  BY <1>37, <1>0 DEF Gone, ClientGone, Life!Next, Life!Detach, Life!vars
<1>38. ASSUME NEW c \in Clients, Connect(c)
      PROVE  [Life!Next]_(Life!vars)
  BY <1>38, <1>0 DEF Connect, Life!vars
<1>39. ASSUME NEW c \in Clients, Send(c)
      PROVE  [Life!Next]_(Life!vars)
  BY <1>39, <1>0 DEF Send, Life!vars
<1>40. ASSUME NEW c \in Clients, Leave(c)
      PROVE  [Life!Next]_(Life!vars)
  BY <1>40, <1>0 DEF Leave, Life!vars
<1>41. CASE ReplReads
  BY <1>41, <1>0 DEF ReplReads, Life!vars
<1>42. ASSUME NEW s \in Streams, NEW mark \in BOOLEAN, ReplPrints(s, mark)
      PROVE  [Life!Next]_(Life!vars)
  BY <1>42, <1>0 DEF ReplPrints, Life!vars
<1>43. CASE ReplDies
  BY <1>43, <1>0 DEF ReplDies, Life!vars
<1>44. CASE Signal
  BY <1>44, <1>0 DEF Signal, Life!vars
<1>45. CASE UNCHANGED vars
  BY <1>45, <1>0 DEF vars, Life!vars
<1> QED
  BY <1>1, <1>2, <1>3, <1>4, <1>5, <1>6, <1>7, <1>8, <1>9, <1>10, <1>11, <1>12,
     <1>13, <1>14, <1>15, <1>16, <1>17, <1>18, <1>19, <1>20, <1>21, <1>22, <1>23,
     <1>24, <1>25, <1>26, <1>27, <1>28, <1>29, <1>30, <1>31, <1>32, <1>33, <1>34,
     <1>35, <1>36, <1>37, <1>38, <1>39, <1>40, <1>41, <1>42, <1>43, <1>44, <1>45
     DEF Next, Supervise, Pump, ClientIn, Surroundings, Exited

\* The invariant holds at the start.
THEOREM InvariantInit == Init => IInv
<1> SUFFICES ASSUME Init
             PROVE  IInv
  OBVIOUS
<1>1. Threads = {}
  BY DEF Init, Threads
<1>2. MaxStartupFailures \in Nat \ {0}
  BY Bounds
<1>3. TypeOK
  <2>1. SharedTypeOK
    <3>1. InitialPhase \in Phases
      BY DEF InitialPhase, Phases
    <3>2. 1 \in 1..1
      OBVIOUS
    <3> QED
      BY <3>1, <3>2 DEF Init, CoreInit, SharedTypeOK, CoreTypeOK
  <2>2. SupervisorTypeOK
    <3>1. 0 \in 0..MaxStartupFailures
      BY <1>2
    <3> QED
      BY <3>1 DEF Init, SupervisorTypeOK
  <2>3. PumpsTypeOK
    BY NothingType DEF Init, PumpsTypeOK
  <2>4. ClientsTypeOK
    BY DEF Init, ClientsTypeOK
  <2>5. ReplTypeOK
    BY DEF Init, ReplTypeOK
  <2>6. HistoryTypeOK
    <3>1. born \in [Clients -> 0..inst] /\ dropped \subseteq Clients
      BY DEF Init
    <3>2. lastGood \in 0..inst
      BY DEF Init
    <3>3. outOfTurn \in BOOLEAN
      BY DEF Init
    <3> QED
      BY <3>1, <3>2, <3>3 DEF HistoryTypeOK
  <2> QED
    BY <2>1, <2>2, <2>3, <2>4, <2>5, <2>6 DEF TypeOK
<1>4. ThreadInv
  BY <1>1 DEF Init, CoreInit, InitialPhase, ThreadInv, SlotHasThread, BusyHasThread,
              ServingHasThread, DrainingUnlessDropped
<1>5. ReplaceInv
  BY DEF Init, ReplaceInv, KillReasonsAreFresh
<1>6. BreakerInv
  BY <1>2 DEF Init, BreakerInv, Judged
<1>7. StopInv
  BY DEF Init, CoreInit, InitialPhase, StopInv
<1>8. WarmupInv
  BY DEF Init, CoreInit, InitialPhase, WarmupInv, WarmupBeforeInput
<1>9. FlowInv
  <2>1. UnitsAreMarked => phase = "Booting"
    BY DEF UnitsAreMarked, Init, CoreInit, InitialPhase, HasReadiness
  <2> QED
    BY <2>1, <1>1 DEF Init, FlowInv, UnitInv, HeldInv, PhaseInv, OwnOutput, Held, Drained
<1> QED
  BY <1>3, <1>4, <1>5, <1>6, <1>7, <1>8, <1>9 DEF IInv

\* Every step keeps it.
THEOREM InvariantStep == IInv /\ [Next]_vars => IInv'
BY TypeStep, ThreadStep, ReplaceStep, BreakerStep, StopStep, WarmupStep, FlowStep DEF IInv

\* The inductive invariant holds in every reachable state.
THEOREM Invariant == Spec => []IInv
BY InvariantInit, InvariantStep, PTL DEF Spec

\* The server's variables always hold values of their kinds; in particular the
\* failure counter never passes the limit of the crash-loop breaker.
THEOREM TypeCorrect == Spec => []TypeOK
<1>1. IInv => TypeOK
  BY DEF IInv
<1> QED
  BY <1>1, Invariant, PTL

\* The client slot always has a client_in thread that will give it back.
THEOREM SlotNeverLeaks == Spec => []SlotHasThread
<1>1. IInv => SlotHasThread
  BY DEF IInv, ThreadInv
<1> QED
  BY <1>1, Invariant, PTL

\* While the REPL is reserved for a request (Busy), some client_in thread is left
\* that will run client_gone or see the response end.
THEOREM ReservationNeverOrphaned == Spec => []BusyHasThread
<1>1. IInv => BusyHasThread
  BY DEF IInv, ThreadInv
<1> QED
  BY <1>1, Invariant, PTL

\* Core.serving is not left set when every client_in thread has gone.
THEOREM ServingEnds == Spec => []ServingHasThread
<1>1. IInv => ServingHasThread
  BY DEF IInv, ThreadInv
<1> QED
  BY <1>1, Invariant, PTL

\* Unless some client lost the sink before its client_in ended, a REPL that is
\* draining has nobody attached.
THEOREM DrainingIsUnattended == Spec => []DrainingUnlessDropped
<1>1. IInv => DrainingUnlessDropped
  BY DEF IInv, ThreadInv
<1> QED
  BY <1>1, Invariant, PTL

\* The flags that say why a process was killed never outlive its replacement.
THEOREM KillReasonsNeverStale == Spec => []KillReasonsAreFresh
<1>1. IInv => KillReasonsAreFresh
  BY DEF IInv, ReplaceInv
<1> QED
  BY <1>1, Invariant, PTL

\* The server starts a process only after fewer than MaxStartupFailures startup
\* failures in a row, and gives up after exactly that many.
THEOREM BreakerTrips == Spec => []RestartsAreBounded
<1>1. IInv => RestartsAreBounded
  <2> SUFFICES ASSUME IInv
               PROVE  RestartsAreBounded
    OBVIOUS
  <2>1. ASSUME alive
        PROVE  inst - 1 - lastGood < MaxStartupFailures
    <3>1. outcome = "ok" /\ spc \notin {"clear", "spawn"}
      BY <2>1 DEF IInv, BreakerInv, ReplaceInv
    <3> QED
      BY <3>1 DEF IInv, BreakerInv, Judged
  <2>2. ASSUME outcome = "gave_up"
        PROVE  inst - lastGood = MaxStartupFailures
    BY <2>2 DEF IInv, BreakerInv, Judged
  <2> QED
    BY <2>1, <2>2 DEF RestartsAreBounded
<1> QED
  BY <1>1, Invariant, PTL

\* No client's input gets to the process it was accepted for before the warmup,
\* and the warmup is written to a process at most once.
THEOREM WarmupComesFirst == Spec => []WarmupBeforeInput
<1>1. IInv => WarmupBeforeInput
  BY DEF IInv, WarmupInv
<1> QED
  BY <1>1, Invariant, PTL

\* No client is ever sent output of another one's request, as long as requests are
\* made in turn: by the attached client, when none is in flight.
THEOREM ClientsAreIsolated == Spec => []IsolationInTurn
<1>1. IInv => IsolationInTurn
  <2> SUFFICES ASSUME IInv, UnitsAreMarked, ~outOfTurn
               PROVE  Isolation
    BY DEF IsolationInTurn
  <2>1. \A c \in Clients : got[c] \subseteq {c, "status", "error"}
    BY DEF IInv, FlowInv, OwnOutput
  <2>2. Clients \cap {"status", "error"} = {}
    BY Names
  <2> QED
    BY <2>1, <2>2 DEF Isolation, ForeignOutput
<1> QED
  BY <1>1, Invariant, PTL

\* Neither is any client sent what the REPL printed while booting or warming up.
THEOREM StartIsQuiet == Spec => []QuietStartInTurn
<1>1. IInv => QuietStartInTurn
  <2> SUFFICES ASSUME IInv, UnitsAreMarked, ~outOfTurn
               PROVE  QuietStart
    BY DEF QuietStartInTurn
  <2>1. \A c \in Clients : got[c] \subseteq {c, "status", "error"} /\ c \notin {"boot", "warmup"}
    BY Names DEF IInv, FlowInv, OwnOutput
  <2> QED
    BY <2>1 DEF QuietStart
<1> QED
  BY <1>1, Invariant, PTL

\* The server, with all its threads, implements the lifecycle it promises.
THEOREM Refinement == Spec => ImplementsLifecycle
<1>1. Init => Life!Init
  BY DEF Init, CoreInit, Life!Init
<1>2. IInv /\ [Next]_vars => [Life!Next]_(Life!vars)
  BY RefinementStep DEF IInv
<1> QED
  BY <1>1, <1>2, Invariant, PTL DEF Spec, ImplementsLifecycle, Life!Spec
=============================================================================
