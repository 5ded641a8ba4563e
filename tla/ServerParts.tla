---------------------------- MODULE ServerParts ----------------------------
(***************************************************************************)
(* The two larger parts of the inductive invariant of Server are preserved *)
(* by every step: TypeOK; and FlowInv, for which every chunk of output is  *)
(* followed from the unit of work it belongs to, through the pipe and the  *)
(* pump, up to the client that is attached when it is delivered.           *)
(***************************************************************************)
EXTENDS ServerInv, TLAPS

-----------------------------------------------------------------------------
(* Types.                                                                  *)

\* A step that leaves the variables of a group alone keeps their types.
LEMMA SharedKept == SharedTypeOK /\ UNCHANGED <<core, shared, inst>> => SharedTypeOK'
  BY DEF SharedTypeOK, CoreTypeOK, core, shared
\* The same for the locals of run.
LEMMA SupervisorKept == SupervisorTypeOK /\ UNCHANGED supervisor => SupervisorTypeOK'
  BY DEF SupervisorTypeOK, supervisor
\* The same for the pumps.
LEMMA PumpsKept == PumpsTypeOK /\ UNCHANGED pumps => PumpsTypeOK'
  BY DEF PumpsTypeOK, pumps
\* The same for the connections.
LEMMA ClientsKept == ClientsTypeOK /\ UNCHANGED clients => ClientsTypeOK'
  BY DEF ClientsTypeOK, clients
\* The same for the REPL process, whose number types other variables.
LEMMA ReplKept == ReplTypeOK /\ UNCHANGED repl => ReplTypeOK' /\ UNCHANGED inst
  BY DEF ReplTypeOK, repl
\* The same for the history.
LEMMA HistoryKept == HistoryTypeOK /\ UNCHANGED <<history, inst>> => HistoryTypeOK'
  BY DEF HistoryTypeOK, history

\* Writing to the client keeps what it touches well typed.
LEMMA DeliverType ==
  ASSUME NEW item \in Origins \cup {"status", "error"},
         TypeOK, Deliver(item)
  PROVE  /\ sink' \in Clients \cup {None}
         /\ got' \in [Clients -> SUBSET (Origins \cup {"status", "error"})]
         /\ dropped' \subseteq Clients
<1>1. CASE sink = None /\ UNCHANGED <<sink, got, dropped>>
  BY <1>1 DEF TypeOK, SharedTypeOK, ClientsTypeOK, HistoryTypeOK
<1>2. CASE sink # None /\ UNCHANGED <<sink, dropped>>
             /\ got' = [got EXCEPT ![sink] = IF peer[sink] = "open" THEN @ \cup
             {item} ELSE @]
  <2>1. sink \in Clients
    BY <1>2 DEF TypeOK, SharedTypeOK
  <2>2. got[sink] \cup {item} \subseteq Origins \cup {"status", "error"}
    BY <2>1 DEF TypeOK, ClientsTypeOK
  <2>3. QED
    BY <1>2, <2>1, <2>2 DEF TypeOK, SharedTypeOK, ClientsTypeOK, HistoryTypeOK
<1>3. CASE sink # None /\ sink' = None /\ dropped' = dropped \cup {sink} /\ UNCHANGED
got
  BY <1>3 DEF TypeOK, SharedTypeOK, ClientsTypeOK, HistoryTypeOK
<1>4. QED
  BY <1>1, <1>2, <1>3 DEF Deliver

\* So does a ctl packet.
LEMMA SendCtlType ==
  ASSUME NEW item \in {"status", "error"}, TypeOK, SendCtl(item)
  PROVE  /\ sink' \in Clients \cup {None}
         /\ got' \in [Clients -> SUBSET (Origins \cup {"status", "error"})]
         /\ dropped' \subseteq Clients
<1>1. CASE Protocol
  BY <1>1, DeliverType DEF SendCtl
<1>2. CASE ~Protocol
  BY <1>2 DEF SendCtl, TypeOK, SharedTypeOK, ClientsTypeOK, HistoryTypeOK
<1>3. QED
  BY <1>1, <1>2

\* The value of chunk when a pump holds none is a chunk.
LEMMA NothingType == Nothing \in Chunks
  BY DEF Nothing, Chunks, Origins

\* Every step keeps the types; the breaker keeps the failure counter in range.
THEOREM TypeStep == TypeOK /\ BreakerInv /\ [Next]_vars => TypeOK'
<1> SUFFICES ASSUME TypeOK, BreakerInv, [Next]_vars PROVE TypeOK'
  OBVIOUS
<1>1. CASE LoopTop
  BY <1>1, SharedKept, PumpsKept, ClientsKept, ReplKept, HistoryKept DEF TypeOK,
       LoopTop, SupervisorTypeOK, supervisor, Goto
<1>2. CASE NothingDue
  BY <1>2, SharedKept, PumpsKept, ClientsKept, ReplKept, HistoryKept DEF TypeOK,
       NothingDue, SupervisorTypeOK, supervisor, Goto
<1>3. CASE Due
  BY <1>3, SharedKept, PumpsKept, ClientsKept, ReplKept, HistoryKept DEF TypeOK, Due,
       SupervisorTypeOK, supervisor, Goto
<1>4. CASE ReadyWaitElapsed
  <2>1. SharedTypeOK'
    BY <1>4 DEF TypeOK, ReadyWaitElapsed, Ready, SharedTypeOK, CoreTypeOK, Phases,
         core, shared, ReplTypeOK, repl
  <2>2. SupervisorTypeOK'
    BY <1>4 DEF TypeOK, ReadyWaitElapsed, Ready, SupervisorTypeOK, supervisor, Goto
  <2>3. QED
    BY <1>4, <2>1, <2>2, PumpsKept, ClientsKept, ReplKept, HistoryKept DEF TypeOK,
         ReadyWaitElapsed
<1>5. CASE MarkerTimeout
  BY <1>5, SharedKept, PumpsKept, ClientsKept, HistoryKept DEF TypeOK, MarkerTimeout,
       Kill, SupervisorTypeOK, supervisor, Goto, ReplTypeOK, repl
<1>6. CASE SendWarmup
  <2>1. SupervisorTypeOK'
    BY <1>6 DEF TypeOK, SendWarmup, StdinOpen, SupervisorTypeOK, supervisor, Goto
  <2>2. ReplTypeOK'
    BY <1>6 DEF TypeOK, SendWarmup, StdinOpen, ReplTypeOK, repl
  <2>3. QED
    BY <1>6, <2>1, <2>2, SharedKept, PumpsKept, ClientsKept, HistoryKept DEF TypeOK,
         SendWarmup
<1>7. CASE MarkWarmupSent
  BY <1>7, PumpsKept, ClientsKept, ReplKept, HistoryKept DEF TypeOK, MarkWarmupSent,
       SharedTypeOK, CoreTypeOK, Phases, core, shared, SupervisorTypeOK, supervisor,
       Goto
<1>8. CASE WarmupWaitElapsed
  BY <1>8, PumpsKept, ClientsKept, ReplKept, HistoryKept DEF TypeOK,
       WarmupWaitElapsed, WarmupDone, SharedTypeOK, CoreTypeOK, Phases, core, shared,
       SupervisorTypeOK, supervisor, Goto
<1>9. CASE DrainTimeout
  BY <1>9, SharedKept, PumpsKept, ClientsKept, HistoryKept DEF TypeOK, DrainTimeout,
       Kill, SupervisorTypeOK, supervisor, Goto, ReplTypeOK, repl
<1>10. CASE Reap
  BY <1>10, SharedKept, PumpsKept, ClientsKept, ReplKept, HistoryKept DEF TypeOK,
       Reap, SupervisorTypeOK, supervisor, Goto
<1>11. CASE StillRunning
  BY <1>11, SharedKept, PumpsKept, ClientsKept, ReplKept, HistoryKept DEF TypeOK,
       StillRunning, SupervisorTypeOK, supervisor, Goto
<1>12. CASE ReapFails
  BY <1>12, SharedKept, PumpsKept, ClientsKept, ReplKept, HistoryKept DEF TypeOK,
       ReapFails, SupervisorTypeOK, supervisor, Goto
<1>13. ASSUME NEW young \in BOOLEAN, JoinAndJudge(young)
      PROVE  TypeOK'
  <2>1. {0, failures + 1} \subseteq 0..MaxStartupFailures
    <3>1. outcome = "ok"
      BY <1>13 DEF JoinAndJudge, BreakerInv, Ended
    <3>2. failures < MaxStartupFailures
      BY <3>1 DEF BreakerInv
    <3>3. MaxStartupFailures \in Nat
      BY Bounds
    <3>4. failures \in 0..MaxStartupFailures
      BY DEF TypeOK, SupervisorTypeOK
    <3>5. QED
      BY <3>2, <3>3, <3>4
  <2>2. SupervisorTypeOK'
    <3>1. failures' \in 0..MaxStartupFailures
      BY <1>13, <2>1 DEF JoinAndJudge
    <3>2. spc' \in {"last_words", "clear"} /\ outcome' \in {outcome, "gave_up"}
            /\ stuck' = FALSE /\ forced' = forced
      BY <1>13 DEF JoinAndJudge, Goto
    <3>3. QED
      BY <3>1, <3>2 DEF TypeOK, SupervisorTypeOK
  <2>3. HistoryTypeOK'
    <3>1. /\ UNCHANGED <<inst, born, dropped, outOfTurn>>
          /\ lastGood' \in {lastGood, inst}
      BY <1>13 DEF JoinAndJudge, repl
    <3>2. QED
      BY <3>1 DEF TypeOK, HistoryTypeOK, ReplTypeOK
  <2>4. QED
    BY <1>13, <2>2, <2>3, SharedKept, PumpsKept, ClientsKept, ReplKept DEF TypeOK,
         JoinAndJudge
<1>14. CASE ClearSink
  <2>1. SharedTypeOK'
    BY <1>14, ReplKept DEF TypeOK, ClearSink, SharedTypeOK, CoreTypeOK, core
  <2>2. SupervisorTypeOK'
    BY <1>14 DEF TypeOK, ClearSink, SupervisorTypeOK, Goto
  <2>3. ClientsTypeOK'
    BY <1>14 DEF TypeOK, ClearSink, ClientsTypeOK
  <2>4. HistoryTypeOK'
    <3>1. dropped' \subseteq Clients
      BY <1>14 DEF TypeOK, ClearSink, SharedTypeOK, HistoryTypeOK
    <3>2. QED
      BY <1>14, <3>1, ReplKept DEF TypeOK, ClearSink, HistoryTypeOK
  <2>5. QED
    BY <1>14, <2>1, <2>2, <2>3, <2>4, PumpsKept, ReplKept DEF TypeOK, ClearSink
<1>15. CASE Spawn
  <2>1. SharedTypeOK'
    <3>1. inst' = inst + 1 /\ stdin' = stdin /\ warmupSent' = FALSE
            /\ UNCHANGED <<phase, served, serving, sink, shutdown>>
      BY <1>15 DEF Spawn, core
    <3>2. inst \in Nat /\ stdin \in 1..inst
      BY DEF TypeOK, SharedTypeOK, ReplTypeOK
    <3>3. stdin' \in 1..inst'
      BY <3>1, <3>2
    <3>4. QED
      BY <3>1, <3>3 DEF TypeOK, SharedTypeOK, CoreTypeOK
  <2>2. SupervisorTypeOK'
    BY <1>15 DEF TypeOK, Spawn, SupervisorTypeOK, Goto
  <2>3. ReplTypeOK'
    BY <1>15 DEF TypeOK, Spawn, ReplTypeOK
  <2>4. HistoryTypeOK'
    <3>1. inst' = inst + 1 /\ UNCHANGED <<born, dropped, lastGood, outOfTurn>>
      BY <1>15 DEF Spawn, history
    <3>2. QED
      BY <3>1 DEF TypeOK, HistoryTypeOK, ReplTypeOK
  <2>5. QED
    BY <1>15, <2>1, <2>2, <2>3, <2>4, PumpsKept, ClientsKept DEF TypeOK, Spawn
<1>16. CASE SpawnFails
  BY <1>16, SharedKept, PumpsKept, ClientsKept, ReplKept, HistoryKept DEF TypeOK,
       SpawnFails, SupervisorTypeOK, supervisor, Goto
<1>17. CASE Reboot
  BY <1>17, PumpsKept, ClientsKept, ReplKept, HistoryKept DEF TypeOK, Reboot,
       BeginBooting, InitialPhase, HasReadiness, SharedTypeOK, CoreTypeOK, Phases,
       core, shared, SupervisorTypeOK, supervisor, Goto
<1>18. CASE WireRepl
  <2>1. SharedTypeOK'
    BY <1>18 DEF TypeOK, WireRepl, SharedTypeOK, CoreTypeOK, Phases, core, shared,
         ReplTypeOK, repl
  <2>2. SupervisorTypeOK'
    BY <1>18 DEF TypeOK, WireRepl, SupervisorTypeOK, supervisor, Goto
  <2>3. PumpsTypeOK'
    BY <1>18 DEF TypeOK, WireRepl, PumpsTypeOK, pumps, ReplTypeOK, repl
  <2>4. QED
    BY <1>18, <2>1, <2>2, <2>3, ClientsKept, ReplKept, HistoryKept DEF TypeOK, WireRepl
<1>19. CASE LastWords
  <2>1. SharedTypeOK'
    BY <1>19, SendCtlType, ReplKept DEF TypeOK, LastWords, SharedTypeOK, CoreTypeOK,
         core
  <2>2. SupervisorTypeOK'
    BY <1>19 DEF TypeOK, LastWords, SupervisorTypeOK, Goto
  <2>3. ClientsTypeOK'
    BY <1>19, SendCtlType DEF TypeOK, LastWords, ClientsTypeOK
  <2>4. HistoryTypeOK'
    BY <1>19, SendCtlType, ReplKept DEF TypeOK, LastWords, HistoryTypeOK
  <2>5. QED
    BY <1>19, <2>1, <2>2, <2>3, <2>4, PumpsKept, ReplKept DEF TypeOK, LastWords
<1>20. CASE StopServer
  BY <1>20, PumpsKept, ClientsKept, ReplKept, HistoryKept DEF TypeOK, StopServer,
       Stop, SharedTypeOK, CoreTypeOK, Phases, core, shared, SupervisorTypeOK,
       supervisor, Goto
<1>21. CASE Cleanup
  BY <1>21, SharedKept, PumpsKept, ClientsKept, HistoryKept DEF TypeOK, Cleanup,
       Kill, SupervisorTypeOK, supervisor, Goto, ReplTypeOK, repl
<1>22. CASE NobodyWaiting
  BY <1>22, SharedKept, PumpsKept, ClientsKept, ReplKept, HistoryKept DEF TypeOK,
       NobodyWaiting, SupervisorTypeOK, supervisor, Goto
<1>23. ASSUME NEW c \in Clients, Accept(c)
      PROVE  TypeOK'
  <2>1. SharedTypeOK'
    BY <1>23 DEF TypeOK, Accept, TryAccept, SharedTypeOK, CoreTypeOK, Phases, core,
         shared, ReplTypeOK, repl
  <2>2. SupervisorTypeOK'
    BY <1>23 DEF TypeOK, Accept, TryAccept, SupervisorTypeOK, supervisor, Goto
  <2>3. ClientsTypeOK'
    BY <1>23 DEF TypeOK, Accept, TryAccept, ClientsTypeOK, clients
  <2>4. HistoryTypeOK'
    BY <1>23 DEF TypeOK, Accept, TryAccept, HistoryTypeOK, history, ReplTypeOK, repl
  <2>5. QED
    BY <1>23, <2>1, <2>2, <2>3, <2>4, PumpsKept, ReplKept DEF TypeOK, Accept
<1>24. ASSUME NEW c \in Clients, Refuse(c)
      PROVE  TypeOK'
  BY <1>24, SharedKept, PumpsKept, ReplKept, HistoryKept DEF TypeOK, Refuse,
       SupervisorTypeOK, supervisor, Goto, ClientsTypeOK, clients
<1>25. ASSUME NEW c \in Clients, Greet(c)
      PROVE  TypeOK'
  <2>1. SharedTypeOK'
    BY <1>25, SendCtlType, ReplKept DEF TypeOK, Greet, SharedTypeOK, CoreTypeOK, core
  <2>2. SupervisorTypeOK'
    BY <1>25 DEF TypeOK, Greet, SupervisorTypeOK, Goto
  <2>3. ClientsTypeOK'
    BY <1>25, SendCtlType DEF TypeOK, Greet, ClientsTypeOK
  <2>4. HistoryTypeOK'
    BY <1>25, SendCtlType, ReplKept DEF TypeOK, Greet, HistoryTypeOK
  <2>5. QED
    BY <1>25, <2>1, <2>2, <2>3, <2>4, PumpsKept, ReplKept DEF TypeOK, Greet
<1>26. ASSUME NEW s \in Streams, PumpRead(s)
      PROVE  TypeOK'
  <2>1. Head(pipe[s]) \in Chunks /\ Tail(pipe[s]) \in Seq(Chunks)
    BY <1>26 DEF TypeOK, PumpRead, ReplTypeOK
  <2>2. PumpsTypeOK'
    <3>1. Handling(Head(pipe[s])) \in {"read", "ready", "warmup", "response", "tail"}
      BY DEF Handling
    <3>2. QED
      BY <1>26, <2>1, <3>1, NothingType DEF TypeOK, PumpRead, PumpsTypeOK
  <2>3. ReplTypeOK'
    BY <1>26, <2>1 DEF TypeOK, PumpRead, ReplTypeOK
  <2>4. QED
    BY <1>26, <2>2, <2>3, SharedKept, SupervisorKept, ClientsKept, HistoryKept DEF
         TypeOK, PumpRead
<1>27. ASSUME NEW s \in Streams, PumpReady(s)
      PROVE  TypeOK'
  BY <1>27, SupervisorKept, ClientsKept, ReplKept, HistoryKept DEF TypeOK, PumpReady,
       Ready, PumpNext, Nothing, Chunks, Origins, SharedTypeOK, CoreTypeOK, Phases,
       core, shared, PumpsTypeOK, pumps
<1>28. ASSUME NEW s \in Streams, PumpWarmup(s)
      PROVE  TypeOK'
  BY <1>28, SupervisorKept, ClientsKept, ReplKept, HistoryKept DEF TypeOK,
       PumpWarmup, WarmupDone, PumpNext, Nothing, Chunks, Origins, SharedTypeOK,
       CoreTypeOK, Phases, core, shared, PumpsTypeOK, pumps
<1>29. ASSUME NEW s \in Streams, PumpRoute(s)
      PROVE  TypeOK'
  <2>1. chunk[s].from \in Origins
    BY DEF TypeOK, PumpsTypeOK, Chunks
  <2>2. Deliver(chunk[s].from)
    BY <1>29 DEF PumpRoute
  <2>3. SharedTypeOK'
    BY <1>29, <2>1, <2>2, DeliverType, ReplKept DEF TypeOK, PumpRoute, SharedTypeOK,
         CoreTypeOK, core
  <2>4. PumpsTypeOK'
    BY <1>29, NothingType DEF TypeOK, PumpRoute, PumpNext, PumpsTypeOK
  <2>5. ClientsTypeOK'
    BY <1>29, <2>1, <2>2, DeliverType DEF TypeOK, PumpRoute, ClientsTypeOK
  <2>6. HistoryTypeOK'
    BY <1>29, <2>1, <2>2, DeliverType, ReplKept DEF TypeOK, PumpRoute, HistoryTypeOK
  <2>7. QED
    BY <1>29, <2>3, <2>4, <2>5, <2>6, SupervisorKept, ReplKept DEF TypeOK, PumpRoute
<1>30. ASSUME NEW s \in Streams, PumpBoundary(s)
      PROVE  TypeOK'
  BY <1>30, SupervisorKept, ClientsKept, ReplKept, HistoryKept DEF TypeOK,
       PumpBoundary, ResponseEnd, PumpNext, Nothing, Chunks, Origins, SharedTypeOK,
       CoreTypeOK, Phases, core, shared, PumpsTypeOK, pumps
<1>31. ASSUME NEW s \in Streams, PumpEof(s)
      PROVE  TypeOK'
  BY <1>31, SharedKept, SupervisorKept, ClientsKept, ReplKept, HistoryKept DEF
       TypeOK, PumpEof, PumpsTypeOK, pumps
<1>32. ASSUME NEW c \in Clients, WaitUntilReady(c)
      PROVE  TypeOK'
  BY <1>32, SharedKept, SupervisorKept, PumpsKept, ReplKept, HistoryKept DEF TypeOK,
       WaitUntilReady, ClientGoto, ClientsTypeOK, clients
<1>33. ASSUME NEW c \in Clients, ReadInput(c)
      PROVE  TypeOK'
  BY <1>33, SharedKept, SupervisorKept, PumpsKept, ReplKept, HistoryKept DEF TypeOK,
       ReadInput, ClientGoto, ClientsTypeOK, clients
<1>34. ASSUME NEW c \in Clients, ReadEof(c)
      PROVE  TypeOK'
  BY <1>34, SharedKept, SupervisorKept, PumpsKept, ReplKept, HistoryKept DEF TypeOK,
       ReadEof, ClientGoto, ClientsTypeOK, clients
<1>35. ASSUME NEW c \in Clients, StartRequest(c)
      PROVE  TypeOK'
  <2>1. SharedTypeOK'
    BY <1>35 DEF TypeOK, StartRequest, RequestStart, SharedTypeOK, CoreTypeOK, Phases,
         core, shared, repl
  <2>2. ClientsTypeOK'
    BY <1>35 DEF TypeOK, StartRequest, ClientGoto, ClientsTypeOK
  <2>3. HistoryTypeOK'
    <3>1. outOfTurn' \in BOOLEAN /\ UNCHANGED <<inst, born, dropped, lastGood>>
      BY <1>35 DEF StartRequest, repl
    <3>2. QED
      BY <3>1 DEF TypeOK, HistoryTypeOK
  <2>4. QED
    BY <1>35, <2>1, <2>2, <2>3, SupervisorKept, PumpsKept, ReplKept DEF TypeOK,
         StartRequest
<1>36. ASSUME NEW c \in Clients, Forward(c)
      PROVE  TypeOK'
  <2>1. ClientsTypeOK'
    BY <1>36 DEF TypeOK, Forward, StdinOpen, ClientGoto, ClientsTypeOK, clients
  <2>2. ReplTypeOK'
    <3>1. fed' \in {fed, Append(fed, c)} /\ UNCHANGED <<inst, alive, took, working, printed, pipe>>
      BY <1>36 DEF Forward, StdinOpen
    <3>2. fed \in Seq(Clients \cup {"warmup"}) /\ c \in Clients \cup {"warmup"} /\ took \in 0..Len(fed)
      BY DEF TypeOK, ReplTypeOK
    <3>3. fed' \in Seq(Clients \cup {"warmup"}) /\ took \in 0..Len(fed')
      BY <3>1, <3>2
    <3>4. QED
      BY <3>1, <3>3 DEF TypeOK, ReplTypeOK
  <2>3. HistoryTypeOK'
    <3>1. outOfTurn' \in BOOLEAN /\ UNCHANGED <<inst, born, dropped, lastGood>>
      BY <1>36 DEF Forward
    <3>2. QED
      BY <3>1 DEF TypeOK, HistoryTypeOK
  <2>4. QED
    BY <1>36, <2>1, <2>2, <2>3, SharedKept, SupervisorKept, PumpsKept DEF TypeOK,
         Forward
<1>37. ASSUME NEW c \in Clients, Gone(c)
      PROVE  TypeOK'
  BY <1>37, SupervisorKept, PumpsKept, ReplKept, HistoryKept DEF TypeOK, Gone,
       ClientGone, ClientGoto, SharedTypeOK, CoreTypeOK, Phases, core, shared,
       ClientsTypeOK, clients
<1>38. ASSUME NEW c \in Clients, Connect(c)
      PROVE  TypeOK'
  BY <1>38, SharedKept, SupervisorKept, PumpsKept, ReplKept, HistoryKept DEF TypeOK,
       Connect, ClientsTypeOK, clients
<1>39. ASSUME NEW c \in Clients, Send(c)
      PROVE  TypeOK'
  BY <1>39, SharedKept, SupervisorKept, PumpsKept, ReplKept, HistoryKept DEF TypeOK,
       Send, ClientsTypeOK, clients
<1>40. ASSUME NEW c \in Clients, Leave(c)
      PROVE  TypeOK'
  BY <1>40, SharedKept, SupervisorKept, PumpsKept, ReplKept, HistoryKept DEF TypeOK,
       Leave, ClientsTypeOK, clients
<1>41. CASE ReplReads
  BY <1>41, SharedKept, SupervisorKept, PumpsKept, ClientsKept, HistoryKept DEF
       TypeOK, ReplReads, ReplTypeOK, repl
<1>42. ASSUME NEW s \in Streams, NEW mark \in BOOLEAN, ReplPrints(s, mark)
      PROVE  TypeOK'
  <2> DEFINE what == [from |-> IF took = 0 THEN "boot" ELSE fed[took], mark |-> mark]
  <2>1. took # 0 => fed[took] \in Clients \cup {"warmup"}
    BY DEF TypeOK, ReplTypeOK
  <2>2. what \in Chunks
    BY <2>1 DEF Chunks, Origins
  <2>3. Append(pipe[s], what) \in Seq(Chunks)
    BY <2>2 DEF TypeOK, ReplTypeOK
  <2>4. ReplTypeOK'
    BY <1>42, <2>3 DEF TypeOK, ReplPrints, ReplTypeOK
  <2>5. QED
    BY <1>42, <2>4, SharedKept, SupervisorKept, PumpsKept, ClientsKept, HistoryKept
         DEF TypeOK, ReplPrints
<1>43. CASE ReplDies
  BY <1>43, SharedKept, SupervisorKept, PumpsKept, ClientsKept, HistoryKept DEF
       TypeOK, ReplDies, ReplTypeOK, repl
<1>44. CASE Signal
  BY <1>44, SupervisorKept, PumpsKept, ClientsKept, ReplKept, HistoryKept DEF TypeOK,
       Signal, SharedTypeOK, CoreTypeOK, Phases, core, shared
<1>45. CASE UNCHANGED vars
  BY <1>45, SharedKept, SupervisorKept, PumpsKept, ClientsKept, ReplKept, HistoryKept
       DEF TypeOK, vars
<1>46. QED
  BY <1>1, <1>2, <1>3, <1>4, <1>5, <1>6, <1>7, <1>8, <1>9, <1>10, <1>11, <1>12,
       <1>13, <1>14, <1>15, <1>16, <1>17, <1>18, <1>19, <1>20, <1>21, <1>22, <1>23,
       <1>24, <1>25, <1>26, <1>27, <1>28, <1>29, <1>30, <1>31, <1>32, <1>33, <1>34,
       <1>35, <1>36, <1>37, <1>38, <1>39, <1>40, <1>41, <1>42, <1>43, <1>44, <1>45
       DEF Next, Supervise, Pump, ClientIn, Surroundings, Exited

-----------------------------------------------------------------------------
(* The flow of output.                                                     *)

\* A request that was once out of turn stays on record.
LEMMA OutOfTurnStays == [Next]_vars /\ ~outOfTurn' => ~outOfTurn
<1> USE DEF Goto, ClientGoto, core, shared, supervisor, pumps, clients, repl, history
<1>1. CASE Supervise
  <2>1. UNCHANGED outOfTurn
    BY <1>1 DEF Supervise, LoopTop, NothingDue, Due, ReadyWaitElapsed, MarkerTimeout,
         SendWarmup, MarkWarmupSent, WarmupWaitElapsed, DrainTimeout, Reap,
         StillRunning, ReapFails, JoinAndJudge, ClearSink, Spawn, SpawnFails, Reboot,
         WireRepl, LastWords, StopServer, Cleanup, NobodyWaiting, Accept, Refuse, Greet
  <2>2. QED
    BY <2>1
<1>2. ASSUME NEW s \in Streams, Pump(s)
      PROVE  UNCHANGED outOfTurn
  BY <1>2 DEF Pump, PumpRead, PumpReady, PumpWarmup, PumpRoute, PumpBoundary, PumpEof
<1>3. ASSUME NEW c \in Clients, ClientIn(c), ~outOfTurn'
      PROVE  ~outOfTurn
  BY <1>3 DEF ClientIn, WaitUntilReady, ReadInput, ReadEof, StartRequest, Forward, Gone
<1>4. CASE Surroundings
  BY <1>4 DEF Surroundings, Connect, Send, Leave, ReplReads, ReplPrints, ReplDies, Signal
<1>5. CASE UNCHANGED vars
  BY <1>5 DEF vars
<1>6. QED
  BY <1>1, <1>2, <1>3, <1>4, <1>5 DEF Next, Exited

flow == <<ppc, chunk, pipe, fed, took, working>>

\* A step that lets output rest where it is and starts no request.
LEMMA FlowRests ==
  ASSUME TypeOK, UnitInv, HeldInv, PhaseInv,
         UNCHANGED <<flow, phase>>, sink' \in {sink, None},
         spc = "boot" <=> spc' = "boot",
         \A c \in Clients : cpc'[c] \in {"fwait", "fwrite"} => cpc[c] \in {"fwait", "fwrite"},
         spc' = "flag" \/ (spc' = "warmup" /\ ~warmupSent') => phase = "Warmup"
  PROVE  UnitInv' /\ HeldInv' /\ PhaseInv'
<1>1. UnitInv'
  BY DEF flow, UnitInv, Unit, Held, Drained
<1>2. HeldInv'
  BY DEF flow, HeldInv
<1>3. UNCHANGED <<Quiet, Drained>>
  BY DEF flow, Quiet, Drained, Held
<1>4. sink' # None => sink' = sink /\ sink \in Clients
  BY DEF TypeOK, SharedTypeOK
<1>5. PhaseInv'
  BY <1>3, <1>4 DEF flow, PhaseInv
<1>6. QED
  BY <1>1, <1>2, <1>5

\* What writing to the client changes.
LEMMA Delivered ==
  ASSUME TypeOK, NEW item \in Origins \cup {"status", "error"}, Deliver(item)
  PROVE  /\ sink' \in {sink, None}
         /\ \A c \in Clients : got'[c] \subseteq IF c = sink THEN got[c] \cup {item} ELSE got[c]
<1>1. got \in [Clients -> SUBSET (Origins \cup {"status", "error"})]
  BY DEF TypeOK, ClientsTypeOK
<1>2. QED
  BY <1>1 DEF Deliver

\* A ctl packet is no output of the REPL.
LEMMA CtlSent ==
  ASSUME TypeOK, OwnOutput, NEW item \in {"status", "error"}, SendCtl(item)
  PROVE  sink' \in {sink, None} /\ OwnOutput'
<1>1. CASE Protocol
  BY <1>1, Delivered DEF SendCtl, OwnOutput
<1>2. CASE ~Protocol
  BY <1>2 DEF SendCtl, OwnOutput
<1>3. QED
  BY <1>1, <1>2

\* Every step keeps the output apart.
THEOREM FlowStep ==
  TypeOK /\ ReplaceInv /\ StopInv /\ WarmupInv /\ FlowInv /\ [Next]_vars => FlowInv'
<1> SUFFICES ASSUME TypeOK, ReplaceInv, StopInv, WarmupInv, FlowInv, [Next]_vars,
                    UnitsAreMarked', ~outOfTurn'
             PROVE  (UnitInv /\ HeldInv /\ PhaseInv /\ OwnOutput)'
  BY DEF FlowInv
<1>inv. UnitsAreMarked /\ UnitInv /\ HeldInv /\ PhaseInv /\ OwnOutput
  BY OutOfTurnStays DEF FlowInv, UnitsAreMarked, OneStream
<1>types. /\ sink \in Clients \cup {None} /\ None \notin Clients /\ "warmup" \notin Clients
      /\ fed \in Seq(Clients \cup {"warmup"}) /\ took \in 0..Len(fed)
      /\ pipe \in [Streams -> Seq(Chunks)] /\ chunk \in [Streams -> Chunks]
      /\ cpc \in [Clients -> {"none", "queued", "greet", "wait", "read", "start", "fwait",
                              "fwrite", "gone", "done"}]
      /\ ppc \in [Streams -> {"read", "ready", "warmup", "response", "tail", "boundary", "done"}]
      /\ {working, warmupSent} \subseteq BOOLEAN
  BY Names DEF TypeOK, SharedTypeOK, ClientsTypeOK, ReplTypeOK, PumpsTypeOK
<1>opts. /\ OneStream /\ Protocol /\ Prompting /\ ReadyMarker
  BY <1>inv DEF UnitsAreMarked
<1> USE DEF Goto, ClientGoto, core, shared, supervisor, pumps, clients, repl, history
<1>1. CASE LoopTop
  BY <1>inv, <1>1, FlowRests DEF LoopTop, flow, OwnOutput, PhaseInv
<1>2. CASE NothingDue
  BY <1>inv, <1>2, FlowRests DEF NothingDue, flow, OwnOutput, PhaseInv
<1>3. CASE Due
  BY <1>inv, <1>3, FlowRests DEF Due, flow, OwnOutput, PhaseInv
<1>4. CASE ReadyWaitElapsed
  BY <1>inv, <1>4, LifecycleOptions DEF ReadyWaitElapsed, UnitsAreMarked, ReadinessAccepted
<1>5. CASE MarkerTimeout
  BY <1>inv, <1>5, FlowRests DEF MarkerTimeout, Kill, flow, OwnOutput, PhaseInv
<1>6. CASE SendWarmup
  <2>1. phase = "Warmup" /\ fed = <<>> /\ took = 0 /\ Drained /\ ~working
    BY <1>inv, <1>types, <1>6 DEF SendWarmup, PhaseInv, WarmupInv
  <2>2. fed' \in {<<>>, <<"warmup">>}
    BY <2>1, <1>6 DEF SendWarmup
  <2>3. Drained' /\ ~working' /\ UNCHANGED <<ppc, chunk, pipe, took, phase, sink, cpc, got>>
    BY <2>1, <1>6 DEF SendWarmup, Drained, Held
  <2>4. UnitInv'
    BY <1>inv, <2>1, <2>2, <2>3 DEF UnitInv, Unit, Drained, Held
  <2>5. HeldInv'
    BY <1>inv, <2>3 DEF HeldInv
  <2>6. PhaseInv'
    BY <1>inv, <1>types, <2>1, <2>2, <2>3, <1>6 DEF SendWarmup, PhaseInv
  <2>7. QED
    BY <1>inv, <2>3, <2>4, <2>5, <2>6 DEF OwnOutput
<1>7. CASE MarkWarmupSent
  BY <1>inv, <1>7, FlowRests DEF MarkWarmupSent, flow, OwnOutput, PhaseInv
<1>8. CASE WarmupWaitElapsed
  BY <1>inv, <1>8, ServerOptions DEF WarmupWaitElapsed, UnitsAreMarked, TimeoutsAccepted
<1>9. CASE DrainTimeout
  BY <1>inv, <1>9, FlowRests DEF DrainTimeout, Kill, flow, OwnOutput, PhaseInv
<1>10. CASE Reap
  BY <1>inv, <1>10, FlowRests DEF Reap, flow, OwnOutput, PhaseInv
<1>11. CASE StillRunning
  BY <1>inv, <1>11, FlowRests DEF StillRunning, flow, OwnOutput, PhaseInv
<1>12. CASE ReapFails
  BY <1>inv, <1>12, FlowRests DEF ReapFails, flow, OwnOutput, PhaseInv
<1>13. ASSUME NEW young \in BOOLEAN, JoinAndJudge(young)
      PROVE  (UnitInv /\ HeldInv /\ PhaseInv /\ OwnOutput)'
  BY <1>inv, <1>13, FlowRests DEF JoinAndJudge, flow, OwnOutput, PhaseInv
<1>14. CASE ClearSink
  BY <1>inv, <1>14, FlowRests DEF ClearSink, flow, OwnOutput, PhaseInv
<1>15. CASE Spawn
  <2>1. sink = None /\ \A s \in Streams : ppc[s] = "done"
    BY <1>15 DEF Spawn, ReplaceInv
  <2>2. UnitInv' /\ HeldInv'
    BY <1>inv, <2>1, <1>15 DEF Spawn, UnitInv, HeldInv, Held
  <2>3. PhaseInv' /\ OwnOutput'
    BY <1>inv, <2>1, <1>15 DEF Spawn, PhaseInv, OwnOutput
  <2>4. QED
    BY <2>2, <2>3
<1>16. CASE SpawnFails
  BY <1>inv, <1>16, FlowRests DEF SpawnFails, flow, OwnOutput, PhaseInv
<1>17. CASE Reboot
  <2>1. sink = None /\ \A s \in Streams : ppc[s] = "done"
    BY <1>17 DEF Reboot, ReplaceInv
  <2>2. phase' = "Booting" /\ fed = <<>>
    BY <1>inv, <1>opts, <1>17 DEF Reboot, BeginBooting, InitialPhase, HasReadiness, PhaseInv
  <2>3. UnitInv' /\ HeldInv'
    BY <1>inv, <2>1, <1>17 DEF Reboot, UnitInv, Unit, Drained, HeldInv, Held
  <2>4. PhaseInv' /\ OwnOutput'
    BY <1>inv, <2>1, <2>2, <1>17 DEF Reboot, PhaseInv, OwnOutput
  <2>5. QED
    BY <2>3, <2>4
<1>18. CASE WireRepl
  <2>1. sink = None /\ \A s \in Streams : ppc[s] = "done" /\ ppc'[s] = "read"
    BY <1>18 DEF WireRepl, ReplaceInv
  <2>2. UNCHANGED <<Quiet, Drained>>
    BY <2>1, <1>18 DEF WireRepl, Quiet, Drained, Held
  <2>3. UnitInv' /\ HeldInv'
    BY <1>inv, <2>1, <2>2, <1>18 DEF WireRepl, UnitInv, Unit, HeldInv, Held
  <2>4. PhaseInv' /\ OwnOutput'
    BY <1>inv, <2>1, <2>2, <1>18 DEF WireRepl, PhaseInv, OwnOutput
  <2>5. QED
    BY <2>3, <2>4
<1>19. CASE LastWords
  BY <1>inv, <1>19, FlowRests, CtlSent DEF LastWords, flow, OwnOutput, PhaseInv
<1>20. CASE StopServer
  <2>1. UNCHANGED <<Quiet, Drained>>
    BY <1>20 DEF StopServer, Stop, Quiet, Drained, Held
  <2>2. UnitInv' /\ HeldInv'
    BY <1>inv, <2>1, <1>20 DEF StopServer, Stop, UnitInv, Unit, HeldInv, Held
  <2>3. PhaseInv' /\ OwnOutput'
    BY <1>inv, <2>1, <1>20 DEF StopServer, Stop, PhaseInv, OwnOutput
  <2>4. QED
    BY <2>2, <2>3
<1>21. CASE Cleanup
  BY <1>inv, <1>21, FlowRests DEF Cleanup, Kill, flow, OwnOutput, PhaseInv
<1>22. CASE NobodyWaiting
  BY <1>inv, <1>22, FlowRests DEF NobodyWaiting, flow, OwnOutput, PhaseInv
<1>23. ASSUME NEW c \in Clients, Accept(c)
      PROVE  (UnitInv /\ HeldInv /\ PhaseInv /\ OwnOutput)'
  <2>1. phase \in {"Booting", "Warmup", "Idle"} /\ UNCHANGED <<flow, phase, got>>
    BY <1>23 DEF Accept, TryAccept, Acceptable, flow
  <2>2. UNCHANGED <<Quiet, Drained>>
    BY <2>1 DEF flow, Quiet, Drained, Held
  <2>3. UnitInv' /\ HeldInv'
    BY <1>inv, <2>1, <2>2 DEF flow, UnitInv, Unit, HeldInv, Held
  <2>4. PhaseInv' /\ OwnOutput'
    BY <1>inv, <1>types, <2>1, <2>2, <1>23 DEF Accept, flow, PhaseInv, OwnOutput
  <2>5. QED
    BY <2>3, <2>4
<1>24. ASSUME NEW c \in Clients, Refuse(c)
      PROVE  (UnitInv /\ HeldInv /\ PhaseInv /\ OwnOutput)'
  BY <1>inv, <1>24, FlowRests DEF Refuse, flow, OwnOutput, PhaseInv
<1>25. ASSUME NEW c \in Clients, Greet(c)
      PROVE  (UnitInv /\ HeldInv /\ PhaseInv /\ OwnOutput)'
  BY <1>inv, <1>25, FlowRests, CtlSent DEF Greet, flow, OwnOutput, PhaseInv
<1>26. ASSUME NEW s \in Streams, PumpRead(s)
      PROVE  (UnitInv /\ HeldInv /\ PhaseInv /\ OwnOutput)'
  <2> DEFINE ch == Head(pipe[s])
  <2>1. /\ ppc[s] = "read" /\ pipe[s] # <<>> /\ \A t \in Streams : t = s
        /\ ppc'[s] = Handling(ch) /\ chunk'[s] = (IF Handling(ch) = "read" THEN Nothing ELSE ch)
        /\ pipe'[s] = Tail(pipe[s])
        /\ UNCHANGED <<fed, took, working, phase, sink, cpc, spc, warmupSent, got>>
    BY <1>types, <1>opts, <1>26 DEF PumpRead, OneStream
  <2>2. /\ ch.from = Unit /\ (ch.mark => ~working /\ Tail(pipe[s]) = <<>>)
        /\ \A i \in DOMAIN Tail(pipe[s]) :
             /\ Tail(pipe[s])[i].from = Unit
             /\ Tail(pipe[s])[i].mark => ~working /\ i = Len(Tail(pipe[s]))
    <3>1. pipe[s] \in Seq(Chunks) /\ Len(pipe[s]) \in Nat \ {0} /\ ch = pipe[s][1]
      BY <1>types, <2>1
    <3>2. Len(Tail(pipe[s])) = Len(pipe[s]) - 1
            /\ \A i \in 1..(Len(pipe[s]) - 1) : Tail(pipe[s])[i] = pipe[s][i + 1]
      BY <3>1
    <3>3. \A i \in 1..Len(pipe[s]) : pipe[s][i].from = Unit
                                      /\ (pipe[s][i].mark => ~working /\ i = Len(pipe[s]))
      BY <1>inv, <3>1 DEF UnitInv
    <3>4. Tail(pipe[s]) \in Seq(Chunks) /\ DOMAIN Tail(pipe[s]) = 1..(Len(pipe[s]) - 1)
      BY <3>1, <3>2
    <3>5. Len(pipe[s]) = 1 => Tail(pipe[s]) = <<>>
      BY <3>2, <3>4
    <3>6. ch.from = Unit /\ (ch.mark => ~working /\ Tail(pipe[s]) = <<>>)
      BY <3>1, <3>3, <3>5
    <3>7. \A i \in 1..(Len(pipe[s]) - 1) :
            /\ Tail(pipe[s])[i].from = Unit
            /\ Tail(pipe[s])[i].mark => ~working /\ i = Len(Tail(pipe[s]))
      BY <3>1, <3>2, <3>3
    <3>8. QED
      BY <3>4, <3>6, <3>7
  <2>3. ~Drained /\ ~Quiet /\ took = Len(fed)
    BY <1>inv, <1>types, <2>1 DEF Drained, Quiet, UnitInv
  <2>4. spc # "boot"
    BY <2>1 DEF ReplaceInv
  <2>5. /\ Handling(ch) \in {"read", "ready", "warmup", "response"}
        /\ Handling(ch) = "ready" => ch.mark /\ phase = "Booting"
        /\ Handling(ch) = "warmup" => ch.mark /\ phase = "Warmup"
        /\ Handling(ch) = "response" => phase \in {"Busy", "Draining"}
    BY <1>inv, <1>opts, <2>3, <2>4 DEF Handling, PhaseInv
  <2>6. phase \in {"Busy", "Draining"} => Unit \in Clients /\ sink \in {None, Unit}
    BY <1>inv, <1>types, <2>3, <2>4 DEF PhaseInv, Unit
  <2>7. UnitInv'
    <3>1. Unit' = Unit
      BY <2>1 DEF Unit
    <3>2. \A t \in Streams : \A i \in DOMAIN pipe'[t] :
            pipe'[t][i].from = Unit' /\ (pipe'[t][i].mark => ~working' /\ i = Len(pipe'[t]))
      BY <2>1, <2>2, <3>1
    <3>3. Held(s)' => chunk'[s].from = Unit' /\ (chunk'[s].mark => ~working' /\ pipe'[s] = <<>>)
      BY <2>1, <2>2, <2>5, <3>1 DEF Held
    <3>4. ~(took' < Len(fed'))
      BY <1>types, <2>1, <2>3
    <3>5. QED
      BY <2>1, <3>2, <3>3, <3>4 DEF UnitInv
  <2>8. HeldInv'
    BY <2>1, <2>2, <2>5, <2>6 DEF HeldInv
  <2>9. PhaseInv' /\ OwnOutput'
    BY <1>inv, <2>1, <2>3, <2>4 DEF PhaseInv, OwnOutput
  <2>10. QED
    BY <2>7, <2>8, <2>9
<1>27. ASSUME NEW s \in Streams, PumpReady(s)
      PROVE  (UnitInv /\ HeldInv /\ PhaseInv /\ OwnOutput)'
  <2>1. ppc[s] = "ready" /\ ppc'[s] = "read" /\ \A t \in Streams : t = s
    BY <1>types, <1>opts, <1>27 DEF PumpReady, PumpNext, OneStream
  <2>2. UNCHANGED <<pipe, fed, took, working, sink, cpc, spc, warmupSent, got>>
    BY <1>27 DEF PumpReady, Ready
  <2>3. chunk[s].mark /\ phase \in {"Booting", "Stopped"} /\ spc # "boot"
    BY <1>inv, <2>1 DEF HeldInv, ReplaceInv
  <2>4. pipe[s] = <<>> /\ ~working /\ took = Len(fed) /\ ~Quiet /\ ~Drained
    BY <1>inv, <1>types, <2>1, <2>3 DEF UnitInv, Held, Drained, Quiet
  <2>5. Quiet' /\ Drained'
    BY <2>1, <2>2, <2>4 DEF Quiet, Drained, Held
  <2>6. (phase' \in {"Warmup", "Idle"} /\ fed = <<>>) \/ phase' = "Stopped"
    BY <1>inv, <2>3, <1>27 DEF PumpReady, Ready, PhaseInv
  <2>7. UnitInv' /\ HeldInv'
    BY <2>1, <2>2, <2>4, <2>5 DEF UnitInv, HeldInv, Drained, Held
  <2>8. PhaseInv' /\ OwnOutput'
    BY <1>inv, <2>2, <2>3, <2>4, <2>5, <2>6 DEF PhaseInv, OwnOutput, Quiet
  <2>9. QED
    BY <2>7, <2>8
<1>28. ASSUME NEW s \in Streams, PumpWarmup(s)
      PROVE  (UnitInv /\ HeldInv /\ PhaseInv /\ OwnOutput)'
  <2>1. ppc[s] = "warmup" /\ ppc'[s] = "read" /\ \A t \in Streams : t = s
    BY <1>types, <1>opts, <1>28 DEF PumpWarmup, PumpNext, OneStream
  <2>2. UNCHANGED <<pipe, fed, took, working, sink, cpc, spc, warmupSent, got>>
    BY <1>28 DEF PumpWarmup, WarmupDone
  <2>3. chunk[s].mark /\ phase \in {"Warmup", "Stopped"} /\ spc # "boot"
    BY <1>inv, <2>1 DEF HeldInv, ReplaceInv
  <2>4. pipe[s] = <<>> /\ ~working /\ took = Len(fed) /\ ~Quiet /\ ~Drained
    BY <1>inv, <1>types, <2>1, <2>3 DEF UnitInv, Held, Drained, Quiet
  <2>5. Quiet' /\ Drained'
    BY <2>1, <2>2, <2>4 DEF Quiet, Drained, Held
  <2>6. phase' = phase \/ (phase' = "Idle" /\ warmupSent)
    BY <1>28 DEF PumpWarmup, WarmupDone
  <2>7. UnitInv' /\ HeldInv'
    BY <2>1, <2>2, <2>4, <2>5 DEF UnitInv, HeldInv, Drained, Held
  <2>8. PhaseInv' /\ OwnOutput'
    BY <1>inv, <2>2, <2>3, <2>4, <2>5, <2>6 DEF PhaseInv, OwnOutput, Quiet, WarmupInv
  <2>9. QED
    BY <2>7, <2>8
<1>29. ASSUME NEW s \in Streams, PumpRoute(s)
      PROVE  (UnitInv /\ HeldInv /\ PhaseInv /\ OwnOutput)'
  <2>1. ppc[s] = "response" /\ \A t \in Streams : t = s
    BY <1>inv, <1>opts, <1>29 DEF PumpRoute, HeldInv, OneStream
  <2>2. UNCHANGED <<phase, pipe, fed, took, working, cpc, spc, warmupSent>>
    BY <1>29 DEF PumpRoute
  <2>3. /\ phase \in {"Busy", "Draining", "Stopped"} /\ spc # "boot"
        /\ chunk[s].from \in Clients /\ sink \in {None, chunk[s].from}
    BY <1>inv, <2>1 DEF HeldInv, ReplaceInv
  <2>4. sink' \in {sink, None} /\ OwnOutput'
    <3>1. Deliver(chunk[s].from) /\ chunk[s].from \in Origins
      BY <1>29, <2>3 DEF PumpRoute, Origins
    <3>2. /\ sink' \in {sink, None}
          /\ \A c \in Clients :
               got'[c] \subseteq IF c = sink THEN got[c] \cup {chunk[s].from} ELSE got[c]
      BY <3>1, Delivered
    <3>3. ASSUME NEW c \in Clients
          PROVE  got'[c] \subseteq {c, "status", "error"}
      <4>1. got[c] \subseteq {c, "status", "error"}
        BY <1>inv DEF OwnOutput
      <4>2. CASE c = sink
        BY <1>types, <2>3, <3>2, <4>1, <4>2
      <4>3. CASE c # sink
        BY <3>2, <4>1, <4>3
      <4>4. QED
        BY <4>2, <4>3
    <3>4. QED
      BY <3>2, <3>3 DEF OwnOutput
  <2>5. ~Quiet /\ ~Drained /\ took = Len(fed)
    BY <1>inv, <1>types, <2>1 DEF UnitInv, Held, Drained, Quiet
  <2>6. \/ ppc'[s] = "boundary" /\ chunk[s].mark /\ chunk' = chunk
        \/ ppc'[s] = "read"
    BY <1>types, <2>1, <1>29 DEF PumpRoute, PumpNext
  <2>7. UnitInv' /\ HeldInv'
    BY <1>inv, <2>1, <2>2, <2>3, <2>4, <2>5, <2>6 DEF UnitInv, Unit, HeldInv, Held
  <2>8. PhaseInv'
    BY <1>inv, <1>types, <2>2, <2>3, <2>4, <2>5 DEF PhaseInv
  <2>9. QED
    BY <2>4, <2>7, <2>8
<1>30. ASSUME NEW s \in Streams, PumpBoundary(s)
      PROVE  (UnitInv /\ HeldInv /\ PhaseInv /\ OwnOutput)'
  <2>1. ppc[s] = "boundary" /\ ppc'[s] = "read" /\ \A t \in Streams : t = s
    BY <1>types, <1>opts, <1>30 DEF PumpBoundary, PumpNext, OneStream
  <2>2. UNCHANGED <<pipe, fed, took, working, sink, cpc, spc, warmupSent, got>>
    BY <1>30 DEF PumpBoundary, ResponseEnd
  <2>3. chunk[s].mark /\ phase \in {"Busy", "Draining", "Stopped"} /\ spc # "boot"
    BY <1>inv, <2>1 DEF HeldInv, ReplaceInv
  <2>4. pipe[s] = <<>> /\ ~working /\ took = Len(fed) /\ ~Quiet /\ ~Drained
    BY <1>inv, <1>types, <2>1, <2>3 DEF UnitInv, Held, Drained, Quiet
  <2>5. Quiet' /\ Drained'
    BY <2>1, <2>2, <2>4 DEF Quiet, Drained, Held
  <2>6. phase' \in {"Idle", "Stopped"}
    BY <2>3, <1>30 DEF PumpBoundary, ResponseEnd
  <2>7. UnitInv' /\ HeldInv'
    BY <2>1, <2>2, <2>4, <2>5 DEF UnitInv, HeldInv, Drained, Held
  <2>8. PhaseInv' /\ OwnOutput'
    BY <1>inv, <2>2, <2>3, <2>4, <2>5, <2>6 DEF PhaseInv, OwnOutput
  <2>9. QED
    BY <2>7, <2>8
<1>31. ASSUME NEW s \in Streams, PumpEof(s)
      PROVE  (UnitInv /\ HeldInv /\ PhaseInv /\ OwnOutput)'
  <2>1. ppc[s] = "read" /\ ppc'[s] = "done" /\ \A t \in Streams : t = s
    BY <1>types, <1>opts, <1>31 DEF PumpEof, OneStream
  <2>2. UNCHANGED <<phase, chunk, pipe, fed, took, working, sink, cpc, spc, warmupSent, got>>
    BY <1>31 DEF PumpEof
  <2>3. UNCHANGED <<Quiet, Drained>>
    BY <2>1, <2>2 DEF Quiet, Drained, Held
  <2>4. UnitInv' /\ HeldInv'
    BY <1>inv, <2>1, <2>2, <2>3 DEF UnitInv, Unit, HeldInv, Held
  <2>5. PhaseInv' /\ OwnOutput'
    BY <1>inv, <2>2, <2>3 DEF PhaseInv, OwnOutput
  <2>6. QED
    BY <2>4, <2>5
<1>32. ASSUME NEW c \in Clients, WaitUntilReady(c)
      PROVE  (UnitInv /\ HeldInv /\ PhaseInv /\ OwnOutput)'
  BY <1>inv, <1>32, FlowRests DEF WaitUntilReady, flow, OwnOutput, PhaseInv
<1>33. ASSUME NEW c \in Clients, ReadInput(c)
      PROVE  (UnitInv /\ HeldInv /\ PhaseInv /\ OwnOutput)'
  BY <1>inv, <1>33, FlowRests DEF ReadInput, flow, OwnOutput, PhaseInv
<1>34. ASSUME NEW c \in Clients, ReadEof(c)
      PROVE  (UnitInv /\ HeldInv /\ PhaseInv /\ OwnOutput)'
  BY <1>inv, <1>34, FlowRests DEF ReadEof, flow, OwnOutput, PhaseInv
<1>35. ASSUME NEW c \in Clients, StartRequest(c)
      PROVE  (UnitInv /\ HeldInv /\ PhaseInv /\ OwnOutput)'
  <2>1. sink = c /\ phase = "Idle" /\ phase' = "Busy" /\ cpc[c] = "start"
    BY <1>opts, <1>35 DEF StartRequest, RequestStart
  <2>2. UNCHANGED <<flow, sink, spc, warmupSent, got>>
    BY <1>35 DEF StartRequest, flow
  <2>3. spc # "boot" /\ Quiet /\ Drained
    BY <1>inv, <1>types, <2>1 DEF ReplaceInv, PhaseInv, Quiet
  <2>4. Quiet' /\ Drained'
    BY <2>2, <2>3 DEF flow, Quiet, Drained, Held
  <2>5. UnitInv' /\ HeldInv'
    BY <1>inv, <2>2, <2>4 DEF flow, UnitInv, Unit, HeldInv, Drained, Held
  <2>6. PhaseInv' /\ OwnOutput'
    BY <1>inv, <2>1, <2>2, <2>3, <2>4 DEF flow, PhaseInv, OwnOutput
  <2>7. QED
    BY <2>5, <2>6
<1>36. ASSUME NEW c \in Clients, Forward(c)
      PROVE  (UnitInv /\ HeldInv /\ PhaseInv /\ OwnOutput)'
  <2>1. CASE StdinOpen
    <3>1. sink = c /\ cpc[c] = "fwrite" /\ fed' = Append(fed, c) /\ cpc'[c] = "wait"
      BY <1>types, <2>1, <1>36 DEF Forward
    <3>2. UNCHANGED <<ppc, chunk, pipe, took, working, phase, sink, spc, warmupSent, got>>
      BY <1>36 DEF Forward
    <3>3. Quiet /\ Drained /\ phase \in {"Busy", "Draining", "Stopped"} /\ spc # "boot"
      BY <1>inv, <1>types, <3>1 DEF ReplaceInv, PhaseInv, Quiet
    <3>4. Drained' /\ ~working' /\ took = Len(fed)
      BY <3>2, <3>3 DEF Quiet, Drained, Held
    <3>5. Len(fed') = Len(fed) + 1 /\ fed'[Len(fed')] = c /\ fed' # <<>>
      BY <1>types, <3>1
    <3>6. UnitInv'
      BY <1>types, <3>2, <3>4, <3>5 DEF UnitInv, Drained, Held
    <3>7. HeldInv' /\ OwnOutput'
      BY <1>inv, <3>2 DEF HeldInv, OwnOutput
    <3>8. PhaseInv'
      BY <1>inv, <1>types, <3>1, <3>2, <3>3, <3>5 DEF PhaseInv
    <3>9. QED
      BY <3>6, <3>7, <3>8
  <2>2. CASE ~StdinOpen
    <3>1. cpc[c] = "fwrite" /\ cpc'[c] \in {"gone", "fwait"}
            /\ \A d \in Clients \ {c} : cpc'[d] = cpc[d]
      BY <1>types, <2>2, <1>36 DEF Forward
    <3>2. UNCHANGED <<flow, phase, sink, spc, warmupSent, got>>
      BY <2>2, <1>36 DEF Forward, flow
    <3>3. QED
      BY <1>inv, <3>1, <3>2, FlowRests DEF OwnOutput, PhaseInv
  <2>3. QED
    BY <2>1, <2>2
<1>37. ASSUME NEW c \in Clients, Gone(c)
      PROVE  (UnitInv /\ HeldInv /\ PhaseInv /\ OwnOutput)'
  <2>1. /\ phase' = (IF phase = "Busy" THEN "Draining" ELSE phase) /\ sink' \in {sink, None}
        /\ \A d \in Clients : cpc'[d] \in {"fwait", "fwrite"} => cpc'[d] = cpc[d]
        /\ UNCHANGED <<flow, spc, warmupSent, got>>
    BY <1>types, <1>37 DEF Gone, ClientGone, flow
  <2>2. UNCHANGED <<Quiet, Drained>>
    BY <2>1 DEF flow, Quiet, Drained, Held
  <2>3. UnitInv' /\ HeldInv'
    BY <1>inv, <2>1, <2>2 DEF flow, UnitInv, Unit, HeldInv, Held
  <2>4. PhaseInv' /\ OwnOutput'
    BY <1>inv, <1>types, <2>1, <2>2 DEF flow, PhaseInv, OwnOutput
  <2>5. QED
    BY <2>3, <2>4
<1>38. ASSUME NEW c \in Clients, Connect(c)
      PROVE  (UnitInv /\ HeldInv /\ PhaseInv /\ OwnOutput)'
  BY <1>inv, <1>38, FlowRests DEF Connect, flow, OwnOutput, PhaseInv
<1>39. ASSUME NEW c \in Clients, Send(c)
      PROVE  (UnitInv /\ HeldInv /\ PhaseInv /\ OwnOutput)'
  BY <1>inv, <1>39, FlowRests DEF Send, flow, OwnOutput, PhaseInv
<1>40. ASSUME NEW c \in Clients, Leave(c)
      PROVE  (UnitInv /\ HeldInv /\ PhaseInv /\ OwnOutput)'
  BY <1>inv, <1>40, FlowRests DEF Leave, flow, OwnOutput, PhaseInv
<1>41. CASE ReplReads
  <2>1. took < Len(fed) /\ Drained /\ ~working /\ took = Len(fed) - 1 /\ ~Quiet
    BY <1>inv, <1>types, <1>41 DEF ReplReads, UnitInv, Quiet
  <2>2. /\ took' = took + 1 /\ working' = TRUE
        /\ UNCHANGED <<phase, ppc, chunk, pipe, fed, sink, cpc, spc, warmupSent, got>>
    BY <1>41 DEF ReplReads
  <2>3. fed # <<>> /\ took' = Len(fed) /\ took' # 0
    BY <1>types, <2>1, <2>2
  <2>4. UnitInv' /\ HeldInv'
    BY <1>inv, <1>types, <2>1, <2>2, <2>3 DEF UnitInv, Drained, HeldInv, Held
  <2>5. PhaseInv' /\ OwnOutput'
    BY <1>inv, <2>1, <2>2, <2>3 DEF PhaseInv, OwnOutput
  <2>6. QED
    BY <2>4, <2>5
<1>42. ASSUME NEW s \in Streams, NEW mark \in BOOLEAN, ReplPrints(s, mark)
      PROVE  (UnitInv /\ HeldInv /\ PhaseInv /\ OwnOutput)'
  <2>1. /\ working /\ working' = (working /\ ~mark) /\ \A t \in Streams : t = s
        /\ pipe'[s] = Append(pipe[s], [from |-> Unit, mark |-> mark])
        /\ UNCHANGED <<phase, ppc, chunk, fed, took, sink, cpc, spc, warmupSent, got>>
    BY <1>types, <1>opts, <1>42 DEF ReplPrints, OneStream, Unit
  <2>2. took = Len(fed) /\ ~Quiet
    BY <1>inv, <1>types, <2>1 DEF UnitInv, Quiet
  <2>3. /\ Len(pipe'[s]) = Len(pipe[s]) + 1 /\ DOMAIN pipe'[s] = 1..Len(pipe'[s])
        /\ pipe'[s][Len(pipe'[s])] = [from |-> Unit, mark |-> mark]
        /\ \A i \in 1..Len(pipe[s]) : pipe'[s][i] = pipe[s][i]
    BY <1>types, <2>1
  <2>4. \A i \in 1..Len(pipe[s]) : pipe[s][i].from = Unit /\ ~pipe[s][i].mark
    BY <1>inv, <1>types, <2>1 DEF UnitInv
  <2>5. Held(s) => chunk[s].from = Unit /\ ~chunk[s].mark
    BY <1>inv, <2>1 DEF UnitInv
  <2>6. Unit' = Unit
    BY <2>1 DEF Unit
  <2>7. UnitInv'
    <3>1. \A i \in DOMAIN pipe'[s] :
            pipe'[s][i].from = Unit' /\ (pipe'[s][i].mark => ~working' /\ i = Len(pipe'[s]))
      <4> SUFFICES ASSUME NEW i \in 1..Len(pipe'[s])
                   PROVE  pipe'[s][i].from = Unit' /\ (pipe'[s][i].mark => ~working' /\ i = Len(pipe'[s]))
        BY <2>3
      <4>1. CASE i \in 1..Len(pipe[s])
        BY <2>3, <2>4, <2>6, <4>1
      <4>2. CASE i = Len(pipe'[s])
        <5>1. pipe'[s][i].from = Unit' /\ pipe'[s][i].mark = mark
          BY <2>3, <2>6, <4>2
        <5>2. mark => ~working'
          BY <2>1
        <5>3. QED
          BY <4>2, <5>1, <5>2
      <4>3. QED
        BY <1>types, <2>3, <4>1, <4>2
    <3>2. Held(s)' => chunk'[s].from = Unit' /\ ~chunk'[s].mark
      BY <2>1, <2>5, <2>6 DEF Held
    <3>3. took' = Len(fed')
      BY <2>1, <2>2
    <3>4. \A t \in Streams : t = s
      BY <2>1
    <3>5. ~(took' < Len(fed'))
      BY <1>types, <2>1, <3>3
    <3>6. QED
      BY <2>1, <3>1, <3>2, <3>4, <3>5 DEF UnitInv
  <2>8. HeldInv' /\ OwnOutput'
    BY <1>inv, <2>1 DEF HeldInv, OwnOutput
  <2>9. PhaseInv'
    BY <1>inv, <2>1, <2>2 DEF PhaseInv
  <2>10. QED
    BY <2>7, <2>8, <2>9
<1>43. CASE ReplDies
  BY <1>inv, <1>43, FlowRests DEF ReplDies, flow, OwnOutput, PhaseInv
<1>44. CASE Signal
  BY <1>inv, <1>44, FlowRests DEF Signal, flow, OwnOutput, PhaseInv
<1>45. CASE UNCHANGED vars
  BY <1>inv, <1>45, FlowRests DEF vars, flow, OwnOutput, PhaseInv
<1>46. QED
  BY <1>1, <1>2, <1>3, <1>4, <1>5, <1>6, <1>7, <1>8, <1>9, <1>10, <1>11, <1>12, <1>13, <1>14, <1>15, <1>16, <1>17, <1>18, <1>19, <1>20, <1>21, <1>22, <1>23, <1>24, <1>25, <1>26, <1>27, <1>28, <1>29, <1>30, <1>31, <1>32, <1>33, <1>34, <1>35, <1>36, <1>37, <1>38, <1>39, <1>40, <1>41, <1>42, <1>43, <1>44, <1>45 DEF Next, Supervise, Pump, ClientIn,
       Surroundings, Exited
=============================================================================
