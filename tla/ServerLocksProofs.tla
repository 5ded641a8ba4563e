------------------------- MODULE ServerLocksProofs -------------------------
(***************************************************************************)
(* The lock order of the server, the absence of circular waits, and who is *)
(* to blame when nothing moves, for any number of clients and all options. *)
(*                                                                         *)
(* LockOrder is inductive only with the types and with what join_threads   *)
(* guarantees: wire_repl starts new pumps, and an old one that still held  *)
(* the sink then would break it.                                           *)
(*                                                                         *)
(* Stalls need more: that who is in a critical section has its lock, that  *)
(* the client in the slot has a connection, and that the supervisor joins  *)
(* only the pumps of a process that has ended.                             *)
(***************************************************************************)
EXTENDS ServerLocks, TLAPS

\* From the join to the wiring of the next REPL there is no pump left.
PumpsJoined ==
  pc[Main] \in {"judge", "clear", "spawn", "boot", "wire"}
    => \A s \in Streams : pc[s] = "done"

LocksInv == TypeOK /\ LockOrder /\ PumpsJoined

\* The initial states have the invariant.
LEMMA InitLocks == Init => LocksInv
<1> SUFFICES ASSUME Init PROVE LocksInv
  OBVIOUS
<1>1. CoreTypeOK
  BY LifecycleOptions DEF Init, CoreInit, CoreTypeOK, InitialPhase, Phases
<1>2. TypeOK
  BY <1>1, LockThreads
  DEF Init, TypeOK, PlacesOK, OwnersOK, FlagsOK, PeersOK, Threads, MainPlaces,
      PumpPlaces, ClientPlaces
<1>3. LockOrder /\ PumpsJoined
  BY LockThreads DEF Init, LockOrder, PumpsJoined, Threads
<1> QED
  BY <1>2, <1>3 DEF LocksInv

\* The methods of Core keep its types.
LEMMA CoreTypes ==
  ASSUME CoreTypeOK,
         \/ TryAccept \/ RequestStart \/ ResponseEnd \/ ClientGone \/ Ready
         \/ WarmupDone \/ BeginBooting \/ Stop \/ UNCHANGED core
  PROVE  CoreTypeOK'
BY LifecycleOptions
   DEF CoreTypeOK, Phases, TryAccept, RequestStart, ResponseEnd, ClientGone, Ready,
       WarmupDone, BeginBooting, InitialPhase, Stop, core

\* A thread that moves to one of its places leaves every thread in one of its own.
LEMMA MovesStayInPlaces ==
  ASSUME PlacesOK, NEW t \in Threads, NEW l, Goto(t, l),
         t = Main => l \in MainPlaces,
         t \in Streams => l \in PumpPlaces,
         t \in Clients => l \in ClientPlaces
  PROVE  PlacesOK'
<1>1. \A u \in Threads : pc'[u] = IF u = t THEN l ELSE pc[u]
  BY DEF PlacesOK, Goto
<1>2. pc' \in [Threads -> MainPlaces \cup PumpPlaces \cup ClientPlaces]
  <2>1. l \in MainPlaces \cup PumpPlaces \cup ClientPlaces
    BY DEF Threads
  <2> QED
    BY <2>1 DEF PlacesOK, Goto
<1> QED
  BY <1>1, <1>2, LockThreads DEF PlacesOK, Threads

\* A blocking write to a client keeps the invariant, whoever makes it.
LEMMA WriteLocks ==
  ASSUME LocksInv, CoreTypeOK', PlacesOK',
         NEW t \in Threads, NEW w \in {"greet_write", "words_write", "write"},
         NEW l \in {"thread", "stop", "boundary", "read"}, WriteSocket(t, w, l)
  PROVE  LocksInv'
<1>1. /\ pc[t] = w /\ pc' = [pc EXCEPT ![t] = l]
      /\ pc \in [Threads -> MainPlaces \cup PumpPlaces \cup ClientPlaces]
      /\ coreBy' = coreBy /\ stdinBy' = stdinBy /\ sinkBy' = None
      /\ (slot' = slot \/ slot' = None) /\ sockFull' \in {sockFull, TRUE, FALSE}
      /\ UNCHANGED <<shutdown, warmupSent, forced, marker, stdinFull, peer, alive, orphan>>
  BY DEF LocksInv, TypeOK, PlacesOK, WriteSocket, At, Goto, outside
<1>2. OwnersOK' /\ FlagsOK'
  BY <1>1 DEF LocksInv, TypeOK, OwnersOK, FlagsOK
<1>3. PeersOK'
  <2>1. \A c \in Clients : pc'[c] = "done" => pc[c] = "done"
    BY <1>1 DEF Threads
  <2>2. QED
    BY <1>1, <2>1 DEF LocksInv, TypeOK, PeersOK
<1>4. LockOrder'
  <2>1. /\ coreBy # None => coreBy \in Threads /\ coreBy # t
        /\ stdinBy # None => stdinBy \in Threads /\ stdinBy # t
    BY <1>1 DEF LocksInv, TypeOK, OwnersOK, LockOrder
  <2>2. QED
    BY <1>1, <2>1 DEF LocksInv, LockOrder
<1>5. PumpsJoined'
  <2>1. \A s \in Streams : s \in Threads
    BY DEF Threads
  <2>2. Main \in Threads
    BY DEF Threads
  <2>3. QED
    BY <1>1, <2>1, <2>2 DEF LocksInv, PumpsJoined
<1>6. QED
  BY <1>2, <1>3, <1>4, <1>5 DEF LocksInv, TypeOK

\* The steps of the supervisor keep the invariant.
LEMMA SupervisorLocks ==
  ASSUME LocksInv, Supervise PROVE LocksInv'
<1>1. ASSUME LoopTop PROVE LocksInv'
  <2>1. CoreTypeOK'
    BY <1>1, CoreTypes DEF LocksInv, TypeOK, LoopTop
  <2> QED
    BY <1>1, <2>1, LockThreads
    DEF LoopTop, LocksInv, TypeOK, PlacesOK, OwnersOK, FlagsOK, PeersOK, LockOrder,
        PumpsJoined, Threads, MainPlaces, PumpPlaces, ClientPlaces, locks, outside,
        At, Running, Goto, CoreFree, SinkFree, StdinFree
<1>2. ASSUME Phase PROVE LocksInv'
  <2>1. CoreTypeOK'
    BY <1>2, CoreTypes DEF LocksInv, TypeOK, Phase
  <2>2. PICK l \in {"reap", "ready", "kill", "warmup", "warmed", "drain"} :
             Goto(Main, l)
    BY <1>2, LockThreads DEF Phase, Goto, At
  <2>3. PlacesOK'
    BY <2>2, MovesStayInPlaces, LockThreads
    DEF LocksInv, TypeOK, Threads, MainPlaces
  <2>4. TypeOK'
    <3>1. OwnersOK'
      BY <1>2, <2>1, <2>2, <2>3, LockThreads
      DEF Phase, LocksInv, TypeOK, OwnersOK, PlacesOK, Threads, locks, At, Goto,
          outside
    <3>2. FlagsOK'
      BY <1>2, <2>1, <2>2, <2>3, LockThreads
      DEF Phase, LocksInv, TypeOK, FlagsOK, locks, At, Goto, outside
    <3>3. PeersOK'
      BY <1>2, <2>1, <2>2, <2>3, LockThreads
      DEF Phase, LocksInv, TypeOK, PeersOK, PlacesOK, Threads, At, Goto, outside
    <3> QED
      BY <2>1, <2>3, <3>1, <3>2, <3>3 DEF TypeOK
  <2>5. LockOrder'
    BY <1>2, <2>2, <2>3, LockThreads
    DEF Phase, LocksInv, TypeOK, PlacesOK, OwnersOK, FlagsOK, PeersOK, LockOrder,
        PumpsJoined, Threads, MainPlaces, PumpPlaces, ClientPlaces, locks, outside,
        At, Running, Goto, CoreFree, SinkFree, StdinFree
  <2>6. PumpsJoined'
    BY <1>2, <2>2, <2>3, LockThreads
    DEF Phase, LocksInv, TypeOK, PlacesOK, OwnersOK, FlagsOK, PeersOK, LockOrder,
        PumpsJoined, Threads, MainPlaces, PumpPlaces, ClientPlaces, locks, outside,
        At, Running, Goto, CoreFree, SinkFree, StdinFree
  <2> QED
    BY <2>4, <2>5, <2>6 DEF LocksInv
<1>3. ASSUME WaitElapsed PROVE LocksInv'
  <2>1. CoreTypeOK'
    BY <1>3, CoreTypes DEF LocksInv, TypeOK, WaitElapsed, core
  <2> QED
    BY <1>3, <2>1, LockThreads
    DEF WaitElapsed, LocksInv, TypeOK, PlacesOK, OwnersOK, FlagsOK, PeersOK,
        LockOrder, PumpsJoined, Threads, MainPlaces, PumpPlaces, ClientPlaces,
        locks, outside, At, Running, Goto, CoreFree, SinkFree, StdinFree
<1>4. ASSUME Terminate PROVE LocksInv'
  <2>1. CoreTypeOK'
    BY <1>4, CoreTypes DEF LocksInv, TypeOK, Terminate
  <2> QED
    BY <1>4, <2>1, LockThreads
    DEF Terminate, LocksInv, TypeOK, PlacesOK, OwnersOK, FlagsOK, PeersOK,
        LockOrder, PumpsJoined, Threads, MainPlaces, PumpPlaces, ClientPlaces,
        locks, outside, At, Running, Goto, CoreFree, SinkFree, StdinFree
<1>5. ASSUME Reap PROVE LocksInv'
  <2>1. CoreTypeOK'
    BY <1>5, CoreTypes DEF LocksInv, TypeOK, Reap
  <2>2. PICK l \in {"accept", "join", "words", "stop"} :
             Goto(Main, l)
    BY <1>5, LockThreads DEF Reap, LastWords, Goto, At
  <2>3. PlacesOK'
    BY <2>2, MovesStayInPlaces, LockThreads
    DEF LocksInv, TypeOK, Threads, MainPlaces
  <2>4. TypeOK'
    <3>1. OwnersOK'
      BY <1>5, <2>1, <2>2, <2>3, LockThreads
      DEF Reap, LastWords, LocksInv, TypeOK, OwnersOK, PlacesOK, Threads, locks,
          At, Goto, outside
    <3>2. FlagsOK'
      BY <1>5, <2>1, <2>2, <2>3, LockThreads
      DEF Reap, LastWords, LocksInv, TypeOK, FlagsOK, locks, At, Goto, outside
    <3>3. PeersOK'
      BY <1>5, <2>1, <2>2, <2>3, LockThreads
      DEF Reap, LastWords, LocksInv, TypeOK, PeersOK, PlacesOK, Threads, At, Goto,
          outside
    <3> QED
      BY <2>1, <2>3, <3>1, <3>2, <3>3 DEF TypeOK
  <2>5. LockOrder'
    BY <1>5, <2>2, <2>3, LockThreads
    DEF Reap, LastWords, LocksInv, TypeOK, PlacesOK, OwnersOK, FlagsOK, PeersOK,
        LockOrder, PumpsJoined, Threads, MainPlaces, PumpPlaces, ClientPlaces,
        locks, outside, At, Running, Goto, CoreFree, SinkFree, StdinFree
  <2>6. PumpsJoined'
    BY <1>5, <2>2, <2>3, LockThreads
    DEF Reap, LastWords, LocksInv, TypeOK, PlacesOK, OwnersOK, FlagsOK, PeersOK,
        LockOrder, PumpsJoined, Threads, MainPlaces, PumpPlaces, ClientPlaces,
        locks, outside, At, Running, Goto, CoreFree, SinkFree, StdinFree
  <2> QED
    BY <2>4, <2>5, <2>6 DEF LocksInv
<1>6. ASSUME Join PROVE LocksInv'
  <2>1. CoreTypeOK'
    BY <1>6, CoreTypes DEF LocksInv, TypeOK, Join
  <2> QED
    BY <1>6, <2>1, LockThreads
    DEF Join, LocksInv, TypeOK, PlacesOK, OwnersOK, FlagsOK, PeersOK, LockOrder,
        PumpsJoined, Threads, MainPlaces, PumpPlaces, ClientPlaces, locks, outside,
        At, Running, Goto, CoreFree, SinkFree, StdinFree
<1>7. ASSUME Judge PROVE LocksInv'
  <2>1. CoreTypeOK'
    BY <1>7, CoreTypes DEF LocksInv, TypeOK, Judge
  <2>2. PICK l \in {"clear", "words", "stop"} :
             Goto(Main, l)
    BY <1>7, LockThreads DEF Judge, LastWords, Goto, At
  <2>3. PlacesOK'
    BY <2>2, MovesStayInPlaces, LockThreads
    DEF LocksInv, TypeOK, Threads, MainPlaces
  <2>4. TypeOK'
    <3>1. OwnersOK'
      BY <1>7, <2>1, <2>2, <2>3, LockThreads
      DEF Judge, LastWords, LocksInv, TypeOK, OwnersOK, PlacesOK, Threads, locks,
          At, Goto, outside
    <3>2. FlagsOK'
      BY <1>7, <2>1, <2>2, <2>3, LockThreads
      DEF Judge, LastWords, LocksInv, TypeOK, FlagsOK, locks, At, Goto, outside
    <3>3. PeersOK'
      BY <1>7, <2>1, <2>2, <2>3, LockThreads
      DEF Judge, LastWords, LocksInv, TypeOK, PeersOK, PlacesOK, Threads, At, Goto,
          outside
    <3> QED
      BY <2>1, <2>3, <3>1, <3>2, <3>3 DEF TypeOK
  <2>5. LockOrder'
    BY <1>7, <2>2, <2>3, LockThreads
    DEF Judge, LastWords, LocksInv, TypeOK, PlacesOK, OwnersOK, FlagsOK, PeersOK,
        LockOrder, PumpsJoined, Threads, MainPlaces, PumpPlaces, ClientPlaces,
        locks, outside, At, Running, Goto, CoreFree, SinkFree, StdinFree
  <2>6. PumpsJoined'
    BY <1>7, <2>2, <2>3, LockThreads
    DEF Judge, LastWords, LocksInv, TypeOK, PlacesOK, OwnersOK, FlagsOK, PeersOK,
        LockOrder, PumpsJoined, Threads, MainPlaces, PumpPlaces, ClientPlaces,
        locks, outside, At, Running, Goto, CoreFree, SinkFree, StdinFree
  <2> QED
    BY <2>4, <2>5, <2>6 DEF LocksInv
<1>8. ASSUME ClearSink PROVE LocksInv'
  <2>1. CoreTypeOK'
    BY <1>8, CoreTypes DEF LocksInv, TypeOK, ClearSink
  <2> QED
    BY <1>8, <2>1, LockThreads
    DEF ClearSink, LocksInv, TypeOK, PlacesOK, OwnersOK, FlagsOK, PeersOK,
        LockOrder, PumpsJoined, Threads, MainPlaces, PumpPlaces, ClientPlaces,
        locks, outside, At, Running, Goto, CoreFree, SinkFree, StdinFree
<1>9. ASSUME Spawn PROVE LocksInv'
  <2>1. CoreTypeOK'
    BY <1>9, CoreTypes DEF LocksInv, TypeOK, Spawn
  <2>2. PICK l \in {"boot", "words", "stop"} :
             Goto(Main, l)
    BY <1>9, LockThreads DEF Spawn, LastWords, Goto, At
  <2>3. PlacesOK'
    BY <2>2, MovesStayInPlaces, LockThreads
    DEF LocksInv, TypeOK, Threads, MainPlaces
  <2>4. TypeOK'
    <3>1. OwnersOK'
      BY <1>9, <2>1, <2>2, <2>3, LockThreads
      DEF Spawn, LastWords, LocksInv, TypeOK, OwnersOK, PlacesOK, Threads, locks,
          At, Goto, outside
    <3>2. FlagsOK'
      BY <1>9, <2>1, <2>2, <2>3, LockThreads
      DEF Spawn, LastWords, LocksInv, TypeOK, FlagsOK, locks, At, Goto, outside
    <3>3. PeersOK'
      BY <1>9, <2>1, <2>2, <2>3, LockThreads
      DEF Spawn, LastWords, LocksInv, TypeOK, PeersOK, PlacesOK, Threads, At, Goto,
          outside
    <3> QED
      BY <2>1, <2>3, <3>1, <3>2, <3>3 DEF TypeOK
  <2>5. LockOrder'
    BY <1>9, <2>2, <2>3, LockThreads
    DEF Spawn, LastWords, LocksInv, TypeOK, PlacesOK, OwnersOK, FlagsOK, PeersOK,
        LockOrder, PumpsJoined, Threads, MainPlaces, PumpPlaces, ClientPlaces,
        locks, outside, At, Running, Goto, CoreFree, SinkFree, StdinFree
  <2>6. PumpsJoined'
    BY <1>9, <2>2, <2>3, LockThreads
    DEF Spawn, LastWords, LocksInv, TypeOK, PlacesOK, OwnersOK, FlagsOK, PeersOK,
        LockOrder, PumpsJoined, Threads, MainPlaces, PumpPlaces, ClientPlaces,
        locks, outside, At, Running, Goto, CoreFree, SinkFree, StdinFree
  <2> QED
    BY <2>4, <2>5, <2>6 DEF LocksInv
<1>10. ASSUME Reboot PROVE LocksInv'
  <2>1. CoreTypeOK'
    BY <1>10, CoreTypes DEF LocksInv, TypeOK, Reboot, core
  <2> QED
    BY <1>10, <2>1, LockThreads
    DEF Reboot, LocksInv, TypeOK, PlacesOK, OwnersOK, FlagsOK, PeersOK, LockOrder,
        PumpsJoined, Threads, MainPlaces, PumpPlaces, ClientPlaces, locks, outside,
        At, Running, Goto, CoreFree, SinkFree, StdinFree
<1>11. ASSUME WireRepl PROVE LocksInv'
  <2>1. CoreTypeOK'
    BY <1>11, CoreTypes DEF LocksInv, TypeOK, WireRepl
  <2> QED
    BY <1>11, <2>1, LockThreads
    DEF WireRepl, LocksInv, TypeOK, PlacesOK, OwnersOK, FlagsOK, PeersOK,
        LockOrder, PumpsJoined, Threads, MainPlaces, PumpPlaces, ClientPlaces,
        locks, outside, At, Running, Goto, CoreFree, SinkFree, StdinFree
<1>12. ASSUME StopServer PROVE LocksInv'
  <2>1. CoreTypeOK'
    BY <1>12, CoreTypes DEF LocksInv, TypeOK, StopServer, core
  <2> QED
    BY <1>12, <2>1, LockThreads
    DEF StopServer, LocksInv, TypeOK, PlacesOK, OwnersOK, FlagsOK, PeersOK,
        LockOrder, PumpsJoined, Threads, MainPlaces, PumpPlaces, ClientPlaces,
        locks, outside, At, Running, Goto, CoreFree, SinkFree, StdinFree
<1>13. ASSUME Cleanup PROVE LocksInv'
  <2>1. CoreTypeOK'
    BY <1>13, CoreTypes DEF LocksInv, TypeOK, Cleanup
  <2> QED
    BY <1>13, <2>1, LockThreads
    DEF Cleanup, LocksInv, TypeOK, PlacesOK, OwnersOK, FlagsOK, PeersOK, LockOrder,
        PumpsJoined, Threads, MainPlaces, PumpPlaces, ClientPlaces, locks, outside,
        At, Running, Goto, CoreFree, SinkFree, StdinFree
<1>14. ASSUME NobodyWaiting PROVE LocksInv'
  <2>1. CoreTypeOK'
    BY <1>14, CoreTypes DEF LocksInv, TypeOK, NobodyWaiting
  <2> QED
    BY <1>14, <2>1, LockThreads
    DEF NobodyWaiting, LocksInv, TypeOK, PlacesOK, OwnersOK, FlagsOK, PeersOK,
        LockOrder, PumpsJoined, Threads, MainPlaces, PumpPlaces, ClientPlaces,
        locks, outside, At, Running, Goto, CoreFree, SinkFree, StdinFree
<1>15. ASSUME AcceptCore PROVE LocksInv'
  <2>1. CoreTypeOK'
    BY <1>15, CoreTypes DEF LocksInv, TypeOK, AcceptCore
  <2> QED
    BY <1>15, <2>1, LockThreads
    DEF AcceptCore, LocksInv, TypeOK, PlacesOK, OwnersOK, FlagsOK, PeersOK,
        LockOrder, PumpsJoined, Threads, MainPlaces, PumpPlaces, ClientPlaces,
        locks, outside, At, Running, Goto, CoreFree, SinkFree, StdinFree
<1>16. ASSUME NEW c \in Clients, AcceptSink(c) PROVE LocksInv'
  <2>1. CoreTypeOK'
    BY <1>16, CoreTypes DEF LocksInv, TypeOK, AcceptSink, core
  <2>2. TypeOK'
    <3>1. PlacesOK'
      BY <1>16, <2>1, LockThreads
      DEF AcceptSink, LocksInv, TypeOK, PlacesOK, Threads, MainPlaces, PumpPlaces,
          ClientPlaces, At, Goto, outside
    <3>2. OwnersOK'
      BY <1>16, <2>1, LockThreads
      DEF AcceptSink, LocksInv, TypeOK, OwnersOK, PlacesOK, Threads, locks, At,
          Goto, outside
    <3>3. FlagsOK'
      BY <1>16, <2>1, LockThreads
      DEF AcceptSink, LocksInv, TypeOK, FlagsOK, locks, At, Goto, outside
    <3>4. PeersOK'
      BY <1>16, <2>1, LockThreads
      DEF AcceptSink, LocksInv, TypeOK, PeersOK, PlacesOK, Threads, At, Goto,
          outside
    <3> QED
      BY <2>1, <3>1, <3>2, <3>3, <3>4 DEF TypeOK
  <2>3. LockOrder'
    BY <1>16, <2>1, LockThreads
    DEF AcceptSink, LocksInv, TypeOK, PlacesOK, OwnersOK, FlagsOK, PeersOK,
        LockOrder, PumpsJoined, Threads, MainPlaces, PumpPlaces, ClientPlaces,
        locks, outside, At, Running, Goto, CoreFree, SinkFree, StdinFree
  <2>4. PumpsJoined'
    BY <1>16, <2>1, LockThreads
    DEF AcceptSink, LocksInv, TypeOK, PlacesOK, OwnersOK, FlagsOK, PeersOK,
        LockOrder, PumpsJoined, Threads, MainPlaces, PumpPlaces, ClientPlaces,
        locks, outside, At, Running, Goto, CoreFree, SinkFree, StdinFree
  <2> QED
    BY <2>2, <2>3, <2>4 DEF LocksInv
<1>17. ASSUME GreetCore PROVE LocksInv'
  <2>1. CoreTypeOK'
    BY <1>17, CoreTypes DEF LocksInv, TypeOK, GreetCore
  <2> QED
    BY <1>17, <2>1, LockThreads
    DEF GreetCore, LocksInv, TypeOK, PlacesOK, OwnersOK, FlagsOK, PeersOK,
        LockOrder, PumpsJoined, Threads, MainPlaces, PumpPlaces, ClientPlaces,
        locks, outside, At, Running, Goto, CoreFree, SinkFree, StdinFree
<1>18. ASSUME SpawnClientIn PROVE LocksInv'
  <2>1. CoreTypeOK'
    BY <1>18, CoreTypes DEF LocksInv, TypeOK, SpawnClientIn
  <2> QED
    BY <1>18, <2>1, LockThreads
    DEF SpawnClientIn, LocksInv, TypeOK, PlacesOK, OwnersOK, FlagsOK, PeersOK,
        LockOrder, PumpsJoined, Threads, MainPlaces, PumpPlaces, ClientPlaces,
        locks, outside, At, Running, Goto, CoreFree, SinkFree, StdinFree
<1>19. ASSUME LockStdin(Main, "warmup", "warmup_write") PROVE LocksInv'
  <2>1. CoreTypeOK'
    BY <1>19, CoreTypes DEF LocksInv, TypeOK, LockStdin
  <2> QED
    BY <1>19, <2>1, LockThreads
    DEF LockStdin, LocksInv, TypeOK, PlacesOK, OwnersOK, FlagsOK, PeersOK,
        LockOrder, PumpsJoined, Threads, MainPlaces, PumpPlaces, ClientPlaces,
        locks, outside, At, Running, Goto, CoreFree, SinkFree, StdinFree
<1>20. ASSUME SendWarmup PROVE LocksInv'
  <2>1. CoreTypeOK'
    BY <1>20, CoreTypes DEF LocksInv, TypeOK, SendWarmup
  <2> QED
    BY <1>20, <2>1, LockThreads
    DEF SendWarmup, LocksInv, TypeOK, PlacesOK, OwnersOK, FlagsOK, PeersOK,
        LockOrder, PumpsJoined, Threads, MainPlaces, PumpPlaces, ClientPlaces,
        locks, outside, At, Running, Goto, CoreFree, SinkFree, StdinFree
<1>21. ASSUME LockSink(Main, "greet_sink", "greet_write", "thread") PROVE LocksInv'
  <2>1. CoreTypeOK'
    BY <1>21, CoreTypes DEF LocksInv, TypeOK, LockSink
  <2>2. PICK l \in {"greet_write", "thread"} :
             Goto(Main, l)
    BY <1>21, LockThreads DEF LockSink, Goto, At
  <2>3. PlacesOK'
    BY <2>2, MovesStayInPlaces, LockThreads
    DEF LocksInv, TypeOK, Threads, MainPlaces
  <2>4. TypeOK'
    <3>2. OwnersOK'
      BY <1>21, <2>1, <2>2, <2>3, LockThreads
      DEF LockSink, LocksInv, TypeOK, OwnersOK, PlacesOK, Threads, locks, At, Goto,
          outside
    <3>3. FlagsOK'
      BY <1>21, <2>1, <2>2, <2>3, LockThreads
      DEF LockSink, LocksInv, TypeOK, FlagsOK, locks, At, Goto, outside
    <3>4. PeersOK'
      BY <1>21, <2>1, <2>2, <2>3, LockThreads
      DEF LockSink, LocksInv, TypeOK, PeersOK, PlacesOK, Threads, At, Goto, outside
    <3> QED
      BY <2>1, <2>3, <3>2, <3>3, <3>4 DEF TypeOK
  <2>5. LockOrder'
    <3>1. /\ coreBy' = coreBy /\ (coreBy # None => pc'[coreBy] = pc[coreBy])
          /\ stdinBy' = stdinBy /\ (stdinBy # None => pc'[stdinBy] = pc[stdinBy])
      BY <1>21, <2>2, LockThreads
      DEF LockSink, LocksInv, TypeOK, PlacesOK, OwnersOK, LockOrder, Threads,
          locks, At, Goto
    <3>2. sinkBy' # None
            => slot' # None /\ pc'[sinkBy'] \in {"greet_write", "words_write", "write"}
      BY <1>21, LockThreads
      DEF LockSink, LocksInv, TypeOK, PlacesOK, Threads, At, Goto, SinkFree
    <3> QED
      BY <3>1, <3>2 DEF LocksInv, LockOrder
  <2>6. PumpsJoined'
    BY <1>21, <2>2, <2>3, LockThreads
    DEF LockSink, LocksInv, TypeOK, PlacesOK, OwnersOK, FlagsOK, PeersOK,
        LockOrder, PumpsJoined, Threads, MainPlaces, PumpPlaces, ClientPlaces,
        locks, outside, At, Running, Goto, CoreFree, SinkFree, StdinFree
  <2> QED
    BY <2>4, <2>5, <2>6 DEF LocksInv
<1>22. ASSUME WriteSocket(Main, "greet_write", "thread") PROVE LocksInv'
  <2>1. CoreTypeOK'
    BY <1>22, CoreTypes DEF LocksInv, TypeOK, WriteSocket
  <2>2. PlacesOK'
    BY <1>22, MovesStayInPlaces, LockThreads
    DEF WriteSocket, LocksInv, TypeOK, Threads, MainPlaces
  <2> QED
    BY <1>22, <2>1, <2>2, WriteLocks DEF LocksInv, Threads
<1>23. ASSUME LockSink(Main, "words", "words_write", "stop") PROVE LocksInv'
  <2>1. CoreTypeOK'
    BY <1>23, CoreTypes DEF LocksInv, TypeOK, LockSink
  <2>2. PICK l \in {"words_write", "stop"} :
             Goto(Main, l)
    BY <1>23, LockThreads DEF LockSink, Goto, At
  <2>3. PlacesOK'
    BY <2>2, MovesStayInPlaces, LockThreads
    DEF LocksInv, TypeOK, Threads, MainPlaces
  <2>4. TypeOK'
    <3>2. OwnersOK'
      BY <1>23, <2>1, <2>2, <2>3, LockThreads
      DEF LockSink, LocksInv, TypeOK, OwnersOK, PlacesOK, Threads, locks, At, Goto,
          outside
    <3>3. FlagsOK'
      BY <1>23, <2>1, <2>2, <2>3, LockThreads
      DEF LockSink, LocksInv, TypeOK, FlagsOK, locks, At, Goto, outside
    <3>4. PeersOK'
      BY <1>23, <2>1, <2>2, <2>3, LockThreads
      DEF LockSink, LocksInv, TypeOK, PeersOK, PlacesOK, Threads, At, Goto, outside
    <3> QED
      BY <2>1, <2>3, <3>2, <3>3, <3>4 DEF TypeOK
  <2>5. LockOrder'
    <3>1. /\ coreBy' = coreBy /\ (coreBy # None => pc'[coreBy] = pc[coreBy])
          /\ stdinBy' = stdinBy /\ (stdinBy # None => pc'[stdinBy] = pc[stdinBy])
      BY <1>23, <2>2, LockThreads
      DEF LockSink, LocksInv, TypeOK, PlacesOK, OwnersOK, LockOrder, Threads,
          locks, At, Goto
    <3>2. sinkBy' # None
            => slot' # None /\ pc'[sinkBy'] \in {"greet_write", "words_write", "write"}
      BY <1>23, LockThreads
      DEF LockSink, LocksInv, TypeOK, PlacesOK, Threads, At, Goto, SinkFree
    <3> QED
      BY <3>1, <3>2 DEF LocksInv, LockOrder
  <2>6. PumpsJoined'
    BY <1>23, <2>2, <2>3, LockThreads
    DEF LockSink, LocksInv, TypeOK, PlacesOK, OwnersOK, FlagsOK, PeersOK,
        LockOrder, PumpsJoined, Threads, MainPlaces, PumpPlaces, ClientPlaces,
        locks, outside, At, Running, Goto, CoreFree, SinkFree, StdinFree
  <2> QED
    BY <2>4, <2>5, <2>6 DEF LocksInv
<1>24. ASSUME WriteSocket(Main, "words_write", "stop") PROVE LocksInv'
  <2>1. CoreTypeOK'
    BY <1>24, CoreTypes DEF LocksInv, TypeOK, WriteSocket
  <2>2. PlacesOK'
    BY <1>24, MovesStayInPlaces, LockThreads
    DEF WriteSocket, LocksInv, TypeOK, Threads, MainPlaces
  <2> QED
    BY <1>24, <2>1, <2>2, WriteLocks DEF LocksInv, Threads
<1> QED
  BY <1>1, <1>2, <1>3, <1>4, <1>5, <1>6, <1>7, <1>8, <1>9, <1>10, <1>11, <1>12, <1>13,
     <1>14, <1>15, <1>16, <1>17, <1>18, <1>19, <1>20, <1>21, <1>22, <1>23, <1>24
  DEF Supervise, MainIO

\* The steps of a pump keep the invariant.
LEMMA PumpLocks ==
  ASSUME LocksInv, NEW s \in Streams, Pump(s) PROVE LocksInv'
<1>1. ASSUME Snapshot(s) PROVE LocksInv'
  <2>1. CoreTypeOK'
    BY <1>1, CoreTypes DEF LocksInv, TypeOK, Snapshot
  <2> QED
    BY <1>1, <2>1, LockThreads
    DEF Snapshot, Destination, Own, LocksInv, TypeOK, PlacesOK, OwnersOK, FlagsOK,
        PeersOK, LockOrder, PumpsJoined, Threads, MainPlaces, PumpPlaces,
        ClientPlaces, locks, outside, At, Running, Goto, CoreFree, SinkFree,
        StdinFree
<1>2. ASSUME Detected(s) PROVE LocksInv'
  <2>1. CoreTypeOK'
    BY <1>2, CoreTypes DEF LocksInv, TypeOK, Detected, core
  <2> QED
    BY <1>2, <2>1, LockThreads
    DEF Detected, Own, LocksInv, TypeOK, PlacesOK, OwnersOK, FlagsOK, PeersOK,
        LockOrder, PumpsJoined, Threads, MainPlaces, PumpPlaces, ClientPlaces,
        locks, outside, At, Running, Goto, CoreFree, SinkFree, StdinFree
<1>3. ASSUME KeepFromClient(s) PROVE LocksInv'
  <2>1. CoreTypeOK'
    BY <1>3, CoreTypes DEF LocksInv, TypeOK, KeepFromClient
  <2> QED
    BY <1>3, <2>1, LockThreads
    DEF KeepFromClient, LocksInv, TypeOK, PlacesOK, OwnersOK, FlagsOK, PeersOK,
        LockOrder, PumpsJoined, Threads, MainPlaces, PumpPlaces, ClientPlaces,
        locks, outside, At, Running, Goto, CoreFree, SinkFree, StdinFree
<1>4. ASSUME Boundary(s) PROVE LocksInv'
  <2>1. CoreTypeOK'
    BY <1>4, CoreTypes DEF LocksInv, TypeOK, Boundary, core
  <2> QED
    BY <1>4, <2>1, LockThreads
    DEF Boundary, LocksInv, TypeOK, PlacesOK, OwnersOK, FlagsOK, PeersOK,
        LockOrder, PumpsJoined, Threads, MainPlaces, PumpPlaces, ClientPlaces,
        locks, outside, At, Running, Goto, CoreFree, SinkFree, StdinFree
<1>5. ASSUME Eof(s) PROVE LocksInv'
  <2>1. CoreTypeOK'
    BY <1>5, CoreTypes DEF LocksInv, TypeOK, Eof
  <2> QED
    BY <1>5, <2>1, LockThreads
    DEF Eof, LocksInv, TypeOK, PlacesOK, OwnersOK, FlagsOK, PeersOK, LockOrder,
        PumpsJoined, Threads, MainPlaces, PumpPlaces, ClientPlaces, locks, outside,
        At, Running, Goto, CoreFree, SinkFree, StdinFree
<1>6. ASSUME LockSink(s, "route", "write", AfterRoute(s)) PROVE LocksInv'
  <2>1. CoreTypeOK'
    BY <1>6, CoreTypes DEF LocksInv, TypeOK, LockSink
  <2>2. PICK l \in {"write", "boundary", "read"} :
             Goto(s, l)
    BY <1>6, LockThreads DEF LockSink, AfterRoute, Goto, At
  <2>3. PlacesOK'
    BY <2>2, MovesStayInPlaces, LockThreads
    DEF LocksInv, TypeOK, Threads, PumpPlaces
  <2>4. TypeOK'
    <3>2. OwnersOK'
      BY <1>6, <2>1, <2>2, <2>3, LockThreads
      DEF LockSink, AfterRoute, LocksInv, TypeOK, OwnersOK, PlacesOK, Threads,
          locks, At, Goto, outside
    <3>3. FlagsOK'
      BY <1>6, <2>1, <2>2, <2>3, LockThreads
      DEF LockSink, AfterRoute, LocksInv, TypeOK, FlagsOK, locks, At, Goto, outside
    <3>4. PeersOK'
      BY <1>6, <2>1, <2>2, <2>3, LockThreads
      DEF LockSink, AfterRoute, LocksInv, TypeOK, PeersOK, PlacesOK, Threads, At,
          Goto, outside
    <3> QED
      BY <2>1, <2>3, <3>2, <3>3, <3>4 DEF TypeOK
  <2>5. LockOrder'
    <3>1. /\ coreBy' = coreBy /\ (coreBy # None => pc'[coreBy] = pc[coreBy])
          /\ stdinBy' = stdinBy /\ (stdinBy # None => pc'[stdinBy] = pc[stdinBy])
      BY <1>6, <2>2, LockThreads
      DEF LockSink, LocksInv, TypeOK, PlacesOK, OwnersOK, LockOrder, Threads,
          locks, At, Goto
    <3>2. sinkBy' # None
            => slot' # None /\ pc'[sinkBy'] \in {"greet_write", "words_write", "write"}
      BY <1>6, LockThreads
      DEF LockSink, LocksInv, TypeOK, PlacesOK, Threads, At, Goto, SinkFree
    <3> QED
      BY <3>1, <3>2 DEF LocksInv, LockOrder
  <2>6. PumpsJoined'
    BY <1>6, <2>2, <2>3, LockThreads
    DEF LockSink, AfterRoute, LocksInv, TypeOK, PlacesOK, OwnersOK, FlagsOK,
        PeersOK, LockOrder, PumpsJoined, Threads, MainPlaces, PumpPlaces,
        ClientPlaces, locks, outside, At, Running, Goto, CoreFree, SinkFree,
        StdinFree
  <2> QED
    BY <2>4, <2>5, <2>6 DEF LocksInv
<1>7. ASSUME WriteSocket(s, "write", AfterRoute(s)) PROVE LocksInv'
  <2>1. CoreTypeOK'
    BY <1>7, CoreTypes DEF LocksInv, TypeOK, WriteSocket
  <2>2. PlacesOK'
    BY <1>7, MovesStayInPlaces, LockThreads
    DEF WriteSocket, LocksInv, TypeOK, Threads, PumpPlaces, AfterRoute
  <2> QED
    BY <1>7, <2>1, <2>2, WriteLocks DEF LocksInv, Threads, AfterRoute
<1> QED
  BY <1>1, <1>2, <1>3, <1>4, <1>5, <1>6, <1>7 DEF Pump

\* The steps of a client_in keep the invariant.
LEMMA ClientInLocks ==
  ASSUME LocksInv, NEW c \in Clients, ClientIn(c) PROVE LocksInv'
<1>1. ASSUME WaitUntilReady(c) PROVE LocksInv'
  <2>1. CoreTypeOK'
    BY <1>1, CoreTypes DEF LocksInv, TypeOK, WaitUntilReady
  <2> QED
    BY <1>1, <2>1, LockThreads
    DEF WaitUntilReady, LocksInv, TypeOK, PlacesOK, OwnersOK, FlagsOK, PeersOK,
        LockOrder, PumpsJoined, Threads, MainPlaces, PumpPlaces, ClientPlaces,
        locks, outside, At, Running, Goto, CoreFree, SinkFree, StdinFree
<1>2. ASSUME ReadEof(c) PROVE LocksInv'
  <2>1. CoreTypeOK'
    BY <1>2, CoreTypes DEF LocksInv, TypeOK, ReadEof
  <2>2. TypeOK'
    <3>1. PlacesOK'
      BY <1>2, <2>1, LockThreads
      DEF ReadEof, LocksInv, TypeOK, PlacesOK, Threads, MainPlaces, PumpPlaces,
          ClientPlaces, At, Goto, outside
    <3>2. OwnersOK'
      BY <1>2, <2>1, LockThreads
      DEF ReadEof, LocksInv, TypeOK, OwnersOK, PlacesOK, Threads, locks, At, Goto,
          outside
    <3>3. FlagsOK'
      BY <1>2, <2>1, LockThreads
      DEF ReadEof, LocksInv, TypeOK, FlagsOK, locks, At, Goto, outside
    <3>4. PeersOK'
      BY <1>2, <2>1, LockThreads
      DEF ReadEof, LocksInv, TypeOK, PeersOK, PlacesOK, Threads, At, Goto, outside
    <3> QED
      BY <2>1, <3>1, <3>2, <3>3, <3>4 DEF TypeOK
  <2>3. LockOrder'
    BY <1>2, <2>1, LockThreads
    DEF ReadEof, LocksInv, TypeOK, PlacesOK, OwnersOK, FlagsOK, PeersOK, LockOrder,
        PumpsJoined, Threads, MainPlaces, PumpPlaces, ClientPlaces, locks, outside,
        At, Running, Goto, CoreFree, SinkFree, StdinFree
  <2>4. PumpsJoined'
    BY <1>2, <2>1, LockThreads
    DEF ReadEof, LocksInv, TypeOK, PlacesOK, OwnersOK, FlagsOK, PeersOK, LockOrder,
        PumpsJoined, Threads, MainPlaces, PumpPlaces, ClientPlaces, locks, outside,
        At, Running, Goto, CoreFree, SinkFree, StdinFree
  <2> QED
    BY <2>2, <2>3, <2>4 DEF LocksInv
<1>3. ASSUME StartRequest(c) PROVE LocksInv'
  <2>1. CoreTypeOK'
    BY <1>3, CoreTypes DEF LocksInv, TypeOK, StartRequest, core
  <2> QED
    BY <1>3, <2>1, LockThreads
    DEF StartRequest, LocksInv, TypeOK, PlacesOK, OwnersOK, FlagsOK, PeersOK,
        LockOrder, PumpsJoined, Threads, MainPlaces, PumpPlaces, ClientPlaces,
        locks, outside, At, Running, Goto, CoreFree, SinkFree, StdinFree
<1>4. ASSUME LockStdin(c, "fstdin", "fwrite") PROVE LocksInv'
  <2>1. CoreTypeOK'
    BY <1>4, CoreTypes DEF LocksInv, TypeOK, LockStdin
  <2> QED
    BY <1>4, <2>1, LockThreads
    DEF LockStdin, LocksInv, TypeOK, PlacesOK, OwnersOK, FlagsOK, PeersOK,
        LockOrder, PumpsJoined, Threads, MainPlaces, PumpPlaces, ClientPlaces,
        locks, outside, At, Running, Goto, CoreFree, SinkFree, StdinFree
<1>5. ASSUME Forward(c) PROVE LocksInv'
  <2>1. CoreTypeOK'
    BY <1>5, CoreTypes DEF LocksInv, TypeOK, Forward
  <2>2. PICK l \in {"gone", "fwait", "wait"} :
             Goto(c, l)
    BY <1>5, LockThreads DEF Forward, Goto, At
  <2>3. PlacesOK'
    BY <2>2, MovesStayInPlaces, LockThreads
    DEF LocksInv, TypeOK, Threads, ClientPlaces
  <2>4. TypeOK'
    <3>1. OwnersOK'
      BY <1>5, <2>1, <2>2, <2>3, LockThreads
      DEF Forward, LocksInv, TypeOK, OwnersOK, PlacesOK, Threads, locks, At, Goto,
          outside
    <3>2. FlagsOK'
      BY <1>5, <2>1, <2>2, <2>3, LockThreads
      DEF Forward, LocksInv, TypeOK, FlagsOK, locks, At, Goto, outside
    <3>3. PeersOK'
      BY <1>5, <2>1, <2>2, <2>3, LockThreads
      DEF Forward, LocksInv, TypeOK, PeersOK, PlacesOK, Threads, At, Goto, outside
    <3> QED
      BY <2>1, <2>3, <3>1, <3>2, <3>3 DEF TypeOK
  <2>5. LockOrder'
    BY <1>5, <2>2, <2>3, LockThreads
    DEF Forward, LocksInv, TypeOK, PlacesOK, OwnersOK, FlagsOK, PeersOK, LockOrder,
        PumpsJoined, Threads, MainPlaces, PumpPlaces, ClientPlaces, locks, outside,
        At, Running, Goto, CoreFree, SinkFree, StdinFree
  <2>6. PumpsJoined'
    BY <1>5, <2>2, <2>3, LockThreads
    DEF Forward, LocksInv, TypeOK, PlacesOK, OwnersOK, FlagsOK, PeersOK, LockOrder,
        PumpsJoined, Threads, MainPlaces, PumpPlaces, ClientPlaces, locks, outside,
        At, Running, Goto, CoreFree, SinkFree, StdinFree
  <2> QED
    BY <2>4, <2>5, <2>6 DEF LocksInv
<1>6. ASSUME GoneCore(c) PROVE LocksInv'
  <2>1. CoreTypeOK'
    BY <1>6, CoreTypes DEF LocksInv, TypeOK, GoneCore
  <2> QED
    BY <1>6, <2>1, LockThreads
    DEF GoneCore, LocksInv, TypeOK, PlacesOK, OwnersOK, FlagsOK, PeersOK,
        LockOrder, PumpsJoined, Threads, MainPlaces, PumpPlaces, ClientPlaces,
        locks, outside, At, Running, Goto, CoreFree, SinkFree, StdinFree
<1>7. ASSUME GoneSink(c) PROVE LocksInv'
  <2>1. CoreTypeOK'
    BY <1>7, CoreTypes DEF LocksInv, TypeOK, GoneSink, core
  <2> QED
    BY <1>7, <2>1, LockThreads
    DEF GoneSink, LocksInv, TypeOK, PlacesOK, OwnersOK, FlagsOK, PeersOK,
        LockOrder, PumpsJoined, Threads, MainPlaces, PumpPlaces, ClientPlaces,
        locks, outside, At, Running, Goto, CoreFree, SinkFree, StdinFree
<1> QED
  BY <1>1, <1>2, <1>3, <1>4, <1>5, <1>6, <1>7 DEF ClientIn

\* The steps of the surroundings keep the invariant.
LEMMA SurroundingsLocks ==
  ASSUME LocksInv, Surroundings PROVE LocksInv'
<1>1. ASSUME NEW c \in Clients, Connect(c) PROVE LocksInv'
  <2>1. CoreTypeOK'
    BY <1>1, CoreTypes DEF LocksInv, TypeOK, Connect, inside
  <2> QED
    BY <1>1, <2>1, LockThreads
    DEF Connect, inside, LocksInv, TypeOK, PlacesOK, OwnersOK, FlagsOK, PeersOK,
        LockOrder, PumpsJoined, Threads, MainPlaces, PumpPlaces, ClientPlaces,
        locks, outside, At, Running, Goto, CoreFree, SinkFree, StdinFree
<1>2. ASSUME NEW c \in Clients, Input(c) PROVE LocksInv'
  <2>1. CoreTypeOK'
    BY <1>2, CoreTypes DEF LocksInv, TypeOK, Input, inside
  <2>2. TypeOK'
    <3>1. PlacesOK'
      BY <1>2, <2>1, LockThreads
      DEF Input, inside, LocksInv, TypeOK, PlacesOK, Threads, MainPlaces,
          PumpPlaces, ClientPlaces, At, Goto, outside
    <3>2. OwnersOK'
      BY <1>2, <2>1, LockThreads
      DEF Input, inside, LocksInv, TypeOK, OwnersOK, PlacesOK, Threads, locks, At,
          Goto, outside
    <3>3. FlagsOK'
      BY <1>2, <2>1, LockThreads
      DEF Input, inside, LocksInv, TypeOK, FlagsOK, locks, At, Goto, outside
    <3>4. PeersOK'
      BY <1>2, <2>1, LockThreads
      DEF Input, inside, LocksInv, TypeOK, PeersOK, PlacesOK, Threads, At, Goto,
          outside
    <3> QED
      BY <2>1, <3>1, <3>2, <3>3, <3>4 DEF TypeOK
  <2>3. LockOrder'
    BY <1>2, <2>1, LockThreads
    DEF Input, inside, LocksInv, TypeOK, PlacesOK, OwnersOK, FlagsOK, PeersOK,
        LockOrder, PumpsJoined, Threads, MainPlaces, PumpPlaces, ClientPlaces,
        locks, outside, At, Running, Goto, CoreFree, SinkFree, StdinFree
  <2>4. PumpsJoined'
    BY <1>2, <2>1, LockThreads
    DEF Input, inside, LocksInv, TypeOK, PlacesOK, OwnersOK, FlagsOK, PeersOK,
        LockOrder, PumpsJoined, Threads, MainPlaces, PumpPlaces, ClientPlaces,
        locks, outside, At, Running, Goto, CoreFree, SinkFree, StdinFree
  <2> QED
    BY <2>2, <2>3, <2>4 DEF LocksInv
<1>3. ASSUME NEW c \in Clients, Leave(c) PROVE LocksInv'
  <2>1. CoreTypeOK'
    BY <1>3, CoreTypes DEF LocksInv, TypeOK, Leave, inside
  <2>2. UNCHANGED <<pc, coreBy, sinkBy, stdinBy, slot, marker>>
    BY <1>3 DEF Leave, inside, locks
  <2>3. PlacesOK' /\ OwnersOK' /\ LockOrder' /\ PumpsJoined'
    BY <2>2
    DEF LocksInv, TypeOK, PlacesOK, OwnersOK, LockOrder, PumpsJoined
  <2>4. FlagsOK'
    BY <1>3 DEF Leave, inside, outside, LocksInv, TypeOK, FlagsOK
  <2>5. PeersOK'
    BY <1>3 DEF Leave, inside, outside, LocksInv, TypeOK, PlacesOK, PeersOK, Threads
  <2> QED
    BY <2>1, <2>3, <2>4, <2>5 DEF LocksInv, TypeOK
<1>4. ASSUME NEW s \in Streams, NEW mark \in BOOLEAN, Output(s, mark) PROVE LocksInv'
  <2>1. CoreTypeOK'
    BY <1>4, CoreTypes DEF LocksInv, TypeOK, Output, inside
  <2> QED
    BY <1>4, <2>1, LockThreads
    DEF Output, inside, LocksInv, TypeOK, PlacesOK, OwnersOK, FlagsOK, PeersOK,
        LockOrder, PumpsJoined, Threads, MainPlaces, PumpPlaces, ClientPlaces,
        locks, outside, At, Running, Goto, CoreFree, SinkFree, StdinFree
<1>5. ASSUME ClientReads PROVE LocksInv'
  <2>1. CoreTypeOK'
    BY <1>5, CoreTypes DEF LocksInv, TypeOK, ClientReads, inside
  <2>2. TypeOK'
    <3>1. PlacesOK'
      BY <1>5, <2>1, LockThreads
      DEF ClientReads, inside, LocksInv, TypeOK, PlacesOK, Threads, MainPlaces,
          PumpPlaces, ClientPlaces, At, Goto, outside
    <3>2. OwnersOK'
      BY <1>5, <2>1, LockThreads
      DEF ClientReads, inside, LocksInv, TypeOK, OwnersOK, PlacesOK, Threads,
          locks, At, Goto, outside
    <3>3. FlagsOK'
      BY <1>5, <2>1, LockThreads
      DEF ClientReads, inside, LocksInv, TypeOK, FlagsOK, locks, At, Goto, outside
    <3>4. PeersOK'
      BY <1>5, <2>1, LockThreads
      DEF ClientReads, inside, LocksInv, TypeOK, PeersOK, PlacesOK, Threads, At,
          Goto, outside
    <3> QED
      BY <2>1, <3>1, <3>2, <3>3, <3>4 DEF TypeOK
  <2>3. LockOrder'
    BY <1>5, <2>1, LockThreads
    DEF ClientReads, inside, LocksInv, TypeOK, PlacesOK, OwnersOK, FlagsOK,
        PeersOK, LockOrder, PumpsJoined, Threads, MainPlaces, PumpPlaces,
        ClientPlaces, locks, outside, At, Running, Goto, CoreFree, SinkFree,
        StdinFree
  <2>4. PumpsJoined'
    BY <1>5, <2>1, LockThreads
    DEF ClientReads, inside, LocksInv, TypeOK, PlacesOK, OwnersOK, FlagsOK,
        PeersOK, LockOrder, PumpsJoined, Threads, MainPlaces, PumpPlaces,
        ClientPlaces, locks, outside, At, Running, Goto, CoreFree, SinkFree,
        StdinFree
  <2> QED
    BY <2>2, <2>3, <2>4 DEF LocksInv
<1>6. ASSUME ReplReads PROVE LocksInv'
  <2>1. CoreTypeOK'
    BY <1>6, CoreTypes DEF LocksInv, TypeOK, ReplReads, inside
  <2>2. UNCHANGED <<pc, coreBy, sinkBy, stdinBy, slot, marker>>
    BY <1>6 DEF ReplReads, inside, locks
  <2>3. PlacesOK' /\ OwnersOK' /\ LockOrder' /\ PumpsJoined'
    BY <2>2
    DEF LocksInv, TypeOK, PlacesOK, OwnersOK, LockOrder, PumpsJoined
  <2>4. FlagsOK'
    BY <1>6 DEF ReplReads, inside, outside, LocksInv, TypeOK, FlagsOK
  <2>5. PeersOK'
    BY <1>6
    DEF ReplReads, inside, outside, LocksInv, TypeOK, PlacesOK, PeersOK, Threads
  <2> QED
    BY <2>1, <2>3, <2>4, <2>5 DEF LocksInv, TypeOK
<1>7. ASSUME ReplDies PROVE LocksInv'
  <2>1. CoreTypeOK'
    BY <1>7, CoreTypes DEF LocksInv, TypeOK, ReplDies, inside
  <2>2. UNCHANGED <<pc, coreBy, sinkBy, stdinBy, slot, marker>>
    BY <1>7 DEF ReplDies, inside, locks
  <2>3. PlacesOK' /\ OwnersOK' /\ LockOrder' /\ PumpsJoined'
    BY <2>2
    DEF LocksInv, TypeOK, PlacesOK, OwnersOK, LockOrder, PumpsJoined
  <2>4. FlagsOK'
    BY <1>7 DEF ReplDies, inside, outside, LocksInv, TypeOK, FlagsOK
  <2>5. PeersOK'
    BY <1>7
    DEF ReplDies, inside, outside, LocksInv, TypeOK, PlacesOK, PeersOK, Threads
  <2> QED
    BY <2>1, <2>3, <2>4, <2>5 DEF LocksInv, TypeOK
<1>8. ASSUME OrphanEnds PROVE LocksInv'
  <2>1. CoreTypeOK'
    BY <1>8, CoreTypes DEF LocksInv, TypeOK, OrphanEnds, inside
  <2>2. UNCHANGED <<pc, coreBy, sinkBy, stdinBy, slot, marker>>
    BY <1>8 DEF OrphanEnds, inside, locks
  <2>3. PlacesOK' /\ OwnersOK' /\ LockOrder' /\ PumpsJoined'
    BY <2>2
    DEF LocksInv, TypeOK, PlacesOK, OwnersOK, LockOrder, PumpsJoined
  <2>4. FlagsOK'
    BY <1>8 DEF OrphanEnds, inside, outside, LocksInv, TypeOK, FlagsOK
  <2>5. PeersOK'
    BY <1>8
    DEF OrphanEnds, inside, outside, LocksInv, TypeOK, PlacesOK, PeersOK, Threads
  <2> QED
    BY <2>1, <2>3, <2>4, <2>5 DEF LocksInv, TypeOK
<1>9. ASSUME Signal PROVE LocksInv'
  <2>1. CoreTypeOK'
    BY <1>9, CoreTypes DEF LocksInv, TypeOK, Signal, inside
  <2>2. TypeOK'
    <3>1. PlacesOK'
      BY <1>9, <2>1, LockThreads
      DEF Signal, inside, LocksInv, TypeOK, PlacesOK, Threads, MainPlaces,
          PumpPlaces, ClientPlaces, At, Goto, outside
    <3>2. OwnersOK'
      BY <1>9, <2>1, LockThreads
      DEF Signal, inside, LocksInv, TypeOK, OwnersOK, PlacesOK, Threads, locks, At,
          Goto, outside
    <3>3. FlagsOK'
      BY <1>9, <2>1, LockThreads
      DEF Signal, inside, LocksInv, TypeOK, FlagsOK, locks, At, Goto, outside
    <3>4. PeersOK'
      BY <1>9, <2>1, LockThreads
      DEF Signal, inside, LocksInv, TypeOK, PeersOK, PlacesOK, Threads, At, Goto,
          outside
    <3> QED
      BY <2>1, <3>1, <3>2, <3>3, <3>4 DEF TypeOK
  <2>3. LockOrder'
    BY <1>9, <2>1, LockThreads
    DEF Signal, inside, LocksInv, TypeOK, PlacesOK, OwnersOK, FlagsOK, PeersOK,
        LockOrder, PumpsJoined, Threads, MainPlaces, PumpPlaces, ClientPlaces,
        locks, outside, At, Running, Goto, CoreFree, SinkFree, StdinFree
  <2>4. PumpsJoined'
    BY <1>9, <2>1, LockThreads
    DEF Signal, inside, LocksInv, TypeOK, PlacesOK, OwnersOK, FlagsOK, PeersOK,
        LockOrder, PumpsJoined, Threads, MainPlaces, PumpPlaces, ClientPlaces,
        locks, outside, At, Running, Goto, CoreFree, SinkFree, StdinFree
  <2> QED
    BY <2>2, <2>3, <2>4 DEF LocksInv
<1> QED
  BY <1>1, <1>2, <1>3, <1>4, <1>5, <1>6, <1>7, <1>8, <1>9 DEF Surroundings

\* The invariant holds in every state.
THEOREM LocksInvariant == Spec => []LocksInv
<1>1. LocksInv /\ [Next]_vars => LocksInv'
  <2> SUFFICES ASSUME LocksInv, [Next]_vars PROVE LocksInv'
    OBVIOUS
  <2>1. CASE UNCHANGED vars
    BY <2>1
    DEF vars, locks, core, LocksInv, TypeOK, CoreTypeOK, PlacesOK, OwnersOK,
        FlagsOK, PeersOK, LockOrder, PumpsJoined
  <2>2. CASE Exited
    BY <2>1, <2>2 DEF Exited
  <2> QED
    BY <2>1, <2>2, SupervisorLocks, PumpLocks, ClientInLocks, SurroundingsLocks
    DEF Next, Server
<1> QED
  BY InitLocks, <1>1, PTL DEF Spec

\* The types of the variables, and no connection that outlives its client_in.
THEOREM LocksTypeCorrect == Spec => []TypeOK
BY LocksInvariant, PTL DEF LocksInv

\* Who holds a lock across something that takes time waits for the sink with Core,
\* for the socket with the sink, and for the REPL with repl_stdin.
THEOREM LockOrderKept == Spec => []LockOrder
BY LocksInvariant, PTL DEF LocksInv

\* An order of the locks excludes circles.
LEMMA OrderExcludesCircles ==
  ASSUME TypeOK, LockOrder PROVE NoCircularWait
<1> SUFFICES ASSUME NEW group \in (SUBSET Threads) \ {{}}
             PROVE  \E t \in group : \A u \in group : ~WaitsFor(t, u)
  BY DEF NoCircularWait
<1> DEFINE Writers == {sinkBy, stdinBy} \ {None}
<1>1. \A t \in group \cap Writers : \A u \in group : ~WaitsFor(t, u)
  BY LockThreads
  DEF LockOrder, TypeOK, OwnersOK, WaitsFor, NeedsCore, NeedsSink, NeedsStdin
<1>2. CASE group \cap Writers # {}
  BY <1>1, <1>2
<1>3. CASE group \cap Writers = {} /\ coreBy \in group
  <2>1. coreBy # None
    BY <1>3, LockThreads
  <2>2. \A u \in group : ~WaitsFor(coreBy, u)
    BY <1>3, <2>1, LockThreads
    DEF LockOrder, TypeOK, OwnersOK, WaitsFor, NeedsCore, NeedsSink, NeedsStdin
  <2> QED
    BY <1>3, <2>2
<1>4. CASE group \cap Writers = {} /\ coreBy \notin group
  <2>1. \A t \in group \ {Main} : \A u \in group : ~WaitsFor(t, u)
    BY <1>4, LockThreads DEF WaitsFor
  <2>2. PICK t \in group : TRUE
    OBVIOUS
  <2>3. CASE \E u \in group : u # Main
    BY <2>1, <2>3
  <2>4. CASE \A u \in group : u = Main
    BY <1>4, <2>2, <2>4, LockThreads DEF WaitsFor
  <2> QED
    BY <2>3, <2>4
<1> QED
  BY <1>2, <1>3, <1>4

\* The threads of the server never wait for each other in a circle, the joining
\* of the pumps included.
THEOREM NoDeadlockAmongThreads == Spec => []NoCircularWait
<1>1. LocksInv => NoCircularWait
  BY OrderExcludesCircles DEF LocksInv
<1> QED
  BY LocksInvariant, <1>1, PTL

-----------------------------------------------------------------------------
(* Stalls.                                                                 *)

\* Who is at a place that takes a lock has that lock.
Holding ==
  \A t \in Threads :
    /\ pc[t] \in {"accept_sink", "gone_sink"} => coreBy = t
    /\ pc[t] \in SinkWrites => sinkBy = t
    /\ pc[t] \in StdinWrites => stdinBy = t

\* The connection in the slot has been accepted and not been cut, and one that waits
\* to be accepted has not been cut either.
Attached ==
  /\ slot # None => pc[slot] \notin {"none", "queued"} /\ peer[slot] \in {"open", "left"}
  /\ \A c \in Clients :
       /\ pc[c] = "queued" => peer[c] \in {"open", "left"}
       /\ pc[c] # "none" => peer[c] # "away"

\* The supervisor joins the pumps of a process that has ended, and takes Core in
\* handle_connection for somebody.
Purposeful ==
  /\ pc[Main] = "join" => ~alive
  /\ pc[Main] = "accept_sink" => \E c \in Clients : pc[c] = "queued"

StallInv == Holding /\ Attached /\ Purposeful

\* The initial states have it.
LEMMA InitStalls == Init => StallInv
BY LockThreads
   DEF Init, StallInv, Holding, Attached, Purposeful, Threads, SinkWrites, StdinWrites

LEMMA LoopTopStalls ==
  ASSUME LocksInv, StallInv, LoopTop PROVE StallInv'
<1> USE LockThreads DEF LoopTop, At, Goto, locks, outside, Threads, LocksInv, TypeOK,
   PlacesOK, OwnersOK, StallInv
<1>1. Holding'
  BY DEF LockOrder, Holding, SinkWrites, StdinWrites
<1>2. Attached'
  BY DEF PeersOK, Attached
<1>3. Purposeful'
  BY DEF Purposeful
<1> QED
  BY <1>1, <1>2, <1>3

LEMMA PhaseStalls ==
  ASSUME LocksInv, StallInv, Phase PROVE StallInv'
<1> USE LockThreads DEF Phase, At, Goto, locks, outside, CoreFree, Threads, LocksInv,
   TypeOK, PlacesOK, OwnersOK, StallInv
<1>1. Holding'
  BY DEF LockOrder, Holding, SinkWrites, StdinWrites
<1>2. Attached'
  BY DEF PeersOK, Attached
<1>3. Purposeful'
  BY DEF Purposeful
<1> QED
  BY <1>1, <1>2, <1>3

LEMMA WaitElapsedStalls ==
  ASSUME LocksInv, StallInv, WaitElapsed PROVE StallInv'
<1> USE LockThreads DEF WaitElapsed, Goto, locks, outside, CoreFree, Running, Threads,
   LocksInv, TypeOK, PlacesOK, OwnersOK, StallInv
<1>1. Holding'
  BY DEF LockOrder, Holding, SinkWrites, StdinWrites
<1>2. Attached'
  BY DEF PeersOK, Attached
<1>3. Purposeful'
  BY DEF Purposeful
<1> QED
  BY <1>1, <1>2, <1>3

LEMMA TerminateStalls ==
  ASSUME LocksInv, StallInv, Terminate PROVE StallInv'
<1> USE LockThreads DEF Terminate, Goto, locks, Running, Threads, LocksInv, TypeOK,
   PlacesOK, OwnersOK, StallInv
<1>1. Holding'
  BY DEF LockOrder, Holding, SinkWrites, StdinWrites
<1>2. Attached'
  BY DEF PeersOK, Attached
<1>3. Purposeful'
  BY DEF Purposeful
<1> QED
  BY <1>1, <1>2, <1>3

LEMMA ReapStalls ==
  ASSUME LocksInv, StallInv, Reap PROVE StallInv'
<1> USE LockThreads DEF Reap, At, Goto, locks, outside, LastWords, Threads, LocksInv,
   TypeOK, PlacesOK, OwnersOK, StallInv
<1>1. Holding'
  BY DEF LockOrder, Holding, SinkWrites, StdinWrites
<1>2. Attached'
  BY DEF PeersOK, Attached
<1>3. Purposeful'
  BY DEF Purposeful
<1> QED
  BY <1>1, <1>2, <1>3

LEMMA JoinStalls ==
  ASSUME LocksInv, StallInv, Join PROVE StallInv'
<1> USE LockThreads DEF Join, At, Goto, locks, outside, Threads, LocksInv, TypeOK, PlacesOK,
   OwnersOK, StallInv
<1>1. Holding'
  BY DEF LockOrder, Holding, SinkWrites, StdinWrites
<1>2. Attached'
  BY DEF PeersOK, Attached
<1>3. Purposeful'
  BY DEF Purposeful
<1> QED
  BY <1>1, <1>2, <1>3

LEMMA JudgeStalls ==
  ASSUME LocksInv, StallInv, Judge PROVE StallInv'
<1> USE LockThreads DEF Judge, At, Goto, locks, outside, CoreFree, LastWords, Threads,
   LocksInv, TypeOK, PlacesOK, OwnersOK, StallInv
<1>1. Holding'
  BY DEF LockOrder, Holding, SinkWrites, StdinWrites
<1>2. Attached'
  BY DEF PeersOK, Attached
<1>3. Purposeful'
  BY DEF Purposeful
<1> QED
  BY <1>1, <1>2, <1>3

LEMMA ClearSinkStalls ==
  ASSUME LocksInv, StallInv, ClearSink PROVE StallInv'
<1> USE LockThreads DEF ClearSink, At, Goto, locks, SinkFree, Threads, LocksInv, TypeOK,
   PlacesOK, OwnersOK, StallInv
<1>1. Holding'
  BY DEF LockOrder, Holding, SinkWrites, StdinWrites
<1>2. Attached'
  BY DEF PeersOK, Attached
<1>3. Purposeful'
  BY DEF Purposeful
<1> QED
  BY <1>1, <1>2, <1>3

LEMMA SpawnStalls ==
  ASSUME LocksInv, StallInv, Spawn PROVE StallInv'
<1> USE LockThreads DEF Spawn, At, Goto, locks, LastWords, Threads, LocksInv, TypeOK,
   PlacesOK, OwnersOK, StallInv
<1>1. Holding'
  BY DEF LockOrder, Holding, SinkWrites, StdinWrites
<1>2. Attached'
  BY DEF PeersOK, Attached
<1>3. Purposeful'
  BY DEF Purposeful
<1> QED
  BY <1>1, <1>2, <1>3

LEMMA RebootStalls ==
  ASSUME LocksInv, StallInv, Reboot PROVE StallInv'
<1> USE LockThreads DEF Reboot, At, Goto, locks, outside, CoreFree, Threads, LocksInv,
   TypeOK, PlacesOK, OwnersOK, StallInv
<1>1. Holding'
  BY DEF LockOrder, Holding, SinkWrites, StdinWrites
<1>2. Attached'
  BY DEF PeersOK, Attached
<1>3. Purposeful'
  BY DEF Purposeful
<1> QED
  BY <1>1, <1>2, <1>3

LEMMA WireReplStalls ==
  ASSUME LocksInv, StallInv, WireRepl PROVE StallInv'
<1> USE LockThreads DEF WireRepl, At, locks, outside, StdinFree, Threads, LocksInv, TypeOK,
   PlacesOK, OwnersOK, StallInv
<1>1. Holding'
  BY DEF LockOrder, Holding, SinkWrites, StdinWrites
<1>2. Attached'
  BY DEF PeersOK, Attached
<1>3. Purposeful'
  BY DEF Purposeful
<1> QED
  BY <1>1, <1>2, <1>3

LEMMA StopServerStalls ==
  ASSUME LocksInv, StallInv, StopServer PROVE StallInv'
<1> USE LockThreads DEF StopServer, At, Goto, locks, outside, CoreFree, Threads, LocksInv,
   TypeOK, PlacesOK, OwnersOK, StallInv
<1>1. Holding'
  BY DEF LockOrder, Holding, SinkWrites, StdinWrites
<1>2. Attached'
  BY DEF PeersOK, Attached
<1>3. Purposeful'
  BY DEF Purposeful
<1> QED
  BY <1>1, <1>2, <1>3

LEMMA CleanupStalls ==
  ASSUME LocksInv, StallInv, Cleanup PROVE StallInv'
<1> USE LockThreads DEF Cleanup, At, Goto, locks, Threads, LocksInv, TypeOK, PlacesOK,
   OwnersOK, StallInv
<1>1. Holding'
  BY DEF LockOrder, Holding, SinkWrites, StdinWrites
<1>2. Attached'
  BY DEF PeersOK, Attached
<1>3. Purposeful'
  BY DEF Purposeful
<1> QED
  BY <1>1, <1>2, <1>3

LEMMA NobodyWaitingStalls ==
  ASSUME LocksInv, StallInv, NobodyWaiting PROVE StallInv'
<1> USE LockThreads DEF NobodyWaiting, At, Goto, locks, outside, Threads, LocksInv, TypeOK,
   PlacesOK, OwnersOK, StallInv
<1>1. Holding'
  BY DEF LockOrder, Holding, SinkWrites, StdinWrites
<1>2. Attached'
  BY DEF PeersOK, Attached
<1>3. Purposeful'
  BY DEF Purposeful
<1> QED
  BY <1>1, <1>2, <1>3

LEMMA AcceptCoreStalls ==
  ASSUME LocksInv, StallInv, AcceptCore PROVE StallInv'
<1> USE LockThreads DEF AcceptCore, At, Goto, outside, CoreFree, Threads, LocksInv, TypeOK,
   PlacesOK, OwnersOK, StallInv
<1>1. Holding'
  BY DEF LockOrder, Holding, SinkWrites, StdinWrites
<1>2. Attached'
  BY DEF PeersOK, Attached
<1>3. Purposeful'
  BY DEF Purposeful
<1> QED
  BY <1>1, <1>2, <1>3

LEMMA GreetCoreStalls ==
  ASSUME LocksInv, StallInv, GreetCore PROVE StallInv'
<1> USE LockThreads DEF GreetCore, At, Goto, locks, outside, CoreFree, Threads, LocksInv,
   TypeOK, PlacesOK, OwnersOK, StallInv
<1>1. Holding'
  BY DEF LockOrder, Holding, SinkWrites, StdinWrites
<1>2. Attached'
  BY DEF PeersOK, Attached
<1>3. Purposeful'
  BY DEF Purposeful
<1> QED
  BY <1>1, <1>2, <1>3

LEMMA SpawnClientInStalls ==
  ASSUME LocksInv, StallInv, SpawnClientIn PROVE StallInv'
<1> USE LockThreads DEF SpawnClientIn, At, locks, outside, Threads, LocksInv, TypeOK,
   PlacesOK, OwnersOK, StallInv
<1>1. Holding'
  BY DEF LockOrder, Holding, SinkWrites, StdinWrites
<1>2. Attached'
  BY DEF PeersOK, Attached
<1>3. Purposeful'
  BY DEF Purposeful
<1> QED
  BY <1>1, <1>2, <1>3

LEMMA SendWarmupStalls ==
  ASSUME LocksInv, StallInv, SendWarmup PROVE StallInv'
<1> USE LockThreads DEF SendWarmup, At, Goto, outside, StdinBroken, Threads, LocksInv,
   TypeOK, PlacesOK, OwnersOK, StallInv
<1>1. Holding'
  BY DEF LockOrder, Holding, SinkWrites, StdinWrites
<1>2. Attached'
  BY DEF PeersOK, Attached
<1>3. Purposeful'
  BY DEF Purposeful
<1> QED
  BY <1>1, <1>2, <1>3

LEMMA AcceptSinkStalls ==
  ASSUME LocksInv, StallInv, NEW c \in Clients, AcceptSink(c) PROVE StallInv'
<1> USE LockThreads DEF AcceptSink, At, SinkFree, Threads, LocksInv, TypeOK, PlacesOK,
   OwnersOK, StallInv
<1>1. Holding'
  BY DEF LockOrder, Holding, SinkWrites, StdinWrites
<1>2. Attached'
  BY DEF PeersOK, Attached
<1>3. Purposeful'
  BY DEF Purposeful
<1> QED
  BY <1>1, <1>2, <1>3

\* Whoever locks repl_stdin writes to it next.
LEMMA LockStdinStalls ==
  ASSUME LocksInv, StallInv, NEW t \in Threads,
         NEW from \in {"warmup", "fstdin"}, NEW writing \in StdinWrites,
         LockStdin(t, from, writing)
  PROVE  StallInv'
<1>1. \A u \in Threads : u # t => pc'[u] = pc[u]
  BY DEF LocksInv, TypeOK, PlacesOK, LockStdin, At, Goto
<1>2. pc[t] = from /\ pc'[t] = writing /\ stdinBy = None /\ stdinBy' = t
  BY DEF LocksInv, TypeOK, PlacesOK, LockStdin, At, Goto, SinkFree, StdinFree
<1>3. UNCHANGED <<coreBy, sinkBy, slot, peer, alive>>
  BY DEF LockStdin, outside
<1>4. Holding'
  BY <1>1, <1>2, <1>3, LockThreads DEF StallInv, Holding, SinkWrites, StdinWrites
<1>5. Attached'
  <2>1. \A c \in Clients : c \in Threads
    BY DEF Threads
  <2>2. slot # None => slot \in Clients
    BY DEF LocksInv, TypeOK, OwnersOK
  <2> QED
    BY <1>1, <1>2, <1>3, <2>1, <2>2 DEF StallInv, Attached, SinkWrites, StdinWrites
<1>6. Purposeful'
  <2>1. Main \in Threads /\ \A c \in Clients : c \in Threads
    BY DEF Threads
  <2> QED
    BY <1>1, <1>2, <1>3, <2>1 DEF StallInv, Purposeful, SinkWrites, StdinWrites
<1> QED
  BY <1>4, <1>5, <1>6 DEF StallInv

\* Whoever locks the sink for a client writes to its socket next.
LEMMA LockSinkStalls ==
  ASSUME LocksInv, StallInv, NEW t \in Threads,
         NEW from \in {"greet_sink", "words", "route"}, NEW writing \in SinkWrites,
         NEW after \in {"thread", "stop", "boundary", "read"},
         LockSink(t, from, writing, after)
  PROVE  StallInv'
<1>1. \A u \in Threads : u # t => pc'[u] = pc[u]
  BY DEF LocksInv, TypeOK, PlacesOK, LockSink, At, Goto
<1>2. /\ pc[t] = from /\ sinkBy = None
      /\ \/ pc'[t] = writing /\ sinkBy' = t
         \/ pc'[t] = after /\ sinkBy' = None
  BY DEF LocksInv, TypeOK, PlacesOK, LockSink, At, Goto, SinkFree, StdinFree
<1>3. UNCHANGED <<coreBy, stdinBy, slot, peer, alive>>
  BY DEF LockSink, outside
<1>4. Holding'
  BY <1>1, <1>2, <1>3, LockThreads DEF StallInv, Holding, SinkWrites, StdinWrites
<1>5. Attached'
  <2>1. \A c \in Clients : c \in Threads
    BY DEF Threads
  <2>2. slot # None => slot \in Clients
    BY DEF LocksInv, TypeOK, OwnersOK
  <2> QED
    BY <1>1, <1>2, <1>3, <2>1, <2>2 DEF StallInv, Attached, SinkWrites, StdinWrites
<1>6. Purposeful'
  <2>1. Main \in Threads /\ \A c \in Clients : c \in Threads
    BY DEF Threads
  <2> QED
    BY <1>1, <1>2, <1>3, <2>1 DEF StallInv, Purposeful, SinkWrites, StdinWrites
<1> QED
  BY <1>4, <1>5, <1>6 DEF StallInv

\* A write to a client ends with the sink unlocked.
LEMMA WriteSocketStalls ==
  ASSUME LocksInv, StallInv, NEW t \in Threads,
         NEW writing \in SinkWrites, NEW after \in {"thread", "stop", "boundary", "read"},
         WriteSocket(t, writing, after)
  PROVE  StallInv'
<1>1. \A u \in Threads : u # t => pc'[u] = pc[u]
  BY DEF LocksInv, TypeOK, PlacesOK, WriteSocket, At, Goto
<1>2. pc[t] = writing /\ pc'[t] = after /\ sinkBy' = None
  BY DEF LocksInv, TypeOK, PlacesOK, WriteSocket, At, Goto, SinkFree, StdinFree
<1>3. UNCHANGED <<coreBy, stdinBy, peer, alive>> /\ (slot' = slot \/ slot' = None)
  BY DEF WriteSocket, outside
<1>4. Holding'
  BY <1>1, <1>2, <1>3, LockThreads DEF StallInv, Holding, SinkWrites, StdinWrites
<1>5. Attached'
  <2>1. \A c \in Clients : c \in Threads
    BY DEF Threads
  <2>2. slot # None => slot \in Clients
    BY DEF LocksInv, TypeOK, OwnersOK
  <2> QED
    BY <1>1, <1>2, <1>3, <2>1, <2>2 DEF StallInv, Attached, SinkWrites, StdinWrites
<1>6. Purposeful'
  <2>1. Main \in Threads /\ \A c \in Clients : c \in Threads
    BY DEF Threads
  <2> QED
    BY <1>1, <1>2, <1>3, <2>1 DEF StallInv, Purposeful, SinkWrites, StdinWrites
<1> QED
  BY <1>4, <1>5, <1>6 DEF StallInv

LEMMA SnapshotStalls ==
  ASSUME LocksInv, StallInv, NEW s \in Streams, Snapshot(s) PROVE StallInv'
<1> USE LockThreads DEF Snapshot, At, Goto, locks, outside, CoreFree, Destination, Own,
   Threads, LocksInv, TypeOK, PlacesOK, OwnersOK, StallInv
<1>1. Holding'
  BY DEF LockOrder, Holding, SinkWrites, StdinWrites
<1>2. Attached'
  BY DEF PeersOK, Attached
<1>3. Purposeful'
  BY DEF Purposeful
<1> QED
  BY <1>1, <1>2, <1>3

LEMMA DetectedStalls ==
  ASSUME LocksInv, StallInv, NEW s \in Streams, Detected(s) PROVE StallInv'
<1> USE LockThreads DEF Detected, Goto, locks, outside, CoreFree, Own, Running, Threads,
   LocksInv, TypeOK, PlacesOK, OwnersOK, StallInv
<1>1. Holding'
  BY DEF LockOrder, Holding, SinkWrites, StdinWrites
<1>2. Attached'
  BY DEF PeersOK, Attached
<1>3. Purposeful'
  BY DEF Purposeful
<1> QED
  BY <1>1, <1>2, <1>3

LEMMA KeepFromClientStalls ==
  ASSUME LocksInv, StallInv, NEW s \in Streams, KeepFromClient(s) PROVE StallInv'
<1> USE LockThreads DEF KeepFromClient, At, Goto, locks, outside, SinkFree, Threads,
   LocksInv, TypeOK, PlacesOK, OwnersOK, StallInv
<1>1. Holding'
  BY DEF LockOrder, Holding, SinkWrites, StdinWrites
<1>2. Attached'
  BY DEF PeersOK, Attached
<1>3. Purposeful'
  BY DEF Purposeful
<1> QED
  BY <1>1, <1>2, <1>3

LEMMA BoundaryStalls ==
  ASSUME LocksInv, StallInv, NEW s \in Streams, Boundary(s) PROVE StallInv'
<1> USE LockThreads DEF Boundary, At, Goto, locks, outside, CoreFree, Threads, LocksInv,
   TypeOK, PlacesOK, OwnersOK, StallInv
<1>1. Holding'
  BY DEF LockOrder, Holding, SinkWrites, StdinWrites
<1>2. Attached'
  BY DEF PeersOK, Attached
<1>3. Purposeful'
  BY DEF Purposeful
<1> QED
  BY <1>1, <1>2, <1>3

LEMMA EofStalls ==
  ASSUME LocksInv, StallInv, NEW s \in Streams, Eof(s) PROVE StallInv'
<1> USE LockThreads DEF Eof, At, Goto, locks, outside, Threads, LocksInv, TypeOK, PlacesOK,
   OwnersOK, StallInv
<1>1. Holding'
  BY DEF LockOrder, Holding, SinkWrites, StdinWrites
<1>2. Attached'
  BY DEF PeersOK, Attached
<1>3. Purposeful'
  BY DEF Purposeful
<1> QED
  BY <1>1, <1>2, <1>3

LEMMA WaitUntilReadyStalls ==
  ASSUME LocksInv, StallInv, NEW c \in Clients, WaitUntilReady(c) PROVE StallInv'
<1> USE LockThreads DEF WaitUntilReady, Goto, locks, outside, CoreFree, Running, Threads,
   LocksInv, TypeOK, PlacesOK, OwnersOK, StallInv
<1>1. Holding'
  BY DEF LockOrder, Holding, SinkWrites, StdinWrites
<1>2. Attached'
  BY DEF PeersOK, Attached
<1>3. Purposeful'
  BY DEF Purposeful
<1> QED
  BY <1>1, <1>2, <1>3

LEMMA ReadEofStalls ==
  ASSUME LocksInv, StallInv, NEW c \in Clients, ReadEof(c) PROVE StallInv'
<1> USE LockThreads DEF ReadEof, At, Goto, locks, outside, Threads, LocksInv, TypeOK,
   PlacesOK, OwnersOK, StallInv
<1>1. Holding'
  BY DEF LockOrder, Holding, SinkWrites, StdinWrites
<1>2. Attached'
  BY DEF PeersOK, Attached
<1>3. Purposeful'
  BY DEF Purposeful
<1> QED
  BY <1>1, <1>2, <1>3

LEMMA StartRequestStalls ==
  ASSUME LocksInv, StallInv, NEW c \in Clients, StartRequest(c) PROVE StallInv'
<1> USE LockThreads DEF StartRequest, At, Goto, locks, outside, CoreFree, Threads, LocksInv,
   TypeOK, PlacesOK, OwnersOK, StallInv
<1>1. Holding'
  BY DEF LockOrder, Holding, SinkWrites, StdinWrites
<1>2. Attached'
  BY DEF PeersOK, Attached
<1>3. Purposeful'
  BY DEF Purposeful
<1> QED
  BY <1>1, <1>2, <1>3

LEMMA ForwardStalls ==
  ASSUME LocksInv, StallInv, NEW c \in Clients, Forward(c) PROVE StallInv'
<1> USE LockThreads DEF Forward, At, Goto, outside, StdinBroken, Threads, LocksInv, TypeOK,
   PlacesOK, OwnersOK, StallInv
<1>1. Holding'
  BY DEF LockOrder, Holding, SinkWrites, StdinWrites
<1>2. Attached'
  BY DEF PeersOK, Attached
<1>3. Purposeful'
  BY DEF Purposeful
<1> QED
  BY <1>1, <1>2, <1>3

LEMMA GoneCoreStalls ==
  ASSUME LocksInv, StallInv, NEW c \in Clients, GoneCore(c) PROVE StallInv'
<1> USE LockThreads DEF GoneCore, At, Goto, outside, CoreFree, Threads, LocksInv, TypeOK,
   PlacesOK, OwnersOK, StallInv
<1>1. Holding'
  BY DEF LockOrder, Holding, SinkWrites, StdinWrites
<1>2. Attached'
  BY DEF PeersOK, Attached
<1>3. Purposeful'
  BY DEF Purposeful
<1> QED
  BY <1>1, <1>2, <1>3

LEMMA GoneSinkStalls ==
  ASSUME LocksInv, StallInv, NEW c \in Clients, GoneSink(c) PROVE StallInv'
<1> USE LockThreads DEF GoneSink, At, Goto, SinkFree, Threads, LocksInv, TypeOK, PlacesOK,
   OwnersOK, StallInv
<1>1. Holding'
  BY DEF LockOrder, Holding, SinkWrites, StdinWrites
<1>2. Attached'
  BY DEF PeersOK, Attached
<1>3. Purposeful'
  BY DEF Purposeful
<1> QED
  BY <1>1, <1>2, <1>3

LEMMA ConnectStalls ==
  ASSUME LocksInv, StallInv, NEW c \in Clients, Connect(c) PROVE StallInv'
<1> USE LockThreads DEF Connect, At, Goto, locks, inside, Threads, LocksInv, TypeOK,
   PlacesOK, OwnersOK, StallInv
<1>1. Holding'
  BY DEF LockOrder, Holding, SinkWrites, StdinWrites
<1>2. Attached'
  BY DEF PeersOK, Attached
<1>3. Purposeful'
  BY DEF Purposeful
<1> QED
  BY <1>1, <1>2, <1>3

LEMMA InputStalls ==
  ASSUME LocksInv, StallInv, NEW c \in Clients, Input(c) PROVE StallInv'
<1> USE LockThreads DEF Input, At, Goto, locks, inside, Threads, LocksInv, TypeOK, PlacesOK,
   OwnersOK, StallInv
<1>1. Holding'
  BY DEF LockOrder, Holding, SinkWrites, StdinWrites
<1>2. Attached'
  BY DEF PeersOK, Attached
<1>3. Purposeful'
  BY DEF Purposeful
<1> QED
  BY <1>1, <1>2, <1>3

LEMMA LeaveStalls ==
  ASSUME LocksInv, StallInv, NEW c \in Clients, Leave(c) PROVE StallInv'
<1> USE LockThreads DEF Leave, locks, inside, Running, Threads, LocksInv, TypeOK, PlacesOK,
   OwnersOK, StallInv
<1>1. Holding'
  BY DEF LockOrder, Holding, SinkWrites, StdinWrites
<1>2. Attached'
  BY DEF PeersOK, Attached
<1>3. Purposeful'
  BY DEF Purposeful
<1> QED
  BY <1>1, <1>2, <1>3

LEMMA OutputStalls ==
  ASSUME LocksInv, StallInv, NEW s \in Streams, NEW mark, Output(s, mark) PROVE StallInv'
<1> USE LockThreads DEF Output, At, Goto, locks, inside, Threads, LocksInv, TypeOK,
   PlacesOK, OwnersOK, StallInv
<1>1. Holding'
  BY DEF LockOrder, Holding, SinkWrites, StdinWrites
<1>2. Attached'
  BY DEF PeersOK, Attached
<1>3. Purposeful'
  BY DEF Purposeful
<1> QED
  BY <1>1, <1>2, <1>3

LEMMA ClientReadsStalls ==
  ASSUME LocksInv, StallInv, ClientReads PROVE StallInv'
<1> USE LockThreads DEF ClientReads, outside, locks, inside, Running, Threads, LocksInv,
   TypeOK, PlacesOK, OwnersOK, StallInv
<1>1. Holding'
  BY DEF LockOrder, Holding, SinkWrites, StdinWrites
<1>2. Attached'
  BY DEF PeersOK, Attached
<1>3. Purposeful'
  BY DEF Purposeful
<1> QED
  BY <1>1, <1>2, <1>3

LEMMA ReplReadsStalls ==
  ASSUME LocksInv, StallInv, ReplReads PROVE StallInv'
<1> USE LockThreads DEF ReplReads, outside, locks, inside, Running, Threads, LocksInv,
   TypeOK, PlacesOK, OwnersOK, StallInv
<1>1. Holding'
  BY DEF LockOrder, Holding, SinkWrites, StdinWrites
<1>2. Attached'
  BY DEF PeersOK, Attached
<1>3. Purposeful'
  BY DEF Purposeful
<1> QED
  BY <1>1, <1>2, <1>3

LEMMA ReplDiesStalls ==
  ASSUME LocksInv, StallInv, ReplDies PROVE StallInv'
<1> USE LockThreads DEF ReplDies, locks, inside, Running, Threads, LocksInv, TypeOK,
   PlacesOK, OwnersOK, StallInv
<1>1. Holding'
  BY DEF LockOrder, Holding, SinkWrites, StdinWrites
<1>2. Attached'
  BY DEF PeersOK, Attached
<1>3. Purposeful'
  BY DEF Purposeful
<1> QED
  BY <1>1, <1>2, <1>3

LEMMA OrphanEndsStalls ==
  ASSUME LocksInv, StallInv, OrphanEnds PROVE StallInv'
<1> USE LockThreads DEF OrphanEnds, locks, inside, Running, Threads, LocksInv, TypeOK,
   PlacesOK, OwnersOK, StallInv
<1>1. Holding'
  BY DEF LockOrder, Holding, SinkWrites, StdinWrites
<1>2. Attached'
  BY DEF PeersOK, Attached
<1>3. Purposeful'
  BY DEF Purposeful
<1> QED
  BY <1>1, <1>2, <1>3

LEMMA SignalStalls ==
  ASSUME LocksInv, StallInv, Signal PROVE StallInv'
<1> USE LockThreads DEF Signal, outside, locks, inside, Running, Threads, LocksInv, TypeOK,
   PlacesOK, OwnersOK, StallInv
<1>1. Holding'
  BY DEF LockOrder, Holding, SinkWrites, StdinWrites
<1>2. Attached'
  BY DEF PeersOK, Attached
<1>3. Purposeful'
  BY DEF Purposeful
<1> QED
  BY <1>1, <1>2, <1>3

\* Every step keeps it.
LEMMA NextStalls == ASSUME LocksInv, StallInv, [Next]_vars PROVE StallInv'
<1>1. CASE UNCHANGED vars
  BY <1>1 DEF vars, locks, StallInv, Holding, Attached, Purposeful
<1>2. CASE Exited
  BY <1>1, <1>2 DEF Exited
<1>3. CASE MainIO
  <2>1. Main \in Threads
    BY DEF Threads
  <2>2. /\ {"warmup"} \subseteq {"warmup", "fstdin"} /\ "warmup_write" \in StdinWrites
        /\ {"greet_write", "words_write"} \subseteq SinkWrites
    BY DEF StdinWrites, SinkWrites
  <2> QED
    BY <1>3, <2>1, <2>2, LockStdinStalls, LockSinkStalls, WriteSocketStalls,
       SendWarmupStalls
    DEF MainIO
<1>4. CASE Supervise
  BY <1>3, <1>4, LoopTopStalls, PhaseStalls, WaitElapsedStalls, TerminateStalls, ReapStalls,
     JoinStalls, JudgeStalls, ClearSinkStalls, SpawnStalls, RebootStalls, WireReplStalls,
     StopServerStalls, CleanupStalls, NobodyWaitingStalls, AcceptCoreStalls,
     AcceptSinkStalls, GreetCoreStalls, SpawnClientInStalls
  DEF Supervise
<1>5. ASSUME NEW s \in Streams, Pump(s) PROVE StallInv'
  <2>1. s \in Threads /\ AfterRoute(s) \in {"boundary", "read"} /\ "write" \in SinkWrites
    BY DEF Threads, AfterRoute, SinkWrites
  <2> QED
    BY <1>5, <2>1, SnapshotStalls, DetectedStalls, KeepFromClientStalls, BoundaryStalls,
       EofStalls, LockSinkStalls, WriteSocketStalls
    DEF Pump
<1>6. ASSUME NEW c \in Clients, ClientIn(c) PROVE StallInv'
  <2>1. c \in Threads /\ "fwrite" \in StdinWrites
    BY DEF Threads, StdinWrites
  <2> QED
    BY <1>6, <2>1, WaitUntilReadyStalls, ReadEofStalls, StartRequestStalls, LockStdinStalls,
       ForwardStalls, GoneCoreStalls, GoneSinkStalls
    DEF ClientIn
<1>7. CASE Surroundings
  BY <1>7, ConnectStalls, InputStalls, LeaveStalls, OutputStalls, ClientReadsStalls,
     ReplReadsStalls, ReplDiesStalls, OrphanEndsStalls, SignalStalls
  DEF Surroundings
<1> QED
  BY <1>1, <1>2, <1>4, <1>5, <1>6, <1>7 DEF Next, Server

\* If every thread is blocked, the holder of a lock is so in a write, and with all locks
\* free only the joining supervisor waits for anybody: for a pump that still has
\* somebody to read from.
LEMMA StallsExplained == ASSUME LocksInv, StallInv PROVE StallsComeFromOutside
<1> SUFFICES ASSUME Running, \A t \in Threads : Blocked(t),
                    ~(SocketStalled \/ StdinStalled \/ orphan)
             PROVE  FALSE
  BY DEF StallsComeFromOutside
<1>1. Main \in Threads /\ Streams \subseteq Threads /\ Clients \subseteq Threads
      /\ Main \notin Streams /\ Main \notin Clients
  BY LockThreads DEF Threads
<1>2. ASSUME NEW t \in Threads PROVE pc[t] \notin SinkWrites \cup StdinWrites
  <2>1. CASE pc[t] \in SinkWrites
    <3>1. sinkBy = t /\ t # None
      BY <2>1, LockThreads DEF StallInv, Holding
    <3>2. \A u \in Threads : ~WaitsFor(t, u)
      BY <2>1 DEF WaitsFor, SinkWrites, NeedsCore, NeedsSink, NeedsStdin
    <3>3. sockFull /\ peer[slot] = "open"
      BY <2>1, <3>2 DEF Blocked, SinkWrites, StdinWrites
    <3> QED
      BY <3>1, <3>3 DEF SocketStalled
  <2>2. CASE pc[t] \in StdinWrites
    <3>1. stdinBy = t /\ t # None
      BY <2>2, LockThreads DEF StallInv, Holding
    <3>2. \A u \in Threads : ~WaitsFor(t, u)
      BY <2>2 DEF WaitsFor, StdinWrites, NeedsCore, NeedsSink, NeedsStdin
    <3>3. stdinFull /\ ~StdinBroken
      BY <2>2, <3>2 DEF Blocked, SinkWrites, StdinWrites
    <3> QED
      BY <3>1, <3>3 DEF StdinStalled
  <2> QED
    BY <2>1, <2>2
<1>3. sinkBy = None /\ stdinBy = None
  BY <1>2 DEF LocksInv, TypeOK, OwnersOK, LockOrder, SinkWrites, StdinWrites
<1>4. coreBy = None
  <2> SUFFICES ASSUME coreBy # None PROVE FALSE
    OBVIOUS
  <2>1. coreBy \in Threads /\ pc[coreBy] \in {"accept_sink", "gone_sink"}
    BY DEF LocksInv, TypeOK, OwnersOK, LockOrder
  <2>2. \A u \in Threads : ~WaitsFor(coreBy, u)
    BY <1>3, <2>1, LockThreads DEF WaitsFor, NeedsCore, NeedsSink, NeedsStdin
  <2> QED
    BY <2>1, <2>2 DEF Blocked, SinkWrites, StdinWrites
<1>5. ASSUME NEW t \in Threads, NEW u \in Threads, WaitsFor(t, u)
      PROVE  t = Main /\ pc[Main] = "join" /\ u \in Streams /\ pc[u] # "done"
  BY <1>3, <1>4, <1>5, LockThreads DEF WaitsFor
<1>6. PICK s \in Streams : pc[Main] = "join" /\ pc[s] # "done"
  <2>1. pc[Main] \in MainPlaces \ {"exited"}
    BY DEF Running, LocksInv, TypeOK, PlacesOK
  <2>2. \E u \in Threads : WaitsFor(Main, u)
    BY <1>1, <1>2, <2>1 DEF Blocked, MainPlaces
  <2> QED
    BY <1>1, <1>5, <2>2
<1>7. ~alive /\ ~orphan
  BY <1>6 DEF StallInv, Purposeful
<1>8. pc[s] \in PumpPlaces \ {"done", "write"}
  BY <1>1, <1>2, <1>6 DEF LocksInv, TypeOK, PlacesOK, SinkWrites
<1>9. \A u \in Threads : ~WaitsFor(s, u)
  BY <1>1, <1>5, LockThreads
<1> QED
  BY <1>1, <1>7, <1>8, <1>9 DEF Blocked, PumpPlaces, SinkWrites, StdinWrites, StdinBroken

\* What the stalls rest on: locks are where their holders are, the client in the slot
\* is connected, and join_threads is about a process that has ended.
THEOREM StallInvariant == Spec => [](LocksInv /\ StallInv)
<1>1. Init => StallInv
  BY InitStalls
<1>2. LocksInv /\ StallInv /\ [Next]_vars => StallInv'
  BY NextStalls
<1> QED
  BY LocksInvariant, <1>1, <1>2, PTL DEF Spec

\* When no thread of the server can go on, somebody outside is to blame: a client or a
\* REPL that does not read, or a process that has inherited the pipes of the REPL.
THEOREM StallsAreForeign == Spec => []StallsComeFromOutside
<1>1. LocksInv /\ StallInv => StallsComeFromOutside
  BY StallsExplained
<1> QED
  BY StallInvariant, <1>1, PTL

-----------------------------------------------------------------------------
(* Blocked is right: a thread that is not blocked has a step, and a thread    *)
(* that is blocked has none.  For the first, what a step makes of every       *)
(* variable is given as a function of the state, so that there is such a next *)
(* state, and to get there is a step of the thread.                           *)

\* Where each step leads; where the code leaves it open, all goes well.
SupervisorGoes ==
  [top |-> IF shutdown THEN "cleanup" ELSE "phase",
   phase |-> IF phase = "Warmup" /\ ~warmupSent THEN "warmup" ELSE "reap",
   ready |-> "reap", warmed |-> "reap", kill |-> "reap", drain |-> "reap",
   warmup |-> "warmup_write", warmup_write |-> "reap",
   reap |-> IF alive THEN "accept" ELSE IF Restart \/ forced THEN "join" ELSE LastWords,
   join |-> "judge", judge |-> "clear", clear |-> "spawn", spawn |-> "boot",
   boot |-> "wire", wire |-> "accept",
   words |-> IF slot = None THEN "stop" ELSE "words_write", words_write |-> "stop",
   stop |-> "cleanup", cleanup |-> "exited",
   accept |-> IF \A c \in Clients : pc[c] # "queued" THEN "top" ELSE "accept_sink",
   accept_sink |-> IF slot = None /\ Acceptable THEN "greet" ELSE "top",
   greet |-> IF Protocol THEN "greet_sink" ELSE "thread",
   greet_sink |-> IF slot = None THEN "thread" ELSE "greet_write",
   greet_write |-> "thread", thread |-> "top"]

PumpGoes(s) ==
  [read |-> "done", snap |-> Destination(s), ready |-> Own(s), warmed |-> Own(s),
   own |-> "read", boundary |-> "read", write |-> AfterRoute(s),
   route |-> IF slot = None THEN AfterRoute(s) ELSE "write"]

ClientGoes ==
  [wait |-> IF shutdown THEN "gone" ELSE "read",
   fwait |-> IF shutdown THEN "gone" ELSE "fstdin",
   read |-> "gone", start |-> "fwait", fstdin |-> "fwrite",
   fwrite |-> IF ~StdinBroken THEN "wait" ELSE IF shutdown THEN "gone" ELSE "fwait",
   gone |-> "gone_sink", gone_sink |-> "done"]

Goes(t) ==
  IF t = Main THEN SupervisorGoes[pc[t]]
  ELSE IF t \in Streams THEN PumpGoes(t)[pc[t]] ELSE ClientGoes[pc[t]]

\* The connection that handle_connection takes up, and whether it is accepted.
Caller    == CHOOSE c \in Clients : pc[c] = "queued"
Accepting == slot = None /\ Acceptable

\* Where a step of t leaves the thread u.
Moved(t, u) ==
  CASE u = t -> Goes(t)
    [] u # t /\ pc[t] = "accept_sink" /\ u = Caller -> IF Accepting THEN "greeted" ELSE "done"
    [] u # t /\ pc[t] = "thread" /\ pc[u] = "greeted" -> "wait"
    [] u # t /\ pc[t] = "wire" /\ u \in Streams -> "read"
    [] OTHER -> pc[u]

CoreMoved(t) ==
  CASE pc[t] = "ready" -> Ready
    [] pc[t] = "warmed" -> WarmupDone
    [] pc[t] = "boot" -> BeginBooting
    [] pc[t] = "stop" -> Stop
    [] pc[t] = "boundary" -> ResponseEnd
    [] pc[t] = "start" -> RequestStart
    [] pc[t] = "gone_sink" -> ClientGone
    [] pc[t] = "accept_sink" /\ Accepting -> TryAccept
    [] OTHER -> UNCHANGED core

\* Mutexes are held between the places where they are taken and given back.
Held(by, t, places) ==
  IF Goes(t) \in places THEN t ELSE IF pc[t] \in places THEN None ELSE by

\* The next state.
Takes(t) ==
  /\ pc' = [u \in Threads |-> Moved(t, u)]
  /\ CoreMoved(t)
  /\ coreBy' = Held(coreBy, t, {"accept_sink", "gone_sink"})
  /\ sinkBy' = Held(sinkBy, t, SinkWrites)
  /\ stdinBy' = Held(stdinBy, t, StdinWrites)
  /\ slot' = IF pc[t] = "clear" \/ (pc[t] = "gone_sink" /\ slot = t) THEN None
             ELSE IF pc[t] = "accept_sink" /\ Accepting THEN Caller ELSE slot
  /\ peer' = IF pc[t] = "clear"
             THEN [c \in Clients |-> IF c = slot /\ peer[c] = "open" THEN "cut" ELSE peer[c]]
             ELSE IF pc[t] = "gone_sink" THEN [peer EXCEPT ![t] = "cut"]
             ELSE IF pc[t] = "accept_sink" /\ ~Accepting THEN [peer EXCEPT ![Caller] = "cut"]
             ELSE peer
  /\ marker' = IF pc[t] = "boundary"
                    \/ (pc[t] = "snap" /\ ~(phase \in {"Busy", "Draining"} /\ Protocol))
               THEN marker \ {t} ELSE marker
  /\ sockFull' = IF pc[t] = "clear" THEN FALSE
                 ELSE IF pc[t] = "gone_sink" THEN sockFull /\ slot # t ELSE sockFull
  /\ stdinFull' = IF pc[t] = "wire" THEN FALSE ELSE stdinFull
  /\ shutdown' = IF pc[t] = "stop" THEN TRUE ELSE shutdown
  /\ warmupSent' = IF pc[t] = "warmup_write" THEN TRUE
                   ELSE IF pc[t] = "boot" THEN FALSE ELSE warmupSent
  /\ forced' = IF pc[t] \in {"kill", "drain"} THEN forced \/ pc[t] = "drain"
               ELSE IF pc[t] = "reap" /\ ~alive THEN FALSE ELSE forced
  /\ alive' = IF pc[t] \in {"kill", "drain", "cleanup"} THEN FALSE
              ELSE IF pc[t] = "spawn" THEN TRUE ELSE alive
  /\ orphan' = orphan

\* What a thread that is not blocked can rely on.
LEMMA Unblocked ==
  ASSUME LocksInv, StallInv, NEW t \in Threads, ~Blocked(t)
  PROVE  /\ pc[t] \in NeedsCore => CoreFree
         /\ pc[t] \in NeedsSink => SinkFree
         /\ pc[t] \in NeedsStdin => StdinFree
         /\ t = Main /\ pc[t] = "join" => \A s \in Streams : pc[s] = "done"
         /\ pc[t] \in SinkWrites => ~sockFull \/ peer[slot] = "left"
         /\ pc[t] \in StdinWrites => StdinBroken \/ ~stdinFull
         /\ pc[t] = "read" /\ t \in Streams => StdinBroken
         /\ pc[t] = "read" /\ t \in Clients => peer[t] \in {"left", "cut"}
         /\ pc[t] \in {"wait", "fwait"} => ~PreServing \/ shutdown
         /\ pc[t] \notin {"none", "queued", "greeted", "done"}
<1>1. \A u \in Threads : ~WaitsFor(t, u)
  BY DEF Blocked
<1>2. {coreBy, sinkBy, stdinBy} \subseteq Threads \cup {None}
  BY DEF LocksInv, TypeOK, OwnersOK
<1>3. /\ pc[t] \in NeedsCore => CoreFree
      /\ pc[t] \in NeedsSink => SinkFree
      /\ pc[t] \in NeedsStdin => StdinFree
      /\ t = Main /\ pc[t] = "join" => \A s \in Streams : pc[s] = "done"
  BY <1>1, <1>2 DEF WaitsFor, CoreFree, SinkFree, StdinFree, Threads
<1>4. pc[t] \in SinkWrites => peer[slot] \in {"open", "left"}
  BY LockThreads DEF LocksInv, LockOrder, StallInv, Holding, Attached
<1>5. pc[t] = "read" /\ t \in Clients => t \notin Streams /\ peer[t] \in {"open", "left", "cut"}
  BY LockThreads DEF LocksInv, TypeOK, PeersOK, StallInv, Attached
<1> QED
  BY <1>3, <1>4, <1>5 DEF Blocked

\* Apart from three steps that start or end other threads, only t moves.
LEMMA GotoIs ==
  ASSUME PlacesOK, NEW t \in Threads, Takes(t),
         pc[t] \notin {"accept_sink", "thread", "wire"}
  PROVE  Goto(t, Goes(t))
<1>1. pc' = [u \in Threads |-> Moved(t, u)]
  BY DEF Takes
<1>2. \A u \in Threads : Moved(t, u) = IF u = t THEN Goes(t) ELSE pc[u]
  BY DEF Moved
<1> QED
  BY <1>1, <1>2 DEF PlacesOK, Goto

\* The supervisor.
LEMMA SupervisorMoves ==
  ASSUME LocksInv, StallInv, Running, ~Blocked(Main), Takes(Main)
  PROVE  Supervise
<1> USE DEF At, locks, outside, NeedsCore, NeedsSink, NeedsStdin, SinkWrites, StdinWrites,
            CoreMoved, Held
<1>1. Main \in Threads /\ Running /\ pc[Main] \in MainPlaces \ {"exited"} /\ PlacesOK
  BY DEF Threads, Running, LocksInv, TypeOK, PlacesOK
<1>2. FlagsOK /\ OwnersOK
  BY DEF LocksInv, TypeOK
<1>3. pc[Main] \notin {"accept_sink", "thread", "wire"} => Goto(Main, Goes(Main))
  BY <1>1, GotoIs
<1>4. Goes(Main) = SupervisorGoes[pc[Main]]
  BY DEF Goes
<1>5. ASSUME pc[Main] = "top" PROVE LoopTop
  <2>1. Goes(Main) = SupervisorGoes["top"]
    BY <1>4, <1>5
  <2> QED
    BY <1>1, <1>2, <1>3, <1>5, <2>1, Unblocked
    DEF Takes, SupervisorGoes, LoopTop, FlagsOK, OwnersOK
<1>6. ASSUME pc[Main] = "phase" PROVE Phase
  <2>1. Goes(Main) = SupervisorGoes["phase"]
    BY <1>4, <1>6
  <2> QED
    BY <1>1, <1>2, <1>3, <1>6, <2>1, Unblocked
    DEF Takes, SupervisorGoes, Phase, FlagsOK, OwnersOK
<1>7. ASSUME pc[Main] = "ready" PROVE WaitElapsed
  <2>1. Goes(Main) = SupervisorGoes["ready"]
    BY <1>4, <1>7
  <2> QED
    BY <1>1, <1>2, <1>3, <1>7, <2>1, Unblocked
    DEF Takes, SupervisorGoes, WaitElapsed, FlagsOK, OwnersOK
<1>8. ASSUME pc[Main] = "warmed" PROVE WaitElapsed
  <2>1. Goes(Main) = SupervisorGoes["warmed"]
    BY <1>4, <1>8
  <2> QED
    BY <1>1, <1>2, <1>3, <1>8, <2>1, Unblocked
    DEF Takes, SupervisorGoes, WaitElapsed, FlagsOK, OwnersOK
<1>9. ASSUME pc[Main] = "kill" PROVE Terminate
  <2>1. Goes(Main) = SupervisorGoes["kill"]
    BY <1>4, <1>9
  <2> QED
    BY <1>1, <1>2, <1>3, <1>9, <2>1, Unblocked
    DEF Takes, SupervisorGoes, Terminate, FlagsOK, OwnersOK
<1>10. ASSUME pc[Main] = "drain" PROVE Terminate
  <2>1. Goes(Main) = SupervisorGoes["drain"]
    BY <1>4, <1>10
  <2> QED
    BY <1>1, <1>2, <1>3, <1>10, <2>1, Unblocked
    DEF Takes, SupervisorGoes, Terminate, FlagsOK, OwnersOK
<1>11. ASSUME pc[Main] = "warmup" PROVE LockStdin(Main, "warmup", "warmup_write")
  <2>1. Goes(Main) = SupervisorGoes["warmup"]
    BY <1>4, <1>11
  <2> QED
    BY <1>1, <1>2, <1>3, <1>11, <2>1, Unblocked
    DEF Takes, SupervisorGoes, LockStdin, FlagsOK, OwnersOK
<1>12. ASSUME pc[Main] = "warmup_write" PROVE SendWarmup
  <2>1. Goes(Main) = SupervisorGoes["warmup_write"]
    BY <1>4, <1>12
  <2> QED
    BY <1>1, <1>2, <1>3, <1>12, <2>1, Unblocked
    DEF Takes, SupervisorGoes, SendWarmup, FlagsOK, OwnersOK
<1>13. ASSUME pc[Main] = "reap" PROVE Reap
  <2>1. Goes(Main) = SupervisorGoes["reap"]
    BY <1>4, <1>13
  <2> QED
    BY <1>1, <1>2, <1>3, <1>13, <2>1, Unblocked
    DEF Takes, SupervisorGoes, Reap, FlagsOK, OwnersOK, LastWords
<1>14. ASSUME pc[Main] = "join" PROVE Join
  <2>1. Goes(Main) = SupervisorGoes["join"]
    BY <1>4, <1>14
  <2> QED
    BY <1>1, <1>2, <1>3, <1>14, <2>1, Unblocked
    DEF Takes, SupervisorGoes, Join, FlagsOK, OwnersOK
<1>15. ASSUME pc[Main] = "judge" PROVE Judge
  <2>1. Goes(Main) = SupervisorGoes["judge"]
    BY <1>4, <1>15
  <2> QED
    BY <1>1, <1>2, <1>3, <1>15, <2>1, Unblocked
    DEF Takes, SupervisorGoes, Judge, FlagsOK, OwnersOK, LastWords
<1>16. ASSUME pc[Main] = "clear" PROVE ClearSink
  <2>1. Goes(Main) = SupervisorGoes["clear"]
    BY <1>4, <1>16
  <2> QED
    BY <1>1, <1>2, <1>3, <1>16, <2>1, Unblocked
    DEF Takes, SupervisorGoes, ClearSink, FlagsOK, OwnersOK
<1>17. ASSUME pc[Main] = "spawn" PROVE Spawn
  <2>1. Goes(Main) = SupervisorGoes["spawn"]
    BY <1>4, <1>17
  <2> QED
    BY <1>1, <1>2, <1>3, <1>17, <2>1, Unblocked
    DEF Takes, SupervisorGoes, Spawn, FlagsOK, OwnersOK, LastWords
<1>18. ASSUME pc[Main] = "boot" PROVE Reboot
  <2>1. Goes(Main) = SupervisorGoes["boot"]
    BY <1>4, <1>18
  <2> QED
    BY <1>1, <1>2, <1>3, <1>18, <2>1, Unblocked
    DEF Takes, SupervisorGoes, Reboot, FlagsOK, OwnersOK
<1>19. ASSUME pc[Main] = "words" PROVE LockSink(Main, "words", "words_write", "stop")
  <2>1. Goes(Main) = SupervisorGoes["words"]
    BY <1>4, <1>19
  <2> QED
    BY <1>1, <1>2, <1>3, <1>19, <2>1, Unblocked
    DEF Takes, SupervisorGoes, LockSink, FlagsOK, OwnersOK
<1>20. ASSUME pc[Main] = "words_write" PROVE WriteSocket(Main, "words_write", "stop")
  <2>1. Goes(Main) = SupervisorGoes["words_write"]
    BY <1>4, <1>20
  <2> QED
    BY <1>1, <1>2, <1>3, <1>20, <2>1, Unblocked
    DEF Takes, SupervisorGoes, WriteSocket, FlagsOK, OwnersOK
<1>21. ASSUME pc[Main] = "stop" PROVE StopServer
  <2>1. Goes(Main) = SupervisorGoes["stop"]
    BY <1>4, <1>21
  <2> QED
    BY <1>1, <1>2, <1>3, <1>21, <2>1, Unblocked
    DEF Takes, SupervisorGoes, StopServer, FlagsOK, OwnersOK
<1>22. ASSUME pc[Main] = "cleanup" PROVE Cleanup
  <2>1. Goes(Main) = SupervisorGoes["cleanup"]
    BY <1>4, <1>22
  <2> QED
    BY <1>1, <1>2, <1>3, <1>22, <2>1, Unblocked
    DEF Takes, SupervisorGoes, Cleanup, FlagsOK, OwnersOK
<1>23. ASSUME pc[Main] = "accept" PROVE AcceptCore \/ NobodyWaiting
  <2>1. Goes(Main) = SupervisorGoes["accept"]
    BY <1>4, <1>23
  <2> QED
    BY <1>1, <1>2, <1>3, <1>23, <2>1, Unblocked
    DEF Takes, SupervisorGoes, AcceptCore, NobodyWaiting, FlagsOK, OwnersOK
<1>24. ASSUME pc[Main] = "greet" PROVE GreetCore
  <2>1. Goes(Main) = SupervisorGoes["greet"]
    BY <1>4, <1>24
  <2> QED
    BY <1>1, <1>2, <1>3, <1>24, <2>1, Unblocked
    DEF Takes, SupervisorGoes, GreetCore, FlagsOK, OwnersOK
<1>25. ASSUME pc[Main] = "greet_sink"
       PROVE  LockSink(Main, "greet_sink", "greet_write", "thread")
  <2>1. Goes(Main) = SupervisorGoes["greet_sink"]
    BY <1>4, <1>25
  <2> QED
    BY <1>1, <1>2, <1>3, <1>25, <2>1, Unblocked
    DEF Takes, SupervisorGoes, LockSink, FlagsOK, OwnersOK
<1>26. ASSUME pc[Main] = "greet_write" PROVE WriteSocket(Main, "greet_write", "thread")
  <2>1. Goes(Main) = SupervisorGoes["greet_write"]
    BY <1>4, <1>26
  <2> QED
    BY <1>1, <1>2, <1>3, <1>26, <2>1, Unblocked
    DEF Takes, SupervisorGoes, WriteSocket, FlagsOK, OwnersOK
<1>27. ASSUME pc[Main] = "wire" PROVE WireRepl
  <2>1. Goes(Main) = "accept"
    BY <1>4, <1>27 DEF SupervisorGoes
  <2>2. \A u \in Threads : Moved(Main, u) = IF u = Main THEN "accept"
                                          ELSE IF u \in Streams THEN "read" ELSE pc[u]
    BY <1>27, <2>1 DEF Moved
  <2>3. pc' = [u \in Threads |-> IF u = Main THEN "accept"
                                ELSE IF u \in Streams THEN "read" ELSE pc[u]]
    BY <2>2 DEF Takes
  <2> QED
    BY <1>1, <1>2, <1>27, <2>1, <2>3, Unblocked DEF Takes, WireRepl, FlagsOK, OwnersOK
<1>28. ASSUME pc[Main] = "thread" PROVE SpawnClientIn
  <2>1. Goes(Main) = "top"
    BY <1>4, <1>28 DEF SupervisorGoes
  <2>2. \A u \in Threads : Moved(Main, u) = IF u = Main THEN "top"
                                          ELSE IF pc[u] = "greeted" THEN "wait" ELSE pc[u]
    BY <1>28, <2>1 DEF Moved
  <2>3. pc' = [u \in Threads |-> IF u = Main THEN "top"
                                ELSE IF pc[u] = "greeted" THEN "wait" ELSE pc[u]]
    BY <2>2 DEF Takes
  <2> QED
    BY <1>1, <1>2, <1>28, <2>1, <2>3, Unblocked DEF Takes, SpawnClientIn, FlagsOK, OwnersOK
<1>29. ASSUME pc[Main] = "accept_sink" PROVE \E c \in Clients : AcceptSink(c)
  <2>1. Caller \in Clients /\ pc[Caller] = "queued" /\ Caller # Main /\ Caller \in Threads
    BY <1>29, LockThreads DEF StallInv, Purposeful, Caller, Threads
  <2>2. Goes(Main) = IF Accepting THEN "greet" ELSE "top"
    BY <1>4, <1>29 DEF SupervisorGoes, Accepting
  <2>3. \A u \in Threads :
          Moved(Main, u) = IF u = Main THEN Goes(Main)
                           ELSE IF u = Caller THEN IF Accepting THEN "greeted" ELSE "done"
                           ELSE pc[u]
    BY <1>29, <2>1 DEF Moved
  <2>4. pc' = [u \in Threads |->
                 IF u = Main THEN Goes(Main)
                 ELSE IF u = Caller THEN IF Accepting THEN "greeted" ELSE "done"
                 ELSE pc[u]]
    BY <2>3 DEF Takes
  <2>5. pc' = IF Accepting THEN [pc EXCEPT ![Main] = "greet", ![Caller] = "greeted"]
              ELSE [pc EXCEPT ![Main] = "top", ![Caller] = "done"]
    BY <1>1, <2>1, <2>2, <2>4 DEF PlacesOK
  <2> HIDE DEF Caller
  <2>6. AcceptSink(Caller)
    BY <1>1, <1>2, <1>29, <2>1, <2>2, <2>5, Unblocked
    DEF Takes, AcceptSink, Accepting, FlagsOK, OwnersOK
  <2> QED
    BY <2>1, <2>6
<1> QED
  BY <1>1, <1>5, <1>6, <1>7, <1>8, <1>9, <1>10, <1>11, <1>12, <1>13, <1>14, <1>15, <1>16,
  <1>17, <1>18, <1>19, <1>20, <1>21, <1>22, <1>23, <1>24, <1>25, <1>26, <1>27, <1>28,
     <1>29
  DEF MainPlaces, Supervise, MainIO

\* A pump.
LEMMA PumpMoves ==
  ASSUME LocksInv, StallInv, Running, NEW t \in Streams, ~Blocked(t), Takes(t)
  PROVE  Pump(t)
<1> USE DEF At, locks, outside, NeedsCore, NeedsSink, NeedsStdin, SinkWrites, StdinWrites,
            CoreMoved, Held
<1>1. t \in Threads /\ t # Main /\ t \notin Clients /\ pc[t] \in PumpPlaces /\ PlacesOK
  BY LockThreads DEF Threads, LocksInv, TypeOK, PlacesOK
<1>2. FlagsOK /\ OwnersOK
  BY DEF LocksInv, TypeOK
<1>3. Goto(t, Goes(t))
  BY <1>1, GotoIs DEF PumpPlaces
<1>4. Goes(t) = PumpGoes(t)[pc[t]]
  BY <1>1 DEF Goes
<1>5. pc[t] # "done"
  BY <1>1, Unblocked
<1>6. ASSUME pc[t] = "snap" PROVE Snapshot(t)
  <2>1. Goes(t) = PumpGoes(t)["snap"]
    BY <1>4, <1>6
  <2> QED
    BY <1>1, <1>2, <1>3, <1>6, <2>1, Unblocked
    DEF Takes, PumpGoes, Snapshot, FlagsOK, OwnersOK, Destination, Own
<1>7. ASSUME pc[t] = "ready" PROVE Detected(t)
  <2>1. Goes(t) = PumpGoes(t)["ready"]
    BY <1>4, <1>7
  <2> QED
    BY <1>1, <1>2, <1>3, <1>7, <2>1, Unblocked
    DEF Takes, PumpGoes, Detected, FlagsOK, OwnersOK, Own
<1>8. ASSUME pc[t] = "warmed" PROVE Detected(t)
  <2>1. Goes(t) = PumpGoes(t)["warmed"]
    BY <1>4, <1>8
  <2> QED
    BY <1>1, <1>2, <1>3, <1>8, <2>1, Unblocked
    DEF Takes, PumpGoes, Detected, FlagsOK, OwnersOK, Own
<1>9. ASSUME pc[t] = "own" PROVE KeepFromClient(t)
  <2>1. Goes(t) = PumpGoes(t)["own"]
    BY <1>4, <1>9
  <2> QED
    BY <1>1, <1>2, <1>3, <1>9, <2>1, Unblocked
    DEF Takes, PumpGoes, KeepFromClient, FlagsOK, OwnersOK
<1>10. ASSUME pc[t] = "route" PROVE LockSink(t, "route", "write", AfterRoute(t))
  <2>1. Goes(t) = PumpGoes(t)["route"]
    BY <1>4, <1>10
  <2> QED
    BY <1>1, <1>2, <1>3, <1>10, <2>1, Unblocked
    DEF Takes, PumpGoes, LockSink, FlagsOK, OwnersOK, AfterRoute
<1>11. ASSUME pc[t] = "write" PROVE WriteSocket(t, "write", AfterRoute(t))
  <2>1. Goes(t) = PumpGoes(t)["write"]
    BY <1>4, <1>11
  <2> QED
    BY <1>1, <1>2, <1>3, <1>11, <2>1, Unblocked
    DEF Takes, PumpGoes, WriteSocket, FlagsOK, OwnersOK, AfterRoute
<1>12. ASSUME pc[t] = "boundary" PROVE Boundary(t)
  <2>1. Goes(t) = PumpGoes(t)["boundary"]
    BY <1>4, <1>12
  <2> QED
    BY <1>1, <1>2, <1>3, <1>12, <2>1, Unblocked
    DEF Takes, PumpGoes, Boundary, FlagsOK, OwnersOK
<1>13. ASSUME pc[t] = "read" PROVE Eof(t)
  <2>1. Goes(t) = PumpGoes(t)["read"]
    BY <1>4, <1>13
  <2> QED
    BY <1>1, <1>2, <1>3, <1>13, <2>1, Unblocked
    DEF Takes, PumpGoes, Eof, FlagsOK, OwnersOK, StdinBroken
<1> QED
  BY <1>1, <1>5, <1>6, <1>7, <1>8, <1>9, <1>10, <1>11, <1>12, <1>13
  DEF PumpPlaces, Pump

\* A client_in thread.
LEMMA ClientMoves ==
  ASSUME LocksInv, StallInv, Running, NEW t \in Clients, ~Blocked(t), Takes(t)
  PROVE  ClientIn(t)
<1> USE DEF At, locks, outside, NeedsCore, NeedsSink, NeedsStdin, SinkWrites, StdinWrites,
            CoreMoved, Held
<1>1. t \in Threads /\ t # Main /\ t \notin Streams /\ pc[t] \in ClientPlaces /\ PlacesOK
  BY LockThreads DEF Threads, LocksInv, TypeOK, PlacesOK
<1>2. FlagsOK /\ OwnersOK
  BY DEF LocksInv, TypeOK
<1>3. Goto(t, Goes(t))
  BY <1>1, GotoIs DEF ClientPlaces
<1>4. Goes(t) = ClientGoes[pc[t]]
  BY <1>1 DEF Goes
<1>5. pc[t] \notin {"none", "queued", "greeted", "done"}
  BY <1>1, Unblocked
<1>6. ASSUME pc[t] = "wait" PROVE WaitUntilReady(t)
  <2>1. Goes(t) = ClientGoes["wait"]
    BY <1>4, <1>6
  <2> QED
    BY <1>1, <1>2, <1>3, <1>6, <2>1, Unblocked
    DEF Takes, ClientGoes, WaitUntilReady, FlagsOK, OwnersOK
<1>7. ASSUME pc[t] = "fwait" PROVE WaitUntilReady(t)
  <2>1. Goes(t) = ClientGoes["fwait"]
    BY <1>4, <1>7
  <2> QED
    BY <1>1, <1>2, <1>3, <1>7, <2>1, Unblocked
    DEF Takes, ClientGoes, WaitUntilReady, FlagsOK, OwnersOK
<1>8. ASSUME pc[t] = "read" PROVE ReadEof(t)
  <2>1. Goes(t) = ClientGoes["read"]
    BY <1>4, <1>8
  <2> QED
    BY <1>1, <1>2, <1>3, <1>8, <2>1, Unblocked
    DEF Takes, ClientGoes, ReadEof, FlagsOK, OwnersOK
<1>9. ASSUME pc[t] = "start" PROVE StartRequest(t)
  <2>1. Goes(t) = ClientGoes["start"]
    BY <1>4, <1>9
  <2> QED
    BY <1>1, <1>2, <1>3, <1>9, <2>1, Unblocked
    DEF Takes, ClientGoes, StartRequest, FlagsOK, OwnersOK
<1>10. ASSUME pc[t] = "fstdin" PROVE LockStdin(t, "fstdin", "fwrite")
  <2>1. Goes(t) = ClientGoes["fstdin"]
    BY <1>4, <1>10
  <2> QED
    BY <1>1, <1>2, <1>3, <1>10, <2>1, Unblocked
    DEF Takes, ClientGoes, LockStdin, FlagsOK, OwnersOK
<1>11. ASSUME pc[t] = "fwrite" PROVE Forward(t)
  <2>1. Goes(t) = ClientGoes["fwrite"]
    BY <1>4, <1>11
  <2> QED
    BY <1>1, <1>2, <1>3, <1>11, <2>1, Unblocked
    DEF Takes, ClientGoes, Forward, FlagsOK, OwnersOK
<1>12. ASSUME pc[t] = "gone" PROVE GoneCore(t)
  <2>1. Goes(t) = ClientGoes["gone"]
    BY <1>4, <1>12
  <2> QED
    BY <1>1, <1>2, <1>3, <1>12, <2>1, Unblocked
    DEF Takes, ClientGoes, GoneCore, FlagsOK, OwnersOK
<1>13. ASSUME pc[t] = "gone_sink" PROVE GoneSink(t)
  <2>1. Goes(t) = ClientGoes["gone_sink"]
    BY <1>4, <1>13
  <2> QED
    BY <1>1, <1>2, <1>3, <1>13, <2>1, Unblocked
    DEF Takes, ClientGoes, GoneSink, FlagsOK, OwnersOK
<1> QED
  BY <1>1, <1>5, <1>6, <1>7, <1>8, <1>9, <1>10, <1>11, <1>12, <1>13
  DEF ClientPlaces, ClientIn

\* A thread that is not blocked can go on: the next state that Takes describes is
\* reached by a step of that thread.
THEOREM UnblockedThreadsMove ==
  ASSUME LocksInv, StallInv, Running, NEW t \in Threads, ~Blocked(t), Takes(t)
  PROVE  \/ t = Main /\ Supervise
         \/ t \in Streams /\ Pump(t)
         \/ t \in Clients /\ ClientIn(t)
BY SupervisorMoves, PumpMoves, ClientMoves DEF Threads

\* What keeps a blocked thread where it is.
LEMMA BlockedIs ==
  ASSUME NEW t \in Threads, Blocked(t)
  PROVE  \/ pc[t] \in NeedsCore /\ ~CoreFree
         \/ pc[t] \in NeedsSink /\ ~SinkFree
         \/ pc[t] \in NeedsStdin /\ ~StdinFree
         \/ pc[t] = "join" /\ ~(\A s \in Streams : pc[s] = "done")
         \/ pc[t] \in SinkWrites /\ sockFull /\ peer[slot] = "open"
         \/ pc[t] \in StdinWrites /\ stdinFull /\ ~StdinBroken
         \/ pc[t] = "read" /\ (IF t \in Streams THEN ~StdinBroken ELSE peer[t] = "open")
         \/ pc[t] \in {"wait", "fwait"} /\ PreServing /\ ~shutdown
         \/ pc[t] \in {"none", "queued", "greeted", "done"}
BY LockThreads DEF Blocked, WaitsFor, CoreFree, SinkFree, StdinFree

\* A blocked thread has no step, except that the supervisor needs no lock to find out
\* that nobody asks to be accepted.
THEOREM BlockedThreadsStay ==
  ASSUME LocksInv, NEW t \in Threads, Blocked(t),
         \/ t = Main /\ Supervise
         \/ t \in Streams /\ Pump(t)
         \/ t \in Clients /\ ClientIn(t)
  PROVE  t = Main /\ NobodyWaiting
<1> SUFFICES ASSUME ~(t = Main /\ NobodyWaiting) PROVE FALSE
  OBVIOUS
<1> USE BlockedIs, LockThreads
    DEF At, NeedsCore, NeedsSink, NeedsStdin, SinkWrites, StdinWrites
<1>1. CASE t = Main /\ Supervise
  <2>1. ~LoopTop
    BY <1>1 DEF LoopTop
  <2>2. ~Phase
    BY <1>1 DEF Phase
  <2>3. ~WaitElapsed
    BY <1>1 DEF WaitElapsed
  <2>4. ~Terminate
    BY <1>1 DEF Terminate
  <2>5. ~Reap
    BY <1>1 DEF Reap
  <2>6. ~Join
    BY <1>1 DEF Join
  <2>7. ~Judge
    BY <1>1 DEF Judge
  <2>8. ~ClearSink
    BY <1>1 DEF ClearSink
  <2>9. ~Spawn
    BY <1>1 DEF Spawn
  <2>10. ~Reboot
    BY <1>1 DEF Reboot
  <2>11. ~WireRepl
    BY <1>1 DEF WireRepl
  <2>12. ~StopServer
    BY <1>1 DEF StopServer
  <2>13. ~Cleanup
    BY <1>1 DEF Cleanup
  <2>14. ~AcceptCore
    BY <1>1 DEF AcceptCore
  <2>15. ~(\E c \in Clients : AcceptSink(c))
    BY <1>1 DEF AcceptSink
  <2>16. ~GreetCore
    BY <1>1 DEF GreetCore
  <2>17. ~SpawnClientIn
    BY <1>1 DEF SpawnClientIn
  <2>18. ~LockStdin(Main, "warmup", "warmup_write")
    BY <1>1 DEF LockStdin
  <2>19. ~SendWarmup
    BY <1>1 DEF SendWarmup
  <2>20. ~LockSink(Main, "greet_sink", "greet_write", "thread")
    BY <1>1 DEF LockSink
  <2>21. ~WriteSocket(Main, "greet_write", "thread")
    BY <1>1 DEF WriteSocket
  <2>22. ~LockSink(Main, "words", "words_write", "stop")
    BY <1>1 DEF LockSink
  <2>23. ~WriteSocket(Main, "words_write", "stop")
    BY <1>1 DEF WriteSocket
  <2> QED
    BY <1>1, <2>1, <2>2, <2>3, <2>4, <2>5, <2>6, <2>7, <2>8, <2>9, <2>10, <2>11, <2>12,
       <2>13, <2>14, <2>15, <2>16, <2>17, <2>18, <2>19, <2>20, <2>21, <2>22, <2>23
    DEF Supervise, MainIO
<1>2. CASE t \in Streams /\ Pump(t)
  <2>1. ~Snapshot(t)
    BY <1>2 DEF Snapshot
  <2>2. ~Detected(t)
    BY <1>2 DEF Detected
  <2>3. ~KeepFromClient(t)
    BY <1>2 DEF KeepFromClient
  <2>4. ~Boundary(t)
    BY <1>2 DEF Boundary
  <2>5. ~Eof(t)
    BY <1>2 DEF Eof, StdinBroken
  <2>6. ~LockSink(t, "route", "write", AfterRoute(t))
    BY <1>2 DEF LockSink
  <2>7. ~WriteSocket(t, "write", AfterRoute(t))
    BY <1>2 DEF WriteSocket
  <2> QED
    BY <1>2, <2>1, <2>2, <2>3, <2>4, <2>5, <2>6, <2>7 DEF Pump
<1>3. CASE t \in Clients /\ ClientIn(t)
  <2>1. ~WaitUntilReady(t)
    BY <1>3 DEF WaitUntilReady
  <2>2. ~ReadEof(t)
    BY <1>3 DEF ReadEof
  <2>3. ~StartRequest(t)
    BY <1>3 DEF StartRequest
  <2>4. ~LockStdin(t, "fstdin", "fwrite")
    BY <1>3 DEF LockStdin
  <2>5. ~Forward(t)
    BY <1>3 DEF Forward
  <2>6. ~GoneCore(t)
    BY <1>3 DEF GoneCore
  <2>7. ~GoneSink(t)
    BY <1>3 DEF GoneSink
  <2> QED
    BY <1>3, <2>1, <2>2, <2>3, <2>4, <2>5, <2>6, <2>7 DEF ClientIn
<1> QED
  BY <1>1, <1>2, <1>3
=============================================================================
