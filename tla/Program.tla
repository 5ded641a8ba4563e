------------------------------- MODULE Program -------------------------------
(***************************************************************************)
(* replstoke from the command line to the exit codes (src/lib.rs), without *)
(* the loop of the server: the processes side by side, and one client with *)
(* its threads.  The two share no state but the connection, and what the   *)
(* other end of that does is free in Client.  So it is enough to follow    *)
(* the inside of a client while the other processes rest, and the others   *)
(* while the client has ended.                                             *)
(***************************************************************************)
EXTENDS Client, Processes

\* A client that found the connection closed.
ClientOver ==
  /\ scenario \in Scenarios /\ ~scenario.timeout
  /\ \A sc \in Scenarios : ~sc.timeout => Len(sc.says) >= Len(scenario.says)
  /\ wire = Wire(scenario)
  /\ arrived = 0 /\ open = FALSE /\ consumed = 0
  /\ held = [o \in Outputs |-> <<>>] /\ shown = [o \in Outputs |-> <<>>]
  /\ main = "done" /\ result = "failed" /\ exit = 1
  /\ sender = "done" /\ written = 0
  /\ watchdog = "none" /\ timedOut = FALSE /\ shut = FALSE

Init ==
  /\ ProcInit
  /\ IF Procs = {} THEN ClientInit ELSE ClientOver

Next ==
  \/ ClientNext /\ UNCHANGED procVars
  \/ ProcNext /\ UNCHANGED clientVars

vars == <<clientVars, procVars>>

Spec == Init /\ [][Next]_vars /\ ClientFairness /\ ProcFairness
=============================================================================
