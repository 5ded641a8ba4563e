----------------------------- MODULE Lifecycle ------------------------------
(***************************************************************************)
(* What the server promises about its one REPL and its one client slot,    *)
(* with no threads in it: the transition table that `impl Core` and the    *)
(* exit handling of `run` (src/server.rs) add up to.                       *)
(*                                                                         *)
(*   - the slot is taken only when it is free and the REPL not reserved;   *)
(*   - a process boots, is warmed up and then serves, one request at a     *)
(*     time, and goes back to booting only by being replaced;              *)
(*   - it is replaced only while the slot is empty and fewer than          *)
(*     MaxStartupFailures processes in a row have failed to start;         *)
(*   - Stopped is final.                                                   *)
(*                                                                         *)
(* Server implements this (Server!ImplementsLifecycle).                    *)
(***************************************************************************)
EXTENDS Naturals

CONSTANTS
  Clients, None,
  FirstPhase,          \* the phase a fresh process starts in
  HasWarmup,
  MaxStartupFailures

VARIABLES
  phase,
  holder,              \* the client in the slot, or None
  process,             \* the number of processes started so far
  fresh,               \* the latest one has not begun its lifecycle yet
  streak               \* startup failures in a row

vars == <<phase, holder, process, fresh, streak>>

Init == phase = FirstPhase /\ holder = None /\ process = 1 /\ fresh = FALSE /\ streak = 0

Attach(c) ==
  /\ holder = None /\ phase \in {"Booting", "Warmup", "Idle"}
  /\ holder' = c
  /\ UNCHANGED <<phase, process, fresh, streak>>

Booted ==
  /\ phase = "Booting" /\ phase' = IF HasWarmup THEN "Warmup" ELSE "Idle"
  /\ UNCHANGED <<holder, process, fresh, streak>>

Warmed ==
  /\ phase = "Warmup" /\ phase' = "Idle"
  /\ UNCHANGED <<holder, process, fresh, streak>>

Request ==
  /\ phase = "Idle" /\ phase' = "Busy"
  /\ UNCHANGED <<holder, process, fresh, streak>>

Respond ==
  /\ phase \in {"Busy", "Draining"} /\ phase' = "Idle"
  /\ UNCHANGED <<holder, process, fresh, streak>>

\* The slot empties, a request in flight is abandoned, or both.
Detach ==
  /\ phase' = phase \/ (phase = "Busy" /\ phase' = "Draining")
  /\ holder' = holder \/ holder' = None
  /\ UNCHANGED <<process, fresh, streak>>

Judge ==
  /\ ~fresh
  /\ streak < MaxStartupFailures /\ streak' \in {0, streak + 1}
  /\ UNCHANGED <<phase, holder, process, fresh>>

Replace ==
  /\ ~fresh /\ phase # "Stopped" /\ holder = None /\ streak < MaxStartupFailures
  /\ process' = process + 1 /\ fresh' = TRUE
  /\ UNCHANGED <<phase, holder, streak>>

Begin ==
  /\ fresh /\ phase # "Stopped" /\ holder = None
  /\ phase' = FirstPhase /\ fresh' = FALSE
  /\ UNCHANGED <<holder, process, streak>>

Stop ==
  /\ phase' = "Stopped"
  /\ UNCHANGED <<holder, process, fresh, streak>>

Next ==
  \/ \E c \in Clients : Attach(c)
  \/ Booted \/ Warmed \/ Request \/ Respond \/ Detach
  \/ Judge \/ Replace \/ Begin \/ Stop

Spec == Init /\ [][Next]_vars
=============================================================================
