-------------------------------- MODULE Core --------------------------------
(***************************************************************************)
(* The request lifecycle of the server: `enum Phase` and `impl Core` of    *)
(* src/server.rs.  Each operator below is one method of Core, run under    *)
(* the Core mutex, and so one atomic step.                                 *)
(*                                                                         *)
(* Left out of Core's fields: `next_gen` (a generation names a connection, *)
(* and the models name connections directly), `requests` (only printed in  *)
(* the status packet) and `req_seq` (only resets the response scanners).   *)
(* The instants in Booting, Warmup and Draining are left out too: whether  *)
(* a bound has elapsed is chosen by the step that tests it.                *)
(***************************************************************************)

CONSTANTS
  Protocol,      \* framed mode; FALSE is --raw
  ReadyWait,     \* --ready-wait is given
  ReadyMarker,   \* --ready-marker-stdout or --ready-marker-stderr is given
  HasWarmup      \* --warmup-input is not empty

\* --ready-wait cannot be combined with a ready marker (build_server).
ReadinessAccepted == ~(ReadyWait /\ ReadyMarker)

ASSUME LifecycleOptions ==
  /\ {Protocol, ReadyWait, ReadyMarker, HasWarmup} \subseteq BOOLEAN
  /\ ReadinessAccepted

VARIABLES
  phase,         \* Core.phase
  served,        \* Core.served: this REPL instance accepted a client
  serving        \* Core.serving: output is forwarded to the attached client

core == <<phase, served, serving>>

Phases      == {"Booting", "Warmup", "Idle", "Busy", "Draining", "Stopped"}
PreServing  == phase \in {"Booting", "Warmup"}
AcceptableWhileDraining == phase \in {"Booting", "Warmup", "Idle", "Draining"}  \* mutant
Acceptable  == phase \in {"Booting", "Warmup", "Idle"}
HasReadiness == ReadyWait \/ ReadyMarker

CoreTypeOK == phase \in Phases /\ served \in BOOLEAN /\ serving \in BOOLEAN

InitialPhase ==
  IF HasReadiness THEN "Booting" ELSE IF HasWarmup THEN "Warmup" ELSE "Idle"

CoreInit == phase = InitialPhase /\ served = FALSE /\ serving = FALSE

\* The half of the accept gate that looks at the phase; the caller holds the
\* sink lock and has seen no client attached.
TryAccept ==
  /\ Acceptable
  /\ served' = TRUE /\ serving' = FALSE
  /\ UNCHANGED phase

RequestStart ==
  IF Protocol
  THEN /\ serving' = TRUE
       /\ phase' = IF phase = "Idle" THEN "Busy" ELSE phase
       /\ UNCHANGED served
  ELSE UNCHANGED core

ResponseEnd ==
  /\ phase' = IF phase \in {"Busy", "Draining"} THEN "Idle" ELSE phase
  /\ UNCHANGED <<served, serving>>

\* Mutants of ClientGone: the request in flight is forgotten, is taken for
\* finished, and the forwarding of output is not ended.
ClientGoneStaysBusy == serving' = FALSE /\ UNCHANGED <<phase, served>>
ClientGoneToIdle ==
  /\ serving' = FALSE
  /\ phase' = IF phase = "Busy" THEN "Idle" ELSE phase
  /\ UNCHANGED served
ClientGoneStillServing ==
  /\ phase' = IF phase = "Busy" THEN "Draining" ELSE phase
  /\ UNCHANGED <<served, serving>>

ClientGone ==
  /\ serving' = FALSE
  /\ phase' = IF phase = "Busy" THEN "Draining" ELSE phase
  /\ UNCHANGED served

Ready ==
  /\ phase' = IF phase = "Booting"
              THEN IF HasWarmup THEN "Warmup" ELSE "Idle"
              ELSE phase
  /\ UNCHANGED <<served, serving>>

WarmupDone ==
  /\ phase' = IF phase = "Warmup" THEN "Idle" ELSE phase
  /\ UNCHANGED <<served, serving>>

BeginBooting == phase' = InitialPhase /\ served' = FALSE /\ serving' = FALSE

Stop == phase' = "Stopped" /\ UNCHANGED <<served, serving>>
=============================================================================
