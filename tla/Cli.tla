--------------------------------- MODULE Cli ---------------------------------
(***************************************************************************)
(* The command line of src/cli/mod.rs as functions: from the arguments to  *)
(* the options that are set, and from these to a mode and its              *)
(* configuration, or to a usage error.                                     *)
(*                                                                         *)
(* An argument is a sequence of symbols: "-", "=", the letters of the      *)
(* short options, the name of a long option as one symbol, and whatever    *)
(* values are made of.                                                     *)
(***************************************************************************)
EXTENDS Naturals, Sequences

CONSTANTS
  Numerals,   \* the values that parse as a port and as a number of seconds
  CtlModes    \* the values --ctl takes

Flags ==
  {"server", "client", "restart", "strip-marker-stdout", "strip-marker-stderr",
   "raw", "help", "version"}
ValueOptional == {"addr", "unixsocket", "pidfile", "kill"}
EndMarkerOptions ==
  {"end-marker-stdout", "end-marker-stderr", "error-marker-stdout", "error-marker-stderr"}
Readiness ==
  {"ready-marker-stdout", "ready-marker-stderr", "ready-wait", "ready-marker-timeout"}
Warmup ==
  {"warmup-input", "warmup-marker-stdout", "warmup-marker-stderr", "warmup-wait",
   "warmup-marker-timeout"}
Numeric ==
  {"port", "ready-wait", "ready-marker-timeout", "warmup-wait", "warmup-marker-timeout",
   "timeout", "response-timeout"}
ValueRequired ==
  Numeric \cup EndMarkerOptions \cup Readiness \cup Warmup
    \cup {"arginput", "fileinput", "suffix", "ctl"}
Options == Flags \cup ValueOptional \cup ValueRequired \cup {"exec"}

ShortOf ==
  [s |-> "server", c |-> "client", r |-> "restart", h |-> "help", a |-> "addr",
   u |-> "unixsocket", d |-> "pidfile", k |-> "kill", p |-> "port", i |-> "arginput",
   f |-> "fileinput", m |-> "end-marker-stdout", x |-> "suffix", e |-> "exec"]

-----------------------------------------------------------------------------
(* The tokenizer.  A setting gives an option its value: <<>> for none, <<v>>  *)
(* for the value v, and for the command its arguments.  What a token comes to *)
(* is the settings it makes and the argument to go on with.                   *)

Wrong == [set |-> <<[opt |-> "wrong", val |-> <<>>]>>, next |-> 0]
Sets(o, v, next) == [set |-> <<[opt |-> o, val |-> v]>>, next |-> next]

\* Mutant: the arguments of the command are looked at as well.
TakeOneWord(o, attached, args, i) ==
  LET value == IF attached = <<>> /\ i < Len(args) THEN <<args[i + 1]>> ELSE attached
      next  == IF attached = <<>> THEN i + 2 ELSE i + 1
  IN CASE o = "exec" -> Sets(o, value, i + 1 + Len(value) - Len(attached))
       [] o \in ValueOptional -> Sets(o, attached, i + 1)
       [] o \in ValueRequired ->
            IF value = <<>> \/ (o \in Numeric /\ value[1] \notin Numerals) THEN Wrong
            ELSE Sets(o, value, next)
       [] OTHER -> Wrong

\* An option at argument i that is not a flag, with the value attached to it.  The
\* command takes all the arguments that are left.
Take(o, attached, args, i) ==
  LET value == IF attached = <<>> /\ i < Len(args) THEN <<args[i + 1]>> ELSE attached
      next  == IF attached = <<>> THEN i + 2 ELSE i + 1
  IN CASE o = "exec" ->
            Sets(o, attached \o SubSeq(args, i + 1, Len(args)), Len(args) + 1)
       [] o \in ValueOptional -> Sets(o, attached, i + 1)
       [] o \in ValueRequired ->
            IF value = <<>> \/ (o \in Numeric /\ value[1] \notin Numerals) THEN Wrong
            ELSE Sets(o, value, next)
       [] OTHER -> Wrong

\* handle_long: --name or --name=value.
Long(args, i) ==
  LET body     == SubSeq(args[i], 3, Len(args[i]))
      eqs      == {n \in DOMAIN body : body[n] = "="}
      eq       == CHOOSE n \in eqs : \A m \in eqs : n <= m
      name     == IF eqs = {} THEN body ELSE SubSeq(body, 1, eq - 1)
      attached == IF eqs = {} THEN <<>> ELSE <<SubSeq(body, eq + 1, Len(body))>>
  IN IF Len(name) # 1 THEN Wrong
     ELSE IF name[1] \in Flags
     THEN IF attached = <<>> THEN Sets(name[1], <<>>, i + 1) ELSE Wrong
     ELSE Take(name[1], attached, args, i)

\* handle_short: a cluster of flags, the last of which may be an option whose value
\* is the rest of the argument.
Short(args, i) ==
  LET t == args[i]
      From[j \in 2..(Len(t) + 1)] ==
        IF j > Len(t) THEN [set |-> <<>>, next |-> i + 1]
        ELSE IF t[j] \notin DOMAIN ShortOf THEN Wrong
        ELSE LET o == ShortOf[t[j]] IN
             IF o \in Flags
             THEN LET rest == From[j + 1] IN
                  [rest EXCEPT !.set = <<[opt |-> o, val |-> <<>>]>> \o @]
             ELSE Take(o, IF j = Len(t) THEN <<>> ELSE <<SubSeq(t, j + 1, Len(t))>>,
                       args, i)
  IN From[2]

Token(args, i) ==
  LET t == args[i] IN
  CASE t = <<"-", "-">>                                -> Take("exec", <<>>, args, i)
    [] Len(t) > 2 /\ SubSeq(t, 1, 2) = <<"-", "-">>    -> Long(args, i)
    [] Len(t) > 1 /\ t[1] = "-" /\ t[2] # "-"          -> Short(args, i)
    [] OTHER                                           -> Wrong

Settings(args) ==
  LET From[i \in 1..(Len(args) + 1)] ==
        IF i > Len(args) THEN <<>>
        ELSE LET t == Token(args, i) IN
             t.set \o (IF t.next = 0 THEN <<>> ELSE From[t.next])
  IN From[1]

\* tokenize: of several settings of an option the last one stands.
Accepted(args) == \A k \in DOMAIN Settings(args) : Settings(args)[k].opt # "wrong"
Tokenize(args) ==
  LET sets  == Settings(args)
      Of(o) == {k \in DOMAIN sets : sets[k].opt = o}
  IN [o \in {x \in Options : Of(x) # {}} |->
        sets[CHOOSE k \in Of(o) : \A n \in Of(o) : n <= k].val]

-----------------------------------------------------------------------------
(* Modes and configurations.  `raw` is a function from the options given.   *)

Usage == [mode |-> "usage"]

Given(raw, o)    == o \in DOMAIN raw
NonEmpty(raw, o) == o \in DOMAIN raw /\ raw[o] \notin {<<>>, <<<<>>>>}
AnyGiven(raw, S) == DOMAIN raw \cap S # {}

\* resolve_bind
BindRejected(raw) ==
  Given(raw, "unixsocket") /\ AnyGiven(raw, {"addr", "port"})
BindOf(raw) ==
  IF Given(raw, "unixsocket") THEN [unix |-> TRUE, path |-> raw["unixsocket"]]
  ELSE [unix |-> FALSE,
        addr |-> IF Given(raw, "addr") THEN raw["addr"] ELSE <<>>,
        port |-> IF Given(raw, "port") THEN raw["port"] ELSE <<>>]

ReadyMarkerOf(raw) ==
  NonEmpty(raw, "ready-marker-stdout") \/ NonEmpty(raw, "ready-marker-stderr")
WarmupMarkerOf(raw) ==
  NonEmpty(raw, "warmup-marker-stdout") \/ NonEmpty(raw, "warmup-marker-stderr")
WarmupEndOf(raw) == WarmupMarkerOf(raw) \/ Given(raw, "warmup-wait")

\* Mutant: a warmup needs no way to tell its end.
ServerRejectedButWarmup(raw) ==
  \/ AnyGiven(raw, {"arginput", "fileinput", "suffix", "ctl", "kill", "timeout"})
  \/ BindRejected(raw)
  \/ ~Given(raw, "exec") \/ raw["exec"] = <<>>
  \/ ReadyMarkerOf(raw) /\ Given(raw, "ready-wait")
  \/ Given(raw, "ready-marker-timeout") /\ ~ReadyMarkerOf(raw)
  \/ ~NonEmpty(raw, "warmup-input") /\ WarmupEndOf(raw)
  \/ Given(raw, "warmup-marker-timeout") /\ ~WarmupMarkerOf(raw)

\* What build_server rejects.
ServerRejected(raw) ==
  \/ AnyGiven(raw, {"arginput", "fileinput", "suffix", "ctl", "kill", "timeout"})
  \/ BindRejected(raw)
  \/ ~Given(raw, "exec") \/ raw["exec"] = <<>>
  \/ ReadyMarkerOf(raw) /\ Given(raw, "ready-wait")
  \/ Given(raw, "ready-marker-timeout") /\ ~ReadyMarkerOf(raw)
  \/ NonEmpty(raw, "warmup-input") # WarmupEndOf(raw)
  \/ Given(raw, "warmup-marker-timeout") /\ ~WarmupMarkerOf(raw)

BuildServer(raw) ==
  IF ServerRejected(raw) THEN Usage
  ELSE [mode          |-> "server",
        bind          |-> BindOf(raw),
        pidfile       |-> IF Given(raw, "pidfile") THEN <<raw["pidfile"]>> ELSE <<>>,
        restart       |-> Given(raw, "restart"),
        response      |-> Given(raw, "response-timeout"),
        raw           |-> Given(raw, "raw"),
        readyMarker   |-> ReadyMarkerOf(raw),
        readyWait     |-> Given(raw, "ready-wait"),
        readyTimeout  |-> Given(raw, "ready-marker-timeout"),
        warmup        |-> NonEmpty(raw, "warmup-input"),
        warmupMarker  |-> WarmupMarkerOf(raw),
        warmupWait    |-> Given(raw, "warmup-wait"),
        warmupTimeout |-> Given(raw, "warmup-marker-timeout")]

\* Mutant: --pidfile is not looked at.
ClientRejectedButPidfile(raw) ==
  \/ AnyGiven(raw, {"exec", "restart", "response-timeout", "kill"}
                     \cup Readiness \cup Warmup)
  \/ BindRejected(raw)
  \/ Given(raw, "ctl") /\ raw["ctl"][1] \notin CtlModes

\* What build_client rejects.
ClientRejected(raw) ==
  \/ AnyGiven(raw, {"exec", "restart", "response-timeout", "pidfile", "kill"}
                     \cup Readiness \cup Warmup)
  \/ BindRejected(raw)
  \/ Given(raw, "ctl") /\ raw["ctl"][1] \notin CtlModes

BuildClient(raw) ==
  IF ClientRejected(raw) THEN Usage
  ELSE [mode |-> "client", bind |-> BindOf(raw), timeout |-> Given(raw, "timeout"),
        raw |-> Given(raw, "raw")]

\* build_general: --kill, without any option of the other modes.
BuildGeneral(raw) ==
  IF Given(raw, "kill") /\ ~AnyGiven(raw,
       {"addr", "port", "unixsocket", "exec", "restart", "raw", "pidfile", "arginput",
        "fileinput", "suffix", "ctl", "timeout", "response-timeout",
        "strip-marker-stdout", "strip-marker-stderr"}
         \cup EndMarkerOptions \cup Readiness \cup Warmup)
  THEN [mode |-> "kill", path |-> raw["kill"]]
  ELSE Usage

BuildConfig(raw) ==
  IF Given(raw, "help") \/ Given(raw, "version") THEN [mode |-> "help"]
  ELSE IF Given(raw, "server") /\ Given(raw, "client") THEN Usage
  ELSE IF Given(raw, "server") THEN BuildServer(raw)
  ELSE IF Given(raw, "client") THEN BuildClient(raw)
  ELSE BuildGeneral(raw)

Parse(args) == IF Accepted(args) THEN BuildConfig(Tokenize(args)) ELSE Usage

-----------------------------------------------------------------------------
(* What the modes have a use for.                                           *)

\* The options that bear on what a process with this configuration does.  A raw server
\* never looks for the end of a response, so that it strips nothing and nothing is ever
\* overdue; a raw client has one output and no ctl packets.
Shared == {"addr", "port", "unixsocket", "raw"}
Framed(mode) ==
  IF mode = "server"
  THEN {"response-timeout", "strip-marker-stdout", "strip-marker-stderr"} \cup EndMarkerOptions
  ELSE {"ctl", "strip-marker-stderr"}
UsedBy(c) ==
  CASE c.mode = "server" ->
         {"server", "exec", "restart", "pidfile"} \cup Shared \cup Readiness \cup Warmup
           \cup IF c.raw THEN {} ELSE Framed("server")
    [] c.mode = "client" ->
         {"client", "arginput", "fileinput", "suffix", "timeout", "strip-marker-stdout"}
           \cup Shared \cup EndMarkerOptions \cup IF c.raw THEN {} ELSE Framed("client")
    [] c.mode = "kill" -> {"kill"}
    [] c.mode = "help" -> {"help", "version"}

\* What the server relies on: its boot and its warmup, if it has them, can be
\* told to have ended, and a timeout has something to time.
CanServe(c) ==
  /\ ~(c.readyMarker /\ c.readyWait) /\ (c.readyTimeout => c.readyMarker)
  /\ c.warmup <=> (c.warmupMarker \/ c.warmupWait)
  /\ c.warmupTimeout => c.warmupMarker
=============================================================================
