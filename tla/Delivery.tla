------------------------------ MODULE Delivery ------------------------------
(***************************************************************************)
(* The way of the REPL's output through the server in framed mode          *)
(* (src/server.rs, `pump` and what it calls), symbol by symbol: how a      *)
(* stream is cut into reads, what the scanners find and hold back, what    *)
(* each phase does with a chunk, and where every symbol ends up.  Server   *)
(* has chunks that are a marker or not; here a marker is spelled out and   *)
(* may be spread over reads.                                               *)
(*                                                                         *)
(* A symbol is named by its stream and its position in it.  One REPL       *)
(* process is modelled.  A request's input is answered from the moment it  *)
(* is forwarded: what the process prints then is meant for that client.    *)
(***************************************************************************)
EXTENDS Core, Marker, SequencesExt

CONSTANTS
  Clients, None,
  Streams,        \* "out" and "err"
  Symbols,        \* per stream, what the REPL prints on it
  EndMarkers,     \* per stream, the markers that end a response
  ReadyMarkers,   \* per stream, the ready marker or nothing
  WarmupMarkers,  \* per stream, the warmup marker or nothing
  Strip,          \* the streams whose markers are stripped
  Scenarios       \* bounds: records of the phase the REPL starts in, how many
                  \* symbols it prints per stream, how many clients connect and
                  \* how many inputs they send

Watched == [ready |-> ReadyMarkers, warmup |-> WarmupMarkers]

ASSUME DeliveryOptions ==
  /\ Protocol /\ HasWarmup
  /\ Scenarios \subseteq [first : {"Booting", "Warmup", "Idle"}, inputs : Nat, clients : Nat,
                           prints : [Streams -> Nat]]
  /\ Strip \subseteq Streams /\ None \notin Clients /\ "boot" \notin Clients
  /\ \A s \in Streams : \A ms \in {EndMarkers[s], ReadyMarkers[s], WarmupMarkers[s]} :
       ms \in Seq(Seq(Symbols[s]) \ {<<>>})

VARIABLES
  reqSeq,      \* Core.req_seq
  warmupSent,  \* the atomic flag
  sink,        \* the attached client
  cpc, peer,   \* each client's client_in, and its end of the connection
  requests,    \* inputs sent so far
  alive,       \* the REPL process is running
  fedBy,       \* whose input it is answering
  printed,     \* per stream, what it has printed: [sym, for]
  taken,       \* per stream, how much the pump has read
  ppc,         \* where each pump is
  buf,         \* the symbols it is about to route
  found,       \* ... which hold an end marker
  hold,        \* ResponseScanner.hold
  scanned,     \* scanned_seq
  watch,       \* the ready and warmup scanners: [on, hold]
  \* where symbols went
  got,         \* per client and stream, in order
  own,         \* to the server's own streams only
  flushed,     \* those among them a response scanner had held back
  stripped,    \* removed as markers
  undelivered, \* written to a client that had left
  \* history
  bound,       \* the scenario
  dropped,     \* clients whose sink was dropped by a failed write
  seen,        \* what was fed to the ready and warmup scanners
  log,         \* the present response scanner: text, what it gave out, markers
  ended        \* per stream, the requests its pump has ended

control == <<core, reqSeq, warmupSent, sink, dropped>>
peers   == <<cpc, peer, requests, fedBy>>
process == <<alive, printed>>
scanner == <<found, hold, scanned, stripped, log>>
places  == <<got, own, flushed, undelivered>>
vars == <<control, peers, process, taken, ppc, buf, scanner, watch, places, bound,
          seen, ended>>

Per(x) == [s \in Streams |-> x]
Text(s, at) == [k \in DOMAIN at |-> printed[s][at[k]].sym]
Elements(seq) == {seq[k] : k \in DOMAIN seq}

Init ==
  /\ bound \in Scenarios
  /\ phase = bound.first /\ served = FALSE /\ serving = FALSE
  /\ reqSeq = 0 /\ warmupSent = FALSE /\ sink = None /\ dropped = {}
  /\ cpc = [c \in Clients |-> "none"] /\ peer = [c \in Clients |-> "away"]
  /\ requests = 0 /\ alive = TRUE /\ fedBy = "boot"
  /\ printed = Per(<<>>) /\ taken = Per(0)
  /\ ppc = Per("read") /\ buf = Per(<<>>)
  /\ found = Per(FALSE) /\ hold = Per(<<>>) /\ scanned = Per(0)
  /\ watch = [w \in DOMAIN Watched |->
                [s \in Streams |-> [on |-> Watched[w][s] # <<>>, hold |-> <<>>]]]
  /\ got = [c \in Clients |-> Per(<<>>)]
  /\ own = Per({}) /\ flushed = Per({}) /\ stripped = Per({}) /\ undelivered = Per({})
  /\ seen = [w \in DOMAIN Watched |-> Per(<<>>)]
  /\ log = Per([text |-> <<>>, out |-> {}, found |-> 0])
  /\ ended = Per({})

-----------------------------------------------------------------------------
(* The pumps.                                                              *)

PumpGoto(s, l) == ppc' = [ppc EXCEPT ![s] = l]
Keep(s, at) == own' = [own EXCEPT ![s] = @ \cup Elements(at)]

\* Read a chunk and take the snapshot of phase and serving that decides what is
\* done with it.  What is withheld from the client goes to the server's own
\* streams, which nothing else here depends on, in the step that decides so.
ReadChunk(s, n) ==
  LET chunk == [k \in 1..n |-> taken[s] + k]
      do    == CASE phase = "Booting"              -> "ready"
                 [] phase = "Warmup"               -> "warmup"
                 [] phase \in {"Busy", "Draining"} -> "scan"
                 [] phase = "Idle" /\ serving      -> "tail"
                 [] OTHER                          -> "read"
  IN /\ ppc[s] = "read"
     /\ taken' = [taken EXCEPT ![s] = @ + n]
     /\ PumpGoto(s, do)
     /\ buf' = [buf EXCEPT ![s] = IF do = "read" THEN <<>> ELSE chunk]
     /\ own' = [own EXCEPT ![s] = IF do = "read" THEN @ \cup Elements(chunk) ELSE @]
     /\ UNCHANGED <<control, peers, process, scanner, watch, got, flushed, undelivered,
                    bound, seen, ended>>

\* Mutant: the pump goes on without letting go of the chunk.
WithholdKeepsChunk(s) ==
  /\ Keep(s, buf[s])
  /\ buf' = buf
  /\ PumpGoto(s, "read")

\* deliver_repl_output with to_client FALSE.
Withhold(s) ==
  /\ Keep(s, buf[s])
  /\ buf' = [buf EXCEPT ![s] = <<>>]
  /\ PumpGoto(s, "read")

\* Feed the single-shot scanner w; Found says what happens when it is done.
Observe(s, w, Found) ==
  LET text == watch[w][s].hold \o buf[s]
      r    == Once(Watched[w][s], FALSE, Text(s, text))
  IN /\ seen' = [seen EXCEPT ![w][s] = @ \o buf[s]]
     /\ watch' = [watch EXCEPT ![w][s] =
                    [on |-> ~r.done, hold |-> SubSeq(text, Len(text) - r.hold + 1, Len(text))]]
     /\ IF r.done THEN Found ELSE UNCHANGED core

\* Mutant: a scanner that found nothing forgets what it held back.
DetectReadyForgets(s) ==
  /\ ppc[s] = "ready"
  /\ IF watch.ready[s].on /\ phase = "Booting"
     THEN /\ seen' = [seen EXCEPT !.ready[s] = @ \o buf[s]]
          /\ LET r == Once(ReadyMarkers[s], FALSE, Text(s, buf[s])) IN
             /\ watch' = [watch EXCEPT !.ready[s].on = ~r.done]
             /\ IF r.done THEN Ready ELSE UNCHANGED core
     ELSE /\ watch' = [watch EXCEPT !.ready[s] = [on |-> FALSE, hold |-> <<>>]]
          /\ UNCHANGED <<core, seen>>
  /\ Withhold(s)
  /\ UNCHANGED <<reqSeq, warmupSent, sink, dropped, peers, process, taken, scanner,
                 got, flushed, undelivered, bound, ended>>

\* detect_ready: the scanner is dropped when the REPL turns out not to be booting
\* any more.
DetectReady(s) ==
  /\ ppc[s] = "ready"
  /\ IF watch.ready[s].on /\ phase = "Booting"
     THEN Observe(s, "ready", Ready)
     ELSE /\ watch' = [watch EXCEPT !.ready[s] = [on |-> FALSE, hold |-> <<>>]]
          /\ UNCHANGED <<core, seen>>
  /\ Withhold(s)
  /\ UNCHANGED <<reqSeq, warmupSent, sink, dropped, peers, process, taken, scanner,
                 got, flushed, undelivered, bound, ended>>

\* detect_warmup: nothing is scanned before the warmup has been sent.
DetectWarmup(s) ==
  /\ ppc[s] = "warmup"
  /\ IF watch.warmup[s].on /\ warmupSent
     THEN Observe(s, "warmup", WarmupDone)
     ELSE UNCHANGED <<core, watch, seen>>
  /\ Withhold(s)
  /\ UNCHANGED <<reqSeq, warmupSent, sink, dropped, peers, process, taken, scanner,
                 got, flushed, undelivered, bound, ended>>

\* What the response scanner of a request makes of the chunk: it starts with what
\* it holds back, and with an empty log if it is new.
Respond(s, held, past) ==
  LET text == held \o buf[s]
      r    == Scan(EndMarkers[s], s \in Strip, Text(s, text))
      out  == {text[k] : k \in r.emit}
  IN /\ buf' = [buf EXCEPT ![s] = Extract(text, r.emit)]
     /\ hold' = [hold EXCEPT ![s] = SubSeq(text, Len(text) - r.hold + 1, Len(text))]
     /\ stripped' = [stripped EXCEPT ![s] = @ \cup {text[k] : k \in r.strip}]
     /\ found' = [found EXCEPT ![s] = r.found > 0]
     /\ log' = [log EXCEPT ![s] = [text |-> past.text \o buf[s], out |-> past.out \cup out,
                                   found |-> past.found + r.found]]

Flush(s) ==
  /\ Keep(s, hold[s])
  /\ flushed' = [flushed EXCEPT ![s] = @ \cup Elements(hold[s])]

Fresh == [text |-> <<>>, out |-> {}, found |-> 0]

\* The Busy and Draining arm, up to the delivery: a new request gets a new scanner,
\* and what the old one holds back goes to the server.
ScanResponse(s) ==
  /\ ppc[s] = "scan"
  /\ IF reqSeq # scanned[s]
     THEN Flush(s) /\ Respond(s, <<>>, Fresh)
     ELSE UNCHANGED <<own, flushed>> /\ Respond(s, hold[s], log[s])
  /\ scanned' = [scanned EXCEPT ![s] = reqSeq]
  /\ PumpGoto(s, "route")
  /\ UNCHANGED <<control, peers, process, taken, watch, got, undelivered, bound, seen, ended>>

\* route_out and route_err: to whoever the sink holds now.
Route(s) ==
  /\ ppc[s] \in {"route", "tail"}
  /\ \/ (sink = None \/ buf[s] = <<>>)
        /\ Keep(s, buf[s])
        /\ UNCHANGED <<got, undelivered, sink, dropped>>
     \/ sink # None /\ buf[s] # <<>> /\ peer[sink] = "open"
        /\ got' = [got EXCEPT ![sink][s] = @ \o buf[s]]
        /\ UNCHANGED <<own, undelivered, sink, dropped>>
     \/ sink # None /\ buf[s] # <<>> /\ peer[sink] = "left"
        /\ undelivered' = [undelivered EXCEPT ![s] = @ \cup Elements(buf[s])]
        /\ \/ sink' = None /\ dropped' = dropped \cup {sink}
           \/ UNCHANGED <<sink, dropped>>
        /\ UNCHANGED <<got, own>>
  /\ buf' = [buf EXCEPT ![s] = <<>>]
  /\ PumpGoto(s, IF ppc[s] = "route" /\ found[s] THEN "end" ELSE "read")
  /\ UNCHANGED <<core, reqSeq, warmupSent, peers, process, taken, scanner, watch,
                 flushed, bound, seen, ended>>

EndResponse(s) ==
  /\ ppc[s] = "end"
  /\ ResponseEnd
  /\ ended' = [ended EXCEPT ![s] = IF phase \in {"Busy", "Draining"} THEN @ \cup {reqSeq} ELSE @]
  /\ PumpGoto(s, "read")
  /\ UNCHANGED <<reqSeq, warmupSent, sink, dropped, peers, process, taken, buf,
                 scanner, watch, places, bound, seen>>

\* Mutant: what the scanner holds back is forgotten.
EndOfStreamForgetsHeld(s) ==
  /\ ppc[s] = "read" /\ ~alive /\ taken[s] = Len(printed[s])
  /\ hold' = [hold EXCEPT ![s] = <<>>]
  /\ PumpGoto(s, "done")
  /\ UNCHANGED <<control, peers, process, taken, buf, found, scanned, stripped, log,
                 watch, places, bound, seen, ended>>

\* The stream ends: what the scanner holds back goes to the server.
EndOfStream(s) ==
  /\ ppc[s] = "read" /\ ~alive /\ taken[s] = Len(printed[s])
  /\ Flush(s)
  /\ hold' = [hold EXCEPT ![s] = <<>>]
  /\ PumpGoto(s, "done")
  /\ UNCHANGED <<control, peers, process, taken, buf, found, scanned, stripped, log,
                 watch, got, undelivered, bound, seen, ended>>

Pump(s) ==
  \/ \E n \in 1..(Len(printed[s]) - taken[s]) : ReadChunk(s, n)
  \/ DetectReady(s) \/ DetectWarmup(s) \/ ScanResponse(s)
  \/ Route(s) \/ EndResponse(s) \/ EndOfStream(s)

-----------------------------------------------------------------------------
(* The supervisor, the clients and the REPL, as far as output depends on   *)
(* them.                                                                   *)

flow == <<taken, ppc, buf, scanner, watch, places, bound, seen, ended>>

\* send_warmup
SendWarmup ==
  /\ phase = "Warmup" /\ ~warmupSent
  /\ warmupSent' = TRUE
  /\ UNCHANGED <<core, reqSeq, sink, dropped, peers, process, flow>>

\* Without --restart the supervisor stops when it learns of the exit, which may be
\* before the pumps have read all output.
StopServer ==
  /\ ~alive /\ phase # "Stopped"
  /\ Stop
  /\ UNCHANGED <<reqSeq, warmupSent, sink, dropped, peers, process, flow>>

Accept(c) ==
  /\ cpc[c] = "none" /\ sink = None
  /\ Cardinality({d \in Clients : cpc[d] # "none"}) < bound.clients
  /\ TryAccept
  /\ sink' = c
  /\ cpc' = [cpc EXCEPT ![c] = "in"] /\ peer' = [peer EXCEPT ![c] = "open"]
  /\ UNCHANGED <<reqSeq, warmupSent, dropped, requests, fedBy, process, flow>>

\* Mutant: the number advances with every input.
StartRequestAlwaysNew(c) ==
  /\ cpc[c] = "in" /\ ~PreServing /\ requests < bound.inputs
  /\ RequestStart
  /\ reqSeq' = reqSeq + 1
  /\ requests' = requests + 1
  /\ cpc' = [cpc EXCEPT ![c] = "forward"]
  /\ UNCHANGED <<warmupSent, sink, dropped, peer, fedBy, process, flow>>

\* client_in has read an input: request_start, which numbers the request.
StartRequest(c) ==
  /\ cpc[c] = "in" /\ ~PreServing /\ requests < bound.inputs
  /\ RequestStart
  /\ reqSeq' = IF phase = "Idle" THEN reqSeq + 1 ELSE reqSeq
  /\ requests' = requests + 1
  /\ cpc' = [cpc EXCEPT ![c] = "forward"]
  /\ UNCHANGED <<warmupSent, sink, dropped, peer, fedBy, process, flow>>

Forward(c) ==
  /\ cpc[c] = "forward"
  /\ fedBy' = IF alive THEN c ELSE fedBy
  /\ cpc' = [cpc EXCEPT ![c] = "in"]
  /\ UNCHANGED <<control, peer, requests, process, flow>>

Leave(c) ==
  /\ peer[c] = "open"
  /\ peer' = [peer EXCEPT ![c] = "left"]
  /\ UNCHANGED <<control, cpc, requests, fedBy, process, flow>>

\* Mutant: serving is taken from whoever is attached, without looking who left.
GoneBeforeLeaving(c) ==
  /\ cpc[c] = "in" /\ requests > 0
  /\ ClientGone
  /\ cpc' = [cpc EXCEPT ![c] = "done"]
  /\ UNCHANGED <<sink, reqSeq, warmupSent, dropped, peer, requests, fedBy, process, flow>>

\* client_in notices that the client has left: client_gone.
Gone(c) ==
  /\ cpc[c] = "in" /\ peer[c] = "left"
  /\ ClientGone
  /\ sink' = IF sink = c THEN None ELSE sink
  /\ cpc' = [cpc EXCEPT ![c] = "done"]
  /\ UNCHANGED <<reqSeq, warmupSent, dropped, peer, requests, fedBy, process, flow>>

ReplPrints(s, x) ==
  /\ alive /\ Len(printed[s]) < bound.prints[s]
  /\ printed' = [printed EXCEPT ![s] = Append(@, [sym |-> x, for |-> fedBy])]
  /\ UNCHANGED <<control, peers, alive, flow>>

ReplDies ==
  /\ alive /\ alive' = FALSE
  /\ UNCHANGED <<control, peers, printed, flow>>

Around ==
  \/ SendWarmup \/ StopServer \/ ReplDies
  \/ \E c \in Clients : Accept(c) \/ StartRequest(c) \/ Forward(c) \/ Leave(c) \/ Gone(c)
  \/ \E s \in Streams : \E x \in Symbols[s] : ReplPrints(s, x)

\* All output has been dealt with.
AllDelivered == (\A s \in Streams : ppc[s] = "done") /\ UNCHANGED vars

Next == (\E s \in Streams : Pump(s)) \/ Around \/ AllDelivered
Spec == Init /\ [][Next]_vars

-----------------------------------------------------------------------------
(* Properties.                                                             *)

Positions(s) == 1..taken[s]

\* The variables hold values of their kinds.
TypeOK ==
  /\ CoreTypeOK
  /\ reqSeq \in 0..requests /\ requests \in 0..bound.inputs
  /\ sink \in Clients \cup {None} /\ dropped \subseteq Clients
  /\ {warmupSent, alive} \subseteq BOOLEAN /\ fedBy \in Clients \cup {"boot"}
  /\ cpc \in [Clients -> {"none", "in", "forward", "done"}]
  /\ peer \in [Clients -> {"away", "open", "left"}]
  /\ \A s \in Streams :
       /\ printed[s] \in Seq([sym : Symbols[s], for : Clients \cup {"boot"}])
       /\ taken[s] \in 0..Len(printed[s])
       /\ ppc[s] \in {"read", "ready", "warmup", "scan", "route", "tail",
                      "end", "done"}
       /\ ppc[s] \in {"read", "done"} => buf[s] = <<>>
       /\ \A w \in DOMAIN Watched :
            /\ watch[w][s].on \in BOOLEAN
            /\ Elements(watch[w][s].hold) \subseteq Positions(s)
            /\ ~watch[w][s].on => watch[w][s].hold = <<>>
       /\ found[s] \in BOOLEAN /\ scanned[s] \in 0..reqSeq
       /\ UNION {Elements(buf[s]), Elements(hold[s]), own[s], flushed[s], stripped[s],
                 undelivered[s]} \subseteq Positions(s)

\* No symbol is lost or doubled on the way through a pump: each that was read is in
\* its hands or held back, was sent to exactly one client or to one that had left,
\* was kept by the server, or was stripped as part of a marker.  What a client gets
\* of a stream is in the order in which it was printed.
Fates(s) ==
  {<<"hands", Elements(buf[s])>>, <<"held", Elements(hold[s])>>, <<"own", own[s]>>,
   <<"stripped", stripped[s]>>, <<"undelivered", undelivered[s]>>}
    \cup {<<c, Elements(got[c][s])>> : c \in Clients}
Increasing(seq) == \A j, k \in DOMAIN seq : j < k => seq[j] < seq[k]
EachSymbolOnce ==
  \A s \in Streams :
    /\ UNION {f[2] : f \in Fates(s)} = Positions(s)
    /\ \A f, g \in Fates(s) : f # g => f[2] \cap g[2] = {}
    /\ \A c \in Clients : Increasing(got[c][s])

\* The server keeps nothing of an answer to itself that is meant for a client still
\* attached, except what a scanner held back and the server's own end (the comment
\* on `serving` claims it without the first exception).
Withheld(s) == own[s] \ flushed[s]
AnswersAreForwarded ==
  dropped = {} /\ phase # "Stopped" =>
    \A s \in Streams : \A i \in Withheld(s) :
      LET c == printed[s][i].for IN c \in Clients => peer[c] = "left"

\* An end marker that is acted on after the next request has begun comes second:
\* another stream's pump has ended its request already.
LateMarkersAreSecond ==
  \A s \in Streams :
    ppc[s] = "end" /\ scanned[s] # reqSeq
      => \E t \in Streams \ {s} : scanned[s] \in ended[t]

\* However a stream is cut into reads, a response scanner gives out, holds back and
\* counts what it would if the whole text since its request had been read at once,
\* provided that no marker of the stream occurs inside another one: with the markers
\* "abc" and "b", a read that ends after "ab" finds the second one.
SplitsDoNotMatter ==
  \A s \in Streams : Separate(EndMarkers[s]) /\ scanned[s] # 0 /\ ppc[s] # "done" =>
    LET r == Scan(EndMarkers[s], s \in Strip, Text(s, log[s].text))
        n == Len(log[s].text)
    IN /\ log[s].out = {log[s].text[k] : k \in r.emit}
       /\ log[s].found = r.found
       /\ hold[s] = SubSeq(log[s].text, n - r.hold + 1, n)

\* The REPL leaves its boot when, and not before, a whole ready marker has been
\* read in it, and its warmup when a whole warmup marker has been read after the
\* warmup was sent.
Occurred(w) ==
  \E s \in Streams : \E k \in DOMAIN Watched[w][s] :
    Occurrences(Watched[w][s][k], Text(s, seen[w][s]), 1) # {}
PhasesFollowMarkers ==
  /\ phase = "Booting" => ~Occurred("ready")
  /\ phase = "Warmup" => ~Occurred("warmup")
  /\ bound.first = "Booting" /\ phase \notin {"Booting", "Stopped"} => Occurred("ready")
  /\ bound.first # "Idle" /\ phase \in {"Idle", "Busy", "Draining"} => Occurred("warmup")
=============================================================================
