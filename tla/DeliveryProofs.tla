--------------------------- MODULE DeliveryProofs ---------------------------
(***************************************************************************)
(* The properties of Delivery hold for any streams, markers and amounts of *)
(* output: DInv is inductive and implies them.                             *)
(***************************************************************************)
EXTENDS Delivery, MarkerProofs

-----------------------------------------------------------------------------
(* The inductive invariant.                                                *)

Printed(s) == Seq([sym : Symbols[s], for : Clients \cup {"boot"}])

\* What is known of one stream's values.
StreamOK(s) ==
  /\ printed[s] \in Printed(s)
  /\ taken[s] \in Nat /\ taken[s] <= Len(printed[s])
  /\ ppc[s] \in {"read", "ready", "warmup", "scan", "route", "tail", "end", "done"}
  /\ buf[s] \in Seq(Positions(s)) /\ hold[s] \in Seq(Positions(s))
  /\ ppc[s] \in {"read", "end", "done"} => buf[s] = <<>>
  /\ found[s] \in BOOLEAN /\ scanned[s] \in Nat /\ scanned[s] <= reqSeq
  /\ own[s] \subseteq Positions(s) /\ flushed[s] \subseteq Positions(s)
  /\ stripped[s] \subseteq Positions(s) /\ undelivered[s] \subseteq Positions(s)
  /\ log[s].text \in Seq(Positions(s))
  /\ \A c \in Clients : got[c][s] \in Seq(Positions(s))

WatchOK(w, s) ==
  /\ watch[w][s].on \in BOOLEAN /\ watch[w][s].hold \in Seq(Positions(s))
  /\ ~watch[w][s].on => watch[w][s].hold = <<>>
  /\ seen[w][s] \in Seq(Positions(s))

Domains ==
  /\ DOMAIN printed = Streams /\ DOMAIN taken = Streams /\ DOMAIN ppc = Streams
  /\ DOMAIN buf = Streams /\ DOMAIN found = Streams /\ DOMAIN hold = Streams
  /\ DOMAIN scanned = Streams /\ DOMAIN own = Streams /\ DOMAIN flushed = Streams
  /\ DOMAIN stripped = Streams /\ DOMAIN undelivered = Streams
  /\ DOMAIN log = Streams /\ DOMAIN ended = Streams
  /\ DOMAIN got = Clients /\ \A c \in Clients : DOMAIN got[c] = Streams
  /\ DOMAIN watch = {"ready", "warmup"} /\ DOMAIN seen = {"ready", "warmup"}
  /\ \A w \in {"ready", "warmup"} : DOMAIN watch[w] = Streams /\ DOMAIN seen[w] = Streams

Shapes ==
  /\ Domains
  /\ CoreTypeOK /\ bound \in Scenarios
  /\ reqSeq \in Nat /\ requests \in Nat /\ reqSeq <= requests /\ requests <= bound.inputs
  /\ sink \in Clients \cup {None} /\ dropped \subseteq Clients
  /\ warmupSent \in BOOLEAN /\ alive \in BOOLEAN /\ fedBy \in Clients \cup {"boot"}
  /\ cpc \in [Clients -> {"none", "in", "forward", "done"}]
  /\ peer \in [Clients -> {"away", "open", "left"}]
  /\ \A s \in Streams : StreamOK(s)
  /\ \A s \in Streams : \A w \in {"ready", "warmup"} : WatchOK(w, s)

\* Each symbol that was read is in one place.
In(seq, i) == \E k \in DOMAIN seq : seq[k] = i
Sent(s, i) == \E c \in Clients : In(got[c][s], i)
Placed(s) ==
  \A i \in Positions(s) :
    /\ \/ In(buf[s], i) \/ In(hold[s], i) \/ Sent(s, i)
       \/ i \in own[s] \/ i \in stripped[s] \/ i \in undelivered[s]
    /\ In(buf[s], i) => ~(In(hold[s], i) \/ Sent(s, i) \/ i \in own[s] \/ i \in stripped[s]
                                         \/ i \in undelivered[s])
    /\ In(hold[s], i) => ~(Sent(s, i) \/ i \in own[s] \/ i \in stripped[s] \/ i \in undelivered[s])
    /\ Sent(s, i) => ~(i \in own[s] \/ i \in stripped[s] \/ i \in undelivered[s])
    /\ i \in own[s] => ~(i \in stripped[s] \/ i \in undelivered[s])
    /\ ~(i \in stripped[s] /\ i \in undelivered[s])
    /\ \A c, d \in Clients : In(got[c][s], i) /\ In(got[d][s], i) => c = d

\* The symbols a pump has before it come after those it has sent; so do the ones it
\* holds back as long as the scanner will still look at them.
Before(p, q) == \A j \in DOMAIN p, k \in DOMAIN q : p[j] < q[k]
Live(s) == scanned[s] = reqSeq /\ (phase \in {"Busy", "Draining"} \/ ppc[s] \in {"scan", "route"})
InOrder(s) ==
  /\ Increasing(buf[s]) /\ Increasing(hold[s])
  /\ \A c \in Clients : Increasing(got[c][s]) /\ Before(got[c][s], buf[s])
  /\ Live(s) => \A c \in Clients : Before(got[c][s], hold[s])
  /\ ppc[s] \in {"ready", "warmup", "scan", "tail"} => Before(hold[s], buf[s])
  /\ ppc[s] = "route" => Before(buf[s], hold[s])
  /\ ppc[s] = "tail" => ~Live(s)

\* A response scanner stands where it would after its whole text at once.
Scans(s) ==
  Separate(EndMarkers[s]) /\ ppc[s] # "done" =>
    LET r == Scan(EndMarkers[s], s \in Strip, Text(s, log[s].text))
        n == Len(log[s].text)
    IN /\ log[s].out = {log[s].text[k] : k \in r.emit}
       /\ log[s].found = r.found
       /\ hold[s] = SubSeq(log[s].text, n - r.hold + 1, n)

\* A ready or warmup scanner that is on has found nothing in what it was fed, and
\* holds back the end of it; one that is off has done its work.
Unmatched(markers, text) ==
  \A k \in DOMAIN markers : Occurrences(markers[k], text, 1) = {}
Watches(w, s) ==
  LET text == Text(s, seen[w][s])
      n    == Len(seen[w][s])
      m    == Watched[w][s]
  IN /\ watch[w][s].on =>
          /\ m # <<>> /\ Unmatched(m, text)
          /\ watch[w][s].hold = SubSeq(seen[w][s], n - Overlap(m, text) + 1, n)
     /\ ~watch[w][s].on /\ m # <<>> =>
          phase \notin IF w = "ready" THEN {"Booting"} ELSE {"Booting", "Warmup"}
Watching ==
  /\ \A s \in Streams : \A w \in {"ready", "warmup"} : Watches(w, s)
  /\ \A s \in Streams : ppc[s] = "warmup" => phase # "Booting"
  /\ bound.first = "Booting" /\ phase \notin {"Booting", "Stopped"} => Occurred("ready")
  /\ bound.first # "Idle" /\ phase \in {"Idle", "Busy", "Draining"} => Occurred("warmup")

\* As long as no sink was dropped, the attached client is the one that is connected,
\* and once it has asked, output is forwarded.
Printing(c) == fedBy = c \/ \E s \in Streams : \E i \in DOMAIN printed[s] : printed[s][i].for = c
Attached ==
  /\ \A c \in Clients : /\ cpc[c] = "none" <=> peer[c] = "away"
                        /\ peer[c] = "open" => cpc[c] \in {"in", "forward"}
                        /\ Printing(c) => peer[c] # "away"
  /\ phase = "Busy" => serving
  /\ dropped = {} =>
       /\ \A c \in Clients : cpc[c] \in {"in", "forward"} <=> sink = c
       /\ sink # None => phase # "Draining"
       /\ phase # "Stopped" =>
            \A c \in Clients : peer[c] = "open" /\ (Printing(c) \/ cpc[c] = "forward")
                                 => phase = "Busy" \/ (phase = "Idle" /\ serving)
LeftBehind(s, i) == printed[s][i].for \in Clients => peer[printed[s][i].for] = "left"
Forwarded(s) ==
  dropped = {} /\ phase # "Stopped" =>
    /\ \A i \in own[s] \ flushed[s] : LeftBehind(s, i)
    /\ ppc[s] \in {"ready", "warmup"} => \A i \in Positions(s) : In(buf[s], i) => LeftBehind(s, i)

\* The request a pump has found an end of is the present one, or has been ended by
\* another pump.
EndedElsewhere(s, n) == \E t \in Streams \ {s} : n \in ended[t]
Ends(s) ==
  /\ ppc[s] = "scan" /\ phase \notin {"Busy", "Draining", "Stopped"}
       => EndedElsewhere(s, reqSeq)
  /\ ppc[s] \in {"route", "end"}
       /\ (scanned[s] # reqSeq \/ phase \notin {"Busy", "Draining", "Stopped"})
       => EndedElsewhere(s, scanned[s])

DInv ==
  /\ Shapes /\ Attached /\ Watching
  /\ \A s \in Streams : Placed(s) /\ InOrder(s) /\ Scans(s) /\ Forwarded(s) /\ Ends(s)

-----------------------------------------------------------------------------
(* Positions and the symbols at them.                                      *)

LEMMA MarkersListed ==
  ASSUME NEW s \in Streams
  PROVE  /\ EndMarkers[s] \in MarkerLists(Symbols[s])
         /\ Watched["ready"][s] \in MarkerLists(Symbols[s])
         /\ Watched["warmup"][s] \in MarkerLists(Symbols[s])
BY DeliveryOptions DEF MarkerLists, Watched

LEMMA WatchedNames == DOMAIN Watched = {"ready", "warmup"}
BY DEF Watched

\* The text at some positions of what was printed.
LEMMA TextIs ==
  ASSUME NEW s \in Streams, StreamOK(s), NEW at \in Seq(Positions(s))
  PROVE  /\ Len(at) \in Nat /\ DOMAIN at = 1..Len(at)
         /\ \A k \in 1..Len(at) : at[k] \in Positions(s)
         /\ Text(s, at) \in Seq(Symbols[s]) /\ Len(Text(s, at)) = Len(at)
         /\ \A k \in 1..Len(at) : Text(s, at)[k] = printed[s][at[k]].sym
<1>1. Len(at) \in Nat /\ DOMAIN at = 1..Len(at) /\ \A k \in 1..Len(at) : at[k] \in Positions(s)
  BY LenProperties, ElementOfSeq
<1>2. /\ printed[s] \in Printed(s) /\ taken[s] \in Nat /\ taken[s] <= Len(printed[s])
  BY DEF StreamOK
<1>3. \A i \in Positions(s) : printed[s][i] \in [sym : Symbols[s], for : Clients \cup {"boot"}]
  <2>1. Len(printed[s]) \in Nat
    BY <1>2, LenProperties DEF Printed
  <2>2. \A i \in Positions(s) : i \in 1..Len(printed[s])
    BY <1>2, <2>1 DEF Positions
  <2> QED
    BY <1>2, <2>2, ElementOfSeq DEF Printed
<1>4. \A k \in 1..Len(at) : printed[s][at[k]].sym \in Symbols[s]
  BY <1>1, <1>3
<1> DEFINE f == [k \in 1..Len(at) |-> printed[s][at[k]].sym]
<1>5. Text(s, at) = f
  BY <1>1 DEF Text
<1>6. f \in [1..Len(at) -> Symbols[s]]
  BY <1>4
<1>7. f \in Seq(Symbols[s]) /\ Len(f) = Len(at)
  <2> HIDE DEF f
  <2> QED
    BY <1>1, <1>6
<1> QED
  BY <1>1, <1>5, <1>7
-----------------------------------------------------------------------------
(* What a step leaves alone.                                               *)

\* A stream may grow: what was printed stays printed.
Grown(s) ==
  /\ printed'[s] \in Printed(s) /\ Len(printed[s]) <= Len(printed'[s])
  /\ \A i \in 1..Len(printed[s]) : printed'[s][i] = printed[s][i]

\* Nothing else of this stream changes.
Same(s) ==
  /\ Grown(s)
  /\ taken'[s] = taken[s] /\ ppc'[s] = ppc[s] /\ buf'[s] = buf[s] /\ hold'[s] = hold[s]
  /\ found'[s] = found[s] /\ scanned'[s] = scanned[s] /\ log'[s] = log[s]
  /\ own'[s] = own[s] /\ flushed'[s] = flushed[s] /\ stripped'[s] = stripped[s]
  /\ undelivered'[s] = undelivered[s] /\ ended'[s] = ended[s]
  /\ \A c \in Clients : got'[c][s] = got[c][s]
  /\ \A w \in {"ready", "warmup"} : watch'[w][s] = watch[w][s] /\ seen'[w][s] = seen[w][s]

LEMMA PrintedSame ==
  ASSUME Shapes, NEW s \in Streams, printed' = printed
  PROVE  Grown(s)
<1>1. printed[s] \in Printed(s)
  BY DEF Shapes, StreamOK
<1>2. Len(printed[s]) \in Nat
  BY <1>1, LenProperties DEF Printed
<1> QED
  BY <1>1, <1>2 DEF Grown

LEMMA ReadChunkIs ==
  ASSUME Shapes, NEW s \in Streams, NEW n \in 1..(Len(printed[s]) - taken[s]), ReadChunk(s, n)
  PROVE  /\ Domains' /\ Grown(s) /\ \A t \in Streams \ {s} : Same(t)
         /\ ppc[s] = "read" /\ taken'[s] = taken[s] + n
         /\ ppc'[s] = CASE phase = "Booting"              -> "ready"
                        [] phase = "Warmup"               -> "warmup"
                        [] phase \in {"Busy", "Draining"} -> "scan"
                        [] phase = "Idle" /\ serving      -> "tail"
                        [] OTHER                          -> "read"
         /\ LET chunk == [k \in 1..n |-> taken[s] + k] IN
            \/ ppc'[s] = "read" /\ buf'[s] = <<>> /\ own'[s] = own[s] \cup Elements(chunk)
            \/ ppc'[s] # "read" /\ buf'[s] = chunk /\ own'[s] = own[s]
         /\ hold'[s] = hold[s] /\ found'[s] = found[s] /\ scanned'[s] = scanned[s]
         /\ log'[s] = log[s] /\ flushed'[s] = flushed[s] /\ stripped'[s] = stripped[s]
         /\ undelivered'[s] = undelivered[s] /\ ended'[s] = ended[s]
         /\ \A c \in Clients : got'[c][s] = got[c][s]
         /\ watch' = watch /\ seen' = seen
         /\ UNCHANGED <<core, reqSeq, warmupSent, sink, dropped, peers, alive, bound, printed>>
<1>1. Domains /\ \A t \in Streams : Grown(t)
  BY PrintedSame DEF Shapes, ReadChunk, process
<1>2. /\ UNCHANGED <<core, reqSeq, warmupSent, sink, dropped, peers, alive, printed, bound,
                     found, hold, scanned, stripped, log, watch, got, flushed, undelivered,
                     seen, ended>>
  BY DEF ReadChunk, control, peers, process, scanner
<1> DEFINE do == CASE phase = "Booting"              -> "ready"
                   [] phase = "Warmup"               -> "warmup"
                   [] phase \in {"Busy", "Draining"} -> "scan"
                   [] phase = "Idle" /\ serving      -> "tail"
                   [] OTHER                          -> "read"
           chunk == [k \in 1..n |-> taken[s] + k]
<1>3. /\ ppc[s] = "read"
      /\ taken' = [taken EXCEPT ![s] = taken[s] + n] /\ ppc' = [ppc EXCEPT ![s] = do]
      /\ buf' = [buf EXCEPT ![s] = IF do = "read" THEN <<>> ELSE chunk]
      /\ own' = [own EXCEPT ![s] = IF do = "read" THEN own[s] \cup Elements(chunk) ELSE own[s]]
  BY DEF ReadChunk, PumpGoto
<1> HIDE DEF do, chunk
<1>4. /\ taken'[s] = taken[s] + n /\ ppc'[s] = do
      /\ buf'[s] = (IF do = "read" THEN <<>> ELSE chunk)
      /\ own'[s] = (IF do = "read" THEN own[s] \cup Elements(chunk) ELSE own[s])
      /\ DOMAIN taken' = Streams /\ DOMAIN ppc' = Streams /\ DOMAIN buf' = Streams
      /\ DOMAIN own' = Streams
      /\ \A t \in Streams \ {s} : /\ taken'[t] = taken[t] /\ ppc'[t] = ppc[t]
                                  /\ buf'[t] = buf[t] /\ own'[t] = own[t]
  BY <1>1, <1>3 DEF Domains
<1>5. Domains'
  BY <1>1, <1>2, <1>4 DEF Domains
<1>6. \A t \in Streams \ {s} : Same(t)
  BY <1>1, <1>2, <1>4 DEF Same
<1> QED
  BY <1>1, <1>2, <1>3, <1>4, <1>5, <1>6 DEF do, chunk
\* The scanner w of stream s is fed the chunk in the pump's hands; if it is done, the
\* phase moves on.
Fed(s, w) ==
  LET text == watch[w][s].hold \o buf[s]
      r    == Once(Watched[w][s], FALSE, Text(s, text))
  IN /\ watch[w][s].on
     /\ seen'[w][s] = seen[w][s] \o buf[s]
     /\ watch'[w][s] = [on |-> ~r.done, hold |-> SubSeq(text, Len(text) - r.hold + 1, Len(text))]
     /\ served' = served /\ serving' = serving
     /\ phase' = IF ~r.done THEN phase
                 ELSE IF w = "ready" THEN (IF phase = "Booting" THEN "Warmup" ELSE phase)
                      ELSE IF phase = "Warmup" THEN "Idle" ELSE phase

\* The chunk is kept from the client.
KeptBack(s, w) ==
  /\ Domains' /\ Grown(s) /\ \A t \in Streams \ {s} : Same(t)
  /\ ppc[s] = w /\ ppc'[s] = "read" /\ buf'[s] = <<>> /\ own'[s] = own[s] \cup Elements(buf[s])
  /\ taken'[s] = taken[s] /\ hold'[s] = hold[s] /\ found'[s] = found[s]
  /\ scanned'[s] = scanned[s] /\ log'[s] = log[s] /\ flushed'[s] = flushed[s]
  /\ stripped'[s] = stripped[s] /\ undelivered'[s] = undelivered[s] /\ ended'[s] = ended[s]
  /\ \A c \in Clients : got'[c][s] = got[c][s]
  /\ UNCHANGED <<reqSeq, warmupSent, sink, dropped, peers, alive, bound, printed>>

LEMMA DetectReadyIs ==
  ASSUME Shapes, NEW s \in Streams, DetectReady(s)
  PROVE  /\ KeptBack(s, "ready")
         /\ watch'["warmup"][s] = watch["warmup"][s] /\ seen'["warmup"][s] = seen["warmup"][s]
         /\ \/ phase = "Booting" /\ Fed(s, "ready")
            \/ /\ watch'["ready"][s] = [on |-> FALSE, hold |-> <<>>]
               /\ watch["ready"][s].on => phase # "Booting"
               /\ seen'["ready"][s] = seen["ready"][s] /\ UNCHANGED core
<1>1. Domains /\ \A t \in Streams : Grown(t)
  BY PrintedSame DEF Shapes, DetectReady, process
<1>2. /\ UNCHANGED <<reqSeq, warmupSent, sink, dropped, peers, alive, printed, bound, taken,
                     found, hold, scanned, stripped, log, got, flushed, undelivered, ended>>
      /\ ppc[s] = "ready"
      /\ own' = [own EXCEPT ![s] = own[s] \cup Elements(buf[s])]
      /\ buf' = [buf EXCEPT ![s] = <<>>] /\ ppc' = [ppc EXCEPT ![s] = "read"]
  BY <1>1 DEF DetectReady, peers, process, scanner, Withhold, Keep, PumpGoto, Domains
<1> DEFINE text == watch["ready"][s].hold \o buf[s]
           r    == Once(Watched["ready"][s], FALSE, Text(s, text))
           new  == [on |-> ~r.done, hold |-> SubSeq(text, Len(text) - r.hold + 1, Len(text))]
           off  == [on |-> FALSE, hold |-> <<>>]
<1>3. \/ /\ watch["ready"][s].on /\ phase = "Booting"
         /\ seen' = [seen EXCEPT !["ready"][s] = seen["ready"][s] \o buf[s]]
         /\ watch' = [watch EXCEPT !["ready"][s] = new]
         /\ IF r.done THEN Ready ELSE UNCHANGED core
      \/ /\ ~(watch["ready"][s].on /\ phase = "Booting")
         /\ watch' = [watch EXCEPT !["ready"][s] = off]
         /\ UNCHANGED core /\ seen' = seen
  BY <1>1 DEF DetectReady, Observe, Domains, core
<1> HIDE DEF text, r, new, off
<1>4. /\ \/ /\ watch["ready"][s].on /\ phase = "Booting"
            /\ seen'["ready"][s] = seen["ready"][s] \o buf[s] /\ watch'["ready"][s] = new
            /\ IF r.done THEN Ready ELSE UNCHANGED core
         \/ /\ ~(watch["ready"][s].on /\ phase = "Booting")
            /\ watch'["ready"][s] = off /\ UNCHANGED core /\ seen'["ready"][s] = seen["ready"][s]
      /\ DOMAIN watch' = {"ready", "warmup"} /\ DOMAIN seen' = {"ready", "warmup"}
      /\ \A w \in {"ready", "warmup"} : DOMAIN watch'[w] = Streams /\ DOMAIN seen'[w] = Streams
      /\ \A t \in Streams \ {s} : \A w \in {"ready", "warmup"} :
           watch'[w][t] = watch[w][t] /\ seen'[w][t] = seen[w][t]
      /\ watch'["warmup"][s] = watch["warmup"][s] /\ seen'["warmup"][s] = seen["warmup"][s]
  BY <1>1, <1>3 DEF Domains
<1>5. Domains'
  BY <1>1, <1>2, <1>4 DEF Domains
<1>6. \A t \in Streams \ {s} : Same(t)
  BY <1>1, <1>2, <1>4 DEF Same, Domains
<1>7. KeptBack(s, "ready")
  BY <1>1, <1>2, <1>5, <1>6 DEF KeptBack, Domains
<1>8. ASSUME watch["ready"][s].on, phase = "Booting", IF r.done THEN Ready ELSE UNCHANGED core
      PROVE  /\ served' = served /\ serving' = serving
             /\ phase' = IF ~r.done THEN phase ELSE IF phase = "Booting" THEN "Warmup" ELSE phase
  BY <1>8, DeliveryOptions DEF Ready, core
<1> QED
  BY <1>4, <1>7, <1>8 DEF Fed, text, r, new, off

LEMMA DetectWarmupIs ==
  ASSUME Shapes, NEW s \in Streams, DetectWarmup(s)
  PROVE  /\ KeptBack(s, "warmup")
         /\ watch'["ready"][s] = watch["ready"][s] /\ seen'["ready"][s] = seen["ready"][s]
         /\ \/ Fed(s, "warmup")
            \/ UNCHANGED core /\ watch'["warmup"][s] = watch["warmup"][s]
               /\ seen'["warmup"][s] = seen["warmup"][s]
<1>1. Domains /\ \A t \in Streams : Grown(t)
  BY PrintedSame DEF Shapes, DetectWarmup, process
<1>2. /\ UNCHANGED <<reqSeq, warmupSent, sink, dropped, peers, alive, printed, bound, taken,
                     found, hold, scanned, stripped, log, got, flushed, undelivered, ended>>
      /\ ppc[s] = "warmup"
      /\ own' = [own EXCEPT ![s] = own[s] \cup Elements(buf[s])]
      /\ buf' = [buf EXCEPT ![s] = <<>>] /\ ppc' = [ppc EXCEPT ![s] = "read"]
  BY <1>1 DEF DetectWarmup, peers, process, scanner, Withhold, Keep, PumpGoto, Domains
<1> DEFINE text == watch["warmup"][s].hold \o buf[s]
           r    == Once(Watched["warmup"][s], FALSE, Text(s, text))
           new  == [on |-> ~r.done, hold |-> SubSeq(text, Len(text) - r.hold + 1, Len(text))]
<1>3. \/ /\ watch["warmup"][s].on
         /\ seen' = [seen EXCEPT !["warmup"][s] = seen["warmup"][s] \o buf[s]]
         /\ watch' = [watch EXCEPT !["warmup"][s] = new]
         /\ IF r.done THEN WarmupDone ELSE UNCHANGED core
      \/ UNCHANGED core /\ watch' = watch /\ seen' = seen
  BY <1>1 DEF DetectWarmup, Observe, Domains, core
<1> HIDE DEF text, r, new
<1>4. /\ \/ /\ watch["warmup"][s].on
            /\ seen'["warmup"][s] = seen["warmup"][s] \o buf[s] /\ watch'["warmup"][s] = new
            /\ IF r.done THEN WarmupDone ELSE UNCHANGED core
         \/ /\ watch'["warmup"][s] = watch["warmup"][s] /\ UNCHANGED core
            /\ seen'["warmup"][s] = seen["warmup"][s]
      /\ DOMAIN watch' = {"ready", "warmup"} /\ DOMAIN seen' = {"ready", "warmup"}
      /\ \A w \in {"ready", "warmup"} : DOMAIN watch'[w] = Streams /\ DOMAIN seen'[w] = Streams
      /\ \A t \in Streams \ {s} : \A w \in {"ready", "warmup"} :
           watch'[w][t] = watch[w][t] /\ seen'[w][t] = seen[w][t]
      /\ watch'["ready"][s] = watch["ready"][s] /\ seen'["ready"][s] = seen["ready"][s]
  <2>1. CASE UNCHANGED core /\ watch' = watch /\ seen' = seen
    BY <1>1, <2>1 DEF Domains
  <2>2. CASE /\ watch["warmup"][s].on
             /\ seen' = [seen EXCEPT !["warmup"][s] = seen["warmup"][s] \o buf[s]]
             /\ watch' = [watch EXCEPT !["warmup"][s] = new]
             /\ IF r.done THEN WarmupDone ELSE UNCHANGED core
    BY <1>1, <2>2 DEF Domains
  <2> QED
    BY <1>3, <2>1, <2>2
<1>5. Domains'
  BY <1>1, <1>2, <1>4 DEF Domains
<1>6. \A t \in Streams \ {s} : Same(t)
  BY <1>1, <1>2, <1>4 DEF Same, Domains
<1>7. KeptBack(s, "warmup")
  BY <1>1, <1>2, <1>5, <1>6 DEF KeptBack, Domains
<1>8. ASSUME IF r.done THEN WarmupDone ELSE UNCHANGED core
      PROVE  /\ served' = served /\ serving' = serving
             /\ phase' = IF ~r.done THEN phase ELSE IF phase = "Warmup" THEN "Idle" ELSE phase
  BY <1>8 DEF WarmupDone, core
<1> QED
  BY <1>4, <1>7, <1>8 DEF Fed, text, r, new
\* What a response scanner that holds back `held` and has the log `past` makes of the
\* chunk.
Responded(s, held, past) ==
  LET text == held \o buf[s]
      r    == Scan(EndMarkers[s], s \in Strip, Text(s, text))
      out  == {text[k] : k \in r.emit}
  IN /\ buf'[s] = Extract(text, r.emit)
     /\ hold'[s] = SubSeq(text, Len(text) - r.hold + 1, Len(text))
     /\ stripped'[s] = stripped[s] \cup {text[k] : k \in r.strip}
     /\ found'[s] = (r.found > 0)
     /\ log'[s] = [text |-> past.text \o buf[s], out |-> past.out \cup out,
                   found |-> past.found + r.found]

\* The step changes nothing but the stream's pump and where its symbols are.
PumpOnly == UNCHANGED <<core, reqSeq, warmupSent, peers, alive, bound, printed>>

LEMMA ScanResponseIs ==
  ASSUME Shapes, NEW s \in Streams, ScanResponse(s)
  PROVE  /\ Domains' /\ Grown(s) /\ \A t \in Streams \ {s} : Same(t)
         /\ PumpOnly /\ UNCHANGED <<sink, dropped, watch, seen>>
         /\ ppc[s] = "scan" /\ ppc'[s] = "route" /\ scanned'[s] = reqSeq
         /\ \/ /\ reqSeq # scanned[s] /\ Responded(s, <<>>, Fresh)
               /\ own'[s] = own[s] \cup Elements(hold[s])
               /\ flushed'[s] = flushed[s] \cup Elements(hold[s])
            \/ /\ reqSeq = scanned[s] /\ Responded(s, hold[s], log[s])
               /\ own'[s] = own[s] /\ flushed'[s] = flushed[s]
         /\ taken'[s] = taken[s] /\ undelivered'[s] = undelivered[s] /\ ended'[s] = ended[s]
         /\ \A c \in Clients : got'[c][s] = got[c][s]
<1>1. Domains /\ \A t \in Streams : Grown(t)
  BY PrintedSame DEF Shapes, ScanResponse, process
<1>2. /\ UNCHANGED <<core, reqSeq, warmupSent, sink, dropped, peers, alive, printed, bound,
                     taken, watch, got, undelivered, seen, ended>>
      /\ ppc[s] = "scan" /\ ppc' = [ppc EXCEPT ![s] = "route"]
      /\ scanned' = [scanned EXCEPT ![s] = reqSeq]
  BY DEF ScanResponse, control, peers, process, PumpGoto
<1>3. /\ ppc'[s] = "route" /\ scanned'[s] = reqSeq
      /\ DOMAIN ppc' = Streams /\ DOMAIN scanned' = Streams
      /\ \A t \in Streams \ {s} : ppc'[t] = ppc[t] /\ scanned'[t] = scanned[t]
  BY <1>1, <1>2 DEF Domains
<1>4. ASSUME NEW held, NEW past, Respond(s, held, past)
      PROVE  /\ Responded(s, held, past)
             /\ DOMAIN buf' = Streams /\ DOMAIN hold' = Streams /\ DOMAIN stripped' = Streams
             /\ DOMAIN found' = Streams /\ DOMAIN log' = Streams
             /\ \A t \in Streams \ {s} :
                  /\ buf'[t] = buf[t] /\ hold'[t] = hold[t] /\ stripped'[t] = stripped[t]
                  /\ found'[t] = found[t] /\ log'[t] = log[t]
  <2> DEFINE text == held \o buf[s]
             r    == Scan(EndMarkers[s], s \in Strip, Text(s, text))
             out  == {text[k] : k \in r.emit}
             b    == Extract(text, r.emit)
             h    == SubSeq(text, Len(text) - r.hold + 1, Len(text))
             st   == stripped[s] \cup {text[k] : k \in r.strip}
             f    == r.found > 0
             l    == [text |-> past.text \o buf[s], out |-> past.out \cup out,
                      found |-> past.found + r.found]
  <2>1. /\ buf' = [buf EXCEPT ![s] = b] /\ hold' = [hold EXCEPT ![s] = h]
        /\ stripped' = [stripped EXCEPT ![s] = st] /\ found' = [found EXCEPT ![s] = f]
        /\ log' = [log EXCEPT ![s] = l]
    BY <1>4 DEF Respond
  <2>2. buf'[s] = b /\ hold'[s] = h /\ stripped'[s] = st /\ log'[s] = l /\ found'[s] = f
          => Responded(s, held, past)
    BY DEF Responded
  <2> HIDE DEF b, h, st, f, l
  <2>3. /\ buf'[s] = b /\ hold'[s] = h /\ stripped'[s] = st /\ log'[s] = l /\ found'[s] = f
        /\ DOMAIN buf' = Streams /\ DOMAIN hold' = Streams /\ DOMAIN stripped' = Streams
        /\ DOMAIN found' = Streams /\ DOMAIN log' = Streams
        /\ \A t \in Streams \ {s} :
             /\ buf'[t] = buf[t] /\ hold'[t] = hold[t] /\ stripped'[t] = stripped[t]
             /\ found'[t] = found[t] /\ log'[t] = log[t]
    BY <1>1, <2>1 DEF Domains
  <2> QED
    BY <2>2, <2>3
<1> DEFINE new == /\ reqSeq # scanned[s] /\ Responded(s, <<>>, Fresh)
                  /\ own'[s] = own[s] \cup Elements(hold[s])
                  /\ flushed'[s] = flushed[s] \cup Elements(hold[s])
           old == /\ reqSeq = scanned[s] /\ Responded(s, hold[s], log[s])
                  /\ own'[s] = own[s] /\ flushed'[s] = flushed[s]
<1>5. /\ new \/ old
      /\ DOMAIN buf' = Streams /\ DOMAIN hold' = Streams /\ DOMAIN stripped' = Streams
      /\ DOMAIN found' = Streams /\ DOMAIN log' = Streams
      /\ DOMAIN own' = Streams /\ DOMAIN flushed' = Streams
      /\ \A t \in Streams \ {s} :
           /\ buf'[t] = buf[t] /\ hold'[t] = hold[t] /\ stripped'[t] = stripped[t]
           /\ found'[t] = found[t] /\ log'[t] = log[t]
           /\ own'[t] = own[t] /\ flushed'[t] = flushed[t]
  <2>1. CASE reqSeq # scanned[s]
    <3>1. Respond(s, <<>>, Fresh) /\ Flush(s)
      BY <2>1 DEF ScanResponse
    <3> DEFINE e == Elements(hold[s])
    <3>2. /\ own' = [own EXCEPT ![s] = own[s] \cup e]
          /\ flushed' = [flushed EXCEPT ![s] = flushed[s] \cup e]
      BY <1>1, <3>1 DEF Flush, Keep, Domains
    <3> HIDE DEF e
    <3>3. /\ own'[s] = own[s] \cup e /\ flushed'[s] = flushed[s] \cup e
          /\ DOMAIN own' = Streams /\ DOMAIN flushed' = Streams
          /\ \A t \in Streams \ {s} : own'[t] = own[t] /\ flushed'[t] = flushed[t]
      BY <1>1, <3>2 DEF Domains
    <3>4. new
      BY <1>4, <2>1, <3>1, <3>3 DEF e
    <3> HIDE DEF new, old
    <3> QED
      BY <1>4, <3>1, <3>3, <3>4
  <2>2. CASE reqSeq = scanned[s]
    <3>1. Respond(s, hold[s], log[s]) /\ UNCHANGED <<own, flushed>>
      BY <2>2 DEF ScanResponse
    <3>2. old
      BY <1>4, <2>2, <3>1
    <3> HIDE DEF new, old
    <3> QED
      BY <1>1, <1>4, <3>1, <3>2 DEF Domains
  <2> QED
    BY <2>1, <2>2
<1> HIDE DEF new, old
<1>6. Domains'
  BY <1>1, <1>2, <1>3, <1>5 DEF Domains
<1>7. \A t \in Streams \ {s} : Same(t)
  BY <1>1, <1>2, <1>3, <1>5 DEF Same
<1> QED
  BY <1>1, <1>2, <1>3, <1>5, <1>6, <1>7 DEF PumpOnly, new, old

LEMMA EndOfStreamIs ==
  ASSUME Shapes, NEW s \in Streams, EndOfStream(s)
  PROVE  /\ Domains' /\ Grown(s) /\ \A t \in Streams \ {s} : Same(t)
         /\ PumpOnly /\ UNCHANGED <<sink, dropped, watch, seen>>
         /\ ppc[s] = "read" /\ ppc'[s] = "done" /\ hold'[s] = <<>>
         /\ own'[s] = own[s] \cup Elements(hold[s])
         /\ flushed'[s] = flushed[s] \cup Elements(hold[s])
         /\ taken'[s] = taken[s] /\ buf'[s] = buf[s] /\ found'[s] = found[s]
         /\ scanned'[s] = scanned[s] /\ stripped'[s] = stripped[s] /\ log'[s] = log[s]
         /\ undelivered'[s] = undelivered[s] /\ ended'[s] = ended[s]
         /\ \A c \in Clients : got'[c][s] = got[c][s]
<1>1. Domains /\ \A t \in Streams : Grown(t)
  BY PrintedSame DEF Shapes, EndOfStream, process
<1>2. /\ UNCHANGED <<core, reqSeq, warmupSent, sink, dropped, peers, alive, printed, bound,
                     taken, buf, found, scanned, stripped, log, watch, got, undelivered,
                     seen, ended>>
      /\ ppc[s] = "read" /\ ppc' = [ppc EXCEPT ![s] = "done"] /\ hold' = [hold EXCEPT ![s] = <<>>]
  BY DEF EndOfStream, control, peers, process, PumpGoto
<1> DEFINE e == Elements(hold[s])
<1>3. /\ own' = [own EXCEPT ![s] = own[s] \cup e]
      /\ flushed' = [flushed EXCEPT ![s] = flushed[s] \cup e]
  BY <1>1 DEF EndOfStream, Flush, Keep, Domains
<1> HIDE DEF e
<1>4. /\ ppc'[s] = "done" /\ hold'[s] = <<>> /\ own'[s] = own[s] \cup e
      /\ flushed'[s] = flushed[s] \cup e
      /\ DOMAIN ppc' = Streams /\ DOMAIN hold' = Streams /\ DOMAIN own' = Streams
      /\ DOMAIN flushed' = Streams
      /\ \A t \in Streams \ {s} : /\ ppc'[t] = ppc[t] /\ hold'[t] = hold[t]
                                  /\ own'[t] = own[t] /\ flushed'[t] = flushed[t]
  BY <1>1, <1>2, <1>3 DEF Domains
<1>5. Domains'
  BY <1>1, <1>2, <1>4 DEF Domains
<1>6. \A t \in Streams \ {s} : Same(t)
  BY <1>1, <1>2, <1>4 DEF Same
<1> QED
  BY <1>1, <1>2, <1>4, <1>5, <1>6 DEF PumpOnly, e

LEMMA EndResponseIs ==
  ASSUME Shapes, NEW s \in Streams, EndResponse(s)
  PROVE  /\ Domains' /\ Grown(s) /\ \A t \in Streams \ {s} : /\ ended'[t] = ended[t] /\ Same(t)
         /\ UNCHANGED <<reqSeq, warmupSent, sink, dropped, peers, alive, bound, printed,
                        watch, seen, served, serving>>
         /\ phase' = IF phase \in {"Busy", "Draining"} THEN "Idle" ELSE phase
         /\ ppc[s] = "end" /\ ppc'[s] = "read"
         /\ ended'[s] = IF phase \in {"Busy", "Draining"} THEN ended[s] \cup {reqSeq} ELSE ended[s]
         /\ taken'[s] = taken[s] /\ buf'[s] = buf[s] /\ hold'[s] = hold[s]
         /\ found'[s] = found[s] /\ scanned'[s] = scanned[s] /\ stripped'[s] = stripped[s]
         /\ log'[s] = log[s] /\ own'[s] = own[s] /\ flushed'[s] = flushed[s]
         /\ undelivered'[s] = undelivered[s]
         /\ \A c \in Clients : got'[c][s] = got[c][s]
<1>1. Domains /\ \A t \in Streams : Grown(t)
  BY PrintedSame DEF Shapes, EndResponse, process
<1> DEFINE e == IF phase \in {"Busy", "Draining"} THEN ended[s] \cup {reqSeq} ELSE ended[s]
<1>2. /\ UNCHANGED <<reqSeq, warmupSent, sink, dropped, peers, alive, printed, bound, served,
                     serving, taken, buf, hold, found, scanned, stripped, log, watch, got, own,
                     flushed, undelivered, seen>>
      /\ ppc[s] = "end" /\ ppc' = [ppc EXCEPT ![s] = "read"] /\ ended' = [ended EXCEPT ![s] = e]
      /\ phase' = IF phase \in {"Busy", "Draining"} THEN "Idle" ELSE phase
  BY <1>1 DEF EndResponse, ResponseEnd, peers, process, scanner, places, PumpGoto, Domains
<1> HIDE DEF e
<1>3. /\ ppc'[s] = "read" /\ ended'[s] = e /\ DOMAIN ppc' = Streams /\ DOMAIN ended' = Streams
      /\ \A t \in Streams \ {s} : ppc'[t] = ppc[t] /\ ended'[t] = ended[t]
  BY <1>1, <1>2 DEF Domains
<1>4. Domains'
  BY <1>1, <1>2, <1>3 DEF Domains
<1>5. \A t \in Streams \ {s} : Same(t)
  BY <1>1, <1>2, <1>3 DEF Same
<1> QED
  BY <1>1, <1>2, <1>3, <1>4, <1>5 DEF e
LEMMA RouteIs ==
  ASSUME Shapes, NEW s \in Streams, Route(s)
  PROVE  /\ Domains' /\ Grown(s) /\ \A t \in Streams \ {s} : Same(t)
         /\ PumpOnly /\ UNCHANGED <<watch, seen>>
         /\ ppc[s] \in {"route", "tail"} /\ ppc'[s] \in {"read", "end"}
         /\ ppc'[s] = "end" => ppc[s] = "route"
         /\ buf'[s] = <<>>
         /\ \/ /\ sink = None \/ buf[s] = <<>>
               /\ own'[s] = own[s] \cup Elements(buf[s])
               /\ undelivered'[s] = undelivered[s] /\ UNCHANGED <<sink, dropped>>
               /\ \A c \in Clients : got'[c][s] = got[c][s]
            \/ /\ sink \in Clients /\ buf[s] # <<>>
               /\ got'[sink][s] = got[sink][s] \o buf[s]
               /\ \A c \in Clients \ {sink} : got'[c][s] = got[c][s]
               /\ own'[s] = own[s] /\ undelivered'[s] = undelivered[s]
               /\ UNCHANGED <<sink, dropped>>
            \/ /\ sink \in Clients /\ buf[s] # <<>>
               /\ undelivered'[s] = undelivered[s] \cup Elements(buf[s])
               /\ own'[s] = own[s] /\ \A c \in Clients : got'[c][s] = got[c][s]
               /\ \/ sink' = None /\ dropped' = dropped \cup {sink}
                  \/ UNCHANGED <<sink, dropped>>
         /\ taken'[s] = taken[s] /\ hold'[s] = hold[s] /\ found'[s] = found[s]
         /\ scanned'[s] = scanned[s] /\ stripped'[s] = stripped[s] /\ log'[s] = log[s]
         /\ flushed'[s] = flushed[s] /\ ended'[s] = ended[s]
<1>1. Domains /\ (\A t \in Streams : Grown(t)) /\ sink \in Clients \cup {None}
  BY PrintedSame DEF Shapes, Route, process
<1> DEFINE next == IF ppc[s] = "route" /\ found[s] THEN "end" ELSE "read"
           e    == Elements(buf[s])
           more == got[sink][s] \o buf[s]
<1>2. /\ UNCHANGED <<core, reqSeq, warmupSent, peers, alive, printed, bound, taken, found, hold,
                     scanned, stripped, log, watch, flushed, seen, ended>>
      /\ ppc[s] \in {"route", "tail"} /\ ppc' = [ppc EXCEPT ![s] = next]
      /\ buf' = [buf EXCEPT ![s] = <<>>]
  BY DEF Route, peers, process, scanner, PumpGoto
<1>3. \/ /\ sink = None \/ buf[s] = <<>>
         /\ own' = [own EXCEPT ![s] = own[s] \cup e]
         /\ UNCHANGED <<got, undelivered, sink, dropped>>
      \/ /\ sink # None /\ buf[s] # <<>>
         /\ got' = [got EXCEPT ![sink][s] = got[sink][s] \o buf[s]]
         /\ UNCHANGED <<own, undelivered, sink, dropped>>
      \/ /\ sink # None /\ buf[s] # <<>>
         /\ undelivered' = [undelivered EXCEPT ![s] = undelivered[s] \cup e]
         /\ \/ sink' = None /\ dropped' = dropped \cup {sink}
            \/ UNCHANGED <<sink, dropped>>
         /\ UNCHANGED <<got, own>>
  BY <1>1 DEF Route, Keep, Domains
<1> HIDE DEF next, e, more
<1>4. /\ ppc'[s] = next /\ buf'[s] = <<>> /\ DOMAIN ppc' = Streams /\ DOMAIN buf' = Streams
      /\ \A t \in Streams \ {s} : ppc'[t] = ppc[t] /\ buf'[t] = buf[t]
  BY <1>1, <1>2 DEF Domains
<1> DEFINE keep == /\ sink = None \/ buf[s] = <<>>
                   /\ own'[s] = own[s] \cup e /\ undelivered'[s] = undelivered[s]
                   /\ UNCHANGED <<sink, dropped>>
                   /\ \A c \in Clients : got'[c][s] = got[c][s]
           send == /\ sink \in Clients /\ buf[s] # <<>>
                   /\ got'[sink][s] = more
                   /\ \A c \in Clients \ {sink} : got'[c][s] = got[c][s]
                   /\ own'[s] = own[s] /\ undelivered'[s] = undelivered[s]
                   /\ UNCHANGED <<sink, dropped>>
           fail == /\ sink \in Clients /\ buf[s] # <<>>
                   /\ undelivered'[s] = undelivered[s] \cup e
                   /\ own'[s] = own[s] /\ \A c \in Clients : got'[c][s] = got[c][s]
                   /\ \/ sink' = None /\ dropped' = dropped \cup {sink}
                      \/ UNCHANGED <<sink, dropped>>
           rest == /\ DOMAIN own' = Streams /\ DOMAIN undelivered' = Streams
                   /\ DOMAIN got' = Clients /\ \A c \in Clients : DOMAIN got'[c] = Streams
                   /\ \A t \in Streams \ {s} :
                        /\ own'[t] = own[t] /\ undelivered'[t] = undelivered[t]
                        /\ \A c \in Clients : got'[c][t] = got[c][t]
<1>5. (keep \/ send \/ fail) /\ rest
  <2>1. CASE /\ sink = None \/ buf[s] = <<>>
             /\ own' = [own EXCEPT ![s] = own[s] \cup e]
             /\ UNCHANGED <<got, undelivered, sink, dropped>>
    <3>1. keep
      BY <1>1, <2>1 DEF Domains
    <3>2. rest
      BY <1>1, <2>1 DEF Domains
    <3> QED
      BY <3>1, <3>2
  <2>2. CASE /\ sink # None /\ buf[s] # <<>>
             /\ got' = [got EXCEPT ![sink][s] = got[sink][s] \o buf[s]]
             /\ UNCHANGED <<own, undelivered, sink, dropped>>
    <3>0. sink \in Clients /\ got' = [got EXCEPT ![sink][s] = more]
      BY <1>1, <2>2 DEF more
    <3>1. /\ got'[sink][s] = more /\ \A c \in Clients \ {sink} : got'[c] = got[c]
          /\ \A t \in Streams \ {s} : got'[sink][t] = got[sink][t]
          /\ DOMAIN got' = Clients /\ \A c \in Clients : DOMAIN got'[c] = Streams
      BY <1>1, <3>0 DEF Domains
    <3>2. send
      BY <2>2, <3>0, <3>1
    <3>3. rest
      BY <1>1, <2>2, <3>1 DEF Domains
    <3> QED
      BY <3>2, <3>3
  <2>3. CASE /\ sink # None /\ buf[s] # <<>>
             /\ undelivered' = [undelivered EXCEPT ![s] = undelivered[s] \cup e]
             /\ \/ sink' = None /\ dropped' = dropped \cup {sink}
                \/ UNCHANGED <<sink, dropped>>
             /\ UNCHANGED <<got, own>>
    <3>1. fail
      BY <1>1, <2>3 DEF Domains
    <3>2. rest
      BY <1>1, <2>3 DEF Domains
    <3> QED
      BY <3>1, <3>2
  <2> QED
    BY <1>3, <2>1, <2>2, <2>3
<1> HIDE DEF keep, send, fail
<1>6. Domains'
  BY <1>1, <1>2, <1>4, <1>5 DEF Domains
<1>7. \A t \in Streams \ {s} : Same(t)
  BY <1>1, <1>2, <1>4, <1>5 DEF Same
<1>8. ppc'[s] \in {"read", "end"} /\ (ppc'[s] = "end" => ppc[s] = "route")
  BY <1>4 DEF next
<1> HIDE DEF rest
<1> QED
  BY <1>1, <1>2, <1>4, <1>5, <1>6, <1>7, <1>8 DEF PumpOnly, keep, send, fail, e, more

\* Nothing else touches a pump; what the REPL prints is added at the end.
LEMMA AroundIs ==
  ASSUME Shapes, Around
  PROVE  Domains' /\ bound' = bound /\ watch' = watch /\ seen' = seen /\ \A t \in Streams : Same(t)
<1>1. Domains /\ (\A t \in Streams : printed' = printed => Grown(t)) /\ UNCHANGED flow
  BY PrintedSame DEF Shapes, Around, SendWarmup, StopServer, ReplDies, Accept, StartRequest, Forward, Leave,
     Gone, ReplPrints
<1>2. DOMAIN printed' = Streams /\ \A t \in Streams : Grown(t)
  <2>1. CASE printed' = printed
    BY <1>1, <2>1 DEF Domains
  <2>2. CASE \E s \in Streams : \E x \in Symbols[s] : ReplPrints(s, x)
    <3>0. PICK s \in Streams : \E x \in Symbols[s] : ReplPrints(s, x)
      BY <2>2
    <3>1. PICK x \in Symbols[s] : ReplPrints(s, x)
      BY <3>0
    <3> DEFINE r == [sym |-> x, for |-> fedBy]
    <3>2. /\ printed[s] \in Printed(s) /\ r \in [sym : Symbols[s], for : Clients \cup {"boot"}]
      BY DEF Shapes, StreamOK
    <3>3. printed' = [printed EXCEPT ![s] = Append(printed[s], r)]
      BY <3>1 DEF ReplPrints
    <3> HIDE DEF r
    <3>4. /\ Append(printed[s], r) \in Printed(s) /\ Len(printed[s]) \in Nat
          /\ Len(Append(printed[s], r)) = Len(printed[s]) + 1
          /\ \A i \in 1..Len(printed[s]) : Append(printed[s], r)[i] = printed[s][i]
      BY <3>2, AppendProperties, LenProperties DEF Printed
    <3> DEFINE p == Append(printed[s], r)
    <3> HIDE DEF p
    <3>5. printed'[s] = p /\ DOMAIN printed' = Streams /\ \A t \in Streams \ {s} : printed'[t] = printed[t]
      BY <1>1, <3>3 DEF Domains, p
    <3>6. Grown(s)
      BY <3>4, <3>5 DEF Grown, p
    <3>7. ASSUME NEW t \in Streams \ {s} PROVE Grown(t)
      <4>1. printed[t] \in Printed(t)
        BY DEF Shapes, StreamOK
      <4>2. Len(printed[t]) \in Nat
        BY <4>1, LenProperties DEF Printed
      <4> QED
        BY <3>5, <4>1, <4>2 DEF Grown
    <3> QED
      BY <3>5, <3>6, <3>7
  <2> QED
    BY <2>1, <2>2 DEF Around, SendWarmup, StopServer, ReplDies, Accept, StartRequest, Forward,
       Leave, Gone, process
<1>3. /\ UNCHANGED <<taken, ppc, buf, found, hold, scanned, stripped, log, watch, got, own,
                     flushed, undelivered, bound, seen, ended>>
  BY <1>1 DEF flow, scanner, places
<1> QED
  BY <1>1, <1>2, <1>3 DEF Domains, Same
-----------------------------------------------------------------------------
(* Streams a step leaves alone keep what is known of them.                 *)

LEMMA GrownText ==
  ASSUME NEW s \in Streams, StreamOK(s), Grown(s), NEW at \in Seq(Positions(s))
  PROVE  [k \in DOMAIN at |-> printed'[s][at[k]].sym] = Text(s, at)
<1>1. DOMAIN at = 1..Len(at) /\ \A k \in 1..Len(at) : at[k] \in Positions(s)
  BY LenProperties, ElementOfSeq
<1>2. Len(printed[s]) \in Nat /\ taken[s] \in Nat /\ taken[s] <= Len(printed[s])
  BY LenProperties DEF StreamOK, Printed
<1>3. \A i \in Positions(s) : printed'[s][i] = printed[s][i]
  BY <1>2 DEF Grown, Positions
<1> QED
  BY <1>1, <1>3 DEF Text

LEMMA SameOK ==
  ASSUME NEW t \in Streams, StreamOK(t), Same(t), reqSeq \in Nat, reqSeq' \in Nat, reqSeq <= reqSeq'
  PROVE  StreamOK(t)' /\ \A w \in {"ready", "warmup"} : WatchOK(w, t) => WatchOK(w, t)'
<1>1. Positions(t)' = Positions(t)
  BY DEF Same, Positions
<1>2. Printed(t)' = Printed(t)
  BY DEF Printed
<1>3. Len(printed[t]) \in Nat /\ Len(printed'[t]) \in Nat
  BY LenProperties DEF StreamOK, Same, Grown, Printed
<1>4. printed'[t] \in Printed(t) /\ taken'[t] <= Len(printed'[t])
  BY <1>3 DEF Same, Grown, StreamOK
<1>5. scanned'[t] <= reqSeq'
  BY DEF Same, StreamOK
<1>6. StreamOK(t)'
  BY <1>1, <1>2, <1>4, <1>5 DEF Same, StreamOK
<1>7. ASSUME NEW w \in {"ready", "warmup"}, WatchOK(w, t) PROVE WatchOK(w, t)'
  BY <1>1, <1>7 DEF Same, WatchOK
<1> QED
  BY <1>6, <1>7

LEMMA SamePlaced ==
  ASSUME NEW t \in Streams, Placed(t), Same(t)
  PROVE  Placed(t)'
<1>1. Positions(t)' = Positions(t)
  BY DEF Same, Positions
<1>2. \A i : Sent(t, i)' <=> Sent(t, i)
  BY DEF Same, Sent, In
<1>3. \A i : (In(buf[t], i)' <=> In(buf[t], i)) /\ (In(hold[t], i)' <=> In(hold[t], i))
  BY DEF Same, In
<1>4. \A c \in Clients : \A i : In(got[c][t], i)' <=> In(got[c][t], i)
  BY DEF Same, In
<1>5. own'[t] = own[t] /\ stripped'[t] = stripped[t] /\ undelivered'[t] = undelivered[t]
  BY DEF Same
<1> QED
  BY <1>1, <1>2, <1>3, <1>4, <1>5 DEF Placed

LEMMA SameScans ==
  ASSUME NEW t \in Streams, StreamOK(t), Scans(t), Same(t)
  PROVE  Scans(t)'
<1>1. Text(t, log[t].text)' = Text(t, log[t].text)
  <2>1. log[t].text \in Seq(Positions(t)) /\ log'[t] = log[t]
    BY DEF StreamOK, Same
  <2>2. Text(t, log[t].text)' = [k \in DOMAIN log[t].text |-> printed'[t][log[t].text[k]].sym]
    BY <2>1 DEF Text
  <2> QED
    BY <2>1, <2>2, GrownText DEF Same
<1> QED
  BY <1>1 DEF Same, Scans

\* How the phases and the request number move.
Answering == {"Busy", "Draining"}
Onward ==
  /\ phase' \in Phases /\ reqSeq' \in Nat /\ reqSeq <= reqSeq'
  /\ phase' \in Answering /\ phase \notin Answering => reqSeq < reqSeq'
  /\ phase' = "Booting" => phase = "Booting"
  /\ phase' = "Warmup" => phase \in {"Booting", "Warmup"}
  /\ phase = "Stopped" => phase' = "Stopped"
  /\ reqSeq' # reqSeq => phase = "Idle" /\ phase' = "Busy"

LEMMA SameInOrder ==
  ASSUME NEW t \in Streams, StreamOK(t), InOrder(t), Same(t), Onward, reqSeq \in Nat
  PROVE  InOrder(t)'
<1>1. Live(t)' => Live(t)
  <2> SUFFICES ASSUME Live(t)' PROVE Live(t)
    OBVIOUS
  <2>1. scanned[t] = reqSeq' /\ (phase' \in Answering \/ ppc[t] \in {"scan", "route"})
    BY DEF Live, Same, Answering
  <2>2. reqSeq' = reqSeq
    BY <2>1 DEF StreamOK, Onward
  <2> QED
    BY <2>1, <2>2 DEF Live, Onward, Answering
<1>2. /\ (\A c \in Clients : Increasing(got[c][t])' <=> Increasing(got[c][t]))
      /\ (\A c \in Clients : Before(got[c][t], buf[t])' <=> Before(got[c][t], buf[t]))
      /\ (\A c \in Clients : Before(got[c][t], hold[t])' <=> Before(got[c][t], hold[t]))
  BY DEF Same, Increasing, Before
<1>3. /\ Increasing(buf[t])' <=> Increasing(buf[t])
      /\ Increasing(hold[t])' <=> Increasing(hold[t])
      /\ Before(hold[t], buf[t])' <=> Before(hold[t], buf[t])
      /\ Before(buf[t], hold[t])' <=> Before(buf[t], hold[t])
      /\ ppc'[t] = ppc[t]
  BY DEF Same, Increasing, Before
<1> QED
  BY <1>1, <1>2, <1>3 DEF InOrder

LEMMA SameEnds ==
  ASSUME NEW t \in Streams, StreamOK(t), Ends(t), ppc'[t] = ppc[t], scanned'[t] = scanned[t],
         Onward, reqSeq \in Nat, CoreTypeOK,
         \A u \in Streams : ended[u] \subseteq ended'[u],
         phase \in Answering /\ phase' \notin Answering \cup {"Stopped"} =>
           \E u \in Streams \ {t} : reqSeq \in ended'[u]
  PROVE  Ends(t)'
<1>1. \A n : EndedElsewhere(t, n) => EndedElsewhere(t, n)'
  BY DEF EndedElsewhere
<1>2. ASSUME ppc[t] = "scan", phase' \notin {"Busy", "Draining", "Stopped"}
      PROVE  EndedElsewhere(t, reqSeq)'
  <2>1. CASE reqSeq' = reqSeq
    <3>1. CASE phase \in Answering
      BY <1>2, <2>1, <3>1 DEF Answering, EndedElsewhere
    <3>2. CASE phase \notin Answering
      BY <1>1, <1>2, <2>1, <3>2 DEF Answering, Ends, Onward
    <3> QED
      BY <3>1, <3>2
  <2>2. CASE reqSeq' # reqSeq
    BY <1>2, <2>2 DEF Onward
  <2> QED
    BY <2>1, <2>2
<1>3. ASSUME ppc[t] \in {"route", "end"},
             scanned[t] # reqSeq' \/ phase' \notin {"Busy", "Draining", "Stopped"}
      PROVE  EndedElsewhere(t, scanned[t])'
  <2>1. CASE scanned[t] # reqSeq \/ phase \notin {"Busy", "Draining", "Stopped"}
    BY <1>1, <1>3, <2>1 DEF Ends, EndedElsewhere
  <2>2. CASE scanned[t] = reqSeq /\ phase \in {"Busy", "Draining", "Stopped"}
    <3>1. reqSeq' = reqSeq /\ phase' \notin {"Busy", "Draining", "Stopped"} /\ phase \in Answering
      BY <1>3, <2>2 DEF Onward, Answering
    <3> QED
      BY <2>2, <3>1 DEF Answering, EndedElsewhere
  <2> QED
    BY <2>1, <2>2
<1>4. Ends(t)' <=> /\ ppc[t] = "scan" /\ phase' \notin {"Busy", "Draining", "Stopped"}
                        => EndedElsewhere(t, reqSeq)'
                   /\ ppc[t] \in {"route", "end"}
                        /\ (scanned[t] # reqSeq' \/ phase' \notin {"Busy", "Draining", "Stopped"})
                        => EndedElsewhere(t, scanned[t])'
  BY DEF Ends, EndedElsewhere
<1> QED
  BY <1>2, <1>3, <1>4
-----------------------------------------------------------------------------
(* What belongs to no stream.                                              *)

Globals ==
  /\ CoreTypeOK /\ bound \in Scenarios
  /\ reqSeq \in Nat /\ requests \in Nat /\ reqSeq <= requests /\ requests <= bound.inputs
  /\ sink \in Clients \cup {None} /\ dropped \subseteq Clients
  /\ warmupSent \in BOOLEAN /\ alive \in BOOLEAN /\ fedBy \in Clients \cup {"boot"}
  /\ cpc \in [Clients -> {"none", "in", "forward", "done"}]
  /\ peer \in [Clients -> {"away", "open", "left"}]

LEMMA ShapesAre ==
  Shapes <=> /\ Domains /\ Globals
             /\ \A s \in Streams : StreamOK(s)
             /\ \A s \in Streams : \A w \in {"ready", "warmup"} : WatchOK(w, s)
BY DEF Shapes, Globals

\* The rest of this module is about the steps of Next that are not a stutter.
Step == (\E s \in Streams : Pump(s)) \/ Around

LEMMA PumpOnward ==
  ASSUME Shapes, NEW s \in Streams, Pump(s)
  PROVE  /\ Onward /\ Globals' /\ bound' = bound /\ UNCHANGED <<peers, alive, printed>>
         /\ \A t \in Streams \ {s} : Same(t)
         /\ Domains' /\ (phase = "Stopped" <=> phase' = "Stopped") /\ dropped \subseteq dropped'
<1>0. Globals
  BY ShapesAre
<1>1. CASE \E n \in 1..(Len(printed[s]) - taken[s]) : ReadChunk(s, n)
  <2>0. PICK n \in 1..(Len(printed[s]) - taken[s]) : ReadChunk(s, n)
    BY <1>1
  <2>1. /\ UNCHANGED <<core, reqSeq, warmupSent, sink, dropped, peers, alive, bound, printed>>
        /\ Domains' /\ \A t \in Streams \ {s} : Same(t)
    BY <2>0, ReadChunkIs
  <2> QED
    BY <1>0, <2>1 DEF core, peers, Globals, CoreTypeOK, Onward, Answering
<1>2. CASE DetectReady(s)
  <2>1. KeptBack(s, "ready") /\ (Fed(s, "ready") \/ UNCHANGED core)
    BY <1>2, DetectReadyIs
  <2>2. served' = served /\ serving' = serving /\ phase' \in {phase, "Warmup", "Idle"}
        /\ (phase' # phase => phase \in {"Booting", "Warmup"} /\ phase' \in {"Warmup", "Idle"})
    BY <2>1 DEF Fed, core
  <2>3. /\ UNCHANGED <<reqSeq, warmupSent, sink, dropped, peers, alive, bound, printed>>
        /\ Domains' /\ \A t \in Streams \ {s} : Same(t)
    BY <2>1 DEF KeptBack
  <2> QED
    BY <1>0, <2>2, <2>3 DEF core, peers, Globals, CoreTypeOK, Onward, Answering, Phases
<1>3. CASE DetectWarmup(s)
  <2>1. KeptBack(s, "warmup") /\ (Fed(s, "warmup") \/ UNCHANGED core)
    BY <1>3, DetectWarmupIs
  <2>2. served' = served /\ serving' = serving /\ phase' \in {phase, "Warmup", "Idle"}
        /\ (phase' # phase => phase \in {"Booting", "Warmup"} /\ phase' \in {"Warmup", "Idle"})
    BY <2>1 DEF Fed, core
  <2>3. /\ UNCHANGED <<reqSeq, warmupSent, sink, dropped, peers, alive, bound, printed>>
        /\ Domains' /\ \A t \in Streams \ {s} : Same(t)
    BY <2>1 DEF KeptBack
  <2>4. phase' = "Warmup" => phase = "Warmup" \/ phase = "Booting"
    BY <2>2
  <2> QED
    BY <1>0, <2>2, <2>3 DEF core, peers, Globals, CoreTypeOK, Onward, Answering, Phases
<1>4. CASE ScanResponse(s)
  <2>1. /\ PumpOnly /\ UNCHANGED <<sink, dropped>>
        /\ Domains' /\ \A t \in Streams \ {s} : Same(t)
    BY <1>4, ScanResponseIs
  <2> QED
    BY <1>0, <2>1 DEF PumpOnly, core, peers, Globals, CoreTypeOK, Onward, Answering
<1>5. CASE Route(s)
  <2>1. /\ PumpOnly /\ Domains' /\ \A t \in Streams \ {s} : Same(t)
        /\ \/ UNCHANGED <<sink, dropped>>
           \/ sink \in Clients /\ sink' = None /\ dropped' = dropped \cup {sink}
    BY <1>5, RouteIs
  <2> QED
    BY <1>0, <2>1 DEF PumpOnly, core, peers, Globals, CoreTypeOK, Onward, Answering
<1>6. CASE EndResponse(s)
  <2>1. /\ UNCHANGED <<reqSeq, warmupSent, sink, dropped, peers, alive, bound, printed,
                       served, serving>>
        /\ phase' = IF phase \in {"Busy", "Draining"} THEN "Idle" ELSE phase
        /\ Domains' /\ \A t \in Streams \ {s} : Same(t)
    BY <1>6, EndResponseIs
  <2> QED
    BY <1>0, <2>1 DEF peers, Globals, CoreTypeOK, Onward, Answering, Phases
<1>7. CASE EndOfStream(s)
  <2>1. /\ PumpOnly /\ UNCHANGED <<sink, dropped>>
        /\ Domains' /\ \A t \in Streams \ {s} : Same(t)
    BY <1>7, EndOfStreamIs
  <2> QED
    BY <1>0, <2>1 DEF PumpOnly, core, peers, Globals, CoreTypeOK, Onward, Answering
<1> QED
  BY <1>1, <1>2, <1>3, <1>4, <1>5, <1>6, <1>7 DEF Pump

LEMMA AroundOnward ==
  ASSUME Shapes, Around
  PROVE  /\ Onward /\ Globals' /\ dropped' = dropped
         /\ phase \in Answering => phase' \in Answering \cup {"Stopped"}
         /\ phase \in {"Booting", "Warmup"} => phase' \in {phase, "Stopped"}
<1>0. Globals /\ bound' = bound
  BY ShapesAre, AroundIs
<1>1. CASE SendWarmup
  BY <1>0, <1>1 DEF SendWarmup, core, peers, process, Globals, CoreTypeOK, Onward, Answering
<1>2. CASE StopServer
  BY <1>0, <1>2 DEF StopServer, Stop, core, peers, process, Globals, CoreTypeOK, Onward, Answering, Phases
<1>3. CASE ReplDies
  <2>1. /\ UNCHANGED <<phase, served, serving, reqSeq, warmupSent, sink, dropped, cpc, peer, requests,
                       fedBy>>
        /\ alive' = FALSE
    BY <1>3 DEF ReplDies, control, core, peers
  <2>2. alive' \in BOOLEAN
    BY <2>1
  <2> QED
    BY <1>0, <2>1, <2>2 DEF Globals, CoreTypeOK, Onward, Answering
<1>4. ASSUME NEW c \in Clients, Accept(c) PROVE Onward /\ Globals' /\ dropped' = dropped /\ phase' = phase
  <2>1. /\ UNCHANGED <<phase, reqSeq, warmupSent, dropped, requests, fedBy, alive>>
        /\ sink' = c /\ served' = TRUE /\ serving' = FALSE
        /\ cpc' = [cpc EXCEPT ![c] = "in"] /\ peer' = [peer EXCEPT ![c] = "open"]
    BY <1>4 DEF Accept, TryAccept, process
  <2>2. served' \in BOOLEAN /\ serving' \in BOOLEAN
    BY <2>1
  <2> QED
    BY <1>0, <2>1, <2>2 DEF Globals, CoreTypeOK, Onward, Answering
<1>5. ASSUME NEW c \in Clients, StartRequest(c)
      PROVE  /\ Onward /\ Globals' /\ dropped' = dropped
             /\ phase \in Answering => phase' \in Answering
             /\ phase \in {"Booting", "Warmup"} => phase' = phase
  <2>1. /\ UNCHANGED <<warmupSent, sink, dropped, peer, fedBy, alive, served>>
        /\ serving' = TRUE /\ phase' = IF phase = "Idle" THEN "Busy" ELSE phase
        /\ reqSeq' = IF phase = "Idle" THEN reqSeq + 1 ELSE reqSeq
        /\ requests < bound.inputs /\ requests' = requests + 1
        /\ cpc' = [cpc EXCEPT ![c] = "forward"]
    BY <1>5, DeliveryOptions DEF StartRequest, RequestStart, process
  <2>2. bound.inputs \in Nat
    BY <1>0, DeliveryOptions DEF Globals
  <2>3. /\ reqSeq' \in Nat /\ requests' \in Nat /\ reqSeq' <= requests' /\ reqSeq <= reqSeq'
        /\ requests' <= bound'.inputs /\ (phase = "Idle" => reqSeq < reqSeq')
    BY <1>0, <2>1, <2>2 DEF Globals
  <2> QED
    BY <1>0, <2>1, <2>3 DEF Globals, CoreTypeOK, Onward, Answering, Phases
<1>6. ASSUME NEW c \in Clients, Forward(c)
      PROVE  Onward /\ Globals' /\ dropped' = dropped /\ phase' = phase
  BY <1>0, <1>6 DEF Forward, control, core, process, Globals, CoreTypeOK, Onward, Answering
<1>7. ASSUME NEW c \in Clients, Leave(c)
      PROVE  Onward /\ Globals' /\ dropped' = dropped /\ phase' = phase
  BY <1>0, <1>7 DEF Leave, control, core, process, Globals, CoreTypeOK, Onward, Answering
<1>8. ASSUME NEW c \in Clients, Gone(c)
      PROVE  /\ Onward /\ Globals' /\ dropped' = dropped
             /\ phase \in Answering => phase' \in Answering
             /\ phase \in {"Booting", "Warmup"} => phase' = phase
  <2>1. /\ UNCHANGED <<served, reqSeq, warmupSent, dropped, peer, requests, fedBy, alive>>
        /\ sink' \in {sink, None} /\ serving' = FALSE
        /\ phase' = IF phase = "Busy" THEN "Draining" ELSE phase
        /\ cpc' = [cpc EXCEPT ![c] = "done"]
    BY <1>8 DEF Gone, ClientGone, process
  <2>2. serving' \in BOOLEAN
    BY <2>1
  <2> QED
    BY <1>0, <2>1, <2>2 DEF Globals, CoreTypeOK, Onward, Answering, Phases
<1>9. ASSUME NEW s \in Streams, NEW x \in Symbols[s], ReplPrints(s, x)
      PROVE  Onward /\ Globals' /\ dropped' = dropped /\ phase' = phase
  BY <1>0, <1>9 DEF ReplPrints, control, core, peers, Globals, CoreTypeOK, Onward, Answering
<1>10. ASSUME SendWarmup \/ ReplDies PROVE phase' = phase
  BY <1>10 DEF SendWarmup, ReplDies, core, control
<1>11. ASSUME StopServer PROVE phase' = "Stopped"
  BY <1>11 DEF StopServer, Stop
<1>12. ASSUME SendWarmup \/ StopServer \/ ReplDies PROVE dropped' = dropped
  BY <1>12 DEF SendWarmup, StopServer, ReplDies, control
<1> QED
  BY <1>1, <1>2, <1>3, <1>4, <1>5, <1>6, <1>7, <1>8, <1>9, <1>10, <1>11, <1>12 DEF Around
-----------------------------------------------------------------------------
(* Sequences of positions.                                                 *)

LEMMA InElements ==
  \A seq, i : i \in Elements(seq) <=> In(seq, i)
BY DEF Elements, In

LEMMA WiderSeq ==
  ASSUME NEW S, NEW T, S \subseteq T, NEW q \in Seq(S)
  PROVE  q \in Seq(T)
<1>1. Len(q) \in Nat /\ q \in [1..Len(q) -> S]
  BY LenProperties
<1>2. q \in [1..Len(q) -> T]
  BY <1>1
<1> QED
  BY <1>1, <1>2

LEMMA SuffixIs ==
  ASSUME NEW S, NEW q \in Seq(S), NEW n \in 0..Len(q)
  PROVE  LET h == SubSeq(q, Len(q) - n + 1, Len(q)) IN
         /\ h \in Seq(S) /\ Len(h) = n /\ DOMAIN h = 1..n
         /\ \A j \in 1..n : h[j] = q[Len(q) - n + j]
<1>1. Len(q) \in Nat
  BY LenProperties
<1> DEFINE a == Len(q) - n + 1
           h == SubSeq(q, a, Len(q))
<1>2. a \in 1..(Len(q) + 1) /\ Len(q) \in (a - 1)..Len(q) /\ Len(q) - a + 1 = n
  BY <1>1
<1> HIDE DEF a
<1>3. /\ h \in Seq(S) /\ Len(h) = Len(q) - a + 1
      /\ \A i \in 1..(Len(q) - a + 1) : h[i] = q[a + i - 1]
  BY <1>2, SubSeqProperties
<1>4. DOMAIN h = 1..Len(h)
  BY <1>3, LenProperties
<1>5. \A j \in 1..n : a + j - 1 = Len(q) - n + j
  BY <1>1 DEF a
<1> HIDE DEF h
<1>6. h \in Seq(S) /\ Len(h) = n /\ DOMAIN h = 1..n /\ \A j \in 1..n : h[j] = q[Len(q) - n + j]
  BY <1>2, <1>3, <1>4, <1>5
<1> QED
  BY <1>6 DEF h, a

LEMMA JoinIs ==
  ASSUME NEW S, NEW p \in Seq(S), NEW q \in Seq(S)
  PROVE  /\ p \o q \in Seq(S) /\ Len(p) \in Nat /\ Len(q) \in Nat
         /\ Len(p \o q) = Len(p) + Len(q)
         /\ DOMAIN p = 1..Len(p) /\ DOMAIN q = 1..Len(q) /\ DOMAIN (p \o q) = 1..(Len(p) + Len(q))
         /\ \A j \in 1..Len(p) : (p \o q)[j] = p[j]
         /\ \A j \in 1..Len(q) : (p \o q)[Len(p) + j] = q[j]
         /\ \A i : In(p \o q, i) <=> In(p, i) \/ In(q, i)
<1>1. /\ p \o q \in Seq(S) /\ Len(p) \in Nat /\ Len(q) \in Nat
      /\ Len(p \o q) = Len(p) + Len(q)
      /\ DOMAIN p = 1..Len(p) /\ DOMAIN q = 1..Len(q)
  BY ConcatProperties, LenProperties
<1>2. DOMAIN (p \o q) = 1..(Len(p) + Len(q))
  BY <1>1, LenProperties
<1>3. \A j \in 1..(Len(p) + Len(q)) :
        (p \o q)[j] = IF j <= Len(p) THEN p[j] ELSE q[j - Len(p)]
  BY <1>1, ConcatProperties
<1> DEFINE r == p \o q
           m == Len(p)
           n == Len(q)
<1>4. m \in Nat /\ n \in Nat
      /\ \A j \in 1..(m + n) : r[j] = IF j <= m THEN p[j] ELSE q[j - m]
  BY <1>1, <1>3
<1> HIDE DEF r, m, n
<1>5. \A j \in 1..m : r[j] = p[j]
  BY <1>4
<1>6. \A j \in 1..n : r[m + j] = q[j]
  <2> TAKE j \in 1..n
  <2>1. m + j \in 1..(m + n) /\ ~(m + j <= m) /\ (m + j) - m = j
    BY <1>4
  <2> QED
    BY <1>4, <2>1
<1>7. \A i : In(r, i) <=> In(p, i) \/ In(q, i)
  <2> TAKE i
  <2>1. In(r, i) <=> \E k \in 1..(m + n) : r[k] = i
    BY <1>2 DEF In, r, m, n
  <2>2. In(p, i) <=> \E k \in 1..m : p[k] = i
    BY <1>1 DEF In, m
  <2>3. In(q, i) <=> \E k \in 1..n : q[k] = i
    BY <1>1 DEF In, n
  <2>4. ASSUME NEW k \in 1..(m + n), r[k] = i PROVE In(p, i) \/ In(q, i)
    <3>1. CASE k <= m
      BY <1>4, <1>5, <2>2, <2>4, <3>1
    <3>2. CASE ~(k <= m)
      <4>1. k - m \in 1..n
        BY <1>4, <3>2
      <4> QED
        BY <1>4, <2>3, <2>4, <3>2, <4>1
    <3> QED
      BY <3>1, <3>2
  <2>5. ASSUME NEW k \in 1..m, p[k] = i PROVE In(r, i)
    <3>1. k \in 1..(m + n)
      BY <1>4
    <3> QED
      BY <1>5, <2>1, <2>5, <3>1
  <2>6. ASSUME NEW k \in 1..n, q[k] = i PROVE In(r, i)
    <3>1. m + k \in 1..(m + n)
      BY <1>4
    <3> QED
      BY <1>6, <2>1, <2>6, <3>1
  <2> QED
    BY <2>1, <2>2, <2>3, <2>4, <2>5, <2>6
<1> QED
  BY <1>1, <1>2, <1>5, <1>6, <1>7 DEF r, m, n

\* Two increasing sequences, one before the other, make an increasing one.
LEMMA JoinIncreasing ==
  ASSUME NEW S, S \subseteq Nat, NEW p \in Seq(S), NEW q \in Seq(S),
         Increasing(p), Increasing(q), Before(p, q)
  PROVE  Increasing(p \o q)
<1> DEFINE r == p \o q
           m == Len(p)
           n == Len(q)
<1>1. /\ m \in Nat /\ n \in Nat /\ DOMAIN p = 1..m /\ DOMAIN q = 1..n /\ DOMAIN r = 1..(m + n)
      /\ \A j \in 1..m : r[j] = p[j]
      /\ \A j \in 1..n : r[m + j] = q[j]
  BY JoinIs
<1> HIDE DEF r, m, n
<1> SUFFICES ASSUME NEW j \in 1..(m + n), NEW k \in 1..(m + n), j < k
             PROVE  r[j] < r[k]
  BY <1>1 DEF Increasing, r
<1>2. CASE k <= m
  <2>1. j \in 1..m /\ k \in 1..m
    BY <1>1, <1>2
  <2> QED
    BY <1>1, <2>1 DEF Increasing
<1>3. CASE m < j
  <2>0. m \in Nat /\ n \in Nat /\ j \in 1..(m + n) /\ k \in 1..(m + n) /\ m < j /\ j < k
    BY <1>1, <1>3
  <2>1. j - m \in 1..n /\ k - m \in 1..n /\ j - m < k - m /\ m + (j - m) = j /\ m + (k - m) = k
    BY ONLY <2>0
  <2>2. r[j] = q[j - m] /\ r[k] = q[k - m]
    <3>1. r[m + (j - m)] = q[j - m] /\ r[m + (k - m)] = q[k - m]
      BY ONLY <1>1, <2>1
    <3> QED
      BY <2>1, <3>1
  <2> QED
    BY <1>1, <2>1, <2>2 DEF Increasing
<1>4. CASE j <= m /\ m < k
  <2>1. j \in 1..m /\ k - m \in 1..n /\ m + (k - m) = k
    BY <1>1, <1>4
  <2>2. r[j] = p[j] /\ r[k] = q[k - m]
    BY <1>1, <2>1
  <2> QED
    BY <1>1, <2>1, <2>2 DEF Before
<1> QED
  BY <1>1, <1>2, <1>3, <1>4

\* Of an increasing sequence no two elements are the same.
LEMMA IncreasingApart ==
  ASSUME NEW S, S \subseteq Nat, NEW p \in Seq(S), Increasing(p),
         NEW j \in DOMAIN p, NEW k \in DOMAIN p, p[j] = p[k]
  PROVE  j = k
<1>1. Len(p) \in Nat /\ DOMAIN p = 1..Len(p) /\ \A i \in 1..Len(p) : p[i] \in S
  BY LenProperties, ElementOfSeq
<1>2. j \in 1..Len(p) /\ k \in 1..Len(p)
  BY <1>1
<1>3. p[j] \in S /\ j \in Nat /\ k \in Nat
  BY <1>1, <1>2
<1>4. p[j] \in Nat
  BY <1>3
<1> QED
  BY <1>3, <1>4 DEF Increasing
-----------------------------------------------------------------------------
(* What a response scanner does with the symbols.                          *)

\* The first n symbols of the text are split into those the client is sent and those
\* that are stripped, and the others are held back.
SplitUp(s, text, n, E, C) ==
  /\ n \in 0..Len(text) /\ E \cup C = 1..n /\ E \cap C = {}
  /\ buf'[s] \in Seq(Positions(s)) /\ hold'[s] \in Seq(Positions(s))
  /\ \A i : In(buf'[s], i) <=> \E k \in E : text[k] = i
  /\ Len(hold'[s]) = Len(text) - n /\ DOMAIN hold'[s] = 1..(Len(text) - n)
  /\ \A j \in 1..(Len(text) - n) : hold'[s][j] = text[n + j]
  /\ stripped'[s] = stripped[s] \cup {text[k] : k \in C}
  /\ Increasing(text) => Increasing(buf'[s])

LEMMA RespondedIs ==
  ASSUME NEW s \in Streams, StreamOK(s), NEW held \in Seq(Positions(s)), NEW past,
         past.text \in Seq(Positions(s)), Responded(s, held, past)
  PROVE  /\ \E n, E, C : SplitUp(s, held \o buf[s], n, E, C)
         /\ held \o buf[s] \in Seq(Positions(s))
         /\ log'[s].text \in Seq(Positions(s)) /\ found'[s] \in BOOLEAN
<1> DEFINE text == held \o buf[s]
           t    == Text(s, text)
           cut  == s \in Strip
           r    == Scan(EndMarkers[s], cut, t)
           P    == Positions(s)
           n    == Len(text) - r.hold
<1>0. buf[s] \in Seq(P) /\ P \subseteq Nat
  BY DEF StreamOK, Positions
<1>1. text \in Seq(P) /\ Len(text) \in Nat /\ DOMAIN text = 1..Len(text)
  BY <1>0, JoinIs, LenProperties
<1>2. t \in Seq(Symbols[s]) /\ Len(t) = Len(text)
  BY <1>1, TextIs
<1>3. /\ r.hold \in 0..Len(text) /\ r.found \in Nat
      /\ r.emit \cup r.strip = 1..n /\ r.emit \cap r.strip = {}
  <2>1. cut \in BOOLEAN
    OBVIOUS
  <2>2. EndMarkers[s] \in MarkerLists(Symbols[s])
    BY MarkersListed
  <2> HIDE DEF t, cut
  <2>3. /\ r.hold \in 0..Len(t) /\ r.found \in Nat
        /\ r.emit \cup r.strip = 1..(Len(t) - r.hold) /\ r.emit \cap r.strip = {}
    BY ONLY <1>2, <2>1, <2>2, ScanParts
  <2> QED
    BY <1>2, <2>3
<1>4. /\ buf'[s] = Extract(text, r.emit)
      /\ hold'[s] = SubSeq(text, Len(text) - r.hold + 1, Len(text))
      /\ stripped'[s] = stripped[s] \cup {text[k] : k \in r.strip}
      /\ found'[s] = (r.found > 0)
  BY Zenon DEF Responded
<1>a. log'[s].text = past.text \o buf[s]
  <2> DEFINE all == past.text \o buf[s]
  <2>1. \E o, f : log'[s] = [text |-> all, out |-> o, found |-> f]
    BY Zenon DEF Responded
  <2> HIDE DEF all
  <2>2. log'[s].text = all
    BY <2>1
  <2> QED
    BY <2>2 DEF all
<1>b. found'[s] \in BOOLEAN
  BY <1>4
<1> HIDE DEF r, t, text, P
<1>5. n \in 0..Len(text) /\ Len(text) - n = r.hold
  BY <1>1, <1>3
<1>6. /\ buf'[s] \in Seq(P)
      /\ {buf'[s][j] : j \in DOMAIN buf'[s]} = {text[m] : m \in r.emit \cap (1..Len(text))}
      /\ Increasing(text) => Increasing(buf'[s])
  <2> DEFINE E == r.emit
             e == Extract(text, E)
  <2>0. buf'[s] = e
    BY <1>4
  <2> HIDE DEF E
  <2>a. /\ e \in Seq(P)
        /\ {e[j] : j \in DOMAIN e} = {text[m] : m \in E \cap (1..Len(text))}
        /\ (P \subseteq Nat /\ \A j, k \in 1..Len(text) : j < k => text[j] < text[k])
             => \A j, k \in DOMAIN e : j < k => e[j] < e[k]
    BY ONLY <1>1, ExtractIs
  <2> HIDE DEF e
  <2>1. /\ buf'[s] \in Seq(P)
        /\ {buf'[s][j] : j \in DOMAIN buf'[s]} = {text[m] : m \in r.emit \cap (1..Len(text))}
        /\ (P \subseteq Nat /\ \A j, k \in 1..Len(text) : j < k => text[j] < text[k])
             => \A j, k \in DOMAIN buf'[s] : j < k => buf'[s][j] < buf'[s][k]
    BY <2>0, <2>a DEF E
  <2> QED
    BY <1>0, <1>1, <2>1 DEF Increasing, P
<1>7. r.emit \cap (1..Len(text)) = r.emit
  BY <1>1, <1>3
<1>8. \A i : In(buf'[s], i) <=> \E k \in r.emit : text[k] = i
  BY <1>6, <1>7 DEF In
<1>9. /\ hold'[s] \in Seq(P) /\ Len(hold'[s]) = r.hold /\ DOMAIN hold'[s] = 1..r.hold
      /\ \A j \in 1..r.hold : hold'[s][j] = text[Len(text) - r.hold + j]
  <2> DEFINE m == r.hold
             h == SubSeq(text, Len(text) - m + 1, Len(text))
  <2>1. hold'[s] = h /\ m \in 0..Len(text)
    BY <1>3, <1>4
  <2> HIDE DEF m
  <2>2. h \in Seq(P) /\ Len(h) = m /\ DOMAIN h = 1..m /\ \A j \in 1..m : h[j] = text[Len(text) - m + j]
    BY ONLY <1>1, <2>1, SuffixIs
  <2> HIDE DEF h
  <2> QED
    BY <2>1, <2>2 DEF m
<1>10. SplitUp(s, text, n, r.emit, r.strip)
  <2> HIDE DEF n
  <2>1. \A j \in 1..(Len(text) - n) : hold'[s][j] = text[n + j]
    BY <1>5, <1>9 DEF n
  <2> QED
    BY <1>3, <1>4, <1>5, <1>6, <1>8, <1>9, <2>1 DEF SplitUp, P
<1>11. past.text \o buf[s] \in Seq(P)
  BY <1>0, JoinIs DEF P
<1> QED
  BY <1>1, <1>a, <1>b, <1>10, <1>11 DEF text, P

-----------------------------------------------------------------------------
(* The values of the stream whose pump takes the step.                     *)

\* What the pump does to the values that most of its steps leave alone.
LEMMA ReadChunkOK ==
  ASSUME Shapes, NEW s \in Streams, NEW n \in 1..(Len(printed[s]) - taken[s]), ReadChunk(s, n)
  PROVE  StreamOK(s)' /\ \A w \in {"ready", "warmup"} : WatchOK(w, s)'
<1> DEFINE chunk == [k \in 1..n |-> taken[s] + k]
<1>1. StreamOK(s) /\ \A w \in {"ready", "warmup"} : WatchOK(w, s)
  BY ShapesAre
<1>2. /\ Grown(s) /\ ppc[s] = "read" /\ taken'[s] = taken[s] + n
      /\ ppc'[s] \in {"ready", "warmup", "scan", "tail", "read"}
      /\ \/ ppc'[s] = "read" /\ buf'[s] = <<>> /\ own'[s] = own[s] \cup Elements(chunk)
         \/ ppc'[s] # "read" /\ buf'[s] = chunk /\ own'[s] = own[s]
      /\ hold'[s] = hold[s] /\ found'[s] = found[s] /\ scanned'[s] = scanned[s]
      /\ log'[s] = log[s] /\ flushed'[s] = flushed[s] /\ stripped'[s] = stripped[s]
      /\ undelivered'[s] = undelivered[s]
      /\ \A c \in Clients : got'[c][s] = got[c][s]
      /\ watch' = watch /\ seen' = seen
      /\ UNCHANGED <<reqSeq, printed>>
  BY ReadChunkIs DEF core
<1>3. Len(printed[s]) \in Nat /\ taken[s] \in Nat /\ taken[s] <= Len(printed[s]) /\ n \in Nat
      /\ taken[s] + n <= Len(printed[s])
  BY <1>1, LenProperties DEF StreamOK, Printed
<1>4. Positions(s)' = 1..(taken[s] + n) /\ Positions(s) \subseteq Positions(s)'
  BY <1>2, <1>3 DEF Positions
<1>5. chunk \in Seq(Positions(s)') /\ Elements(chunk) \subseteq Positions(s)'
  <2>1. chunk \in [1..n -> Positions(s)'] /\ DOMAIN chunk = 1..n
    BY <1>3, <1>4
  <2> QED
    BY <1>3, <2>1 DEF Elements
<1> HIDE DEF chunk
<1>6. \A q : q \in Seq(Positions(s)) => q \in Seq(Positions(s)')
  BY <1>4, WiderSeq
<1>7. \A w \in {"ready", "warmup"} : WatchOK(w, s)'
  BY <1>1, <1>2, <1>6 DEF WatchOK
<1>8. /\ buf'[s] \in Seq(Positions(s)') /\ own'[s] \subseteq Positions(s)'
      /\ ppc'[s] = "read" => buf'[s] = <<>>
  <2>1. own[s] \subseteq Positions(s)
    BY <1>1 DEF StreamOK
  <2>2. <<>> \in Seq(Positions(s)')
    OBVIOUS
  <2>3. buf'[s] \in Seq(Positions(s)')
    BY ONLY <1>2, <1>5, <2>2
  <2>4. own'[s] \subseteq Positions(s)'
    BY ONLY <1>2, <1>4, <1>5, <2>1
  <2>5. ppc'[s] = "read" => buf'[s] = <<>>
    BY ONLY <1>2
  <2> QED
    BY ONLY <2>3, <2>4, <2>5
<1>9. Printed(s)' = Printed(s)
  BY DEF Printed
<1>10. /\ printed'[s] \in Printed(s)' /\ taken'[s] \in Nat /\ taken'[s] <= Len(printed'[s])
       /\ hold'[s] \in Seq(Positions(s)') /\ found'[s] \in BOOLEAN
       /\ scanned'[s] \in Nat /\ scanned'[s] <= reqSeq'
       /\ log'[s].text \in Seq(Positions(s)')
       /\ \A c \in Clients : got'[c][s] \in Seq(Positions(s)')
  <2>1. /\ printed[s] \in Printed(s) /\ hold[s] \in Seq(Positions(s)) /\ found[s] \in BOOLEAN
        /\ scanned[s] \in Nat /\ scanned[s] <= reqSeq /\ log[s].text \in Seq(Positions(s))
        /\ \A c \in Clients : got[c][s] \in Seq(Positions(s))
    BY <1>1 DEF StreamOK
  <2>2. printed'[s] \in Printed(s)' /\ taken'[s] \in Nat /\ taken'[s] <= Len(printed'[s])
    BY <2>1, <1>2, <1>3, <1>9
  <2>3. /\ hold'[s] \in Seq(Positions(s)') /\ found'[s] \in BOOLEAN
        /\ scanned'[s] \in Nat /\ scanned'[s] <= reqSeq'
        /\ log'[s].text \in Seq(Positions(s)')
    BY <2>1, <1>2, <1>6
  <2>4. \A c \in Clients : got'[c][s] \in Seq(Positions(s)')
    BY ONLY <2>1, <1>2, <1>6
  <2> QED
    BY <2>2, <2>3, <2>4
<1>11. /\ flushed'[s] \subseteq Positions(s)' /\ stripped'[s] \subseteq Positions(s)'
       /\ undelivered'[s] \subseteq Positions(s)'
  BY <1>1, <1>2, <1>4 DEF StreamOK
<1>12. StreamOK(s)'
  BY <1>2, <1>8, <1>10, <1>11 DEF StreamOK
<1> QED
  BY <1>7, <1>12
\* Only positions move, and none that the pump has not read.
LEMMA KeptOK ==
  ASSUME NEW s \in Streams, Shapes, Grown(s), taken'[s] = taken[s],
         ppc'[s] \in {"read", "route", "end", "done"},
         buf'[s] \in Seq(Positions(s)), hold'[s] \in Seq(Positions(s)),
         ppc'[s] # "route" => buf'[s] = <<>>,
         found'[s] \in BOOLEAN, scanned'[s] \in Nat, scanned'[s] <= reqSeq', reqSeq' = reqSeq,
         own'[s] \subseteq Positions(s), flushed'[s] \subseteq Positions(s),
         stripped'[s] \subseteq Positions(s), undelivered'[s] \subseteq Positions(s),
         log'[s].text \in Seq(Positions(s)),
         \A c \in Clients : got'[c][s] \in Seq(Positions(s))
  PROVE  StreamOK(s)'
<1>1. StreamOK(s)
  BY ShapesAre
<1>2. Positions(s)' = Positions(s) /\ Printed(s)' = Printed(s)
  BY DEF Positions, Printed
<1>3. Len(printed[s]) \in Nat /\ Len(printed'[s]) \in Nat
  BY <1>1, LenProperties DEF StreamOK, Grown, Printed
<1>4. /\ printed'[s] \in Printed(s) /\ taken'[s] \in Nat /\ taken'[s] <= Len(printed'[s])
  BY <1>1, <1>3 DEF StreamOK, Grown
<1> QED
  BY <1>2, <1>4 DEF StreamOK

\* The same when the scanners for ready and warmup are not used.
LEMMA UnwatchedOK ==
  ASSUME NEW s \in Streams, Shapes, taken'[s] = taken[s], UNCHANGED <<watch, seen>>
  PROVE  \A w \in {"ready", "warmup"} : WatchOK(w, s)'
<1>1. \A w \in {"ready", "warmup"} : WatchOK(w, s)
  BY ShapesAre
<1>2. Positions(s)' = Positions(s)
  BY DEF Positions
<1> QED
  BY <1>1, <1>2 DEF WatchOK

LEMMA ElementsIn ==
  ASSUME NEW S, NEW q \in Seq(S)
  PROVE  Elements(q) \subseteq S
BY LenProperties, ElementOfSeq DEF Elements

LEMMA ScanResponseOK ==
  ASSUME Shapes, NEW s \in Streams, ScanResponse(s)
  PROVE  StreamOK(s)' /\ \A w \in {"ready", "warmup"} : WatchOK(w, s)'
<1> DEFINE P == Positions(s)
<1>1. StreamOK(s) /\ Globals
  BY ShapesAre
<1>2. /\ Grown(s) /\ PumpOnly /\ UNCHANGED <<watch, seen>>
      /\ ppc[s] = "scan" /\ ppc'[s] = "route" /\ scanned'[s] = reqSeq
      /\ \/ /\ Responded(s, <<>>, Fresh)
            /\ own'[s] = own[s] \cup Elements(hold[s])
            /\ flushed'[s] = flushed[s] \cup Elements(hold[s])
         \/ /\ Responded(s, hold[s], log[s])
            /\ own'[s] = own[s] /\ flushed'[s] = flushed[s]
      /\ taken'[s] = taken[s] /\ undelivered'[s] = undelivered[s]
      /\ \A c \in Clients : got'[c][s] = got[c][s]
  BY ScanResponseIs
<1>3. hold[s] \in Seq(P) /\ log[s].text \in Seq(P) /\ <<>> \in Seq(P) /\ Fresh.text \in Seq(P)
  BY <1>1 DEF StreamOK, Fresh
<1>4. ASSUME NEW held \in Seq(P), NEW past, past.text \in Seq(P), Responded(s, held, past)
      PROVE  /\ buf'[s] \in Seq(P) /\ hold'[s] \in Seq(P) /\ log'[s].text \in Seq(P)
             /\ found'[s] \in BOOLEAN /\ stripped'[s] \subseteq P
  <2> DEFINE text == held \o buf[s]
  <2>1. /\ \E n, E, C : SplitUp(s, text, n, E, C)
        /\ text \in Seq(P) /\ log'[s].text \in Seq(P) /\ found'[s] \in BOOLEAN
    BY <1>1, <1>4, RespondedIs
  <2> HIDE DEF text
  <2>2. PICK n, E, C : SplitUp(s, text, n, E, C)
    BY <2>1
  <2>3. Len(text) \in Nat /\ \A k \in 1..Len(text) : text[k] \in P
    BY <2>1, LenProperties, ElementOfSeq
  <2>4. C \subseteq 1..Len(text)
    BY <2>2, <2>3 DEF SplitUp
  <2>5. stripped'[s] \subseteq P
    BY <1>1, <2>2, <2>3, <2>4 DEF SplitUp, StreamOK
  <2> QED
    BY <2>1, <2>2, <2>5 DEF SplitUp
<1>5. /\ buf'[s] \in Seq(P) /\ hold'[s] \in Seq(P) /\ log'[s].text \in Seq(P)
      /\ found'[s] \in BOOLEAN /\ stripped'[s] \subseteq P
  BY <1>2, <1>3, <1>4
<1>6. own'[s] \subseteq P /\ flushed'[s] \subseteq P
  <2>1. Elements(hold[s]) \subseteq P
    BY <1>3, ElementsIn
  <2> QED
    BY <1>1, <1>2, <2>1 DEF StreamOK
<1>7. /\ reqSeq' = reqSeq /\ reqSeq \in Nat /\ undelivered'[s] \subseteq P
      /\ \A c \in Clients : got'[c][s] \in Seq(P)
  BY <1>1, <1>2 DEF PumpOnly, Globals, StreamOK
<1>8. StreamOK(s)'
  BY <1>2, <1>5, <1>6, <1>7, KeptOK
<1> QED
  BY <1>2, <1>8, UnwatchedOK

LEMMA RouteOK ==
  ASSUME Shapes, NEW s \in Streams, Route(s)
  PROVE  StreamOK(s)' /\ \A w \in {"ready", "warmup"} : WatchOK(w, s)'
<1> DEFINE P == Positions(s)
<1>1. StreamOK(s) /\ Globals
  BY ShapesAre
<1>2. /\ Grown(s) /\ PumpOnly /\ UNCHANGED <<watch, seen>>
      /\ ppc'[s] \in {"read", "end"} /\ buf'[s] = <<>>
      /\ \/ own'[s] = own[s] \cup Elements(buf[s]) \/ own'[s] = own[s]
      /\ \/ undelivered'[s] = undelivered[s] \cup Elements(buf[s])
         \/ undelivered'[s] = undelivered[s]
      /\ \A c \in Clients : got'[c][s] = got[c][s] \/ got'[c][s] = got[c][s] \o buf[s]
      /\ taken'[s] = taken[s] /\ hold'[s] = hold[s] /\ found'[s] = found[s]
      /\ scanned'[s] = scanned[s] /\ stripped'[s] = stripped[s] /\ log'[s] = log[s]
      /\ flushed'[s] = flushed[s]
  BY RouteIs
<1>3. Elements(buf[s]) \subseteq P /\ <<>> \in Seq(P)
  BY <1>1, ElementsIn DEF StreamOK
<1>4. \A c \in Clients : got'[c][s] \in Seq(P)
  <2> TAKE c \in Clients
  <2>1. got[c][s] \in Seq(P) /\ buf[s] \in Seq(P)
    BY <1>1 DEF StreamOK
  <2>2. got[c][s] \o buf[s] \in Seq(P)
    BY <2>1, JoinIs
  <2> QED
    BY <1>2, <2>1, <2>2
<1>5. own'[s] \subseteq P /\ undelivered'[s] \subseteq P
  BY <1>1, <1>2, <1>3 DEF StreamOK
<1>6. /\ reqSeq' = reqSeq /\ hold'[s] \in Seq(P) /\ found'[s] \in BOOLEAN /\ scanned'[s] \in Nat
      /\ scanned'[s] <= reqSeq' /\ flushed'[s] \subseteq P /\ stripped'[s] \subseteq P
      /\ log'[s].text \in Seq(P)
  BY <1>1, <1>2 DEF PumpOnly, StreamOK
<1>7. StreamOK(s)'
  BY <1>2, <1>3, <1>4, <1>5, <1>6, KeptOK
<1> QED
  BY <1>2, <1>7, UnwatchedOK

LEMMA EndResponseOK ==
  ASSUME Shapes, NEW s \in Streams, EndResponse(s)
  PROVE  StreamOK(s)' /\ \A w \in {"ready", "warmup"} : WatchOK(w, s)'
<1>1. StreamOK(s) /\ Globals
  BY ShapesAre
<1>2. /\ Grown(s) /\ reqSeq' = reqSeq /\ UNCHANGED <<watch, seen>>
      /\ ppc[s] = "end" /\ ppc'[s] = "read"
      /\ taken'[s] = taken[s] /\ buf'[s] = buf[s] /\ hold'[s] = hold[s]
      /\ found'[s] = found[s] /\ scanned'[s] = scanned[s] /\ stripped'[s] = stripped[s]
      /\ log'[s] = log[s] /\ own'[s] = own[s] /\ flushed'[s] = flushed[s]
      /\ undelivered'[s] = undelivered[s]
      /\ \A c \in Clients : got'[c][s] = got[c][s]
  BY EndResponseIs
<1>3. StreamOK(s)'
  BY <1>1, <1>2, KeptOK DEF StreamOK
<1> QED
  BY <1>2, <1>3, UnwatchedOK

LEMMA EndOfStreamOK ==
  ASSUME Shapes, NEW s \in Streams, EndOfStream(s)
  PROVE  StreamOK(s)' /\ \A w \in {"ready", "warmup"} : WatchOK(w, s)'
<1>1. StreamOK(s) /\ Globals
  BY ShapesAre
<1>2. /\ Grown(s) /\ PumpOnly /\ UNCHANGED <<watch, seen>>
      /\ ppc[s] = "read" /\ ppc'[s] = "done" /\ hold'[s] = <<>>
      /\ own'[s] = own[s] \cup Elements(hold[s])
      /\ flushed'[s] = flushed[s] \cup Elements(hold[s])
      /\ taken'[s] = taken[s] /\ buf'[s] = buf[s] /\ found'[s] = found[s]
      /\ scanned'[s] = scanned[s] /\ stripped'[s] = stripped[s] /\ log'[s] = log[s]
      /\ undelivered'[s] = undelivered[s]
      /\ \A c \in Clients : got'[c][s] = got[c][s]
  BY EndOfStreamIs
<1>3. Elements(hold[s]) \subseteq Positions(s) /\ <<>> \in Seq(Positions(s))
  BY <1>1, ElementsIn DEF StreamOK
<1>4. own'[s] \subseteq Positions(s) /\ flushed'[s] \subseteq Positions(s)
  BY <1>1, <1>2, <1>3 DEF StreamOK
<1>5. StreamOK(s)'
  BY <1>1, <1>2, <1>3, <1>4, KeptOK DEF StreamOK, PumpOnly
<1> QED
  BY <1>2, <1>5, UnwatchedOK
-----------------------------------------------------------------------------
(* The text a scanner looks at: what it holds back, and the chunk.         *)

LEMMA HeldJoin ==
  ASSUME NEW S, NEW A \in Seq(S), NEW B \in Seq(S), NEW o \in 0..Len(A)
  PROVE  LET h == SubSeq(A, Len(A) - o + 1, Len(A))
             R == h \o B
             T == A \o B
         IN /\ h \in Seq(S) /\ R \in Seq(S) /\ T \in Seq(S)
            /\ Len(R) = o + Len(B) /\ Len(T) = Len(A) + Len(B)
            /\ \A j \in 1..Len(A) : T[j] = A[j]
            /\ \A j \in 1..Len(R) : R[j] = T[(Len(A) - o) + j]
            /\ Continues(T, R, Len(A) - o) /\ Len(A) - o \in Nat
<1> DEFINE h == SubSeq(A, Len(A) - o + 1, Len(A))
           R == h \o B
           T == A \o B
           a == Len(A)
           b == Len(B)
<1>1. a \in Nat /\ b \in Nat
  BY LenProperties
<1>2. h \in Seq(S) /\ Len(h) = o /\ \A j \in 1..o : h[j] = A[Len(A) - o + j]
  BY SuffixIs
<1> HIDE DEF h
<1>3. /\ T \in Seq(S) /\ Len(T) = a + b
      /\ (\A j \in 1..a : T[j] = A[j]) /\ (\A j \in 1..b : T[a + j] = B[j])
  BY JoinIs
<1>4. /\ R \in Seq(S) /\ Len(R) = o + b
      /\ (\A j \in 1..o : R[j] = h[j]) /\ (\A j \in 1..b : R[o + j] = B[j])
  <2>1. /\ R \in Seq(S) /\ Len(R) = Len(h) + Len(B)
        /\ \A j \in 1..Len(h) : R[j] = h[j]
        /\ \A j \in 1..Len(B) : R[Len(h) + j] = B[j]
    <3>1. h \in Seq(S) /\ B \in Seq(S)
      BY <1>2
    <3> QED
      BY ONLY <3>1, JoinIs
  <2> QED
    BY <1>2, <2>1
<1> HIDE DEF R, T
<1>5. \A j \in 1..(o + b) : R[j] = T[(a - o) + j]
  <2> TAKE j \in 1..(o + b)
  <2>1. CASE j <= o
    <3>1. j \in 1..o /\ (a - o) + j \in 1..a /\ (a - o) + j = a - o + j
      BY <1>1, <2>1
    <3> QED
      BY <1>2, <1>3, <1>4, <3>1
  <2>2. CASE ~(j <= o)
    <3>1. j - o \in 1..b /\ o + (j - o) = j /\ a + (j - o) = (a - o) + j
      BY <1>1, <2>2
    <3>2. R[o + (j - o)] = B[j - o] /\ T[a + (j - o)] = B[j - o]
      BY <1>3, <1>4, <3>1
    <3> QED
      BY <3>1, <3>2
  <2> QED
    BY <2>1, <2>2
<1>6. Continues(T, R, a - o) /\ a - o \in Nat
  BY <1>1, <1>3, <1>4, <1>5 DEF Continues
<1> QED
  BY <1>1, <1>2, <1>3, <1>4, <1>5, <1>6 DEF h, R, T

\* The end of the shorter text is the end of the longer one.
LEMMA HeldRest ==
  ASSUME NEW S, NEW R \in Seq(S), NEW T \in Seq(S), NEW d \in Nat, Continues(T, R, d),
         NEW k \in 0..Len(R)
  PROVE  SubSeq(R, Len(R) - k + 1, Len(R)) = SubSeq(T, Len(T) - k + 1, Len(T))
<1> DEFINE r == Len(R)
           t == Len(T)
           x == SubSeq(R, r - k + 1, r)
           y == SubSeq(T, t - k + 1, t)
<1>1. r \in Nat /\ t \in Nat /\ t = d + r /\ k \in 0..t /\ \A j \in 1..r : R[j] = T[d + j]
  BY LenProperties DEF Continues
<1>2. x \in Seq(S) /\ Len(x) = k /\ \A j \in 1..k : x[j] = R[r - k + j]
  BY SuffixIs
<1>3. y \in Seq(S) /\ Len(y) = k /\ \A j \in 1..k : y[j] = T[t - k + j]
  BY <1>1, SuffixIs
<1> HIDE DEF x, y, r, t
<1>4. ASSUME NEW j \in 1..k PROVE x[j] = y[j]
  <2>0. k \in 0..r
    BY DEF r
  <2>1. r - k + j \in 1..r /\ d + (r - k + j) = t - k + j
    BY <1>1, <2>0
  <2>2. R[r - k + j] = T[d + (r - k + j)]
    BY <1>1, <2>1
  <2>3. R[r - k + j] = T[t - k + j]
    BY <2>1, <2>2
  <2> QED
    BY <1>2, <1>3, <2>3
<1>5. x = y
  BY <1>2, <1>3, <1>4, SeqEqual
<1> QED
  BY <1>5 DEF x, y, r, t

LEMMA HeldText ==
  ASSUME NEW s \in Streams, StreamOK(s), NEW A \in Seq(Positions(s)),
         NEW B \in Seq(Positions(s)), NEW o \in 0..Len(A)
  PROVE  LET h == SubSeq(A, Len(A) - o + 1, Len(A))
             U == Text(s, A)
             T == Text(s, A \o B)
             R == Text(s, h \o B)
         IN /\ U \in Seq(Symbols[s]) /\ T \in Seq(Symbols[s]) /\ R \in Seq(Symbols[s])
            /\ Len(U) = Len(A) /\ Len(T) = Len(A \o B) /\ Len(R) = Len(h \o B)
            /\ Begins(U, T) /\ Continues(T, R, Len(A) - o) /\ Len(A) - o \in Nat
<1> DEFINE h == SubSeq(A, Len(A) - o + 1, Len(A))
           X == h \o B
           Y == A \o B
           U == Text(s, A)
           T == Text(s, Y)
           R == Text(s, X)
           P == Positions(s)
           a == Len(A)
           b == Len(B)
<1>1. /\ h \in Seq(P) /\ X \in Seq(P) /\ Y \in Seq(P)
      /\ Len(X) = o + b /\ Len(Y) = a + b
      /\ \A j \in 1..a : Y[j] = A[j]
      /\ \A j \in 1..Len(X) : X[j] = Y[(a - o) + j]
  <2>1. /\ h \in Seq(P) /\ X \in Seq(P) /\ Y \in Seq(P)
        /\ Len(X) = o + b /\ Len(Y) = a + b
        /\ \A j \in 1..a : Y[j] = A[j]
        /\ \A j \in 1..Len(X) : X[j] = Y[(a - o) + j]
        /\ Continues(Y, X, a - o) /\ a - o \in Nat
    BY HeldJoin, Zenon
  <2> QED
    BY <2>1, Zenon
<1>2. a \in Nat /\ b \in Nat
  BY LenProperties
<1> HIDE DEF h, X, Y, P
<1>3. /\ U \in Seq(Symbols[s]) /\ Len(U) = a
      /\ \A k \in 1..a : U[k] = printed[s][A[k]].sym
  BY TextIs
<1>4. /\ T \in Seq(Symbols[s]) /\ Len(T) = Len(Y)
      /\ \A k \in 1..Len(Y) : T[k] = printed[s][Y[k]].sym
  BY <1>1, TextIs DEF P
<1>5. /\ R \in Seq(Symbols[s]) /\ Len(R) = Len(X)
      /\ \A k \in 1..Len(X) : R[k] = printed[s][X[k]].sym
  BY <1>1, TextIs DEF P
<1> HIDE DEF U, T, R, a, b
<1>6. Begins(U, T)
  <2>1. a <= Len(Y) /\ \A j \in 1..a : j \in 1..Len(Y)
    BY <1>1, <1>2
  <2>2. \A j \in 1..a : U[j] = T[j]
    BY <1>1, <1>3, <1>4, <2>1
  <2> QED
    BY <1>3, <1>4, <2>1, <2>2 DEF Begins
<1>7. Continues(T, R, a - o) /\ a - o \in Nat
  <2>0. o \in Nat /\ o <= a
    BY <1>2 DEF a
  <2>1. Len(T) = (a - o) + Len(R)
    BY <1>1, <1>2, <1>4, <1>5, <2>0
  <2>2. ASSUME NEW j \in 1..Len(R) PROVE R[j] = T[(a - o) + j]
    <3>1. (a - o) + j \in 1..Len(Y) /\ j \in 1..Len(X)
      BY <1>1, <1>2, <1>5, <2>0
    <3> QED
      BY <1>1, <1>4, <1>5, <3>1
  <2> QED
    BY <1>2, <2>0, <2>1, <2>2 DEF Continues
<1> QED
  BY <1>3, <1>4, <1>5, <1>6, <1>7 DEF h, X, Y, U, T, R, a

LEMMA UnmatchedIs ==
  ASSUME NEW S, NEW markers \in MarkerLists(S), NEW text \in Seq(S)
  PROVE  Unmatched(markers, text) <=> Nowhere(markers, text, 1)
<1>1. \A k \in DOMAIN markers : markers[k] \in Seq(S) /\ Len(markers[k]) \in Nat \ {0}
  BY MarkersAre
<1>2. ASSUME NEW k \in DOMAIN markers
      PROVE  Occurrences(markers[k], text, 1) = {}
               <=> \A i \in Nat : 1 <= i => ~At(markers[k], text, i)
  <2>1. \A i : i \in Occurrences(markers[k], text, 1)
                 <=> i \in Nat /\ 1 <= i /\ At(markers[k], text, i)
    BY <1>1, OccursAt
  <2> QED
    BY <2>1
<1> QED
  BY <1>2 DEF Unmatched, Nowhere

\* A match is not lost when more text follows.
LEMMA StillMatched ==
  ASSUME NEW S, NEW markers \in MarkerLists(S), NEW A \in Seq(S), NEW T \in Seq(S),
         Begins(A, T), Unmatched(markers, T)
  PROVE  Unmatched(markers, A)
<1>1. Nowhere(markers, T, 1)
  BY UnmatchedIs
<1>2. Nowhere(markers, A, 1)
  BY <1>1, BeginsAt, MarkersAre DEF Nowhere
<1> QED
  BY <1>2, UnmatchedIs
\* A scanner that is fed a chunk is done if a marker occurs in all it has been fed,
\* and holds back the end of that otherwise.
LEMMA FedIs ==
  ASSUME Shapes, NEW s \in Streams, NEW w \in {"ready", "warmup"}, Watches(w, s), Fed(s, w)
  PROVE  LET m == Watched[w][s]
             T == seen[w][s] \o buf[s]
             U == Text(s, T)
         IN /\ watch'[w][s].on \in BOOLEAN /\ watch'[w][s].hold \in Seq(Positions(s))
            /\ ~watch'[w][s].on => watch'[w][s].hold = <<>>
            /\ seen'[w][s] = T /\ T \in Seq(Positions(s)) /\ m # <<>>
            /\ watch'[w][s].on <=> Unmatched(m, U)
            /\ watch'[w][s].on =>
                 watch'[w][s].hold = SubSeq(T, Len(T) - Overlap(m, U) + 1, Len(T))
            /\ watch'[w][s].on => phase' = phase
            /\ ~watch'[w][s].on =>
                 phase' = IF w = "ready" THEN (IF phase = "Booting" THEN "Warmup" ELSE phase)
                          ELSE IF phase = "Warmup" THEN "Idle" ELSE phase
<1> DEFINE P == Positions(s)
           S == Symbols[s]
           m == Watched[w][s]
           A == seen[w][s]
           B == buf[s]
           T == A \o B
           o == Overlap(m, Text(s, A))
           h == SubSeq(A, Len(A) - o + 1, Len(A))
           R == h \o B
           U == Text(s, T)
           V == Text(s, R)
           r == Once(m, FALSE, V)
           rest == SubSeq(R, Len(R) - r.hold + 1, Len(R))
<1>1. /\ StreamOK(s) /\ A \in Seq(P) /\ B \in Seq(P)
  BY ShapesAre DEF StreamOK, WatchOK
<1>2. /\ watch[w][s].on /\ m # <<>> /\ Unmatched(m, Text(s, A)) /\ watch[w][s].hold = h
  BY Zenon DEF Watches, Fed
<1>3. m \in MarkerLists(S)
  BY MarkersListed
<1>4. Text(s, A) \in Seq(S) /\ Len(Text(s, A)) = Len(A) /\ Len(A) \in Nat
  BY <1>1, TextIs, LenProperties
<1>5. o \in 0..Len(A)
  <2> DEFINE x == Text(s, A)
  <2>1. x \in Seq(S) /\ Len(x) = Len(A)
    BY <1>4
  <2> HIDE DEF x, S, m
  <2>2. Overlap(m, x) \in 0..Len(x)
    BY ONLY <1>3, <2>1, OverlapIs
  <2> QED
    BY <2>1, <2>2 DEF x
<1>6. watch'[w][s] = [on |-> ~r.done, hold |-> rest] /\ seen'[w][s] = T
      /\ phase' = IF ~r.done THEN phase
                  ELSE IF w = "ready" THEN (IF phase = "Booting" THEN "Warmup" ELSE phase)
                       ELSE IF phase = "Warmup" THEN "Idle" ELSE phase
  BY <1>2, Zenon DEF Fed
<1> HIDE DEF m, o, A, B, P, S
<1>7. /\ R \in Seq(P) /\ T \in Seq(P) /\ Len(R) \in Nat
      /\ \A k \in 0..Len(R) :
           SubSeq(R, Len(R) - k + 1, Len(R)) = SubSeq(T, Len(T) - k + 1, Len(T))
  <2>1. R \in Seq(P) /\ T \in Seq(P) /\ Continues(T, R, Len(A) - o) /\ Len(A) - o \in Nat
    BY <1>1, <1>5, HeldJoin
  <2> HIDE DEF R, T
  <2> QED
    BY <2>1, HeldRest, LenProperties
<1>8. /\ Text(s, A) \in Seq(S) /\ U \in Seq(S) /\ V \in Seq(S)
      /\ Len(Text(s, A)) = Len(A) /\ Len(U) = Len(T) /\ Len(V) = Len(R)
      /\ Begins(Text(s, A), U) /\ Continues(U, V, Len(A) - o) /\ Len(A) - o \in Nat
  BY <1>1, <1>5, HeldText DEF S, P
<1>9. /\ r.done \in BOOLEAN
      /\ r.done <=> ~Nowhere(m, U, 1)
      /\ r.done => r.hold = 0
      /\ ~r.done => r.hold = Overlap(m, U) /\ r.hold \in 0..Len(V)
  <2> DEFINE x == Text(s, A)
             d == Len(A) - o
  <2>1. Nowhere(m, x, 1)
    BY <1>2, <1>3, <1>8, UnmatchedIs
  <2>2. /\ x \in Seq(S) /\ U \in Seq(S) /\ V \in Seq(S) /\ Begins(x, U) /\ Continues(U, V, d)
        /\ d \in Nat /\ d = Len(x) - Overlap(m, x) /\ m \in MarkerLists(S) /\ FALSE \in BOOLEAN
    BY <1>3, <1>8 DEF o
  <2> HIDE DEF x, d, U, V
  <2> QED
    BY ONLY <2>1, <2>2, OnceInParts
<1> HIDE DEF U, V, R, T, r
<1>10. Nowhere(m, U, 1) <=> Unmatched(m, U)
  BY <1>3, <1>8, UnmatchedIs
<1>11. rest \in Seq(P) /\ (r.done => rest = <<>>)
       /\ (~r.done => rest = SubSeq(T, Len(T) - Overlap(m, U) + 1, Len(T)))
  <2>1. r.hold \in 0..Len(R)
    BY <1>7, <1>8, <1>9
  <2>2. rest \in Seq(P) /\ Len(rest) = r.hold
    BY <1>7, <2>1, SuffixIs
  <2>3. rest = SubSeq(T, Len(T) - r.hold + 1, Len(T))
    BY <1>7, <2>1
  <2>4. r.done => rest = <<>>
    <3> HIDE DEF rest
    <3> QED
      BY <1>9, <2>2, EmptySeq
  <2> QED
    BY <1>9, <2>2, <2>3, <2>4
<1> HIDE DEF rest
<1>12. /\ watch'[w][s].on <=> ~r.done
       /\ watch'[w][s].on \in BOOLEAN /\ watch'[w][s].hold = rest
  <2> DEFINE on == ~r.done
  <2>1. on \in BOOLEAN /\ (on <=> ~r.done) /\ watch'[w][s] = [on |-> on, hold |-> rest]
    BY <1>6, <1>9
  <2> HIDE DEF on
  <2>2. watch'[w][s].on = on /\ watch'[w][s].hold = rest
    BY <2>1
  <2> QED
    BY <2>1, <2>2, Zenon
<1>13. /\ watch'[w][s].on \in BOOLEAN /\ watch'[w][s].hold \in Seq(P)
       /\ ~watch'[w][s].on => watch'[w][s].hold = <<>>
       /\ seen'[w][s] = T /\ T \in Seq(P) /\ m # <<>>
       /\ watch'[w][s].on <=> Unmatched(m, U)
       /\ watch'[w][s].on =>
            watch'[w][s].hold = SubSeq(T, Len(T) - Overlap(m, U) + 1, Len(T))
  BY <1>2, <1>6, <1>7, <1>9, <1>10, <1>11, <1>12
<1>14. /\ watch'[w][s].on => phase' = phase
       /\ ~watch'[w][s].on =>
            phase' = IF w = "ready" THEN (IF phase = "Booting" THEN "Warmup" ELSE phase)
                     ELSE IF phase = "Warmup" THEN "Idle" ELSE phase
  BY <1>6, <1>9, <1>12
<1> QED
  BY <1>13, <1>14 DEF P, m, U, T, A, B
-----------------------------------------------------------------------------
(* The ready and warmup scanners.                                          *)

LEMMA DetectedOK ==
  ASSUME Shapes, NEW s \in Streams, NEW w, KeptBack(s, w)
  PROVE  StreamOK(s)'
<1>1. StreamOK(s)
  BY ShapesAre
<1>2. Elements(buf[s]) \subseteq Positions(s) /\ <<>> \in Seq(Positions(s))
  BY <1>1, ElementsIn DEF StreamOK
<1>3. own'[s] \subseteq Positions(s)
  BY <1>1, <1>2 DEF KeptBack, StreamOK
<1> QED
  BY <1>1, <1>2, <1>3, KeptOK DEF StreamOK, KeptBack

LEMMA DetectReadyOK ==
  ASSUME Shapes, Watching, NEW s \in Streams, DetectReady(s)
  PROVE  StreamOK(s)' /\ \A w \in {"ready", "warmup"} : WatchOK(w, s)'
<1>0. \A w \in {"ready", "warmup"} : WatchOK(w, s) /\ Watches(w, s)
  BY ShapesAre DEF Watching
<1>1. KeptBack(s, "ready") /\ taken'[s] = taken[s]
  BY DetectReadyIs DEF KeptBack
<1>2. Positions(s)' = Positions(s) /\ <<>> \in Seq(Positions(s))
  BY <1>1 DEF Positions
<1>3. WatchOK("warmup", s)'
  BY <1>0, <1>2, DetectReadyIs DEF WatchOK
<1>4. WatchOK("ready", s)'
  <2>1. CASE Fed(s, "ready")
    BY <1>0, <1>2, <2>1, FedIs DEF WatchOK
  <2>2. CASE ~Fed(s, "ready")
    <3>1. /\ watch'["ready"][s] = [on |-> FALSE, hold |-> <<>>]
          /\ seen'["ready"][s] = seen["ready"][s]
      BY <2>2, DetectReadyIs
    <3>2. watch'["ready"][s].on \in BOOLEAN /\ watch'["ready"][s].hold = <<>>
      BY <3>1
    <3> QED
      BY <1>0, <1>2, <3>1, <3>2 DEF WatchOK
  <2> QED
    BY <2>1, <2>2
<1> QED
  BY <1>1, <1>3, <1>4, DetectedOK

LEMMA DetectWarmupOK ==
  ASSUME Shapes, Watching, NEW s \in Streams, DetectWarmup(s)
  PROVE  StreamOK(s)' /\ \A w \in {"ready", "warmup"} : WatchOK(w, s)'
<1>0. \A w \in {"ready", "warmup"} : WatchOK(w, s) /\ Watches(w, s)
  BY ShapesAre DEF Watching
<1>1. KeptBack(s, "warmup") /\ taken'[s] = taken[s]
  BY DetectWarmupIs DEF KeptBack
<1>2. Positions(s)' = Positions(s)
  BY <1>1 DEF Positions
<1>3. WatchOK("ready", s)'
  BY <1>0, <1>2, DetectWarmupIs DEF WatchOK
<1>4. WatchOK("warmup", s)'
  <2>1. CASE Fed(s, "warmup")
    BY <1>0, <1>2, <2>1, FedIs DEF WatchOK
  <2>2. CASE ~Fed(s, "warmup")
    BY <1>0, <1>2, <2>2, DetectWarmupIs DEF WatchOK
  <2> QED
    BY <2>1, <2>2
<1> QED
  BY <1>1, <1>3, <1>4, DetectedOK

\* A scanner that is not fed stays as it is.
LEMMA SameWatches ==
  ASSUME NEW t \in Streams, NEW w \in {"ready", "warmup"}, StreamOK(t), WatchOK(w, t),
         Watches(w, t), Grown(t), Onward,
         watch'[w][t] = watch[w][t], seen'[w][t] = seen[w][t]
  PROVE  Watches(w, t)'
<1>1. Text(t, seen[w][t])' = Text(t, seen[w][t])
  <2>1. seen[w][t] \in Seq(Positions(t))
    BY DEF WatchOK
  <2>2. Text(t, seen[w][t])' = [k \in DOMAIN seen[w][t] |-> printed'[t][seen[w][t][k]].sym]
    BY DEF Text
  <2> QED
    BY <2>1, <2>2, GrownText
<1>2. /\ phase' = "Booting" => phase = "Booting"
      /\ phase' = "Warmup" => phase \in {"Booting", "Warmup"}
  BY DEF Onward
<1> DEFINE text == Text(t, seen[w][t])
           n    == Len(seen[w][t])
           m    == Watched[w][t]
<1>3. /\ watch[w][t].on =>
          /\ m # <<>> /\ Unmatched(m, text)
          /\ watch[w][t].hold = SubSeq(seen[w][t], n - Overlap(m, text) + 1, n)
      /\ ~watch[w][t].on /\ m # <<>> =>
          phase \notin IF w = "ready" THEN {"Booting"} ELSE {"Booting", "Warmup"}
  BY DEF Watches
<1>4. /\ watch'[w][t].on =>
          /\ m # <<>> /\ Unmatched(m, text)
          /\ watch'[w][t].hold = SubSeq(seen'[w][t], n - Overlap(m, text) + 1, n)
      /\ ~watch'[w][t].on /\ m # <<>> =>
          phase' \notin IF w = "ready" THEN {"Booting"} ELSE {"Booting", "Warmup"}
  <2> HIDE DEF text, n, m
  <2> QED
    BY <1>2, <1>3
<1> QED
  BY <1>1, <1>4 DEF Watches

\* A marker that has occurred has occurred.
LEMMA StillOccurred ==
  ASSUME Shapes, NEW w \in {"ready", "warmup"}, Occurred(w), \A t \in Streams : Grown(t),
         \A t \in Streams : seen'[w][t] = seen[w][t] \/ seen'[w][t] = seen[w][t] \o buf[t]
  PROVE  Occurred(w)'
<1>1. PICK t \in Streams : ~Unmatched(Watched[w][t], Text(t, seen[w][t]))
  BY DEF Occurred, Unmatched
<1> DEFINE A == seen[w][t]
           P == Positions(t)
           m == Watched[w][t]
<1>2. StreamOK(t) /\ A \in Seq(P) /\ buf[t] \in Seq(P) /\ m \in MarkerLists(Symbols[t])
  BY ShapesAre, MarkersListed DEF WatchOK, StreamOK
<1>3. A \o buf[t] \in Seq(P)
  BY <1>2, JoinIs
<1>4. ASSUME NEW at \in Seq(P), seen'[w][t] = at
      PROVE  Text(t, seen[w][t])' = Text(t, at)
  <2>1. Text(t, seen[w][t])' = [k \in DOMAIN at |-> printed'[t][at[k]].sym]
    BY <1>4 DEF Text
  <2> QED
    BY <1>2, <2>1, GrownText
<1>5. CASE seen'[w][t] = A
  BY <1>1, <1>2, <1>4, <1>5 DEF Occurred, Unmatched, Watched
<1>6. CASE seen'[w][t] = A \o buf[t]
  <2> DEFINE x == Text(t, A)
             T == A \o buf[t]
             y == Text(t, T)
  <2>0. Len(A) \in Nat
    BY <1>2, LenProperties
  <2>1. x \in Seq(Symbols[t]) /\ y \in Seq(Symbols[t]) /\ Begins(x, y)
    <3>1. 0 \in 0..Len(A)
      BY <2>0
    <3> QED
      BY <1>2, <3>1, HeldText
  <2>2. ~Unmatched(m, y)
    <3> HIDE DEF x, y, m, A
    <3>1. ~Unmatched(m, x)
      BY <1>1 DEF x, m, A
    <3> QED
      BY <1>2, <2>1, <3>1, StillMatched
  <2>3. Text(t, seen[w][t])' = y
    BY <1>3, <1>4, <1>6
  <2> HIDE DEF y
  <2> QED
    BY <2>2, <2>3 DEF Occurred, Unmatched, Watched
<1> QED
  BY <1>5, <1>6
LEMMA WatchingUnfed ==
  ASSUME Shapes, Watching, Onward, UNCHANGED <<watch, seen, bound>>, \A t \in Streams : Grown(t),
         phase \in {"Booting", "Warmup"} => phase' \in {phase, "Stopped"},
         \A t \in Streams : ppc'[t] = "warmup" => ppc[t] = "warmup" \/ phase = "Warmup"
  PROVE  Watching'
<1>1. /\ \A t \in Streams : StreamOK(t)
      /\ \A t \in Streams : \A w \in {"ready", "warmup"} : WatchOK(w, t)
      /\ phase \in Phases /\ phase' \in Phases
  BY ShapesAre DEF Globals, CoreTypeOK, Onward
<1>2. \A t \in Streams : \A w \in {"ready", "warmup"} : Watches(w, t)'
  BY <1>1, SameWatches DEF Watching
<1>3. \A t \in Streams : ppc'[t] = "warmup" => phase' # "Booting"
  BY DEF Watching, Onward
<1>4. Occurred("ready") => Occurred("ready")'
  BY StillOccurred
<1>5. Occurred("warmup") => Occurred("warmup")'
  BY StillOccurred
<1>6. /\ bound.first = "Booting" /\ phase \notin {"Booting", "Stopped"} => Occurred("ready")
      /\ bound.first # "Idle" /\ phase \in {"Idle", "Busy", "Draining"} => Occurred("warmup")
  BY DEF Watching
<1>7. /\ phase' \notin {"Booting", "Stopped"} => phase \notin {"Booting", "Stopped"}
      /\ phase' \in {"Idle", "Busy", "Draining"} => phase \in {"Idle", "Busy", "Draining"}
  BY <1>1 DEF Onward, Phases
<1>8. /\ bound'.first = "Booting" /\ phase' \notin {"Booting", "Stopped"} => Occurred("ready")'
      /\ bound'.first # "Idle" /\ phase' \in {"Idle", "Busy", "Draining"} => Occurred("warmup")'
  BY <1>4, <1>5, <1>6, <1>7
<1> QED
  BY <1>2, <1>3, <1>8 DEF Watching

LEMMA WatchingDetect ==
  ASSUME Shapes, Watching, Onward, NEW s \in Streams, NEW w \in {"ready", "warmup"},
         NEW v \in {"ready", "warmup"}, v # w,
         KeptBack(s, w), watch'[v][s] = watch[v][s], seen'[v][s] = seen[v][s],
         \/ w = "ready" /\ phase = "Booting" /\ Fed(s, w)
         \/ w = "warmup" /\ Fed(s, w)
         \/ /\ UNCHANGED core /\ seen'[w][s] = seen[w][s]
            /\ \/ watch'[w][s] = watch[w][s]
               \/ /\ w = "ready" /\ watch'[w][s] = [on |-> FALSE, hold |-> <<>>]
                  /\ watch[w][s].on => phase # "Booting"
  PROVE  Watching'
<1>0. {"ready", "warmup"} = {v, w}
  OBVIOUS
<1>1. /\ \A t \in Streams : StreamOK(t)
      /\ \A t \in Streams : \A u \in {"ready", "warmup"} : WatchOK(u, t) /\ Watches(u, t)
      /\ phase \in Phases /\ phase' \in Phases
  BY ShapesAre DEF Globals, CoreTypeOK, Onward, Watching
<1>2. /\ Grown(s) /\ \A t \in Streams \ {s} : Same(t)
      /\ ppc'[s] = "read" /\ bound' = bound
      /\ ppc[s] = w
  BY DEF KeptBack
<1>3. \A t \in Streams : Grown(t)
  BY <1>2 DEF Same
<1>4. ASSUME NEW t \in Streams, NEW u \in {"ready", "warmup"}, t # s \/ u = v
      PROVE  Watches(u, t)' /\ seen'[u][t] = seen[u][t]
  <2>1. watch'[u][t] = watch[u][t] /\ seen'[u][t] = seen[u][t]
    BY <1>2, <1>4 DEF Same
  <2> QED
    BY <1>1, <1>3, <2>1, SameWatches
<1>5. /\ Watches(w, s)'
      /\ seen'[w][s] = seen[w][s] \/ seen'[w][s] = seen[w][s] \o buf[s]
      /\ \/ phase' = phase
         \/ /\ Watched[w][s] # <<>> /\ ~Unmatched(Watched[w][s], Text(s, seen[w][s])')
            /\ \/ w = "ready" /\ phase = "Booting" /\ phase' = "Warmup"
               \/ w = "warmup" /\ phase = "Warmup" /\ phase' = "Idle"
  <2>1. CASE Fed(s, w)
    <3> DEFINE m == Watched[w][s]
               T == seen[w][s] \o buf[s]
               U == Text(s, T)
    <3>1. /\ watch'[w][s].on \in BOOLEAN
          /\ seen'[w][s] = T /\ T \in Seq(Positions(s)) /\ m # <<>>
          /\ watch'[w][s].on <=> Unmatched(m, U)
          /\ watch'[w][s].on =>
               watch'[w][s].hold = SubSeq(T, Len(T) - Overlap(m, U) + 1, Len(T))
          /\ watch'[w][s].on => phase' = phase
          /\ ~watch'[w][s].on =>
               phase' = IF w = "ready" THEN (IF phase = "Booting" THEN "Warmup" ELSE phase)
                        ELSE IF phase = "Warmup" THEN "Idle" ELSE phase
      BY <1>1, <2>1, FedIs
    <3>2. Text(s, seen[w][s])' = U
      <4>1. Text(s, seen[w][s])' = [k \in DOMAIN T |-> printed'[s][T[k]].sym]
        BY <3>1 DEF Text
      <4> QED
        BY <1>1, <1>2, <3>1, <4>1, GrownText
    <3>3. w = "warmup" => phase # "Booting"
      BY <1>2 DEF Watching
    <3>4. w = "ready" => phase = "Booting" \/ phase' = phase
      BY DEF core
    <3> HIDE DEF T, U, m
    <3>5. ~watch'[w][s].on => phase' \notin IF w = "ready" THEN {"Booting"} ELSE {"Booting", "Warmup"}
      BY <3>1, <3>3
    <3>6. Watches(w, s)' <=>
            /\ watch'[w][s].on =>
                 /\ m # <<>> /\ Unmatched(m, U)
                 /\ watch'[w][s].hold = SubSeq(T, Len(T) - Overlap(m, U) + 1, Len(T))
            /\ ~watch'[w][s].on /\ m # <<>> =>
                 phase' \notin IF w = "ready" THEN {"Booting"} ELSE {"Booting", "Warmup"}
      <4>1. seen'[w][s] = T
        BY <3>1
      <4> QED
        BY <3>2, <4>1, Zenon DEF Watches, Watched, m
    <3>7. Watches(w, s)'
      BY <3>1, <3>5, <3>6
    <3>8. seen'[w][s] = seen[w][s] \o buf[s]
      BY <3>1 DEF T
    <3>9. \/ phase' = phase
          \/ /\ m # <<>> /\ ~Unmatched(m, U)
             /\ \/ w = "ready" /\ phase = "Booting" /\ phase' = "Warmup"
                \/ w = "warmup" /\ phase = "Warmup" /\ phase' = "Idle"
      <4>1. CASE watch'[w][s].on
        BY <3>1, <4>1
      <4>2. CASE ~watch'[w][s].on
        <5>1. m # <<>> /\ ~Unmatched(m, U)
          BY <3>1, <4>2, Zenon
        <5>2. \/ phase' = phase
              \/ w = "ready" /\ phase = "Booting" /\ phase' = "Warmup"
              \/ w = "warmup" /\ phase = "Warmup" /\ phase' = "Idle"
          BY <3>1, <4>2
        <5> QED
          BY <5>1, <5>2
      <4> QED
        BY <4>1, <4>2
    <3> QED
      BY <3>2, <3>7, <3>8, <3>9 DEF m
  <2>2. CASE /\ UNCHANGED core /\ seen'[w][s] = seen[w][s] /\ watch'[w][s] = watch[w][s]
    BY <1>1, <1>3, <2>2, SameWatches DEF core
  <2>3. CASE /\ UNCHANGED core /\ seen'[w][s] = seen[w][s]
             /\ w = "ready" /\ watch'[w][s] = [on |-> FALSE, hold |-> <<>>]
             /\ watch[w][s].on => phase # "Booting"
    <3>1. watch'[w][s].on = FALSE /\ phase' = phase
      BY <2>3 DEF core
    <3>2. ~watch[w][s].on /\ Watched[w][s] # <<>> => phase # "Booting"
      BY <1>1, <2>3 DEF Watches
    <3>3. Watched[w][s] # <<>> => phase' # "Booting"
      BY <2>3, <3>1, <3>2
    <3>4. Watches(w, s)'
      BY <2>3, <3>1, <3>3 DEF Watches, Watched
    <3> QED
      BY <2>3, <3>1, <3>4
  <2> QED
    BY <2>1, <2>2, <2>3
<1>6. \A t \in Streams : \A u \in {"ready", "warmup"} : Watches(u, t)'
  <2> SUFFICES ASSUME NEW t \in Streams, NEW u \in {"ready", "warmup"} PROVE Watches(u, t)'
    OBVIOUS
  <2>1. CASE t = s /\ u = w
    BY <1>5, <2>1
  <2>2. CASE ~(t = s /\ u = w)
    BY <1>4, <2>2
  <2> QED
    BY <2>1, <2>2
<1>7. \A t \in Streams : ppc'[t] = "warmup" => phase' # "Booting"
  BY <1>2 DEF Watching, Onward, Same
<1>8. ASSUME NEW u \in {"ready", "warmup"}, Occurred(u) PROVE Occurred(u)'
  <2>1. \A t \in Streams : seen'[u][t] = seen[u][t] \/ seen'[u][t] = seen[u][t] \o buf[t]
    BY <1>0, <1>4, <1>5
  <2> QED
    BY <1>3, <1>8, <2>1, StillOccurred
<1>9. ~Unmatched(Watched[w][s], Text(s, seen[w][s])') => Occurred(w)'
  BY DEF Occurred, Unmatched, Watched
<1>10. /\ bound.first = "Booting" /\ phase \notin {"Booting", "Stopped"} => Occurred("ready")
       /\ bound.first # "Idle" /\ phase \in {"Idle", "Busy", "Draining"} => Occurred("warmup")
  BY DEF Watching
<1>11. /\ bound'.first = "Booting" /\ phase' \notin {"Booting", "Stopped"} => Occurred("ready")'
       /\ bound'.first # "Idle" /\ phase' \in {"Idle", "Busy", "Draining"} => Occurred("warmup")'
  <2>1. CASE phase' = phase
    BY <1>2, <1>8, <1>10, <2>1
  <2>2. CASE phase' # phase
    <3>1. /\ Occurred(w)'
          /\ \/ w = "ready" /\ phase = "Booting" /\ phase' = "Warmup"
             \/ w = "warmup" /\ phase = "Warmup" /\ phase' = "Idle"
      BY <1>5, <1>9, <2>2
    <3> QED
      BY <1>2, <1>8, <1>10, <3>1
  <2> QED
    BY <2>1, <2>2
<1> QED
  BY <1>6, <1>7, <1>11 DEF Watching

LEMMA WatchingStep ==
  ASSUME Shapes, Watching, Step
  PROVE  Watching'
<1>1. CASE Around
  <2>1. /\ bound' = bound /\ watch' = watch /\ seen' = seen /\ \A t \in Streams : Same(t)
    BY <1>1, AroundIs
  <2>2. \A t \in Streams : Grown(t) /\ ppc'[t] = ppc[t]
    BY <2>1 DEF Same
  <2> QED
    BY <1>1, <2>1, <2>2, AroundOnward, WatchingUnfed
<1>2. ASSUME NEW s \in Streams, Pump(s) PROVE Watching'
  <2>0. /\ Onward /\ bound' = bound /\ \A t \in Streams \ {s} : Same(t)
    BY <1>2, PumpOnward
  <2>1. ASSUME UNCHANGED <<watch, seen>>, Grown(s),
               phase \in {"Booting", "Warmup"} => phase' = phase,
               ppc'[s] = "warmup" => phase = "Warmup"
        PROVE  Watching'
    <3>1. \A t \in Streams : Grown(t) /\ (ppc'[t] = "warmup" => ppc[t] = "warmup" \/ phase = "Warmup")
      BY <2>0, <2>1 DEF Same
    <3> QED
      BY <2>0, <2>1, <3>1, WatchingUnfed
  <2>2. CASE \E n \in 1..(Len(printed[s]) - taken[s]) : ReadChunk(s, n)
    <3>0. PICK n \in 1..(Len(printed[s]) - taken[s]) : ReadChunk(s, n)
      BY <2>2
    <3>1. /\ Grown(s) /\ UNCHANGED <<watch, seen>> /\ phase' = phase
          /\ ppc'[s] = CASE phase = "Booting"              -> "ready"
                         [] phase = "Warmup"               -> "warmup"
                         [] phase \in {"Busy", "Draining"} -> "scan"
                         [] phase = "Idle" /\ serving      -> "tail"
                         [] OTHER                          -> "read"
      BY <3>0, ReadChunkIs DEF core
    <3>2. ppc'[s] = "warmup" => phase = "Warmup"
      BY <3>1
    <3> QED
      BY <2>1, <3>1, <3>2
  <2>3. CASE DetectReady(s)
    BY <2>0, <2>3, DetectReadyIs, WatchingDetect
  <2>4. CASE DetectWarmup(s)
    BY <2>0, <2>4, DetectWarmupIs, WatchingDetect
  <2>5. CASE ScanResponse(s)
    <3>1. Grown(s) /\ UNCHANGED <<watch, seen>> /\ phase' = phase /\ ppc'[s] = "route"
      BY <2>5, ScanResponseIs DEF PumpOnly, core
    <3> QED
      BY <2>1, <3>1
  <2>6. CASE Route(s)
    <3>1. Grown(s) /\ UNCHANGED <<watch, seen>> /\ phase' = phase /\ ppc'[s] \in {"read", "end"}
      BY <2>6, RouteIs DEF PumpOnly, core
    <3> QED
      BY <2>1, <3>1
  <2>7. CASE EndResponse(s)
    <3>1. /\ Grown(s) /\ UNCHANGED <<watch, seen>> /\ ppc'[s] = "read"
          /\ phase' = IF phase \in {"Busy", "Draining"} THEN "Idle" ELSE phase
      BY <2>7, EndResponseIs
    <3> QED
      BY <2>1, <3>1
  <2>8. CASE EndOfStream(s)
    <3>1. Grown(s) /\ UNCHANGED <<watch, seen>> /\ phase' = phase /\ ppc'[s] = "done"
      BY <2>8, EndOfStreamIs DEF PumpOnly, core
    <3> QED
      BY <2>1, <3>1
  <2> QED
    BY <1>2, <2>2, <2>3, <2>4, <2>5, <2>6, <2>7, <2>8 DEF Pump
<1> QED
  BY <1>1, <1>2 DEF Step
-----------------------------------------------------------------------------
(* Where the symbols of the acting stream are.                             *)

LEMMA EmptyIn == \A i : ~In(<<>>, i)
BY DEF In

\* What a response scanner does keeps each symbol in one place, and in order.
LEMMA SplitIs ==
  ASSUME NEW s \in Streams, StreamOK(s), NEW text \in Seq(Positions(s)), Increasing(text),
         NEW n, NEW E, NEW C, SplitUp(s, text, n, E, C)
  PROVE  /\ \A i : /\ In(text, i) <=> \/ In(buf'[s], i) \/ In(hold'[s], i)
                                      \/ \E k \in C : text[k] = i
                   /\ ~(In(buf'[s], i) /\ In(hold'[s], i))
                   /\ ~(In(buf'[s], i) /\ \E k \in C : text[k] = i)
                   /\ ~(In(hold'[s], i) /\ \E k \in C : text[k] = i)
         /\ Increasing(buf'[s]) /\ Increasing(hold'[s]) /\ Before(buf'[s], hold'[s])
<1> DEFINE m == Len(text)
           P == Positions(s)
<1>0. P \subseteq Nat
  BY DEF Positions, StreamOK
<1>1. m \in Nat /\ DOMAIN text = 1..m /\ P \subseteq Nat /\ \A k \in 1..m : text[k] \in P
  BY <1>0, LenProperties, ElementOfSeq
<1>2. /\ n \in 0..m /\ E \cup C = 1..n /\ E \cap C = {}
      /\ \A i : In(buf'[s], i) <=> \E k \in E : text[k] = i
      /\ DOMAIN hold'[s] = 1..(m - n) /\ \A j \in 1..(m - n) : hold'[s][j] = text[n + j]
      /\ Increasing(buf'[s])
  BY DEF SplitUp
<1> HIDE DEF m, P
<1>3. E \subseteq 1..n /\ C \subseteq 1..n /\ E \subseteq 1..m /\ C \subseteq 1..m
  BY <1>1, <1>2
<1>4. \A j, k \in 1..m : text[j] = text[k] => j = k
  BY <1>1, IncreasingApart DEF P
<1>5. \A i : In(hold'[s], i) <=> \E k \in 1..m : n < k /\ text[k] = i
  <2> TAKE i
  <2>1. ASSUME NEW j \in 1..(m - n), hold'[s][j] = i
        PROVE  \E k \in 1..m : n < k /\ text[k] = i
    <3>1. n + j \in 1..m /\ n < n + j
      BY <1>1, <1>2
    <3> QED
      BY <1>2, <2>1, <3>1
  <2>2. ASSUME NEW k \in 1..m, n < k, text[k] = i
        PROVE  \E j \in 1..(m - n) : hold'[s][j] = i
    <3>1. k - n \in 1..(m - n) /\ n + (k - n) = k
      BY <1>1, <1>2, <2>2
    <3> QED
      BY <1>2, <2>2, <3>1
  <2> QED
    BY <1>2, <2>1, <2>2 DEF In
<1>6. ASSUME NEW i
      PROVE  /\ In(text, i) <=> \/ In(buf'[s], i) \/ In(hold'[s], i)
                                \/ \E k \in C : text[k] = i
             /\ ~(In(buf'[s], i) /\ In(hold'[s], i))
             /\ ~(In(buf'[s], i) /\ \E k \in C : text[k] = i)
             /\ ~(In(hold'[s], i) /\ \E k \in C : text[k] = i)
  <2>1. In(text, i) <=> \E k \in 1..m : text[k] = i
    BY <1>1 DEF In
  <2>2. \A k \in 1..m : k \in E \/ k \in C \/ n < k
    BY <1>1, <1>2
  <2>3. \A k \in 1..n : ~(n < k)
    BY <1>1, <1>2
  <2>4. In(text, i) <=> \/ In(buf'[s], i) \/ In(hold'[s], i) \/ \E k \in C : text[k] = i
    BY <1>2, <1>3, <1>5, <2>1, <2>2
  <2>5. ~(In(buf'[s], i) /\ In(hold'[s], i))
    BY <1>2, <1>3, <1>4, <1>5, <2>3
  <2>6. ~(In(buf'[s], i) /\ \E k \in C : text[k] = i)
    BY <1>2, <1>3, <1>4
  <2>7. ~(In(hold'[s], i) /\ \E k \in C : text[k] = i)
    BY <1>3, <1>4, <1>5, <2>3
  <2> QED
    BY <2>4, <2>5, <2>6, <2>7
<1>7. Increasing(hold'[s])
  <2> SUFFICES ASSUME NEW j \in 1..(m - n), NEW k \in 1..(m - n), j < k
               PROVE  hold'[s][j] < hold'[s][k]
    BY <1>2 DEF Increasing
  <2>1. n + j \in 1..m /\ n + k \in 1..m /\ n + j < n + k
    BY <1>1, <1>2
  <2>2. text[n + j] < text[n + k]
    BY <1>1, <2>1 DEF Increasing
  <2> QED
    BY <1>2, <2>2
<1>8. Before(buf'[s], hold'[s])
  <2> SUFFICES ASSUME NEW j \in DOMAIN buf'[s], NEW k \in DOMAIN hold'[s]
               PROVE  buf'[s][j] < hold'[s][k]
    BY DEF Before
  <2>1. PICK x \in E : text[x] = buf'[s][j]
    BY <1>2 DEF In
  <2>2. PICK y \in 1..m : n < y /\ text[y] = hold'[s][k]
    BY <1>5 DEF In
  <2>3. x \in 1..m /\ x < y
    BY <1>1, <1>2, <1>3, <2>2
  <2> QED
    BY <1>1, <2>1, <2>2, <2>3 DEF Increasing
<1> QED
  BY <1>2, <1>6, <1>7, <1>8

\* The chunk a scanner begins with and what it holds back of the chunks before.
LEMMA HeldInOrder ==
  ASSUME NEW s \in Streams, StreamOK(s), InOrder(s), ppc[s] = "scan"
  PROVE  /\ <<>> \o buf[s] = buf[s] /\ buf[s] \in Seq(Positions(s)) /\ Increasing(buf[s])
         /\ hold[s] \o buf[s] \in Seq(Positions(s)) /\ Increasing(hold[s] \o buf[s])
         /\ \A i : In(hold[s] \o buf[s], i) <=> In(hold[s], i) \/ In(buf[s], i)
<1>1. /\ buf[s] \in Seq(Positions(s)) /\ hold[s] \in Seq(Positions(s))
      /\ Positions(s) \subseteq Nat
  BY DEF StreamOK, Positions
<1>2. Increasing(buf[s]) /\ Increasing(hold[s]) /\ Before(hold[s], buf[s])
  BY DEF InOrder
<1>3. <<>> \o buf[s] = buf[s]
  BY <1>1, ConcatEmptySeq
<1> QED
  BY <1>1, <1>2, <1>3, JoinIs, JoinIncreasing

LEMMA ScanResponsePlaced ==
  ASSUME Shapes, NEW s \in Streams, Placed(s), InOrder(s), ScanResponse(s)
  PROVE  Placed(s)'
<1>1. StreamOK(s)
  BY ShapesAre
<1>2. /\ ppc[s] = "scan" /\ taken'[s] = taken[s] /\ undelivered'[s] = undelivered[s]
      /\ \A c \in Clients : got'[c][s] = got[c][s]
      /\ \/ /\ Responded(s, <<>>, Fresh) /\ own'[s] = own[s] \cup Elements(hold[s])
         \/ /\ Responded(s, hold[s], log[s]) /\ own'[s] = own[s]
  BY ScanResponseIs
<1>3. /\ hold[s] \in Seq(Positions(s)) /\ log[s].text \in Seq(Positions(s))
      /\ <<>> \in Seq(Positions(s)) /\ Fresh.text \in Seq(Positions(s))
  BY <1>1 DEF StreamOK, Fresh
<1>4. Positions(s)' = Positions(s)
  BY <1>2 DEF Positions
<1>5. \A i : /\ Sent(s, i)' <=> Sent(s, i)
             /\ \A c \in Clients : In(got[c][s], i)' <=> In(got[c][s], i)
  BY <1>2 DEF Sent, In
<1>6. CASE Responded(s, <<>>, Fresh) /\ own'[s] = own[s] \cup Elements(hold[s])
  <2>1. \E n, E, C : SplitUp(s, buf[s], n, E, C)
    <3> DEFINE text == <<>> \o buf[s]
    <3>1. text = buf[s]
      BY <1>1, <1>2, HeldInOrder
    <3>2. \E n, E, C : SplitUp(s, text, n, E, C)
      BY <1>1, <1>3, <1>6, RespondedIs, Zenon
    <3> HIDE DEF text
    <3> QED
      BY <3>1, <3>2
  <2>2. PICK n, E, C : SplitUp(s, buf[s], n, E, C)
    BY <2>1
  <2>3. \A i : /\ In(buf[s], i) <=> \/ In(buf'[s], i) \/ In(hold'[s], i)
                                    \/ \E k \in C : buf[s][k] = i
               /\ ~(In(buf'[s], i) /\ In(hold'[s], i))
               /\ ~(In(buf'[s], i) /\ \E k \in C : buf[s][k] = i)
               /\ ~(In(hold'[s], i) /\ \E k \in C : buf[s][k] = i)
    BY <1>1, <1>2, <2>2, SplitIs, HeldInOrder
  <2>4. \A i : i \in stripped'[s] <=> i \in stripped[s] \/ \E k \in C : buf[s][k] = i
    BY <2>2 DEF SplitUp
  <2>5. \A i : i \in own'[s] <=> i \in own[s] \/ In(hold[s], i)
    BY <1>6, InElements
  <2> QED
    BY <1>2, <1>4, <1>5, <2>3, <2>4, <2>5 DEF Placed
<1>7. CASE Responded(s, hold[s], log[s]) /\ own'[s] = own[s]
  <2> DEFINE text == hold[s] \o buf[s]
  <2>1. \E n, E, C : SplitUp(s, text, n, E, C)
    BY <1>1, <1>3, <1>7, RespondedIs
  <2>2. /\ text \in Seq(Positions(s)) /\ Increasing(text)
        /\ \A i : In(text, i) <=> In(hold[s], i) \/ In(buf[s], i)
    BY <1>1, <1>2, HeldInOrder
  <2> HIDE DEF text
  <2>3. PICK n, E, C : SplitUp(s, text, n, E, C)
    BY <2>1
  <2>4. \A i : /\ In(text, i) <=> \/ In(buf'[s], i) \/ In(hold'[s], i)
                                  \/ \E k \in C : text[k] = i
               /\ ~(In(buf'[s], i) /\ In(hold'[s], i))
               /\ ~(In(buf'[s], i) /\ \E k \in C : text[k] = i)
               /\ ~(In(hold'[s], i) /\ \E k \in C : text[k] = i)
    BY <1>1, <2>2, <2>3, SplitIs
  <2>5. \A i : i \in stripped'[s] <=> i \in stripped[s] \/ \E k \in C : text[k] = i
    BY <2>3 DEF SplitUp
  <2> QED
    BY <1>2, <1>4, <1>5, <1>7, <2>2, <2>4, <2>5 DEF Placed
<1> QED
  BY <1>2, <1>6, <1>7
\* A step that only reads the next n symbols.
LEMMA ReadChunkPlaced ==
  ASSUME Shapes, NEW s \in Streams, Placed(s), InOrder(s),
         NEW n \in 1..(Len(printed[s]) - taken[s]), ReadChunk(s, n), Onward
  PROVE  Placed(s)' /\ InOrder(s)'
<1> DEFINE chunk == [k \in 1..n |-> taken[s] + k]
           P == Positions(s)
<1>1. StreamOK(s) /\ Globals
  BY ShapesAre
<1>2. /\ ppc[s] = "read" /\ taken'[s] = taken[s] + n /\ phase' = phase /\ reqSeq' = reqSeq
      /\ \/ ppc'[s] = "read" /\ buf'[s] = <<>> /\ own'[s] = own[s] \cup Elements(chunk)
         \/ ppc'[s] # "read" /\ buf'[s] = chunk /\ own'[s] = own[s]
      /\ hold'[s] = hold[s] /\ stripped'[s] = stripped[s] /\ undelivered'[s] = undelivered[s]
      /\ \A c \in Clients : got'[c][s] = got[c][s]
      /\ scanned'[s] = scanned[s]
  BY ReadChunkIs DEF core
<1>3. /\ ppc'[s] \in {"scan", "route"} => phase \in Answering
      /\ ppc'[s] = "tail" => phase \notin Answering
      /\ ppc'[s] # "route"
  <2>1. ppc'[s] = CASE phase = "Booting"              -> "ready"
                    [] phase = "Warmup"               -> "warmup"
                    [] phase \in {"Busy", "Draining"} -> "scan"
                    [] phase = "Idle" /\ serving      -> "tail"
                    [] OTHER                          -> "read"
    BY ReadChunkIs
  <2> QED
    BY <2>1 DEF Answering
<1>4. /\ taken[s] \in Nat /\ n \in Nat /\ P = 1..taken[s] /\ P' = 1..(taken[s] + n)
      /\ P \subseteq Nat
  BY <1>1, <1>2 DEF StreamOK, Positions
<1>5. /\ buf[s] = <<>> /\ hold[s] \in Seq(P) /\ \A c \in Clients : got[c][s] \in Seq(P)
      /\ own[s] \subseteq P /\ stripped[s] \subseteq P /\ undelivered[s] \subseteq P
  BY <1>1, <1>2 DEF StreamOK
<1>6. \A i : In(chunk, i) <=> i \in P' /\ i \notin P
  <2> TAKE i
  <2>1. In(chunk, i) <=> \E k \in 1..n : taken[s] + k = i
    BY DEF In
  <2>2. ASSUME NEW k \in 1..n, taken[s] + k = i PROVE i \in P' /\ i \notin P
    BY <1>4, <2>2
  <2>3. ASSUME i \in P', i \notin P PROVE \E k \in 1..n : taken[s] + k = i
    <3>1. i - taken[s] \in 1..n /\ taken[s] + (i - taken[s]) = i
      BY <1>4, <2>3
    <3> QED
      BY <3>1
  <2> QED
    BY <2>1, <2>2, <2>3
<1>7. Increasing(chunk) /\ Increasing(<<>>)
  BY <1>4 DEF Increasing
<1>8. ASSUME NEW q \in Seq(P) PROVE /\ \A i : In(q, i) => i \in P
                                    /\ Before(q, chunk) /\ Before(q, <<>>)
  <2>1. Len(q) \in Nat /\ DOMAIN q = 1..Len(q) /\ \A k \in 1..Len(q) : q[k] \in P
    BY <1>8, LenProperties, ElementOfSeq
  <2>2. \A i : In(q, i) => i \in P
    BY <2>1 DEF In
  <2>3. \A j \in DOMAIN q, k \in 1..n : q[j] < taken[s] + k
    BY <1>4, <2>1
  <2> QED
    BY <2>2, <2>3 DEF Before
<1> HIDE DEF chunk, P
<1>9. /\ \A c \in Clients : Before(got[c][s], buf'[s])
      /\ Before(hold[s], buf'[s]) /\ Increasing(buf'[s])
  BY <1>2, <1>5, <1>7, <1>8
<1>10. /\ \A i : /\ In(hold[s], i) => i \in P
                 /\ Sent(s, i) => i \in P
  BY <1>5, <1>8 DEF Sent
<1>11. \A i : /\ Sent(s, i)' <=> Sent(s, i)
              /\ \A c \in Clients : In(got[c][s], i)' <=> In(got[c][s], i)
  BY <1>2 DEF Sent, In
<1>12. \A i : /\ In(buf'[s], i) => i \in P' /\ i \notin P
              /\ i \in own'[s] <=> i \in own[s] \/ (i \in P' /\ i \notin P /\ ~In(buf'[s], i))
              /\ ~In(buf[s], i)
  BY <1>2, <1>5, <1>6, EmptyIn, InElements
<1>13. Placed(s)'
  <2> SUFFICES ASSUME NEW i \in P'
      PROVE
      /\ \/ In(buf'[s], i) \/ In(hold[s], i) \/ Sent(s, i)
         \/ i \in own'[s] \/ i \in stripped[s] \/ i \in undelivered[s]
      /\ In(buf'[s], i) => ~(In(hold[s], i) \/ Sent(s, i) \/ i \in own'[s] \/ i \in stripped[s]
                                           \/ i \in undelivered[s])
      /\ In(hold[s], i) => ~(Sent(s, i) \/ i \in own'[s] \/ i \in stripped[s]
                               \/ i \in undelivered[s])
      /\ Sent(s, i) => ~(i \in own'[s] \/ i \in stripped[s] \/ i \in undelivered[s])
      /\ i \in own'[s] => ~(i \in stripped[s] \/ i \in undelivered[s])
      /\ ~(i \in stripped[s] /\ i \in undelivered[s])
      /\ \A c, d \in Clients : In(got[c][s], i) /\ In(got[d][s], i) => c = d
    BY <1>2, <1>11 DEF Placed, P
  <2>1. CASE i \in P
    BY <1>12, <2>1 DEF Placed, P
  <2>2. CASE i \notin P
    <3>1. ~In(hold[s], i) /\ ~Sent(s, i) /\ i \notin own[s] /\ i \notin stripped[s]
          /\ i \notin undelivered[s]
      BY <1>5, <1>10, <2>2
    <3>2. \A c \in Clients : ~In(got[c][s], i)
      BY <3>1 DEF Sent
    <3> QED
      BY <1>12, <2>2, <3>1, <3>2
  <2> QED
    BY <2>1, <2>2
<1>14. InOrder(s)'
  <2>1. Live(s)' => Live(s)
    BY <1>2, <1>3 DEF Live, Answering
  <2>2. ppc'[s] = "tail" => ~Live(s)'
    BY <1>2, <1>3 DEF Live, Answering
  <2>3. (\A c \in Clients : Increasing(got'[c][s]) /\ Before(got'[c][s], buf'[s]))
        /\ Increasing(hold'[s])
        /\ (Live(s)' => \A c \in Clients : Before(got'[c][s], hold'[s]))
    BY <1>2, <1>9, <2>1 DEF InOrder
  <2> QED
    BY <1>2, <1>3, <1>9, <2>2, <2>3 DEF InOrder, Increasing, Before
<1> QED
  BY <1>13, <1>14

\* The chunk is kept by the server.
LEMMA KeptBackPlaced ==
  ASSUME Shapes, NEW s \in Streams, NEW w \in {"ready", "warmup"}, Placed(s), InOrder(s),
         KeptBack(s, w), phase' \in Answering => phase \in Answering
  PROVE  Placed(s)' /\ InOrder(s)'
<1>1. StreamOK(s)
  BY ShapesAre
<1>2. /\ ppc[s] = w /\ ppc'[s] = "read" /\ buf'[s] = <<>>
      /\ own'[s] = own[s] \cup Elements(buf[s])
      /\ taken'[s] = taken[s] /\ hold'[s] = hold[s]
      /\ scanned'[s] = scanned[s] /\ reqSeq' = reqSeq
      /\ stripped'[s] = stripped[s] /\ undelivered'[s] = undelivered[s]
      /\ \A c \in Clients : got'[c][s] = got[c][s]
  BY DEF KeptBack
<1>3. \A i : /\ Sent(s, i)' <=> Sent(s, i)
             /\ \A c \in Clients : In(got[c][s], i)' <=> In(got[c][s], i)
             /\ i \in own'[s] <=> i \in own[s] \/ In(buf[s], i)
             /\ ~In(buf'[s], i) /\ (In(hold'[s], i) <=> In(hold[s], i))
  BY <1>2, EmptyIn, InElements DEF Sent, In
<1>4. Positions(s)' = Positions(s)
  BY <1>2 DEF Positions
<1>5. Placed(s)'
  BY <1>2, <1>3, <1>4 DEF Placed
<1>6. Live(s)' => Live(s)
  BY <1>2 DEF Live, Answering
<1>7. /\ \A c \in Clients : Increasing(got'[c][s]) /\ Before(got'[c][s], buf'[s])
      /\ Increasing(hold'[s]) /\ Increasing(buf'[s])
      /\ Live(s)' => \A c \in Clients : Before(got'[c][s], hold'[s])
  BY <1>2, <1>6 DEF InOrder, Before, Increasing
<1>8. InOrder(s)'
  BY <1>2, <1>7 DEF InOrder, Before, Increasing
<1> QED
  BY <1>5, <1>8

LEMMA RoutePlaced ==
  ASSUME Shapes, NEW s \in Streams, Placed(s), InOrder(s), Route(s)
  PROVE  Placed(s)' /\ InOrder(s)'
<1> DEFINE P == Positions(s)
<1>1. StreamOK(s)
  BY ShapesAre
<1>2. /\ reqSeq' = reqSeq /\ phase' = phase
      /\ ppc[s] \in {"route", "tail"} /\ ppc'[s] \in {"read", "end"} /\ buf'[s] = <<>>
      /\ taken'[s] = taken[s] /\ hold'[s] = hold[s]
      /\ scanned'[s] = scanned[s] /\ stripped'[s] = stripped[s]
      /\ \/ /\ own'[s] = own[s] \cup Elements(buf[s]) /\ undelivered'[s] = undelivered[s]
            /\ \A c \in Clients : got'[c][s] = got[c][s]
         \/ /\ sink \in Clients /\ got'[sink][s] = got[sink][s] \o buf[s]
            /\ \A c \in Clients \ {sink} : got'[c][s] = got[c][s]
            /\ own'[s] = own[s] /\ undelivered'[s] = undelivered[s]
         \/ /\ undelivered'[s] = undelivered[s] \cup Elements(buf[s])
            /\ own'[s] = own[s] /\ \A c \in Clients : got'[c][s] = got[c][s]
  BY RouteIs DEF PumpOnly, core
<1>3. P' = P /\ P \subseteq Nat
  BY <1>1, <1>2 DEF Positions, StreamOK
<1>4. /\ buf[s] \in Seq(P) /\ hold[s] \in Seq(P) /\ \A c \in Clients : got[c][s] \in Seq(P)
  BY <1>1 DEF StreamOK
<1> HIDE DEF P
<1>5. \A i : ~In(buf'[s], i) /\ (In(hold'[s], i) <=> In(hold[s], i))
  BY <1>2, EmptyIn DEF In
<1>6. Increasing(buf[s]) /\ \A c \in Clients : Increasing(got[c][s]) /\ Before(got[c][s], buf[s])
  BY DEF InOrder
<1>7. Live(s)' => /\ Live(s) /\ ppc[s] = "route" /\ Before(buf[s], hold[s])
                  /\ \A c \in Clients : Before(got[c][s], hold[s])
  BY <1>2 DEF InOrder, Live, Answering
<1>8. CASE \A c \in Clients : got'[c][s] = got[c][s]
  <2>1. \A i : /\ Sent(s, i)' <=> Sent(s, i)
               /\ \A c \in Clients : In(got[c][s], i)' <=> In(got[c][s], i)
    BY <1>8 DEF Sent, In
  <2>2. CASE own'[s] = own[s] \cup Elements(buf[s]) /\ undelivered'[s] = undelivered[s]
    <3>1. \A i : i \in own'[s] <=> i \in own[s] \/ In(buf[s], i)
      BY <2>2, InElements
    <3> QED
      BY <1>2, <1>3, <1>5, <1>6, <1>7, <1>8, <2>1, <2>2, <3>1 DEF Placed, InOrder, Before, Increasing, P
  <2>3. CASE undelivered'[s] = undelivered[s] \cup Elements(buf[s]) /\ own'[s] = own[s]
    <3>1. \A i : i \in undelivered'[s] <=> i \in undelivered[s] \/ In(buf[s], i)
      BY <2>3, InElements
    <3> QED
      BY <1>2, <1>3, <1>5, <1>6, <1>7, <1>8, <2>1, <2>3, <3>1 DEF Placed, InOrder, Before, Increasing, P
  <2>4. CASE own'[s] = own[s] /\ undelivered'[s] = undelivered[s] /\ got'[sink][s] = got[sink][s] \o buf[s]
             /\ sink \in Clients
    <3>1. buf[s] = <<>>
      <4>1. Len(got[sink][s] \o buf[s]) = Len(got[sink][s]) + Len(buf[s])
        BY <1>4, <2>4, ConcatProperties
      <4>2. Len(got[sink][s]) = Len(got[sink][s]) + Len(buf[s])
        BY <1>8, <2>4, <4>1
      <4>3. Len(got[sink][s]) \in Nat /\ Len(buf[s]) \in Nat
        BY <1>4, <2>4, LenProperties
      <4>4. buf[s] = <<>>
        <5> DEFINE x == Len(got[sink][s])
                   y == Len(buf[s])
        <5>1. y = 0
          <6>1. x = x + y /\ x \in Nat /\ y \in Nat
            BY <4>2, <4>3
          <6> HIDE DEF x, y
          <6> QED
            BY <6>1
        <5> QED
          BY <1>4, <5>1, EmptySeq
      <4> QED
        BY <4>4
    <3>2. \A i : ~In(buf[s], i)
      BY <3>1, EmptyIn
    <3> QED
      BY <1>2, <1>3, <1>5, <1>6, <1>7, <1>8, <2>1, <2>4, <3>2 DEF Placed, InOrder, Before, Increasing, P
  <2> QED
    BY <1>2, <2>2, <2>3, <2>4
<1>9. CASE /\ sink \in Clients /\ got'[sink][s] = got[sink][s] \o buf[s]
           /\ \A c \in Clients \ {sink} : got'[c][s] = got[c][s]
           /\ own'[s] = own[s] /\ undelivered'[s] = undelivered[s]
  <2> DEFINE old == got[sink][s]
             new == old \o buf[s]
  <2>1. old \in Seq(P) /\ got'[sink][s] = new
    BY <1>4, <1>9
  <2>2. /\ DOMAIN old = 1..Len(old) /\ DOMAIN buf[s] = 1..Len(buf[s])
        /\ \A i : In(new, i) <=> In(old, i) \/ In(buf[s], i)
    BY <1>4, <2>1, JoinIs
  <2>3. Increasing(new)
    BY <1>3, <1>4, <1>6, <1>9, JoinIncreasing
  <2>4. \A p, q : Before(p, q) <=> \A i, j : In(p, i) /\ In(q, j) => i < j
    BY DEF Before, In
  <2> HIDE DEF new, old
  <2>5. Live(s)' => Before(new, hold[s])
    BY <1>7, <1>9, <2>2, <2>4 DEF old
  <2>6. /\ \A c \in Clients \ {sink} : \A i : In(got'[c][s], i) <=> In(got[c][s], i)
        /\ \A i : In(got'[sink][s], i) <=> In(got[sink][s], i) \/ In(buf[s], i)
    BY <1>9, <2>1, <2>2 DEF old
  <2>7. \A i : Sent(s, i)' <=> Sent(s, i) \/ In(buf[s], i)
    <3>1. \A i : Sent(s, i)' <=> \E c \in Clients : In(got'[c][s], i)
      BY DEF Sent, In
    <3> QED
      BY <1>9, <2>6, <3>1 DEF Sent
  <2>8. ASSUME NEW i \in P, NEW c \in Clients, NEW d \in Clients, In(got'[c][s], i), In(got'[d][s], i)
        PROVE  c = d
    <3>1. \A e \in Clients : In(got[e][s], i) => ~In(buf[s], i)
      BY <2>8 DEF Placed, Sent, P
    <3> QED
      BY <2>6, <2>8, <3>1 DEF Placed, P
  <2>9. Placed(s)'
    <3>1. \A i \in P :
          /\ \/ In(hold[s], i) \/ Sent(s, i)'
             \/ i \in own[s] \/ i \in stripped[s] \/ i \in undelivered[s]
          /\ In(hold[s], i) => ~(Sent(s, i)' \/ i \in own[s] \/ i \in stripped[s]
                                   \/ i \in undelivered[s])
          /\ Sent(s, i)' => ~(i \in own[s] \/ i \in stripped[s] \/ i \in undelivered[s])
          /\ i \in own[s] => ~(i \in stripped[s] \/ i \in undelivered[s])
          /\ ~(i \in stripped[s] /\ i \in undelivered[s])
      BY <2>7 DEF Placed, P
    <3>2. \A i : \A c \in Clients : In(got[c][s], i)' <=> In(got'[c][s], i)
      BY DEF In
    <3> QED
      BY <1>2, <1>3, <1>5, <1>9, <2>8, <3>1, <3>2 DEF Placed, P
  <2>10. InOrder(s)'
    <3>1. \A c \in Clients : Increasing(got'[c][s])
      BY <1>6, <1>9, <2>1, <2>3
    <3>2. Live(s)' => \A c \in Clients : Before(got'[c][s], hold[s])
      BY <1>7, <1>9, <2>1, <2>5
    <3>3. Increasing(hold[s])
      BY DEF InOrder
    <3> QED
      BY <1>2, <3>1, <3>2, <3>3 DEF InOrder, Before, Increasing
  <2> QED
    BY <2>9, <2>10
<1> QED
  BY <1>2, <1>8, <1>9
LEMMA ScanResponseInOrder ==
  ASSUME Shapes, NEW s \in Streams, InOrder(s), ScanResponse(s)
  PROVE  InOrder(s)'
<1> DEFINE P == Positions(s)
<1>1. StreamOK(s)
  BY ShapesAre
<1>2. /\ ppc[s] = "scan" /\ ppc'[s] = "route" /\ phase' = phase /\ reqSeq' = reqSeq
      /\ \A c \in Clients : got'[c][s] = got[c][s]
      /\ \/ Responded(s, <<>>, Fresh)
         \/ reqSeq = scanned[s] /\ Responded(s, hold[s], log[s])
  BY ScanResponseIs DEF PumpOnly, core
<1>3. /\ hold[s] \in Seq(P) /\ log[s].text \in Seq(P) /\ <<>> \in Seq(P) /\ Fresh.text \in Seq(P)
  BY <1>1 DEF StreamOK, Fresh
<1>4. \A p, q : Before(p, q) <=> \A i, j : In(p, i) /\ In(q, j) => i < j
  BY DEF Before, In
<1>5. ASSUME NEW text \in Seq(P), Increasing(text), \A c \in Clients : Before(got[c][s], text),
             NEW n, NEW E, NEW C, SplitUp(s, text, n, E, C)
      PROVE  InOrder(s)'
  <2>1. /\ \A i : In(text, i) <=> \/ In(buf'[s], i) \/ In(hold'[s], i)
                                  \/ \E k \in C : text[k] = i
        /\ Increasing(buf'[s]) /\ Increasing(hold'[s]) /\ Before(buf'[s], hold'[s])
    BY <1>1, <1>5, SplitIs
  <2>2. \A c \in Clients : Before(got[c][s], buf'[s]) /\ Before(got[c][s], hold'[s])
    BY <1>4, <1>5, <2>1
  <2>3. \A c \in Clients : Increasing(got[c][s])
    BY DEF InOrder
  <2> QED
    BY <1>2, <2>1, <2>2, <2>3 DEF InOrder, Increasing, Before
<1>6. \A c \in Clients : Before(got[c][s], buf[s])
  BY DEF InOrder
<1>7. CASE Responded(s, <<>>, Fresh)
  <2> DEFINE text == <<>> \o buf[s]
  <2>1. text = buf[s] /\ buf[s] \in Seq(P) /\ Increasing(buf[s])
    BY <1>1, <1>2, HeldInOrder
  <2>2. \E n, E, C : SplitUp(s, text, n, E, C)
    BY <1>1, <1>3, <1>7, RespondedIs, Zenon
  <2> HIDE DEF text, P
  <2> QED
    BY <1>5, <1>6, <2>1, <2>2
<1>8. CASE reqSeq = scanned[s] /\ Responded(s, hold[s], log[s])
  <2> DEFINE text == hold[s] \o buf[s]
  <2>1. /\ text \in Seq(P) /\ Increasing(text)
        /\ \A i : In(text, i) <=> In(hold[s], i) \/ In(buf[s], i)
    BY <1>1, <1>2, HeldInOrder
  <2>2. \E n, E, C : SplitUp(s, text, n, E, C)
    BY <1>1, <1>3, <1>8, RespondedIs, Zenon
  <2>3. \A c \in Clients : Before(got[c][s], hold[s])
    BY <1>2, <1>8 DEF InOrder, Live
  <2> HIDE DEF text, P
  <2>4. \A c \in Clients : Before(got[c][s], text)
    BY <1>4, <1>6, <2>1, <2>3
  <2> QED
    BY <1>5, <2>1, <2>2, <2>4
<1> QED
  BY <1>2, <1>7, <1>8

LEMMA EndResponsePlaced ==
  ASSUME Shapes, NEW s \in Streams, Placed(s), InOrder(s), EndResponse(s)
  PROVE  Placed(s)' /\ InOrder(s)'
<1>1. /\ ppc[s] = "end" /\ ppc'[s] = "read" /\ phase' \notin Answering
      /\ taken'[s] = taken[s] /\ buf'[s] = buf[s] /\ hold'[s] = hold[s]
      /\ stripped'[s] = stripped[s] /\ own'[s] = own[s] /\ undelivered'[s] = undelivered[s]
      /\ \A c \in Clients : got'[c][s] = got[c][s]
  BY EndResponseIs DEF Answering
<1>2. Positions(s)' = Positions(s)
  BY <1>1 DEF Positions
<1>3. \A i : /\ Sent(s, i)' <=> Sent(s, i)
             /\ \A c \in Clients : In(got[c][s], i)' <=> In(got[c][s], i)
             /\ In(buf[s], i)' <=> In(buf[s], i)
             /\ In(hold[s], i)' <=> In(hold[s], i)
  BY <1>1 DEF Sent, In
<1>4. Placed(s)'
  BY <1>1, <1>2, <1>3 DEF Placed
<1>5. ~Live(s)'
  BY <1>1 DEF Live, Answering
<1> QED
  BY <1>1, <1>4, <1>5 DEF InOrder, Increasing, Before

LEMMA EndOfStreamPlaced ==
  ASSUME Shapes, NEW s \in Streams, Placed(s), InOrder(s), EndOfStream(s)
  PROVE  Placed(s)' /\ InOrder(s)'
<1>1. /\ ppc[s] = "read" /\ ppc'[s] = "done" /\ hold'[s] = <<>>
      /\ own'[s] = own[s] \cup Elements(hold[s])
      /\ taken'[s] = taken[s] /\ buf'[s] = buf[s]
      /\ stripped'[s] = stripped[s] /\ undelivered'[s] = undelivered[s]
      /\ \A c \in Clients : got'[c][s] = got[c][s]
  BY EndOfStreamIs
<1>2. Positions(s)' = Positions(s)
  BY <1>1 DEF Positions
<1>3. \A i : /\ Sent(s, i)' <=> Sent(s, i)
             /\ \A c \in Clients : In(got[c][s], i)' <=> In(got[c][s], i)
             /\ In(buf[s], i)' <=> In(buf[s], i)
             /\ ~In(hold[s], i)'
             /\ i \in own'[s] <=> i \in own[s] \/ In(hold[s], i)
  BY <1>1, EmptyIn, InElements DEF Sent, In
<1>4. Placed(s)'
  BY <1>1, <1>2, <1>3 DEF Placed
<1> QED
  BY <1>1, <1>4 DEF InOrder, Increasing, Before

LEMMA PlacedStep ==
  ASSUME DInv, Step, NEW t \in Streams
  PROVE  Placed(t)' /\ InOrder(t)'
<1>0. /\ Shapes /\ Placed(t) /\ InOrder(t) /\ StreamOK(t) /\ reqSeq \in Nat
  BY ShapesAre DEF DInv, Globals
<1>1. ASSUME Same(t), Onward PROVE Placed(t)' /\ InOrder(t)'
  BY <1>0, <1>1, SamePlaced, SameInOrder
<1>2. CASE Around
  BY <1>0, <1>1, <1>2, AroundIs, AroundOnward
<1>3. ASSUME NEW s \in Streams, Pump(s) PROVE Placed(t)' /\ InOrder(t)'
  <2>1. Onward /\ \A u \in Streams \ {s} : Same(u)
    BY <1>0, <1>3, PumpOnward
  <2>2. CASE t # s
    BY <1>1, <2>1, <2>2
  <2>3. CASE t = s
    <3>1. ASSUME NEW n \in 1..(Len(printed[s]) - taken[s]), ReadChunk(s, n)
          PROVE  Placed(s)' /\ InOrder(s)'
      BY <1>0, <2>1, <2>3, <3>1, ReadChunkPlaced
    <3>2. CASE DetectReady(s)
      <4>1. KeptBack(s, "ready") /\ (Fed(s, "ready") \/ UNCHANGED core)
        BY <1>0, <3>2, DetectReadyIs
      <4>2. phase' \in Answering => phase \in Answering
        BY <4>1 DEF Fed, core, Answering
      <4> QED
        BY <1>0, <2>3, <4>1, <4>2, KeptBackPlaced
    <3>3. CASE DetectWarmup(s)
      <4>1. KeptBack(s, "warmup") /\ (Fed(s, "warmup") \/ UNCHANGED core)
        BY <1>0, <3>3, DetectWarmupIs
      <4>2. phase' \in Answering => phase \in Answering
        BY <4>1 DEF Fed, core, Answering
      <4> QED
        BY <1>0, <2>3, <4>1, <4>2, KeptBackPlaced
    <3>4. CASE ScanResponse(s)
      BY <1>0, <2>3, <3>4, ScanResponsePlaced, ScanResponseInOrder
    <3>5. CASE Route(s)
      BY <1>0, <2>3, <3>5, RoutePlaced
    <3>6. CASE EndResponse(s)
      BY <1>0, <2>3, <3>6, EndResponsePlaced
    <3>7. CASE EndOfStream(s)
      BY <1>0, <2>3, <3>7, EndOfStreamPlaced
    <3> QED
      BY <1>3, <2>3, <3>1, <3>2, <3>3, <3>4, <3>5, <3>6, <3>7 DEF Pump
  <2> QED
    BY <2>2, <2>3
<1> QED
  BY <1>2, <1>3 DEF Step
-----------------------------------------------------------------------------
(* The response scanner stands where it would after its whole text at      *)
(* once.                                                                   *)

\* The lengths of what a scanner finds and gives out do not depend on the text's
\* history: after nothing it has found nothing.
LEMMA ScanNothing ==
  ASSUME NEW S, NEW markers \in MarkerLists(S), NEW strip \in BOOLEAN
  PROVE  LET r == Scan(markers, strip, <<>>) IN
         r.emit = {} /\ r.strip = {} /\ r.found = 0 /\ r.hold = 0
<1> DEFINE ms == Matches(markers, <<>>)
           r  == Scan(markers, strip, <<>>)
           e  == From(1, ms, Len(ms))
<1>1. <<>> \in Seq(S) /\ Len(<<>>) = 0
  BY EmptySeq
<1>2. Chain(markers, <<>>, 1, ms)
  BY <1>1, MatchesChain
<1> HIDE DEF ms
<1>3. /\ Len(ms) \in Nat
      /\ \A j \in 1..Len(ms) : /\ ms[j] \in Hits /\ 1 <= ms[j].at
                               /\ ms[j].at + ms[j].len <= e
      /\ e \in 1..1
  <2>1. 1 \in 1..(Len(<<>>) + 1)
    BY <1>1
  <2>2. /\ Len(ms) \in Nat
        /\ \A j \in 1..Len(ms) : /\ ms[j] \in Hits /\ 1 <= ms[j].at
                                 /\ ms[j].at + ms[j].len <= From(1, ms, Len(ms))
        /\ From(1, ms, Len(ms)) \in 1..(Len(<<>>) + 1)
    BY <1>1, <1>2, <2>1, ChainOrdered
  <2> QED
    BY <1>1, <2>2
<1> HIDE DEF e
<1>4. Len(ms) = 0
  <2> SUFFICES ASSUME Len(ms) # 0 PROVE FALSE
    OBVIOUS
  <2>1. 1 \in 1..Len(ms)
    BY <1>3
  <2>2. ms[1] \in Hits /\ 1 <= ms[1].at /\ ms[1].at + ms[1].len <= e
    BY <1>3, <2>1
  <2>3. ms[1].at \in Nat /\ ms[1].len \in Nat \ {0} /\ e = 1
    BY <1>3, <2>2 DEF Hits
  <2> QED
    BY <2>2, <2>3
<1>5. /\ r.hold \in 0..0 /\ r.emit \cup r.strip = 1..(0 - r.hold)
  <2> DEFINE x == <<>>
  <2>1. x \in Seq(S) /\ Len(x) = 0
    BY <1>1
  <2>2. r = Scan(markers, strip, x)
    OBVIOUS
  <2> HIDE DEF x, r
  <2>3. LET q == Scan(markers, strip, x) IN
        q.hold \in 0..Len(x) /\ q.emit \cup q.strip = 1..(Len(x) - q.hold)
    BY <2>1, ScanParts
  <2> QED
    BY <2>1, <2>2, <2>3
<1>6. r.found = Len(ms)
  BY DEF Scan, ms
<1> HIDE DEF r
<1>7. r.hold = 0 /\ r.emit \cup r.strip = {}
  BY <1>5
<1> QED
  BY <1>4, <1>6, <1>7 DEF r

\* The scanner of text A has given out `out`, found `n` markers and holds back `h`.
Stands(s, A, out, n, h) ==
  LET r == Scan(EndMarkers[s], s \in Strip, Text(s, A)) IN
  /\ out = {A[k] : k \in r.emit} /\ n = r.found
  /\ h = SubSeq(A, Len(A) - r.hold + 1, Len(A))

LEMMA ScansIs ==
  \A s : Scans(s) <=>
    (Separate(EndMarkers[s]) /\ ppc[s] # "done" =>
       Stands(s, log[s].text, log[s].out, log[s].found, hold[s]))
BY DEF Scans, Stands

LEMMA StandsAtFirst ==
  ASSUME NEW s \in Streams
  PROVE  Stands(s, <<>>, {}, 0, <<>>)
<1>1. Text(s, <<>>) = <<>>
  BY DEF Text
<1> DEFINE cut == s \in Strip
           r == Scan(EndMarkers[s], cut, <<>>)
<1>2. r.emit = {} /\ r.strip = {} /\ r.found = 0 /\ r.hold = 0
  <2>1. cut \in BOOLEAN /\ EndMarkers[s] \in MarkerLists(Symbols[s])
    BY MarkersListed
  <2> HIDE DEF cut
  <2> QED
    BY ONLY <2>1, ScanNothing
<1>3. SubSeq(<<>>, Len(<<>>) - 0 + 1, Len(<<>>)) = <<>>
  <2>1. LET q == <<>> IN SubSeq(q, Len(q) - 0 + 1, Len(q)) \in Seq({})
          /\ Len(SubSeq(q, Len(q) - 0 + 1, Len(q))) = 0
    BY EmptySeq, SuffixIs
  <2> QED
    BY <2>1, EmptySeq
<1> HIDE DEF r
<1>4. {} = {<<>>[k] : k \in r.emit} /\ 0 = r.found
      /\ <<>> = SubSeq(<<>>, Len(<<>>) - r.hold + 1, Len(<<>>))
  BY <1>2, <1>3
<1> QED
  BY <1>1, <1>4 DEF Stands, r
\* The next chunk: what is held back, and the chunk, are scanned.
LEMMA StandsOn ==
  ASSUME NEW s \in Streams, StreamOK(s), Separate(EndMarkers[s]),
         NEW A \in Seq(Positions(s)), NEW out, NEW n, NEW h, Stands(s, A, out, n, h)
  PROVE  LET X == h \o buf[s]
             r == Scan(EndMarkers[s], s \in Strip, Text(s, X))
         IN Stands(s, A \o buf[s], out \cup {X[k] : k \in r.emit}, n + r.found,
                   SubSeq(X, Len(X) - r.hold + 1, Len(X)))
<1> DEFINE P == Positions(s)
           S == Symbols[s]
           B == buf[s]
           m == EndMarkers[s]
           cut == s \in Strip
           U == Text(s, A)
           a == Scan(m, cut, U)
           o == a.hold
           X == h \o B
           T == A \o B
           V == Text(s, X)
           W == Text(s, T)
           r == Scan(m, cut, V)
           t == Scan(m, cut, W)
           d == Len(A) - o
<1>1. B \in Seq(P) /\ A \in Seq(P) /\ m \in MarkerLists(S) /\ cut \in BOOLEAN
  BY MarkersListed DEF StreamOK
<1>2. U \in Seq(S) /\ Len(U) = Len(A) /\ Len(A) \in Nat
  BY TextIs, LenProperties
<1>3. /\ out = {A[k] : k \in a.emit} /\ n = a.found
      /\ h = SubSeq(A, Len(A) - o + 1, Len(A))
  BY Zenon DEF Stands
<1> HIDE DEF P, S, m, cut, B
<1>4. /\ o \in 0..Len(A) /\ a.found \in Nat /\ a.emit \subseteq 1..(Len(A) - o)
  <2> HIDE DEF U
  <2>1. /\ a.hold \in 0..Len(U) /\ a.found \in Nat
        /\ a.emit \cup a.strip = 1..(Len(U) - a.hold)
    BY ONLY <1>1, <1>2, ScanParts
  <2> QED
    BY <1>2, <2>1
<1> HIDE DEF a, o
<1>5. /\ X \in Seq(P) /\ T \in Seq(P) /\ Continues(T, X, d) /\ d \in Nat
      /\ \A j \in 1..Len(A) : T[j] = A[j]
  <2> DEFINE g == SubSeq(A, Len(A) - o + 1, Len(A))
             R == g \o B
  <2>1. /\ R \in Seq(P) /\ T \in Seq(P) /\ Continues(T, R, Len(A) - o) /\ Len(A) - o \in Nat
        /\ \A j \in 1..Len(A) : T[j] = A[j]
    BY <1>1, <1>4, HeldJoin
  <2>2. R = X
    BY <1>3
  <2> HIDE DEF R, T, X
  <2> QED
    BY <2>1, <2>2
<1>6. /\ U \in Seq(S) /\ V \in Seq(S) /\ W \in Seq(S) /\ Len(V) = Len(X)
      /\ Begins(U, W) /\ Continues(W, V, d)
  <2> DEFINE g == SubSeq(A, Len(A) - o + 1, Len(A))
             Y == Text(s, g \o B)
  <2>1. /\ U \in Seq(S) /\ W \in Seq(S) /\ Y \in Seq(S)
        /\ Begins(U, W) /\ Continues(W, Y, Len(A) - o) /\ Len(Y) = Len(g \o B)
    BY <1>1, <1>4, HeldText DEF P, S, B
  <2>2. g = h
    BY <1>3
  <2> HIDE DEF g, U, W
  <2> QED
    BY <2>1, <2>2
<1> HIDE DEF U, V, W, X, T
<1>7. /\ t.emit = a.emit \cup {d + i : i \in r.emit}
      /\ t.found = a.found + r.found /\ t.hold = r.hold
  <2>1. d = Len(U) - Scan(m, cut, U).hold
    BY <1>2 DEF o, a
  <2>2. Separate(m)
    BY DEF m
  <2> DEFINE b == Scan(m, cut, U)
  <2>3. /\ t.emit = b.emit \cup {d + i : i \in r.emit}
        /\ t.found = b.found + r.found /\ t.hold = r.hold
    <3> HIDE DEF d
    <3>1. d \in Nat /\ d = Len(U) - Scan(m, cut, U).hold
      BY <1>5, <2>1 DEF d
    <3> QED
      BY ONLY <1>1, <1>6, <2>2, <3>1, ScanInParts
  <2> QED
    BY <2>3 DEF a
<1>8. r.hold \in 0..Len(X) /\ r.emit \subseteq 1..Len(X)
  <2>1. /\ r.hold \in 0..Len(V) /\ r.emit \cup r.strip = 1..(Len(V) - r.hold)
    BY ONLY <1>1, <1>6, ScanParts
  <2> HIDE DEF r
  <2>2. Len(X) \in Nat
    BY <1>5, LenProperties
  <2> QED
    BY <1>6, <2>1, <2>2
<1> HIDE DEF r, t
<1>9. SubSeq(X, Len(X) - r.hold + 1, Len(X)) = SubSeq(T, Len(T) - t.hold + 1, Len(T))
  <2> DEFINE k == r.hold
  <2>1. k \in 0..Len(X) /\ t.hold = k
    BY <1>7, <1>8
  <2> HIDE DEF k, d
  <2>2. SubSeq(X, Len(X) - k + 1, Len(X)) = SubSeq(T, Len(T) - k + 1, Len(T))
    BY ONLY <1>5, <2>1, HeldRest
  <2> QED
    BY <2>1, <2>2 DEF k
<1>10. out \cup {X[k] : k \in r.emit} = {T[k] : k \in t.emit}
  <2>1. \A k \in a.emit : T[k] = A[k]
    BY <1>2, <1>4, <1>5
  <2>2. \A i \in r.emit : X[i] = T[d + i]
    BY <1>5, <1>8 DEF Continues
  <2>3. {T[k] : k \in t.emit} = {T[k] : k \in a.emit} \cup {T[d + i] : i \in r.emit}
    BY <1>7
  <2> QED
    BY <1>3, <2>1, <2>2, <2>3
<1>11. n + r.found = t.found
  BY <1>3, <1>7
<1>12. Stands(s, T, out \cup {X[k] : k \in r.emit}, n + r.found,
              SubSeq(X, Len(X) - r.hold + 1, Len(X)))
  BY <1>9, <1>10, <1>11, Zenon DEF Stands, t, W, m, cut
<1> QED
  BY <1>12, Zenon DEF r, V, X, T, m, cut, B

LEMMA ScansKept ==
  ASSUME NEW s \in Streams, StreamOK(s), Scans(s), Grown(s), log'[s] = log[s],
         hold'[s] = hold[s], ppc[s] # "done"
  PROVE  Scans(s)'
<1>1. Text(s, log[s].text)' = Text(s, log[s].text)
  <2>1. log[s].text \in Seq(Positions(s))
    BY DEF StreamOK
  <2>2. Text(s, log[s].text)' = [k \in DOMAIN log[s].text |-> printed'[s][log[s].text[k]].sym]
    BY DEF Text
  <2> QED
    BY <2>1, <2>2, GrownText
<1> QED
  BY <1>1 DEF Scans

LEMMA ScanResponseScans ==
  ASSUME Shapes, NEW s \in Streams, Scans(s), ScanResponse(s)
  PROVE  Scans(s)'
<1>1. StreamOK(s)
  BY ShapesAre
<1>2. /\ printed' = printed /\ ppc[s] = "scan"
      /\ Responded(s, <<>>, Fresh) \/ Responded(s, hold[s], log[s])
  BY ScanResponseIs DEF PumpOnly
<1>3. ASSUME Separate(EndMarkers[s]), NEW past, past.text \in Seq(Positions(s)), NEW held,
             Responded(s, held, past),
             Stands(s, past.text, past.out, past.found, held)
      PROVE  Stands(s, log'[s].text, log'[s].out, log'[s].found, hold'[s])
  <2> DEFINE X == held \o buf[s]
             r == Scan(EndMarkers[s], s \in Strip, Text(s, X))
             T == past.text \o buf[s]
             out == past.out \cup {X[k] : k \in r.emit}
             n == past.found + r.found
             h == SubSeq(X, Len(X) - r.hold + 1, Len(X))
  <2>1. Stands(s, T, out, n, h)
    BY <1>1, <1>3, StandsOn, Zenon
  <2>2. hold'[s] = h /\ log'[s] = [text |-> T, out |-> out, found |-> n]
    BY <1>3, Zenon DEF Responded
  <2> HIDE DEF X, r, T, out, n, h
  <2>3. log'[s].text = T /\ log'[s].out = out /\ log'[s].found = n
    BY <2>2
  <2> QED
    BY <2>1, <2>2, <2>3
<1>4. Scans(s)' <=>
        (Separate(EndMarkers[s]) /\ ppc'[s] # "done" =>
           Stands(s, log'[s].text, log'[s].out, log'[s].found, hold'[s]))
  <2>1. Text(s, log[s].text)' = Text(s, log'[s].text)
    BY <1>2 DEF Text
  <2> QED
    BY <2>1, Zenon DEF Scans, Stands
<1>5. CASE Responded(s, <<>>, Fresh)
  <2>1. Fresh.text = <<>> /\ Fresh.out = {} /\ Fresh.found = 0
    BY DEF Fresh
  <2>2. Stands(s, Fresh.text, Fresh.out, Fresh.found, <<>>) /\ Fresh.text \in Seq(Positions(s))
    BY <2>1, StandsAtFirst
  <2> QED
    BY <1>3, <1>4, <1>5, <2>2, Zenon
<1>6. CASE Responded(s, hold[s], log[s])
  <2>1. log[s].text \in Seq(Positions(s))
    BY <1>1 DEF StreamOK
  <2>2. Separate(EndMarkers[s]) => Stands(s, log[s].text, log[s].out, log[s].found, hold[s])
    BY <1>2, ScansIs
  <2> QED
    BY <1>3, <1>4, <1>6, <2>1, <2>2, Zenon
<1> QED
  BY <1>2, <1>5, <1>6

LEMMA ScansStep ==
  ASSUME DInv, Step, NEW t \in Streams
  PROVE  Scans(t)'
<1>0. Shapes /\ Scans(t) /\ StreamOK(t)
  BY ShapesAre DEF DInv
<1>1. CASE Around
  BY <1>0, <1>1, AroundIs, SameScans
<1>2. ASSUME NEW s \in Streams, Pump(s) PROVE Scans(t)'
  <2>1. \A u \in Streams \ {s} : Same(u)
    BY <1>0, <1>2, PumpOnward
  <2>2. CASE t # s
    BY <1>0, <2>1, <2>2, SameScans
  <2>3. CASE t = s
    <3>1. ASSUME NEW n \in 1..(Len(printed[s]) - taken[s]), ReadChunk(s, n) PROVE Scans(t)'
      BY <1>0, <2>3, <3>1, ReadChunkIs, ScansKept
    <3>2. CASE DetectReady(s)
      <4>1. KeptBack(s, "ready")
        BY <1>0, <3>2, DetectReadyIs
      <4> QED
        BY <1>0, <2>3, <4>1, ScansKept DEF KeptBack
    <3>3. CASE DetectWarmup(s)
      <4>1. KeptBack(s, "warmup")
        BY <1>0, <3>3, DetectWarmupIs
      <4> QED
        BY <1>0, <2>3, <4>1, ScansKept DEF KeptBack
    <3>4. CASE ScanResponse(s)
      BY <1>0, <2>3, <3>4, ScanResponseScans
    <3>5. CASE Route(s)
      <4>1. Grown(s) /\ log'[s] = log[s] /\ hold'[s] = hold[s] /\ ppc[s] # "done"
        BY <1>0, <3>5, RouteIs
      <4> QED
        BY <1>0, <2>3, <4>1, ScansKept
    <3>6. CASE EndResponse(s)
      <4>1. Grown(s) /\ log'[s] = log[s] /\ hold'[s] = hold[s] /\ ppc[s] # "done"
        BY <1>0, <3>6, EndResponseIs
      <4> QED
        BY <1>0, <2>3, <4>1, ScansKept
    <3>7. CASE EndOfStream(s)
      <4>1. ppc'[s] = "done"
        BY <1>0, <3>7, EndOfStreamIs
      <4> QED
        BY <2>3, <4>1 DEF Scans
    <3> QED
      BY <1>2, <3>1, <3>2, <3>3, <3>4, <3>5, <3>6, <3>7 DEF Pump
  <2> QED
    BY <2>2, <2>3
<1> QED
  BY <1>1, <1>2 DEF Step
-----------------------------------------------------------------------------
(* Which request a pump has found an end of.                               *)

LEMMA EndsStep ==
  ASSUME DInv, Step, NEW t \in Streams
  PROVE  Ends(t)'
<1>0. Shapes /\ Ends(t) /\ StreamOK(t) /\ Globals /\ CoreTypeOK /\ reqSeq \in Nat
  BY ShapesAre DEF DInv, Globals
<1>1. ASSUME ppc'[t] = ppc[t], scanned'[t] = scanned[t], Onward,
             \A u \in Streams : ended[u] \subseteq ended'[u],
             phase \in Answering /\ phase' \notin Answering \cup {"Stopped"} =>
               \E u \in Streams \ {t} : reqSeq \in ended'[u]
      PROVE  Ends(t)'
  BY <1>0, <1>1, SameEnds
<1>2. CASE Around
  <2>1. /\ Onward /\ (phase \in Answering => phase' \in Answering \cup {"Stopped"})
        /\ \A u \in Streams : Same(u)
    BY <1>0, <1>2, AroundIs, AroundOnward
  <2>2. \A u \in Streams : /\ ppc'[u] = ppc[u] /\ scanned'[u] = scanned[u]
                           /\ ended[u] \subseteq ended'[u]
    BY <2>1 DEF Same
  <2> QED
    BY <1>1, <2>1, <2>2
<1>3. ASSUME NEW s \in Streams, Pump(s) PROVE Ends(t)'
  <2>1. Onward /\ \A u \in Streams \ {s} : Same(u)
    BY <1>0, <1>3, PumpOnward
  <2>2. ASSUME ended'[s] = ended[s], phase \in Answering => phase' \in Answering, t # s
        PROVE  Ends(t)'
    <3>1. /\ ppc'[t] = ppc[t] /\ scanned'[t] = scanned[t]
          /\ \A u \in Streams : ended[u] \subseteq ended'[u]
      BY <2>1, <2>2 DEF Same
    <3> QED
      BY <1>1, <2>1, <2>2, <3>1
  <2>3. CASE \E n \in 1..(Len(printed[s]) - taken[s]) : ReadChunk(s, n)
    <3>0. PICK n \in 1..(Len(printed[s]) - taken[s]) : ReadChunk(s, n)
      BY <2>3
    <3>1. /\ ended'[s] = ended[s] /\ phase' = phase
          /\ ppc'[s] = CASE phase = "Booting"              -> "ready"
                         [] phase = "Warmup"               -> "warmup"
                         [] phase \in {"Busy", "Draining"} -> "scan"
                         [] phase = "Idle" /\ serving      -> "tail"
                         [] OTHER                          -> "read"
      BY <1>0, <3>0, ReadChunkIs DEF core
    <3>2. ppc'[s] \notin {"route", "end"} /\ (ppc'[s] = "scan" => phase' \in {"Busy", "Draining"})
      BY <3>1
    <3>3. t = s => Ends(t)'
      BY <3>2 DEF Ends
    <3> QED
      BY <2>2, <3>1, <3>3
  <2>4. ASSUME NEW w, KeptBack(s, w), phase \in Answering => phase' \in Answering
        PROVE  Ends(t)'
    <3>1. ended'[s] = ended[s] /\ ppc'[s] = "read"
      BY <2>4 DEF KeptBack
    <3>2. t = s => Ends(t)'
      BY <3>1 DEF Ends
    <3> QED
      BY <2>2, <2>4, <3>1, <3>2
  <2>5. CASE DetectReady(s)
    <3>1. KeptBack(s, "ready") /\ (Fed(s, "ready") \/ UNCHANGED core)
      BY <1>0, <2>5, DetectReadyIs
    <3>2. phase \in Answering => phase' \in Answering
      BY <3>1 DEF Fed, core, Answering
    <3> QED
      BY <2>4, <3>1, <3>2
  <2>6. CASE DetectWarmup(s)
    <3>1. KeptBack(s, "warmup") /\ (Fed(s, "warmup") \/ UNCHANGED core)
      BY <1>0, <2>6, DetectWarmupIs
    <3>2. phase \in Answering => phase' \in Answering
      BY <3>1 DEF Fed, core, Answering
    <3> QED
      BY <2>4, <3>1, <3>2
  <2>7. CASE ScanResponse(s)
    <3>1. /\ ended'[s] = ended[s] /\ phase' = phase /\ reqSeq' = reqSeq
          /\ ppc[s] = "scan" /\ ppc'[s] = "route" /\ scanned'[s] = reqSeq
          /\ \A u \in Streams \ {s} : ended'[u] = ended[u]
      BY <1>0, <2>1, <2>7, ScanResponseIs DEF PumpOnly, core, Same
    <3>2. t = s => Ends(t)'
      BY <1>0, <3>1 DEF Ends, EndedElsewhere
    <3> QED
      BY <2>2, <3>1, <3>2
  <2>8. CASE Route(s)
    <3>1. /\ ended'[s] = ended[s] /\ phase' = phase /\ reqSeq' = reqSeq
          /\ ppc'[s] \in {"read", "end"} /\ (ppc'[s] = "end" => ppc[s] = "route")
          /\ scanned'[s] = scanned[s]
          /\ \A u \in Streams \ {s} : ended'[u] = ended[u]
      BY <1>0, <2>1, <2>8, RouteIs DEF PumpOnly, core, Same
    <3>2. t = s => Ends(t)'
      BY <1>0, <3>1 DEF Ends, EndedElsewhere
    <3> QED
      BY <2>2, <3>1, <3>2
  <2>9. CASE EndResponse(s)
    <3>1. /\ ended'[s] = (IF phase \in {"Busy", "Draining"} THEN ended[s] \cup {reqSeq} ELSE ended[s])
          /\ ppc'[s] = "read"
          /\ \A u \in Streams \ {s} : /\ ended'[u] = ended[u] /\ ppc'[u] = ppc[u]
                                      /\ scanned'[u] = scanned[u]
      BY <1>0, <2>1, <2>9, EndResponseIs DEF Same
    <3>2. t = s => Ends(t)'
      BY <3>1 DEF Ends
    <3>3. CASE t # s
      <4>1. \A u \in Streams : ended[u] \subseteq ended'[u]
        BY <3>1
      <4>2. phase \in Answering => reqSeq \in ended'[s] /\ s \in Streams \ {t}
        BY <3>1, <3>3 DEF Answering
      <4> QED
        BY <1>1, <2>1, <3>1, <3>3, <4>1, <4>2
    <3> QED
      BY <3>2, <3>3
  <2>10. CASE EndOfStream(s)
    <3>1. ended'[s] = ended[s] /\ phase' = phase /\ ppc'[s] = "done"
      BY <1>0, <2>10, EndOfStreamIs DEF PumpOnly, core
    <3>2. t = s => Ends(t)'
      BY <3>1 DEF Ends
    <3> QED
      BY <2>2, <3>1, <3>2
  <2> QED
    BY <1>3, <2>3, <2>5, <2>6, <2>7, <2>8, <2>9, <2>10 DEF Pump
<1> QED
  BY <1>2, <1>3 DEF Step

-----------------------------------------------------------------------------
(* Who is attached.                                                        *)

Connections ==
  \A c \in Clients : /\ cpc[c] = "none" <=> peer[c] = "away"
                     /\ peer[c] = "open" => cpc[c] \in {"in", "forward"}
                     /\ Printing(c) => peer[c] # "away"
OneAttached ==
  /\ \A c \in Clients : cpc[c] \in {"in", "forward"} <=> sink = c
  /\ sink # None => phase # "Draining"
Asked == \A c \in Clients : peer[c] = "open" /\ (Printing(c) \/ cpc[c] = "forward")
                              => phase = "Busy" \/ (phase = "Idle" /\ serving)

LEMMA AttachedAre ==
  Attached <=> /\ Connections /\ (phase = "Busy" => serving)
               /\ dropped = {} => OneAttached /\ (phase # "Stopped" => Asked)
BY DEF Attached, Connections, OneAttached, Asked

LEMMA AttachedPump ==
  ASSUME DInv, NEW s \in Streams, Pump(s)
  PROVE  Attached'
<1>0. /\ Shapes /\ Connections /\ (phase = "Busy" => serving)
      /\ dropped = {} => OneAttached /\ (phase # "Stopped" => Asked)
  BY AttachedAre DEF DInv
<1>1. UNCHANGED <<cpc, peer, fedBy, printed>> /\ dropped \subseteq dropped'
      /\ (phase = "Stopped" <=> phase' = "Stopped")
  BY <1>0, PumpOnward DEF peers
<1>2. \A c : Printing(c)' <=> Printing(c)
  BY <1>1 DEF Printing
<1>3. Connections'
  BY <1>0, <1>1, <1>2 DEF Connections
<1>4. dropped' = {} => dropped = {}
  BY <1>1
<1>5. ASSUME UNCHANGED core, dropped' = {} => sink' = sink
      PROVE  Attached'
  <2>1. phase' = phase /\ serving' = serving
    BY <1>5 DEF core
  <2> QED
    BY <1>0, <1>1, <1>2, <1>3, <1>4, <1>5, <2>1 DEF Attached, Connections, OneAttached, Asked
<1>6. ASSUME UNCHANGED <<serving, sink>>, phase \in {"Booting", "Warmup"},
             phase' \in {"Booting", "Warmup", "Idle"}
      PROVE  Attached'
  BY <1>0, <1>1, <1>2, <1>3, <1>4, <1>6 DEF Attached, Connections, OneAttached, Asked
<1>7. CASE \E n \in 1..(Len(printed[s]) - taken[s]) : ReadChunk(s, n)
  <2>0. PICK n \in 1..(Len(printed[s]) - taken[s]) : ReadChunk(s, n)
    BY <1>7
  <2> QED
    BY <1>0, <1>5, <2>0, ReadChunkIs
<1>8. CASE DetectReady(s)
  <2>1. KeptBack(s, "ready") /\ (Fed(s, "ready") \/ UNCHANGED core)
    BY <1>0, <1>8, DetectReadyIs
  <2>2. sink' = sink
    BY <2>1 DEF KeptBack
  <2>3. CASE phase' # phase
    BY <1>6, <2>1, <2>2, <2>3 DEF Fed, core
  <2>4. CASE phase' = phase
    BY <1>5, <2>1, <2>2, <2>4 DEF Fed, core
  <2> QED
    BY <2>3, <2>4
<1>9. CASE DetectWarmup(s)
  <2>1. KeptBack(s, "warmup") /\ (Fed(s, "warmup") \/ UNCHANGED core)
    BY <1>0, <1>9, DetectWarmupIs
  <2>2. sink' = sink
    BY <2>1 DEF KeptBack
  <2>3. CASE phase' # phase
    BY <1>6, <2>1, <2>2, <2>3 DEF Fed, core
  <2>4. CASE phase' = phase
    BY <1>5, <2>1, <2>2, <2>4 DEF Fed, core
  <2> QED
    BY <2>3, <2>4
<1>10. CASE ScanResponse(s)
  BY <1>0, <1>5, <1>10, ScanResponseIs DEF PumpOnly
<1>11. CASE Route(s)
  <2>1. /\ UNCHANGED core
        /\ \/ UNCHANGED <<sink, dropped>>
           \/ dropped' = dropped \cup {sink}
    BY <1>0, <1>11, RouteIs DEF PumpOnly
  <2>2. dropped' = {} => sink' = sink
    BY <2>1
  <2> QED
    BY <1>5, <2>1, <2>2
<1>12. CASE EndResponse(s)
  <2>1. /\ serving' = serving /\ sink' = sink /\ dropped' = dropped
        /\ phase' = IF phase \in {"Busy", "Draining"} THEN "Idle" ELSE phase
    BY <1>0, <1>12, EndResponseIs
  <2>2. phase' = "Busy" => serving'
    BY <1>0, <2>1
  <2>3. dropped' = {} => OneAttached'
    BY <1>0, <1>1, <2>1 DEF OneAttached
  <2>4. ASSUME dropped' = {}, phase' # "Stopped" PROVE Asked'
    BY <1>0, <1>1, <1>2, <2>1, <2>4 DEF Asked
  <2> QED
    BY <1>3, <2>2, <2>3, <2>4 DEF Attached, Connections, OneAttached, Asked
<1>13. CASE EndOfStream(s)
  BY <1>0, <1>5, <1>13, EndOfStreamIs DEF PumpOnly
<1> QED
  BY <1>7, <1>8, <1>9, <1>10, <1>11, <1>12, <1>13 DEF Pump

LEMMA ShapesStep ==
  ASSUME Shapes, Watching, Step
  PROVE  Shapes'
<1>0. /\ \A t \in Streams : StreamOK(t) /\ \A w \in {"ready", "warmup"} : WatchOK(w, t)
      /\ reqSeq \in Nat
  BY ShapesAre DEF Globals
<1>1. ASSUME Onward, NEW t \in Streams, Same(t)
      PROVE  StreamOK(t)' /\ \A w \in {"ready", "warmup"} : WatchOK(w, t)'
  BY <1>0, <1>1, SameOK DEF Onward
<1>2. CASE Around
  <2>1. Onward /\ Globals' /\ Domains' /\ \A t \in Streams : Same(t)
    BY <1>2, AroundIs, AroundOnward
  <2> QED
    BY <1>1, <2>1, ShapesAre DEF Shapes, Globals
<1>3. ASSUME NEW s \in Streams, Pump(s) PROVE Shapes'
  <2>1. Onward /\ Globals' /\ Domains' /\ \A t \in Streams \ {s} : Same(t)
    BY <1>3, PumpOnward
  <2>2. StreamOK(s)' /\ \A w \in {"ready", "warmup"} : WatchOK(w, s)'
    BY <1>3, ReadChunkOK, DetectReadyOK, DetectWarmupOK, ScanResponseOK, RouteOK,
       EndResponseOK, EndOfStreamOK DEF Pump
  <2>3. \A t \in Streams : StreamOK(t)' /\ \A w \in {"ready", "warmup"} : WatchOK(w, t)'
    BY <1>1, <2>1, <2>2
  <2> QED
    BY <2>1, <2>3 DEF Shapes, Globals
<1> QED
  BY <1>2, <1>3 DEF Step

LEMMA AttachedAround ==
  ASSUME DInv, Around
  PROVE  Attached'
<1>0. /\ Shapes /\ Globals /\ Connections /\ (phase = "Busy" => serving)
      /\ dropped = {} => OneAttached /\ (phase # "Stopped" => Asked)
  BY AttachedAre, ShapesAre DEF DInv
<1>1. /\ cpc \in [Clients -> {"none", "in", "forward", "done"}]
      /\ peer \in [Clients -> {"away", "open", "left"}]
      /\ sink \in Clients \cup {None} /\ None \notin Clients /\ "boot" \notin Clients
  BY <1>0, DeliveryOptions DEF Globals
<1>2. dropped' = dropped
  BY <1>0, AroundOnward
<1>3. ASSUME Connections', phase' = "Busy" => serving',
             dropped = {} => OneAttached' /\ (phase' # "Stopped" => Asked')
      PROVE  Attached'
  BY <1>2, <1>3 DEF Attached, Connections, OneAttached, Asked
<1>4. CASE SendWarmup \/ ReplDies
  <2>1. UNCHANGED <<phase, serving, sink, cpc, peer, fedBy, printed>>
    BY <1>4 DEF SendWarmup, ReplDies, control, core, peers, process
  <2>2. \A c : Printing(c)' <=> Printing(c)
    BY <2>1 DEF Printing
  <2> QED
    BY <1>0, <1>3, <2>1, <2>2 DEF Connections, OneAttached, Asked
<1>5. CASE StopServer
  <2>1. UNCHANGED <<sink, cpc, peer, fedBy, printed>> /\ phase' = "Stopped"
    BY <1>5 DEF StopServer, Stop, peers, process
  <2>2. \A c : Printing(c)' <=> Printing(c)
    BY <2>1 DEF Printing
  <2> QED
    BY <1>0, <1>3, <2>1, <2>2 DEF Connections, OneAttached, Asked
<1>6. ASSUME NEW c \in Clients, Accept(c) PROVE Attached'
  <2>1. /\ UNCHANGED <<phase, fedBy, printed>> /\ sink' = c /\ sink = None /\ cpc[c] = "none"
        /\ phase \in {"Booting", "Warmup", "Idle"}
        /\ cpc' = [cpc EXCEPT ![c] = "in"] /\ peer' = [peer EXCEPT ![c] = "open"]
    BY <1>6 DEF Accept, TryAccept, Acceptable, process
  <2>2. /\ cpc'[c] = "in" /\ peer'[c] = "open"
        /\ \A d \in Clients \ {c} : cpc'[d] = cpc[d] /\ peer'[d] = peer[d]
    BY <1>1, <2>1
  <2>3. \A d : Printing(d)' <=> Printing(d)
    BY <2>1 DEF Printing
  <2>4. ~Printing(c)
    BY <1>0, <2>1 DEF Connections
  <2>5. Connections'
    BY <1>0, <2>2, <2>3 DEF Connections
  <2>6. dropped = {} => OneAttached'
    BY <1>0, <1>1, <2>1, <2>2 DEF OneAttached
  <2>7. ASSUME dropped = {} PROVE Asked'
    <3>1. \A d \in Clients \ {c} : peer[d] # "open"
      BY <1>0, <1>1, <2>1, <2>7 DEF OneAttached, Connections
    <3> QED
      BY <2>2, <2>3, <2>4, <3>1 DEF Asked
  <2> QED
    BY <1>3, <2>1, <2>5, <2>6, <2>7
<1>7. ASSUME NEW c \in Clients, StartRequest(c) PROVE Attached'
  <2>1. /\ UNCHANGED <<sink, peer, fedBy, printed>> /\ cpc[c] = "in"
        /\ serving' = TRUE /\ phase' = (IF phase = "Idle" THEN "Busy" ELSE phase)
        /\ phase \notin {"Booting", "Warmup"} /\ cpc' = [cpc EXCEPT ![c] = "forward"]
    BY <1>7, DeliveryOptions DEF StartRequest, RequestStart, PreServing, process
  <2>2. cpc'[c] = "forward" /\ \A d \in Clients \ {c} : cpc'[d] = cpc[d]
    BY <1>1, <2>1
  <2>3. \A d : Printing(d)' <=> Printing(d)
    BY <2>1 DEF Printing
  <2>4. Connections'
    BY <1>0, <2>1, <2>2, <2>3 DEF Connections
  <2>5. dropped = {} => OneAttached' /\ phase # "Draining"
    BY <1>0, <1>1, <2>1, <2>2 DEF OneAttached
  <2>6. ASSUME dropped = {}, phase' # "Stopped" PROVE Asked'
    <3>1. phase' \in {"Busy", "Idle"}
      BY <1>0, <2>1, <2>5, <2>6 DEF Globals, CoreTypeOK, Phases
    <3> QED
      BY <2>1, <3>1 DEF Asked
  <2> QED
    BY <1>3, <2>1, <2>4, <2>5, <2>6
<1>8. ASSUME NEW c \in Clients, Forward(c) PROVE Attached'
  <2>1. /\ UNCHANGED <<phase, serving, sink, peer, printed>> /\ cpc[c] = "forward"
        /\ fedBy' \in {c, fedBy} /\ cpc' = [cpc EXCEPT ![c] = "in"]
    BY <1>8 DEF Forward, control, core, process
  <2>2. cpc'[c] = "in" /\ \A d \in Clients \ {c} : cpc'[d] = cpc[d]
    BY <1>1, <2>1
  <2>3. \A d : Printing(d)' => Printing(d) \/ d = c
    BY <2>1 DEF Printing
  <2>4. Connections'
    BY <1>0, <2>1, <2>2, <2>3 DEF Connections
  <2>5. dropped = {} => OneAttached'
    BY <1>0, <1>1, <2>1, <2>2 DEF OneAttached
  <2>6. ASSUME dropped = {}, phase # "Stopped" PROVE Asked'
    BY <1>0, <2>1, <2>2, <2>3, <2>6 DEF Asked
  <2> QED
    BY <1>0, <1>3, <2>1, <2>4, <2>5, <2>6
<1>9. ASSUME NEW c \in Clients, Leave(c) PROVE Attached'
  <2>1. /\ UNCHANGED <<phase, serving, sink, cpc, fedBy, printed>> /\ peer[c] = "open"
        /\ peer' = [peer EXCEPT ![c] = "left"]
    BY <1>9 DEF Leave, control, core, process
  <2>2. peer'[c] = "left" /\ \A d \in Clients \ {c} : peer'[d] = peer[d]
    BY <1>1, <2>1
  <2>3. \A d : Printing(d)' <=> Printing(d)
    BY <2>1 DEF Printing
  <2>4. Connections'
    BY <1>0, <2>1, <2>2, <2>3 DEF Connections
  <2>5. dropped = {} => OneAttached'
    BY <1>0, <2>1 DEF OneAttached
  <2>6. ASSUME dropped = {}, phase # "Stopped" PROVE Asked'
    BY <1>0, <2>1, <2>2, <2>3, <2>6 DEF Asked
  <2> QED
    BY <1>0, <1>3, <2>1, <2>4, <2>5, <2>6
<1>10. ASSUME NEW c \in Clients, Gone(c) PROVE Attached'
  <2>1. /\ UNCHANGED <<peer, fedBy, printed>> /\ cpc[c] = "in" /\ peer[c] = "left"
        /\ serving' = FALSE /\ phase' = (IF phase = "Busy" THEN "Draining" ELSE phase)
        /\ sink' = (IF sink = c THEN None ELSE sink) /\ cpc' = [cpc EXCEPT ![c] = "done"]
    BY <1>10 DEF Gone, ClientGone, process
  <2>2. cpc'[c] = "done" /\ \A d \in Clients \ {c} : cpc'[d] = cpc[d]
    BY <1>1, <2>1
  <2>3. \A d : Printing(d)' <=> Printing(d)
    BY <2>1 DEF Printing
  <2>4. Connections'
    BY <1>0, <2>1, <2>2, <2>3 DEF Connections
  <2>5. ASSUME dropped = {} PROVE sink = c /\ sink' = None
    BY <1>0, <2>1, <2>5 DEF OneAttached
  <2>6. ASSUME dropped = {} PROVE OneAttached'
    BY <1>0, <1>1, <2>1, <2>2, <2>5, <2>6 DEF OneAttached
  <2>7. ASSUME dropped = {} PROVE Asked'
    <3>1. \A d \in Clients : peer[d] # "open"
      BY <1>0, <1>1, <2>1, <2>5, <2>7 DEF OneAttached, Connections
    <3> QED
      BY <2>1, <3>1 DEF Asked
  <2> QED
    BY <1>3, <2>1, <2>4, <2>6, <2>7
<1>11. ASSUME NEW s \in Streams, NEW x \in Symbols[s], ReplPrints(s, x) PROVE Attached'
  <2>1. UNCHANGED <<phase, serving, sink, cpc, peer, fedBy>>
    BY <1>11 DEF ReplPrints, control, core, peers
  <2>2. \A d : Printing(d)' => Printing(d)
    <3> DEFINE r == [sym |-> x, for |-> fedBy]
    <3>1. printed' = [printed EXCEPT ![s] = Append(printed[s], r)] /\ r.for = fedBy
      BY <1>11 DEF ReplPrints
    <3>2. DOMAIN printed = Streams /\ printed[s] \in Printed(s) /\ r \in [sym : Symbols[s], for : Clients \cup {"boot"}]
      BY <1>0 DEF Shapes, Domains, StreamOK
    <3> HIDE DEF r
    <3> DEFINE p == Append(printed[s], r)
    <3>3. /\ DOMAIN p = 1..(Len(printed[s]) + 1) /\ Len(printed[s]) \in Nat
          /\ DOMAIN printed[s] = 1..Len(printed[s])
          /\ p[Len(printed[s]) + 1] = r /\ \A i \in 1..Len(printed[s]) : p[i] = printed[s][i]
      BY <3>2, AppendProperties, LenProperties DEF Printed
    <3>4. printed'[s] = p /\ \A t \in Streams \ {s} : printed'[t] = printed[t]
      BY <3>1, <3>2
    <3> HIDE DEF p
    <3>5. ASSUME NEW i \in DOMAIN p PROVE p[i].for = fedBy \/ (i \in DOMAIN printed[s] /\ p[i] = printed[s][i])
      BY <3>1, <3>3
    <3>6. ASSUME NEW d, Printing(d)' PROVE Printing(d)
      <4>1. CASE fedBy' = d
        BY <2>1, <4>1 DEF Printing
      <4>2. ASSUME NEW t \in Streams, NEW i \in DOMAIN printed'[t], printed'[t][i].for = d
            PROVE  Printing(d)
        <5>1. CASE t = s
          BY <3>4, <3>5, <4>2, <5>1 DEF Printing
        <5>2. CASE t # s
          BY <3>4, <4>2, <5>2 DEF Printing
        <5> QED
          BY <5>1, <5>2
      <4> QED
        BY <3>6, <4>1, <4>2 DEF Printing
    <3> QED
      BY <3>6
  <2>3. Connections'
    BY <1>0, <2>1, <2>2 DEF Connections
  <2>4. dropped = {} => OneAttached'
    BY <1>0, <2>1 DEF OneAttached
  <2>5. ASSUME dropped = {}, phase # "Stopped" PROVE Asked'
    BY <1>0, <2>1, <2>2, <2>5 DEF Asked
  <2> QED
    BY <1>0, <1>3, <2>1, <2>3, <2>4, <2>5
<1> QED
  BY <1>4, <1>5, <1>6, <1>7, <1>8, <1>9, <1>10, <1>11 DEF Around

LEMMA AttachedStep ==
  ASSUME DInv, Step
  PROVE  Attached'
BY AttachedPump, AttachedAround DEF Step
-----------------------------------------------------------------------------
(* What the server keeps to itself.                                        *)

\* A client that has left stays away.
LEMMA LeftStays ==
  ASSUME DInv, Step
  PROVE  \A c \in Clients : peer[c] = "left" => peer'[c] = "left"
<1>0. /\ Shapes /\ Connections /\ peer \in [Clients -> {"away", "open", "left"}]
  BY AttachedAre, ShapesAre DEF DInv, Globals
<1>1. ASSUME NEW s \in Streams, Pump(s) PROVE peer' = peer
  BY <1>0, <1>1, PumpOnward DEF peers
<1>2. ASSUME NEW d \in Clients, Accept(d) PROVE \A c \in Clients : peer[c] = "left" => peer'[c] = "left"
  BY <1>0, <1>2 DEF Accept, Connections
<1>3. ASSUME NEW d \in Clients, Leave(d) PROVE \A c \in Clients : peer[c] = "left" => peer'[c] = "left"
  BY <1>0, <1>3 DEF Leave
<1>4. ASSUME Around, \A c \in Clients : ~Accept(c) /\ ~Leave(c) PROVE peer' = peer
  BY <1>4 DEF Around, SendWarmup, StopServer, ReplDies, StartRequest, Forward, Gone, ReplPrints, peers
<1> QED
  BY <1>1, <1>2, <1>3, <1>4 DEF Step

LEMMA LeftBehindStays ==
  ASSUME NEW s \in Streams, StreamOK(s), Grown(s), NEW i \in Positions(s), LeftBehind(s, i),
         \A c \in Clients : peer[c] = "left" => peer'[c] = "left"
  PROVE  LeftBehind(s, i)'
<1>1. Len(printed[s]) \in Nat /\ taken[s] \in Nat /\ taken[s] <= Len(printed[s])
  BY LenProperties DEF StreamOK, Printed
<1>2. printed'[s][i] = printed[s][i]
  BY <1>1 DEF Grown, Positions
<1> QED
  BY <1>2 DEF LeftBehind

LEMMA SameForwarded ==
  ASSUME NEW t \in Streams, StreamOK(t), Forwarded(t), Same(t), dropped \subseteq dropped',
         phase = "Stopped" => phase' = "Stopped",
         \A c \in Clients : peer[c] = "left" => peer'[c] = "left"
  PROVE  Forwarded(t)'
<1>1. /\ own'[t] = own[t] /\ flushed'[t] = flushed[t] /\ ppc'[t] = ppc[t] /\ buf'[t] = buf[t]
      /\ Positions(t)' = Positions(t) /\ own[t] \subseteq Positions(t) /\ Grown(t)
  BY DEF Same, Positions, StreamOK
<1>2. \A i \in Positions(t) : LeftBehind(t, i) => LeftBehind(t, i)'
  BY <1>1, LeftBehindStays
<1>3. \A i : In(buf[t], i)' <=> In(buf[t], i)
  BY <1>1 DEF In
<1> QED
  BY <1>1, <1>2, <1>3 DEF Forwarded

\* Whoever asked for what is printed has left when nobody is answered, and when nobody
\* is attached.
LEMMA NobodyWaits ==
  ASSUME DInv, dropped = {}, NEW s \in Streams,
         \/ phase \notin {"Busy", "Stopped"} /\ ~(phase = "Idle" /\ serving)
         \/ sink = None,
         NEW i \in 1..Len(printed[s])
  PROVE  LeftBehind(s, i)
<1>0. /\ Connections /\ OneAttached /\ (phase # "Stopped" => Asked)
      /\ peer \in [Clients -> {"away", "open", "left"}] /\ printed[s] \in Printed(s)
      /\ None \notin Clients
  BY AttachedAre, ShapesAre, DeliveryOptions DEF DInv, Globals, StreamOK
<1>1. i \in DOMAIN printed[s]
  BY <1>0, LenProperties DEF Printed
<1> DEFINE c == printed[s][i].for
<1>2. ASSUME c \in Clients PROVE peer[c] = "left"
  <2>1. Printing(c)
    BY <1>1 DEF Printing
  <2>2. peer[c] # "away"
    BY <1>0, <1>2, <2>1 DEF Connections
  <2>3. peer[c] # "open"
    <3>1. CASE phase \notin {"Busy", "Stopped"} /\ ~(phase = "Idle" /\ serving)
      BY <1>0, <1>2, <2>1, <3>1 DEF Asked
    <3>2. CASE sink = None
      BY <1>0, <1>2, <3>2 DEF Connections, OneAttached
    <3> QED
      BY <3>1, <3>2
  <2> QED
    BY <1>0, <1>2, <2>2, <2>3
<1> QED
  BY <1>2 DEF LeftBehind

LEMMA ForwardedStep ==
  ASSUME DInv, Step, NEW t \in Streams
  PROVE  Forwarded(t)'
<1>0. /\ Shapes /\ Forwarded(t) /\ StreamOK(t)
      /\ \A c \in Clients : peer[c] = "left" => peer'[c] = "left"
  BY ShapesAre, LeftStays DEF DInv
<1>1. CASE Around
  <2>1. Onward /\ dropped' = dropped /\ Same(t)
    BY <1>0, <1>1, AroundIs, AroundOnward
  <2> QED
    BY <1>0, <2>1, SameForwarded DEF Onward
<1>2. ASSUME NEW s \in Streams, s # t, Pump(s) PROVE Forwarded(t)'
  <2>1. Onward /\ dropped \subseteq dropped' /\ Same(t)
    BY <1>0, <1>2, PumpOnward
  <2> QED
    BY <1>0, <2>1, SameForwarded DEF Onward
<1>3. ASSUME Pump(t), dropped' = {}, phase' # "Stopped"
      PROVE  /\ \A i \in own'[t] \ flushed'[t] : LeftBehind(t, i)'
             /\ ppc'[t] \in {"ready", "warmup"} =>
                  \A i \in Positions(t)' : In(buf[t], i)' => LeftBehind(t, i)'
  <2>1. dropped = {} /\ phase # "Stopped" /\ printed' = printed /\ peer' = peer
    BY <1>0, <1>3, PumpOnward DEF peers
  <2>2. \A i : LeftBehind(t, i)' <=> LeftBehind(t, i)
    BY <2>1 DEF LeftBehind
  <2>3. \A i \in own[t] \ flushed[t] : LeftBehind(t, i)
    BY <1>0, <2>1 DEF Forwarded
  <2>4. CASE \E n \in 1..(Len(printed[t]) - taken[t]) : ReadChunk(t, n)
    <3>0. PICK n \in 1..(Len(printed[t]) - taken[t]) : ReadChunk(t, n)
      BY <2>4
    <3> DEFINE chunk == [k \in 1..n |-> taken[t] + k]
    <3>1. /\ ppc'[t] = CASE phase = "Booting"              -> "ready"
                         [] phase = "Warmup"               -> "warmup"
                         [] phase \in {"Busy", "Draining"} -> "scan"
                         [] phase = "Idle" /\ serving      -> "tail"
                         [] OTHER                          -> "read"
          /\ \/ ppc'[t] = "read" /\ buf'[t] = <<>> /\ own'[t] = own[t] \cup Elements(chunk)
             \/ ppc'[t] # "read" /\ buf'[t] = chunk /\ own'[t] = own[t]
          /\ flushed'[t] = flushed[t]
      BY <1>0, <3>0, ReadChunkIs
    <3>2. Len(printed[t]) \in Nat /\ taken[t] \in Nat
      BY <1>0, LenProperties DEF StreamOK, Printed
    <3>3. \A i : In(chunk, i) => i \in 1..Len(printed[t])
      BY <3>2 DEF In
    <3>4. \A i : i \in Elements(chunk) <=> In(chunk, i)
      BY InElements
    <3> HIDE DEF chunk
    <3>5. ASSUME ppc'[t] \in {"ready", "warmup", "read"}, NEW i, In(chunk, i) PROVE LeftBehind(t, i)
      <4>1. phase \notin {"Busy", "Stopped"} /\ ~(phase = "Idle" /\ serving)
        BY <2>1, <3>1, <3>5
      <4> QED
        BY <2>1, <3>3, <3>5, <4>1, NobodyWaits
    <3>6. ppc'[t] # "read" => buf'[t] = chunk /\ own'[t] = own[t]
      BY <3>1
    <3>7. ppc'[t] = "read" => own'[t] = own[t] \cup Elements(chunk)
      BY <3>1
    <3>8. \A i : In(buf[t], i)' /\ ppc'[t] # "read" => In(chunk, i)
      BY <3>6 DEF In
    <3> QED
      BY <2>2, <2>3, <3>1, <3>4, <3>5, <3>6, <3>7, <3>8
  <2>5. ASSUME NEW w \in {"ready", "warmup"}, KeptBack(t, w)
        PROVE  ppc'[t] = "read" /\ \A i \in own'[t] \ flushed'[t] : LeftBehind(t, i)'
    <3>1. /\ ppc[t] = w /\ ppc'[t] = "read" /\ own'[t] = own[t] \cup Elements(buf[t])
          /\ flushed'[t] = flushed[t]
      BY <2>5 DEF KeptBack
    <3>2. \A i \in Elements(buf[t]) : i \in Positions(t) /\ In(buf[t], i)
      BY <1>0, ElementsIn, InElements DEF StreamOK
    <3>3. \A i \in Elements(buf[t]) : LeftBehind(t, i)
      BY <1>0, <2>1, <2>5, <3>1, <3>2 DEF Forwarded
    <3> QED
      BY <2>2, <2>3, <3>1, <3>3
  <2>6. CASE DetectReady(t)
    <3>1. KeptBack(t, "ready")
      BY <1>0, <2>6, DetectReadyIs
    <3>2. ppc'[t] = "read" /\ \A i \in own'[t] \ flushed'[t] : LeftBehind(t, i)'
      BY <2>5, <3>1
    <3> QED
      BY <3>2
  <2>7. CASE DetectWarmup(t)
    <3>1. KeptBack(t, "warmup")
      BY <1>0, <2>7, DetectWarmupIs
    <3>2. ppc'[t] = "read" /\ \A i \in own'[t] \ flushed'[t] : LeftBehind(t, i)'
      BY <2>5, <3>1
    <3> QED
      BY <3>2
  <2>8. CASE ScanResponse(t)
    <3>1. /\ ppc'[t] = "route"
          /\ \/ own'[t] = own[t] \cup Elements(hold[t]) /\ flushed'[t] = flushed[t] \cup Elements(hold[t])
             \/ own'[t] = own[t] /\ flushed'[t] = flushed[t]
      BY <1>0, <2>8, ScanResponseIs
    <3> QED
      BY <2>2, <2>3, <3>1
  <2>9. CASE Route(t)
    <3>1. /\ ppc'[t] \in {"read", "end"} /\ flushed'[t] = flushed[t]
          /\ \/ (sink = None \/ buf[t] = <<>>) /\ own'[t] = own[t] \cup Elements(buf[t])
             \/ own'[t] = own[t]
      BY <1>0, <2>9, RouteIs
    <3>2. \A i \in Elements(buf[t]) : i \in Positions(t) /\ In(buf[t], i)
      BY <1>0, ElementsIn, InElements DEF StreamOK
    <3>3. \A i \in Positions(t) : i \in 1..Len(printed[t])
      BY <1>0, LenProperties DEF StreamOK, Printed, Positions
    <3>4. ASSUME sink = None \/ buf[t] = <<>>, NEW i \in Elements(buf[t]) PROVE LeftBehind(t, i)
      <4>1. CASE buf[t] = <<>>
        BY <3>2, <4>1, EmptyIn
      <4>2. CASE sink = None
        BY <2>1, <3>2, <3>3, <4>2, NobodyWaits
      <4> QED
        BY <3>4, <4>1, <4>2
    <3> QED
      BY <2>2, <2>3, <3>1, <3>4
  <2>10. CASE EndResponse(t)
    <3>1. ppc'[t] = "read" /\ own'[t] = own[t] /\ flushed'[t] = flushed[t]
      BY <1>0, <2>10, EndResponseIs
    <3> QED
      BY <2>2, <2>3, <3>1
  <2>11. CASE EndOfStream(t)
    <3>1. /\ ppc'[t] = "done" /\ own'[t] = own[t] \cup Elements(hold[t])
          /\ flushed'[t] = flushed[t] \cup Elements(hold[t])
      BY <1>0, <2>11, EndOfStreamIs
    <3> QED
      BY <2>2, <2>3, <3>1
  <2> QED
    BY <1>3, <2>4, <2>6, <2>7, <2>8, <2>9, <2>10, <2>11 DEF Pump
<1>4. ASSUME Pump(t) PROVE Forwarded(t)'
  BY <1>3, <1>4 DEF Forwarded
<1> QED
  BY <1>1, <1>2, <1>4 DEF Step
-----------------------------------------------------------------------------
(* DInv is inductive.                                                      *)

LEMMA DInvStutter ==
  ASSUME DInv, UNCHANGED vars
  PROVE  DInv'
<1>1. /\ UNCHANGED <<phase, served, serving, reqSeq, warmupSent, sink, dropped, cpc, peer, requests,
                     fedBy, alive, printed, taken, ppc, buf, found, hold, scanned, stripped, log,
                     watch, got, own, flushed, undelivered, bound, seen, ended>>
  BY DEF vars, control, core, peers, process, scanner, places
<1>2. Shapes'
  BY <1>1 DEF DInv, Shapes, Domains, StreamOK, WatchOK, CoreTypeOK, Printed, Positions
<1>3. Attached'
  BY <1>1 DEF DInv, Attached, Printing
<1>4. (\A w, s : Watches(w, s)' <=> Watches(w, s)) /\ (\A w : Occurred(w)' <=> Occurred(w))
  BY <1>1 DEF Watches, Occurred, Text
<1>5. Watching'
  BY <1>1, <1>4 DEF DInv, Watching
<1>6. ASSUME NEW s \in Streams PROVE Placed(s)' /\ InOrder(s)' /\ Scans(s)' /\ Forwarded(s)' /\ Ends(s)'
  <2>0. Placed(s) /\ InOrder(s) /\ Scans(s) /\ Forwarded(s) /\ Ends(s)
    BY DEF DInv
  <2>1. Placed(s)'
    BY <1>1, <2>0 DEF Placed, Positions, In, Sent
  <2>2. InOrder(s)'
    BY <1>1, <2>0 DEF InOrder, Increasing, Before, Live
  <2>3. Scans(s)'
    BY <1>1, <2>0 DEF Scans, Text
  <2>4. Forwarded(s)'
    BY <1>1, <2>0 DEF Forwarded, LeftBehind, In, Positions
  <2>5. Ends(s)'
    BY <1>1, <2>0 DEF Ends, EndedElsewhere
  <2> QED
    BY <2>1, <2>2, <2>3, <2>4, <2>5
<1> QED
  BY <1>2, <1>3, <1>5, <1>6 DEF DInv

LEMMA DInvNext ==
  ASSUME DInv, [Next]_vars
  PROVE  DInv'
<1>1. CASE Step
  <2>1. Shapes' /\ Attached' /\ Watching'
    BY <1>1, ShapesStep, AttachedStep, WatchingStep DEF DInv
  <2>2. \A s \in Streams : Placed(s)' /\ InOrder(s)' /\ Scans(s)' /\ Forwarded(s)' /\ Ends(s)'
    BY <1>1, PlacedStep, ScansStep, ForwardedStep, EndsStep
  <2> QED
    BY <2>1, <2>2 DEF DInv
<1>2. CASE UNCHANGED vars
  BY <1>2, DInvStutter
<1> QED
  BY <1>1, <1>2 DEF Next, Step, AllDelivered

\* A scanner that was fed nothing has found nothing and holds nothing back.
LEMMA NothingSeen ==
  ASSUME NEW S, NEW markers \in MarkerLists(S)
  PROVE  Unmatched(markers, <<>>) /\ Overlap(markers, <<>>) = 0
<1>1. <<>> \in Seq(S) /\ Len(<<>>) = 0
  OBVIOUS
<1>2. Overlap(markers, <<>>) = 0
  <2>1. Overlap(markers, <<>>) \in 0..Len(<<>>)
    BY <1>1, OverlapIs
  <2> QED
    BY <1>1, <2>1
<1>3. ASSUME NEW k \in DOMAIN markers PROVE Occurrences(markers[k], <<>>, 1) = {}
  <2>1. markers[k] \in Seq(S) /\ markers[k] # <<>>
    BY DEF MarkerLists
  <2>2. Len(markers[k]) \in Nat \ {0}
    BY <2>1, EmptySeq, LenProperties
  <2>3. 1..(Len(<<>>) + 1 - Len(markers[k])) = {}
    BY <1>1, <2>2
  <2> QED
    BY <2>3 DEF Occurrences
<1> QED
  BY <1>2, <1>3 DEF Unmatched

LEMMA DInvInit ==
  ASSUME Init
  PROVE  DInv
<1>0. /\ bound.first \in {"Booting", "Warmup", "Idle"} /\ bound.inputs \in Nat
      /\ None \notin Clients /\ "boot" \notin Clients
  BY DeliveryOptions DEF Init
<1>1. DOMAIN <<>> = {}
  <2>1. <<>> \in Seq({}) /\ Len(<<>>) = 0
    BY EmptySeq
  <2> QED
    BY <2>1, LenProperties
<1>2. ASSUME NEW s \in Streams
      PROVE  /\ printed[s] = <<>> /\ taken[s] = 0 /\ ppc[s] = "read" /\ buf[s] = <<>>
             /\ found[s] \in BOOLEAN /\ hold[s] = <<>> /\ scanned[s] = 0 /\ own[s] = {}
             /\ flushed[s] = {} /\ stripped[s] = {} /\ undelivered[s] = {}
             /\ log[s].text = <<>> /\ log[s].out = {} /\ log[s].found = 0
             /\ \A c \in Clients : got[c][s] = <<>>
  BY DEF Init, Per
<1>3. ASSUME NEW s \in Streams, NEW w \in {"ready", "warmup"}
       PROVE  /\ watch[w][s].on <=> Watched[w][s] # <<>>
              /\ watch[w][s].on \in BOOLEAN /\ watch[w][s].hold = <<>> /\ seen[w][s] = <<>>
  <2> DEFINE on == Watched[w][s] # <<>>
  <2>1. watch[w][s] = [on |-> on, hold |-> <<>>] /\ seen[w][s] = <<>>
    BY WatchedNames DEF Init, Per
  <2>2. on \in BOOLEAN
    OBVIOUS
  <2> HIDE DEF on
  <2>3. watch[w][s].on = on /\ watch[w][s].hold = <<>> /\ seen[w][s] = <<>>
    BY <2>1
  <2> QED
    BY <2>2, <2>3, Zenon DEF on
<1>4. Domains
  BY WatchedNames DEF Init, Per, Domains
<1>5. ASSUME NEW s \in Streams PROVE StreamOK(s)
  <2>1. <<>> \in Seq(Positions(s)) /\ <<>> \in Printed(s) /\ Len(<<>>) = 0
    BY DEF Printed
  <2>2. reqSeq = 0
    BY DEF Init
  <2>3. /\ printed[s] \in Printed(s) /\ taken[s] \in Nat /\ taken[s] <= Len(printed[s])
        /\ ppc[s] \in {"read", "ready", "warmup", "scan", "route", "tail", "end", "done"}
        /\ buf[s] = <<>> /\ scanned[s] \in Nat /\ scanned[s] <= reqSeq
    BY <1>2, <2>1, <2>2
  <2>4. /\ buf[s] \in Seq(Positions(s)) /\ hold[s] \in Seq(Positions(s))
        /\ log[s].text \in Seq(Positions(s))
        /\ \A c \in Clients : got[c][s] \in Seq(Positions(s))
    BY <1>2, <2>1
  <2>5. /\ own[s] \subseteq Positions(s) /\ flushed[s] \subseteq Positions(s)
        /\ stripped[s] \subseteq Positions(s) /\ undelivered[s] \subseteq Positions(s)
        /\ found[s] \in BOOLEAN
    BY <1>2
  <2> QED
    BY <2>3, <2>4, <2>5 DEF StreamOK
<1>6. ASSUME NEW s \in Streams, NEW w \in {"ready", "warmup"} PROVE WatchOK(w, s)
  <2>1. <<>> \in Seq(Positions(s))
    OBVIOUS
  <2> QED
    BY <1>3, <2>1, Zenon DEF WatchOK
<1>7. Globals
  <2>1. served \in BOOLEAN /\ serving \in BOOLEAN /\ warmupSent \in BOOLEAN /\ alive \in BOOLEAN
    BY DEF Init
  <2>2. /\ phase \in Phases /\ bound \in Scenarios /\ reqSeq = 0 /\ requests = 0 /\ sink = None
        /\ dropped = {} /\ fedBy = "boot"
        /\ cpc \in [Clients -> {"none", "in", "forward", "done"}]
        /\ peer \in [Clients -> {"away", "open", "left"}]
    BY <1>0 DEF Init, Phases
  <2> QED
    BY <1>0, <2>1, <2>2 DEF Globals, CoreTypeOK
<1>8. Shapes
  BY <1>4, <1>5, <1>6, <1>7, ShapesAre
<1>9. Attached
  <2>1. \A s \in Streams : DOMAIN printed[s] = {}
    BY <1>2, <1>1
  <2>2. \A c \in Clients : ~Printing(c)
    BY <1>0, <2>1 DEF Init, Printing
  <2> QED
    BY <1>0, <2>2 DEF Init, Attached
<1>10. Watching
  <2>1. ASSUME NEW s \in Streams, NEW w \in {"ready", "warmup"} PROVE Watches(w, s)
    <3>1. /\ watch[w][s].on <=> Watched[w][s] # <<>>
          /\ watch[w][s].hold = <<>> /\ seen[w][s] = <<>>
      BY <1>3
    <3>2. Text(s, seen[w][s]) = <<>> /\ Len(seen[w][s]) = 0
      BY <3>1 DEF Text
    <3>3. Unmatched(Watched[w][s], <<>>) /\ Overlap(Watched[w][s], <<>>) = 0
      BY MarkersListed, NothingSeen
    <3>4. SubSeq(<<>>, 1, 0) = <<>>
      OBVIOUS
    <3>5. SubSeq(seen[w][s], 0 - 0 + 1, 0) = <<>>
      BY <3>1, <3>4
    <3> QED
      BY <3>1, <3>2, <3>3, <3>5 DEF Watches
  <2>2. phase = bound.first
    BY DEF Init
  <2> QED
    BY <1>0, <1>2, <2>1, <2>2 DEF Watching
<1>11. ASSUME NEW s \in Streams PROVE Placed(s) /\ InOrder(s) /\ Scans(s) /\ Forwarded(s) /\ Ends(s)
  <2>1. Positions(s) = {} /\ DOMAIN <<>> = {}
    BY <1>2, <1>1 DEF Positions
  <2>2. Placed(s)
    BY <2>1 DEF Placed
  <2>3. InOrder(s)
    BY <1>2, <2>1 DEF InOrder, Increasing, Before
  <2>4. Scans(s)
    <3>1. log[s].text = <<>> /\ log[s].out = {} /\ log[s].found = 0 /\ hold[s] = <<>>
      BY <1>2
    <3> QED
      BY <3>1, StandsAtFirst, ScansIs
  <2>5. Forwarded(s)
    BY <1>2, <2>1 DEF Forwarded
  <2>6. Ends(s)
    BY <1>2 DEF Ends
  <2> QED
    BY <2>2, <2>3, <2>4, <2>5, <2>6
<1> QED
  BY <1>8, <1>9, <1>10, <1>11 DEF DInv

\* The invariant of the pumps, their scanners and every symbol's way holds in every
\* reachable state, for any streams, clients, markers and printed texts.
THEOREM DeliveryInvariant == Spec => []DInv
<1>1. Init => DInv
  BY DInvInit
<1>2. DInv /\ [Next]_vars => DInv'
  BY DInvNext
<1> QED
  BY <1>1, <1>2, PTL DEF Spec
-----------------------------------------------------------------------------
(* What DInv says of the properties.                                       *)

LEMMA DInvTypes == DInv => TypeOK
<1> SUFFICES ASSUME DInv PROVE TypeOK
  OBVIOUS
<1>1. Globals /\ \A s \in Streams : StreamOK(s) /\ \A w \in {"ready", "warmup"} : WatchOK(w, s)
  BY ShapesAre DEF DInv
<1>2. ASSUME NEW s \in Streams, NEW w \in DOMAIN Watched
      PROVE  /\ watch[w][s].on \in BOOLEAN
             /\ Elements(watch[w][s].hold) \subseteq Positions(s)
             /\ ~watch[w][s].on => watch[w][s].hold = <<>>
  BY <1>1, WatchedNames, ElementsIn DEF WatchOK
<1>3. ASSUME NEW s \in Streams
      PROVE  /\ printed[s] \in Seq([sym : Symbols[s], for : Clients \cup {"boot"}])
             /\ taken[s] \in 0..Len(printed[s])
             /\ ppc[s] \in {"read", "ready", "warmup", "scan", "route", "tail", "end", "done"}
             /\ ppc[s] \in {"read", "done"} => buf[s] = <<>>
             /\ found[s] \in BOOLEAN /\ scanned[s] \in 0..reqSeq
             /\ UNION {Elements(buf[s]), Elements(hold[s]), own[s], flushed[s], stripped[s],
                       undelivered[s]} \subseteq Positions(s)
  <2>1. StreamOK(s) /\ reqSeq \in Nat
    BY <1>1 DEF Globals
  <2>2. Len(printed[s]) \in Nat
    BY <2>1, LenProperties DEF StreamOK, Printed
  <2>3. Elements(buf[s]) \subseteq Positions(s) /\ Elements(hold[s]) \subseteq Positions(s)
    BY <2>1, ElementsIn DEF StreamOK
  <2>4. taken[s] \in 0..Len(printed[s]) /\ scanned[s] \in 0..reqSeq
    BY <2>1, <2>2 DEF StreamOK
  <2> QED
    BY <2>1, <2>3, <2>4 DEF StreamOK, Printed
<1>4. /\ CoreTypeOK
      /\ reqSeq \in 0..requests /\ requests \in 0..bound.inputs
      /\ sink \in Clients \cup {None} /\ dropped \subseteq Clients
      /\ fedBy \in Clients \cup {"boot"}
      /\ cpc \in [Clients -> {"none", "in", "forward", "done"}]
      /\ peer \in [Clients -> {"away", "open", "left"}]
  <2>1. bound.inputs \in Nat
    BY <1>1, DeliveryOptions DEF Globals
  <2> QED
    BY <1>1, <2>1 DEF Globals
<1>5. {warmupSent, alive} \subseteq BOOLEAN
  BY <1>1, Zenon DEF Globals
<1> QED
  BY <1>2, <1>3, <1>4, <1>5 DEF TypeOK

LEMMA DInvPlaces == DInv => EachSymbolOnce
<1> SUFFICES ASSUME DInv, NEW s \in Streams
             PROVE  /\ UNION {f[2] : f \in Fates(s)} = Positions(s)
                    /\ \A f, g \in Fates(s) : f # g => f[2] \cap g[2] = {}
                    /\ \A c \in Clients : Increasing(got[c][s])
  BY DEF EachSymbolOnce
<1>1. StreamOK(s) /\ Placed(s) /\ InOrder(s)
  BY ShapesAre DEF DInv
<1> DEFINE Fate(f, i) == \/ f = <<"hands", Elements(buf[s])>> /\ In(buf[s], i)
                         \/ f = <<"held", Elements(hold[s])>> /\ In(hold[s], i)
                         \/ f = <<"own", own[s]>> /\ i \in own[s]
                         \/ f = <<"stripped", stripped[s]>> /\ i \in stripped[s]
                         \/ f = <<"undelivered", undelivered[s]>> /\ i \in undelivered[s]
                         \/ \E c \in Clients : f = <<c, Elements(got[c][s])>> /\ In(got[c][s], i)
<1>2. ASSUME NEW f \in Fates(s), NEW i \in f[2] PROVE Fate(f, i)
  <2>1. CASE \E c \in Clients : f = <<c, Elements(got[c][s])>>
    BY <1>2, <2>1, InElements
  <2>2. CASE f \in {<<"hands", Elements(buf[s])>>, <<"held", Elements(hold[s])>>}
    BY <1>2, <2>2, InElements
  <2>3. CASE f \in {<<"own", own[s]>>, <<"stripped", stripped[s]>>, <<"undelivered", undelivered[s]>>}
    BY <1>2, <2>3
  <2> QED
    BY <2>1, <2>2, <2>3 DEF Fates
<1>3. ASSUME NEW f, NEW i, Fate(f, i) PROVE f \in Fates(s) /\ i \in f[2]
  <2>1. CASE \E c \in Clients : f = <<c, Elements(got[c][s])>> /\ In(got[c][s], i)
    BY <2>1, InElements DEF Fates
  <2>2. CASE \/ f = <<"hands", Elements(buf[s])>> /\ In(buf[s], i)
             \/ f = <<"held", Elements(hold[s])>> /\ In(hold[s], i)
    BY <2>2, InElements DEF Fates
  <2>3. CASE \/ f = <<"own", own[s]>> /\ i \in own[s]
             \/ f = <<"stripped", stripped[s]>> /\ i \in stripped[s]
             \/ f = <<"undelivered", undelivered[s]>> /\ i \in undelivered[s]
    BY <2>3 DEF Fates
  <2> QED
    BY <1>3, <2>1, <2>2, <2>3
<1>4. ASSUME NEW f, NEW i, Fate(f, i) PROVE i \in Positions(s)
  <2>1. /\ Elements(buf[s]) \subseteq Positions(s) /\ Elements(hold[s]) \subseteq Positions(s)
        /\ \A c \in Clients : Elements(got[c][s]) \subseteq Positions(s)
    BY <1>1, ElementsIn DEF StreamOK
  <2>2. /\ own[s] \subseteq Positions(s) /\ stripped[s] \subseteq Positions(s)
        /\ undelivered[s] \subseteq Positions(s)
    BY <1>1 DEF StreamOK
  <2> QED
    BY <1>4, <2>1, <2>2, InElements
<1>5. ASSUME NEW i \in Positions(s) PROVE \E f : Fate(f, i)
  BY <1>1 DEF Placed, Sent
<1>6. ASSUME NEW i \in Positions(s), NEW f, NEW g, Fate(f, i), Fate(g, i) PROVE f = g
  <2>1. ASSUME NEW c \in Clients, In(got[c][s], i) PROVE Sent(s, i)
    BY <2>1 DEF Sent
  <2>2. \A c, d \in Clients : In(got[c][s], i) /\ In(got[d][s], i) => c = d
    BY <1>1 DEF Placed
  <2>3. /\ In(buf[s], i) => ~(In(hold[s], i) \/ Sent(s, i) \/ i \in own[s] \/ i \in stripped[s]
                                             \/ i \in undelivered[s])
        /\ In(hold[s], i) => ~(Sent(s, i) \/ i \in own[s] \/ i \in stripped[s] \/ i \in undelivered[s])
        /\ Sent(s, i) => ~(i \in own[s] \/ i \in stripped[s] \/ i \in undelivered[s])
        /\ i \in own[s] => ~(i \in stripped[s] \/ i \in undelivered[s])
        /\ ~(i \in stripped[s] /\ i \in undelivered[s])
    BY <1>1 DEF Placed
  <2> QED
    BY <1>6, <2>1, <2>2, <2>3
<1> HIDE DEF Fate
<1>7. UNION {f[2] : f \in Fates(s)} = Positions(s)
  BY <1>2, <1>3, <1>4, <1>5
<1>8. ASSUME NEW f \in Fates(s), NEW g \in Fates(s), f # g PROVE f[2] \cap g[2] = {}
  BY <1>2, <1>4, <1>6, <1>8
<1>9. \A c \in Clients : Increasing(got[c][s])
  BY <1>1 DEF InOrder
<1> QED
  BY <1>7, <1>8, <1>9

LEMMA DInvAnswers == DInv => AnswersAreForwarded
BY DEF DInv, Forwarded, LeftBehind, AnswersAreForwarded, Withheld

LEMMA DInvEnds == DInv => LateMarkersAreSecond
BY DEF DInv, Ends, EndedElsewhere, LateMarkersAreSecond

LEMMA DInvSplits == DInv => SplitsDoNotMatter
BY DEF DInv, Scans, SplitsDoNotMatter

LEMMA DInvPhases == DInv => PhasesFollowMarkers
<1> SUFFICES ASSUME DInv PROVE PhasesFollowMarkers
  OBVIOUS
<1>1. ASSUME NEW w \in {"ready", "warmup"}, Occurred(w)
      PROVE  phase \notin IF w = "ready" THEN {"Booting"} ELSE {"Booting", "Warmup"}
  <2>1. PICK s \in Streams : \E k \in DOMAIN Watched[w][s] :
               Occurrences(Watched[w][s][k], Text(s, seen[w][s]), 1) # {}
    BY <1>1 DEF Occurred
  <2>2. Watches(w, s)
    BY DEF DInv, Watching
  <2>3. Watched[w][s] # <<>>
    <3>1. \A k : k \notin DOMAIN <<>>
      BY EmptyIn DEF In
    <3> QED
      BY <2>1, <3>1
  <2>4. ~Unmatched(Watched[w][s], Text(s, seen[w][s]))
    BY <2>1 DEF Unmatched
  <2> QED
    BY <2>2, <2>3, <2>4 DEF Watches
<1> QED
  BY <1>1 DEF DInv, Watching, PhasesFollowMarkers

\* The variables hold values of their kinds.
THEOREM DeliveryTyped == Spec => []TypeOK
BY DeliveryInvariant, DInvTypes, PTL

\* No symbol that a pump has read is lost, doubled or put out of order (`pump` and
\* what it calls).
THEOREM SymbolsArePlacedOnce == Spec => []EachSymbolOnce
BY DeliveryInvariant, DInvPlaces, PTL

\* Nothing of an answer is kept from the client that asked for it while that client
\* is attached, except what a scanner held back (the `serving` flag).
THEOREM AnswersReachClients == Spec => []AnswersAreForwarded
BY DeliveryInvariant, DInvAnswers, PTL

\* A pump ends a request it is late for only when another pump has ended it already.
THEOREM LateEndsAreSecond == Spec => []LateMarkersAreSecond
BY DeliveryInvariant, DInvEnds, PTL

\* A response scanner's result does not depend on how its text was cut into reads.
THEOREM ScansIgnoreSplits == Spec => []SplitsDoNotMatter
BY DeliveryInvariant, DInvSplits, PTL

\* The REPL's boot and warmup end when their markers have been read, and not before.
THEOREM PhasesNeedMarkers == Spec => []PhasesFollowMarkers
BY DeliveryInvariant, DInvPhases, PTL
=============================================================================
