------------------------------- MODULE Client -------------------------------
(***************************************************************************)
(* Client mode (src/client.rs): the main thread that reads the response,   *)
(* the sender that writes the input, and the watchdog of --timeout, with   *)
(* the connection between them and a server that writes a response of its  *)
(* own choosing, in pieces of any size, and may close or break the         *)
(* connection at any byte.                                                 *)
(*                                                                         *)
(* A scenario says how the client was called and what the server has to    *)
(* say; what the server does with it is up to the steps.  Data that has    *)
(* arrived stays readable when the socket is shut down, as on Linux.       *)
(***************************************************************************)
EXTENDS Protocol, Marker

CONSTANTS
  Unset,          \* no result or exit code yet
  OutName, ErrName, CtlName,   \* the names of the streams
  EndMarker, ErrorMarker,      \* per stream: <<the marker>>, or <<>> if disabled
  StripMarker,    \* the streams whose markers are stripped
  CtlError,       \* what the payload of a ctl error packet begins with
  Scenarios       \* [raw, timeout : the options, writes : how many pieces the
                  \*  input has, stdinEnds : whether it ends, says : the server's
                  \*  writes, [stream, payload], and spoil : what follows them]

Names   == {OutName, ErrName}
Merged  == <<"merged">>
Outputs == Names \cup {Merged}

\* Stream names are told apart and fit into a header, markers are not empty; what
\* follows the server's packets is no packet.
ASSUME StreamNames ==
  /\ OutName # ErrName /\ CtlName \notin Names /\ Merged \notin Names \cup {CtlName}
  /\ \A o \in Names : {EndMarker[o], ErrorMarker[o]} \subseteq Seq(Text \ {<<>>})
ASSUME Conversations ==
  \A sc \in Scenarios :
    /\ sc \in [raw : BOOLEAN, timeout : BOOLEAN, writes : Nat, stdinEnds : BOOLEAN,
               says : Seq([stream : Text, payload : Text]), spoil : Text]
    /\ \A i \in DOMAIN sc.says :
         NL \notin ToSet(sc.says[i].stream) /\ Overhead(sc.says[i].stream) < MaxPacket
    /\ ~sc.raw => \A n \in 0..Len(sc.spoil), eof \in BOOLEAN :
                    ReadPacket(SubSeq(sc.spoil, 1, n), eof).kind # "packet"
ASSUME UnsetIsNoResult == Unset \notin {"ok", "error", "closed", "failed", "panic"} \cup Nat

VARIABLES
  scenario,
  wire,        \* the server's text
  arrived,     \* how much of the server's text has arrived
  open,        \* the server's end of the connection is open
  shut,        \* the client's end has been shut down by the watchdog
  consumed,    \* how much the reader has taken
  held, shown, \* per output, what its scanner holds back and what was written
  main,        \* where the main thread is
  result,      \* what reading came to: Unset, "ok", "closed" (the stream ended
               \*  first), "failed" (a read or a write did), "panic", or another "error"
  sender,      \* where the sender is
  written,     \* pieces of input written
  watchdog,    \* where the watchdog is
  timedOut,    \* the flag
  exit         \* the exit code

call    == <<scenario, wire>>
reading == <<consumed, held, shown>>
sending == <<sender, written>>
timing  == <<watchdog, timedOut, shut>>
network == <<arrived, open>>
clientVars ==
  <<call, network, reading, main, result, sending, timing, exit>>

\* The markers watched on an output, the end marker before the error marker; the
\* unframed stream is watched for all of them.
Markers(o) ==
  IF o = Merged
  THEN EndMarker[OutName] \o EndMarker[ErrName] \o ErrorMarker[OutName] \o ErrorMarker[ErrName]
  ELSE EndMarker[o] \o ErrorMarker[o]
EndMarkers(o) ==
  IF o = Merged THEN Len(EndMarker[OutName]) + Len(EndMarker[ErrName]) ELSE Len(EndMarker[o])
Strips(o) == (IF o = Merged THEN OutName ELSE o) \in StripMarker

\* Everything the server writes, and what of it is meant for an output.
Wire(sc) ==
  FlattenSeq([i \in DOMAIN sc.says |->
    IF sc.raw THEN sc.says[i].payload ELSE Encode(sc.says[i].stream, sc.says[i].payload)])
    \o sc.spoil
Said(sc, o) ==
  FlattenSeq([i \in DOMAIN sc.says |->
    IF o \in {Merged, sc.says[i].stream} THEN sc.says[i].payload ELSE <<>>])

\* What is meant for each output in the first writes, and where in the text they end.
Upto(sc, n) == [sc EXCEPT !.says = SubSeq(@, 1, n), !.spoil = <<>>]
SaidIn == [sc \in Scenarios |-> [n \in 0..Len(sc.says) |->
             [o \in Outputs |-> Said(Upto(sc, n), o)]]]
EndsOf == [sc \in Scenarios |-> [n \in 0..Len(sc.says) |-> Len(Wire(Upto(sc, n)))]]

\* The places where a reader can stand: in a framed text between two packets, when n
\* writes have been read and k packets of the next one, and in a raw text anywhere; how
\* much has been read there, what of it is meant for each output, and the packet that
\* comes next.
PlaceIn(sc, n, k) ==
  LET w == sc.says[n + 1] IN
  [at    |-> EndsOf[sc][n] + (IF k = 0 THEN 0 ELSE EndAt(w.stream, w.payload, k)),
   heard |-> [o \in Names |->
                IF k # 0 /\ o = w.stream
                THEN SaidIn[sc][n][o] \o SubSeq(w.payload, 1, CutAt(w.stream, w.payload, k))
                ELSE SaidIn[sc][n][o]],
   next  |-> IF n = Len(sc.says) THEN {}
             ELSE LET piece == Pieces(w.stream, w.payload)[k + 1] IN
                  {Packet(w.stream, piece, Len(EncodeOne(w.stream, piece)))}]
PacketsIn(sc, n) ==
  IF n = Len(sc.says) THEN 1 ELSE Len(Pieces(sc.says[n + 1].stream, sc.says[n + 1].payload))
Places ==
  [sc \in Scenarios |->
     IF sc.raw
     THEN {[at |-> n, heard |-> [o \in {Merged} |-> SubSeq(Wire(sc), 1, n)], next |-> {}] :
             n \in 0..Len(Wire(sc))}
     ELSE UNION {{PlaceIn(sc, n, k) : k \in 0..(PacketsIn(sc, n) - 1)} :
                   n \in 0..Len(sc.says)}]

\* What read_packet makes of every part of every text, cut off or still coming in.
Decoded ==
  [sc \in Scenarios |-> IF sc.raw THEN <<>> ELSE
     LET text == Wire(sc) IN
     [from \in 0..Len(text) |-> [to \in from..Len(text) |-> [eof \in BOOLEAN |->
        ReadPacket(SubSeq(text, from + 1, to), eof)]]]]

Fresh == SubSeq(wire, consumed + 1, arrived)
Eof   == shut \/ ~open
Watched == IF scenario.raw THEN {Merged} ELSE Names

ClientInit ==
  /\ scenario \in Scenarios /\ wire = Wire(scenario)
  /\ arrived = 0 /\ open = TRUE /\ consumed = 0
  /\ held = [o \in Outputs |-> <<>>] /\ shown = [o \in Outputs |-> <<>>]
  /\ main = "read" /\ result = Unset /\ exit = Unset
  /\ sender = "write" /\ written = 0
  /\ watchdog = (IF scenario.timeout THEN "wait" ELSE "none")
  /\ timedOut = FALSE /\ shut = FALSE

-----------------------------------------------------------------------------
(* The main thread.                                                        *)

\* Mutant: the loop goes on after its result.
FinishReadsOn(r) == result' = r /\ UNCHANGED main

Finish(r) == result' = r /\ main' = "release"

\* Mutant: what is held back is not looked at together with the next chunk.
FeedChunkOnly(o, chunk) ==
  LET r == IF Markers(o) = <<>> THEN [done |-> FALSE, emit |-> Len(chunk), hold |-> 0]
           ELSE Once(Markers(o), Strips(o), chunk)
  IN /\ shown' = [shown EXCEPT ![o] = @ \o SubSeq(chunk, 1, r.emit)]
     /\ held' = [held EXCEPT ![o] = SubSeq(chunk, Len(chunk) - r.hold + 1, Len(chunk))]
     /\ IF r.done
        THEN Finish(IF r.k <= EndMarkers(o) THEN "ok" ELSE "error")
        ELSE UNCHANGED <<main, result>>

\* feed: an output without markers has no scanner and is passed on.
Feed(o, chunk) ==
  LET text == held[o] \o chunk
      r    == IF Markers(o) = <<>> THEN [done |-> FALSE, emit |-> Len(text), hold |-> 0]
              ELSE Once(Markers(o), Strips(o), text)
  IN /\ shown' = [shown EXCEPT ![o] = @ \o SubSeq(text, 1, r.emit)]
     /\ held' = [held EXCEPT ![o] = SubSeq(text, Len(text) - r.hold + 1, Len(text))]
     /\ IF r.done
        THEN Finish(IF r.k <= EndMarkers(o) THEN "ok" ELSE "error")
        ELSE UNCHANGED <<main, result>>

\* flush_scanner
FlushAll(outputs) ==
  /\ shown' = [o \in Outputs |-> IF o \in outputs THEN shown[o] \o held[o] ELSE shown[o]]
  /\ held' = [o \in Outputs |-> IF o \in outputs THEN <<>> ELSE held[o]]

\* One round of the loop of read_protocol.
ReadFramed ==
  /\ main = "read" /\ ~scenario.raw
  /\ \E p \in {Decoded[scenario][consumed][arrived][Eof]} :
     \/ /\ p.kind = "packet"
        /\ consumed' = consumed + p.size
        /\ IF p.stream \in Names THEN Feed(p.stream, p.payload)
           ELSE /\ UNCHANGED <<held, shown>>
                /\ IF p.stream = CtlName /\ IsPrefix(CtlError, p.payload)
                   THEN Finish("error")
                   ELSE UNCHANGED <<main, result>>
     \/ /\ p.kind = "end"
        /\ FlushAll(Names) /\ Finish("closed")
        /\ UNCHANGED consumed
     \/ /\ p.kind \in {"bad", "newer"}
        /\ Finish("error")
        /\ UNCHANGED <<consumed, held, shown>>
  /\ UNCHANGED <<call, network, sending, timing, exit>>

\* A packet whose payload would end before it begins: the slice panics, which ends the
\* process and all its threads at once, by unwinding to the end of the main thread or, as
\* the release profile has it (Cargo.toml:21), by SIGABRT.
ReadPanics ==
  /\ main = "read" /\ ~scenario.raw
  /\ Decoded[scenario][consumed][arrived][Eof].kind = "panic"
  /\ result' = "panic" /\ main' = "done" /\ exit' \in {101, 134}
  /\ UNCHANGED <<call, network, reading, sending, timing>>

\* One round of the loop of read_raw, or of copy if there is no marker.
ReadRaw ==
  /\ main = "read" /\ scenario.raw
  /\ \/ \E n \in 1..Len(Fresh) :
          Feed(Merged, SubSeq(Fresh, 1, n)) /\ consumed' = consumed + n
     \/ /\ Fresh = <<>> /\ Eof
        /\ FlushAll({Merged})
        /\ Finish(IF Markers(Merged) = <<>> THEN "ok" ELSE "closed")
        /\ UNCHANGED consumed
  /\ UNCHANGED <<call, network, sending, timing, exit>>

\* Reading fails, or writing to stdout or stderr does.
ReadFails ==
  /\ main = "read" /\ (~open \/ Fresh # <<>>)
  /\ Finish("failed")
  /\ UNCHANGED <<call, network, reading, sending, timing, exit>>

\* Set done and notify: a watchdog that still waits ends.
Release ==
  /\ main = "release"
  /\ watchdog' = IF watchdog = "wait" THEN "done" ELSE watchdog
  /\ main' = "watchdog"
  /\ UNCHANGED <<call, network, reading, result, sending, shut, timedOut, exit>>

JoinWatchdog ==
  /\ main = "watchdog" /\ watchdog \in {"none", "done"}
  /\ main' = "sender"
  /\ UNCHANGED <<call, network, reading, result, sending, timing, exit>>

\* Mutant: the deadline is looked at before the result.
ExitDeadlineFirst ==
  /\ main = "sender" /\ sender = "done"
  /\ exit' = IF timedOut THEN 124 ELSE IF result = "ok" THEN 0 ELSE 1
  /\ main' = "done"
  /\ UNCHANGED <<call, network, reading, result, sending, timing>>

\* Join the sender; then the result, the flag and the exit code of lib.rs.
Exit ==
  /\ main = "sender" /\ sender = "done"
  /\ exit' = IF result = "ok" THEN 0 ELSE IF timedOut THEN 124 ELSE 1
  /\ main' = "done"
  /\ UNCHANGED <<call, network, reading, result, sending, timing>>

-----------------------------------------------------------------------------
(* The other threads, as long as the process is there.                     *)

\* send_input writes a piece of the input; copy waits for more of it while the
\* client's own stdin is open.
Write ==
  /\ main # "done" /\ sender = "write" /\ ~Eof /\ written < scenario.writes
  /\ written' = written + 1
  /\ UNCHANGED <<call, network, reading, main, result, sender, timing, exit>>

\* Mutant: only the server's end of the connection stops the sender.
SendEndsWithServer ==
  /\ main # "done" /\ sender = "write"
  /\ \/ written = scenario.writes /\ scenario.stdinEnds
     \/ written < scenario.writes /\ ~open
  /\ sender' = "done"
  /\ UNCHANGED <<call, network, reading, main, result, written, timing, exit>>

\* All is written, or a write failed.
SendEnds ==
  /\ main # "done" /\ sender = "write"
  /\ \/ written = scenario.writes /\ scenario.stdinEnds
     \/ written < scenario.writes /\ Eof
  /\ sender' = "done"
  /\ UNCHANGED <<call, network, reading, main, result, written, timing, exit>>

\* Mutant: the socket is shut down without a word of why.
DeadlineUnflagged ==
  /\ main # "done" /\ watchdog = "wait"
  /\ watchdog' = "shutdown" /\ UNCHANGED timedOut
  /\ UNCHANGED <<call, network, reading, main, result, sending, shut, exit>>

\* The deadline passes before done is set.
Deadline ==
  /\ main # "done" /\ watchdog = "wait"
  /\ watchdog' = "shutdown" /\ timedOut' = TRUE
  /\ UNCHANGED <<call, network, reading, main, result, sending, shut, exit>>

Shutdown ==
  /\ main # "done" /\ watchdog = "shutdown"
  /\ watchdog' = "done" /\ shut' = TRUE
  /\ UNCHANGED <<call, network, reading, main, result, sending, timedOut, exit>>

\* The server: a part of what it writes arrives, or its end closes.
Arrive ==
  /\ open /\ ~shut
  /\ arrived' \in (arrived + 1)..Len(wire)
  /\ UNCHANGED <<call, open, reading, main, result, sending, timing, exit>>
ServerCloses ==
  /\ open
  /\ open' = FALSE
  /\ UNCHANGED <<call, arrived, reading, main, result, sending, timing, exit>>

ClientThreads ==
  \/ ReadFramed \/ ReadPanics \/ ReadRaw \/ Release \/ JoinWatchdog \/ Exit
  \/ Write \/ SendEnds \/ Deadline \/ Shutdown
ClientNext == ClientThreads \/ ReadFails \/ Arrive \/ ServerCloses

\* The scheduler runs every thread that can run; the clock goes on.  Nothing is
\* assumed of the server: it need not take the input.
ClientFairness ==
  /\ WF_clientVars(ReadFramed) /\ WF_clientVars(ReadPanics) /\ WF_clientVars(ReadRaw)
  /\ WF_clientVars(Release) /\ WF_clientVars(JoinWatchdog) /\ WF_clientVars(Exit)
  /\ WF_clientVars(SendEnds)
  /\ WF_clientVars(Deadline) /\ WF_clientVars(Shutdown)

-----------------------------------------------------------------------------
(* Properties.                                                             *)

\* The variables hold values of their kinds; a result, an exit code and the main
\* thread's place agree.
ClientTypeOK ==
  /\ scenario \in Scenarios
  /\ consumed \in 0..arrived /\ arrived \in 0..Len(wire)
  /\ {open, shut, timedOut} \subseteq BOOLEAN
  /\ main \in {"read", "release", "watchdog", "sender", "done"}
  /\ result \in {"ok", "error", "closed", "failed", "panic", Unset}
  /\ exit \in {0, 1, 101, 124, 134, Unset}
  /\ (result = Unset <=> main = "read") /\ (exit = Unset <=> main # "done")
  /\ sender \in {"write", "done"} /\ written \in 0..scenario.writes
  /\ watchdog \in {"none", "wait", "shutdown", "done"}

\* What an output has been given: all that was meant for it in what has been read, up to
\* the first marker, stripped or not, which ends the reading.  Until there is one, what is
\* held back is the longest end that may begin a marker and no more, and nothing if the
\* reading ended with the stream.
Shows(o, heard) ==
  LET m == Find(Markers(o), heard, 1) IN
  IF m = NoMatch
  THEN /\ shown[o] \o held[o] = heard
       /\ Len(held[o]) = IF result = "closed" THEN 0 ELSE Overlap(Markers(o), heard)
  ELSE /\ main # "read" /\ held[o] = <<>>
       /\ shown[o] = SubSeq(heard, 1, m.at - 1 + (IF Strips(o) THEN 0 ELSE m.len))

\* The client shows all of what the server was given to send, as far as it has read, in
\* order and nothing else, however the packets and the reads were cut (SPEC.md:308), and
\* a stream that ends is read and shown to its end.  Reading that ends otherwise leaves
\* what is held back unshown: ReceivedIsWritten.
ShownIsSaid ==
  /\ \E p \in Places[scenario] :
       p.at = consumed /\ \A o \in Watched : Shows(o, p.heard[o])
  /\ result = "closed" => Eof /\ consumed = arrived

\* When an error marker is seen, a ctl error is received or the stream is unreadable, "the
\* client still writes whatever it already received before exiting" (SPEC.md:322).  It
\* does not: these returns flush no scanner.
ReceivedIsWritten ==
  main = "done" /\ result = "error" => \A o \in Watched : held[o] = <<>>

\* A packet the server encoded is read as it was, name and payload, as soon as the whole of
\* it is there, at any split, size or limit.  Until then the reader waits, and if the
\* stream ends instead it takes it for the end only if no part of the packet is there.
EncodedIsDecoded ==
  ~scenario.raw /\ main = "read" =>
    \E p \in Places[scenario] :
      /\ p.at = consumed
      /\ \A x \in p.next, eof \in BOOLEAN :
           Decoded[scenario][consumed][arrived][eof] =
             IF consumed + x.size <= arrived THEN x
             ELSE IF ~eof THEN Wait
             ELSE IF consumed = arrived THEN End ELSE Bad

\* Whether what has arrived whole holds an end marker and nothing that would make
\* the reader give up.
Completed ==
  LET n      == Max({k \in 0..Len(scenario.says) : EndsOf[scenario][k] <= arrived})
      k(o)   == Find(Markers(o), IF o = Merged THEN SubSeq(wire, 1, arrived)
                                 ELSE SaidIn[scenario][n][o], 1).k
  IN /\ \E o \in Watched : k(o) # 0
     /\ \A o \in Watched : k(o) <= EndMarkers(o)
     /\ \A i \in 1..n : scenario.says[i].stream # CtlName

\* A response that was complete when the watchdog shut the socket down is not
\* reported as a timeout (the comment at client.rs:70).  Nothing arrives after that.
CompletedReadWins ==
  (\A o \in Watched : Separate(Markers(o))) =>
    (shut /\ Completed /\ result # "failed" => exit \in {Unset, 0})

\* An error that the watchdog's shutdown may have caused is always reported as the
\* timeout it is, never as an ordinary failure.
ShutdownIsATimeout == exit = 1 => ~shut

\* With --timeout and an input that ends, the client ends, unless the reading came
\* to its result before the deadline and the sender still waits for a server that
\* does not take the input.
SenderLeftAlone == result # Unset /\ sender = "write" /\ open /\ ~shut
TimeoutEndsClient ==
  scenario.timeout /\ scenario.stdinEnds ~> exit # Unset \/ SenderLeftAlone
=============================================================================
