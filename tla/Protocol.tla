------------------------------ MODULE Protocol ------------------------------
(***************************************************************************)
(* The framed protocol of src/protocol.rs as functions on texts.  A byte   *)
(* is a symbol, and the constants of the format (the identifier, the       *)
(* version, how many digits the length field has and in which base) are    *)
(* parameters, so that a small instance meets the same boundaries: a       *)
(* payload at the limit of a packet, one over it, and an empty one.        *)
(***************************************************************************)
EXTENDS Naturals, Sequences, SequencesExt

CONSTANTS
  ProtocolId,     \* PROTOCOL_ID
  Version,        \* VERSION_MAJOR "." VERSION_MINOR, as text
  DigitSymbols,   \* the digits, in the order of their values
  LengthDigits,   \* LENGTH_DIGITS
  MaxVersion,     \* how long a version field may be (16 in the code)
  SEP, Dot,       \* " " and "."
  NL              \* HEADER_END and PACKET_END

Base == Len(DigitSymbols)

\* The powers of the base that a length field needs.
Power[n \in 0..LengthDigits] == IF n = 0 THEN 1 ELSE Base * Power[n - 1]

MaxPacket == Power[LengthDigits] - 1

-----------------------------------------------------------------------------
(* Writing.                                                                *)

\* Mutant: the newline that ends the packet is not counted.
OverheadShort(name) == Len(ProtocolId) + Len(Version) + 1 + LengthDigits + 1 + Len(name) + 1

\* What a packet takes beside its payload.
Overhead(name) == Len(ProtocolId) + Len(Version) + 1 + LengthDigits + 1 + Len(name) + 1 + 1

MaxPayload(name) == MaxPacket - Overhead(name)

\* A length in LengthDigits digits, zeros in front, or in more if it needs more.
LengthField(n) ==
  LET width == IF n <= MaxPacket THEN LengthDigits ELSE LengthDigits + 1
  IN [i \in 1..width |-> DigitSymbols[((n \div Power[width - i]) % Base) + 1]]

EncodeOne(name, payload) ==
  ProtocolId \o Version \o <<SEP>> \o LengthField(Overhead(name) + Len(payload))
    \o <<SEP>> \o name \o <<NL>> \o payload \o <<NL>>

\* The pieces a payload is split into, none longer than a packet takes.
Pieces(name, payload) ==
  LET cap == MaxPayload(name) IN
  IF payload = <<>> THEN <<<<>>>>
  ELSE [k \in 1..((Len(payload) + cap - 1) \div cap) |->
          SubSeq(payload, (k - 1) * cap + 1,
                 IF k * cap < Len(payload) THEN k * cap ELSE Len(payload))]

Encode(name, payload) ==
  FlattenSeq([k \in DOMAIN Pieces(name, payload) |->
                EncodeOne(name, Pieces(name, payload)[k])])

\* How much of the payload the first k packets hold, and how much of the text they take.
CutAt(name, payload, k) ==
  IF k * MaxPayload(name) <= Len(payload) THEN k * MaxPayload(name) ELSE Len(payload)
EndAt(name, payload, k) == k * Overhead(name) + CutAt(name, payload, k)

-----------------------------------------------------------------------------
(* Reading.                                                                *)

Digits      == ToSet(DigitSymbols)
ValueOf(d)  == (CHOOSE i \in DOMAIN DigitSymbols : DigitSymbols[i] = d) - 1

\* A number is digits.  The code's parse also takes a "+" in front and turns away what
\* is too large for an integer; a server writes neither, and a reader that meets either
\* one where a version or a length should be takes another error for it, or none.
IsNumber(t) == t # <<>> /\ ToSet(t) \subseteq Digits
NumberOf(t) ==
  LET First[n \in 0..Len(t)] ==
        IF n = 0 THEN 0 ELSE First[n - 1] * Base + ValueOf(t[n])
  IN First[Len(t)]

\* Where a symbol first occurs in a text, 0 if it does not.
FirstOf(x, t) ==
  LET at == {i \in DOMAIN t : t[i] = x} IN IF at = {} THEN 0 ELSE Min(at)

\* parse_version: major.minor, both numbers.
IsVersion(v) ==
  LET dot == FirstOf(Dot, v) IN
  dot # 0 /\ IsNumber(SubSeq(v, 1, dot - 1)) /\ IsNumber(SubSeq(v, dot + 1, Len(v)))
MajorOf(v) == NumberOf(SubSeq(v, 1, FirstOf(Dot, v) - 1))

\* The format: texts of symbols, digits that are told apart, and a version that is one.
Text == Seq(STRING)
ASSUME ProtocolFormat ==
  /\ LengthDigits \in Nat \ {0} /\ MaxVersion \in Nat
  /\ {DigitSymbols, ProtocolId, Version} \subseteq Text /\ {SEP, Dot, NL} \subseteq STRING
  /\ Base > 1 /\ \A i, j \in DOMAIN DigitSymbols :
                   DigitSymbols[i] = DigitSymbols[j] => i = j
  /\ ProtocolId # <<>> /\ Len(Version) <= MaxVersion /\ IsVersion(Version)
  /\ SEP \notin ToSet(Version) /\ SEP # NL

Wait   == [kind |-> "wait"]
End    == [kind |-> "end"]
Bad    == [kind |-> "bad"]
Newer  == [kind |-> "newer"]
Broken == [kind |-> "panic"]
Packet(name, payload, size) ==
  [kind |-> "packet", stream |-> name, payload |-> payload, size |-> size]

\* The body of a packet: separator, stream name, newline, payload, newline.  When
\* its only newline is its last symbol the slice of the payload ends before it
\* begins, which the code does not catch.
Body(body, size) ==
  LET he == FirstOf(NL, body) IN
  IF body[1] # SEP \/ he = 0 \/ body[Len(body)] # NL THEN Bad
  ELSE IF he = Len(body) THEN Broken
  ELSE Packet(SubSeq(body, 2, he - 1), SubSeq(body, he + 1, Len(body) - 1), size)

\* From the length field on, which starts after the first `at` symbols of the text.
Sized(text, at, Short) ==
  LET digits == SubSeq(text, at + 1, at + LengthDigits)
      start  == at + LengthDigits
      total  == NumberOf(digits)
  IN IF Len(text) < start THEN Short
     ELSE IF ~IsNumber(digits) \/ total < start + 3 THEN Bad
     ELSE IF Len(text) < total THEN Short
     ELSE Body(SubSeq(text, start + 1, total), total)

\* read_packet on the text that has arrived; `eof` says that no more will.  It may
\* need to wait for more, find the end of the stream, or a packet or an error.
ReadPacket(text, eof) ==
  LET id    == Len(ProtocolId)
      rest  == SubSeq(text, id + 1, Len(text))
      sep   == FirstOf(SEP, rest)
      v     == SubSeq(rest, 1, sep - 1)
      Short == IF eof THEN Bad ELSE Wait
  IN IF text = <<>> THEN (IF eof THEN End ELSE Wait)
     ELSE IF text[1] # ProtocolId[1] THEN Bad
     ELSE IF Len(text) < id THEN Short
     ELSE IF SubSeq(text, 1, id) # ProtocolId THEN Bad
     ELSE IF sep > MaxVersion + 1 \/ (sep = 0 /\ Len(rest) > MaxVersion) THEN Bad
     ELSE IF sep = 0 THEN Short
     ELSE IF ~IsVersion(v) THEN Bad
     ELSE IF MajorOf(v) > MajorOf(Version) THEN Newer
     ELSE Sized(text, id + sep, Short)
=============================================================================
