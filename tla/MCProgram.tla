------------------------------ MODULE MCProgram ------------------------------
EXTENDS Program, TLC

\* The protocol: numbers in base 4 with two digits, so that a packet has at most 15
\* symbols.
MCId      == <<"#">>
MCVersion == <<"1", ".", "0">>
MCDigits  == <<"0", "1", "2", "3">>

\* A client: the end marker is on stdout, the error marker on stderr.
Out == <<"o">>
Err == <<"e">>
Ctl == <<"c">>
MCEndMarker   == (Out :> <<<<"a", "b">>>>) @@ (Err :> <<>>)
MCErrorMarker == (Out :> <<>>) @@ (Err :> <<<<"x", "x">>>>)
MCStrip       == {Out}
MCCtlError    == <<"e">>

Says(s, p) == [stream |-> s, payload |-> p]
Call(raw, timeout, stdinEnds, says, spoil) ==
  [raw |-> raw, timeout |-> timeout, writes |-> 1, stdinEnds |-> stdinEnds,
   says |-> says, spoil |-> spoil]

\* What no packet begins with, a packet of a newer version, and one whose body is too
\* short for its newlines.
Nonsense == <<"x">>
NewerOne == <<"#", "2", ".", "0", " ">>
TooShort == <<"#", "1", ".", "0", " ", "2", "2", " ", "x", "nl">>

\* Framed, with all three streams and a payload that takes two packets; raw, with a
\* marker that comes at the second try; an error marker after an empty packet, an error
\* message after a full one; and what may begin a marker on both outputs, followed by
\* what is no packet.
MCScenarios ==
  {Call(FALSE, t, e, <<Says(Ctl, <<"s">>), Says(Err, <<"x">>),
                       Says(Out, <<"#", "nl", "x", "a", "b", "a">>)>>, <<>>) :
     t \in BOOLEAN, e \in BOOLEAN} \cup
  {Call(TRUE, t, e, <<Says(Out, <<"x", "a", "a", "b", "b">>)>>, <<>>) :
     t \in BOOLEAN, e \in BOOLEAN} \cup
  {Call(FALSE, TRUE, TRUE, says, <<>>) :
     says \in {<<Says(Out, <<>>), Says(Err, <<"x", "x">>)>>,
               <<Says(Out, <<"a", "a", "a", "a">>), Says(Ctl, <<"e", "x">>)>>}} \cup
  {Call(FALSE, TRUE, TRUE, <<Says(Err, <<"x">>), Says(Out, <<"a">>)>>, spoil) :
     spoil \in {Nonsense, NewerOne, TooShort}}

\* Values on the command line.
MCNumerals == {<<"1">>}
MCCtlModes == {<<"stderr">>}

Command == <<<<"-", "e">>, <<"repl">>>>
ServerOn(options) == <<<<"-", "s">>>> \o options \o Command
DefaultUnix == <<"-", "u">>
UnixAt      == <<"-", "u", "S">>
DefaultPid  == <<"-", "d">>
PidAt       == <<"-", "d", "P">>
KillAny     == <<<<"-", "k">>>>
KillAt      == <<<<"-", "k", "P">>>>

\* Two servers, of the same kind or not, and a killer or a client: default names, a
\* path or a pidfile they share, and a TCP address they share.
Meet(a, b, c) == ("p" :> ServerOn(a)) @@ ("q" :> ServerOn(b)) @@ ("k" :> c)
Meetings ==
  {Meet(<<DefaultUnix, DefaultPid>>, <<DefaultUnix, DefaultPid>>, KillAny),
   Meet(<<UnixAt, DefaultPid, <<"-", "r">>>>, <<UnixAt>>, KillAny),
   Meet(<<PidAt>>, <<UnixAt, PidAt>>, KillAt),
   Meet(<<>>, <<>>, <<<<"-", "c">>>>)}

\* One process: any word alone and beside a mode; two words about the address or the
\* command in a mode; and a server with two or three words about its boot and warmup.
Words ==
  {<<"-", "-", o>> : o \in Options} \cup {<<"-", "-", o, "=", "1">> : o \in ValueRequired}
    \cup {<<"-", "-", "ctl", "=", "stderr">>, <<"-", "-">>, <<"-">>, <<"1">>,
          <<"-", "s", "r">>, <<"-", "c", "p", "1">>, <<"-", "m", "s">>, <<"-", "e", "c">>}
Modes     == {<<"-", "s">>, <<"-", "c">>, <<"-", "k">>, <<"-", "-", "help">>}
Where     == {<<"-", "a">>, <<"-", "p", "1">>, <<"-", "u">>, <<"-", "e">>, <<"-", "-">>,
              <<"-", "c">>, <<"1">>}
Detection == {<<"-", "-", o, "=", "1">> : o \in Readiness \cup Warmup}
               \cup {<<"-", "-", o, "=">> : o \in {"warmup-input", "ready-marker-stdout"}}
Lines ==
  {<<v>> : v \in Words} \cup {<<m, v>> : m \in Modes, v \in Words}
    \cup {<<v, m>> : m \in Modes, v \in Words}
    \cup {<<m, v, w>> : m \in Modes, v, w \in Where}
    \cup {ServerOn(<<v, w>>) : v, w \in Detection}
    \cup {ServerOn(<<<<"-", "-", "warmup-input", "=", "1">>, v, w>>) : v, w \in Detection}

MCInvocations == {<<>>} \cup Meetings \cup {"p" :> l : l \in Lines}
=============================================================================
