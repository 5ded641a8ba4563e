------------------------------- MODULE Marker -------------------------------
(***************************************************************************)
(* The marker scanners of src/marker.rs as functions.  A text is a         *)
(* sequence of symbols, a marker a non-empty text, and the markers a       *)
(* scanner watches for a sequence of them (on ties the first one wins).    *)
(* A scanner's state is the text it holds back, so feeding a chunk is      *)
(* scanning what is held back followed by the chunk.                       *)
(***************************************************************************)
EXTENDS Naturals, Sequences, FiniteSets, FiniteSetsExt

NoMatch == [at |-> 0, len |-> 0, k |-> 0]

\* The places at or after `from` where marker m occurs in the text.
Occurrences(m, text, from) ==
  {i \in from..(Len(text) + 1 - Len(m)) : SubSeq(text, i, i + Len(m) - 1) = m}

\* No marker occurs inside another one.  A match that has been found stays the
\* earliest then, whatever text follows.
Separate(markers) ==
  \A j, k \in DOMAIN markers :
    Occurrences(markers[j], markers[k], 1) # {} => markers[j] = markers[k]

\* Markers::find: the earliest match, and among those the marker listed first.
Find(markers, text, from) ==
  LET hits == UNION {{[at |-> i, len |-> Len(markers[k]), k |-> k] :
                        i \in Occurrences(markers[k], text, from)} : k \in DOMAIN markers}
      best == CHOOSE h \in hits :
                \A g \in hits : h.at < g.at \/ (h.at = g.at /\ h.k <= g.k)
  IN IF hits = {} THEN NoMatch ELSE best

\* Mutant: the longest prefix that is not the whole marker is left out.
OverlapShort(markers, text) ==
  Max({0} \cup {n \in 1..Len(text) : \E k \in DOMAIN markers :
                  /\ n + 1 < Len(markers[k])
                  /\ SubSeq(text, Len(text) - n + 1, Len(text)) = SubSeq(markers[k], 1, n)})

\* Markers::overlap: how much of the end of the text may be the beginning of a
\* marker.  A whole marker is Find's business.
Overlap(markers, text) ==
  Max({0} \cup {n \in 1..Len(text) : \E k \in DOMAIN markers :
                  /\ n < Len(markers[k])
                  /\ SubSeq(text, Len(text) - n + 1, Len(text)) = SubSeq(markers[k], 1, n)})

\* MarkerScanner::feed stops at the first match.  `emit` is the number of symbols
\* given out, `hold` how many are held back, and `k` says which marker was found.
Once(markers, strip, text) ==
  LET m == Find(markers, text, 1) IN
  IF m # NoMatch
  THEN [done |-> TRUE, k |-> m.k, hold |-> 0,
        emit |-> m.at - 1 + IF strip THEN 0 ELSE m.len]
  ELSE LET keep == Overlap(markers, text) IN
       [done |-> FALSE, k |-> 0, hold |-> keep, emit |-> Len(text) - keep]

\* The matches ResponseScanner::feed goes through, each sought after the last.
Matches(markers, text) ==
  LET After[from \in 1..(Len(text) + 1)] ==
        LET m == Find(markers, text, from) IN
        IF m = NoMatch THEN <<>> ELSE <<m>> \o After[m.at + m.len]
  IN After[1]

\* The symbols of the text at these places, in the order of the text.
Extract(text, places) ==
  LET First[n \in 0..Len(text)] ==
        IF n = 0 THEN <<>>
        ELSE IF n \in places THEN Append(First[n - 1], text[n]) ELSE First[n - 1]
  IN First[Len(text)]

\* ResponseScanner::feed: the symbols of the text that are given out, those that
\* are stripped, the number of markers found, and how many symbols are held back.
Scan(markers, strip, text) ==
  LET ms   == Matches(markers, text)
      last == IF ms = <<>> THEN 0 ELSE ms[Len(ms)].at + ms[Len(ms)].len - 1
      keep == Overlap(markers, SubSeq(text, last + 1, Len(text)))
      cut  == IF strip
              THEN UNION {ms[j].at..(ms[j].at + ms[j].len - 1) : j \in DOMAIN ms}
              ELSE {}
  IN [emit |-> (1..(Len(text) - keep)) \ cut, strip |-> cut,
      found |-> Len(ms), hold |-> keep]
=============================================================================
