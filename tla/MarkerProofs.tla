---------------------------- MODULE MarkerProofs ----------------------------
(***************************************************************************)
(* What the scanners of marker.rs find in a text, for any markers and any  *)
(* text, and that it does not matter in which pieces a text is fed.        *)
(*                                                                         *)
(* Induction is taken from the well-foundedness of < on the naturals, as a *)
(* statement about sets.                                                   *)
(***************************************************************************)
EXTENDS Marker, WellFoundedInduction, SequenceTheorems, TLAPS

\* A set of numbers has a least one.
LEMMA LeastOf ==
  ASSUME NEW T, T \subseteq Nat, T # {}
  PROVE  \E x \in T : \A y \in T : x <= y
<1> DEFINE R == OpToRel(<, Nat)
<1>1. IsWellFoundedOn(R, Nat)
  BY NatLessThanWellFounded
<1>2. \A x, y \in Nat : y < x => <<y, x>> \in R
  BY DEF OpToRel
<1> HIDE DEF R
<1>3. PICK x \in T : \A y \in T : ~(<<y, x>> \in R)
  BY <1>1, WFMin
<1>4. \A y \in T : ~(y < x)
  BY <1>2, <1>3
<1>5. x \in Nat /\ \A y \in T : y \in Nat
  OBVIOUS
<1> HIDE DEF R
<1> QED
  BY <1>4, <1>5

\* A set that has 0 and, with a number, the next one, has them all.
LEMMA SetInduction ==
  ASSUME NEW S, 0 \in S, \A n \in Nat : n \in S => n + 1 \in S
  PROVE  Nat \subseteq S
<1> SUFFICES ASSUME Nat \ S # {} PROVE FALSE
  OBVIOUS
<1>1. PICK x \in Nat \ S : \A y \in Nat \ S : x <= y
  BY LeastOf
<1>2. x # 0 /\ x - 1 \in Nat /\ ~(x <= x - 1)
  BY <1>1
<1>3. x - 1 \in S
  BY <1>1, <1>2
<1>4. (x - 1) + 1 \in S
  BY <1>2, <1>3
<1> QED
  BY <1>4

\* A set of numbers with an upper bound has a greatest one, which Max finds.
LEMMA MaxIs ==
  ASSUME NEW T, NEW n \in Nat, T \subseteq 0..n, T # {}
  PROVE  Max(T) \in T /\ \A y \in T : y <= Max(T)
<1> DEFINE U == {d \in 0..n : n - d \in T}
<1>1. PICK t \in T : TRUE
  OBVIOUS
<1>2. n - t \in U /\ U \subseteq Nat
  BY <1>1
<1>3. PICK d \in U : \A e \in U : d <= e
  BY <1>2, LeastOf
<1>4. n - d \in T /\ \A y \in T : n - d >= y
  <2>1. \A y \in T : n - y \in U
    OBVIOUS
  <2> QED
    BY <1>3, <2>1
<1>5. \E x \in T : \A y \in T : x >= y
  BY <1>4
<1>6. Max(T) \in T /\ \A y \in T : Max(T) >= y
  BY <1>5 DEF Max
<1>7. \A y \in T : y \in Nat
  OBVIOUS
<1> QED
  BY <1>6, <1>7

-----------------------------------------------------------------------------
(* Finding.                                                                *)

\* A marker stands at a place of a text.
At(m, text, i) ==
  i \in Nat \ {0} /\ i + Len(m) - 1 <= Len(text) /\ \A j \in 1..Len(m) : text[i + j - 1] = m[j]

Texts(S)       == Seq(S)
MarkerLists(S) == Seq(Seq(S) \ {<<>>})

LEMMA MarkersAre ==
  ASSUME NEW S, NEW markers \in MarkerLists(S)
  PROVE  /\ Len(markers) \in Nat /\ DOMAIN markers = 1..Len(markers)
         /\ \A k \in DOMAIN markers : markers[k] \in Seq(S) /\ Len(markers[k]) \in Nat \ {0}
BY EmptySeq DEF MarkerLists

LEMMA OccursAt ==
  ASSUME NEW S, NEW m \in Seq(S), Len(m) \in Nat \ {0}, NEW text \in Seq(S),
         NEW from \in Nat \ {0}, NEW i
  PROVE  i \in Occurrences(m, text, from) <=> i \in Nat /\ from <= i /\ At(m, text, i)
<1>1. Len(text) \in Nat /\ DOMAIN text = 1..Len(text) /\ \A j \in 1..Len(text) : text[j] \in S
  BY LenProperties, ElementOfSeq
<1>2. ASSUME i \in from..(Len(text) + 1 - Len(m))
      PROVE  SubSeq(text, i, i + Len(m) - 1) = m <=> At(m, text, i)
  <2> DEFINE s == SubSeq(text, i, i + Len(m) - 1)
  <2>1. i \in Int /\ i + Len(m) - 1 \in Int /\ \A j \in i..(i + Len(m) - 1) : text[j] \in S
    BY <1>1, <1>2
  <2>2. /\ s \in Seq(S)
        /\ Len(s) = IF i <= i + Len(m) - 1 THEN (i + Len(m) - 1) - i + 1 ELSE 0
        /\ \A j \in 1..((i + Len(m) - 1) - i + 1) : s[j] = text[i + j - 1]
    BY ONLY <2>1, SubSeqProperties
  <2>3. Len(s) = Len(m) /\ \A j \in 1..Len(m) : s[j] = text[i + j - 1]
    BY <2>1, <2>2
  <2> HIDE DEF s
  <2>4. s = m <=> \A j \in 1..Len(m) : s[j] = m[j]
    BY <2>2, <2>3, SeqEqual
  <2> QED
    BY <1>1, <1>2, <2>3, <2>4 DEF At, s
<1>3. i \in from..(Len(text) + 1 - Len(m)) <=>
        i \in Nat /\ from <= i /\ i + Len(m) - 1 <= Len(text)
  BY <1>1
<1> QED
  BY <1>2, <1>3 DEF Occurrences, At

\* The earliest match from a place on, and among those the marker listed first.
Best(markers, text, from, f) ==
  /\ f = [at |-> f.at, len |-> f.len, k |-> f.k]
  /\ f.k \in DOMAIN markers /\ f.len = Len(markers[f.k])
  /\ f.at \in Nat \ {0} /\ from <= f.at /\ At(markers[f.k], text, f.at)
  /\ \A k \in DOMAIN markers, i \in Nat :
       from <= i /\ At(markers[k], text, i) => f.at < i \/ (f.at = i /\ f.k <= k)
Nowhere(markers, text, from) ==
  \A k \in DOMAIN markers, i \in Nat : from <= i => ~At(markers[k], text, i)

LEMMA FindIs ==
  ASSUME NEW S, NEW markers \in MarkerLists(S), NEW text \in Seq(S), NEW from \in Nat \ {0}
  PROVE  \/ Find(markers, text, from) = NoMatch /\ Nowhere(markers, text, from)
         \/ /\ Find(markers, text, from) # NoMatch
            /\ Best(markers, text, from, Find(markers, text, from))
<1> DEFINE hits == UNION {{[at |-> i, len |-> Len(markers[k]), k |-> k] :
                             i \in Occurrences(markers[k], text, from)} : k \in DOMAIN markers}
           Beats(h, g) == h.at < g.at \/ (h.at = g.at /\ h.k <= g.k)
           best == CHOOSE h \in hits : \A g \in hits : Beats(h, g)
<1>1. Find(markers, text, from) = IF hits = {} THEN NoMatch ELSE best
  BY DEF Find
<1>2. \A h : h \in hits <=> \E k \in DOMAIN markers, i \in Nat :
                /\ h = [at |-> i, len |-> Len(markers[k]), k |-> k]
                /\ from <= i /\ At(markers[k], text, i)
  <2>1. \A k \in DOMAIN markers : \A i :
          i \in Occurrences(markers[k], text, from) <=>
            i \in Nat /\ from <= i /\ At(markers[k], text, i)
    BY MarkersAre, OccursAt
  <2> QED
    BY <2>1
<1> HIDE DEF hits
<1>3. CASE hits = {}
  <2>1. Nowhere(markers, text, from)
    BY <1>2, <1>3 DEF Nowhere
  <2> QED
    BY <1>1, <1>3, <2>1
<1>4. CASE hits # {}
  <2>1. PICK h0 \in hits : TRUE
    BY <1>4
  <2> DEFINE ats == {h.at : h \in hits}
  <2>2. ats \subseteq Nat /\ ats # {}
    BY <1>2, <2>1
  <2>3. PICK a \in ats : \A b \in ats : a <= b
    <3> HIDE DEF ats
    <3> QED BY <2>2, LeastOf
  <2> DEFINE ks == {h.k : h \in {g \in hits : g.at = a}}
  <2>4. ks \subseteq Nat /\ ks # {}
    BY <1>2, <2>3, MarkersAre
  <2>5. PICK c \in ks : \A d \in ks : c <= d
    <3> HIDE DEF ks
    <3> QED BY <2>4, LeastOf
  <2>6. PICK h \in hits : h.at = a /\ h.k = c
    BY <2>5
  <2>7. ASSUME NEW g \in hits PROVE g.at \in Nat /\ g.k \in Nat
    <3>1. g.at \in Nat /\ g.k \in DOMAIN markers
      BY <1>2
    <3> QED
      BY <3>1, MarkersAre
  <2>8. \A g \in hits : Beats(h, g)
    <3> SUFFICES ASSUME NEW g \in hits PROVE Beats(h, g)
      OBVIOUS
    <3>1. a <= g.at
      BY <2>3
    <3>2. g.at = a => c <= g.k
      BY <2>5
    <3> QED
      BY <2>6, <2>7, <3>1, <3>2
  <2>9. best \in hits /\ \A g \in hits : Beats(best, g)
    BY <2>8
  <2> HIDE DEF best, Beats, ats, ks
  <2>10. Find(markers, text, from) = best
    BY <1>1, <1>4
  <2>11. PICK k \in DOMAIN markers, i \in Nat :
           /\ best = [at |-> i, len |-> Len(markers[k]), k |-> k]
           /\ from <= i /\ At(markers[k], text, i)
    BY <1>2, <2>9
  <2>12. ASSUME NEW l \in DOMAIN markers, NEW j \in Nat, from <= j, At(markers[l], text, j)
         PROVE  best.at < j \/ (best.at = j /\ best.k <= l)
    <3>1. [at |-> j, len |-> Len(markers[l]), k |-> l] \in hits
      BY <1>2, <2>12
    <3>2. Beats(best, [at |-> j, len |-> Len(markers[l]), k |-> l])
      BY <2>9, <3>1
    <3> QED
      BY <3>2 DEF Beats
  <2>13. Best(markers, text, from, best)
    BY <2>11, <2>12 DEF Best
  <2>14. best # NoMatch
    BY <2>11 DEF NoMatch
  <2> QED
    BY <2>10, <2>13, <2>14
<1> QED
  BY <1>3, <1>4

\* There is only one best match, and Find finds it.
LEMMA FindBest ==
  ASSUME NEW S, NEW markers \in MarkerLists(S), NEW text \in Seq(S), NEW from \in Nat \ {0},
         NEW f, Best(markers, text, from, f)
  PROVE  Find(markers, text, from) = f
<1> DEFINE g == Find(markers, text, from)
<1>1. f.k \in DOMAIN markers /\ f.at \in Nat /\ from <= f.at /\ At(markers[f.k], text, f.at)
  BY DEF Best
<1>2. Best(markers, text, from, g)
  BY <1>1, FindIs DEF Nowhere
<1> HIDE DEF g
<1>3. f.at = g.at /\ f.k = g.k
  <2>1. g.at \in Nat /\ g.k \in Nat /\ f.k \in Nat
    BY <1>1, <1>2, MarkersAre DEF Best
  <2>2. g.at < f.at \/ (g.at = f.at /\ g.k <= f.k)
    BY <1>1, <1>2 DEF Best
  <2>3. f.at < g.at \/ (f.at = g.at /\ f.k <= g.k)
    BY <1>2 DEF Best
  <2> QED
    BY <1>1, <2>1, <2>2, <2>3
<1>4. f = g
  BY <1>2, <1>3 DEF Best
<1> QED
  BY <1>4 DEF g

LEMMA FindNowhere ==
  ASSUME NEW S, NEW markers \in MarkerLists(S), NEW text \in Seq(S), NEW from \in Nat \ {0}
  PROVE  Find(markers, text, from) = NoMatch <=> Nowhere(markers, text, from)
BY FindIs DEF Nowhere, Best

-----------------------------------------------------------------------------
(* Holding back.                                                           *)

\* The last n symbols of a text are the beginning, and not all, of a marker.
Partial(markers, text, n) ==
  \E k \in DOMAIN markers :
    n < Len(markers[k]) /\ \A j \in 1..n : text[Len(text) - n + j] = markers[k][j]

LEMMA OverlapIs ==
  ASSUME NEW S, NEW markers \in MarkerLists(S), NEW text \in Seq(S)
  PROVE  /\ Overlap(markers, text) \in 0..Len(text)
         /\ Overlap(markers, text) # 0 => Partial(markers, text, Overlap(markers, text))
         /\ \A n \in 1..Len(text) : Partial(markers, text, n) => n <= Overlap(markers, text)
<1> DEFINE Ending(n) == SubSeq(text, Len(text) - n + 1, Len(text))
           all == {n \in 1..Len(text) : \E k \in DOMAIN markers :
                    n < Len(markers[k]) /\ Ending(n) = SubSeq(markers[k], 1, n)}
<1>1. Len(text) \in Nat /\ \A j \in 1..Len(text) : text[j] \in S
  BY LenProperties, ElementOfSeq
<1>2. ASSUME NEW n \in 1..Len(text), NEW k \in DOMAIN markers, n < Len(markers[k])
      PROVE  Ending(n) = SubSeq(markers[k], 1, n)
               <=> \A j \in 1..n : text[Len(text) - n + j] = markers[k][j]
  <2> DEFINE h == SubSeq(markers[k], 1, n)
             t == Ending(n)
             from == Len(text) - n + 1
             last == Len(text)
  <2>1. markers[k] \in Seq(S) /\ Len(markers[k]) \in Nat
    BY MarkersAre
  <2>2. 1 \in Int /\ n \in Int /\ \A j \in 1..n : markers[k][j] \in S
    BY <1>2, <2>1, ElementOfSeq
  <2>3. /\ h \in Seq(S) /\ Len(h) = (IF 1 <= n THEN n - 1 + 1 ELSE 0)
        /\ \A j \in 1..(n - 1 + 1) : h[j] = markers[k][1 + j - 1]
    BY ONLY <2>2, SubSeqProperties
  <2>4. from \in Int /\ last \in Int /\ \A j \in from..last : text[j] \in S
    BY <1>1
  <2>5. /\ SubSeq(text, from, last) \in Seq(S)
        /\ Len(SubSeq(text, from, last)) = (IF from <= last THEN last - from + 1 ELSE 0)
        /\ \A j \in 1..(last - from + 1) : SubSeq(text, from, last)[j] = text[from + j - 1]
    <3> HIDE DEF from, last
    <3> QED BY ONLY <2>4, SubSeqProperties
  <2>6. /\ t \in Seq(S) /\ Len(t) = n
        /\ \A j \in 1..n : t[j] = text[Len(text) - n + j]
    BY <1>1, <2>5
  <2>7. Len(h) = n /\ \A j \in 1..n : h[j] = markers[k][j]
    BY <2>2, <2>3
  <2> HIDE DEF h, t
  <2>8. t = h <=> \A j \in 1..n : t[j] = h[j]
    BY <2>3, <2>6, <2>7, SeqEqual
  <2> QED
    BY <2>6, <2>7, <2>8 DEF h, t
<1>3. \A n : n \in all <=> n \in 1..Len(text) /\ Partial(markers, text, n)
  BY <1>2 DEF Partial
<1>4. Overlap(markers, text) = Max({0} \cup all)
  BY DEF Overlap
<1> HIDE DEF all
<1>5. {0} \cup all \subseteq 0..Len(text) /\ {0} \cup all # {}
  BY <1>1, <1>3
<1>6. Overlap(markers, text) \in {0} \cup all /\ \A n \in all : n <= Overlap(markers, text)
  BY <1>1, <1>4, <1>5, MaxIs
<1> QED
  BY <1>1, <1>3, <1>5, <1>6

LEMMA OverlapUnique ==
  ASSUME NEW S, NEW markers \in MarkerLists(S), NEW text \in Seq(S), NEW n \in 0..Len(text),
         n # 0 => Partial(markers, text, n),
         \A o \in 1..Len(text) : Partial(markers, text, o) => o <= n
  PROVE  Overlap(markers, text) = n
<1>1. Len(text) \in Nat
  BY LenProperties
<1>2. Overlap(markers, text) \in 0..Len(text)
  BY OverlapIs
<1>3. Overlap(markers, text) <= n
  BY <1>1, <1>2, OverlapIs
<1>4. n <= Overlap(markers, text)
  BY <1>1, <1>2, OverlapIs
<1> QED
  BY <1>1, <1>2, <1>3, <1>4

-----------------------------------------------------------------------------
(* One match after the other.                                              *)

Hits == [at : Nat \ {0}, len : Nat \ {0}, k : Nat]

\* Where the search goes on after the first j matches.
From(from, ms, j) == IF j = 0 THEN from ELSE ms[j].at + ms[j].len

\* All matches from a place on, each sought after the last.
Chain(markers, text, from, ms) ==
  /\ ms \in Seq(Hits)
  /\ \A j \in 1..Len(ms) : Best(markers, text, From(from, ms, j - 1), ms[j])
  /\ Nowhere(markers, text, From(from, ms, Len(ms)))

LEMMA HitIs ==
  ASSUME NEW h \in Hits
  PROVE  h.at \in Nat \ {0} /\ h.len \in Nat \ {0}
BY DEF Hits

LEMMA BestIsHit ==
  ASSUME NEW S, NEW markers \in MarkerLists(S), NEW text \in Seq(S), NEW from, NEW f,
         Best(markers, text, from, f)
  PROVE  f \in Hits /\ from <= f.at /\ f.at + f.len <= Len(text) + 1
<1>1. /\ f = [at |-> f.at, len |-> f.len, k |-> f.k] /\ f.k \in DOMAIN markers
      /\ f.len = Len(markers[f.k]) /\ f.at \in Nat \ {0} /\ from <= f.at
      /\ f.at + Len(markers[f.k]) - 1 <= Len(text)
  BY DEF Best, At
<1>2. f.len \in Nat \ {0} /\ f.k \in Nat /\ Len(text) \in Nat
  BY <1>1, MarkersAre, LenProperties
<1>3. [at |-> f.at, len |-> f.len, k |-> f.k] \in Hits
  BY <1>1, <1>2 DEF Hits
<1> QED
  BY <1>1, <1>2, <1>3

LEMMA ChainEnds ==
  ASSUME NEW S, NEW markers \in MarkerLists(S), NEW text \in Seq(S), NEW from,
         Nowhere(markers, text, from)
  PROVE  Chain(markers, text, from, <<>>)
BY EmptySeq DEF Chain, From

LEMMA ChainStarts ==
  ASSUME NEW S, NEW markers \in MarkerLists(S), NEW text \in Seq(S), NEW from, NEW f, NEW rest,
         Best(markers, text, from, f), Chain(markers, text, f.at + f.len, rest)
  PROVE  Chain(markers, text, from, <<f>> \o rest)
<1> DEFINE ms == <<f>> \o rest
<1>1. f \in Hits /\ rest \in Seq(Hits) /\ Len(rest) \in Nat
  BY BestIsHit, LenProperties DEF Chain
<1>2. <<f>> \in Seq(Hits) /\ Len(<<f>>) = 1
  BY <1>1
<1>3. /\ ms \in Seq(Hits) /\ Len(ms) = Len(rest) + 1
      /\ ms[1] = f /\ \A j \in 2..(Len(rest) + 1) : ms[j] = rest[j - 1]
  <2>1. /\ ms \in Seq(Hits) /\ Len(ms) = Len(<<f>>) + Len(rest)
        /\ \A j \in 1..(Len(<<f>>) + Len(rest)) :
             ms[j] = IF j <= Len(<<f>>) THEN <<f>>[j] ELSE rest[j - Len(<<f>>)]
    BY <1>1, <1>2, ConcatProperties
  <2> HIDE DEF ms
  <2> QED
    BY <1>1, <1>2, <2>1
<1> HIDE DEF ms
<1>4. \A j \in 1..(Len(rest) + 1) : From(from, ms, j) = From(f.at + f.len, rest, j - 1)
  BY <1>1, <1>3 DEF From
<1>5. ASSUME NEW j \in 1..Len(ms) PROVE Best(markers, text, From(from, ms, j - 1), ms[j])
  <2>1. CASE j = 1
    BY <1>3, <2>1 DEF From
  <2>2. CASE j # 1
    <3>1. j - 1 \in 1..Len(rest) /\ ms[j] = rest[j - 1]
      BY <1>1, <1>3, <2>2
    <3>2. From(from, ms, j - 1) = From(f.at + f.len, rest, (j - 1) - 1)
      BY <1>1, <1>4, <3>1
    <3> QED
      BY <3>1, <3>2 DEF Chain
  <2> QED
    BY <2>1, <2>2
<1>6. Nowhere(markers, text, From(from, ms, Len(ms)))
  <2>1. From(from, ms, Len(ms)) = From(f.at + f.len, rest, Len(rest))
    BY <1>1, <1>3, <1>4
  <2> QED
    BY <2>1 DEF Chain
<1>7. Chain(markers, text, from, ms)
  BY <1>3, <1>5, <1>6 DEF Chain
<1> QED
  BY <1>7 DEF ms

\* Nothing starts after the end.
LEMMA NothingAfter ==
  ASSUME NEW S, NEW markers \in MarkerLists(S), NEW text \in Seq(S)
  PROVE  Nowhere(markers, text, Len(text) + 1)
<1>1. Len(text) \in Nat /\ \A k \in DOMAIN markers : Len(markers[k]) \in Nat \ {0}
  BY MarkersAre, LenProperties
<1> QED
  BY <1>1 DEF Nowhere, At

\* The recursion of Matches is well-founded: each search starts after the last.
LEMMA MatchesChain ==
  ASSUME NEW S, NEW markers \in MarkerLists(S), NEW text \in Seq(S)
  PROVE  Chain(markers, text, 1, Matches(markers, text))
<1> DEFINE L == Len(text)
           F(from) == Find(markers, text, from)
           Next(g, from) == IF F(from) = NoMatch THEN <<>>
                            ELSE <<F(from)>> \o g[F(from).at + F(from).len]
           After == CHOOSE g : g = [from \in 1..(L + 1) |-> Next(g, from)]
<1>1. L \in Nat
  BY LenProperties
<1>2. ASSUME NEW from \in 1..(L + 1)
      PROVE  \/ F(from) = NoMatch /\ Nowhere(markers, text, from)
             \/ /\ F(from) # NoMatch /\ Best(markers, text, from, F(from))
                /\ F(from).at + F(from).len \in (from + 1)..(L + 1)
  <2>1. from \in Nat \ {0}
    BY <1>1
  <2>2. CASE F(from) = NoMatch
    BY <2>1, <2>2, FindIs DEF Best, Nowhere
  <2>3. CASE F(from) # NoMatch
    <3>1. Best(markers, text, from, F(from))
      BY <2>1, <2>3, FindIs
    <3> HIDE DEF F
    <3>2. F(from) \in Hits /\ from <= F(from).at /\ F(from).at + F(from).len <= L + 1
      BY <3>1, BestIsHit
    <3>3. F(from).at \in Nat /\ F(from).len \in Nat \ {0}
      BY <3>2 DEF Hits
    <3> QED
      BY <1>1, <2>3, <3>1, <3>2, <3>3
  <2> QED
    BY <2>2, <2>3
<1>3. \E g : g = [from \in 1..(L + 1) |-> Next(g, from)]
  <2> DEFINE P == {n \in Nat : n <= L =>
                     \E g : /\ DOMAIN g = (L + 1 - n)..(L + 1)
                            /\ \A from \in (L + 1 - n)..(L + 1) : g[from] = Next(g, from)}
  <2> HIDE DEF F
  <2>1. 0 \in P
    <3> DEFINE g == [from \in (L + 1)..(L + 1) |-> <<>>]
    <3>1. F(L + 1) = NoMatch
      BY <1>1, <1>2
    <3>2. \A from \in (L + 1)..(L + 1) : g[from] = Next(g, from)
      BY <1>1, <3>1
    <3>3. L + 1 - 0 = L + 1 /\ DOMAIN g = (L + 1)..(L + 1)
      BY <1>1
    <3> HIDE DEF g, Next
    <3> QED
      BY <3>2, <3>3
  <2>2. ASSUME NEW n \in Nat, n \in P PROVE n + 1 \in P
    <3> SUFFICES ASSUME n + 1 <= L
                 PROVE  \E g : /\ DOMAIN g = (L - n)..(L + 1)
                               /\ \A from \in (L - n)..(L + 1) : g[from] = Next(g, from)
      BY <1>1
    <3>1. PICK g : /\ DOMAIN g = (L + 1 - n)..(L + 1)
                   /\ \A from \in (L + 1 - n)..(L + 1) : g[from] = Next(g, from)
      BY <1>1, <2>2
    <3> DEFINE h == [from \in (L - n)..(L + 1) |-> IF from = L - n THEN Next(g, from) ELSE g[from]]
    <3>2. \A from \in (L + 1 - n)..(L + 1) : h[from] = g[from]
      BY <1>1
    <3>3. ASSUME NEW from \in (L - n)..(L + 1) PROVE h[from] = Next(g, from)
      <4> HIDE DEF Next
      <4>1. CASE from = L - n
        BY <4>1
      <4>2. CASE from # L - n
        <5>1. from \in (L + 1 - n)..(L + 1)
          BY <1>1, <4>2
        <5> QED
          BY <3>1, <3>2, <5>1
      <4> QED
        BY <4>1, <4>2
    <3>4. ASSUME NEW from \in (L - n)..(L + 1) PROVE Next(g, from) = Next(h, from)
      <4>1. from \in 1..(L + 1)
        BY <1>1
      <4>2. CASE F(from) = NoMatch
        BY <4>2
      <4>3. CASE F(from) # NoMatch
        <5>1. F(from).at + F(from).len \in (L + 1 - n)..(L + 1)
          BY <1>1, <1>2, <4>1, <4>3
        <5>2. h[F(from).at + F(from).len] = g[F(from).at + F(from).len]
          BY <3>2, <5>1
        <5> HIDE DEF h
        <5> QED
          BY <5>2
      <4> QED
        BY <4>2, <4>3
    <3>5. DOMAIN h = (L - n)..(L + 1) /\ \A from \in (L - n)..(L + 1) : h[from] = Next(h, from)
      BY <3>3, <3>4
    <3> QED
      BY <3>5
  <2> HIDE DEF P
  <2>3. L \in P
    BY <1>1, <2>1, <2>2, SetInduction
  <2>4. PICK g : /\ DOMAIN g = (L + 1 - L)..(L + 1)
                 /\ \A from \in (L + 1 - L)..(L + 1) : g[from] = Next(g, from)
    BY <1>1, <2>3 DEF P
  <2> DEFINE h == [from \in 1..(L + 1) |-> g[from]]
  <2>5. ASSUME NEW from \in 1..(L + 1) PROVE h[from] = Next(h, from)
    <3>1. from \in (L + 1 - L)..(L + 1)
      BY <1>1
    <3>2. h[from] = Next(g, from)
      <4> HIDE DEF Next
      <4> QED BY <2>4, <3>1
    <3>3. F(from) # NoMatch => F(from).at + F(from).len \in 1..(L + 1)
      BY <1>1, <1>2
    <3> QED
      BY <3>2, <3>3
  <2>6. h = [from \in 1..(L + 1) |-> Next(h, from)]
    <3>1. h = [from \in 1..(L + 1) |-> h[from]]
      OBVIOUS
    <3> HIDE DEF h, Next
    <3> QED
      BY <2>5, <3>1
  <2> QED
    BY <2>6
<1>4. After = [from \in 1..(L + 1) |-> Next(After, from)]
  BY <1>3
<1>5. Matches(markers, text) = After[1]
  BY DEF Matches
<1> HIDE DEF After, F
<1>6. \A from \in 1..(L + 1) : Chain(markers, text, from, After[from])
  <2> DEFINE P == {n \in Nat : \A from \in 1..(L + 1) :
                     L + 1 - n <= from => Chain(markers, text, from, After[from])}
  <2>0. ASSUME NEW n \in Nat, NEW from \in 1..(L + 1), L + 1 - n <= from,
               \A o \in 1..(L + 1) : from < o => Chain(markers, text, o, After[o])
        PROVE  Chain(markers, text, from, After[from])
    <3>1. After[from] = Next(After, from)
      BY <1>4
    <3>2. CASE F(from) = NoMatch
      <4>1. After[from] = <<>> /\ Nowhere(markers, text, from)
        BY <1>2, <3>1, <3>2
      <4> QED
        BY <4>1, ChainEnds
    <3>3. CASE F(from) # NoMatch
      <4> DEFINE o == F(from).at + F(from).len
      <4>1. o \in 1..(L + 1) /\ from < o /\ Best(markers, text, from, F(from))
        BY <1>1, <1>2, <3>3
      <4>2. Chain(markers, text, o, After[o])
        BY <2>0, <4>1
      <4>3. After[from] = <<F(from)>> \o After[o]
        BY <3>1, <3>3
      <4> QED
        BY <4>1, <4>2, <4>3, ChainStarts
    <3> QED
      BY <3>2, <3>3
  <2>1. 0 \in P
    BY <1>1, <2>0
  <2>2. ASSUME NEW n \in Nat, n \in P PROVE n + 1 \in P
    <3> SUFFICES ASSUME NEW from \in 1..(L + 1), L + 1 - (n + 1) <= from
                 PROVE  Chain(markers, text, from, After[from])
      OBVIOUS
    <3>1. \A o \in 1..(L + 1) : from < o => Chain(markers, text, o, After[o])
      BY <1>1, <2>2
    <3>2. n + 1 \in Nat
      OBVIOUS
    <3> QED
      BY <2>0, <3>1, <3>2
  <2> HIDE DEF P
  <2>3. L \in P
    BY <1>1, <2>1, <2>2, SetInduction
  <2> QED
    BY <1>1, <2>3 DEF P
<1> QED
  BY <1>1, <1>5, <1>6

\* There is only one way to go through the matches.
LEMMA ChainsAgree ==
  ASSUME NEW S, NEW markers \in MarkerLists(S), NEW text \in Seq(S), NEW from \in Nat \ {0},
         NEW a, NEW b, Chain(markers, text, from, a), Chain(markers, text, from, b)
  PROVE  Len(a) <= Len(b) /\ \A j \in 1..Len(a) : a[j] = b[j]
<1> DEFINE P == {n \in Nat : n <= Len(a) => n <= Len(b) /\ \A j \in 1..n : a[j] = b[j]}
<1>1. /\ Len(a) \in Nat /\ Len(b) \in Nat
      /\ \A j \in 1..Len(a) : a[j] \in Hits
      /\ \A j \in 1..Len(b) : b[j] \in Hits
  BY LenProperties, ElementOfSeq DEF Chain
<1>2. 0 \in P
  BY <1>1
<1>3. ASSUME NEW n \in Nat, n \in P PROVE n + 1 \in P
  <2> SUFFICES ASSUME n + 1 <= Len(a)
               PROVE  n + 1 <= Len(b) /\ \A j \in 1..(n + 1) : a[j] = b[j]
    OBVIOUS
  <2>1. n <= Len(b) /\ \A j \in 1..n : a[j] = b[j]
    BY <1>1, <1>3
  <2>2. From(from, a, n) = From(from, b, n) /\ From(from, a, n) \in Nat \ {0}
    <3>1. CASE n = 0
      BY <3>1 DEF From
    <3>2. CASE n # 0
      <4>1. n \in 1..Len(a) /\ n \in 1..n
        BY <1>1, <3>2
      <4>2. a[n] = b[n] /\ a[n].at \in Nat \ {0} /\ a[n].len \in Nat \ {0}
        <5>1. a[n] = b[n] /\ a[n] \in Hits
          BY <1>1, <2>1, <4>1
        <5> QED
          BY <5>1, HitIs
      <4>3. /\ From(from, a, n) = a[n].at + a[n].len
            /\ From(from, b, n) = b[n].at + b[n].len
        BY <3>2 DEF From
      <4> QED
        BY ONLY <4>2, <4>3
    <3> QED
      BY <3>1, <3>2
  <2>3. Best(markers, text, From(from, a, n), a[n + 1])
    <3>1. n + 1 \in 1..Len(a) /\ (n + 1) - 1 = n
      BY <1>1
    <3> QED
      BY <3>1 DEF Chain
  <2>4. n # Len(b)
    <3>1. ASSUME n = Len(b) PROVE Nowhere(markers, text, From(from, b, n))
      BY <3>1 DEF Chain
    <3> QED
      BY <2>2, <2>3, <3>1, FindNowhere, FindBest DEF Nowhere, Best
  <2>5. n + 1 \in 1..Len(b) /\ (n + 1) - 1 = n
    BY <1>1, <2>1, <2>4
  <2>6. Best(markers, text, From(from, b, n), b[n + 1])
    BY <2>5 DEF Chain
  <2>7. a[n + 1] = b[n + 1]
    BY <2>2, <2>3, <2>6, FindBest
  <2> QED
    BY <2>1, <2>5, <2>7
<1> HIDE DEF P
<1>4. Len(a) \in P
  BY <1>1, <1>2, <1>3, SetInduction
<1> QED
  BY <1>1, <1>4 DEF P

LEMMA MatchesUnique ==
  ASSUME NEW S, NEW markers \in MarkerLists(S), NEW text \in Seq(S),
         NEW ms, Chain(markers, text, 1, ms)
  PROVE  Matches(markers, text) = ms
<1> DEFINE a == Matches(markers, text)
<1>1. Chain(markers, text, 1, a)
  BY MatchesChain
<1> HIDE DEF a
<1>2. a \in Seq(Hits) /\ ms \in Seq(Hits) /\ Len(a) \in Nat /\ Len(ms) \in Nat
  BY <1>1, LenProperties DEF Chain
<1>3. Len(a) <= Len(ms) /\ Len(ms) <= Len(a) /\ \A j \in 1..Len(a) : a[j] = ms[j]
  BY <1>1, ChainsAgree
<1>4. a = ms
  BY <1>2, <1>3, SeqEqual
<1> QED
  BY <1>4 DEF a

\* Matches come one after the other and do not go beyond the text.
LEMMA ChainOrdered ==
  ASSUME NEW S, NEW markers \in MarkerLists(S), NEW text \in Seq(S),
         NEW from \in 1..(Len(text) + 1), NEW ms, Chain(markers, text, from, ms)
  PROVE  /\ Len(ms) \in Nat
         /\ \A j \in 1..Len(ms) : /\ ms[j] \in Hits /\ from <= ms[j].at
                                  /\ ms[j].at + ms[j].len <= From(from, ms, Len(ms))
         /\ From(from, ms, Len(ms)) \in from..(Len(text) + 1)
<1> DEFINE P == {n \in Nat : n <= Len(ms) =>
                   /\ From(from, ms, n) \in from..(Len(text) + 1)
                   /\ \A j \in 1..n : /\ from <= ms[j].at
                                      /\ ms[j].at + ms[j].len <= From(from, ms, n)}
<1>1. /\ Len(ms) \in Nat /\ Len(text) \in Nat
      /\ \A j \in 1..Len(ms) : ms[j] \in Hits
  BY LenProperties, ElementOfSeq DEF Chain
<1>2. 0 \in P
  BY <1>1 DEF From
<1>3. ASSUME NEW n \in Nat, n \in P PROVE n + 1 \in P
  <2> SUFFICES ASSUME n + 1 <= Len(ms)
               PROVE  /\ From(from, ms, n + 1) \in from..(Len(text) + 1)
                      /\ \A j \in 1..(n + 1) : /\ from <= ms[j].at
                                 /\ ms[j].at + ms[j].len <= From(from, ms, n + 1)
    OBVIOUS
  <2>1. /\ From(from, ms, n) \in from..(Len(text) + 1)
        /\ \A j \in 1..n : /\ from <= ms[j].at
                           /\ ms[j].at + ms[j].len <= From(from, ms, n)
    BY <1>1, <1>3
  <2>2. n + 1 \in 1..Len(ms) /\ (n + 1) - 1 = n
    BY <1>1
  <2>3. Best(markers, text, From(from, ms, n), ms[n + 1])
    BY <2>2 DEF Chain
  <2>4. /\ ms[n + 1].at \in Nat /\ ms[n + 1].len \in Nat
        /\ From(from, ms, n) <= ms[n + 1].at
        /\ ms[n + 1].at + ms[n + 1].len <= Len(text) + 1
    BY <2>3, BestIsHit DEF Hits
  <2>5. From(from, ms, n + 1) = ms[n + 1].at + ms[n + 1].len
    BY DEF From
  <2>6. ASSUME NEW j \in 1..(n + 1)
        PROVE  from <= ms[j].at /\ ms[j].at + ms[j].len <= From(from, ms, n + 1)
    <3>1. CASE j = n + 1
      BY <1>1, <2>1, <2>4, <2>5, <3>1
    <3>2. CASE j \in 1..n
      <4>1. from <= ms[j].at /\ ms[j].at + ms[j].len <= From(from, ms, n)
        BY <2>1, <3>2
      <4>2. ms[j].at + ms[j].len \in Nat
        BY <1>1, <2>2, <3>2 DEF Hits
      <4>3. From(from, ms, n) \in Nat /\ From(from, ms, n) <= From(from, ms, n + 1)
            /\ From(from, ms, n + 1) \in Nat
        BY <1>1, <2>1, <2>4, <2>5
      <4> DEFINE p == From(from, ms, n)
                 q == From(from, ms, n + 1)
                 e == ms[j].at + ms[j].len
      <4>4. p \in Nat /\ q \in Nat /\ e \in Nat /\ p <= q /\ e <= p
        BY <4>1, <4>2, <4>3
      <4>5. e <= q
        <5> HIDE DEF p, q, e
        <5> QED
          BY ONLY <4>4
      <4> QED
        BY <4>1, <4>5
    <3> QED
      BY <3>1, <3>2
  <2> QED
    BY <1>1, <2>1, <2>4, <2>5, <2>6
<1> HIDE DEF P
<1>4. Len(ms) \in P
  BY <1>1, <1>2, <1>3, SetInduction
<1> QED
  BY <1>1, <1>4 DEF P

-----------------------------------------------------------------------------
(* What a response scanner does with a text.                               *)

Cut(ms) == UNION {ms[j].at..(ms[j].at + ms[j].len - 1) : j \in DOMAIN ms}
Rest(text, from) == SubSeq(text, from, Len(text))

\* ResponseScanner::feed in terms of the matches and of what follows them.
LEMMA ScanIs ==
  ASSUME NEW S, NEW markers \in MarkerLists(S), NEW strip \in BOOLEAN, NEW text \in Seq(S),
         NEW ms, Chain(markers, text, 1, ms)
  PROVE  LET from == From(1, ms, Len(ms))
             keep == Overlap(markers, Rest(text, from))
             cut  == IF strip THEN Cut(ms) ELSE {}
         IN /\ Scan(markers, strip, text) =
                 [emit |-> (1..(Len(text) - keep)) \ cut, strip |-> cut,
                  found |-> Len(ms), hold |-> keep]
            /\ Len(text) \in Nat /\ from \in 1..(Len(text) + 1) /\ Len(ms) \in Nat
            /\ Rest(text, from) \in Seq(S) /\ Len(Rest(text, from)) = Len(text) + 1 - from
            /\ \A j \in 1..(Len(text) + 1 - from) : Rest(text, from)[j] = text[from + j - 1]
            /\ keep \in 0..(Len(text) + 1 - from)
            /\ cut \subseteq 1..(from - 1)
<1> DEFINE from == From(1, ms, Len(ms))
           keep == Overlap(markers, Rest(text, from))
           cut  == IF strip THEN Cut(ms) ELSE {}
           last == IF ms = <<>> THEN 0 ELSE ms[Len(ms)].at + ms[Len(ms)].len - 1
<1>1. Len(text) \in Nat /\ 1 \in 1..(Len(text) + 1) /\ ms \in Seq(Hits)
  BY LenProperties DEF Chain
<1>2. /\ Len(ms) \in Nat /\ from \in 1..(Len(text) + 1)
      /\ \A j \in 1..Len(ms) : ms[j] \in Hits /\ 1 <= ms[j].at /\ ms[j].at + ms[j].len <= from
  BY <1>1, ChainOrdered
<1>3. last + 1 = from
  <2>1. ms = <<>> <=> Len(ms) = 0
    BY <1>1, <1>2, EmptySeq
  <2>2. CASE Len(ms) = 0
    BY <2>1, <2>2 DEF From
  <2>3. CASE Len(ms) # 0
    <3>1. Len(ms) \in 1..Len(ms)
      BY <1>2, <2>3
    <3>2. ms[Len(ms)].at \in Nat /\ ms[Len(ms)].len \in Nat
      BY <1>2, <3>1 DEF Hits
    <3> QED
      BY <2>1, <2>3, <3>2 DEF From
  <2> QED
    BY <2>2, <2>3
<1>4. /\ Rest(text, from) \in Seq(S) /\ Len(Rest(text, from)) = Len(text) + 1 - from
      /\ \A j \in 1..(Len(text) + 1 - from) : Rest(text, from)[j] = text[from + j - 1]
  <2> HIDE DEF from
  <2>1. from \in Int /\ Len(text) \in Int /\ \A j \in from..Len(text) : text[j] \in S
    BY <1>1, <1>2, ElementOfSeq
  <2> DEFINE L == Len(text)
  <2>2. L \in Int /\ \A j \in from..L : text[j] \in S
    BY <2>1
  <2> HIDE DEF L
  <2>3. /\ SubSeq(text, from, L) \in Seq(S)
        /\ Len(SubSeq(text, from, L)) = (IF from <= L THEN L - from + 1 ELSE 0)
        /\ \A j \in 1..(L - from + 1) : SubSeq(text, from, L)[j] = text[from + j - 1]
    BY ONLY <2>1, <2>2, SubSeqProperties
  <2> QED
    BY <1>1, <1>2, <2>3 DEF L, Rest
<1>5. keep \in 0..(Len(text) + 1 - from)
  BY <1>4, OverlapIs
<1>6. Cut(ms) \subseteq 1..(from - 1)
  <2> SUFFICES ASSUME NEW x \in Cut(ms) PROVE x \in 1..(from - 1)
    OBVIOUS
  <2>1. PICK j \in DOMAIN ms : x \in ms[j].at..(ms[j].at + ms[j].len - 1)
    BY DEF Cut
  <2>2. j \in 1..Len(ms)
    BY <1>1, <2>1, LenProperties
  <2>3. ms[j].at \in Nat /\ ms[j].len \in Nat /\ 1 <= ms[j].at /\ ms[j].at + ms[j].len <= from
    BY <1>2, <2>2 DEF Hits
  <2> QED
    BY <1>2, <2>1, <2>3
<1>7. Matches(markers, text) = ms
  BY MatchesUnique
<1>8. Scan(markers, strip, text) =
        [emit |-> (1..(Len(text) - keep)) \ cut, strip |-> cut, found |-> Len(ms), hold |-> keep]
  <2> HIDE DEF from
  <2>1. keep = Overlap(markers, SubSeq(text, last + 1, Len(text)))
    BY <1>3 DEF Rest
  <2> HIDE DEF keep, last
  <2> QED
    BY <1>7, <2>1 DEF Scan, Cut, last
<1> QED
  BY <1>1, <1>2, <1>4, <1>5, <1>6, <1>8

\* Every symbol of a text is given out, stripped, or held back at its end.
LEMMA ScanParts ==
  ASSUME NEW S, NEW markers \in MarkerLists(S), NEW strip \in BOOLEAN, NEW text \in Seq(S)
  PROVE  LET r == Scan(markers, strip, text) IN
         /\ r.hold \in 0..Len(text) /\ r.found \in Nat
         /\ r.emit \cup r.strip = 1..(Len(text) - r.hold)
         /\ r.emit \cap r.strip = {}
<1> DEFINE ms == Matches(markers, text)
           from == From(1, ms, Len(ms))
           keep == Overlap(markers, Rest(text, from))
           cut  == IF strip THEN Cut(ms) ELSE {}
<1>1. Chain(markers, text, 1, ms)
  BY MatchesChain
<1> HIDE DEF ms
<1>2. /\ Scan(markers, strip, text) =
           [emit |-> (1..(Len(text) - keep)) \ cut, strip |-> cut,
            found |-> Len(ms), hold |-> keep]
      /\ Len(text) \in Nat /\ from \in 1..(Len(text) + 1) /\ Len(ms) \in Nat
      /\ keep \in 0..(Len(text) + 1 - from)
      /\ cut \subseteq 1..(from - 1)
  BY <1>1, ScanIs
<1> DEFINE n == Len(text)
           r == Scan(markers, strip, text)
<1>3. n \in Nat /\ from \in 1..(n + 1) /\ keep \in 0..(n + 1 - from) /\ cut \subseteq 1..(from - 1)
  BY <1>2
<1>4. /\ r.emit = (1..(n - keep)) \ cut /\ r.strip = cut /\ r.hold = keep /\ r.found = Len(ms)
      /\ Len(ms) \in Nat
  BY <1>2
<1> HIDE DEF from, keep, cut, n, r
<1>5. keep \in 0..n /\ cut \subseteq 1..(n - keep)
  BY <1>3
<1>6. /\ r.hold \in 0..n /\ r.found \in Nat
      /\ r.emit \cup r.strip = 1..(n - r.hold)
      /\ r.emit \cap r.strip = {}
  BY <1>4, <1>5
<1> QED
  BY <1>6 DEF r, n
-----------------------------------------------------------------------------
(* A text that is fed in parts.  A is what has been fed, T that and what   *)
(* follows it, and R what the scanner looks at next: the end of A that it  *)
(* holds back, and what follows.                                           *)

Begins(A, T)       == Len(A) <= Len(T) /\ \A j \in 1..Len(A) : A[j] = T[j]
Continues(T, R, d) == Len(T) = d + Len(R) /\ \A j \in 1..Len(R) : R[j] = T[d + j]
Shift(f, d)        == [at |-> d + f.at, len |-> f.len, k |-> f.k]
Shifted(ms, d)     == [j \in DOMAIN ms |-> Shift(ms[j], d)]

LEMMA ShiftedHit ==
  ASSUME NEW h \in Hits, NEW d \in Nat
  PROVE  Shift(h, d) \in Hits
BY DEF Hits, Shift

LEMMA BeginsAt ==
  ASSUME NEW S, NEW A \in Seq(S), NEW T \in Seq(S), Begins(A, T),
         NEW m \in Seq(S), NEW i
  PROVE  At(m, A, i) <=> At(m, T, i) /\ i + Len(m) - 1 <= Len(A)
<1>1. Len(A) \in Nat /\ Len(T) \in Nat /\ Len(m) \in Nat /\ Len(A) <= Len(T)
  BY LenProperties DEF Begins
<1>2. ASSUME i \in Nat \ {0}, i + Len(m) - 1 <= Len(A), NEW j \in 1..Len(m)
      PROVE  A[i + j - 1] = T[i + j - 1]
  <2>1. i + j - 1 \in 1..Len(A)
    BY <1>1, <1>2
  <2> QED
    BY <2>1 DEF Begins
<1> QED
  BY <1>1, <1>2 DEF At

LEMMA ContinuesAt ==
  ASSUME NEW S, NEW R \in Seq(S), NEW T \in Seq(S), NEW d \in Nat, Continues(T, R, d),
         NEW m \in Seq(S), NEW i \in Nat \ {0}
  PROVE  At(m, R, i) <=> At(m, T, d + i)
<1>1. Len(R) \in Nat /\ Len(T) \in Nat /\ Len(m) \in Nat /\ Len(T) = d + Len(R)
  BY LenProperties DEF Continues
<1>2. ASSUME i + Len(m) - 1 <= Len(R), NEW j \in 1..Len(m)
      PROVE  R[i + j - 1] = T[(d + i) + j - 1]
  <2>1. i + j - 1 \in 1..Len(R) /\ d + (i + j - 1) = (d + i) + j - 1
    BY <1>1, <1>2
  <2> QED
    BY <2>1 DEF Continues
<1>3. d + i \in Nat \ {0} /\ (i + Len(m) - 1 <= Len(R) <=> (d + i) + Len(m) - 1 <= Len(T))
  BY <1>1
<1> QED
  BY <1>1, <1>2, <1>3 DEF At

LEMMA ContinuesNowhere ==
  ASSUME NEW S, NEW markers \in MarkerLists(S), NEW R \in Seq(S), NEW T \in Seq(S),
         NEW d \in Nat, Continues(T, R, d), NEW from \in Nat \ {0}, Nowhere(markers, R, from)
  PROVE  Nowhere(markers, T, d + from)
<1> SUFFICES ASSUME NEW k \in DOMAIN markers, NEW i \in Nat, d + from <= i,
                    At(markers[k], T, i)
             PROVE  FALSE
  BY DEF Nowhere
<1>1. i - d \in Nat \ {0} /\ d + (i - d) = i /\ from <= i - d
  OBVIOUS
<1>2. markers[k] \in Seq(S)
  BY MarkersAre
<1>3. At(markers[k], R, i - d)
  BY <1>1, <1>2, ContinuesAt
<1> QED
  BY <1>1, <1>3 DEF Nowhere

LEMMA ContinuesBest ==
  ASSUME NEW S, NEW markers \in MarkerLists(S), NEW R \in Seq(S), NEW T \in Seq(S),
         NEW d \in Nat, Continues(T, R, d), NEW from \in Nat \ {0}, NEW f,
         Best(markers, R, from, f)
  PROVE  Best(markers, T, d + from, Shift(f, d))
<1> DEFINE g == Shift(f, d)
<1>1. /\ g = [at |-> g.at, len |-> g.len, k |-> g.k]
      /\ g.at = d + f.at /\ g.len = f.len /\ g.k = f.k
  BY DEF Shift
<1>2. /\ f.k \in DOMAIN markers /\ f.len = Len(markers[f.k])
      /\ f.at \in Nat \ {0} /\ from <= f.at /\ At(markers[f.k], R, f.at)
  BY DEF Best
<1> HIDE DEF g
<1>3. f.k \in Nat /\ DOMAIN markers \subseteq Nat /\ \A k \in DOMAIN markers : markers[k] \in Seq(S)
  BY <1>2, MarkersAre
<1>4. g.k \in DOMAIN markers /\ g.len = Len(markers[g.k]) /\ g.at \in Nat \ {0} /\ d + from <= g.at
  BY <1>1, <1>2
<1>5. At(markers[g.k], T, g.at)
  BY <1>1, <1>2, <1>3, ContinuesAt
<1>6. ASSUME NEW k \in DOMAIN markers, NEW i \in Nat, d + from <= i, At(markers[k], T, i)
      PROVE  g.at < i \/ (g.at = i /\ g.k <= k)
  <2>1. i - d \in Nat \ {0} /\ d + (i - d) = i /\ from <= i - d
    BY <1>6
  <2>2. At(markers[k], R, i - d)
    BY <1>3, <1>6, <2>1, ContinuesAt
  <2>3. f.at < i - d \/ (f.at = i - d /\ f.k <= k)
    BY <2>1, <2>2 DEF Best
  <2> QED
    BY <1>1, <1>2, <2>1, <2>3
<1>7. g = [at |-> g.at, len |-> g.len, k |-> g.k]
  BY <1>1
<1> QED
  BY <1>4, <1>5, <1>6, <1>7 DEF Best, g

\* What follows does not bring up an earlier match, as it would have to be one
\* around the match that was found.
LEMMA BeginsBest ==
  ASSUME NEW S, NEW markers \in MarkerLists(S), Separate(markers),
         NEW A \in Seq(S), NEW T \in Seq(S), Begins(A, T), NEW from \in Nat \ {0}, NEW f,
         Best(markers, A, from, f)
  PROVE  Best(markers, T, from, f)
<1>1. /\ f.k \in DOMAIN markers /\ f.len = Len(markers[f.k])
      /\ f.at \in Nat \ {0} /\ from <= f.at /\ At(markers[f.k], A, f.at)
      /\ f = [at |-> f.at, len |-> f.len, k |-> f.k]
  BY DEF Best
<1>2. \A k \in DOMAIN markers : markers[k] \in Seq(S) /\ Len(markers[k]) \in Nat \ {0}
  BY MarkersAre
<1>3. At(markers[f.k], T, f.at) /\ f.at + Len(markers[f.k]) - 1 <= Len(A)
  BY <1>1, <1>2, BeginsAt
<1>4. ASSUME NEW k \in DOMAIN markers, NEW i \in Nat, from <= i, At(markers[k], T, i),
             ~(f.at < i \/ (f.at = i /\ f.k <= k))
      PROVE  FALSE
  <2> DEFINE m == markers[k]
             n == markers[f.k]
  <2>1. m \in Seq(S) /\ n \in Seq(S) /\ Len(m) \in Nat \ {0} /\ Len(n) \in Nat \ {0}
        /\ Len(A) \in Nat
    BY <1>1, <1>2, LenProperties
  <2>2. ~(i + Len(m) - 1 <= Len(A))
    <3>1. ASSUME i + Len(m) - 1 <= Len(A) PROVE At(m, A, i)
      BY <1>4, <2>1, <3>1, BeginsAt
    <3> QED
      BY <1>4, <3>1 DEF Best
  <2>3. i <= f.at /\ i \in Nat \ {0} /\ \A j \in 1..Len(m) : T[i + j - 1] = m[j]
    BY <1>1, <1>4, <2>1 DEF At
  <2>4. \A j \in 1..Len(n) : T[f.at + j - 1] = n[j]
    BY <1>3 DEF At
  <2> DEFINE o == f.at - i + 1
  <2>5. o \in Nat \ {0} /\ o + Len(n) - 1 < Len(m)
    BY <1>1, <1>3, <2>1, <2>2, <2>3
  <2>6. ASSUME NEW j \in 1..Len(n) PROVE m[o + j - 1] = n[j]
    <3>1. o + j - 1 \in 1..Len(m) /\ i + (o + j - 1) - 1 = f.at + j - 1
      <4>1. f.at \in Nat /\ i \in Nat /\ j \in 1..Len(n) /\ Len(m) \in Nat /\ Len(n) \in Nat
        BY <1>1, <2>1
      <4> DEFINE a == f.at
                 x == Len(m)
                 y == Len(n)
      <4>2. /\ a \in Nat /\ i \in Nat /\ x \in Nat /\ y \in Nat /\ j \in 1..y
            /\ o = a - i + 1 /\ o \in Nat \ {0} /\ o + y - 1 < x
        BY <4>1, <2>5
      <4> HIDE DEF a, x, y, o, m, n
      <4>3. o + j - 1 \in 1..x /\ i + (o + j - 1) - 1 = a + j - 1
        BY ONLY <4>2
      <4> QED
        BY <4>3 DEF a, x
    <3>2. T[i + (o + j - 1) - 1] = m[o + j - 1]
      BY <2>3, <3>1
    <3> QED
      BY <2>4, <3>1, <3>2
  <2>7. At(n, m, o)
    <3> HIDE DEF m, n, o
    <3> QED
      BY <2>1, <2>5, <2>6 DEF At
  <2>8. n = m
    <3>1. 1 <= o /\ o \in Nat /\ 1 \in Nat \ {0}
      BY <2>5
    <3> HIDE DEF o, m, n
    <3>2. o \in Occurrences(n, m, 1)
      BY <2>1, <2>7, <3>1, OccursAt
    <3> QED
      BY <1>1, <3>2 DEF Separate, m, n
  <2> HIDE DEF o, m, n
  <2> QED
    BY <2>1, <2>5, <2>8
<1>5. \A k \in DOMAIN markers, i \in Nat :
        from <= i /\ At(markers[k], T, i) => f.at < i \/ (f.at = i /\ f.k <= k)
  BY <1>4
<1> QED
  BY <1>1, <1>3, <1>5 DEF Best

\* After the last match, a marker occurs only where the scanner still looks.
LEMMA HeldIsEnough ==
  ASSUME NEW S, NEW markers \in MarkerLists(S), NEW A \in Seq(S), NEW T \in Seq(S),
         Begins(A, T), NEW from \in 1..(Len(A) + 1), Nowhere(markers, A, from),
         NEW A1 \in Seq(S), Len(A1) = Len(A) + 1 - from,
         \A j \in 1..Len(A1) : A1[j] = A[from + j - 1],
         NEW k \in DOMAIN markers, NEW i \in Nat, from <= i, At(markers[k], T, i)
  PROVE  Len(A) - Overlap(markers, A1) < i
<1> DEFINE m == markers[k]
           n == Len(A) - i + 1
           keep == Overlap(markers, A1)
<1>1. m \in Seq(S) /\ Len(m) \in Nat \ {0} /\ Len(A) \in Nat /\ Len(T) \in Nat
      /\ Len(A) <= Len(T) /\ Len(A1) \in Nat
  BY MarkersAre, LenProperties DEF Begins
<1>2. ~(i + Len(m) - 1 <= Len(A))
  BY <1>1, BeginsAt DEF Nowhere
<1>3. keep \in 0..Len(A1)
  BY OverlapIs
<1> SUFFICES ASSUME i <= Len(A) PROVE n <= keep
  <2> HIDE DEF m
  <2> QED
    BY <1>1, <1>3
<1>4. n \in 1..Len(A1) /\ n < Len(m) /\ i \in 1..Len(A)
  BY <1>1, <1>2
<1>5. ASSUME NEW j \in 1..n PROVE A1[Len(A1) - n + j] = m[j]
  <2>1. /\ j \in 1..Len(m) /\ Len(A1) - n + j \in 1..Len(A1)
        /\ from + (Len(A1) - n + j) - 1 = i + j - 1 /\ i + j - 1 \in 1..Len(A)
    <3> HIDE DEF m
    <3> QED
      BY <1>1, <1>4
  <2>2. A1[Len(A1) - n + j] = A[i + j - 1]
    BY <2>1
  <2>3. A[i + j - 1] = T[i + j - 1]
    BY <2>1 DEF Begins
  <2>4. T[i + j - 1] = m[j]
    BY <2>1 DEF At
  <2> QED
    BY <2>2, <2>3, <2>4
<1>6. Partial(markers, A1, n)
  <2> HIDE DEF n
  <2> QED
    BY <1>4, <1>5 DEF Partial
<1> QED
  BY <1>4, <1>6, OverlapIs
\* The matches in the whole text are those in its beginning and those in what the
\* scanner looks at next.
LEMMA ChainInParts ==
  ASSUME NEW S, NEW markers \in MarkerLists(S), Separate(markers),
         NEW A \in Seq(S), NEW T \in Seq(S), NEW R \in Seq(S), NEW d \in Nat,
         Begins(A, T), Continues(T, R, d),
         NEW a, Chain(markers, A, 1, a), NEW b, Chain(markers, R, 1, b),
         From(1, a, Len(a)) <= d + 1,
         \A k \in DOMAIN markers, i \in Nat :
           From(1, a, Len(a)) <= i /\ At(markers[k], T, i) => d < i
  PROVE  LET ms == a \o Shifted(b, d) IN
         /\ Chain(markers, T, 1, ms)
         /\ Len(ms) = Len(a) + Len(b) /\ Len(a) \in Nat /\ Len(b) \in Nat
         /\ \A j \in 1..Len(a) : ms[j] = a[j]
         /\ \A j \in 1..Len(b) : ms[Len(a) + j] = Shift(b[j], d)
<1> DEFINE s  == Shifted(b, d)
           ms == a \o s
           e  == From(1, a, Len(a))
<1>1. /\ a \in Seq(Hits) /\ b \in Seq(Hits) /\ Len(a) \in Nat /\ Len(b) \in Nat
      /\ \A j \in 1..Len(a) : a[j] \in Hits
      /\ \A j \in 1..Len(b) : b[j] \in Hits
      /\ DOMAIN b = 1..Len(b)
  BY LenProperties, ElementOfSeq DEF Chain
<1>2. s \in Seq(Hits) /\ Len(s) = Len(b) /\ \A j \in 1..Len(b) : s[j] = Shift(b[j], d)
  <2>1. \A j \in 1..Len(b) : Shift(b[j], d) \in Hits
    BY <1>1, ShiftedHit
  <2>2. s = [j \in 1..Len(b) |-> Shift(b[j], d)]
    BY <1>1 DEF Shifted
  <2> HIDE DEF s
  <2> QED
    BY <1>1, <2>1, <2>2
<1> HIDE DEF s
<1>3. /\ ms \in Seq(Hits) /\ Len(ms) = Len(a) + Len(b)
      /\ \A j \in 1..(Len(a) + Len(b)) :
           ms[j] = IF j <= Len(a) THEN a[j] ELSE s[j - Len(a)]
  <2>1. /\ ms \in Seq(Hits) /\ Len(ms) = Len(a) + Len(s)
        /\ \A j \in 1..(Len(a) + Len(s)) :
             ms[j] = IF j <= Len(a) THEN a[j] ELSE s[j - Len(a)]
    BY ONLY <1>1, <1>2, ConcatProperties
  <2> HIDE DEF ms
  <2> QED
    BY <1>2, <2>1
<1> HIDE DEF ms
<1>4. /\ \A j \in 1..Len(a) : ms[j] = a[j]
      /\ \A j \in 1..Len(b) : ms[Len(a) + j] = Shift(b[j], d)
  <2>1. ASSUME NEW j \in 1..Len(a) PROVE ms[j] = a[j]
    BY <1>1, <1>3
  <2>2. ASSUME NEW j \in 1..Len(b) PROVE ms[Len(a) + j] = Shift(b[j], d)
    <3>1. Len(a) + j \in 1..(Len(a) + Len(b)) /\ ~(Len(a) + j <= Len(a)) /\ (Len(a) + j) - Len(a) = j
      BY <1>1
    <3> QED
      BY <1>2, <1>3, <3>1
  <2> QED
    BY <2>1, <2>2
<1>5. \A j \in 0..Len(a) : From(1, ms, j) = From(1, a, j)
  BY <1>1, <1>4 DEF From
<1>6. \A j \in 1..Len(b) : From(1, ms, Len(a) + j) = d + From(1, b, j)
  <2> SUFFICES ASSUME NEW j \in 1..Len(b)
               PROVE  From(1, ms, Len(a) + j) = d + From(1, b, j)
    OBVIOUS
  <2>1. b[j].at \in Nat /\ b[j].len \in Nat
    BY <1>1 DEF Hits
  <2>2. ms[Len(a) + j].at = d + b[j].at /\ ms[Len(a) + j].len = b[j].len
    <3>1. ms[Len(a) + j] = Shift(b[j], d)
      BY <1>4
    <3> QED
      BY <3>1 DEF Shift
  <2>3. Len(a) + j # 0 /\ j # 0
    BY <1>1
  <2> QED
    BY <2>1, <2>2, <2>3 DEF From
<1>7. e \in Nat \ {0} /\ \A j \in 0..Len(a) : From(1, a, j) \in Nat \ {0}
  <2> SUFFICES ASSUME NEW j \in 0..Len(a) PROVE From(1, a, j) \in Nat \ {0}
    BY <1>1
  <2>1. CASE j = 0
    BY <2>1 DEF From
  <2>2. CASE j # 0
    <3>1. a[j] \in Hits
      BY <1>1, <2>2
    <3>2. a[j].at \in Nat \ {0} /\ a[j].len \in Nat \ {0}
      BY <3>1, HitIs
    <3>3. From(1, a, j) = a[j].at + a[j].len
      BY <2>2 DEF From
    <3> QED
      BY ONLY <3>2, <3>3
  <2> QED
    BY <2>1, <2>2
<1>8. \A j \in 0..Len(b) : From(1, b, j) \in Nat \ {0}
  <2> SUFFICES ASSUME NEW j \in 0..Len(b) PROVE From(1, b, j) \in Nat \ {0}
    OBVIOUS
  <2>1. CASE j = 0
    BY <2>1 DEF From
  <2>2. CASE j # 0
    <3>1. b[j] \in Hits
      BY <1>1, <2>2
    <3>2. b[j].at \in Nat \ {0} /\ b[j].len \in Nat \ {0}
      BY <3>1, HitIs
    <3>3. From(1, b, j) = b[j].at + b[j].len
      BY <2>2 DEF From
    <3> QED
      BY ONLY <3>2, <3>3
  <2> QED
    BY <2>1, <2>2
<1>9. ASSUME NEW j \in 1..Len(ms) PROVE Best(markers, T, From(1, ms, j - 1), ms[j])
  <2>1. CASE j \in 1..Len(a)
    <3>1. Best(markers, A, From(1, a, j - 1), a[j]) /\ j - 1 \in 0..Len(a)
      BY <1>1, <2>1 DEF Chain
    <3>2. Best(markers, T, From(1, a, j - 1), a[j])
      BY <1>7, <3>1, BeginsBest
    <3> QED
      BY <1>4, <1>5, <2>1, <3>1, <3>2
  <2>2. CASE j \notin 1..Len(a)
    <3> DEFINE i == j - Len(a)
    <3>1. i \in 1..Len(b) /\ j = Len(a) + i /\ i - 1 \in 0..Len(b) /\ j - 1 = Len(a) + (i - 1)
      BY <1>1, <1>3, <2>2
    <3> HIDE DEF i
    <3>2. Best(markers, R, From(1, b, i - 1), b[i])
      BY <3>1 DEF Chain
    <3>3. Best(markers, T, d + From(1, b, i - 1), Shift(b[i], d))
      BY <1>8, <3>1, <3>2, ContinuesBest
    <3>4. ms[j] = Shift(b[i], d)
      BY <1>4, <3>1
    <3>5. CASE i # 1
      <4>1. i - 1 \in 1..Len(b)
        BY <3>1, <3>5, <1>1
      <4>2. From(1, ms, j - 1) = d + From(1, b, i - 1)
        BY <1>6, <3>1, <4>1
      <4> QED
        BY <3>3, <3>4, <4>2
    <3>6. CASE i = 1
      <4>1. From(1, b, i - 1) = 1 /\ j - 1 = Len(a) /\ Len(a) \in 0..Len(a)
        BY <1>1, <3>1, <3>6 DEF From
      <4>2. From(1, ms, j - 1) = e
        BY <1>5, <4>1
      <4>3. Best(markers, T, d + 1, ms[j])
        BY <3>3, <3>4, <4>1
      <4>4. Best(markers, T, e, ms[j])
        <5>1. e \in Nat /\ e <= d + 1 /\ d + 1 <= ms[j].at /\ ms[j].at \in Nat
          BY <1>7, <4>3 DEF Best
        <5>2. e <= ms[j].at
          <6> DEFINE g == ms[j].at
          <6>1. g \in Nat /\ e <= d + 1 /\ d + 1 <= g /\ e \in Nat
            BY <5>1
          <6>2. e <= g
            <7> HIDE DEF g, e
            <7> QED
              BY <6>1
          <6> QED
            BY <6>2
        <5>3. ASSUME NEW k \in DOMAIN markers, NEW q \in Nat, e <= q, At(markers[k], T, q)
              PROVE  ms[j].at < q \/ (ms[j].at = q /\ ms[j].k <= k)
          <6>1. d + 1 <= q
            BY <5>3
          <6> QED
            BY <4>3, <5>3, <6>1 DEF Best
        <5> HIDE DEF e
        <5> QED
          BY <4>3, <5>2, <5>3 DEF Best
      <4> QED
        BY <4>2, <4>4
    <3> QED
      BY <3>5, <3>6
  <2> QED
    BY <2>1, <2>2
<1>10. Nowhere(markers, T, From(1, ms, Len(ms)))
  <2>0. Nowhere(markers, R, From(1, b, Len(b)))
    BY DEF Chain
  <2>1. CASE Len(b) # 0
    <3>1. Len(b) \in 1..Len(b) /\ Len(b) \in 0..Len(b)
      BY <1>1, <2>1
    <3>2. From(1, ms, Len(ms)) = d + From(1, b, Len(b))
      BY <1>3, <1>6, <3>1
    <3>3. Nowhere(markers, T, d + From(1, b, Len(b)))
      BY <1>8, <2>0, <3>1, ContinuesNowhere
    <3> QED
      BY <3>2, <3>3
  <2>2. CASE Len(b) = 0
    <3>1. Len(ms) = Len(a) /\ Len(a) \in 0..Len(a)
      BY <1>1, <1>3, <2>2
    <3>2. From(1, ms, Len(ms)) = e
      BY <1>5, <3>1
    <3>3. From(1, b, Len(b)) = 1
      BY <2>2 DEF From
    <3>4. Nowhere(markers, T, d + 1)
      BY <2>0, <3>3, ContinuesNowhere
    <3>5. ASSUME NEW k \in DOMAIN markers, NEW q \in Nat, e <= q, At(markers[k], T, q)
          PROVE  FALSE
      <4>1. d + 1 <= q
        BY <3>5
      <4> QED
        BY <3>4, <3>5, <4>1 DEF Nowhere
    <3>6. Nowhere(markers, T, e)
      BY <3>5 DEF Nowhere
    <3> QED
      BY <3>2, <3>6
  <2> QED
    BY <2>1, <2>2
<1>11. Chain(markers, T, 1, ms)
  BY <1>3, <1>9, <1>10 DEF Chain
<1> QED
  BY <1>1, <1>3, <1>4, <1>11 DEF ms, s
\* What is held back at the end is the same whether or not one looks at what comes
\* before the part that was held back.
LEMMA KeepInParts ==
  ASSUME NEW S, NEW markers \in MarkerLists(S), NEW A \in Seq(S), NEW T \in Seq(S),
         NEW R \in Seq(S), Begins(A, T), NEW d \in Nat, d = Len(A) - Overlap(markers, A),
         Continues(T, R, d)
  PROVE  Overlap(markers, T) = Overlap(markers, R)
<1> DEFINE keep == Overlap(markers, A)
           a == Len(A)
           t == Len(T)
           r == Len(R)
<1>1. /\ a \in Nat /\ t \in Nat /\ r \in Nat /\ keep \in 0..a /\ d = a - keep /\ t = d + r
      /\ a <= t
  BY LenProperties, OverlapIs DEF Begins, Continues
<1>2. \A k \in DOMAIN markers : markers[k] \in Seq(S) /\ Len(markers[k]) \in Nat \ {0}
  BY MarkersAre
<1>3. ASSUME NEW n \in 1..r PROVE Partial(markers, T, n) <=> Partial(markers, R, n)
  <2>1. ASSUME NEW j \in 1..n PROVE T[t - n + j] = R[r - n + j]
    <3>1. r - n + j \in 1..r /\ d + (r - n + j) = t - n + j
      <4>1. r \in Nat /\ t = d + r /\ n \in 1..r /\ j \in 1..n /\ d \in Nat
        BY <1>1
      <4> HIDE DEF a, t, r, keep
      <4> QED
        BY ONLY <4>1
    <3> QED
      BY <3>1 DEF Continues
  <2> QED
    BY <2>1 DEF Partial
<1>4. ASSUME NEW n \in 1..t, Partial(markers, T, n) PROVE n <= r
  <2> SUFFICES ASSUME n > r PROVE FALSE
    BY <1>1
  <2> DEFINE p == n - (t - a)
  <2>1. p \in 1..a /\ p <= n /\ ~(p <= keep)
    <3> HIDE DEF a, t, r, keep
    <3> QED
      BY <1>1
  <2>2. PICK k \in DOMAIN markers :
          n < Len(markers[k]) /\ \A j \in 1..n : T[t - n + j] = markers[k][j]
    BY <1>4 DEF Partial
  <2>3. ASSUME NEW j \in 1..p PROVE A[a - p + j] = markers[k][j]
    <3>1. j \in 1..n /\ a - p + j \in 1..a /\ a - p + j = t - n + j
      <4>1. p = n - (t - a)
        OBVIOUS
      <4> HIDE DEF a, t, r, keep, p
      <4> QED
        BY <1>1, <2>1, <4>1
    <3>2. A[a - p + j] = T[a - p + j]
      BY <3>1 DEF Begins
    <3>3. T[t - n + j] = markers[k][j]
      BY <2>2, <3>1
    <3> QED
      BY <3>1, <3>2, <3>3
  <2>4. p < Len(markers[k])
    <3>1. Len(markers[k]) \in Nat
      BY <1>2
    <3> HIDE DEF a, t, r, keep
    <3> QED
      BY <1>1, <2>1, <2>2, <3>1
  <2>5. Partial(markers, A, p)
    <3> HIDE DEF p
    <3> QED
      BY <2>3, <2>4 DEF Partial
  <2>6. p <= keep
    <3> HIDE DEF p
    <3> QED
      BY <2>1, <2>5, OverlapIs
  <2> QED
    BY <2>1, <2>6
<1> DEFINE o == Overlap(markers, R)
<1>5. o \in 0..r /\ (o # 0 => Partial(markers, R, o))
      /\ \A n \in 1..r : Partial(markers, R, n) => n <= o
  BY OverlapIs
<1> HIDE DEF o, a, t, r, keep
<1>6. o \in 0..t /\ (o # 0 => Partial(markers, T, o))
  BY <1>1, <1>3, <1>5
<1>7. \A n \in 1..t : Partial(markers, T, n) => n <= o
  BY <1>1, <1>3, <1>4, <1>5
<1> QED
  BY <1>6, <1>7, OverlapUnique DEF o, t
\* The same, with names for the place after the last match and what depends on it.
Scanned(S, markers, strip, text, ms, from, rest, keep, cut) ==
  /\ LET s == Scan(markers, strip, text) IN
       /\ s.emit = (1..(Len(text) - keep)) \ cut /\ s.strip = cut
       /\ s.found = Len(ms) /\ s.hold = keep
  /\ Len(text) \in Nat /\ from \in 1..(Len(text) + 1) /\ Len(ms) \in Nat
  /\ rest \in Seq(S) /\ Len(rest) = Len(text) + 1 - from
  /\ \A j \in 1..(Len(text) + 1 - from) : rest[j] = text[from + j - 1]
  /\ keep \in 0..(Len(text) + 1 - from) /\ cut \subseteq 1..(from - 1)

LEMMA ScanNamed ==
  ASSUME NEW S, NEW markers \in MarkerLists(S), NEW strip \in BOOLEAN, NEW text \in Seq(S),
         NEW ms, Chain(markers, text, 1, ms)
  PROVE  LET from == From(1, ms, Len(ms))
             rest == Rest(text, from)
         IN Scanned(S, markers, strip, text, ms, from, rest, Overlap(markers, rest),
                    IF strip THEN Cut(ms) ELSE {})
<1> DEFINE e == From(1, ms, Len(ms))
           k == Overlap(markers, Rest(text, e))
           c == IF strip THEN Cut(ms) ELSE {}
<1>1. /\ Scan(markers, strip, text) = [emit |-> (1..(Len(text) - k)) \ c, strip |-> c,
                                       found |-> Len(ms), hold |-> k]
      /\ Len(text) \in Nat /\ e \in 1..(Len(text) + 1) /\ Len(ms) \in Nat
      /\ Rest(text, e) \in Seq(S) /\ Len(Rest(text, e)) = Len(text) + 1 - e
      /\ \A j \in 1..(Len(text) + 1 - e) : Rest(text, e)[j] = text[e + j - 1]
      /\ k \in 0..(Len(text) + 1 - e) /\ c \subseteq 1..(e - 1)
  BY ScanIs
<1> HIDE DEF e, k, c
<1>2. Scanned(S, markers, strip, text, ms, e, Rest(text, e), k, c)
  BY ONLY <1>1 DEF Scanned
<1> QED
  BY <1>2 DEF e, k, c

\* Feeding a text in parts comes to the same as feeding it at once, if no marker
\* occurs inside another one: with the symbols of the second part counted from the
\* first one, the two parts give out, strip, find and hold back what the whole does.
THEOREM ScanInParts ==
  ASSUME NEW S, NEW markers \in MarkerLists(S), Separate(markers), NEW strip \in BOOLEAN,
         NEW A \in Seq(S), NEW T \in Seq(S), NEW R \in Seq(S), NEW d \in Nat,
         Begins(A, T), d = Len(A) - Scan(markers, strip, A).hold, Continues(T, R, d)
  PROVE  LET a == Scan(markers, strip, A)
             r == Scan(markers, strip, R)
             t == Scan(markers, strip, T)
         IN /\ t.emit  = a.emit \cup {d + i : i \in r.emit}
            /\ t.strip = a.strip \cup {d + i : i \in r.strip}
            /\ t.found = a.found + r.found
            /\ t.hold  = r.hold
<1> DEFINE ma == Matches(markers, A)
           mr == Matches(markers, R)
           mt == ma \o Shifted(mr, d)
           ea == From(1, ma, Len(ma))
           er == From(1, mr, Len(mr))
           et == From(1, mt, Len(mt))
           A1 == Rest(A, ea)
           R1 == Rest(R, er)
           T1 == Rest(T, et)
           ka == Overlap(markers, A1)
           kr == Overlap(markers, R1)
           kt == Overlap(markers, T1)
           ca == IF strip THEN Cut(ma) ELSE {}
           cr == IF strip THEN Cut(mr) ELSE {}
           ct == IF strip THEN Cut(mt) ELSE {}
           a  == Len(A)
           r  == Len(R)
           t  == Len(T)
           la == Len(ma)
           lr == Len(mr)
<1>1. Chain(markers, A, 1, ma) /\ Chain(markers, R, 1, mr)
  BY MatchesChain
<1> HIDE DEF ma, mr, mt
<1>a. /\ Scanned(S, markers, strip, A, ma, ea, A1, ka, ca)
      /\ Scanned(S, markers, strip, R, mr, er, R1, kr, cr)
      /\ Chain(markers, T, 1, mt) => Scanned(S, markers, strip, T, mt, et, T1, kt, ct)
  BY <1>1, ScanNamed
<1>0. /\ ea = From(1, ma, la) /\ er = From(1, mr, lr) /\ et = From(1, mt, Len(mt))
      /\ ka = Overlap(markers, A1) /\ kr = Overlap(markers, R1) /\ kt = Overlap(markers, T1)
      /\ ca = (IF strip THEN Cut(ma) ELSE {}) /\ cr = (IF strip THEN Cut(mr) ELSE {})
      /\ ct = (IF strip THEN Cut(mt) ELSE {})
  OBVIOUS
<1>b. a = Len(A) /\ r = Len(R) /\ t = Len(T) /\ la = Len(ma) /\ lr = Len(mr)
  OBVIOUS
<1> HIDE DEF ea, er, et, A1, R1, T1, ka, kr, kt, ca, cr, ct
<1>2. /\ LET s == Scan(markers, strip, A) IN
         s.emit = (1..(a - ka)) \ ca /\ s.strip = ca /\ s.found = la /\ s.hold = ka
      /\ a \in Nat /\ ea \in 1..(a + 1) /\ la \in Nat
      /\ A1 \in Seq(S) /\ Len(A1) = a + 1 - ea
      /\ \A j \in 1..(a + 1 - ea) : A1[j] = A[ea + j - 1]
      /\ ka \in 0..(a + 1 - ea) /\ ca \subseteq 1..(ea - 1)
  BY <1>a DEF Scanned
<1>3. /\ LET s == Scan(markers, strip, R) IN
         s.emit = (1..(r - kr)) \ cr /\ s.strip = cr /\ s.found = lr /\ s.hold = kr
      /\ r \in Nat /\ er \in 1..(r + 1) /\ lr \in Nat
      /\ R1 \in Seq(S) /\ Len(R1) = r + 1 - er
      /\ \A j \in 1..(r + 1 - er) : R1[j] = R[er + j - 1]
      /\ kr \in 0..(r + 1 - er) /\ cr \subseteq 1..(er - 1)
  BY <1>a DEF Scanned
<1>c. \A k \in DOMAIN markers, i \in Nat : ea <= i /\ At(markers[k], T, i) => a - ka < i
  <2> SUFFICES ASSUME NEW k \in DOMAIN markers, NEW i \in Nat, ea <= i, At(markers[k], T, i)
               PROVE  Len(A) - Overlap(markers, A1) < i
    BY <1>0
  <2>1. Nowhere(markers, A, ea) /\ ea \in 1..(Len(A) + 1)
    BY <1>0, <1>1, <1>2 DEF Chain
  <2>2. /\ A1 \in Seq(S) /\ Len(A1) = Len(A) + 1 - ea
        /\ \A j \in 1..Len(A1) : A1[j] = A[ea + j - 1]
    BY <1>2
  <2> QED
    BY <2>1, <2>2, HeldIsEnough
<1>d. ASSUME \A k \in DOMAIN markers, i \in Nat : ea <= i /\ At(markers[k], T, i) => d < i,
             ea <= d + 1
      PROVE  /\ Chain(markers, T, 1, mt)
             /\ Len(mt) = Len(ma) + Len(mr)
             /\ \A j \in 1..Len(ma) : mt[j] = ma[j]
             /\ \A j \in 1..Len(mr) : mt[Len(ma) + j] = Shift(mr[j], d)
  <2>1. /\ From(1, ma, Len(ma)) <= d + 1
        /\ \A k \in DOMAIN markers, i \in Nat :
             From(1, ma, Len(ma)) <= i /\ At(markers[k], T, i) => d < i
    BY <1>0, <1>d
  <2>2. LET ms == ma \o Shifted(mr, d) IN
        /\ Chain(markers, T, 1, ms)
        /\ Len(ms) = Len(ma) + Len(mr) /\ Len(ma) \in Nat /\ Len(mr) \in Nat
        /\ \A j \in 1..Len(ma) : ms[j] = ma[j]
        /\ \A j \in 1..Len(mr) : ms[Len(ma) + j] = Shift(mr[j], d)
    <3> HIDE DEF a, r, t, la, lr
    <3> QED
      BY ONLY <1>1, <2>1, ChainInParts, markers \in MarkerLists(S), Separate(markers),
         A \in Seq(S), T \in Seq(S), R \in Seq(S), d \in Nat, Begins(A, T), Continues(T, R, d)
  <2> QED
    BY <2>2 DEF mt
<1> HIDE DEF a, r, t, la, lr
<1>4. d = a - ka /\ t = d + r /\ (\A j \in 1..r : R[j] = T[d + j]) /\ a <= t
      /\ \A j \in 1..a : A[j] = T[j]
  <2>1. ka = Scan(markers, strip, A).hold
    BY <1>2
  <2> QED
    BY <1>b, <2>1 DEF Begins, Continues
<1>e. /\ a \in Nat /\ r \in Nat /\ t \in Nat /\ t = d + r /\ d = a - ka /\ a <= t
      /\ ea \in 1..(a + 1) /\ er \in 1..(r + 1) /\ ka \in 0..(a + 1 - ea)
      /\ Len(A1) = a + 1 - ea /\ Len(R1) = r + 1 - er
  <2>1. a \in Nat /\ r \in Nat /\ d \in Nat /\ t = d + r
    BY <1>2, <1>3, <1>4
  <2>2. d = a - ka /\ a <= t /\ ka \in 0..(a + 1 - ea)
    BY <1>2, <1>4
  <2>3. ea \in 1..(a + 1) /\ er \in 1..(r + 1) /\ Len(A1) = a + 1 - ea /\ Len(R1) = r + 1 - er
    BY <1>2, <1>3
  <2> QED
    BY ONLY <2>1, <2>2, <2>3
<1>5. ea <= d + 1
  BY <1>2, <1>4
<1>8. /\ Chain(markers, T, 1, mt)
      /\ Len(mt) = la + lr
      /\ \A j \in 1..la : mt[j] = ma[j]
      /\ \A j \in 1..lr : mt[la + j] = Shift(mr[j], d)
  BY <1>b, <1>c, <1>4, <1>5, <1>d
<1>9. /\ LET s == Scan(markers, strip, T) IN
         s.emit = (1..(t - kt)) \ ct /\ s.strip = ct /\ s.found = la + lr /\ s.hold = kt
      /\ t \in Nat /\ et \in 1..(t + 1)
      /\ T1 \in Seq(S) /\ Len(T1) = t + 1 - et
      /\ \A j \in 1..(t + 1 - et) : T1[j] = T[et + j - 1]
  BY <1>a, <1>b, <1>8 DEF Scanned
<1>10. /\ ma \in Seq(Hits) /\ mr \in Seq(Hits) /\ mt \in Seq(Hits)
       /\ \A j \in 1..la : ma[j] \in Hits
       /\ \A j \in 1..lr : mr[j] \in Hits /\ mr[j].at \in Nat /\ mr[j].len \in Nat
       /\ DOMAIN ma = 1..la /\ DOMAIN mr = 1..lr /\ DOMAIN mt = 1..(la + lr)
  <2>1. ma \in Seq(Hits) /\ mr \in Seq(Hits) /\ mt \in Seq(Hits)
    BY <1>1, <1>8 DEF Chain
  <2>2. DOMAIN ma = 1..la /\ DOMAIN mr = 1..lr /\ DOMAIN mt = 1..(la + lr)
    BY <1>b, <1>8, <2>1, LenProperties
  <2>3. \A j \in 1..la : ma[j] \in Hits
    BY <1>b, <2>1, ElementOfSeq
  <2>4. \A j \in 1..lr : mr[j] \in Hits
    BY <1>b, <2>1, ElementOfSeq
  <2> QED
    BY <2>1, <2>2, <2>3, <2>4 DEF Hits
<1>11. kt = kr
  <2>1. CASE lr = 0
    <3>1. er = 1 /\ Len(mt) = la
      BY <1>0, <1>2, <1>8, <2>1 DEF From
    <3>2. et = ea
      <4>1. CASE la = 0
        BY <1>0, <3>1, <4>1 DEF From
      <4>2. CASE la # 0
        <5>1. mt[la] = ma[la]
          BY <1>2, <1>8, <4>2
        <5> QED
          BY <1>0, <3>1, <4>2, <5>1 DEF From
      <4> QED
        BY <4>1, <4>2
    <3> DEFINE e == Len(A1) - ka
    <3>3. e \in Nat /\ e + ea = d + 1
      BY <1>2, <1>4
    <3>4. Begins(A1, T1)
      <4>1. Len(A1) <= Len(T1)
        <5>1. Len(T1) = t + 1 - ea
          BY <1>9, <3>2
        <5> QED
          BY ONLY <1>e, <5>1
      <4>2. ASSUME NEW j \in 1..Len(A1) PROVE A1[j] = T1[j]
        <5>1. j \in 1..(a + 1 - ea) /\ j \in 1..(t + 1 - et) /\ ea + j - 1 \in 1..a
          <6>1. j \in 1..Len(A1)
            OBVIOUS
          <6> QED
            BY ONLY <1>e, <3>2, <6>1
        <5>2. A1[j] = A[ea + j - 1] /\ T1[j] = T[ea + j - 1]
          BY <1>2, <1>9, <3>2, <5>1
        <5> QED
          BY <1>4, <5>1, <5>2
      <4> QED
        BY <4>1, <4>2 DEF Begins
    <3>5. Continues(T1, R1, e)
      <4>1. Len(R1) = r /\ Len(T1) = t + 1 - ea
        BY <1>3, <1>9, <3>1, <3>2
      <4>2. Len(T1) = e + r
        BY <1>2, <1>3, <1>4, <3>3, <4>1
      <4>3. ASSUME NEW j \in 1..r PROVE R1[j] = T1[e + j]
        <5>1. R1[j] = R[j]
          BY <1>3, <3>1
        <5>2. e + j \in 1..(t + 1 - et) /\ et + (e + j) - 1 = d + j
          <6>1. e + ea = d + 1 /\ e \in Nat
            BY <3>3
          <6>2. j \in 1..r /\ et = ea
            BY <3>2
          <6> HIDE DEF e
          <6> QED
            BY ONLY <1>e, <6>1, <6>2
        <5>3. T1[e + j] = T[et + (e + j) - 1]
          BY <1>9, <5>2
        <5> QED
          BY <1>4, <5>1, <5>2, <5>3
      <4> HIDE DEF e
      <4> QED
        BY <4>1, <4>2, <4>3 DEF Continues
    <3>6. e = Len(A1) - Overlap(markers, A1)
      BY <1>0
    <3> HIDE DEF e
    <3>7. A1 \in Seq(S) /\ T1 \in Seq(S) /\ R1 \in Seq(S) /\ e \in Nat
      BY <1>2, <1>3, <1>9, <3>3
    <3>8. Overlap(markers, T1) = Overlap(markers, R1)
      BY ONLY <3>4, <3>5, <3>6, <3>7, KeepInParts, markers \in MarkerLists(S)
    <3> QED
      BY <1>0, <3>8
  <2>2. CASE lr # 0
    <3>1. lr \in 1..lr /\ Len(mt) # 0 /\ mt[Len(mt)] = Shift(mr[lr], d)
      BY <1>2, <1>3, <1>8, <2>2
    <3>2. et = d + er
      <4> DEFINE p == mr[lr].at
                 q == mr[lr].len
      <4>1. p \in Nat /\ q \in Nat
        BY <1>10, <3>1
      <4>2. er = p + q
        BY <1>0, <2>2 DEF From
      <4>3. et = (d + p) + q
        BY <1>0, <3>1 DEF From, Shift
      <4> HIDE DEF p, q
      <4> QED
        BY <4>1, <4>2, <4>3
    <3>3. Len(T1) = Len(R1) /\ Len(R1) = r + 1 - er
      <4>1. Len(T1) = t + 1 - et
        BY <1>9
      <4> QED
        BY ONLY <1>e, <3>2, <4>1
    <3>4. ASSUME NEW j \in 1..Len(T1) PROVE T1[j] = R1[j]
      <4>1. /\ j \in 1..(t + 1 - et) /\ j \in 1..(r + 1 - er)
            /\ er + j - 1 \in 1..r /\ et + j - 1 = d + (er + j - 1)
        <5>1. j \in 1..(r + 1 - er)
          BY <3>3
        <5> QED
          BY ONLY <1>e, <3>2, <5>1
      <4>2. T1[j] = T[et + j - 1] /\ R1[j] = R[er + j - 1]
        BY <1>3, <1>9, <4>1
      <4> QED
        BY <1>4, <4>1, <4>2
    <3>5. T1 = R1
      BY <1>3, <1>9, <3>3, <3>4, SeqEqual
    <3> QED
      BY <1>0, <3>5
  <2> QED
    BY <2>1, <2>2
<1>12. ct = ca \cup {d + i : i \in cr}
  <2> SUFFICES ASSUME strip PROVE Cut(mt) = Cut(ma) \cup {d + i : i \in Cut(mr)}
    BY <1>0
  <2>1. ASSUME NEW x \in Cut(ma) PROVE x \in Cut(mt)
    <3>1. PICK j \in 1..la : x \in ma[j].at..(ma[j].at + ma[j].len - 1)
      BY <1>10 DEF Cut
    <3>2. mt[j] = ma[j] /\ j \in DOMAIN mt
      BY <1>2, <1>3, <1>8, <1>10
    <3>3. x \in mt[j].at..(mt[j].at + mt[j].len - 1)
      BY <3>1, <3>2
    <3> QED
      BY <3>2, <3>3 DEF Cut
  <2>2. ASSUME NEW j \in 1..lr, NEW i \in Int
        PROVE  /\ la + j \in DOMAIN mt
               /\ i \in mr[j].at..(mr[j].at + mr[j].len - 1)
                    <=> d + i \in mt[la + j].at..(mt[la + j].at + mt[la + j].len - 1)
    <3> DEFINE p == mr[j].at
               q == mr[j].len
               p1 == mt[la + j].at
               q1 == mt[la + j].len
    <3>1. mt[la + j] = Shift(mr[j], d)
      BY <1>8
    <3>2. p1 = d + p /\ q1 = q
      BY <3>1 DEF Shift
    <3>3. p \in Nat /\ q \in Nat
      BY <1>10
    <3>4. la + j \in DOMAIN mt
      BY <1>2, <1>3, <1>10
    <3>5. i \in p..(p + q - 1) <=> d + i \in p1..(p1 + q1 - 1)
      <4>1. d \in Nat /\ i \in Int
        OBVIOUS
      <4> HIDE DEF p, q, p1, q1
      <4> QED
        BY ONLY <3>2, <3>3, <4>1
    <3> QED
      BY <3>4, <3>5
  <2>3. ASSUME NEW i \in Cut(mr) PROVE d + i \in Cut(mt)
    <3>1. PICK j \in 1..lr : i \in mr[j].at..(mr[j].at + mr[j].len - 1)
      BY <1>10 DEF Cut
    <3>2. i \in Int
      BY <3>1
    <3> QED
      BY <2>2, <3>1, <3>2 DEF Cut
  <2>4. ASSUME NEW x \in Cut(mt), x \notin Cut(ma) PROVE \E i \in Cut(mr) : x = d + i
    <3>1. PICK j \in DOMAIN mt : x \in mt[j].at..(mt[j].at + mt[j].len - 1)
      BY DEF Cut
    <3>2. ~(j \in 1..la)
      <4> SUFFICES ASSUME j \in 1..la PROVE FALSE
        OBVIOUS
      <4>1. mt[j] = ma[j]
        BY <1>8
      <4>2. x \in ma[j].at..(ma[j].at + ma[j].len - 1)
        BY <3>1, <4>1
      <4> QED
        BY <1>10, <2>4, <4>2 DEF Cut
    <3> DEFINE l == j - la
               i == x - d
    <3>3. x \in Int
      BY <3>1
    <3>4. l \in 1..lr /\ la + l = j
      BY <1>2, <1>3, <1>10, <3>1, <3>2
    <3>5. i \in Int /\ d + i = x
      BY ONLY <3>3, d \in Nat
    <3> HIDE DEF l, i
    <3>6. i \in mr[l].at..(mr[l].at + mr[l].len - 1)
      BY <2>2, <3>1, <3>4, <3>5
    <3>7. i \in Cut(mr)
      BY <1>10, <3>4, <3>6 DEF Cut
    <3> QED
      BY <3>5, <3>7
  <2> QED
    BY <2>1, <2>3, <2>4
<1>13. (1..((d + r) - kr)) \ (ca \cup {d + i : i \in cr})
         = ((1..(a - ka)) \ ca) \cup {d + i : i \in (1..(r - kr)) \ cr}
  <2>0. /\ a \in Nat /\ r \in Nat /\ ea \in 1..(a + 1) /\ er \in 1..(r + 1)
        /\ ka \in 0..(a + 1 - ea) /\ kr \in 0..(r + 1 - er)
        /\ ca \subseteq 1..(ea - 1) /\ cr \subseteq 1..(er - 1) /\ d = a - ka
    BY <1>2, <1>3, <1>4
  <2>1. ASSUME NEW x \in (1..((d + r) - kr)) \ (ca \cup {d + i : i \in cr})
        PROVE  x \in ((1..(a - ka)) \ ca) \cup {d + i : i \in (1..(r - kr)) \ cr}
    <3>1. CASE x <= d
      BY <2>0, <3>1
    <3>2. CASE ~(x <= d)
      <4>1. x - d \in 1..(r - kr) /\ d + (x - d) = x
        BY <2>0, <3>2
      <4>2. x - d \notin cr
        BY <4>1
      <4> QED
        BY <4>1, <4>2
    <3> QED
      BY <3>1, <3>2
  <2>2. ASSUME NEW x \in (1..(a - ka)) \ ca
        PROVE  x \in (1..((d + r) - kr)) \ (ca \cup {d + i : i \in cr})
    <3>1. x \in 1..((d + r) - kr) /\ x <= d
      BY <2>0
    <3>2. \A i \in cr : x # d + i
      BY <2>0, <3>1
    <3> QED
      BY <3>1, <3>2
  <2>3. ASSUME NEW i \in (1..(r - kr)) \ cr
        PROVE  d + i \in (1..((d + r) - kr)) \ (ca \cup {d + j : j \in cr})
    <3>1. d + i \in 1..((d + r) - kr) /\ ~(d + i <= d)
      BY <2>0
    <3>2. \A j \in ca : j # d + i
      BY <2>0, <3>1
    <3>3. \A j \in cr : d + j = d + i => j = i
      BY <2>0
    <3> QED
      BY <3>1, <3>2, <3>3
  <2> QED
    BY <2>1, <2>2, <2>3
<1> DEFINE sa == Scan(markers, strip, A)
           sr == Scan(markers, strip, R)
           st == Scan(markers, strip, T)
<1>14. /\ sa.emit = (1..(a - ka)) \ ca /\ sa.strip = ca /\ sa.found = la
       /\ sr.emit = (1..(r - kr)) \ cr /\ sr.strip = cr /\ sr.found = lr /\ sr.hold = kr
       /\ st.emit = (1..(t - kt)) \ ct /\ st.strip = ct /\ st.found = la + lr /\ st.hold = kt
       /\ t = d + r
  BY <1>2, <1>3, <1>4, <1>9
<1> HIDE DEF sa, sr, st
<1>15. /\ st.emit  = sa.emit \cup {d + i : i \in sr.emit}
       /\ st.strip = sa.strip \cup {d + i : i \in sr.strip}
       /\ st.found = sa.found + sr.found /\ st.hold = sr.hold
  BY ONLY <1>11, <1>12, <1>13, <1>14
<1> QED
  BY <1>15 DEF sa, sr, st
-----------------------------------------------------------------------------
(* The scanner of the ready and the warmup marker.                         *)

\* A single-shot scanner that has found nothing in A is done after R just when a
\* marker occurs in A and what follows it, however that is split.
LEMMA OnceInParts ==
  ASSUME NEW S, NEW markers \in MarkerLists(S), NEW strip \in BOOLEAN,
         NEW A \in Seq(S), NEW T \in Seq(S), NEW R \in Seq(S), NEW d \in Nat,
         Begins(A, T), Nowhere(markers, A, 1), d = Len(A) - Overlap(markers, A),
         Continues(T, R, d)
  PROVE  LET o == Once(markers, strip, R) IN
         /\ o.done \in BOOLEAN
         /\ o.done <=> ~Nowhere(markers, T, 1)
         /\ o.done => o.hold = 0
         /\ ~o.done => o.hold = Overlap(markers, T) /\ o.hold \in 0..Len(R)
<1> DEFINE o == Once(markers, strip, R)
<1>1. /\ o.done <=> Find(markers, R, 1) # NoMatch
      /\ o.done \in BOOLEAN
      /\ o.done => o.hold = 0
      /\ ~o.done => o.hold = Overlap(markers, R)
  BY DEF Once
<1>2. Find(markers, R, 1) = NoMatch <=> Nowhere(markers, R, 1)
  BY FindNowhere
<1>3. Overlap(markers, T) = Overlap(markers, R)
  BY KeepInParts
<1>4. Overlap(markers, R) \in 0..Len(R)
  BY OverlapIs
<1>5. Nowhere(markers, R, 1) <=> Nowhere(markers, T, 1)
  <2>1. ASSUME NEW k \in DOMAIN markers, NEW i \in Nat, 1 <= i, At(markers[k], R, i)
        PROVE  ~Nowhere(markers, T, 1)
    <3>1. i \in Nat \ {0} /\ d + i \in Nat /\ 1 <= d + i /\ markers[k] \in Seq(S)
      BY <2>1, MarkersAre
    <3>2. At(markers[k], T, d + i)
      BY <2>1, <3>1, ContinuesAt
    <3> QED
      BY <3>1, <3>2 DEF Nowhere
  <2>2. ASSUME NEW k \in DOMAIN markers, NEW i \in Nat, 1 <= i, At(markers[k], T, i)
        PROVE  ~Nowhere(markers, R, 1)
    <3>1. Len(A) \in Nat /\ 1 \in 1..(Len(A) + 1) /\ Len(A) = Len(A) + 1 - 1
          /\ \A j \in 1..Len(A) : A[j] = A[1 + j - 1]
      BY LenProperties
    <3>2. Len(A) - Overlap(markers, A) < i
      BY <2>2, <3>1, HeldIsEnough
    <3>3. i - d \in Nat \ {0} /\ d + (i - d) = i
      BY <3>2
    <3>4. markers[k] \in Seq(S)
      BY MarkersAre
    <3>5. At(markers[k], R, i - d)
      <4> DEFINE e == i - d
      <4>1. e \in Nat \ {0} /\ At(markers[k], T, d + e)
        BY <2>2, <3>3
      <4> HIDE DEF e
      <4>2. At(markers[k], R, e)
        BY <3>4, <4>1, ContinuesAt
      <4> QED
        BY <4>2 DEF e
    <3> QED
      BY <3>3, <3>5 DEF Nowhere
  <2> QED
    BY <2>1, <2>2 DEF Nowhere
<1> HIDE DEF o
<1>6. /\ o.done \in BOOLEAN /\ (o.done <=> ~Nowhere(markers, T, 1)) /\ (o.done => o.hold = 0)
      /\ ~o.done => o.hold = Overlap(markers, T) /\ o.hold \in 0..Len(R)
  BY <1>1, <1>2, <1>3, <1>4, <1>5
<1> QED
  BY <1>6 DEF o

-----------------------------------------------------------------------------
(* Symbols by their places.                                                *)

\* Extract takes the symbols at these places and keeps their order.
LEMMA ExtractIs ==
  ASSUME NEW S, NEW text \in Seq(S), NEW places
  PROVE  LET e == Extract(text, places) IN
         /\ e \in Seq(S)
         /\ {e[j] : j \in DOMAIN e} = {text[n] : n \in places \cap (1..Len(text))}
         /\ (S \subseteq Nat /\ \A j, k \in 1..Len(text) : j < k => text[j] < text[k])
              => \A j, k \in DOMAIN e : j < k => e[j] < e[k]
<1> DEFINE L == Len(text)
           Step(g, n) == IF n = 0 THEN <<>>
                         ELSE IF n \in places THEN Append(g[n - 1], text[n]) ELSE g[n - 1]
           First == CHOOSE g : g = [n \in 0..L |-> Step(g, n)]
<1>1. L \in Nat /\ \A n \in 1..L : text[n] \in S
  BY LenProperties, ElementOfSeq
<1>2. Extract(text, places) = First[L]
  BY DEF Extract
<1>3. \E g : g = [n \in 0..L |-> Step(g, n)]
  <2> DEFINE P == {n \in Nat : \E g : DOMAIN g = 0..n /\ \A m \in 0..n : g[m] = Step(g, m)}
  <2>1. 0 \in P
    <3> DEFINE g == [m \in 0..0 |-> <<>>]
    <3>1. \A m \in 0..0 : g[m] = Step(g, m)
      OBVIOUS
    <3>2. DOMAIN g = 0..0
      OBVIOUS
    <3> HIDE DEF g, Step
    <3> QED
      BY <3>1, <3>2
  <2>2. ASSUME NEW n \in Nat, n \in P PROVE n + 1 \in P
    <3>1. PICK g : DOMAIN g = 0..n /\ \A m \in 0..n : g[m] = Step(g, m)
      BY <2>2
    <3> DEFINE h == [m \in 0..(n + 1) |-> IF m = n + 1 THEN Step(g, m) ELSE g[m]]
    <3>2. ASSUME NEW m \in 0..(n + 1) PROVE h[m] = Step(g, m)
      <4> HIDE DEF Step
      <4>1. CASE m = n + 1
        BY <4>1
      <4>2. CASE m # n + 1
        BY <3>1, <4>2
      <4> QED
        BY <4>1, <4>2
    <3>3. ASSUME NEW m \in 0..(n + 1) PROVE Step(g, m) = Step(h, m)
      <4>1. m # 0 => h[m - 1] = g[m - 1]
        OBVIOUS
      <4> HIDE DEF h
      <4> QED
        BY <4>1
    <3>4. DOMAIN h = 0..(n + 1) /\ \A m \in 0..(n + 1) : h[m] = Step(h, m)
      BY <3>2, <3>3
    <3> HIDE DEF h, Step
    <3> QED
      BY <3>4
  <2> HIDE DEF P
  <2>3. L \in P
    BY <1>1, <2>1, <2>2, SetInduction
  <2>4. PICK g : DOMAIN g = 0..L /\ \A m \in 0..L : g[m] = Step(g, m)
    BY <2>3 DEF P
  <2> DEFINE h == [m \in 0..L |-> g[m]]
  <2>5. ASSUME NEW m \in 0..L PROVE h[m] = Step(h, m)
    <3>1. h[m] = Step(g, m)
      <4> HIDE DEF Step
      <4> QED
        BY <2>4
    <3>2. m # 0 => h[m - 1] = g[m - 1]
      BY <1>1
    <3> HIDE DEF h
    <3> QED
      BY <3>1, <3>2
  <2>6. h = [m \in 0..L |-> Step(h, m)]
    <3>1. h = [m \in 0..L |-> h[m]]
      OBVIOUS
    <3> HIDE DEF h, Step
    <3> QED
      BY <2>5, <3>1
  <2> QED
    BY <2>6
<1>4. First = [n \in 0..L |-> Step(First, n)]
  BY <1>3
<1> HIDE DEF First
<1>5. First[0] = <<>> /\ \A n \in Nat : n + 1 <= L =>
         First[n + 1] = IF n + 1 \in places THEN Append(First[n], text[n + 1]) ELSE First[n]
  <2>1. First[0] = Step(First, 0)
    BY <1>1, <1>4
  <2>2. ASSUME NEW n \in Nat, n + 1 <= L
        PROVE  First[n + 1] = IF n + 1 \in places THEN Append(First[n], text[n + 1]) ELSE First[n]
    <3>1. n + 1 \in 0..L /\ n + 1 # 0 /\ (n + 1) - 1 = n
      BY <1>1, <2>2
    <3>2. First[n + 1] = Step(First, n + 1)
      <4> HIDE DEF Step
      <4> QED
        BY <1>4, <3>1
    <3> QED
      BY <3>1, <3>2
  <2> QED
    BY <2>1, <2>2
<1> HIDE DEF Step, L
<1> DEFINE Good(n, e) ==
             /\ e \in Seq(S)
             /\ {e[j] : j \in DOMAIN e} = {text[m] : m \in places \cap (1..n)}
             /\ (S \subseteq Nat /\ \A j, k \in 1..L : j < k => text[j] < text[k])
                  => \A j, k \in DOMAIN e : j < k => e[j] < e[k]
           P == {n \in Nat : n <= L => Good(n, First[n])}
<1>6. 0 \in P
  <2>1. <<>> \in Seq(S) /\ DOMAIN <<>> = {} /\ 1..0 = {}
    BY EmptySeq
  <2>2. Good(0, <<>>)
    BY <2>1
  <2> HIDE DEF Good
  <2> QED
    BY <1>5, <2>2
<1>7. ASSUME NEW n \in Nat, n \in P PROVE n + 1 \in P
  <2> HIDE DEF Good
  <2> SUFFICES ASSUME n + 1 <= L PROVE Good(n + 1, First[n + 1])
    OBVIOUS
  <2> DEFINE e == First[n]
             f == First[n + 1]
  <2>a. Good(n, e) /\ n + 1 \in 1..L /\ text[n + 1] \in S
    BY <1>1, <1>7
  <2> USE DEF Good
  <2> HIDE DEF e, f
  <2>1. Good(n, e) /\ n + 1 \in 1..L /\ text[n + 1] \in S
    BY <2>a
  <2>2. CASE n + 1 \notin places
    <3>1. f = e
      BY <1>5, <2>2 DEF e, f
    <3>2. places \cap (1..(n + 1)) = places \cap (1..n)
      BY <2>2
    <3> QED
      BY <2>1, <3>1, <3>2 DEF f
  <2>3. CASE n + 1 \in places
    <3> DEFINE x == text[n + 1]
    <3>1. f = Append(e, x)
      BY <1>5, <2>3 DEF e, f
    <3> HIDE DEF x
    <3>2. x \in S /\ e \in Seq(S) /\ Len(e) \in Nat /\ DOMAIN e = 1..Len(e)
      BY <2>1, LenProperties DEF x
    <3>3. /\ f \in Seq(S) /\ Len(f) = Len(e) + 1 /\ DOMAIN f = 1..(Len(e) + 1)
          /\ \A j \in 1..Len(e) : f[j] = e[j]
          /\ f[Len(e) + 1] = x
      BY <3>1, <3>2, AppendProperties, LenProperties
    <3>4. {f[j] : j \in DOMAIN f} = {text[m] : m \in places \cap (1..(n + 1))}
      <4>1. DOMAIN f = DOMAIN e \cup {Len(e) + 1}
        BY <3>2, <3>3
      <4>2. {f[j] : j \in DOMAIN f} = {e[j] : j \in DOMAIN e} \cup {x}
        BY <3>2, <3>3, <4>1
      <4>3. places \cap (1..(n + 1)) = (places \cap (1..n)) \cup {n + 1}
        BY <2>3
      <4>4. {text[m] : m \in places \cap (1..(n + 1))} = {text[m] : m \in places \cap (1..n)} \cup {x}
        BY <4>3 DEF x
      <4> QED
        BY <2>1, <4>2, <4>4
    <3>5. ASSUME S \subseteq Nat, \A j, k \in 1..L : j < k => text[j] < text[k],
                 NEW j \in DOMAIN f, NEW k \in DOMAIN f, j < k
          PROVE  f[j] < f[k]
      <4>1. j \in 1..Len(e) /\ f[j] = e[j]
        BY <3>2, <3>3, <3>5
      <4>2. CASE k \in 1..Len(e)
        BY <2>1, <3>2, <3>3, <3>5, <4>1, <4>2
      <4>3. CASE k = Len(e) + 1
        <5>1. PICK m \in places \cap (1..n) : e[j] = text[m]
          BY <2>1, <3>2, <4>1
        <5>2. m \in 1..L /\ m < n + 1
          BY <2>1, <1>1
        <5>3. text[m] < text[n + 1]
          BY <2>1, <3>5, <5>2
        <5> QED
          BY <3>3, <4>1, <4>3, <5>1, <5>3 DEF x
      <4> QED
        BY <3>2, <3>3, <4>2, <4>3
    <3> QED
      BY <3>3, <3>4, <3>5 DEF f
  <2> QED
    BY <2>2, <2>3
<1> HIDE DEF P, Good
<1>8. L \in P
  BY <1>1, <1>6, <1>7, SetInduction
<1>9. Good(L, First[L])
  BY <1>1, <1>8 DEF P
<1> QED
  BY <1>2, <1>9 DEF Good, L
=============================================================================
