---------------------------- MODULE ClientProofs ----------------------------
(***************************************************************************)
(* What a client reads is what the server said, however the packets and    *)
(* the reads were cut, and a response that was complete is no timeout.     *)
(***************************************************************************)
EXTENDS Program, ProtocolProofs

-----------------------------------------------------------------------------
(* Texts in parts, and the markers of an output.                           *)

LEMMA SameText ==
  ASSUME NEW s \in Text, NEW t \in Text, Len(s) = Len(t), \A i \in 1..Len(s) : s[i] = t[i]
  PROVE  s = t
<1>1. Len(s) \in Nat /\ s \in Seq(STRING) /\ t \in Seq(STRING)
  BY LenProperties DEF Text
<1>2. s = [i \in 1..Len(s) |-> s[i]] /\ t = [i \in 1..Len(s) |-> t[i]]
  BY <1>1
<1>3. QED
  BY <1>2

\* What was given out, and then the first of what comes next, begins the whole; the
\* rest completes it.
Glued(s, r, t, n) ==
  /\ s \o SubSeq(r, 1, n) = SubSeq(t, 1, Len(s) + n)
  /\ s \o SubSeq(r, 1, n) \in Text /\ Len(s \o SubSeq(r, 1, n)) = Len(s) + n
  /\ SubSeq(r, n + 1, Len(r)) \in Text /\ Len(SubSeq(r, n + 1, Len(r))) = Len(r) - n
  /\ (s \o SubSeq(r, 1, n)) \o SubSeq(r, n + 1, Len(r)) = t

LEMMA GlueIs ==
  ASSUME NEW s \in Text, NEW r \in Text, NEW t \in Text,
         \A i \in 1..Len(s) : t[i] = s[i], Continues(t, r, Len(s)), NEW n \in 0..Len(r)
  PROVE  Glued(s, r, t, n)
<1> DEFINE a == SubSeq(r, 1, n)
           b == SubSeq(r, n + 1, Len(r))
           d == Len(s)
           l == Len(r)
           u == s \o a
           w == SubSeq(t, 1, d + n)
<1>1. d \in Nat /\ l \in Nat /\ n \in Nat /\ n <= l /\ Len(t) = d + l
      /\ \A j \in 1..l : r[j] = t[d + j]
  BY LenProperties DEF Text, Continues
<1>2. a \in Text /\ Len(a) = n /\ \A i \in 1..n : a[i] = r[i]
  <2>1. 1 \in Nat \ {0} /\ n <= Len(r) /\ 1 <= n + 1 /\ n + 1 - 1 = n /\ \A i \in 1..n : 1 + i - 1 = i
    BY <1>1
  <2>2. /\ a \in Text /\ Len(a) = n + 1 - 1
        /\ \A i \in 1..(n + 1 - 1) : a[i] = r[1 + i - 1]
    BY <1>1, <2>1, PartsAre
  <2> HIDE DEF a
  <2>3. QED
    BY <2>1, <2>2
<1>3. b \in Text /\ Len(b) = l - n /\ \A i \in 1..(l - n) : b[i] = r[n + i]
  <2>1. /\ n + 1 \in Nat \ {0} /\ l <= Len(r) /\ n + 1 <= l + 1 /\ l + 1 - (n + 1) = l - n
        /\ \A i \in 1..(l - n) : (n + 1) + i - 1 = n + i
    BY <1>1
  <2>2. /\ b \in Text /\ Len(b) = l + 1 - (n + 1)
        /\ \A i \in 1..(l + 1 - (n + 1)) : b[i] = r[(n + 1) + i - 1]
    BY <1>1, <2>1, PartsAre
  <2> HIDE DEF b
  <2>3. QED
    BY <2>1, <2>2
<1>4. w \in Text /\ Len(w) = d + n /\ \A i \in 1..(d + n) : w[i] = t[i]
  <2>1. /\ 1 \in Nat \ {0} /\ d + n \in Nat /\ d + n <= Len(t) /\ 1 <= d + n + 1
        /\ (d + n) + 1 - 1 = d + n /\ \A i \in 1..(d + n) : 1 + i - 1 = i
    BY <1>1
  <2>2. /\ w \in Text /\ Len(w) = (d + n) + 1 - 1
        /\ \A i \in 1..((d + n) + 1 - 1) : w[i] = t[1 + i - 1]
    BY <1>1, <2>1, PartsAre
  <2> HIDE DEF w
  <2>3. QED
    BY <2>1, <2>2
<1> HIDE DEF a, b, w
<1>5. u \in Text /\ Len(u) = d + n /\ (\A i \in 1..d : u[i] = s[i]) /\ \A i \in 1..n : u[d + i] = a[i]
  BY <1>2, JoinedIs
<1> HIDE DEF u
<1>6. u = w
  <2>1. ASSUME NEW i \in 1..(d + n) PROVE u[i] = w[i]
    <3>1. CASE i <= d
      <4>1. i \in 1..d
        BY <1>1, <3>1
      <4>2. u[i] = s[i] /\ w[i] = t[i] /\ t[i] = s[i]
        BY <1>4, <1>5, <4>1
      <4>3. QED
        BY <4>2
    <3>2. CASE i > d
      <4> DEFINE j == i - d
      <4>1. j \in 1..n /\ j \in 1..l /\ i = d + j
        BY <1>1, <3>2
      <4> HIDE DEF j
      <4>2. u[d + j] = a[j] /\ a[j] = r[j] /\ r[j] = t[d + j] /\ w[i] = t[i]
        BY <1>1, <1>2, <1>4, <1>5, <4>1
      <4>3. QED
        BY <4>1, <4>2
    <3>3. QED
      BY <1>1, <3>1, <3>2
  <2>2. QED
    BY <1>4, <1>5, <2>1, SameText
<1>7. u \o b = t
  <2> DEFINE v == u \o b
  <2>1. v \in Text /\ Len(v) = (d + n) + (l - n) /\ (\A i \in 1..(d + n) : v[i] = u[i])
        /\ \A i \in 1..(l - n) : v[(d + n) + i] = b[i]
    <3>1. v \in Text /\ Len(v) = Len(u) + Len(b) /\ (\A i \in 1..Len(u) : v[i] = u[i])
          /\ \A i \in 1..Len(b) : v[Len(u) + i] = b[i]
      BY <1>3, <1>5, JoinedIs
    <3> HIDE DEF v
    <3>2. Len(u) = d + n /\ Len(b) = l - n
      BY <1>3, <1>5
    <3>3. QED
      BY <3>1, <3>2
  <2> HIDE DEF v
  <2>2. Len(v) = Len(t)
    BY <1>1, <2>1
  <2>3. ASSUME NEW i \in 1..Len(v) PROVE v[i] = t[i]
    <3>1. CASE i <= d + n
      BY <1>1, <1>4, <1>6, <2>1, <3>1
    <3>2. CASE i > d + n
      <4> DEFINE j == i - (d + n)
      <4>1. j \in 1..(l - n) /\ n + j \in 1..l /\ i = (d + n) + j /\ i = d + (n + j)
        BY <1>1, <2>1, <3>2
      <4> HIDE DEF j
      <4>2. v[(d + n) + j] = b[j] /\ b[j] = r[n + j] /\ r[n + j] = t[d + (n + j)]
        BY <1>1, <1>3, <2>1, <4>1
      <4>3. QED
        BY <4>1, <4>2
    <3>3. QED
      BY <1>1, <2>1, <3>1, <3>2
  <2>4. v = t
    BY <2>1, <2>2, <2>3, SameText
  <2>5. QED
    BY <2>4 DEF v
<1>8. QED
  BY <1>1, <1>3, <1>5, <1>6, <1>7 DEF Glued, u, a, b, w, d, l

LEMMA MarkersOf ==
  ASSUME NEW o \in Outputs
  PROVE  /\ Markers(o) \in MarkerLists(STRING) /\ EndMarkers(o) \in Nat /\ Strips(o) \in BOOLEAN
         /\ Markers(o) = <<>> => \A t : Nowhere(Markers(o), t, 1)
         /\ Markers(o) = <<>> => \A t \in Text : Overlap(Markers(o), t) = 0
<1>1. \A p \in Names : /\ EndMarker[p] \in Seq(Text \ {<<>>}) /\ ErrorMarker[p] \in Seq(Text \ {<<>>})
                       /\ Len(EndMarker[p]) \in Nat
  BY StreamNames, LenProperties
<1>2. OutName \in Names /\ ErrName \in Names /\ (o # Merged => o \in Names)
  BY DEF Names, Outputs
<1>3. Markers(o) \in Seq(Text \ {<<>>})
  BY <1>1, <1>2, ConcatProperties DEF Markers
<1>4. Markers(o) \in MarkerLists(STRING)
  <2>1. MarkerLists(STRING) = Seq(Seq(STRING) \ {<<>>}) /\ Text = Seq(STRING)
    BY DEF MarkerLists, Text
  <2>2. MarkerLists(STRING) = Seq(Text \ {<<>>})
    BY ONLY <2>1
  <2>3. QED
    BY <1>3, <2>2
<1>5. EndMarkers(o) \in Nat
  <2>1. Len(EndMarker[OutName]) \in Nat /\ Len(EndMarker[ErrName]) \in Nat
        /\ (o # Merged => Len(EndMarker[o]) \in Nat)
    BY <1>1, <1>2
  <2>2. CASE o = Merged
    <3> DEFINE a == Len(EndMarker[OutName])
               b == Len(EndMarker[ErrName])
    <3>1. a \in Nat /\ b \in Nat /\ EndMarkers(o) = a + b
      BY <2>1, <2>2 DEF EndMarkers
    <3> HIDE DEF a, b
    <3>2. QED
      BY <3>1
  <2>3. CASE o # Merged
    BY <2>1, <2>3 DEF EndMarkers
  <2>4. QED
    BY <2>2, <2>3
<1>6. Strips(o) \in BOOLEAN
  BY DEF Strips
<1>7. ASSUME Markers(o) = <<>>
      PROVE  (\A t : Nowhere(Markers(o), t, 1)) /\ \A t \in Text : Overlap(Markers(o), t) = 0
  <2>1. DOMAIN Markers(o) = {}
    BY <1>7
  <2>2. \A t : Nowhere(Markers(o), t, 1)
    BY <2>1 DEF Nowhere
  <2>3. \A t, n : ~Partial(Markers(o), t, n)
    BY <2>1 DEF Partial
  <2>4. \A t \in Text : Overlap(Markers(o), t) = 0
    BY <1>4, <2>3, OverlapIs DEF Text
  <2>5. QED
    BY <2>2, <2>4
<1>8. QED
  BY <1>4, <1>5, <1>6, <1>7

-----------------------------------------------------------------------------
(* One feed.                                                               *)

\* What feed makes of a text.
Fed(o, text) ==
  IF Markers(o) = <<>> THEN [done |-> FALSE, emit |-> Len(text), hold |-> 0]
  ELSE Once(Markers(o), Strips(o), text)

\* An output has been given this text, which holds no marker yet.
Upheld(o, sh, he, t) ==
  sh \o he = t /\ Nowhere(Markers(o), t, 1) /\ Len(he) = Overlap(Markers(o), t)

\* It has been given this text, and was shown it up to the first marker.
Marked(o, sh, he, t) ==
  LET f == Find(Markers(o), t, 1) IN
  /\ ~Nowhere(Markers(o), t, 1) /\ he = <<>>
  /\ sh = SubSeq(t, 1, f.at - 1 + (IF Strips(o) THEN 0 ELSE f.len))

LEMMA FedIs ==
  ASSUME NEW o \in Outputs, NEW sh \in Text, NEW he \in Text, NEW t \in Text,
         NEW chunk \in Text, Upheld(o, sh, he, t)
  PROVE  LET text == he \o chunk
             r    == Fed(o, text)
             sh2  == sh \o SubSeq(text, 1, r.emit)
             he2  == SubSeq(text, Len(text) - r.hold + 1, Len(text))
         IN /\ sh2 \in Text /\ he2 \in Text /\ r.done \in BOOLEAN
            /\ ~r.done => Upheld(o, sh2, he2, t \o chunk)
            /\ r.done => Marked(o, sh2, he2, t \o chunk)
                         /\ r.k = Find(Markers(o), t \o chunk, 1).k
<1> DEFINE M    == Markers(o)
           text == he \o chunk
           T    == t \o chunk
           r    == Fed(o, text)
           sh2  == sh \o SubSeq(text, 1, r.emit)
           he2  == SubSeq(text, Len(text) - r.hold + 1, Len(text))
           d    == Len(sh)
<1>1. /\ M \in MarkerLists(STRING) /\ Strips(o) \in BOOLEAN
      /\ (M = <<>> => \A u : Nowhere(M, u, 1)) /\ (M = <<>> => \A u \in Text : Overlap(M, u) = 0)
  BY MarkersOf
<1>2. sh \o he = t /\ Nowhere(M, t, 1) /\ Len(he) = Overlap(M, t)
  BY DEF Upheld
<1>3. Len(sh) \in Nat /\ Len(he) \in Nat /\ Len(t) \in Nat /\ Len(chunk) \in Nat /\ Len(t) = Len(sh) + Len(he)
      /\ (\A i \in 1..Len(sh) : t[i] = sh[i]) /\ \A i \in 1..Len(he) : t[Len(sh) + i] = he[i]
  <2>1. /\ Len(sh \o he) = Len(sh) + Len(he) /\ (\A i \in 1..Len(sh) : (sh \o he)[i] = sh[i])
        /\ \A i \in 1..Len(he) : (sh \o he)[Len(sh) + i] = he[i]
    BY JoinedIs
  <2>2. QED
    BY <1>2, <2>1, LenProperties DEF Text
<1>4. text \in Text /\ Len(text) = Len(he) + Len(chunk)
      /\ (\A i \in 1..Len(he) : text[i] = he[i]) /\ \A i \in 1..Len(chunk) : text[Len(he) + i] = chunk[i]
  BY JoinedIs
<1>5. T \in Text /\ Len(T) = Len(t) + Len(chunk)
      /\ (\A i \in 1..Len(t) : T[i] = t[i]) /\ \A i \in 1..Len(chunk) : T[Len(t) + i] = chunk[i]
  BY JoinedIs
<1> HIDE DEF M, text, T
<1>6. Begins(t, T) /\ \A i \in 1..Len(sh) : T[i] = sh[i]
  BY <1>3, <1>5 DEF Begins
<1>7. Continues(T, text, d)
  <2>1. Len(T) = d + Len(text)
    BY <1>3, <1>4, <1>5
  <2>2. ASSUME NEW j \in 1..Len(text) PROVE text[j] = T[d + j]
    <3>1. CASE j <= Len(he)
      <4>1. j \in 1..Len(he) /\ d + j \in 1..Len(t)
        BY <1>3, <3>1
      <4>2. text[j] = he[j] /\ t[d + j] = he[j] /\ T[d + j] = t[d + j]
        BY <1>3, <1>4, <1>5, <4>1
      <4>3. QED
        BY <4>2
    <3>2. CASE j > Len(he)
      <4> DEFINE i == j - Len(he)
      <4>1. i \in 1..Len(chunk) /\ j = Len(he) + i /\ d + j = Len(t) + i
        BY <1>3, <1>4, <3>2
      <4> HIDE DEF i, d
      <4>2. text[Len(he) + i] = chunk[i] /\ T[Len(t) + i] = chunk[i]
        BY <1>4, <1>5, <4>1
      <4>3. QED
        BY <4>1, <4>2
    <3>3. QED
      BY <1>3, <1>4, <3>1, <3>2
  <2>3. QED
    BY <2>1, <2>2 DEF Continues
<1>8. d = Len(t) - Overlap(M, t)
  BY <1>2, <1>3
<1>9. ASSUME NEW n \in 0..Len(text)
      PROVE  /\ sh \o SubSeq(text, 1, n) = SubSeq(T, 1, d + n) /\ sh \o SubSeq(text, 1, n) \in Text
             /\ SubSeq(text, n + 1, Len(text)) \in Text
             /\ Len(SubSeq(text, n + 1, Len(text))) = Len(text) - n
             /\ (sh \o SubSeq(text, 1, n)) \o SubSeq(text, n + 1, Len(text)) = T
  <2>1. sh \in Text /\ text \in Text /\ T \in Text /\ n \in 0..Len(text)
        /\ (\A i \in 1..Len(sh) : T[i] = sh[i]) /\ Continues(T, text, Len(sh))
    BY <1>4, <1>5, <1>6, <1>7
  <2>2. Glued(sh, text, T, n)
    BY ONLY <2>1, GlueIs
  <2>3. QED
    BY <2>2 DEF Glued
<1>10. Len(text) \in Nat
  BY <1>3, <1>4
<1> DEFINE Good == /\ sh2 \in Text /\ he2 \in Text /\ r.done \in BOOLEAN
                   /\ ~r.done => Upheld(o, sh2, he2, T)
                   /\ r.done => Marked(o, sh2, he2, T) /\ r.k = Find(Markers(o), T, 1).k
<1> HIDE DEF r, sh2, he2
<1>11. ASSUME M = <<>> PROVE Good
  <2>1. r = [done |-> FALSE, emit |-> Len(text), hold |-> 0]
    BY <1>11 DEF r, Fed, M
  <2>2. /\ r.done = FALSE /\ Len(text) \in 0..Len(text)
        /\ sh2 = sh \o SubSeq(text, 1, Len(text)) /\ he2 = SubSeq(text, Len(text) + 1, Len(text))
    <3>1. r.done = FALSE /\ r.emit = Len(text) /\ r.hold = 0
      BY <2>1
    <3>2. Len(text) - 0 + 1 = Len(text) + 1 /\ Len(text) \in 0..Len(text)
      BY <1>10
    <3>3. QED
      BY <3>1, <3>2 DEF sh2, he2
  <2>3. sh2 \in Text /\ he2 \in Text /\ sh2 \o he2 = T /\ Len(he2) = Len(text) - Len(text)
    BY <1>9, <2>2
  <2>4. Nowhere(M, T, 1) /\ Overlap(M, T) = 0 /\ Len(he2) = 0
    BY <1>1, <1>5, <1>10, <1>11, <2>3
  <2>5. Upheld(o, sh2, he2, T)
    BY <2>3, <2>4 DEF Upheld, M
  <2>6. QED
    BY <2>2, <2>3, <2>5
<1>12. ASSUME M # <<>> PROVE Good
  <2>1. r = Once(M, Strips(o), text)
    BY <1>12 DEF r, Fed, M
  <2>2. /\ r.done \in BOOLEAN /\ (r.done <=> ~Nowhere(M, T, 1)) /\ (r.done => r.hold = 0)
        /\ ~r.done => r.hold = Overlap(M, T) /\ r.hold \in 0..Len(text)
    <3>1. LET q == Once(M, Strips(o), text) IN
          /\ q.done \in BOOLEAN /\ (q.done <=> ~Nowhere(M, T, 1)) /\ (q.done => q.hold = 0)
          /\ ~q.done => q.hold = Overlap(M, T) /\ q.hold \in 0..Len(text)
      <4>1. t \in Seq(STRING) /\ T \in Seq(STRING) /\ text \in Seq(STRING) /\ d \in Nat
        BY <1>3, <1>4, <1>5 DEF Text
      <4> HIDE DEF d
      <4>2. QED
        BY <1>1, <1>2, <1>6, <1>7, <1>8, <4>1, OnceInParts
    <3>2. QED
      BY <2>1, <3>1
  <2> DEFINE g == Find(M, text, 1)
             f == Find(M, T, 1)
             x == IF Strips(o) THEN 0 ELSE g.len
  <2>3. /\ r.done <=> g # NoMatch
        /\ r.done => r.k = g.k /\ r.emit = g.at - 1 + x
        /\ ~r.done => r.emit = Len(text) - r.hold
    <3>1. Once(M, Strips(o), text) =
            IF g # NoMatch THEN [done |-> TRUE, k |-> g.k, hold |-> 0, emit |-> g.at - 1 + x]
            ELSE [done |-> FALSE, k |-> 0, hold |-> Overlap(M, text), emit |-> Len(text) - Overlap(M, text)]
      BY DEF Once
    <3> HIDE DEF g, x
    <3>2. QED
      BY <2>1, <3>1
  <2>4. CASE ~r.done
    <3> DEFINE n == Len(text) - r.hold
    <3>1. n \in 0..Len(text) /\ Len(text) - n = r.hold /\ r.emit = n /\ r.hold = Overlap(M, T)
      BY <1>10, <2>2, <2>3, <2>4
    <3>2. sh2 = sh \o SubSeq(text, 1, n) /\ he2 = SubSeq(text, n + 1, Len(text))
      BY <3>1 DEF sh2, he2
    <3> HIDE DEF n
    <3>3. sh2 \in Text /\ he2 \in Text /\ sh2 \o he2 = T /\ Len(he2) = Len(text) - n
      BY <1>9, <3>1, <3>2
    <3>4. Nowhere(M, T, 1) /\ Len(he2) = Overlap(M, T)
      BY <2>2, <2>4, <3>1, <3>3
    <3>5. Upheld(o, sh2, he2, T)
      BY <3>3, <3>4 DEF Upheld, M
    <3>6. QED
      BY <2>2, <2>4, <3>3, <3>5
  <2>5. CASE r.done
    <3>1. g # NoMatch /\ r.k = g.k /\ r.emit = g.at - 1 + x /\ r.hold = 0 /\ ~Nowhere(M, T, 1)
      BY <2>2, <2>3, <2>5
    <3>2. Best(M, text, 1, g)
      BY <1>1, <1>4, <3>1, FindIs DEF Text
    <3> HIDE DEF g
    <3>3. g \in Hits /\ 1 <= g.at /\ g.at + g.len <= Len(text) + 1
      BY <1>1, <1>4, <3>2, BestIsHit DEF Text
    <3>4. Best(M, T, d + 1, Shift(g, d))
      <4>1. d \in Nat /\ 1 \in Nat \ {0} /\ text \in Seq(STRING) /\ T \in Seq(STRING)
        BY <1>3, <1>4, <1>5 DEF Text
      <4> HIDE DEF d
      <4>2. QED
        BY <1>1, <1>7, <3>2, <4>1, ContinuesBest
    <3>5. ASSUME NEW k \in DOMAIN M, NEW i \in Nat, 1 <= i, At(M[k], T, i)
          PROVE  d + 1 <= i
      <4>1. 1 \in 1..(Len(t) + 1) /\ Len(t) = Len(t) + 1 - 1 /\ \A j \in 1..Len(t) : t[j] = t[1 + j - 1]
        BY <1>3
      <4>2. t \in Seq(STRING) /\ T \in Seq(STRING)
        BY <1>5 DEF Text
      <4>3. Len(t) - Overlap(M, t) < i
        BY <1>1, <1>2, <1>6, <3>5, <4>1, <4>2, HeldIsEnough
      <4>4. QED
        BY <1>3, <1>8, <4>3
    <3>6. Best(M, T, 1, Shift(g, d))
      <4> DEFINE h == Shift(g, d)
      <4> HIDE DEF h
      <4>1. /\ h = [at |-> h.at, len |-> h.len, k |-> h.k]
            /\ h.k \in DOMAIN M /\ h.len = Len(M[h.k])
            /\ h.at \in Nat \ {0} /\ d + 1 <= h.at /\ At(M[h.k], T, h.at)
            /\ \A k \in DOMAIN M, i \in Nat :
                 d + 1 <= i /\ At(M[k], T, i) => h.at < i \/ (h.at = i /\ h.k <= k)
        BY <3>4 DEF Best, h
      <4>2. \A k \in DOMAIN M, i \in Nat :
              1 <= i /\ At(M[k], T, i) => h.at < i \/ (h.at = i /\ h.k <= k)
        BY <3>5, <4>1
      <4>3. 1 <= h.at
        BY <4>1
      <4>4. Best(M, T, 1, h)
        BY <4>1, <4>2, <4>3 DEF Best
      <4>5. QED
        BY <4>4 DEF h
    <3>7. f = Shift(g, d)
      <4>1. T \in Seq(STRING) /\ 1 \in Nat \ {0}
        BY <1>5 DEF Text
      <4> DEFINE h == Shift(g, d)
      <4>2. Best(M, T, 1, h)
        BY <3>6
      <4> HIDE DEF h
      <4>3. Find(M, T, 1) = h
        BY <1>1, <4>1, <4>2, FindBest
      <4>4. QED
        BY <4>3 DEF h
    <3>8. f.at = d + g.at /\ f.len = g.len /\ f.k = g.k
      BY <3>7 DEF Shift
    <3> HIDE DEF f
    <3> DEFINE n == g.at - 1 + x
    <3>9. n \in 0..Len(text) /\ d + n = f.at - 1 + (IF Strips(o) THEN 0 ELSE f.len)
      <4>1. g.at \in Nat \ {0} /\ g.len \in Nat
        BY <3>3, HitIs
      <4>2. x = (IF Strips(o) THEN 0 ELSE f.len) /\ x \in Nat /\ x <= g.len
        BY <3>8, <4>1
      <4> HIDE DEF x
      <4> DEFINE a == g.at
                 l == g.len
                 L == Len(text)
      <4>3. /\ a \in Nat /\ 1 <= a /\ l \in Nat /\ a + l <= L + 1 /\ L \in Nat /\ d \in Nat
            /\ f.at = d + a /\ n = a - 1 + x /\ x \in Nat /\ x <= l
        BY <1>3, <1>10, <3>3, <3>8, <4>1, <4>2
      <4> HIDE DEF a, l, L, d, n
      <4>4. n \in 0..L /\ d + n = f.at - 1 + x
        BY <4>3
      <4>5. QED
        BY <4>2, <4>4 DEF L
    <3>10. sh2 = sh \o SubSeq(text, 1, n) /\ he2 = SubSeq(text, Len(text) + 1, Len(text))
      <4>1. Len(text) - 0 + 1 = Len(text) + 1
        BY <1>10
      <4>2. QED
        BY <3>1, <4>1 DEF sh2, he2
    <3> HIDE DEF n
    <3>11. sh2 \in Text /\ sh2 = SubSeq(T, 1, d + n)
      BY <1>9, <3>9, <3>10
    <3>12. he2 = <<>> /\ he2 \in Text
      <4>1. Len(text) \in 0..Len(text)
        BY <1>10
      <4>2. he2 \in Text /\ Len(he2) = Len(text) - Len(text)
        BY <1>9, <3>10, <4>1
      <4>3. Len(he2) = 0
        BY <1>10, <4>2
      <4>4. QED
        BY <4>2, <4>3, EmptySeq DEF Text
    <3>13. sh2 = SubSeq(T, 1, f.at - 1 + (IF Strips(o) THEN 0 ELSE f.len))
      BY <3>9, <3>11
    <3>14. Marked(o, sh2, he2, T)
      BY <3>1, <3>12, <3>13 DEF Marked, M, f
    <3>15. r.k = f.k
      BY <3>1, <3>8
    <3>16. QED
      BY <2>2, <2>5, <3>11, <3>12, <3>14, <3>15 DEF f, M
  <2>6. QED
    BY <2>2, <2>4, <2>5
<1>13. Good
  BY <1>11, <1>12
<1>14. QED
  BY <1>13 DEF r, sh2, he2, text, T
-----------------------------------------------------------------------------
(* What the server says.                                                   *)

NameOf(sc, n) == sc.says[n].stream
PayOf(sc, n)  == sc.says[n].payload

\* What is written for the n-th write, what of it is meant for an output, and all of
\* that up to there.
WireOf(sc, n)     == IF sc.raw THEN PayOf(sc, n) ELSE Encode(NameOf(sc, n), PayOf(sc, n))
MeantOf(sc, n, o) == IF o \in {Merged, NameOf(sc, n)} THEN PayOf(sc, n) ELSE <<>>
Upon(sc, n)       == Wire(Upto(sc, n))
Heard(sc, n, o)   == Said(Upto(sc, n), o)

LEMMA ScenarioIs ==
  ASSUME NEW sc \in Scenarios
  PROVE  /\ Len(sc.says) \in Nat /\ DOMAIN sc.says = 1..Len(sc.says)
         /\ sc.spoil \in Text /\ sc.raw \in BOOLEAN /\ sc.timeout \in BOOLEAN /\ sc.writes \in Nat
         /\ \A n \in 1..Len(sc.says) :
              /\ NameOf(sc, n) \in Text /\ PayOf(sc, n) \in Text
              /\ NL \notin ToSet(NameOf(sc, n)) /\ Overhead(NameOf(sc, n)) < MaxPacket
              /\ WireOf(sc, n) \in Text
              /\ \A o \in Outputs : MeantOf(sc, n, o) \in Text
         /\ \A n \in 0..Len(sc.says) :
              /\ Upto(sc, n).raw = sc.raw /\ Upto(sc, n).spoil = <<>>
              /\ Len(Upto(sc, n).says) = n /\ DOMAIN Upto(sc, n).says = 1..n
              /\ \A i \in 1..n : Upto(sc, n).says[i] = sc.says[i]
<1> DEFINE says == sc.says
           N    == Len(says)
<1>1. sc \in [raw : BOOLEAN, timeout : BOOLEAN, writes : Nat, stdinEnds : BOOLEAN,
              says : Seq([stream : Text, payload : Text]), spoil : Text]
      /\ \A i \in DOMAIN says : NL \notin ToSet(says[i].stream) /\ Overhead(says[i].stream) < MaxPacket
  BY Conversations
<1>2. says \in Seq([stream : Text, payload : Text]) /\ sc.spoil \in Text /\ sc.raw \in BOOLEAN
      /\ sc.timeout \in BOOLEAN /\ sc.writes \in Nat
  BY <1>1
<1>3. N \in Nat /\ DOMAIN says = 1..N /\ \A n \in 1..N : says[n] \in [stream : Text, payload : Text]
  BY <1>2, LenProperties, ElementOfSeq
<1>4. ASSUME NEW n \in 1..N
      PROVE  /\ NameOf(sc, n) \in Text /\ PayOf(sc, n) \in Text
             /\ NL \notin ToSet(NameOf(sc, n)) /\ Overhead(NameOf(sc, n)) < MaxPacket
             /\ WireOf(sc, n) \in Text
             /\ \A o \in Outputs : MeantOf(sc, n, o) \in Text
  <2>1. NameOf(sc, n) \in Text /\ PayOf(sc, n) \in Text
    BY <1>3 DEF NameOf, PayOf
  <2>2. NL \notin ToSet(NameOf(sc, n)) /\ Overhead(NameOf(sc, n)) < MaxPacket
    BY <1>1, <1>3 DEF NameOf
  <2>3. Encode(NameOf(sc, n), PayOf(sc, n)) \in Text
    BY <2>1, <2>2, EncodeIs
  <2>4. WireOf(sc, n) \in Text
    BY <2>1, <2>3 DEF WireOf
  <2>5. <<>> \in Text
    BY EmptySeq DEF Text
  <2>6. \A o \in Outputs : MeantOf(sc, n, o) \in Text
    BY <2>1, <2>5 DEF MeantOf
  <2>7. QED
    BY <2>1, <2>2, <2>4, <2>6
<1>5. ASSUME NEW n \in 0..N
      PROVE  /\ Upto(sc, n).raw = sc.raw /\ Upto(sc, n).spoil = <<>>
             /\ Len(Upto(sc, n).says) = n /\ DOMAIN Upto(sc, n).says = 1..n
             /\ \A i \in 1..n : Upto(sc, n).says[i] = says[i]
  <2>1. Upto(sc, n).raw = sc.raw /\ Upto(sc, n).spoil = <<>> /\ Upto(sc, n).says = SubSeq(says, 1, n)
    BY <1>1 DEF Upto
  <2>2. n \in Nat /\ n <= N
    BY <1>3
  <2>3. SubSeq(says, 1, n) = [i \in 1..n |-> says[i]]
    BY <1>2, <1>3, <2>2
  <2>4. Len(SubSeq(says, 1, n)) = n
    BY <2>2, <2>3
  <2>5. QED
    BY <2>1, <2>2, <2>3, <2>4
<1>6. QED
  BY <1>2, <1>3, <1>4, <1>5

\* A list of texts up to every place.
LEMMA ListIs ==
  ASSUME NEW N \in Nat, NEW list \in Seq(Text), Len(list) = N,
         NEW F, \A n \in 0..N : F[n] = FlattenSeq([i \in 1..n |-> list[i]])
  PROVE  /\ \A n \in 0..N : F[n] \in Text
         /\ F[0] = <<>> /\ F[N] = FlattenSeq(list)
         /\ \A n \in 1..N : F[n] = F[n - 1] \o list[n]
         /\ \A n \in 0..N : \A m \in 0..n : Begins(F[m], F[n])
<1>1. PICK f : Through(list, f)
  BY ThroughIs
<1>2. \A i \in 1..N : list[i] \in Text
  BY ElementOfSeq
<1>3. ASSUME NEW n \in 0..N PROVE F[n] = f[n]
  <2> DEFINE first == [i \in 1..n |-> list[i]]
  <2>1. n \in Nat /\ \A i \in 1..n : list[i] \in Text
    BY <1>2
  <2>2. first \in Seq(Text) /\ Len(first) = n /\ \A i \in 1..n : first[i] = list[i]
    BY <2>1
  <2>3. F[n] = FlattenSeq(first)
    OBVIOUS
  <2> HIDE DEF first
  <2>4. QED
    BY <1>1, <2>2, <2>3, ThroughPrefix
<1>4. f \in [0..N -> Text] /\ f[0] = <<>> /\ (\A n \in 1..N : f[n] = f[n - 1] \o list[n])
      /\ FlattenSeq(list) = f[N]
  BY <1>1 DEF Through
<1>5. \A n \in 1..N : n \in 0..N /\ n - 1 \in 0..N
  OBVIOUS
<1>6. \A n \in 0..N : \A m \in 0..n : m \in 0..Len(list) /\ n \in m..Len(list) /\ m \in 0..N
  OBVIOUS
<1>7. \A n \in 0..N : \A m \in 0..n : Begins(f[m], f[n])
  BY <1>1, <1>6, ThroughGrows
<1>8. \A n \in 0..N : \A m \in 0..n : Begins(F[m], F[n])
  BY <1>3, <1>6, <1>7
<1>9. 0 \in 0..N /\ N \in 0..N
  OBVIOUS
<1>10. QED
  BY <1>3, <1>4, <1>5, <1>8, <1>9
LEMMA NothingMore ==
  ASSUME NEW n \in Nat, NEW list \in Seq(Text), n <= Len(list)
  PROVE  LET t == FlattenSeq([i \in 1..n |-> list[i]]) IN t \in Text /\ t \o <<>> = t
<1> DEFINE first == [i \in 1..n |-> list[i]]
           t     == FlattenSeq(first)
<1>1. \A i \in 1..n : list[i] \in Text
  BY ElementOfSeq, LenProperties
<1>2. first \in Seq(Text)
  BY <1>1
<1> HIDE DEF first
<1>3. t \in Text
  <2>1. PICK f : Through(first, f)
    BY <1>2, ThroughIs
  <2>2. Len(first) \in 0..Len(first)
    BY <1>2, LenProperties
  <2>3. QED
    BY <2>1, <2>2 DEF Through
<1> HIDE DEF t
<1>4. t \o <<>> = t
  <2>1. <<>> \in Text /\ Len(<<>>) = 0
    BY EmptySeq DEF Text
  <2> DEFINE e == <<>>
             u == t \o e
  <2>2. e \in Text /\ Len(e) = 0 /\ Len(t) \in Nat
    BY <1>3, <2>1, LenProperties DEF Text
  <2> HIDE DEF e
  <2>3. u \in Text /\ Len(u) = Len(t) + Len(e) /\ \A i \in 1..Len(t) : u[i] = t[i]
    BY <1>3, <2>2, JoinedIs
  <2> HIDE DEF u
  <2>4. Len(u) = Len(t) /\ \A i \in 1..Len(u) : u[i] = t[i]
    BY <2>2, <2>3
  <2>5. u = t
    BY <1>3, <2>3, <2>4, SameText
  <2>6. QED
    BY <2>5 DEF u, e
<1>5. QED
  BY <1>3, <1>4 DEF t, first

LEMMA UponIs ==
  ASSUME NEW sc \in Scenarios
  PROVE  LET N == Len(sc.says) IN
         /\ \A n \in 0..N : Upon(sc, n) \in Text /\ Len(Upon(sc, n)) \in Nat
         /\ Upon(sc, 0) = <<>> /\ Wire(sc) = Upon(sc, N) \o sc.spoil
         /\ \A n \in 1..N : Upon(sc, n) = Upon(sc, n - 1) \o WireOf(sc, n)
         /\ \A n \in 0..N : \A m \in 0..n : Begins(Upon(sc, m), Upon(sc, n))
<1> DEFINE N    == Len(sc.says)
           list == [i \in 1..N |-> WireOf(sc, i)]
           F    == [n \in 0..N |-> Upon(sc, n)]
<1>1. N \in Nat /\ DOMAIN sc.says = 1..N /\ sc.spoil \in Text
      /\ \A n \in 1..N : WireOf(sc, n) \in Text
  BY ScenarioIs
<1>2. list \in Seq(Text) /\ Len(list) = N /\ \A n \in 1..N : list[n] = WireOf(sc, n)
  BY <1>1
<1>3. FlattenSeq(list) = FlattenSeq([i \in DOMAIN sc.says |->
        IF sc.raw THEN sc.says[i].payload ELSE Encode(sc.says[i].stream, sc.says[i].payload)])
  BY <1>1 DEF WireOf, PayOf, NameOf
<1> HIDE DEF list
<1>4. ASSUME NEW n \in 0..N PROVE F[n] = FlattenSeq([i \in 1..n |-> list[i]])
  <2> DEFINE up == Upto(sc, n)
  <2>1. /\ up.raw = sc.raw /\ up.spoil = <<>> /\ DOMAIN up.says = 1..n
        /\ \A i \in 1..n : up.says[i] = sc.says[i]
    BY ScenarioIs
  <2> HIDE DEF up
  <2>2. [i \in DOMAIN up.says |->
           IF up.raw THEN up.says[i].payload ELSE Encode(up.says[i].stream, up.says[i].payload)]
        = [i \in 1..n |-> list[i]]
    <3>1. ASSUME NEW i \in 1..n
          PROVE  (IF up.raw THEN up.says[i].payload ELSE Encode(up.says[i].stream, up.says[i].payload)) = list[i]
      <4>1. i \in 1..N
        BY <1>1
      <4>2. QED
        BY <1>2, <2>1, <4>1 DEF WireOf, PayOf, NameOf
    <3>2. QED
      BY <2>1, <3>1
  <2>3. n \in Nat /\ n <= Len(list)
    BY <1>1, <1>2
  <2> DEFINE t == FlattenSeq([i \in 1..n |-> list[i]])
  <2>4. Wire(up) = t \o <<>>
    BY <2>1, <2>2 DEF Wire
  <2>5. t \o <<>> = t
    BY <1>2, <2>3, NothingMore
  <2> HIDE DEF t
  <2>6. Upon(sc, n) = t
    BY <2>4, <2>5 DEF Upon, up
  <2>7. QED
    BY <2>6 DEF t
<1>5. \A n \in 0..N : F[n] = Upon(sc, n)
  OBVIOUS
<1> HIDE DEF F
<1>6. /\ \A n \in 0..N : F[n] \in Text
      /\ F[0] = <<>> /\ F[N] = FlattenSeq(list)
      /\ \A n \in 1..N : F[n] = F[n - 1] \o list[n]
      /\ \A n \in 0..N : \A m \in 0..n : Begins(F[m], F[n])
  BY <1>1, <1>2, <1>4, ListIs
<1> HIDE DEF N
<1>7. N \in 0..N /\ 0 \in 0..N /\ (\A n \in 1..N : n \in 0..N /\ n - 1 \in 0..N)
      /\ \A n \in 0..N : \A m \in 0..n : m \in 0..N
  BY <1>1
<1>8. Wire(sc) = Upon(sc, N) \o sc.spoil
  <2>1. Upon(sc, N) = FlattenSeq(list)
    BY <1>5, <1>6, <1>7
  <2>2. QED
    BY <1>3, <2>1 DEF Wire
<1>9. \A n \in 0..N : Upon(sc, n) \in Text /\ Len(Upon(sc, n)) \in Nat
  BY <1>5, <1>6, LenProperties DEF Text
<1>10. Upon(sc, 0) = <<>> /\ \A n \in 1..N : Upon(sc, n) = Upon(sc, n - 1) \o WireOf(sc, n)
  BY <1>2, <1>5, <1>6, <1>7
<1>11. \A n \in 0..N : \A m \in 0..n : Begins(Upon(sc, m), Upon(sc, n))
  BY <1>5, <1>6, <1>7
<1>12. QED
  BY <1>8, <1>9, <1>10, <1>11 DEF N

LEMMA HeardIs ==
  ASSUME NEW sc \in Scenarios, NEW o \in Outputs
  PROVE  LET N == Len(sc.says) IN
         /\ \A n \in 0..N : Heard(sc, n, o) \in Text /\ Len(Heard(sc, n, o)) \in Nat
         /\ Heard(sc, 0, o) = <<>>
         /\ \A n \in 1..N : Heard(sc, n, o) = Heard(sc, n - 1, o) \o MeantOf(sc, n, o)
         /\ \A n \in 0..N : \A m \in 0..n : Begins(Heard(sc, m, o), Heard(sc, n, o))
<1> DEFINE N    == Len(sc.says)
           list == [i \in 1..N |-> MeantOf(sc, i, o)]
           F    == [n \in 0..N |-> Heard(sc, n, o)]
<1>1. N \in Nat /\ DOMAIN sc.says = 1..N /\ \A n \in 1..N : MeantOf(sc, n, o) \in Text
  BY ScenarioIs
<1>2. list \in Seq(Text) /\ Len(list) = N /\ \A n \in 1..N : list[n] = MeantOf(sc, n, o)
  BY <1>1
<1> HIDE DEF list
<1>4. ASSUME NEW n \in 0..N PROVE F[n] = FlattenSeq([i \in 1..n |-> list[i]])
  <2> DEFINE up == Upto(sc, n)
  <2>1. /\ DOMAIN up.says = 1..n /\ \A i \in 1..n : up.says[i] = sc.says[i]
    BY ScenarioIs
  <2> HIDE DEF up
  <2>2. [i \in DOMAIN up.says |-> IF o \in {Merged, up.says[i].stream} THEN up.says[i].payload ELSE <<>>]
        = [i \in 1..n |-> list[i]]
    <3>1. ASSUME NEW i \in 1..n
          PROVE  (IF o \in {Merged, up.says[i].stream} THEN up.says[i].payload ELSE <<>>) = list[i]
      <4>1. i \in 1..N
        BY <1>1
      <4>2. QED
        BY <1>2, <2>1, <4>1 DEF MeantOf, PayOf, NameOf
    <3>2. QED
      BY <2>1, <3>1
  <2>3. QED
    BY <2>2 DEF Heard, Said, up
<1>5. \A n \in 0..N : F[n] = Heard(sc, n, o)
  OBVIOUS
<1> HIDE DEF F
<1>6. /\ \A n \in 0..N : F[n] \in Text
      /\ F[0] = <<>> /\ F[N] = FlattenSeq(list)
      /\ \A n \in 1..N : F[n] = F[n - 1] \o list[n]
      /\ \A n \in 0..N : \A m \in 0..n : Begins(F[m], F[n])
  BY <1>1, <1>2, <1>4, ListIs
<1> HIDE DEF N
<1>7. N \in 0..N /\ 0 \in 0..N /\ (\A n \in 1..N : n \in 0..N /\ n - 1 \in 0..N)
      /\ \A n \in 0..N : \A m \in 0..n : m \in 0..N
  BY <1>1
<1>9. \A n \in 0..N : Heard(sc, n, o) \in Text /\ Len(Heard(sc, n, o)) \in Nat
  BY <1>5, <1>6, LenProperties DEF Text
<1>10. Heard(sc, 0, o) = <<>> /\ \A n \in 1..N : Heard(sc, n, o) = Heard(sc, n - 1, o) \o MeantOf(sc, n, o)
  BY <1>2, <1>5, <1>6, <1>7
<1>11. \A n \in 0..N : \A m \in 0..n : Begins(Heard(sc, m, o), Heard(sc, n, o))
  BY <1>5, <1>6, <1>7
<1>12. QED
  BY <1>9, <1>10, <1>11 DEF N
-----------------------------------------------------------------------------
(* The places between two packets.                                         *)

Grows(h, p, a, b) ==
  /\ h \o SubSeq(p, 1, a) \in Text
  /\ h \o SubSeq(p, 1, b) = (h \o SubSeq(p, 1, a)) \o SubSeq(p, a + 1, b)
  /\ Begins(h, h \o SubSeq(p, 1, a)) /\ Begins(h \o SubSeq(p, 1, a), h \o p)
  /\ a = 0 => h \o SubSeq(p, 1, a) = h
  /\ b = Len(p) => h \o SubSeq(p, 1, b) = h \o p

LEMMA GrownIs ==
  ASSUME NEW h \in Text, NEW p \in Text, NEW a \in 0..Len(p), NEW b \in a..Len(p)
  PROVE  Grows(h, p, a, b)
<1> DEFINE u == SubSeq(p, 1, a)
           v == SubSeq(p, a + 1, b)
           w == SubSeq(p, a + 1, Len(p))
<1>1. Len(p) \in Nat /\ a \in Nat /\ b \in Nat /\ a <= b /\ b <= Len(p) /\ Len(h) \in Nat
      /\ h \in Seq(STRING) /\ p \in Seq(STRING)
  BY LenProperties DEF Text
<1>2. u \in Text /\ v \in Text /\ w \in Text
  <2>1. /\ 1 \in Nat \ {0} /\ a <= Len(p) /\ 1 <= a + 1 /\ a + 1 \in Nat \ {0} /\ a + 1 <= b + 1
        /\ Len(p) <= Len(p) /\ a + 1 <= Len(p) + 1
    BY <1>1
  <2>2. QED
    BY <1>1, <2>1, PartsAre
<1>3. SubSeq(p, 1, b) = u \o v /\ u \o w = p
  <2>1. 1 \in 1..(Len(p) + 1) /\ a \in (1 - 1)..Len(p) /\ b \in a..Len(p) /\ Len(p) \in a..Len(p)
    BY <1>1
  <2>2. u \o v = SubSeq(p, 1, b) /\ u \o w = SubSeq(p, 1, Len(p))
    BY <1>1, <2>1, ConcatAdjacentSubSeq
  <2>3. SubSeq(p, 1, Len(p)) = p
    BY <1>1, SubSeqFull
  <2>4. QED
    BY <2>2, <2>3
<1>4. a = 0 => u = <<>>
  <2>1. SubSeq(p, 1, 0) = <<>>
    BY SubSeqEmpty
  <2>2. QED
    BY <2>1
<1>5. b = Len(p) => SubSeq(p, 1, b) = p
  BY <1>1, SubSeqFull
<1> HIDE DEF u, v, w
<1>6. u \in Seq(STRING) /\ v \in Seq(STRING) /\ w \in Seq(STRING)
  BY <1>2 DEF Text
<1>7. h \o (u \o v) = (h \o u) \o v /\ h \o (u \o w) = (h \o u) \o w
  <2>1. h \in Seq(STRING)
    BY <1>1
  <2>2. \A x, y, z \in Seq(STRING) : (x \o y) \o z = x \o (y \o z)
    BY ONLY SMTT(20), ConcatAssociative
  <2>3. (h \o u) \o v = h \o (u \o v)
    BY ONLY <1>6, <2>1, <2>2
  <2>4. (h \o u) \o w = h \o (u \o w)
    BY ONLY <1>6, <2>1, <2>2
  <2>5. QED
    BY ONLY <2>3, <2>4
<1>8. h \o u \in Text /\ Begins(h, h \o u)
  <2>1. h \o u \in Text /\ Len(h \o u) = Len(h) + Len(u) /\ \A i \in 1..Len(h) : (h \o u)[i] = h[i]
    BY <1>2, JoinedIs
  <2>2. Len(u) \in Nat
    BY <1>6, LenProperties
  <2>3. QED
    BY <1>1, <2>1, <2>2 DEF Begins
<1>9. Begins(h \o u, (h \o u) \o w)
  <2> DEFINE x == h \o u
  <2>1. x \in Text /\ Len(x) \in Nat /\ Len(w) \in Nat
    BY <1>6, <1>8, LenProperties DEF Text
  <2> HIDE DEF x
  <2>2. Len(x \o w) = Len(x) + Len(w) /\ \A i \in 1..Len(x) : (x \o w)[i] = x[i]
    BY <1>2, <2>1, JoinedIs
  <2>3. Begins(x, x \o w)
    BY <2>1, <2>2 DEF Begins
  <2>4. QED
    BY <2>3 DEF x
<1>10. a = 0 => h \o u = h
  BY <1>1, <1>4, ConcatEmptySeq
<1>11. h \o SubSeq(p, 1, b) = (h \o u) \o v /\ Begins(h \o u, h \o p)
  BY <1>3, <1>7, <1>9
<1>12. b = Len(p) => h \o SubSeq(p, 1, b) = h \o p
  BY <1>5
<1>13. QED
  BY <1>8, <1>10, <1>11, <1>12 DEF Grows, u, v

LEMMA BeginsMore ==
  ASSUME NEW a \in Text, NEW b \in Text, NEW c \in Text, Begins(a, b), Begins(b, c)
  PROVE  Begins(a, c)
<1>1. Len(a) \in Nat /\ Len(b) \in Nat /\ Len(c) \in Nat
  BY LenProperties DEF Text
<1>2. QED
  BY <1>1 DEF Begins

PacketsOf(sc, n) == Pieces(NameOf(sc, n), PayOf(sc, n))

\* A place: n writes have been read, and k packets of the next one.
Spot(sc, n, k) ==
  /\ n \in 0..Len(sc.says) /\ k \in Nat
  /\ IF n < Len(sc.says) THEN k < Len(PacketsOf(sc, n + 1)) ELSE k = 0

\* How much of the text that is, and what an output has been given by then.
Off(sc, n, k) ==
  Len(Upon(sc, n)) + (IF k = 0 THEN 0 ELSE EndAt(NameOf(sc, n + 1), PayOf(sc, n + 1), k))
Acc(sc, n, k, o) ==
  IF k # 0 /\ o = NameOf(sc, n + 1)
  THEN Heard(sc, n, o)
         \o SubSeq(PayOf(sc, n + 1), 1, CutAt(NameOf(sc, n + 1), PayOf(sc, n + 1), k))
  ELSE Heard(sc, n, o)

LEMMA WireText ==
  ASSUME NEW sc \in Scenarios
  PROVE  /\ Wire(sc) \in Text /\ Len(Wire(sc)) \in Nat
         /\ \A n \in 0..Len(sc.says) : Begins(Upon(sc, n), Wire(sc))
         /\ Len(Wire(sc)) = Len(Upon(sc, Len(sc.says))) + Len(sc.spoil)
         /\ \A i \in 1..Len(sc.spoil) : Wire(sc)[Len(Upon(sc, Len(sc.says))) + i] = sc.spoil[i]
<1> DEFINE N == Len(sc.says)
           u == Upon(sc, N)
           s == sc.spoil
           w == Wire(sc)
<1>1. N \in Nat /\ s \in Text
  BY ScenarioIs
<1>2. (\A n \in 0..N : Upon(sc, n) \in Text) /\ w = u \o s
      /\ \A n \in 0..N : \A m \in 0..n : Begins(Upon(sc, m), Upon(sc, n))
  BY UponIs
<1>3. N \in 0..N /\ u \in Text /\ \A n \in 0..N : Begins(Upon(sc, n), u)
  BY <1>1, <1>2
<1> HIDE DEF N, s, u, w
<1>4. u \o s \in Text /\ Len(u \o s) = Len(u) + Len(s) /\ (\A i \in 1..Len(u) : (u \o s)[i] = u[i])
      /\ \A i \in 1..Len(s) : (u \o s)[Len(u) + i] = s[i]
  BY <1>1, <1>3, JoinedIs
<1>5. Len(u) \in Nat /\ Len(s) \in Nat /\ Len(w) \in Nat
  BY <1>1, <1>2, <1>3, <1>4, LenProperties DEF Text
<1>6. Begins(u, w)
  BY <1>2, <1>4, <1>5 DEF Begins
<1>7. w \in Text
  BY <1>2, <1>4
<1>8. \A n \in 0..N : Begins(Upon(sc, n), w)
  BY <1>2, <1>3, <1>6, <1>7, BeginsMore
<1>9. w \in Text /\ Len(w) = Len(u) + Len(s) /\ \A i \in 1..Len(s) : w[Len(u) + i] = s[i]
  BY <1>2, <1>4
<1>10. QED
  BY <1>5, <1>8, <1>9 DEF w, u, s, N
\* What is known of a place: its part of the text, and of what is meant for the outputs.
LEMMA SpotIs ==
  ASSUME NEW sc \in Scenarios, ~sc.raw, NEW n, NEW k, Spot(sc, n, k)
  PROVE  /\ Off(sc, n, k) \in 0..Len(Wire(sc)) /\ n \in 0..Len(sc.says)
         /\ n = Len(sc.says) => Off(sc, n, k) = Len(Upon(sc, n))
         /\ \A o \in Outputs :
              /\ Acc(sc, n, k, o) \in Text
              /\ \A m \in n..Len(sc.says) : m = n \/ Begins(Acc(sc, n, k, o), Heard(sc, m, o))
              /\ n = Len(sc.says) => Acc(sc, n, k, o) = Heard(sc, n, o)
              /\ \A m \in 0..n : Begins(Heard(sc, m, o), Acc(sc, n, k, o))
<1> DEFINE N == Len(sc.says)
           name == NameOf(sc, n + 1)
           pay  == PayOf(sc, n + 1)
           P    == Len(PacketsOf(sc, n + 1))
           c    == CutAt(name, pay, k)
           end  == EndAt(name, pay, k)
<1>1. N \in Nat /\ n \in 0..N /\ k \in Nat /\ n \in Nat /\ (n < N => k < P) /\ (n >= N => k = 0 /\ n = N)
      /\ (n < N => n + 1 \in 1..N /\ n + 1 \in 0..N /\ (n + 1) - 1 = n)
  BY ScenarioIs DEF Spot
<1>2. n < N => /\ name \in Text /\ pay \in Text /\ Overhead(name) < MaxPacket
               /\ WireOf(sc, n + 1) = Encode(name, pay)
               /\ \A o \in Names : MeantOf(sc, n + 1, o) = IF o = name THEN pay ELSE <<>>
  BY <1>1, ScenarioIs, StreamNames DEF WireOf, MeantOf
<1>3. n < N => /\ P \in Nat \ {0} /\ c \in 0..Len(pay) /\ end \in 0..Len(Encode(name, pay))
               /\ Encode(name, pay) \in Text
  <2>1. SUFFICES ASSUME n < N
                 PROVE  /\ P \in Nat \ {0} /\ c \in 0..Len(pay) /\ end \in 0..Len(Encode(name, pay))
                        /\ Encode(name, pay) \in Text
    OBVIOUS
  <2>2. Len(Pieces(name, pay)) \in Nat \ {0}
        /\ \A i \in 0..Len(Pieces(name, pay)) : CutAt(name, pay, i) \in 0..Len(pay)
    BY <1>2, <2>1, PiecesAre
  <2>3. Encode(name, pay) \in Text
        /\ \A i \in 0..Len(Pieces(name, pay)) : EndAt(name, pay, i) \in 0..Len(Encode(name, pay))
    BY <1>2, <2>1, EncodeIs
  <2>4. P = Len(Pieces(name, pay)) /\ k \in 0..P
    BY <1>1, <2>1, <2>2 DEF PacketsOf
  <2>5. QED
    BY <2>2, <2>3, <2>4
<1>4. /\ \A m \in 0..N : Upon(sc, m) \in Text /\ Len(Upon(sc, m)) \in Nat
      /\ \A m \in 1..N : Upon(sc, m) = Upon(sc, m - 1) \o WireOf(sc, m)
  BY UponIs
<1>5. Len(Wire(sc)) \in Nat /\ \A m \in 0..N : Len(Upon(sc, m)) <= Len(Wire(sc))
  BY WireText DEF Begins
<1> HIDE DEF N, name, pay, P, c, end
<1>6. Off(sc, n, k) \in 0..Len(Wire(sc))
  <2> DEFINE a == Len(Upon(sc, n))
             w == Len(Wire(sc))
  <2>1. a \in Nat /\ a <= w /\ w \in Nat
    BY <1>1, <1>4, <1>5
  <2>2. CASE k = 0
    <3>1. Off(sc, n, k) = a + 0
      BY <2>2 DEF Off
    <3> HIDE DEF a, w
    <3>2. Off(sc, n, k) \in 0..w
      BY <2>1, <3>1
    <3>3. QED
      BY <3>2 DEF w
  <2>3. CASE k # 0
    <3>1. n < N
      BY <1>1, <2>3
    <3>2. Off(sc, n, k) = a + end
      BY <2>3 DEF Off, end, name, pay
    <3> DEFINE b == Len(Upon(sc, n + 1))
               l == Len(Encode(name, pay))
    <3>3. b = a + l
      <4>1. Upon(sc, n + 1) = Upon(sc, n) \o Encode(name, pay)
        BY <1>1, <1>2, <1>4, <3>1
      <4>2. Upon(sc, n) \in Text /\ Encode(name, pay) \in Text
        BY <1>1, <1>3, <1>4, <3>1
      <4>3. QED
        BY <4>1, <4>2, JoinedIs
    <3>4. b <= w /\ end \in 0..l /\ l \in Nat
      BY <1>1, <1>3, <1>5, <3>1, LenProperties DEF Text
    <3> HIDE DEF a, w, b, l
    <3>5. Off(sc, n, k) \in 0..w
      BY <2>1, <3>2, <3>3, <3>4
    <3>6. QED
      BY <3>5 DEF w
  <2>4. QED
    BY <2>2, <2>3
<1>7. n = N => Off(sc, n, k) = Len(Upon(sc, n))
  BY <1>1, <1>4 DEF Off
<1>8. ASSUME NEW o \in Outputs
      PROVE  /\ Acc(sc, n, k, o) \in Text
             /\ \A m \in n..N : m = n \/ Begins(Acc(sc, n, k, o), Heard(sc, m, o))
             /\ n = N => Acc(sc, n, k, o) = Heard(sc, n, o)
             /\ \A m \in 0..n : Begins(Heard(sc, m, o), Acc(sc, n, k, o))
  <2> DEFINE H(m) == Heard(sc, m, o)
             A    == Acc(sc, n, k, o)
  <2>1. /\ \A m \in 0..N : H(m) \in Text
        /\ \A m \in 1..N : H(m) = H(m - 1) \o MeantOf(sc, m, o)
        /\ \A m \in 0..N : \A i \in 0..m : Begins(H(i), H(m))
    BY HeardIs DEF N
  <2>2. A = IF k # 0 /\ o = name THEN H(n) \o SubSeq(pay, 1, c) ELSE H(n)
    BY DEF Acc, name, pay, c
  <2> HIDE DEF H, A
  <2>3. A \in Text /\ Begins(H(n), A) /\ (n = N => A = H(n)) /\ (n < N => Begins(A, H(n + 1)))
    <3>1. CASE k # 0 /\ o = name
      <4>1. n < N
        BY <1>1, <3>1
      <4>2. H(n + 1) = H(n) \o pay
        <5>1. H(n + 1) = H(n) \o MeantOf(sc, n + 1, o)
          BY <1>1, <2>1, <4>1
        <5>2. MeantOf(sc, n + 1, o) = pay
          BY <3>1 DEF MeantOf, name, pay
        <5>3. QED
          BY <5>1, <5>2
      <4>3. H(n) \in Text /\ pay \in Text /\ c \in 0..Len(pay) /\ c \in c..Len(pay)
        BY <1>1, <1>2, <1>3, <2>1, <4>1
      <4>4. H(n) \o SubSeq(pay, 1, c) \in Text /\ Begins(H(n), H(n) \o SubSeq(pay, 1, c))
            /\ Begins(H(n) \o SubSeq(pay, 1, c), H(n) \o pay)
        BY <4>3, GrownIs DEF Grows
      <4>5. A = H(n) \o SubSeq(pay, 1, c)
        BY <2>2, <3>1
      <4>6. A \in Text /\ Begins(H(n), A)
        BY ONLY <4>4, <4>5
      <4>7. Begins(A, H(n + 1))
        BY ONLY <4>2, <4>4, <4>5
      <4>8. ~(n = N)
        BY <1>1, <4>1
      <4>9. QED
        BY <4>6, <4>7, <4>8
    <3>2. CASE ~(k # 0 /\ o = name)
      <4>1. A = H(n) /\ n \in 0..N /\ n \in 0..n /\ (n < N => n + 1 \in 0..N /\ n \in 0..(n + 1))
        BY <1>1, <2>2, <3>2
      <4>2. QED
        BY <2>1, <4>1
    <3>3. QED
      BY <3>1, <3>2
  <2>4. ASSUME NEW m \in n..N PROVE m = n \/ Begins(A, H(m))
    <3>1. CASE m = n
      BY <3>1
    <3>2. CASE m # n
      <4>1. n < N /\ m \in 0..N /\ n + 1 \in 0..m /\ n + 1 \in 0..N
        BY <1>1, <3>2
      <4>2. Begins(A, H(n + 1)) /\ Begins(H(n + 1), H(m)) /\ A \in Text /\ H(n + 1) \in Text /\ H(m) \in Text
        BY <2>1, <2>3, <4>1
      <4>3. QED
        BY <4>2, BeginsMore
    <3>3. QED
      BY <3>1, <3>2
  <2>5. ASSUME NEW m \in 0..n PROVE Begins(H(m), A)
    <3>1. n \in 0..N /\ m \in 0..N
      BY <1>1
    <3>2. Begins(H(m), H(n)) /\ Begins(H(n), A) /\ A \in Text /\ H(n) \in Text /\ H(m) \in Text
      BY <2>1, <2>3, <3>1
    <3>3. QED
      BY <3>2, BeginsMore
  <2>6. QED
    BY <2>3, <2>4, <2>5 DEF H, A
<1>9. QED
  BY <1>1, <1>6, <1>7, <1>8 DEF N
PieceOf(sc, n, k)  == PacketsOf(sc, n + 1)[k + 1]
PacketAt(sc, n, k) == EncodeOne(NameOf(sc, n + 1), PieceOf(sc, n, k))

\* After the packet at a place comes another place.
LEMMA NextIs ==
  ASSUME NEW sc \in Scenarios, ~sc.raw, NEW n, NEW k, Spot(sc, n, k), n < Len(sc.says)
  PROVE  LET e     == PacketAt(sc, n, k)
             name  == NameOf(sc, n + 1)
             piece == PieceOf(sc, n, k)
         IN /\ name \in Text /\ piece \in Text /\ NL \notin ToSet(name)
            /\ Overhead(name) + Len(piece) <= MaxPacket
            /\ e \in Text /\ Len(e) \in Nat \ {0}
            /\ Off(sc, n, k) + Len(e) <= Len(Upon(sc, n + 1))
            /\ Len(Upon(sc, n + 1)) <= Len(Wire(sc))
            /\ \A i \in 1..Len(e) : Wire(sc)[Off(sc, n, k) + i] = e[i]
            /\ \A o \in Names :
                 /\ Acc(sc, n, k + 1, o) \in Text
                 /\ o = name => Acc(sc, n, k + 1, o) = Acc(sc, n, k, o) \o piece
                 /\ o # name => Acc(sc, n, k + 1, o) = Acc(sc, n, k, o)
                 /\ \A m \in (n + 1)..Len(sc.says) : Begins(Acc(sc, n, k + 1, o), Heard(sc, m, o))
            /\ \E n2, k2 :
                 /\ Spot(sc, n2, k2) /\ Off(sc, n2, k2) = Off(sc, n, k) + Len(e)
                 /\ \A o \in Names : Acc(sc, n2, k2, o) = Acc(sc, n, k + 1, o)
<1> DEFINE N     == Len(sc.says)
           e     == PacketAt(sc, n, k)
           name  == NameOf(sc, n + 1)
           pay   == PayOf(sc, n + 1)
           piece == PieceOf(sc, n, k)
           P     == Len(PacketsOf(sc, n + 1))
           c(i)  == CutAt(name, pay, i)
           end(i) == EndAt(name, pay, i)
           whole == Encode(name, pay)
           W     == Upon(sc, n)
           W2    == Upon(sc, n + 1)
           off   == Off(sc, n, k)
<1>1. N \in Nat /\ n \in 0..N /\ k \in Nat /\ n \in Nat /\ k < P
      /\ n + 1 \in 1..N /\ n + 1 \in 0..N /\ (n + 1) - 1 = n /\ (k + 1) - 1 = k /\ n \in 0..(n + 1)
  BY ScenarioIs DEF Spot
<1>2. /\ name \in Text /\ pay \in Text /\ NL \notin ToSet(name) /\ Overhead(name) < MaxPacket
      /\ WireOf(sc, n + 1) = whole
      /\ \A o \in Names : MeantOf(sc, n + 1, o) = IF o = name THEN pay ELSE <<>>
  BY <1>1, ScenarioIs, StreamNames DEF WireOf, MeantOf
<1>3. /\ P \in Nat \ {0} /\ c(0) = 0 /\ c(P) = Len(pay) /\ (\A i \in 0..P : c(i) \in 0..Len(pay))
      /\ \A i \in 1..P :
           /\ c(i - 1) <= c(i) /\ PacketsOf(sc, n + 1)[i] = SubSeq(pay, c(i - 1) + 1, c(i))
           /\ PacketsOf(sc, n + 1)[i] \in Text
           /\ Overhead(name) + Len(PacketsOf(sc, n + 1)[i]) <= MaxPacket
  <2> DEFINE pieces == Pieces(name, pay)
  <2>1. /\ pieces \in Seq(Text) /\ Len(pieces) \in Nat \ {0}
        /\ c(0) = 0 /\ c(Len(pieces)) = Len(pay)
        /\ \A i \in 0..Len(pieces) : c(i) \in 0..Len(pay)
        /\ \A i \in 1..Len(pieces) :
             /\ c(i - 1) <= c(i) /\ pieces[i] = SubSeq(pay, c(i - 1) + 1, c(i))
             /\ pieces[i] \in Text /\ Len(pieces[i]) = c(i) - c(i - 1)
             /\ Overhead(name) + Len(pieces[i]) <= MaxPacket
    BY <1>2, PiecesAre
  <2>2. PacketsOf(sc, n + 1) = pieces
    BY DEF PacketsOf
  <2> HIDE DEF pieces, c
  <2>3. QED
    BY <2>1, <2>2
<1>4. /\ whole \in Text /\ Len(whole) = end(P) /\ end(0) = 0
      /\ \A i \in 0..P : end(i) \in 0..Len(whole)
      /\ \A i \in 1..P :
           LET d == EncodeOne(name, PacketsOf(sc, n + 1)[i]) IN
           /\ d \in Text /\ Len(d) \in Nat \ {0} /\ end(i) = end(i - 1) + Len(d)
           /\ \A j \in 1..Len(d) : whole[end(i - 1) + j] = d[j]
  BY <1>2, EncodeIs DEF PacketsOf
<1> HIDE DEF name, pay, P, c, end, whole, piece
<1>5. k + 1 \in 1..P /\ k \in 0..P /\ k + 1 \in 0..P /\ piece = PacketsOf(sc, n + 1)[k + 1]
  BY <1>1, <1>3 DEF piece, PieceOf
<1>6. /\ c(k) <= c(k + 1) /\ piece = SubSeq(pay, c(k) + 1, c(k + 1)) /\ piece \in Text
      /\ Overhead(name) + Len(piece) <= MaxPacket
      /\ c(k) \in 0..Len(pay) /\ c(k + 1) \in 0..Len(pay)
  BY <1>1, <1>3, <1>5
<1>7. e = EncodeOne(name, piece)
  BY DEF PacketAt, name, piece
<1> HIDE DEF e
<1>8. /\ e \in Text /\ Len(e) \in Nat \ {0} /\ end(k + 1) = end(k) + Len(e)
      /\ \A j \in 1..Len(e) : whole[end(k) + j] = e[j]
      /\ end(k) \in 0..Len(whole) /\ end(k + 1) \in 0..Len(whole)
  BY <1>1, <1>4, <1>5, <1>7
<1>9. W \in Text /\ W2 \in Text /\ W2 = W \o whole
  <2>1. /\ \A m \in 0..N : Upon(sc, m) \in Text /\ Len(Upon(sc, m)) \in Nat
        /\ \A m \in 1..N : Upon(sc, m) = Upon(sc, m - 1) \o WireOf(sc, m)
    BY UponIs
  <2>2. QED
    BY <1>1, <1>2, <2>1
<1>10. Begins(W2, Wire(sc)) /\ Len(Wire(sc)) \in Nat
  BY <1>1, WireText
<1>11. off = Len(W) + end(k)
  <2>1. off = Len(W) + (IF k = 0 THEN 0 ELSE end(k))
    BY DEF Off, end, name, pay
  <2>2. QED
    BY <1>4, <2>1
<1> HIDE DEF W, W2, off
<1>12. Len(W) \in Nat /\ Len(whole) \in Nat /\ Len(W2) = Len(W) + Len(whole)
       /\ \A i \in 1..Len(whole) : W2[Len(W) + i] = whole[i]
  <2>1. Len(W) \in Nat /\ Len(whole) \in Nat
    BY <1>4, <1>9, LenProperties DEF Text
  <2>2. whole \in Text
    BY <1>4
  <2>3. QED
    BY SMTT(20), <1>9, <2>1, <2>2, JoinedIs DEF Text
<1>13. off + Len(e) <= Len(W2) /\ Len(W2) <= Len(Wire(sc))
  <2> DEFINE a == Len(W)
             b == Len(whole)
             l == Len(e)
             v == Len(W2)
  <2>1. /\ a \in Nat /\ b \in Nat /\ l \in Nat /\ v = a + b /\ off = a + end(k)
        /\ end(k) \in Nat /\ end(k + 1) = end(k) + l /\ end(k + 1) <= b
    BY <1>8, <1>11, <1>12
  <2>2. Len(W2) <= Len(Wire(sc))
    BY <1>10 DEF Begins
  <2> HIDE DEF a, b, l, v
  <2>3. off + l <= v
    BY <2>1
  <2>4. QED
    BY <2>2, <2>3 DEF l, v
<1>14. ASSUME NEW i \in 1..Len(e) PROVE Wire(sc)[off + i] = e[i]
  <2> DEFINE a == Len(W)
             b == Len(whole)
             j == end(k) + i
  <2>1. /\ a \in Nat /\ b \in Nat /\ Len(e) \in Nat /\ off + i = a + j /\ j \in 1..b
        /\ a + j \in 1..Len(W2)
    BY SMTT(20), <1>8, <1>11, <1>12
  <2>2. Wire(sc)[a + j] = W2[a + j]
    BY <1>10, <2>1 DEF Begins
  <2>3. W2[a + j] = whole[j]
    BY <1>12, <2>1
  <2>4. whole[j] = e[i]
    BY <1>8
  <2>5. QED
    BY <2>1, <2>2, <2>3, <2>4
<1>15. ASSUME NEW o \in Names
       PROVE  /\ Acc(sc, n, k + 1, o) \in Text
              /\ o = name => Acc(sc, n, k + 1, o) = Acc(sc, n, k, o) \o piece
              /\ o # name => Acc(sc, n, k + 1, o) = Acc(sc, n, k, o)
              /\ \A m \in (n + 1)..N : Begins(Acc(sc, n, k + 1, o), Heard(sc, m, o))
              /\ k + 1 = P => Acc(sc, n, k + 1, o) = Heard(sc, n + 1, o)
  <2> DEFINE H(m) == Heard(sc, m, o)
             A    == Acc(sc, n, k, o)
             B    == Acc(sc, n, k + 1, o)
  <2>1. /\ \A m \in 0..N : H(m) \in Text
        /\ \A m \in 1..N : H(m) = H(m - 1) \o MeantOf(sc, m, o)
        /\ \A m \in 0..N : \A i \in 0..m : Begins(H(i), H(m))
    BY HeardIs DEF N, Outputs
  <2>2. A = IF k # 0 /\ o = name THEN H(n) \o SubSeq(pay, 1, c(k)) ELSE H(n)
    BY DEF Acc, name, pay, c
  <2>3. B = IF o = name THEN H(n) \o SubSeq(pay, 1, c(k + 1)) ELSE H(n)
    <3>1. k + 1 # 0
      BY <1>1
    <3>2. QED
      BY <3>1 DEF Acc, name, pay, c
  <2> HIDE DEF H, A, B
  <2>4. H(n) \in Text /\ H(n + 1) \in Text /\ H(n + 1) = H(n) \o (IF o = name THEN pay ELSE <<>>)
    BY <1>1, <1>2, <2>1
  <2>5. B \in Text /\ (o = name => B = A \o piece) /\ (o # name => B = A)
        /\ Begins(B, H(n + 1)) /\ (k + 1 = P => B = H(n + 1))
    <3>1. CASE o = name
      <4> DEFINE h == H(n)
                 a == c(k)
                 b == c(k + 1)
      <4>1. h \in Text /\ pay \in Text /\ a \in 0..Len(pay) /\ b \in a..Len(pay)
            /\ b \in 0..Len(pay) /\ b \in b..Len(pay)
        BY <1>2, <1>6, <2>4
      <4> HIDE DEF h, a, b
      <4>2. h \o SubSeq(pay, 1, b) = (h \o SubSeq(pay, 1, a)) \o SubSeq(pay, a + 1, b)
            /\ (a = 0 => h \o SubSeq(pay, 1, a) = h)
            /\ (b = Len(pay) => h \o SubSeq(pay, 1, b) = h \o pay)
        <5>1. Grows(h, pay, a, b)
          BY ONLY <4>1, GrownIs
        <5>2. QED
          BY <5>1 DEF Grows
      <4>3. h \o SubSeq(pay, 1, b) \in Text /\ Begins(h \o SubSeq(pay, 1, b), h \o pay)
        <5>1. Grows(h, pay, b, b)
          BY ONLY <4>1, GrownIs
        <5>2. QED
          BY <5>1 DEF Grows
      <4>4. A = h \o SubSeq(pay, 1, a)
        BY <1>3, <2>2, <3>1, <4>2 DEF h, a
      <4>5. B = h \o SubSeq(pay, 1, b) /\ H(n + 1) = h \o pay
        BY <2>3, <2>4, <3>1 DEF h, b
      <4>6. B = A \o piece
        BY <1>6, <4>2, <4>4, <4>5 DEF a, b
      <4>7. B \in Text /\ Begins(B, H(n + 1))
        BY <4>3, <4>5
      <4>8. k + 1 = P => B = H(n + 1)
        BY <1>3, <4>2, <4>5 DEF b
      <4>9. QED
        BY <3>1, <4>6, <4>7, <4>8
    <3>2. CASE o # name
      <4>1. A = H(n) /\ B = H(n) /\ H(n + 1) = H(n) \o <<>>
        BY <2>2, <2>3, <2>4, <3>2
      <4>2. H(n) \o <<>> = H(n)
        BY <2>4, ConcatEmptySeq DEF Text
      <4>3. Begins(H(n), H(n))
        BY <2>4, LenProperties DEF Begins, Text
      <4>4. QED
        BY <2>4, <3>2, <4>1, <4>2, <4>3
    <3>3. QED
      BY <3>1, <3>2
  <2>6. ASSUME NEW m \in (n + 1)..N PROVE Begins(B, H(m))
    <3>1. m \in 0..N /\ n + 1 \in 0..m
      BY <1>1
    <3>2. Begins(H(n + 1), H(m)) /\ H(m) \in Text
      BY <2>1, <3>1
    <3>3. QED
      BY <2>4, <2>5, <3>2, BeginsMore
  <2>7. QED
    BY <2>5, <2>6 DEF A, B, H
<1>16. \E n2, k2 :
         /\ Spot(sc, n2, k2) /\ Off(sc, n2, k2) = off + Len(e)
         /\ \A o \in Names : Acc(sc, n2, k2, o) = Acc(sc, n, k + 1, o)
  <2>1. off + Len(e) = Len(W) + end(k + 1)
    <3> DEFINE a == Len(W)
               l == Len(e)
    <3>1. a \in Nat /\ l \in Nat /\ off = a + end(k) /\ end(k) \in Nat /\ end(k + 1) = end(k) + l
      BY <1>8, <1>11, <1>12
    <3> HIDE DEF a, l
    <3>2. off + l = a + end(k + 1)
      BY <3>1
    <3>3. QED
      BY <3>2 DEF a, l
  <2>2. CASE k + 1 < P
    <3>1. Spot(sc, n, k + 1)
      BY <1>1, <2>2 DEF Spot, P
    <3>2. Off(sc, n, k + 1) = Len(W) + end(k + 1)
      <4>1. k + 1 # 0
        BY <1>1
      <4>2. QED
        BY <4>1 DEF Off, W, end, name, pay
    <3>3. QED
      BY <2>1, <3>1, <3>2
  <2>3. CASE ~(k + 1 < P)
    <3>1. k + 1 = P
      BY <1>1, <1>3, <2>3
    <3>2. Spot(sc, n + 1, 0)
      <4>1. 0 < Len(PacketsOf(sc, (n + 1) + 1)) \/ n + 1 >= N
        <5>1. SUFFICES ASSUME n + 1 < N PROVE 0 < Len(PacketsOf(sc, (n + 1) + 1))
          BY <1>1
        <5> DEFINE m == (n + 1) + 1
        <5>2. m \in 1..N
          BY <1>1, <5>1
        <5> HIDE DEF m
        <5>3. NameOf(sc, m) \in Text /\ PayOf(sc, m) \in Text /\ Overhead(NameOf(sc, m)) < MaxPacket
          BY <5>2, ScenarioIs
        <5>4. Len(PacketsOf(sc, m)) \in Nat \ {0}
          BY <5>3, PiecesAre DEF PacketsOf
        <5>5. 0 < Len(PacketsOf(sc, m))
          BY <5>4
        <5>6. QED
          BY <5>5 DEF m
      <4>2. 0 \in Nat
        OBVIOUS
      <4>3. QED
        BY <1>1, <4>1, <4>2 DEF Spot
    <3>3. Off(sc, n + 1, 0) = Len(W) + end(k + 1)
      <4>1. Off(sc, n + 1, 0) = Len(W2) + 0
        BY DEF Off, W2
      <4>2. QED
        BY <1>4, <1>12, <3>1, <4>1
    <3>4. \A o \in Names : Acc(sc, n + 1, 0, o) = Acc(sc, n, k + 1, o)
      BY <1>15, <3>1 DEF Acc
    <3>5. QED
      BY <2>1, <3>2, <3>3, <3>4
  <2>4. QED
    BY <2>2, <2>3
<1>17. QED
  BY <1>2, <1>6, <1>8, <1>13, <1>14, <1>15, <1>16 DEF e, name, piece, off, W2, N
-----------------------------------------------------------------------------
(* What the reader finds at a place.                                       *)

LEMMA DecodedIs ==
  ASSUME NEW sc \in Scenarios, ~sc.raw, NEW c \in 0..Len(Wire(sc)),
         NEW a \in c..Len(Wire(sc)), NEW eof \in BOOLEAN
  PROVE  Decoded[sc][c][a][eof] = ReadPacket(SubSeq(Wire(sc), c + 1, a), eof)
<1> DEFINE W == Wire(sc)
           D == [from \in 0..Len(W) |-> [to \in from..Len(W) |-> [e \in BOOLEAN |->
                   ReadPacket(SubSeq(W, from + 1, to), e)]]]
<1>1. Decoded[sc] = D
  BY DEF Decoded
<1> HIDE DEF W
<1>2. D[c][a][eof] = ReadPacket(SubSeq(W, c + 1, a), eof)
  BY DEF W
<1> HIDE DEF D
<1>3. QED
  BY <1>1, <1>2 DEF W

\* What is due there: the packet once the whole of it has come.
DueAt(sc, n, k, a, eof) ==
  IF Off(sc, n, k) + Len(PacketAt(sc, n, k)) <= a
  THEN Packet(NameOf(sc, n + 1), PieceOf(sc, n, k), Len(PacketAt(sc, n, k)))
  ELSE IF ~eof THEN Wait ELSE IF Off(sc, n, k) = a THEN End ELSE Bad

LEMMA ReadIs ==
  ASSUME NEW sc \in Scenarios, ~sc.raw, NEW n, NEW k, Spot(sc, n, k),
         NEW a \in Off(sc, n, k)..Len(Wire(sc)), NEW eof \in BOOLEAN
  PROVE  LET r == ReadPacket(SubSeq(Wire(sc), Off(sc, n, k) + 1, a), eof)
             e == PacketAt(sc, n, k)
         IN /\ n < Len(sc.says) =>
                 \/ /\ r = Packet(NameOf(sc, n + 1), PieceOf(sc, n, k), Len(e))
                    /\ Off(sc, n, k) + Len(e) <= a
                 \/ ~eof /\ r = Wait
                 \/ eof /\ r \in {End, Bad} /\ a < Len(Upon(sc, n + 1))
            /\ n < Len(sc.says) => r = DueAt(sc, n, k, a, eof)
            /\ r.kind = "end" => eof /\ a = Off(sc, n, k)
            /\ n = Len(sc.says) =>
                 /\ r.kind # "packet"
                 /\ sc.spoil = <<>> => r = IF eof THEN End ELSE Wait
<1> DEFINE off  == Off(sc, n, k)
           W    == Wire(sc)
           text == SubSeq(W, off + 1, a)
           r    == ReadPacket(text, eof)
<1>1. off \in 0..Len(W) /\ W \in Text /\ Len(W) \in Nat
  BY SpotIs, WireText
<1>2. off \in Nat /\ a \in Nat /\ off <= a /\ a <= Len(W)
  BY <1>1
<1> HIDE DEF off, W
<1>3. text \in Text /\ Len(text) = a - off /\ \A i \in 1..(a - off) : text[i] = W[off + i]
  <2>1. /\ off + 1 \in Nat \ {0} /\ off + 1 <= a + 1 /\ a + 1 - (off + 1) = a - off
        /\ \A i \in 1..(a - off) : (off + 1) + i - 1 = off + i
    BY <1>2
  <2>2. /\ text \in Text /\ Len(text) = a + 1 - (off + 1)
        /\ \A i \in 1..(a + 1 - (off + 1)) : text[i] = W[(off + 1) + i - 1]
    BY <1>1, <1>2, <2>1, PartsAre
  <2> HIDE DEF text
  <2>3. QED
    BY <2>1, <2>2
<1> HIDE DEF text
<1>4. ASSUME n < Len(sc.says)
      PROVE  /\ \/ /\ r = Packet(NameOf(sc, n + 1), PieceOf(sc, n, k), Len(PacketAt(sc, n, k)))
                   /\ off + Len(PacketAt(sc, n, k)) <= a
                \/ ~eof /\ r = Wait
                \/ eof /\ r \in {End, Bad} /\ a < Len(Upon(sc, n + 1))
             /\ r = DueAt(sc, n, k, a, eof)
  <2> DEFINE e     == PacketAt(sc, n, k)
             name  == NameOf(sc, n + 1)
             piece == PieceOf(sc, n, k)
             up    == Upon(sc, n + 1)
  <2>1. /\ name \in Text /\ piece \in Text /\ NL \notin ToSet(name)
        /\ Overhead(name) + Len(piece) <= MaxPacket
        /\ e \in Text /\ Len(e) \in Nat \ {0} /\ off + Len(e) <= Len(up) /\ Len(up) <= Len(W)
        /\ \A i \in 1..Len(e) : W[off + i] = e[i]
    BY <1>4, NextIs DEF off, W
  <2>2. e = EncodeOne(name, piece)
    BY DEF PacketAt
  <2>3. Len(up) \in Nat
    <3>1. n + 1 \in 0..Len(sc.says)
      BY <1>4, ScenarioIs DEF Spot
    <3>2. QED
      BY <3>1, UponIs
  <2> HIDE DEF e, name, piece, up
  <2>4. Comes(text, e)
    <3> SUFFICES ASSUME NEW j \in 1..Len(text), j <= Len(e) PROVE text[j] = e[j]
      BY DEF Comes
    <3>1. j \in 1..(a - off) /\ j \in 1..Len(e)
      BY <1>2, <1>3, <2>1
    <3>2. QED
      BY <1>3, <2>1, <3>1
  <2>5. /\ Len(text) >= Len(e) => r = Packet(name, piece, Len(e))
        /\ Len(text) < Len(e) => r = IF ~eof THEN Wait ELSE IF text = <<>> THEN End ELSE Bad
    BY <1>3, <2>1, <2>2, <2>4, ReadEncoded
  <2> DEFINE l == Len(e)
             u == Len(up)
  <2>6. l \in Nat /\ u \in Nat /\ Len(text) = a - off /\ off + l <= u
    BY <1>3, <2>1, <2>3
  <2> HIDE DEF r
  <2>7. CASE Len(text) >= l
    <3>1. off + l <= a
      <4> HIDE DEF l, u
      <4>1. QED
        BY <1>2, <2>6, <2>7
    <3>2. r = Packet(name, piece, l)
      BY <2>5, <2>7
    <3>3. DueAt(sc, n, k, a, eof) = Packet(name, piece, l)
      BY <3>1 DEF DueAt, e, name, piece, off
    <3>4. QED
      BY <3>1, <3>2, <3>3 DEF e, name, piece
  <2>8. CASE Len(text) < l
    <3>1. a < u
      <4> HIDE DEF l, u
      <4>1. QED
        BY <1>2, <2>6, <2>8
    <3>2. r = IF ~eof THEN Wait ELSE IF text = <<>> THEN End ELSE Bad
      BY <2>5, <2>8
    <3>3. ~(off + l <= a) /\ (text = <<>> <=> off = a)
      <4>1. text = <<>> <=> Len(text) = 0
        BY <1>3, EmptySeq DEF Text
      <4> HIDE DEF l, u
      <4>2. QED
        BY <1>2, <2>6, <2>8, <4>1
    <3>4. DueAt(sc, n, k, a, eof) = IF ~eof THEN Wait ELSE IF text = <<>> THEN End ELSE Bad
      BY <3>3 DEF DueAt, e, off
    <3>5. QED
      BY <3>1, <3>2, <3>4 DEF up
  <2>9. QED
    <3>1. l \in Nat /\ Len(text) \in Nat
      BY <1>3, <2>6, LenProperties DEF Text
    <3> HIDE DEF l
    <3>2. Len(text) >= l \/ Len(text) < l
      BY <3>1
    <3>3. QED
      BY <2>7, <2>8, <3>2
<1>5. ASSUME n = Len(sc.says)
      PROVE  /\ r.kind # "packet"
             /\ sc.spoil = <<>> => r = IF eof THEN End ELSE Wait
  <2> DEFINE s == sc.spoil
             d == a - off
  <2>1. off = Len(Upon(sc, Len(sc.says)))
    BY <1>5, SpotIs DEF off
  <2>2. s \in Text /\ Len(s) \in Nat /\ Len(W) = off + Len(s) /\ \A i \in 1..Len(s) : W[off + i] = s[i]
    BY <2>1, ScenarioIs, WireText, LenProperties DEF W, Text
  <2>3. d \in 0..Len(s)
    BY <1>2, <2>2
  <2>4. text = SubSeq(s, 1, d)
    <3>1. 1 \in Nat \ {0} /\ d \in Nat /\ d <= Len(s) /\ 1 <= d + 1 /\ d + 1 - 1 = d
          /\ \A i \in 1..d : 1 + i - 1 = i
      BY <2>2, <2>3
    <3> DEFINE q == SubSeq(s, 1, d)
    <3>2. q \in Text /\ Len(q) = d + 1 - 1 /\ \A i \in 1..(d + 1 - 1) : q[i] = s[1 + i - 1]
      BY <2>2, <3>1, PartsAre
    <3> HIDE DEF q, s
    <3>3. Len(text) = d /\ Len(q) = d /\ \A i \in 1..d : i \in 1..Len(s) /\ text[i] = W[off + i] /\ q[i] = s[i]
      BY <1>3, <2>3, <3>1, <3>2
    <3>4. text = q
      BY <1>3, <2>2, <3>2, <3>3, SameText
    <3>5. QED
      BY <3>4 DEF q
  <2>5. r.kind # "packet"
    <3>1. \A i \in 0..Len(sc.spoil), b \in BOOLEAN : ReadPacket(SubSeq(sc.spoil, 1, i), b).kind # "packet"
      BY Conversations
    <3>2. QED
      BY <2>3, <2>4, <3>1
  <2>6. ASSUME sc.spoil = <<>> PROVE r = IF eof THEN End ELSE Wait
    <3>1. d = 0 /\ Len(text) = 0
      BY <1>3, <2>3, <2>6
    <3>2. text = <<>>
      BY <1>3, <3>1, EmptySeq DEF Text
    <3>3. QED
      BY <3>2 DEF ReadPacket
  <2>7. QED
    BY <2>5, <2>6
<1>6. ASSUME r.kind = "end" PROVE eof /\ a = off
  <2>1. text = <<>> /\ eof
    BY <1>6, EndIs
  <2>2. Len(text) = 0
    BY <2>1
  <2>3. QED
    BY <1>2, <1>3, <2>1, <2>2
<1>7. QED
  BY <1>4, <1>5, <1>6 DEF off, W, text, r
-----------------------------------------------------------------------------
(* The invariant.                                                          *)

\* The response has been read up to a place, and no marker was in it.  Then reading
\* has ended there for want of more, or with the packet that comes next.
ReadsOn(n, k) ==
  /\ main = "read" /\ consumed = Off(scenario, n, k)
  /\ \A o \in Names : Upheld(o, shown[o], held[o], Acc(scenario, n, k, o))
Halted(n, k) ==
  /\ main # "read"
  /\ \A o \in Names : shown[o] \o held[o] = Acc(scenario, n, k, o)
  /\ \/ result = "failed" \/ n = Len(scenario.says) \/ NameOf(scenario, n + 1) = CtlName
     \/ Eof /\ arrived < Len(Upon(scenario, n + 1))
Found(n, k) ==
  /\ main # "read" /\ n < Len(scenario.says)
  /\ \E o \in Names :
       /\ o = NameOf(scenario, n + 1)
       /\ Marked(o, shown[o], held[o], Acc(scenario, n, k + 1, o))
       /\ result = (IF Find(Markers(o), Acc(scenario, n, k + 1, o), 1).k <= EndMarkers(o)
                    THEN "ok" ELSE "error")
       /\ \A p \in Names \ {o} : shown[p] \o held[p] = Acc(scenario, n, k, p)
Reading(n, k) ==
  /\ Spot(scenario, n, k)
  /\ \A o \in Names : Nowhere(Markers(o), Acc(scenario, n, k, o), 1)
  /\ ReadsOn(n, k) \/ Halted(n, k) \/ Found(n, k)
FramedReading == ~scenario.raw => \E n, k : Reading(n, k)

\* The same of an unframed response.
Unframed == SubSeq(wire, 1, consumed)
RawReading ==
  scenario.raw =>
    LET said == Unframed IN
    \/ main = "read" /\ Upheld(Merged, shown[Merged], held[Merged], said)
    \/ /\ main # "read" /\ Nowhere(Markers(Merged), said, 1)
       /\ shown[Merged] \o held[Merged] = said
       /\ result \in {"failed", "ok"} \/ (Eof /\ consumed = arrived)
    \/ /\ main # "read" /\ Marked(Merged, shown[Merged], held[Merged], said)
       /\ result = (IF Find(Markers(Merged), said, 1).k <= EndMarkers(Merged)
                    THEN "ok" ELSE "error")

\* The watchdog raises the flag before it shuts the socket down, and it has ended
\* before the exit code is chosen.
Timing ==
  /\ shut => timedOut
  /\ watchdog = "shutdown" => timedOut
  /\ main \in {"sender", "done"} /\ result # "panic" => watchdog \in {"none", "done"}
  /\ exit = 1 => ~timedOut
  /\ main = "done" /\ result = "ok" => exit = 0

\* What an output has been given, t, and what of it is held back, he: nothing after a marker,
\* or of a stream that has ended.  The main thread is at m, reading came to r.
Kept(o, sh, he, t, m, r) ==
  \/ /\ Nowhere(Markers(o), t, 1) /\ sh \o he = t
     /\ Len(he) = IF r = "closed" THEN 0 ELSE Overlap(Markers(o), t)
  \/ m # "read" /\ Marked(o, sh, he, t)
AccountedAt(n, k) ==
  /\ Spot(scenario, n, k) /\ consumed = Off(scenario, n, k)
  /\ \A o \in Names : Kept(o, shown[o], held[o], Acc(scenario, n, k, o), main, result)
Accounted ==
  /\ ~scenario.raw => \E n, k : AccountedAt(n, k)
  /\ scenario.raw => Kept(Merged, shown[Merged], held[Merged], Unframed, main, result)
  /\ result = "closed" => Eof /\ consumed = arrived

CInv ==
  /\ ClientTypeOK /\ wire = Wire(scenario)
  /\ shown \in [Outputs -> Text] /\ held \in [Outputs -> Text]
  /\ Timing /\ FramedReading /\ RawReading /\ Accounted

\* A step of the other threads or of the network: what has been read stays read, and
\* after the end of the stream nothing arrives.
Aside ==
  /\ scenario' = scenario /\ wire' = wire /\ consumed' = consumed
  /\ shown' = shown /\ held' = held /\ result' = result
  /\ main' = "read" <=> main = "read"
  /\ Eof => Eof' /\ arrived' = arrived

LEMMA AsideKeeps ==
  ASSUME FramedReading, RawReading, Accounted, Aside
  PROVE  FramedReading' /\ RawReading' /\ Accounted'
<1>1. FramedReading'
  <2> SUFFICES ASSUME ~scenario'.raw PROVE \E n, k : Reading(n, k)'
    BY DEF FramedReading
  <2>1. ~scenario.raw
    BY DEF Aside
  <2>2. PICK n, k : Reading(n, k)
    BY <2>1 DEF FramedReading
  <2>3. ReadsOn(n, k) => ReadsOn(n, k)'
    BY DEF Aside, ReadsOn
  <2>4. Halted(n, k) => Halted(n, k)'
    BY DEF Aside, Halted
  <2>5. Found(n, k) => Found(n, k)'
    BY DEF Aside, Found
  <2>6. Reading(n, k)'
    BY <2>2, <2>3, <2>4, <2>5 DEF Reading, Aside
  <2>7. QED
    BY <2>6
<1>2. RawReading'
  <2> SUFFICES ASSUME scenario.raw PROVE RawReading'
    BY DEF RawReading, Aside
  <2>1. Unframed' = Unframed
    BY DEF Unframed, Aside
  <2> DEFINE t == Unframed
  <2>2. \/ main = "read" /\ Upheld(Merged, shown[Merged], held[Merged], t)
        \/ /\ main # "read" /\ Nowhere(Markers(Merged), t, 1)
           /\ shown[Merged] \o held[Merged] = t
           /\ result \in {"failed", "ok"} \/ (Eof /\ consumed = arrived)
        \/ /\ main # "read" /\ Marked(Merged, shown[Merged], held[Merged], t)
           /\ result = (IF Find(Markers(Merged), t, 1).k <= EndMarkers(Merged)
                        THEN "ok" ELSE "error")
    BY DEF RawReading
  <2>3. t' = t
    BY <2>1
  <2> HIDE DEF t
  <2>4. \/ main' = "read" /\ Upheld(Merged, shown'[Merged], held'[Merged], t')
        \/ /\ main' # "read" /\ Nowhere(Markers(Merged), t', 1)
           /\ shown'[Merged] \o held'[Merged] = t'
           /\ result' \in {"failed", "ok"} \/ (Eof' /\ consumed' = arrived')
        \/ /\ main' # "read" /\ Marked(Merged, shown'[Merged], held'[Merged], t')
           /\ result' = (IF Find(Markers(Merged), t', 1).k <= EndMarkers(Merged)
                        THEN "ok" ELSE "error")
    <3>1. (main' = "read" <=> main = "read") /\ shown' = shown /\ held' = held
          /\ result' = result /\ consumed' = consumed /\ (Eof => Eof' /\ arrived' = arrived)
      BY DEF Aside
    <3>2. CASE main = "read" /\ Upheld(Merged, shown[Merged], held[Merged], t)
      BY <2>3, <3>1, <3>2
    <3>3. CASE /\ main # "read" /\ Nowhere(Markers(Merged), t, 1)
               /\ shown[Merged] \o held[Merged] = t
               /\ result \in {"failed", "ok"} \/ (Eof /\ consumed = arrived)
      <4>1. result' \in {"failed", "ok"} \/ (Eof' /\ consumed' = arrived')
        BY <3>1, <3>3
      <4>2. QED
        BY <2>3, <3>1, <3>3, <4>1
    <3>4. CASE /\ main # "read" /\ Marked(Merged, shown[Merged], held[Merged], t)
               /\ result = (IF Find(Markers(Merged), t, 1).k <= EndMarkers(Merged)
                            THEN "ok" ELSE "error")
      BY <2>3, <3>1, <3>4
    <3>5. QED
      BY <2>2, <3>2, <3>3, <3>4
  <2>5. QED
    BY <2>4 DEF RawReading, t, Upheld, Marked
<1>3. Accounted'
  <2>1. scenario' = scenario /\ consumed' = consumed /\ shown' = shown /\ held' = held
        /\ result' = result /\ (main' = "read" <=> main = "read") /\ wire' = wire
        /\ (Eof => Eof' /\ arrived' = arrived)
    BY DEF Aside
  <2>2. ASSUME NEW o, NEW sh, NEW he, NEW t, Kept(o, sh, he, t, main, result)
        PROVE  Kept(o, sh, he, t, main', result')
    BY <2>1, <2>2 DEF Kept
  <2>3. ~scenario.raw => \E n, k : AccountedAt(n, k)'
    <3> SUFFICES ASSUME ~scenario.raw PROVE \E n, k : AccountedAt(n, k)'
      OBVIOUS
    <3>1. PICK n, k : AccountedAt(n, k)
      BY DEF Accounted
    <3>2. AccountedAt(n, k)'
      BY <2>1, <2>2, <3>1 DEF AccountedAt
    <3>3. QED
      BY <3>2
  <2>4. scenario.raw => Kept(Merged, shown'[Merged], held'[Merged], Unframed', main', result')
    <3>1. Unframed' = Unframed
      BY <2>1 DEF Unframed
    <3>2. QED
      BY <2>1, <2>2, <3>1 DEF Accounted
  <2>5. result' = "closed" => Eof' /\ consumed' = arrived'
    BY <2>1 DEF Accounted
  <2>6. QED
    BY <2>1, <2>3, <2>4, <2>5 DEF Accounted
<1>4. QED
  BY <1>1, <1>2, <1>3

LEMMA OthersKeep ==
  ASSUME CInv,
         \/ Release \/ JoinWatchdog \/ Exit \/ Write \/ SendEnds \/ Deadline \/ Shutdown
         \/ Arrive \/ ServerCloses
  PROVE  CInv'
<1>1. /\ ClientTypeOK /\ wire = Wire(scenario) /\ shown \in [Outputs -> Text]
      /\ held \in [Outputs -> Text] /\ Timing /\ FramedReading /\ RawReading /\ Accounted
  BY DEF CInv
<1>2. Unset \notin {"ok", "error", "closed", "failed", "panic"} \cup Nat
  BY UnsetIsNoResult
<1>3. scenario.writes \in Nat /\ Len(wire) \in Nat /\ arrived \in Nat /\ consumed \in Nat
      /\ scenario \in Scenarios
  BY <1>1, ScenarioIs, WireText DEF ClientTypeOK
<1>4. CASE Release
  <2>1. Aside
    BY <1>4 DEF Release, Aside, call, network, reading, Eof
  <2>2. ClientTypeOK'
    BY <1>1, <1>2, <1>4 DEF Release, ClientTypeOK, call, network, reading, sending
  <2>3. Timing'
    BY <1>1, <1>4 DEF Release, Timing, ClientTypeOK, call, network, reading, sending
  <2>4. QED
    BY <1>1, <2>1, <2>2, <2>3, AsideKeeps DEF CInv, Aside
<1>5. CASE JoinWatchdog
  <2>1. Aside
    BY <1>5 DEF JoinWatchdog, Aside, call, network, reading, Eof, timing
  <2>2. ClientTypeOK'
    BY <1>1, <1>2, <1>5 DEF JoinWatchdog, ClientTypeOK, call, network, reading, sending, timing
  <2>3. Timing'
    BY <1>1, <1>5 DEF JoinWatchdog, Timing, ClientTypeOK, call, network, reading, sending, timing
  <2>4. QED
    BY <1>1, <2>1, <2>2, <2>3, AsideKeeps DEF CInv, Aside
<1>6. CASE Exit
  <2>1. Aside
    BY <1>6 DEF Exit, Aside, call, network, reading, Eof, timing
  <2>2. exit' \in {0, 1, 124} /\ (exit' = 1 => ~timedOut) /\ (result = "ok" => exit' = 0)
    BY <1>6 DEF Exit
  <2>3. ClientTypeOK'
    BY <1>1, <1>2, <1>6, <2>2 DEF Exit, ClientTypeOK, call, network, reading, sending, timing
  <2>4. Timing'
    BY <1>1, <1>6, <2>2 DEF Exit, Timing, ClientTypeOK, call, network, reading, sending, timing
  <2>5. QED
    BY <1>1, <2>1, <2>3, <2>4, AsideKeeps DEF CInv, Aside
<1>7. CASE Write
  <2>1. Aside
    BY <1>7 DEF Write, Aside, call, network, reading, Eof, timing
  <2>2. ClientTypeOK'
    BY <1>1, <1>3, <1>7 DEF Write, ClientTypeOK, call, network, reading, timing
  <2>3. Timing'
    BY <1>1, <1>7 DEF Write, Timing, call, network, reading, timing
  <2>4. QED
    BY <1>1, <2>1, <2>2, <2>3, AsideKeeps DEF CInv, Aside
<1>8. CASE SendEnds
  <2>1. Aside
    BY <1>8 DEF SendEnds, Aside, call, network, reading, Eof, timing
  <2>2. ClientTypeOK'
    BY <1>1, <1>8 DEF SendEnds, ClientTypeOK, call, network, reading, timing
  <2>3. Timing'
    BY <1>1, <1>8 DEF SendEnds, Timing, call, network, reading, timing
  <2>4. QED
    BY <1>1, <2>1, <2>2, <2>3, AsideKeeps DEF CInv, Aside
<1>9. CASE Deadline
  <2>1. Aside
    BY <1>9 DEF Deadline, Aside, call, network, reading, Eof
  <2>2. ClientTypeOK'
    BY <1>1, <1>9 DEF Deadline, ClientTypeOK, call, network, reading, sending
  <2>3. exit # 1
    BY <1>1, <1>2, <1>9 DEF Deadline, Timing, ClientTypeOK
  <2>4. Timing'
    BY <1>1, <1>9, <2>3 DEF Deadline, Timing, call, network, reading, sending
  <2>5. QED
    BY <1>1, <2>1, <2>2, <2>4, AsideKeeps DEF CInv, Aside
<1>10. CASE Shutdown
  <2>1. Aside
    BY <1>10 DEF Shutdown, Aside, call, network, reading, Eof
  <2>2. ClientTypeOK'
    BY <1>1, <1>10 DEF Shutdown, ClientTypeOK, call, network, reading, sending
  <2>3. Timing'
    BY <1>1, <1>10 DEF Shutdown, Timing, call, network, reading, sending
  <2>4. QED
    BY <1>1, <2>1, <2>2, <2>3, AsideKeeps DEF CInv, Aside
<1>11. CASE Arrive
  <2>1. Aside
    BY <1>1, <1>11 DEF Arrive, Aside, call, reading, timing, Eof, ClientTypeOK
  <2>2. ClientTypeOK'
    BY <1>1, <1>3, <1>11 DEF Arrive, ClientTypeOK, call, reading, sending, timing
  <2>3. Timing'
    BY <1>1, <1>11 DEF Arrive, Timing, call, reading, sending, timing
  <2>4. QED
    BY <1>1, <2>1, <2>2, <2>3, AsideKeeps DEF CInv, Aside
<1>12. CASE ServerCloses
  <2>1. Aside
    BY <1>12 DEF ServerCloses, Aside, call, reading, Eof, timing
  <2>2. ClientTypeOK'
    BY <1>1, <1>12 DEF ServerCloses, ClientTypeOK, call, reading, sending, timing
  <2>3. Timing'
    BY <1>1, <1>12 DEF ServerCloses, Timing, call, reading, sending, timing
  <2>4. QED
    BY <1>1, <2>1, <2>2, <2>3, AsideKeeps DEF CInv, Aside
<1>13. QED
  BY <1>4, <1>5, <1>6, <1>7, <1>8, <1>9, <1>10, <1>11, <1>12
\* The main thread reads on or ends.
LEMMA MainStep ==
  ASSUME ClientTypeOK, Timing, main = "read", consumed' \in 0..arrived,
         call' = call, network' = network, sending' = sending, timing' = timing, exit' = exit,
         \/ main' = main /\ result' = result
         \/ main' = "release" /\ result' \in {"ok", "error", "closed", "failed"}
  PROVE  ClientTypeOK' /\ Timing'
<1>1. scenario' = scenario /\ wire' = wire /\ arrived' = arrived /\ open' = open /\ shut' = shut
      /\ sender' = sender /\ written' = written /\ watchdog' = watchdog /\ timedOut' = timedOut
      /\ exit' = exit
  BY DEF call, network, sending, timing
<1>2. Unset \notin {"ok", "error", "closed", "failed", "panic"}
  BY UnsetIsNoResult
<1>3. ClientTypeOK'
  BY <1>1, <1>2 DEF ClientTypeOK
<1>4. Timing'
  BY <1>1 DEF Timing
<1>5. QED
  BY <1>3, <1>4

LEMMA FeedKeeps ==
  ASSUME shown \in [Outputs -> Text], held \in [Outputs -> Text],
         NEW o \in Outputs, NEW t \in Text, NEW chunk \in Text,
         Upheld(o, shown[o], held[o], t), main = "read", Feed(o, chunk)
  PROVE  /\ shown' \in [Outputs -> Text] /\ held' \in [Outputs -> Text]
         /\ \A p \in Outputs \ {o} : shown'[p] = shown[p] /\ held'[p] = held[p]
         /\ \/ main' = main /\ result' = result /\ Upheld(o, shown'[o], held'[o], t \o chunk)
            \/ /\ main' = "release" /\ Marked(o, shown'[o], held'[o], t \o chunk)
               /\ result' = (IF Find(Markers(o), t \o chunk, 1).k <= EndMarkers(o)
                             THEN "ok" ELSE "error")
<1> DEFINE text == held[o] \o chunk
           r    == Fed(o, text)
           sh2  == shown[o] \o SubSeq(text, 1, r.emit)
           he2  == SubSeq(text, Len(text) - r.hold + 1, Len(text))
<1>1. /\ sh2 \in Text /\ he2 \in Text /\ r.done \in BOOLEAN
      /\ ~r.done => Upheld(o, sh2, he2, t \o chunk)
      /\ r.done => Marked(o, sh2, he2, t \o chunk)
                   /\ r.k = Find(Markers(o), t \o chunk, 1).k
  <2>1. shown[o] \in Text /\ held[o] \in Text
    OBVIOUS
  <2>2. QED
    BY <2>1, FedIs
<1>2. /\ shown' = [shown EXCEPT ![o] = sh2] /\ held' = [held EXCEPT ![o] = he2]
      /\ IF r.done THEN Finish(IF r.k <= EndMarkers(o) THEN "ok" ELSE "error")
         ELSE UNCHANGED <<main, result>>
  BY DEF Feed, Fed
<1> HIDE DEF text, r, sh2, he2
<1>3. shown' \in [Outputs -> Text] /\ held' \in [Outputs -> Text]
  BY <1>1, <1>2
<1>4. shown'[o] = sh2 /\ held'[o] = he2
      /\ \A p \in Outputs \ {o} : shown'[p] = shown[p] /\ held'[p] = held[p]
  BY <1>2
<1>5. CASE r.done
  <2>1. main' = "release" /\ result' = IF r.k <= EndMarkers(o) THEN "ok" ELSE "error"
    BY <1>2, <1>5 DEF Finish
  <2>2. Marked(o, shown'[o], held'[o], t \o chunk) /\ r.k = Find(Markers(o), t \o chunk, 1).k
    BY <1>1, <1>4, <1>5
  <2>3. QED
    BY <1>3, <1>4, <2>1, <2>2
<1>6. CASE ~r.done
  <2>1. main' = main /\ result' = result
    BY <1>2, <1>6
  <2>2. Upheld(o, shown'[o], held'[o], t \o chunk)
    BY <1>1, <1>4, <1>6
  <2>3. QED
    BY <1>3, <1>4, <2>1, <2>2
<1>7. QED
  BY <1>5, <1>6

LEMMA FlushKeeps ==
  ASSUME shown \in [Outputs -> Text], held \in [Outputs -> Text], NEW outputs, FlushAll(outputs)
  PROVE  /\ shown' \in [Outputs -> Text] /\ held' \in [Outputs -> Text]
         /\ \A o \in Outputs : shown'[o] \o held'[o] = shown[o] \o held[o]
         /\ \A o \in Outputs : o \in outputs => held'[o] = <<>>
<1>1. /\ shown' = [o \in Outputs |-> IF o \in outputs THEN shown[o] \o held[o] ELSE shown[o]]
      /\ held' = [o \in Outputs |-> IF o \in outputs THEN <<>> ELSE held[o]]
  BY DEF FlushAll
<1>2. ASSUME NEW o \in Outputs
      PROVE  shown'[o] \in Text /\ held'[o] \in Text /\ shown'[o] \o held'[o] = shown[o] \o held[o]
  <2> DEFINE a == shown[o]
             b == held[o]
  <2>1. a \in Text /\ b \in Text /\ <<>> \in Text
    BY EmptySeq DEF Text
  <2>2. shown'[o] = (IF o \in outputs THEN a \o b ELSE a) /\ held'[o] = IF o \in outputs THEN <<>> ELSE b
    BY <1>1
  <2> HIDE DEF a, b
  <2>3. a \o b \in Text
    BY <2>1, JoinedIs
  <2>4. (a \o b) \o <<>> = a \o b
    BY <2>3, ConcatEmptySeq DEF Text
  <2>5. shown'[o] \in Text /\ held'[o] \in Text /\ shown'[o] \o held'[o] = a \o b
    BY <2>1, <2>2, <2>3, <2>4
  <2>6. QED
    BY <2>5 DEF a, b
<1>3. shown' = [o \in Outputs |-> shown'[o]] /\ held' = [o \in Outputs |-> held'[o]]
  BY <1>1
<1>4. shown' \in [Outputs -> Text] /\ held' \in [Outputs -> Text]
  BY <1>2, <1>3
<1>5. \A o \in Outputs : o \in outputs => held'[o] = <<>>
  BY <1>1
<1>6. QED
  BY <1>2, <1>4, <1>5

\* What Upheld says is enough, as long as the stream has not ended.
LEMMA UpheldIsKept ==
  ASSUME NEW o, NEW sh, NEW he, NEW t, NEW m, NEW r, r # "closed", Upheld(o, sh, he, t)
  PROVE  Kept(o, sh, he, t, m, r)
BY DEF Upheld, Kept

\* A main thread that stops where it is.
LEMMA StopsHere ==
  ASSUME CInv, main = "read", NEW m, m # "read", NEW r, r # "closed",
         scenario' = scenario, wire' = wire, consumed' = consumed, shown' = shown, held' = held,
         main' = m, result' = r
  PROVE  Accounted'
<1>1. Accounted /\ FramedReading /\ RawReading
  BY DEF CInv
<1>2. ASSUME ~scenario.raw PROVE \E n, k : AccountedAt(n, k)'
  <2>1. PICK n, k : Reading(n, k)
    BY <1>1, <1>2 DEF FramedReading
  <2>2. Spot(scenario, n, k) /\ ReadsOn(n, k)
    BY <2>1 DEF Reading, Halted, Found
  <2>3. \A o \in Names : Kept(o, shown[o], held[o], Acc(scenario, n, k, o), m, r)
    BY <2>2, UpheldIsKept DEF ReadsOn
  <2>4. AccountedAt(n, k)'
    BY <2>2, <2>3 DEF AccountedAt, ReadsOn
  <2>5. QED
    BY <2>4
<1>3. ASSUME scenario.raw
      PROVE  Kept(Merged, shown'[Merged], held'[Merged], Unframed', main', result')
  <2>1. Upheld(Merged, shown[Merged], held[Merged], Unframed)
    BY <1>1, <1>3 DEF RawReading
  <2>2. Unframed' = Unframed
    BY DEF Unframed
  <2>3. Kept(Merged, shown[Merged], held[Merged], Unframed, m, r)
    BY <2>1, UpheldIsKept
  <2>4. QED
    BY <2>2, <2>3
<1>4. QED
  BY <1>2, <1>3 DEF Accounted

LEMMA ReadFailsKeeps ==
  ASSUME CInv, ReadFails
  PROVE  CInv'
<1>1. /\ ClientTypeOK /\ wire = Wire(scenario) /\ shown \in [Outputs -> Text]
      /\ held \in [Outputs -> Text] /\ Timing /\ FramedReading /\ RawReading /\ Accounted
  BY DEF CInv
<1>2. /\ main = "read" /\ main' = "release" /\ result' = "failed"
      /\ call' = call /\ network' = network /\ reading' = reading /\ sending' = sending
      /\ timing' = timing /\ exit' = exit
  BY DEF ReadFails, Finish
<1>3. scenario' = scenario /\ wire' = wire /\ consumed' = consumed /\ shown' = shown /\ held' = held
      /\ arrived' = arrived
  BY <1>2 DEF call, reading, network
<1>4. ClientTypeOK' /\ Timing'
  <2>1. consumed' \in 0..arrived
    BY <1>1, <1>3 DEF ClientTypeOK
  <2>2. QED
    BY <1>1, <1>2, <2>1, MainStep
<1>5. FramedReading'
  <2> SUFFICES ASSUME ~scenario'.raw PROVE \E n, k : Reading(n, k)'
    BY DEF FramedReading
  <2>1. PICK n, k : Reading(n, k)
    BY <1>1, <1>3 DEF FramedReading
  <2>2. ReadsOn(n, k)
    BY <1>2, <2>1 DEF Reading, Halted, Found
  <2>3. Halted(n, k)'
    BY <1>2, <1>3, <2>2 DEF Halted, ReadsOn, Upheld
  <2>4. Reading(n, k)'
    BY <1>3, <2>1, <2>3 DEF Reading
  <2>5. QED
    BY <2>4
<1>6. RawReading'
  <2> SUFFICES ASSUME scenario.raw PROVE RawReading'
    BY <1>3 DEF RawReading
  <2> DEFINE t == Unframed
  <2>1. Upheld(Merged, shown[Merged], held[Merged], t)
    BY <1>1, <1>2 DEF RawReading
  <2>2. t' = t
    BY <1>3 DEF Unframed
  <2> HIDE DEF t
  <2>3. main' # "read" /\ Nowhere(Markers(Merged), t', 1) /\ shown'[Merged] \o held'[Merged] = t'
    BY <1>2, <1>3, <2>1, <2>2 DEF Upheld
  <2>4. result' \in {"failed", "ok"} \/ (Eof' /\ consumed' = arrived')
    BY <1>2
  <2>5. QED
    BY <2>3, <2>4 DEF RawReading, t
<1>7. Accounted'
  BY <1>2, <1>3, StopsHere
<1>8. QED
  BY <1>1, <1>3, <1>4, <1>5, <1>6, <1>7 DEF CInv

\* Nothing that was said makes the reader panic: only what follows can.
LEMMA ReadPanicsKeeps ==
  ASSUME CInv, ReadPanics
  PROVE  CInv'
<1> DEFINE sc == scenario
           N  == Len(sc.says)
           p  == Decoded[scenario][consumed][arrived][Eof]
<1>1. /\ ClientTypeOK /\ wire = Wire(scenario) /\ shown \in [Outputs -> Text]
      /\ held \in [Outputs -> Text] /\ Timing /\ FramedReading /\ RawReading /\ Accounted
  BY DEF CInv
<1>2. /\ main = "read" /\ ~sc.raw /\ p.kind = "panic"
      /\ result' = "panic" /\ main' = "done" /\ exit' \in {101, 134}
      /\ call' = call /\ network' = network /\ reading' = reading /\ sending' = sending
      /\ timing' = timing
  BY DEF ReadPanics
<1>3. /\ scenario' = scenario /\ wire' = wire /\ consumed' = consumed /\ shown' = shown
      /\ held' = held /\ arrived' = arrived /\ open' = open /\ shut' = shut
      /\ sender' = sender /\ written' = written /\ watchdog' = watchdog /\ timedOut' = timedOut
  BY <1>2 DEF call, reading, network, sending, timing
<1>4. Unset \notin {"ok", "error", "closed", "failed", "panic"} \cup Nat
  BY UnsetIsNoResult
<1>5. exit' \in {0, 1, 101, 124, 134, Unset} /\ exit' # Unset /\ exit' # 1
  BY <1>2, <1>4
<1>6. ClientTypeOK'
  BY <1>1, <1>2, <1>3, <1>4, <1>5 DEF ClientTypeOK
<1>7. Timing'
  BY <1>1, <1>2, <1>3, <1>5 DEF Timing
<1>8. FramedReading'
  <2>1. PICK n, k : Reading(n, k)
    BY <1>1, <1>2 DEF FramedReading
  <2>2. ReadsOn(n, k) /\ Spot(sc, n, k)
    BY <1>2, <2>1 DEF Reading, Halted, Found
  <2>3. /\ sc \in Scenarios /\ N \in Nat /\ n \in 0..N /\ Eof \in BOOLEAN
        /\ consumed = Off(sc, n, k) /\ consumed \in 0..Len(Wire(sc))
        /\ arrived \in consumed..Len(Wire(sc)) /\ arrived \in Off(sc, n, k)..Len(Wire(sc))
    <3>1. sc \in Scenarios /\ consumed \in 0..arrived /\ arrived \in 0..Len(Wire(sc))
      BY <1>1 DEF ClientTypeOK
    <3>2. N \in Nat /\ n \in 0..N /\ Len(Wire(sc)) \in Nat
      BY <1>2, <2>2, <3>1, SpotIs, ScenarioIs, WireText
    <3>3. consumed = Off(sc, n, k) /\ Eof \in BOOLEAN
      BY <2>2 DEF ReadsOn, Eof
    <3>4. QED
      BY <3>1, <3>2, <3>3
  <2>4. p = ReadPacket(SubSeq(Wire(sc), Off(sc, n, k) + 1, arrived), Eof)
    BY <1>2, <2>3, DecodedIs
  <2>5. n < N => p = DueAt(sc, n, k, arrived, Eof)
    BY <1>2, <2>2, <2>3, <2>4, ReadIs
  <2> HIDE DEF p
  <2>6. n < N => p.kind # "panic"
    BY <2>5 DEF DueAt, Packet, Wait, End, Bad
  <2>7. n = N
    BY <1>2, <2>3, <2>6
  <2>8. Halted(n, k)'
    BY <1>2, <1>3, <2>2, <2>7 DEF Halted, ReadsOn, Upheld
  <2>9. Reading(n, k)'
    BY <1>3, <2>1, <2>8 DEF Reading
  <2>10. QED
    BY <2>9 DEF FramedReading
<1>9. RawReading'
  BY <1>2, <1>3 DEF RawReading
<1>10. Accounted'
  BY <1>2, <1>3, StopsHere
<1>11. QED
  BY <1>1, <1>3, <1>6, <1>7, <1>8, <1>9, <1>10 DEF CInv

\* What reading a framed response does at a place: it reads on at the next one, or ends
\* here, with the packet or without.
LEMMA ReadFramedKeeps ==
  ASSUME CInv, ReadFramed
  PROVE  CInv'
<1> DEFINE p == Decoded[scenario][consumed][arrived][Eof]
           N == Len(scenario.says)
<1>1. /\ ClientTypeOK /\ wire = Wire(scenario) /\ shown \in [Outputs -> Text]
      /\ held \in [Outputs -> Text] /\ Timing /\ FramedReading /\ RawReading /\ Accounted
  BY DEF CInv
<1>2. /\ main = "read" /\ ~scenario.raw
      /\ call' = call /\ network' = network /\ sending' = sending /\ timing' = timing /\ exit' = exit
      /\ \/ /\ p.kind = "packet"
            /\ consumed' = consumed + p.size
            /\ IF p.stream \in Names THEN Feed(p.stream, p.payload)
               ELSE /\ UNCHANGED <<held, shown>>
                    /\ IF p.stream = CtlName /\ IsPrefix(CtlError, p.payload)
                       THEN Finish("error")
                       ELSE UNCHANGED <<main, result>>
         \/ /\ p.kind = "end"
            /\ FlushAll(Names) /\ Finish("closed")
            /\ UNCHANGED consumed
         \/ /\ p.kind \in {"bad", "newer"}
            /\ Finish("error")
            /\ UNCHANGED <<consumed, held, shown>>
  BY DEF ReadFramed
<1>3. scenario' = scenario /\ wire' = wire /\ arrived' = arrived /\ open' = open /\ shut' = shut
      /\ Eof' = Eof
  BY <1>2 DEF call, network, timing, Eof
<1>4. PICK n, k : Reading(n, k)
  BY <1>1, <1>2 DEF FramedReading
<1>5. Spot(scenario, n, k) /\ ReadsOn(n, k)
      /\ \A o \in Names : Nowhere(Markers(o), Acc(scenario, n, k, o), 1)
  BY <1>2, <1>4 DEF Reading, Halted, Found
<1> DEFINE sc    == scenario
           off   == Off(sc, n, k)
           e     == PacketAt(sc, n, k)
           name  == NameOf(sc, n + 1)
           piece == PieceOf(sc, n, k)
           a(o)  == Acc(sc, n, k, o)
           b(o)  == Acc(sc, n, k + 1, o)
<1>6. consumed = off /\ \A o \in Names : Upheld(o, shown[o], held[o], a(o))
  BY <1>5 DEF ReadsOn
<1>7. /\ scenario \in Scenarios /\ consumed \in 0..arrived /\ arrived \in 0..Len(Wire(sc))
      /\ Eof \in BOOLEAN /\ n \in 0..N /\ N \in Nat
      /\ \A o \in Names : a(o) \in Text
  <2>1. scenario \in Scenarios /\ consumed \in 0..arrived /\ arrived \in 0..Len(Wire(sc))
    BY <1>1 DEF ClientTypeOK
  <2>2. Eof \in BOOLEAN
    BY DEF Eof
  <2>3. n \in 0..N /\ N \in Nat /\ \A o \in Names : a(o) \in Text
    BY <1>2, <1>5, <2>1, SpotIs, ScenarioIs DEF Outputs
  <2>4. QED
    BY <2>1, <2>2, <2>3
<1>8. p = ReadPacket(SubSeq(Wire(sc), off + 1, arrived), Eof)
  <2>1. consumed \in 0..Len(Wire(sc)) /\ arrived \in consumed..Len(Wire(sc))
    BY <1>7, WireText
  <2>2. p = ReadPacket(SubSeq(Wire(sc), consumed + 1, arrived), Eof)
    BY <1>2, <1>7, <2>1, DecodedIs
  <2>3. QED
    BY <1>6, <2>2
<1>9. /\ n < N => \/ p = Packet(name, piece, Len(e)) /\ off + Len(e) <= arrived
                  \/ ~Eof /\ p = Wait
                  \/ Eof /\ p \in {End, Bad} /\ arrived < Len(Upon(sc, n + 1))
      /\ n = N => p.kind # "packet"
      /\ p.kind = "end" => Eof /\ arrived = off
  <2>1. arrived \in off..Len(Wire(sc))
    BY <1>6, <1>7, WireText
  <2>2. QED
    BY <1>2, <1>5, <1>7, <1>8, <2>1, ReadIs
<1>10. \A o \in Names : o \in Outputs
  BY DEF Outputs
<1>11. RawReading'
  BY <1>2, <1>3 DEF RawReading
<1> DEFINE Good == ClientTypeOK' /\ Timing' /\ FramedReading' /\ Accounted'
                   /\ shown' \in [Outputs -> Text] /\ held' \in [Outputs -> Text]
<1>a. Unset # "closed"
  BY UnsetIsNoResult
<1>b. result # "closed"
  BY <1>1, <1>2, <1>a DEF ClientTypeOK
<1>c. ASSUME NEW i, NEW j, AccountedAt(i, j)',
             result' = "closed" => Eof' /\ consumed' = arrived'
      PROVE  Accounted'
  BY <1>2, <1>3, <1>c DEF Accounted
<1> HIDE DEF p
<1>12. ASSUME p.kind = "packet" PROVE Good
  <2>1. n < N /\ p = Packet(name, piece, Len(e)) /\ off + Len(e) <= arrived
    <3>1. Wait.kind = "wait" /\ End.kind = "end" /\ Bad.kind = "bad"
      BY DEF Wait, End, Bad
    <3>2. n < N
      BY <1>7, <1>9, <1>12
    <3>3. QED
      BY <1>9, <1>12, <3>1, <3>2
  <2>2. p.stream = name /\ p.payload = piece /\ p.size = Len(e)
    BY <2>1 DEF Packet
  <2>3. /\ piece \in Text /\ Len(e) \in Nat \ {0}
        /\ \A o \in Names :
             /\ b(o) \in Text /\ (o = name => b(o) = a(o) \o piece) /\ (o # name => b(o) = a(o))
    BY <1>2, <1>5, <1>7, <2>1, NextIs
  <2>4. PICK n2, k2 : /\ Spot(sc, n2, k2) /\ Off(sc, n2, k2) = off + Len(e)
                      /\ \A o \in Names : Acc(sc, n2, k2, o) = b(o)
    BY <1>2, <1>5, <1>7, <2>1, NextIs
  <2> HIDE DEF a, b, e, name, piece, off
  <2>5. consumed' = off + Len(e) /\ consumed' \in 0..arrived
    <3>1. consumed' = consumed + p.size
      BY <1>2, <1>12
    <3> DEFINE l == Len(e)
    <3>2. l \in Nat /\ consumed' = off + l /\ off + l <= arrived /\ off \in Nat /\ arrived \in Nat
      BY <1>6, <1>7, <2>1, <2>2, <2>3, <3>1, WireText
    <3> HIDE DEF l
    <3>3. consumed' \in 0..arrived
      BY <3>2
    <3>4. QED
      BY <3>2, <3>3 DEF l
  <2>6. CASE name \in Names
    <3>1. Feed(name, piece)
      BY <1>2, <1>12, <2>2, <2>6
    <3>2. name \in Outputs /\ a(name) \in Text /\ Upheld(name, shown[name], held[name], a(name))
      BY <1>6, <1>7, <1>10, <2>6
    <3>3. /\ shown' \in [Outputs -> Text] /\ held' \in [Outputs -> Text]
          /\ \A o \in Outputs \ {name} : shown'[o] = shown[o] /\ held'[o] = held[o]
          /\ \/ main' = main /\ result' = result /\ Upheld(name, shown'[name], held'[name], a(name) \o piece)
             \/ /\ main' = "release" /\ Marked(name, shown'[name], held'[name], a(name) \o piece)
                /\ result' = (IF Find(Markers(name), a(name) \o piece, 1).k <= EndMarkers(name)
                              THEN "ok" ELSE "error")
      BY <1>1, <1>2, <2>3, <3>1, <3>2, FeedKeeps
    <3>4. b(name) = a(name) \o piece /\ \A o \in Names \ {name} : b(o) = a(o)
      BY <2>3, <2>6
    <3>5. ClientTypeOK' /\ Timing'
      BY <1>1, <1>2, <2>5, <3>3, MainStep
    <3>6. CASE main' = main /\ result' = result /\ Upheld(name, shown'[name], held'[name], a(name) \o piece)
      <4>1. \A o \in Names : Upheld(o, shown'[o], held'[o], b(o))
        BY <1>6, <1>10, <3>3, <3>4, <3>6
      <4>2. \A o \in Names : Nowhere(Markers(o), b(o), 1)
        BY <4>1 DEF Upheld
      <4>3. Reading(n2, k2)'
        BY <1>2, <1>3, <2>4, <2>5, <3>6, <4>1, <4>2 DEF Reading, ReadsOn
      <4>4. FramedReading'
        BY <4>3 DEF FramedReading
      <4>5. \A o \in Names : Kept(o, shown'[o], held'[o], b(o), main', result')
        BY <1>b, <3>6, <4>1, UpheldIsKept
      <4>6. AccountedAt(n2, k2)'
        BY <1>3, <2>4, <2>5, <4>5 DEF AccountedAt
      <4>7. Accounted'
        BY <1>b, <1>c, <3>6, <4>6
      <4>8. QED
        BY <3>3, <3>5, <4>4, <4>7
    <3>7. CASE /\ main' = "release" /\ Marked(name, shown'[name], held'[name], a(name) \o piece)
               /\ result' = (IF Find(Markers(name), a(name) \o piece, 1).k <= EndMarkers(name)
                             THEN "ok" ELSE "error")
      <4>1. \A o \in Names \ {name} : shown'[o] \o held'[o] = a(o)
        BY <1>6, <1>10, <3>3 DEF Upheld
      <4>2. /\ Marked(name, shown'[name], held'[name], b(name))
            /\ result' = (IF Find(Markers(name), b(name), 1).k <= EndMarkers(name) THEN "ok" ELSE "error")
        BY <3>4, <3>7
      <4>3. Found(n, k)'
        BY <1>3, <2>1, <2>6, <3>7, <4>1, <4>2 DEF Found, a, b, name
      <4>4. Reading(n, k)'
        BY <1>3, <1>5, <4>3 DEF Reading
      <4>5. FramedReading'
        BY <4>4 DEF FramedReading
      <4>6. result' # "closed" /\ main' # "read"
        BY <3>7
      <4>7. ASSUME NEW o \in Names PROVE Kept(o, shown'[o], held'[o], b(o), main', result')
        <5>1. CASE o = name
          BY <4>2, <4>6, <5>1 DEF Kept
        <5>2. CASE o # name
          <6>1. Upheld(o, shown'[o], held'[o], b(o))
            BY <1>6, <1>10, <3>3, <3>4, <5>2
          <6>2. QED
            BY <4>6, <6>1, UpheldIsKept
        <5>3. QED
          BY <5>1, <5>2
      <4>8. AccountedAt(n2, k2)'
        BY <1>3, <2>4, <2>5, <4>7 DEF AccountedAt
      <4>9. Accounted'
        BY <1>c, <4>6, <4>8
      <4>10. QED
        BY <3>3, <3>5, <4>5, <4>9
    <3>8. QED
      BY <3>3, <3>6, <3>7
  <2>7. CASE name \notin Names
    <3>1. /\ held' = held /\ shown' = shown
          /\ IF name = CtlName /\ IsPrefix(CtlError, piece) THEN Finish("error")
             ELSE UNCHANGED <<main, result>>
      BY <1>2, <1>12, <2>2, <2>7
    <3>2. \/ main' = main /\ result' = result
          \/ name = CtlName /\ main' = "release" /\ result' = "error"
      BY <3>1 DEF Finish
    <3>3. ClientTypeOK' /\ Timing'
      BY <1>1, <1>2, <2>5, <3>2, MainStep
    <3>4. \A o \in Names : b(o) = a(o)
      BY <2>3, <2>7
    <3>5. CASE main' = main /\ result' = result
      <4>1. \A o \in Names : Upheld(o, shown'[o], held'[o], b(o))
        BY <1>6, <3>1, <3>4
      <4>2. \A o \in Names : Nowhere(Markers(o), b(o), 1)
        BY <4>1 DEF Upheld
      <4>3. Reading(n2, k2)'
        BY <1>2, <1>3, <2>4, <2>5, <3>5, <4>1, <4>2 DEF Reading, ReadsOn
      <4>4. FramedReading'
        BY <4>3 DEF FramedReading
      <4>5. \A o \in Names : Kept(o, shown'[o], held'[o], b(o), main', result')
        BY <1>b, <3>5, <4>1, UpheldIsKept
      <4>6. AccountedAt(n2, k2)'
        BY <1>3, <2>4, <2>5, <4>5 DEF AccountedAt
      <4>7. Accounted'
        BY <1>b, <1>c, <3>5, <4>6
      <4>8. QED
        BY <1>1, <3>1, <3>3, <4>4, <4>7
    <3>6. CASE name = CtlName /\ main' = "release" /\ result' = "error"
      <4>1. \A o \in Names : shown'[o] \o held'[o] = a(o)
        BY <1>6, <3>1 DEF Upheld
      <4>2. Halted(n, k)'
        BY <1>3, <3>6, <4>1 DEF Halted, a, name
      <4>3. Reading(n, k)'
        BY <1>3, <1>5, <4>2 DEF Reading
      <4>4. FramedReading'
        BY <4>3 DEF FramedReading
      <4>5. \A o \in Names : Kept(o, shown'[o], held'[o], b(o), main', result')
        <5>1. \A o \in Names : Upheld(o, shown'[o], held'[o], b(o))
          BY <1>6, <3>1, <3>4
        <5>2. QED
          BY <3>6, <5>1, UpheldIsKept
      <4>6. AccountedAt(n2, k2)'
        BY <1>3, <2>4, <2>5, <4>5 DEF AccountedAt
      <4>7. Accounted'
        BY <1>c, <3>6, <4>6
      <4>8. QED
        BY <1>1, <3>1, <3>3, <4>4, <4>7
    <3>7. QED
      BY <3>2, <3>5, <3>6
  <2>8. QED
    BY <2>6, <2>7
<1>13. ASSUME p.kind # "packet" PROVE Good
  <2>1. /\ main' = "release" /\ result' \in {"error", "closed"} /\ consumed' = consumed
        /\ p.kind # "wait"
        /\ \/ FlushAll(Names) /\ p.kind = "end" /\ result' = "closed"
           \/ held' = held /\ shown' = shown /\ result' = "error"
    BY <1>2, <1>13 DEF Finish
  <2>2. /\ shown' \in [Outputs -> Text] /\ held' \in [Outputs -> Text]
        /\ \A o \in Outputs : shown'[o] \o held'[o] = shown[o] \o held[o]
    BY <1>1, <2>1, FlushKeeps
  <2>3. ClientTypeOK' /\ Timing'
    BY <1>1, <1>2, <1>7, <2>1, MainStep
  <2>4. n = N \/ (Eof /\ arrived < Len(Upon(sc, n + 1)))
    <3>1. SUFFICES ASSUME n < N PROVE Eof /\ arrived < Len(Upon(sc, n + 1))
      BY <1>7
    <3>2. Wait.kind = "wait" /\ Packet(name, piece, Len(e)).kind = "packet"
      BY DEF Wait, Packet
    <3>3. QED
      BY <1>9, <1>13, <2>1, <3>1, <3>2
  <2>5. \A o \in Names : shown'[o] \o held'[o] = a(o)
    BY <1>6, <1>10, <2>2 DEF Upheld
  <2>6. Halted(n, k)'
    BY <1>3, <2>1, <2>4, <2>5 DEF Halted
  <2>7. Reading(n, k)'
    BY <1>3, <1>5, <2>6 DEF Reading
  <2>8. FramedReading'
    BY <2>7 DEF FramedReading
  <2>9. ASSUME NEW o \in Names PROVE Kept(o, shown'[o], held'[o], a(o), main', result')
    <3>1. Upheld(o, shown[o], held[o], a(o)) /\ o \in Outputs
      BY <1>6, <1>10
    <3>2. CASE held' = held /\ shown' = shown /\ result' = "error"
      BY <3>1, <3>2, UpheldIsKept
    <3>3. CASE FlushAll(Names) /\ result' = "closed"
      <4>1. held'[o] = <<>>
        BY <1>1, <3>1, <3>3, FlushKeeps
      <4>2. Len(held'[o]) = 0
        BY <4>1
      <4>3. Nowhere(Markers(o), a(o), 1)
        BY <3>1 DEF Upheld
      <4>4. QED
        BY <2>5, <3>3, <4>2, <4>3 DEF Kept
    <3>4. QED
      BY <2>1, <3>2, <3>3
  <2>10. AccountedAt(n, k)'
    BY <1>3, <1>5, <1>6, <2>1, <2>9 DEF AccountedAt
  <2>11. result' = "closed" => Eof' /\ consumed' = arrived'
    <3>1. result' = "closed" => p.kind = "end"
      BY <2>1
    <3>2. QED
      BY <1>3, <1>6, <1>9, <2>1, <3>1
  <2>12. Accounted'
    BY <1>c, <2>10, <2>11
  <2>13. QED
    BY <2>2, <2>3, <2>8, <2>12
<1>14. Good
  BY <1>12, <1>13
<1>15. QED
  BY <1>1, <1>3, <1>11, <1>14 DEF CInv
\* What reading an unframed response does.
LEMMA ReadRawKeeps ==
  ASSUME CInv, ReadRaw
  PROVE  CInv'
<1> DEFINE t == Unframed
<1>1. /\ ClientTypeOK /\ wire = Wire(scenario) /\ shown \in [Outputs -> Text]
      /\ held \in [Outputs -> Text] /\ Timing /\ RawReading
  BY DEF CInv
<1>2. /\ main = "read" /\ scenario.raw
      /\ call' = call /\ network' = network /\ sending' = sending /\ timing' = timing /\ exit' = exit
      /\ \/ \E n \in 1..Len(Fresh) :
              Feed(Merged, SubSeq(Fresh, 1, n)) /\ consumed' = consumed + n
         \/ /\ Fresh = <<>> /\ Eof
            /\ FlushAll({Merged})
            /\ Finish(IF Markers(Merged) = <<>> THEN "ok" ELSE "closed")
            /\ UNCHANGED consumed
  BY DEF ReadRaw
<1>3. scenario' = scenario /\ wire' = wire /\ arrived' = arrived /\ Eof' = Eof
  BY <1>2 DEF call, network, timing, Eof
<1>4. /\ consumed \in Nat /\ arrived \in Nat /\ consumed <= arrived /\ arrived <= Len(wire)
      /\ wire \in Text /\ Len(wire) \in Nat
  <2>1. scenario \in Scenarios /\ consumed \in 0..arrived /\ arrived \in 0..Len(wire)
    BY <1>1 DEF ClientTypeOK
  <2>2. wire \in Text /\ Len(wire) \in Nat
    BY <1>1, <2>1, WireText
  <2>3. QED
    BY <2>1, <2>2
<1>5. Upheld(Merged, shown[Merged], held[Merged], t)
  BY <1>1, <1>2 DEF RawReading
<1>6. FramedReading'
  BY <1>2, <1>3 DEF FramedReading
<1>7. Merged \in Outputs
  BY DEF Outputs
<1>a. Unset # "closed"
  BY UnsetIsNoResult
<1>b. result # "closed"
  BY <1>1, <1>2, <1>a DEF ClientTypeOK
<1> DEFINE Good == ClientTypeOK' /\ Timing' /\ RawReading' /\ Accounted'
                   /\ shown' \in [Outputs -> Text] /\ held' \in [Outputs -> Text]
<1>8. t \in Text /\ Len(t) = consumed /\ \A i \in 1..consumed : t[i] = wire[i]
  <2>1. 1 \in Nat \ {0} /\ consumed <= Len(wire) /\ 1 <= consumed + 1 /\ consumed + 1 - 1 = consumed
        /\ \A i \in 1..consumed : 1 + i - 1 = i
    BY <1>4
  <2>2. /\ t \in Text /\ Len(t) = consumed + 1 - 1
        /\ \A i \in 1..(consumed + 1 - 1) : t[i] = wire[1 + i - 1]
    BY <1>4, <2>1, PartsAre DEF Unframed
  <2> HIDE DEF t
  <2>3. QED
    BY <2>1, <2>2
<1>9. Fresh \in Text /\ Len(Fresh) = arrived - consumed
      /\ \A i \in 1..(arrived - consumed) : Fresh[i] = wire[consumed + i]
  <2>1. /\ consumed + 1 \in Nat \ {0} /\ consumed + 1 <= arrived + 1
        /\ arrived + 1 - (consumed + 1) = arrived - consumed
        /\ \A i \in 1..(arrived - consumed) : (consumed + 1) + i - 1 = consumed + i
    BY <1>4
  <2> DEFINE x == SubSeq(wire, consumed + 1, arrived)
  <2>2. /\ x \in Text /\ Len(x) = arrived + 1 - (consumed + 1)
        /\ \A i \in 1..(arrived + 1 - (consumed + 1)) : x[i] = wire[(consumed + 1) + i - 1]
    BY <1>4, <2>1, PartsAre
  <2>3. Fresh = x
    BY DEF Fresh
  <2> HIDE DEF x
  <2>4. QED
    BY <2>1, <2>2, <2>3
<1>10. ASSUME NEW n \in 1..Len(Fresh), Feed(Merged, SubSeq(Fresh, 1, n)), consumed' = consumed + n
       PROVE  Good
  <2> DEFINE chunk == SubSeq(Fresh, 1, n)
  <2>1. n \in Nat /\ n <= arrived - consumed /\ consumed + n <= arrived /\ consumed + n <= Len(wire)
        /\ n <= Len(Fresh)
    BY <1>4, <1>9, <1>10
  <2>2. chunk \in Text /\ Len(chunk) = n /\ \A i \in 1..n : chunk[i] = wire[consumed + i]
    <3>1. 1 \in Nat \ {0} /\ 1 <= n + 1 /\ n + 1 - 1 = n /\ \A i \in 1..n : 1 + i - 1 = i
      BY <2>1
    <3>2. /\ chunk \in Text /\ Len(chunk) = n + 1 - 1
          /\ \A i \in 1..(n + 1 - 1) : chunk[i] = Fresh[1 + i - 1]
      BY <1>9, <2>1, <3>1, PartsAre
    <3> HIDE DEF chunk
    <3>3. \A i \in 1..n : i \in 1..(arrived - consumed)
      BY <1>4, <2>1
    <3>4. QED
      BY <1>9, <3>1, <3>2, <3>3
  <2> DEFINE u == SubSeq(wire, 1, consumed + n)
  <2>3. u \in Text /\ Len(u) = consumed + n /\ \A i \in 1..(consumed + n) : u[i] = wire[i]
    <3>1. /\ 1 \in Nat \ {0} /\ consumed + n \in Nat /\ 1 <= (consumed + n) + 1
          /\ (consumed + n) + 1 - 1 = consumed + n
          /\ \A i \in 1..(consumed + n) : 1 + i - 1 = i
      BY <1>4, <2>1
    <3>2. /\ u \in Text /\ Len(u) = (consumed + n) + 1 - 1
          /\ \A i \in 1..((consumed + n) + 1 - 1) : u[i] = wire[1 + i - 1]
      BY <1>4, <2>1, <3>1, PartsAre
    <3> HIDE DEF u
    <3>3. QED
      BY <3>1, <3>2
  <2>4. t' = u
    BY <1>3, <1>10 DEF Unframed
  <2> HIDE DEF t, u, chunk
  <2>5. u = t \o chunk
    <3> DEFINE w == t \o chunk
    <3>1. w \in Text /\ Len(w) = consumed + n /\ (\A i \in 1..consumed : w[i] = t[i])
          /\ \A i \in 1..n : w[consumed + i] = chunk[i]
      <4>1. w \in Text /\ Len(w) = Len(t) + Len(chunk) /\ (\A i \in 1..Len(t) : w[i] = t[i])
            /\ \A i \in 1..Len(chunk) : w[Len(t) + i] = chunk[i]
        BY <1>8, <2>2, JoinedIs
      <4> HIDE DEF w
      <4>2. QED
        BY <1>8, <2>2, <4>1
    <3> HIDE DEF w
    <3>2. ASSUME NEW i \in 1..(consumed + n) PROVE u[i] = w[i]
      <4>1. CASE i <= consumed
        BY <1>4, <1>8, <2>3, <3>1, <4>1
      <4>2. CASE i > consumed
        <5> DEFINE j == i - consumed
        <5>1. j \in 1..n /\ i = consumed + j
          BY <1>4, <2>1, <4>2
        <5> HIDE DEF j
        <5>2. u[i] = wire[i] /\ w[consumed + j] = chunk[j] /\ chunk[j] = wire[consumed + j]
          BY <2>2, <2>3, <3>1, <5>1
        <5>3. QED
          BY <5>1, <5>2
      <4>3. QED
        BY <1>4, <2>1, <4>1, <4>2
    <3>3. u = w
      BY <2>3, <3>1, <3>2, SameText
    <3>4. QED
      BY <3>3 DEF w
  <2>6. Feed(Merged, chunk)
    BY <1>10 DEF chunk
  <2>7. /\ shown' \in [Outputs -> Text] /\ held' \in [Outputs -> Text]
        /\ \/ main' = main /\ result' = result /\ Upheld(Merged, shown'[Merged], held'[Merged], t \o chunk)
           \/ /\ main' = "release" /\ Marked(Merged, shown'[Merged], held'[Merged], t \o chunk)
              /\ result' = (IF Find(Markers(Merged), t \o chunk, 1).k <= EndMarkers(Merged)
                            THEN "ok" ELSE "error")
    BY <1>1, <1>2, <1>5, <1>7, <1>8, <2>2, <2>6, FeedKeeps
  <2>8. t' = t \o chunk
    BY <2>4, <2>5
  <2>9. consumed' \in 0..arrived
    BY <1>4, <1>10, <2>1
  <2>10. ClientTypeOK' /\ Timing'
    BY <1>1, <1>2, <2>7, <2>9, MainStep
  <2>11. \/ main' = "read" /\ Upheld(Merged, shown'[Merged], held'[Merged], t')
         \/ /\ main' # "read" /\ Marked(Merged, shown'[Merged], held'[Merged], t')
            /\ result' = (IF Find(Markers(Merged), t', 1).k <= EndMarkers(Merged)
                          THEN "ok" ELSE "error")
    BY <1>2, <2>7, <2>8
  <2>12. RawReading'
    BY <2>11 DEF RawReading, t, Upheld, Marked
  <2>13. Kept(Merged, shown'[Merged], held'[Merged], t', main', result') /\ result' # "closed"
    <3>1. result' # "closed"
      BY <1>b, <2>7
    <3>2. CASE Upheld(Merged, shown'[Merged], held'[Merged], t')
      BY <3>1, <3>2, UpheldIsKept
    <3>3. CASE main' # "read" /\ Marked(Merged, shown'[Merged], held'[Merged], t')
      BY <3>1, <3>3 DEF Kept
    <3>4. QED
      BY <2>11, <3>1, <3>2, <3>3
  <2>14. Accounted'
    BY <1>2, <1>3, <2>13 DEF Accounted, t
  <2>15. QED
    BY <2>7, <2>10, <2>12, <2>14
<1>11. ASSUME Fresh = <<>>, Eof, FlushAll({Merged}), consumed' = consumed,
              Finish(IF Markers(Merged) = <<>> THEN "ok" ELSE "closed")
       PROVE  Good
  <2>1. /\ shown' \in [Outputs -> Text] /\ held' \in [Outputs -> Text]
        /\ \A o \in Outputs : shown'[o] \o held'[o] = shown[o] \o held[o]
        /\ held'[Merged] = <<>>
    BY <1>1, <1>7, <1>11, FlushKeeps
  <2>2. /\ main' = "release"
        /\ \/ result' = "closed"
           \/ result' = "ok" /\ Markers(Merged) = <<>>
    BY <1>11 DEF Finish
  <2>3. consumed' \in 0..arrived /\ consumed = arrived
    <3>1. Len(Fresh) = 0
      BY <1>11
    <3>2. QED
      BY <1>4, <1>9, <1>11, <3>1
  <2>4. ClientTypeOK' /\ Timing'
    BY <1>1, <1>2, <2>2, <2>3, MainStep
  <2>5. t' = t
    BY <1>3, <1>11 DEF Unframed
  <2> HIDE DEF t
  <2>6. shown'[Merged] \o held'[Merged] = t' /\ Nowhere(Markers(Merged), t', 1)
    BY <1>5, <1>7, <2>1, <2>5 DEF Upheld
  <2>7. main' # "read" /\ Eof' /\ consumed' = arrived'
    BY <1>3, <1>11, <2>2, <2>3
  <2>8. RawReading'
    BY <2>6, <2>7 DEF RawReading, t
  <2>9. Kept(Merged, shown'[Merged], held'[Merged], t', main', result')
    <3>1. Len(held'[Merged]) = 0
      BY <2>1
    <3>2. Markers(Merged) = <<>> => Overlap(Markers(Merged), t') = 0
      BY <1>7, <1>8, <2>5, MarkersOf
    <3>3. Len(held'[Merged]) = IF result' = "closed" THEN 0 ELSE Overlap(Markers(Merged), t')
      BY <2>2, <3>1, <3>2
    <3>4. QED
      BY <2>6, <3>3 DEF Kept
  <2>10. Accounted'
    BY <1>2, <1>3, <2>7, <2>9 DEF Accounted, t
  <2>11. QED
    BY <2>1, <2>4, <2>8, <2>10
<1>12. Good
  BY <1>2, <1>10, <1>11
<1>13. QED
  BY <1>1, <1>3, <1>6, <1>12 DEF CInv
\* A client at its start, or one that has ended before it read anything.
LEMMA ClientStarts ==
  ASSUME ClientInit \/ ClientOver
  PROVE  CInv
<1>1. /\ scenario \in Scenarios /\ wire = Wire(scenario) /\ arrived = 0 /\ consumed = 0
      /\ held = [o \in Outputs |-> <<>>] /\ shown = [o \in Outputs |-> <<>>]
      /\ written = 0 /\ timedOut = FALSE /\ shut = FALSE /\ open \in BOOLEAN
      /\ sender \in {"write", "done"} /\ watchdog \in {"none", "wait"}
      /\ \/ main = "read" /\ result = Unset /\ exit = Unset
         \/ main = "done" /\ result = "failed" /\ exit = 1 /\ watchdog = "none"
  BY DEF ClientInit, ClientOver
<1>2. Unset \notin {"ok", "error", "closed", "failed", "panic"} \cup Nat
  BY UnsetIsNoResult
<1>3. wire \in Text /\ Len(wire) \in Nat /\ scenario.writes \in Nat
  BY <1>1, ScenarioIs, WireText
<1>4. ClientTypeOK
  <2>1. consumed \in 0..arrived /\ arrived \in 0..Len(wire) /\ written \in 0..scenario.writes
    BY <1>1, <1>3
  <2>2. {open, shut, timedOut} \subseteq BOOLEAN
    BY <1>1
  <2>3. /\ main \in {"read", "release", "watchdog", "sender", "done"}
        /\ result \in {"ok", "error", "closed", "failed", "panic", Unset} /\ exit \in {0, 1, 101, 124, 134, Unset}
        /\ (result = Unset <=> main = "read") /\ (exit = Unset <=> main # "done")
    BY <1>1, <1>2
  <2>4. sender \in {"write", "done"} /\ watchdog \in {"none", "wait", "shutdown", "done"}
    BY <1>1
  <2>5. QED
    BY <1>1, <2>1, <2>2, <2>3, <2>4 DEF ClientTypeOK
<1>5. Timing
  BY <1>1, <1>2 DEF Timing
<1>6. <<>> \in Text /\ Len(<<>>) = 0
  BY EmptySeq DEF Text
<1>7. shown \in [Outputs -> Text] /\ held \in [Outputs -> Text]
      /\ \A o \in Outputs : shown[o] = <<>> /\ held[o] = <<>>
  BY <1>1, <1>6
<1>8. ASSUME NEW o \in Outputs PROVE Upheld(o, shown[o], held[o], <<>>)
  <2> DEFINE e == <<>>
  <2>1. e \in Seq(STRING) /\ Len(e) + 1 = 1 /\ e \o e = e
    BY <1>6, ConcatEmptySeq DEF Text
  <2>2. Len(e) = 0 /\ Overlap(Markers(o), e) \in 0..Len(e)
    BY <1>6, <2>1, MarkersOf, OverlapIs
  <2>3. Nowhere(Markers(o), e, Len(e) + 1)
    BY <2>1, MarkersOf, NothingAfter
  <2> HIDE DEF e
  <2>4. Overlap(Markers(o), e) = 0 /\ Nowhere(Markers(o), e, 1)
    BY <2>1, <2>2, <2>3
  <2>5. shown[o] = e /\ held[o] = e
    BY <1>7 DEF e
  <2>6. Upheld(o, shown[o], held[o], e)
    BY <2>1, <2>2, <2>4, <2>5 DEF Upheld
  <2>7. QED
    BY <2>6 DEF e
<1>9. /\ FramedReading /\ Spot(scenario, 0, 0) /\ consumed = Off(scenario, 0, 0)
      /\ \A o \in Names : Upheld(o, shown[o], held[o], Acc(scenario, 0, 0, o))
  <2> DEFINE sc == scenario
             N  == Len(sc.says)
  <2>1. N \in Nat /\ 0 \in 0..N
    BY <1>1, ScenarioIs
  <2>2. 0 < N => 0 < Len(PacketsOf(sc, 0 + 1))
    <3>1. SUFFICES ASSUME 0 < N PROVE 0 < Len(PacketsOf(sc, 1))
      OBVIOUS
    <3>2. 1 \in 1..N
      BY <2>1, <3>1
    <3>3. NameOf(sc, 1) \in Text /\ PayOf(sc, 1) \in Text /\ Overhead(NameOf(sc, 1)) < MaxPacket
      BY <1>1, <3>2, ScenarioIs
    <3>4. Len(PacketsOf(sc, 1)) \in Nat \ {0}
      BY <3>3, PiecesAre DEF PacketsOf
    <3>5. QED
      BY <3>4
  <2>3. Spot(sc, 0, 0)
    BY <2>1, <2>2 DEF Spot
  <2>4. Off(sc, 0, 0) = 0
    <3>1. Upon(sc, 0) = <<>>
      BY <1>1, UponIs
    <3>2. QED
      BY <1>6, <3>1 DEF Off
  <2>5. \A o \in Names : Acc(sc, 0, 0, o) = <<>> /\ o \in Outputs
    BY <1>1, HeardIs DEF Acc, Outputs
  <2> HIDE DEF sc
  <2>6. \A o \in Names : Upheld(o, shown[o], held[o], Acc(sc, 0, 0, o))
    BY <1>8, <2>5
  <2>7. \A o \in Names : Nowhere(Markers(o), Acc(sc, 0, 0, o), 1)
                         /\ shown[o] \o held[o] = Acc(sc, 0, 0, o)
    BY <2>6 DEF Upheld
  <2>8. ReadsOn(0, 0) \/ Halted(0, 0)
    BY <1>1, <2>4, <2>6, <2>7 DEF ReadsOn, Halted, sc
  <2>9. Reading(0, 0)
    BY <2>3, <2>7, <2>8 DEF Reading, sc
  <2>10. QED
    BY <1>1, <2>3, <2>4, <2>6, <2>9 DEF FramedReading, sc
<1>10. RawReading /\ Unframed = <<>>
  <2>1. Unframed = <<>>
    <3>1. SubSeq(wire, 1, 0) = <<>>
      BY SubSeqEmpty
    <3>2. QED
      BY <1>1, <3>1 DEF Unframed
  <2> DEFINE t == Unframed
  <2>2. Merged \in Outputs
    BY DEF Outputs
  <2>3. Upheld(Merged, shown[Merged], held[Merged], t)
    BY <1>8, <2>1, <2>2
  <2> HIDE DEF t
  <2>4. \/ main = "read" /\ Upheld(Merged, shown[Merged], held[Merged], t)
        \/ /\ main # "read" /\ Nowhere(Markers(Merged), t, 1)
           /\ shown[Merged] \o held[Merged] = t
           /\ result \in {"failed", "ok"}
    BY <1>1, <2>3 DEF Upheld
  <2>5. QED
    BY <2>1, <2>4 DEF RawReading, t
<1>11. Accounted
  <2>1. result # "closed"
    BY <1>1, <1>2
  <2>2. ~scenario.raw => \E n, k : AccountedAt(n, k)
    <3> SUFFICES ASSUME ~scenario.raw PROVE AccountedAt(0, 0)
      OBVIOUS
    <3>1. Spot(scenario, 0, 0) /\ consumed = Off(scenario, 0, 0)
          /\ \A o \in Names : Upheld(o, shown[o], held[o], Acc(scenario, 0, 0, o))
      BY <1>9
    <3>2. QED
      BY <2>1, <3>1, UpheldIsKept DEF AccountedAt
  <2>3. Kept(Merged, shown[Merged], held[Merged], Unframed, main, result)
    <3>1. Unframed = <<>>
      BY <1>10
    <3>2. Merged \in Outputs
      BY DEF Outputs
    <3>3. Upheld(Merged, shown[Merged], held[Merged], Unframed)
      BY <1>8, <3>1, <3>2
    <3>4. QED
      BY <2>1, <3>3, UpheldIsKept
  <2>4. QED
    BY <2>1, <2>2, <2>3 DEF Accounted
<1>12. QED
  BY <1>1, <1>4, <1>5, <1>7, <1>9, <1>10, <1>11 DEF CInv

LEMMA ClientRests ==
  ASSUME CInv, UNCHANGED clientVars
  PROVE  CInv'
<1>1. /\ call' = call /\ network' = network /\ reading' = reading /\ main' = main
      /\ result' = result /\ sending' = sending /\ timing' = timing /\ exit' = exit
  BY DEF clientVars
<1>2. /\ scenario' = scenario /\ wire' = wire /\ arrived' = arrived /\ open' = open
      /\ consumed' = consumed /\ held' = held /\ shown' = shown /\ sender' = sender
      /\ written' = written /\ watchdog' = watchdog /\ timedOut' = timedOut /\ shut' = shut
  BY <1>1 DEF call, network, reading, sending, timing
<1>3. /\ ClientTypeOK /\ wire = Wire(scenario) /\ shown \in [Outputs -> Text]
      /\ held \in [Outputs -> Text] /\ Timing /\ FramedReading /\ RawReading /\ Accounted
  BY DEF CInv
<1>4. Aside
  BY <1>1, <1>2 DEF Aside, Eof
<1>5. ClientTypeOK' /\ Timing'
  BY <1>1, <1>2, <1>3 DEF ClientTypeOK, Timing
<1>6. QED
  BY <1>2, <1>3, <1>4, <1>5, AsideKeeps DEF CInv

\* The invariant of a client beside the other processes.
THEOREM ClientInvariant == Spec => []CInv
<1>1. Init => CInv
  BY ClientStarts DEF Init
<1>2. CInv /\ [Next]_vars => CInv'
  <2> SUFFICES ASSUME CInv, [Next]_vars PROVE CInv'
    OBVIOUS
  <2>1. CASE ClientNext
    <3>1. CASE ReadFramed
      BY <3>1, ReadFramedKeeps
    <3>2. CASE ReadRaw
      BY <3>2, ReadRawKeeps
    <3>a. CASE ReadPanics
      BY <3>a, ReadPanicsKeeps
    <3>3. CASE ReadFails
      BY <3>3, ReadFailsKeeps
    <3>4. CASE \/ Release \/ JoinWatchdog \/ Exit \/ Write \/ SendEnds \/ Deadline \/ Shutdown
               \/ Arrive \/ ServerCloses
      BY <3>4, OthersKeep
    <3>5. QED
      BY <2>1, <3>1, <3>2, <3>a, <3>3, <3>4 DEF ClientNext, ClientThreads
  <2>2. CASE UNCHANGED clientVars
    BY <2>2, ClientRests
  <2>3. CASE UNCHANGED vars
    BY <2>3, ClientRests DEF vars
  <2>4. QED
    BY <2>1, <2>2, <2>3 DEF Next
<1>3. QED
  BY <1>1, <1>2, PTL DEF Spec
-----------------------------------------------------------------------------
(* What the invariant says of the properties.                              *)

LEMMA BeginsNowhere ==
  ASSUME NEW o \in Outputs, NEW a \in Text, NEW b \in Text, Begins(a, b),
         Nowhere(Markers(o), b, 1)
  PROVE  Nowhere(Markers(o), a, 1)
<1>1. Markers(o) \in MarkerLists(STRING) /\ a \in Seq(STRING) /\ b \in Seq(STRING)
  BY MarkersOf DEF Text
<1>2. \A k \in DOMAIN Markers(o) : Markers(o)[k] \in Seq(STRING)
  BY <1>1, MarkersAre
<1>3. \A k \in DOMAIN Markers(o) : \A i : At(Markers(o)[k], a, i) => At(Markers(o)[k], b, i)
  BY <1>1, <1>2, BeginsAt
<1>4. QED
  BY <1>3 DEF Nowhere

\* A match stays the first one, whatever text follows.
LEMMA FoundStays ==
  ASSUME NEW o \in Outputs, NEW a \in Text, NEW b \in Text, Begins(a, b),
         Separate(Markers(o)), ~Nowhere(Markers(o), a, 1)
  PROVE  Find(Markers(o), b, 1) = Find(Markers(o), a, 1)
<1> DEFINE f == Find(Markers(o), a, 1)
           M == Markers(o)
<1>1. M \in MarkerLists(STRING) /\ a \in Seq(STRING) /\ b \in Seq(STRING) /\ 1 \in Nat \ {0}
  BY MarkersOf DEF Text
<1>2. f # NoMatch /\ Best(M, a, 1, f)
  BY <1>1, FindIs
<1> HIDE DEF f
<1>3. Best(M, b, 1, f)
  BY <1>1, <1>2, BeginsBest
<1>4. Find(M, b, 1) = f
  BY <1>1, <1>3, FindBest
<1>5. QED
  BY <1>4 DEF f

LEMMA PrefixBegins ==
  ASSUME NEW t \in Text, NEW b \in 0..Len(t), NEW a \in 0..b
  PROVE  /\ SubSeq(t, 1, a) \in Text /\ SubSeq(t, 1, b) \in Text
         /\ Begins(SubSeq(t, 1, a), SubSeq(t, 1, b)) /\ Begins(SubSeq(t, 1, a), t)
<1> DEFINE x == SubSeq(t, 1, a)
           y == SubSeq(t, 1, b)
<1>1. Len(t) \in Nat
  BY LenProperties DEF Text
<1>2. 1 \in Nat \ {0} /\ a \in Nat /\ b \in Nat /\ a <= b /\ b <= Len(t) /\ a <= Len(t)
      /\ 1 <= a + 1 /\ 1 <= b + 1
      /\ a + 1 - 1 = a /\ b + 1 - 1 = b /\ (\A i \in 1..b : 1 + i - 1 = i)
      /\ \A i \in 1..a : i \in 1..b
  BY <1>1
<1>3. /\ x \in Text /\ Len(x) = a + 1 - 1 /\ \A i \in 1..(a + 1 - 1) : x[i] = t[1 + i - 1]
  BY <1>2, PartsAre
<1>4. /\ y \in Text /\ Len(y) = b + 1 - 1 /\ \A i \in 1..(b + 1 - 1) : y[i] = t[1 + i - 1]
  BY <1>2, PartsAre
<1> HIDE DEF x, y
<1>5. Len(x) = a /\ Len(y) = b /\ (\A i \in 1..a : x[i] = t[i]) /\ \A i \in 1..b : y[i] = t[i]
  BY <1>2, <1>3, <1>4
<1>6. Begins(x, y) /\ Begins(x, t)
  BY <1>2, <1>5 DEF Begins
<1>7. QED
  BY <1>3, <1>4, <1>6 DEF x, y

\* What the tables of the properties hold.
LEMMA TablesAre ==
  ASSUME NEW sc \in Scenarios, NEW n \in 0..Len(sc.says)
  PROVE  /\ EndsOf[sc][n] = Len(Upon(sc, n))
         /\ \A o \in Outputs : SaidIn[sc][n][o] = Heard(sc, n, o)
<1>1. SaidIn[sc] = [m \in 0..Len(sc.says) |-> [o \in Outputs |-> Said(Upto(sc, m), o)]]
  BY DEF SaidIn
<1>2. EndsOf[sc] = [m \in 0..Len(sc.says) |-> Len(Wire(Upto(sc, m)))]
  BY DEF EndsOf
<1>3. EndsOf[sc][n] = Len(Wire(Upto(sc, n)))
  BY <1>2
<1>4. SaidIn[sc][n] = [o \in Outputs |-> Said(Upto(sc, n), o)]
  BY <1>1
<1>5. \A o \in Outputs : SaidIn[sc][n][o] = Said(Upto(sc, n), o)
  BY <1>4
<1>6. QED
  BY <1>3, <1>5 DEF Upon, Heard

\* A place of the proof is one of the table's.
PlaceOf(p, sc, n, k) ==
  /\ p.at = Off(sc, n, k) /\ \A o \in Names : p.heard[o] = Acc(sc, n, k, o)
  /\ p.next = IF n = Len(sc.says) THEN {}
              ELSE {Packet(NameOf(sc, n + 1), PieceOf(sc, n, k), Len(PacketAt(sc, n, k)))}

LEMMA PlaceIs ==
  ASSUME NEW sc \in Scenarios, ~sc.raw, NEW n, NEW k, Spot(sc, n, k)
  PROVE  \E p \in Places[sc] : PlaceOf(p, sc, n, k)
<1> DEFINE N == Len(sc.says)
           p == PlaceIn(sc, n, k)
<1>1. n \in 0..N /\ N \in Nat /\ k \in Nat /\ (n = N => k = 0)
      /\ (n # N => n < N /\ k < Len(PacketsOf(sc, n + 1)))
  BY ScenarioIs DEF Spot
<1>2. k \in 0..(PacketsIn(sc, n) - 1)
  <2>1. CASE n = N
    <3>1. PacketsIn(sc, n) = 1
      BY <2>1 DEF PacketsIn
    <3>2. QED
      BY <1>1, <2>1, <3>1
  <2>2. CASE n # N
    <3> DEFINE l == Len(PacketsOf(sc, n + 1))
    <3>1. n + 1 \in 1..N
      BY <1>1, <2>2
    <3>2. NameOf(sc, n + 1) \in Text /\ PayOf(sc, n + 1) \in Text
          /\ Overhead(NameOf(sc, n + 1)) < MaxPacket
      BY <3>1, ScenarioIs
    <3>3. l \in Nat \ {0}
      BY <3>2, PiecesAre DEF PacketsOf
    <3>4. PacketsIn(sc, n) = l
      BY <2>2 DEF PacketsIn, PacketsOf, NameOf, PayOf
    <3> HIDE DEF l
    <3>5. k < l
      BY <1>1, <2>2 DEF l
    <3>6. QED
      BY <1>1, <3>3, <3>4, <3>5
  <2>3. QED
    BY <2>1, <2>2
<1>3. p \in Places[sc]
  <2>1. Places[sc] = UNION {{PlaceIn(sc, m, j) : j \in 0..(PacketsIn(sc, m) - 1)} : m \in 0..N}
    BY DEF Places
  <2>2. p \in {PlaceIn(sc, n, j) : j \in 0..(PacketsIn(sc, n) - 1)}
    BY <1>2
  <2> HIDE DEF p
  <2>3. QED
    BY <1>1, <2>1, <2>2
<1>4. EndsOf[sc][n] = Len(Upon(sc, n)) /\ \A o \in Outputs : SaidIn[sc][n][o] = Heard(sc, n, o)
  BY <1>1, TablesAre
<1>5. p.at = Off(sc, n, k)
  BY <1>4 DEF PlaceIn, Off, NameOf, PayOf
<1>6. ASSUME NEW o \in Names PROVE p.heard[o] = Acc(sc, n, k, o)
  <2>1. SaidIn[sc][n][o] = Heard(sc, n, o)
    BY <1>4 DEF Outputs
  <2>2. QED
    BY <2>1 DEF PlaceIn, Acc, NameOf, PayOf
<1>7. p.next = IF n = N THEN {}
               ELSE {Packet(NameOf(sc, n + 1), PieceOf(sc, n, k), Len(PacketAt(sc, n, k)))}
  BY DEF PlaceIn, PacketAt, PieceOf, PacketsOf, NameOf, PayOf
<1> HIDE DEF p
<1>8. PlaceOf(p, sc, n, k)
  BY <1>5, <1>6, <1>7 DEF PlaceOf
<1>9. QED
  BY <1>3, <1>8

\* A packet is read as it was, or waited for.
LEMMA DecodedPackets ==
  ASSUME CInv
  PROVE  EncodedIsDecoded
<1> SUFFICES ASSUME ~scenario.raw, main = "read"
             PROVE  \E p \in Places[scenario] :
                      /\ p.at = consumed
                      /\ \A x \in p.next, eof \in BOOLEAN :
                           Decoded[scenario][consumed][arrived][eof] =
                             IF consumed + x.size <= arrived THEN x
                             ELSE IF ~eof THEN Wait
                             ELSE IF consumed = arrived THEN End ELSE Bad
  BY DEF EncodedIsDecoded
<1> DEFINE sc == scenario
<1>1. /\ sc \in Scenarios /\ FramedReading
      /\ consumed \in 0..arrived /\ arrived \in 0..Len(Wire(sc)) /\ Len(Wire(sc)) \in Nat
  <2>1. scenario \in Scenarios /\ consumed \in 0..arrived /\ arrived \in 0..Len(wire)
        /\ wire = Wire(scenario) /\ FramedReading
    BY DEF CInv, ClientTypeOK
  <2>2. QED
    BY <2>1, WireText
<1>2. PICK n, k : Reading(n, k)
  BY <1>1 DEF FramedReading
<1>3. Spot(sc, n, k) /\ consumed = Off(sc, n, k)
  BY <1>2 DEF Reading, ReadsOn, Halted, Found
<1>4. consumed \in 0..Len(Wire(sc)) /\ arrived \in consumed..Len(Wire(sc))
      /\ arrived \in Off(sc, n, k)..Len(Wire(sc)) /\ n \in 0..Len(sc.says) /\ Len(sc.says) \in Nat
  <2>1. consumed \in 0..Len(Wire(sc)) /\ arrived \in consumed..Len(Wire(sc))
    BY <1>1
  <2>2. QED
    BY <1>1, <1>3, <2>1, ScenarioIs, SpotIs
<1> DEFINE y == Packet(NameOf(sc, n + 1), PieceOf(sc, n, k), Len(PacketAt(sc, n, k)))
<1>5. PICK p \in Places[sc] : PlaceOf(p, sc, n, k)
  BY <1>1, <1>3, PlaceIs
<1>a. p.at = Off(sc, n, k) /\ p.next = IF n = Len(sc.says) THEN {} ELSE {y}
  BY <1>5 DEF PlaceOf
<1>6. ASSUME NEW x \in p.next, NEW eof \in BOOLEAN
      PROVE  Decoded[sc][consumed][arrived][eof] =
               IF consumed + x.size <= arrived THEN x
               ELSE IF ~eof THEN Wait
               ELSE IF consumed = arrived THEN End ELSE Bad
  <2>1. Decoded[sc][consumed][arrived][eof]
          = ReadPacket(SubSeq(Wire(sc), Off(sc, n, k) + 1, arrived), eof)
    BY <1>1, <1>3, <1>4, DecodedIs
  <2>2. x = y /\ n < Len(sc.says)
    BY <1>4, <1>6, <1>a
  <2>3. ReadPacket(SubSeq(Wire(sc), Off(sc, n, k) + 1, arrived), eof)
          = DueAt(sc, n, k, arrived, eof)
    BY <1>1, <1>3, <1>4, <2>2, ReadIs
  <2>4. x.size = Len(PacketAt(sc, n, k))
    BY <2>2 DEF Packet
  <2>5. QED
    BY <1>3, <2>1, <2>2, <2>3, <2>4 DEF DueAt
<1>7. QED
  BY <1>3, <1>6, <1>a

\* An output that has been given this text shows what it should.
LEMMA KeptShows ==
  ASSUME NEW o \in Outputs, NEW t \in Text, Kept(o, shown[o], held[o], t, main, result)
  PROVE  Shows(o, t)
<1> DEFINE m == Find(Markers(o), t, 1)
<1>1. Markers(o) \in MarkerLists(STRING) /\ t \in Seq(STRING) /\ 1 \in Nat \ {0}
  BY MarkersOf DEF Text
<1>2. m = NoMatch <=> Nowhere(Markers(o), t, 1)
  BY <1>1, FindNowhere
<1>3. CASE /\ Nowhere(Markers(o), t, 1) /\ shown[o] \o held[o] = t
           /\ Len(held[o]) = IF result = "closed" THEN 0 ELSE Overlap(Markers(o), t)
  BY <1>2, <1>3 DEF Shows
<1>4. CASE main # "read" /\ Marked(o, shown[o], held[o], t)
  BY <1>2, <1>4 DEF Shows, Marked
<1>5. QED
  BY <1>3, <1>4 DEF Kept

\* What the invariant accounts for is what the outputs show.
LEMMA ShownFaithfully ==
  ASSUME CInv
  PROVE  ShownIsSaid
<1> DEFINE sc == scenario
<1>1. /\ scenario \in Scenarios /\ wire = Wire(scenario) /\ consumed \in 0..arrived
      /\ arrived \in 0..Len(wire) /\ Accounted
  BY DEF CInv, ClientTypeOK
<1>2. ASSUME ~sc.raw
      PROVE  \E p \in Places[sc] : p.at = consumed /\ \A o \in Watched : Shows(o, p.heard[o])
  <2>1. PICK n, k : AccountedAt(n, k)
    BY <1>1, <1>2 DEF Accounted
  <2>2. /\ Spot(sc, n, k) /\ consumed = Off(sc, n, k)
        /\ \A o \in Names : Kept(o, shown[o], held[o], Acc(sc, n, k, o), main, result)
    BY <2>1 DEF AccountedAt
  <2>3. \A o \in Names : o \in Outputs /\ Acc(sc, n, k, o) \in Text
    BY <1>1, <1>2, <2>2, SpotIs DEF Outputs
  <2>4. \A o \in Names : Shows(o, Acc(sc, n, k, o))
    BY <2>2, <2>3, KeptShows
  <2>5. PICK p \in Places[sc] : PlaceOf(p, sc, n, k)
    BY <1>1, <1>2, <2>2, PlaceIs
  <2>6. \A o \in Watched : Shows(o, p.heard[o])
    BY <1>2, <2>4, <2>5 DEF Watched, PlaceOf
  <2>7. QED
    BY <2>2, <2>5, <2>6 DEF PlaceOf
<1>3. ASSUME sc.raw
      PROVE  \E p \in Places[sc] : p.at = consumed /\ \A o \in Watched : Shows(o, p.heard[o])
  <2> DEFINE t == SubSeq(Wire(sc), 1, consumed)
             p == [at |-> consumed, heard |-> [o \in {Merged} |-> t], next |-> {}]
  <2>1. consumed \in 0..Len(Wire(sc)) /\ Merged \in Outputs
    BY <1>1, WireText DEF Outputs
  <2>2. p \in Places[sc]
    <3>1. Places[sc] = {[at |-> n, heard |-> [o \in {Merged} |-> SubSeq(Wire(sc), 1, n)],
                         next |-> {}] : n \in 0..Len(Wire(sc))}
      BY <1>1, <1>3 DEF Places
    <3>2. QED
      BY <2>1, <3>1
  <2>3. t \in Text
    <3>1. Wire(sc) \in Text /\ Len(Wire(sc)) \in 0..Len(Wire(sc))
      <4> DEFINE l == Len(Wire(sc))
      <4>1. Wire(sc) \in Text /\ l \in Nat
        BY <1>1, WireText
      <4> HIDE DEF l
      <4>2. l \in 0..l
        BY <4>1
      <4>3. QED
        BY <4>1, <4>2 DEF l
    <3>2. consumed \in 0..Len(Wire(sc))
      BY <2>1
    <3>3. QED
      BY <3>1, <3>2, PrefixBegins
  <2>4. Kept(Merged, shown[Merged], held[Merged], t, main, result)
    BY <1>1, <1>3 DEF Accounted, Unframed
  <2>5. Shows(Merged, t)
    BY <2>1, <2>3, <2>4, KeptShows
  <2>6. p.at = consumed /\ p.heard[Merged] = t
    OBVIOUS
  <2> HIDE DEF p, t
  <2>7. QED
    BY <1>3, <2>2, <2>5, <2>6 DEF Watched
<1>4. QED
  BY <1>1, <1>2, <1>3 DEF ShownIsSaid, Accounted

LEMMA CompletedIsNoTimeout ==
  ASSUME CInv
  PROVE  CompletedReadWins
<1> DEFINE sc   == scenario
           N    == Len(sc.says)
           done == {i \in 0..N : EndsOf[sc][i] <= arrived}
           q    == Max(done)
           k(o) == Find(Markers(o), IF o = Merged THEN SubSeq(wire, 1, arrived)
                                    ELSE SaidIn[sc][q][o], 1).k
<1> SUFFICES ASSUME \A o \in Watched : Separate(Markers(o)), shut, Completed,
                    result # "failed", exit \notin {Unset, 0}
             PROVE  FALSE
  BY DEF CompletedReadWins
<1>1. /\ scenario \in Scenarios /\ wire = Wire(scenario) /\ consumed \in 0..arrived
      /\ arrived \in 0..Len(wire) /\ FramedReading /\ RawReading
      /\ result \in {"ok", "error", "closed", "failed", "panic", Unset} /\ (result = Unset <=> main = "read")
      /\ (exit = Unset <=> main # "done") /\ Timing
  BY DEF CInv, ClientTypeOK
<1>2. main = "done" /\ result \in {"error", "closed", "panic"}
  <2>1. exit # Unset /\ exit # 0
    OBVIOUS
  <2>2. main = "done"
    BY <1>1, <2>1
  <2>3. result # "ok" /\ result # Unset
    BY <1>1, <2>1, <2>2 DEF Timing
  <2>4. result \in {"ok", "error", "closed", "failed", "panic", Unset} /\ result # "failed"
    BY <1>1
  <2>5. QED
    BY ONLY <2>2, <2>3, <2>4
<1>3. N \in Nat /\ 0 \in 0..N /\ wire \in Text /\ Len(wire) \in Nat
  <2>1. sc \in Scenarios /\ wire = Wire(sc)
    BY <1>1
  <2>2. N \in Nat
    BY <2>1, ScenarioIs
  <2>3. Wire(sc) \in Text /\ Len(Wire(sc)) \in Nat
    BY <2>1, WireText
  <2>4. QED
    BY <2>1, <2>2, <2>3
<1>4. q \in 0..N /\ EndsOf[sc][q] <= arrived
  <2>1. EndsOf[sc][0] = 0
    <3>1. Upon(sc, 0) = <<>> /\ EndsOf[sc][0] = Len(Upon(sc, 0))
      BY <1>1, <1>3, UponIs, TablesAre
    <3>2. QED
      BY <3>1
  <2>2. 0 <= arrived
    BY <1>1, <1>3
  <2>3. 0 \in done /\ done \subseteq 0..N
    BY <1>3, <2>1, <2>2
  <2> HIDE DEF done
  <2>4. q \in done
    BY <1>3, <2>3, MaxIs
  <2> HIDE DEF q
  <2>5. QED
    BY <2>4 DEF done
<1>5. /\ \E o \in Watched : k(o) # 0
      /\ \A o \in Watched : k(o) <= EndMarkers(o)
      /\ \A i \in 1..q : sc.says[i].stream # CtlName
  BY DEF Completed
<1> HIDE DEF q
<1>6. CASE sc.raw
  <2> DEFINE t == Unframed
             w == SubSeq(wire, 1, arrived)
             M == Markers(Merged)
  <2>1. Find(M, w, 1).k # 0 /\ Find(M, w, 1).k <= EndMarkers(Merged) /\ Separate(M)
    BY <1>5, <1>6 DEF Watched
  <2>2. t \in Text /\ w \in Text /\ Begins(t, w) /\ Merged \in Outputs
    <3>1. arrived \in 0..Len(wire) /\ consumed \in 0..arrived
      BY <1>1
    <3>2. QED
      BY <1>3, <3>1, PrefixBegins DEF Unframed, Outputs
  <2>3. ~Nowhere(M, w, 1)
    <3>1. M \in MarkerLists(STRING) /\ w \in Seq(STRING) /\ NoMatch.k = 0
      BY <2>2, MarkersOf DEF Text, NoMatch
    <3> HIDE DEF w, M
    <3>2. Find(M, w, 1) # NoMatch
      BY <2>1, <3>1
    <3>3. QED
      BY <3>1, <3>2, FindNowhere
  <2>4. \/ Nowhere(M, t, 1) /\ Eof /\ consumed = arrived
        \/ /\ Marked(Merged, shown[Merged], held[Merged], t)
           /\ result = (IF Find(M, t, 1).k <= EndMarkers(Merged) THEN "ok" ELSE "error")
    BY <1>1, <1>2, <1>6 DEF RawReading
  <2>5. CASE Nowhere(M, t, 1) /\ Eof /\ consumed = arrived
    <3>1. t = w
      BY <2>5 DEF Unframed
    <3>2. QED
      BY <2>3, <2>5, <3>1
  <2>6. CASE /\ Marked(Merged, shown[Merged], held[Merged], t)
             /\ result = (IF Find(M, t, 1).k <= EndMarkers(Merged) THEN "ok" ELSE "error")
    <3>1. ~Nowhere(M, t, 1)
      BY <2>6 DEF Marked
    <3>2. Find(M, w, 1) = Find(M, t, 1)
      BY <2>1, <2>2, <3>1, FoundStays
    <3>3. QED
      BY <1>2, <2>1, <2>6, <3>2
  <2>7. QED
    BY <2>4, <2>5, <2>6
<1>7. CASE ~sc.raw
  <2> DEFINE h(o) == Heard(sc, q, o)
  <2>1. Watched = Names /\ \A o \in Names : o \in Outputs /\ o # Merged
    BY <1>7, StreamNames DEF Watched, Outputs
  <2>2. \A o \in Names : k(o) = Find(Markers(o), h(o), 1).k
    BY <1>1, <1>4, <2>1, TablesAre
  <2>3. PICK p \in Names : Find(Markers(p), h(p), 1).k # 0
    BY <1>5, <2>1, <2>2
  <2>4. \A o \in Names : Find(Markers(o), h(o), 1).k <= EndMarkers(o) /\ Separate(Markers(o))
    BY <1>5, <2>1, <2>2
  <2>5. \A o \in Names : h(o) \in Text
    BY <1>1, <1>4, <2>1, HeardIs
  <2>6. ~Nowhere(Markers(p), h(p), 1)
    <3> DEFINE t == h(p)
               M == Markers(p)
    <3>1. M \in MarkerLists(STRING) /\ t \in Seq(STRING) /\ NoMatch.k = 0 /\ Find(M, t, 1).k # 0
      BY <2>1, <2>3, <2>5, MarkersOf DEF Text, NoMatch
    <3> HIDE DEF t, M
    <3>2. Find(M, t, 1) # NoMatch
      BY <3>1
    <3>3. ~Nowhere(M, t, 1)
      BY <3>1, <3>2, FindNowhere
    <3>4. QED
      BY <3>3 DEF t, M
  <2>7. PICK n, j : Reading(n, j)
    BY <1>1, <1>7 DEF FramedReading
  <2>8. /\ Spot(sc, n, j) /\ \A o \in Names : Nowhere(Markers(o), Acc(sc, n, j, o), 1)
        /\ Halted(n, j) \/ Found(n, j)
    BY <1>2, <2>7 DEF Reading, ReadsOn
  <2>9. /\ n \in 0..N /\ \A o \in Names : Acc(sc, n, j, o) \in Text
        /\ \A o \in Names : \A m \in 0..n : Begins(Heard(sc, m, o), Acc(sc, n, j, o))
    BY <1>1, <1>7, <2>1, <2>8, SpotIs
  <2>10. ~(q <= n)
    <3> SUFFICES ASSUME q <= n PROVE FALSE
      OBVIOUS
    <3>1. q \in 0..n
      BY <1>3, <1>4, <2>9
    <3>2. Begins(h(p), Acc(sc, n, j, p)) /\ Acc(sc, n, j, p) \in Text /\ h(p) \in Text
          /\ Nowhere(Markers(p), Acc(sc, n, j, p), 1) /\ p \in Outputs
      BY <2>1, <2>5, <2>8, <2>9, <3>1
    <3> HIDE DEF h
    <3>3. Nowhere(Markers(p), h(p), 1)
      BY <3>2, BeginsNowhere
    <3>4. QED
      BY <2>6, <3>3 DEF h
  <2>11. n < N /\ n + 1 \in 1..q /\ n + 1 \in 0..q /\ q \in (n + 1)..N
    BY <1>3, <1>4, <2>9, <2>10
  <2>12. CASE Halted(n, j)
    <3>1. n = N \/ NameOf(sc, n + 1) = CtlName \/ arrived < Len(Upon(sc, n + 1))
      BY <1>2, <2>12 DEF Halted
    <3>2. n # N
      BY <1>3, <2>9, <2>11
    <3>3. NameOf(sc, n + 1) # CtlName
      BY <1>5, <2>11 DEF NameOf
    <3>4. ~(arrived < Len(Upon(sc, n + 1)))
      <4> DEFINE x == Len(Upon(sc, n + 1))
                 y == Len(Upon(sc, q))
      <4>1. Begins(Upon(sc, n + 1), Upon(sc, q)) /\ x \in Nat /\ y \in Nat /\ y <= arrived
        <5>1. Begins(Upon(sc, n + 1), Upon(sc, q))
          BY <1>1, <1>4, <2>11, UponIs
        <5>2. x \in Nat /\ y \in Nat
          <6>1. n + 1 \in 0..N
            BY <1>3, <2>9, <2>11
          <6>2. QED
            BY <1>1, <1>4, <6>1, UponIs
        <5>3. y <= arrived
          BY <1>1, <1>4, TablesAre
        <5>4. QED
          BY <5>1, <5>2, <5>3
      <4>2. x <= y
        BY <4>1 DEF Begins
      <4> HIDE DEF x, y
      <4>3. arrived \in Nat
        BY <1>1, <1>3
      <4>4. ~(arrived < x)
        BY <4>1, <4>2, <4>3
      <4>5. QED
        BY <4>4 DEF x
    <3>5. QED
      BY <3>1, <3>2, <3>3, <3>4
  <2>13. CASE Found(n, j)
    <3>1. PICK o \in Names :
            /\ o = NameOf(sc, n + 1)
            /\ Marked(o, shown[o], held[o], Acc(sc, n, j + 1, o))
            /\ result = (IF Find(Markers(o), Acc(sc, n, j + 1, o), 1).k <= EndMarkers(o)
                         THEN "ok" ELSE "error")
      BY <2>13 DEF Found
    <3> DEFINE b == Acc(sc, n, j + 1, o)
    <3>2. b \in Text /\ Begins(b, h(o))
      BY <1>1, <1>7, <2>8, <2>11, NextIs
    <3>3. ~Nowhere(Markers(o), b, 1)
      BY <3>1 DEF Marked
    <3>4. o \in Outputs /\ h(o) \in Text /\ Separate(Markers(o))
          /\ Find(Markers(o), h(o), 1).k <= EndMarkers(o)
      BY <2>1, <2>4, <2>5
    <3>5. ~(Find(Markers(o), b, 1).k <= EndMarkers(o))
      BY <1>2, <3>1
    <3> HIDE DEF b, h
    <3>6. Find(Markers(o), h(o), 1) = Find(Markers(o), b, 1)
      BY <3>2, <3>3, <3>4, FoundStays
    <3>7. QED
      BY <3>4, <3>5, <3>6
  <2>14. QED
    BY <2>8, <2>12, <2>13
<1>8. QED
  BY <1>6, <1>7
-----------------------------------------------------------------------------

\* Whatever the server, the network, the deadline and the threads do, the variables of a
\* client hold what they should, and its result, its exit code and its place agree.
THEOREM ClientTyped == Spec => []ClientTypeOK
<1>1. CInv => ClientTypeOK
  BY DEF CInv
<1>2. QED
  BY <1>1, ClientInvariant, PTL

\* A client that has shut the socket down at its deadline never reports an ordinary
\* failure (the order of the flag and the shutdown in client.rs).
THEOREM ShutdownMeansTimeout == Spec => []ShutdownIsATimeout
<1>1. CInv => ShutdownIsATimeout
  BY DEF CInv, Timing, ShutdownIsATimeout
<1>2. QED
  BY <1>1, ClientInvariant, PTL

\* What encode wrote, read_packet reads back, name and payload, for every payload and name,
\* every width of the length field and every cut of the stream: the packet as soon as the
\* whole of it is there, and until then a wait.  Only a stream that ended in the middle of
\* a packet is called broken, and only one that ended between two packets ended.
THEOREM PacketsAreDecoded == Spec => []EncodedIsDecoded
<1>1. CInv => EncodedIsDecoded
  BY DecodedPackets
<1>2. QED
  BY <1>1, ClientInvariant, PTL

\* A client shows all that was said on each output in what it has read, up to the first
\* marker and no further, however encode, the network and the reads have cut it; all it holds
\* back is an end that may begin a marker, and nothing of a stream that has ended.
THEOREM OutputIsWhatWasSaid == Spec => []ShownIsSaid
<1>1. CInv => ShownIsSaid
  BY ShownFaithfully
<1>2. QED
  BY <1>1, ClientInvariant, PTL

\* If the whole response was there when the deadline passed, the exit code is that of
\* the response: the timeout does not take it back.
THEOREM CompletedResponseWins == Spec => []CompletedReadWins
<1>1. CInv => CompletedReadWins
  BY CompletedIsNoTimeout
<1>2. QED
  BY <1>1, ClientInvariant, PTL
=============================================================================
