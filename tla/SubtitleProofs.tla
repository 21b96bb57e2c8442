--------------------------- MODULE SubtitleProofs ---------------------------
(***************************************************************************)
(* Proofs about SubtitleSegments, for any segment length, any resolution   *)
(* of times, any times and any number of items: no word is lost, cues are  *)
(* in playing order, and a time stamp is the time rounded to the nearest   *)
(* millisecond, or cut at the end of a second, order kept.                 *)
(***************************************************************************)
EXTENDS SubtitleSegments, FiniteSetTheorems, TLAPS

-----------------------------------------------------------------------------
(* Time stamps                                                             *)

LEMMA Division ==
  ASSUME NEW t \in Nat, NEW d \in Nat \ {0}
  PROVE  /\ t \div d \in Nat
         /\ t % d \in 0 .. d - 1
         /\ t = d * (t \div d) + (t % d)
  OBVIOUS

\* A larger quotient cannot have a smaller multiple below it.
LEMMA QuotientOrder ==
  ASSUME NEW d \in Nat \ {0}, NEW a \in Nat, NEW b \in Nat, NEW t \in Nat, NEW u \in Nat,
         t <= u, d * a <= t, u < d * b + d
  PROVE  a <= b
  OBVIOUS

\* The fraction is the nearest number of milliseconds.
LEMMA FractionNearest ==
  ASSUME NEW t \in Nat
  PROVE  /\ Fraction(t) \in Nat
         /\ 2 * TicksPerMilli * Fraction(t) <= 2 * Rest(t) + TicksPerMilli
         /\ 2 * Rest(t) + TicksPerMilli < 2 * TicksPerMilli * Fraction(t) + 2 * TicksPerMilli
         /\ Rest(t) \in Nat /\ Rest(t) < TicksPerSecond
<1>1. TicksPerMilli \in Nat \ {0} /\ TicksPerSecond \in Nat \ {0}
  BY SegmentsAssumption DEF TicksPerSecond
<1>2. Rest(t) \in Nat /\ Rest(t) < TicksPerSecond
  BY <1>1, Division DEF Rest
<1> DEFINE n == 2 * Rest(t) + TicksPerMilli
           d == 2 * TicksPerMilli
<1>3. n \in Nat /\ d \in Nat \ {0} /\ Fraction(t) = n \div d
  BY <1>1, <1>2 DEF Fraction
<1> HIDE DEF n, d
<1>4. n \div d \in Nat /\ n % d \in 0 .. d - 1 /\ n = d * (n \div d) + (n % d)
  BY <1>3, Division
<1>5. d * Fraction(t) <= n /\ n < d * Fraction(t) + d
  BY <1>3, <1>4
<1> QED
  BY <1>2, <1>3, <1>4, <1>5 DEF n, d

\* A stamp shows the whole seconds and, cut at 999, the fraction.
LEMMA StampReads ==
  ASSUME NEW t \in Nat
  PROVE  /\ WellFormedStamp(Stamp(t))
         /\ WholeSeconds(t) \in Nat
         /\ CutFraction(t) \in 0 .. 999
         /\ StampMillis(Stamp(t)) = 1000 * WholeSeconds(t) + CutFraction(t)
<1> DEFINE s == WholeSeconds(t)
           f == CutFraction(t)
<1>1. s \in Nat
  BY SegmentsAssumption, Division DEF WholeSeconds, TicksPerSecond
<1>2. f \in 0 .. 999
  <2>1. Fraction(t) \in Nat
    BY FractionNearest
  <2> QED
    BY <2>1 DEF CutFraction
<1>3. Stamp(t) = [hours |-> s \div 3600, minutes |-> (s % 3600) \div 60,
                  seconds |-> s % 60, millis |-> f]
  BY DEF Stamp
<1> HIDE DEF s, f
<1>4. /\ (s % 3600) \div 60 \in 0 .. 59 /\ s % 60 \in 0 .. 59
      /\ s = ((s \div 3600) * 60 + ((s % 3600) \div 60)) * 60 + (s % 60)
  BY <1>1
<1>5. StampMillis(Stamp(t)) = 1000 * s + f
  BY <1>1, <1>2, <1>3, <1>4 DEF StampMillis
<1>6. WellFormedStamp(Stamp(t))
  BY <1>2, <1>3, <1>4 DEF WellFormedStamp
<1> QED
  BY <1>1, <1>2, <1>5, <1>6 DEF s, f

\* A time stamp has at most 59 minutes, 59 seconds and 999 milliseconds, and is within
\* half a millisecond of the time it stands for, unless it is cut.
LEMMA StampAccurate ==
  ASSUME NEW t \in Nat
  PROVE  /\ CloseTo(Stamp(t), t)
         /\ StampMillis(Stamp(t)) \in Nat
<1> DEFINE k == TicksPerMilli
           s == WholeSeconds(t)
           r == Rest(t)
           f == CutFraction(t)
           m == StampMillis(Stamp(t))
<1>1. k \in Nat \ {0} /\ s \in Nat /\ r \in Nat /\ f \in 0 .. 999 /\ m = 1000 * s + f
  BY SegmentsAssumption, StampReads, FractionNearest
<1>2. t = 1000 * (k * s) + r /\ r < 1000 * k
  BY <1>1, Division DEF WholeSeconds, Rest, TicksPerSecond
<1>6. /\ Fraction(t) \in Nat
      /\ 2 * (k * Fraction(t)) <= 2 * r + k /\ 2 * r + k < 2 * (k * Fraction(t)) + 2 * k
  BY <1>1, FractionNearest
<1>7. WellFormedStamp(Stamp(t))
  BY StampReads
<1>8. CloseTo(Stamp(t), t) <=>
        /\ 2 * (k * m) - k <= 2 * t
        /\ IF IsCut(t) THEN t < k * m + k ELSE 2 * t < 2 * (k * m) + k
  <2>1. /\ TicksPerMilli * (2 * StampMillis(Stamp(t)) - 1) = 2 * (k * m) - k
        /\ TicksPerMilli * (StampMillis(Stamp(t)) + 1) = k * m + k
        /\ TicksPerMilli * (2 * StampMillis(Stamp(t)) + 1) = 2 * (k * m) + k
    BY <1>1
  <2> QED
    BY <1>7, <2>1 DEF CloseTo
<1>9. IsCut(t) <=> 2 * r >= 1999 * k
  BY DEF IsCut
<1>3. k * m = 1000 * (k * s) + k * f
  BY <1>1
<1> HIDE DEF k, s, r, f, m
<1>4. CASE Fraction(t) < 1000
  <2>1. f = Fraction(t)
    BY <1>4, <1>6 DEF CutFraction, f
  <2>2. k * f <= k * 999
    BY <1>1
  <2>3. ~IsCut(t)
    BY <1>1, <1>6, <1>9, <2>1, <2>2
  <2>4. 2 * (k * f) <= 2 * r + k /\ 2 * r + k < 2 * (k * f) + 2 * k
    BY <1>6, <2>1
  <2> DEFINE x == k * s
             y == k * f
             z == k * m
  <2>5. x \in Nat /\ y \in Nat /\ z = 1000 * x + y /\ t = 1000 * x + r
    BY <1>1, <1>2, <1>3
  <2> HIDE DEF x, y, z
  <2>6. 2 * y <= 2 * r + k /\ 2 * r + k < 2 * y + 2 * k
    BY <2>4 DEF y
  <2>7. 2 * z - k <= 2 * t /\ 2 * t < 2 * z + k
    BY <1>1, <2>5, <2>6
  <2> QED
    BY <1>1, <1>8, <2>3, <2>7 DEF z, m
<1>5. CASE Fraction(t) >= 1000
  <2>1. f = 999
    BY <1>5, <1>6 DEF CutFraction, f
  <2>2. k * 1000 <= k * Fraction(t)
    BY <1>1, <1>5, <1>6
  <2>3. 2 * r >= 1999 * k
    BY <1>1, <1>6, <2>2
  <2>4. IsCut(t)
    BY <1>9, <2>3
  <2> DEFINE x == k * s
             z == k * m
  <2>5. x \in Nat /\ z = 1000 * x + 999 * k /\ t = 1000 * x + r
    BY <1>1, <1>2, <1>3, <2>1
  <2> HIDE DEF x, z
  <2>6. 2 * z - k <= 2 * t /\ t < z + k
    BY <1>1, <1>2, <2>3, <2>5
  <2> QED
    BY <1>1, <1>8, <2>4, <2>6 DEF z, m
<1> QED
  BY <1>1, <1>4, <1>5, <1>6 DEF m

\* Later times never get earlier stamps: within a second the fraction grows, and a later
\* second begins after every stamp of an earlier one.
LEMMA StampMonotone ==
  ASSUME NEW t \in Nat, NEW u \in Nat, t <= u
  PROVE  StampMillis(Stamp(t)) <= StampMillis(Stamp(u))
<1> DEFINE d == TicksPerSecond
<1>1. d \in Nat \ {0} /\ TicksPerMilli \in Nat \ {0}
  BY SegmentsAssumption DEF TicksPerSecond
<1>2. /\ WholeSeconds(t) \in Nat /\ WholeSeconds(u) \in Nat
      /\ Rest(t) \in 0 .. d - 1 /\ Rest(u) \in 0 .. d - 1
      /\ t = d * WholeSeconds(t) + Rest(t)
      /\ u = d * WholeSeconds(u) + Rest(u)
  BY <1>1, Division DEF WholeSeconds, Rest
<1> HIDE DEF d
<1>3. WholeSeconds(t) <= WholeSeconds(u)
  <2> DEFINE v == WholeSeconds(t)
             w == WholeSeconds(u)
  <2>1. v \in Nat /\ w \in Nat /\ d * v <= t /\ u < d * w + d
    BY <1>1, <1>2
  <2> HIDE DEF v, w
  <2>2. v <= w
    BY <1>1, <2>1, QuotientOrder
  <2> QED
    BY <2>2 DEF v, w
<1> DEFINE a == WholeSeconds(t)
           b == WholeSeconds(u)
           f == CutFraction(t)
           g == CutFraction(u)
           p == StampMillis(Stamp(t))
           q == StampMillis(Stamp(u))
<1>7. a \in Nat /\ b \in Nat /\ f \in 0 .. 999 /\ g \in 0 .. 999
      /\ p = 1000 * a + f /\ q = 1000 * b + g
  BY StampReads
<1> HIDE DEF a, b, f, g, p, q
<1>8. ASSUME a < b \/ (a = b /\ f <= g) PROVE StampMillis(Stamp(t)) <= StampMillis(Stamp(u))
  <2>1. p <= q
    BY <1>7, <1>8
  <2> QED
    BY <2>1 DEF p, q
<1>4. CASE WholeSeconds(t) < WholeSeconds(u)
  BY <1>4, <1>8 DEF a, b
<1>5. CASE WholeSeconds(t) = WholeSeconds(u)
  <2> DEFINE c == d * WholeSeconds(t)
  <2>1. Rest(t) <= Rest(u)
    <3>1. Rest(t) \in Nat /\ Rest(u) \in Nat /\ c \in Nat /\ t = c + Rest(t) /\ u = c + Rest(u)
      BY <1>1, <1>2, <1>5
    <3> HIDE DEF c
    <3> QED
      BY <3>1
  <2> DEFINE n == 2 * Rest(t) + TicksPerMilli
             o == 2 * Rest(u) + TicksPerMilli
             e == 2 * TicksPerMilli
  <2>2. /\ Fraction(t) \in Nat /\ Fraction(u) \in Nat /\ n \in Nat /\ o \in Nat /\ n <= o
        /\ e \in Nat \ {0} /\ e * Fraction(t) <= n /\ o < e * Fraction(u) + e
    BY <1>1, <1>2, <2>1, FractionNearest
  <2> HIDE DEF n, o, e
  <2>3. Fraction(t) <= Fraction(u)
    BY <2>2, QuotientOrder
  <2>4. CutFraction(t) <= CutFraction(u)
    BY <2>2, <2>3 DEF CutFraction
  <2> QED
    BY <1>5, <1>8, <2>4 DEF a, b, f, g
<1> QED
  BY <1>2, <1>3, <1>4, <1>5

-----------------------------------------------------------------------------
(* Appending                                                               *)

LEMMA AppendFacts ==
  ASSUME NEW S, NEW q \in Seq(S), NEW e \in S
  PROVE  /\ Append(q, e) \in Seq(S)
         /\ Len(q) \in Nat
         /\ Len(Append(q, e)) = Len(q) + 1
         /\ \A n \in 1 .. Len(q) : Append(q, e)[n] = q[n]
         /\ Append(q, e)[Len(q) + 1] = e
  OBVIOUS

\* Reading an item leaves the items before it where they are.
LEMMA ReadsFacts ==
  ASSUME TypeOK, NEW kind \in Words \cup Marks \cup {"blank"}, NEW s \in Nat, NEW e \in Nat,
         Reads(kind, s, e)
  PROVE  /\ items' \in Seq(Item)
         /\ ~done
         /\ Position \in Nat
         /\ Len(items) \in Nat
         /\ Len(items') = Position
         /\ Position = Len(items) + 1
         /\ \A i \in 1 .. Len(items) : items'[i] = items[i]
         /\ items'[Position] = [kind |-> kind, start |-> s, end |-> e]
<1>1. [kind |-> kind, start |-> s, end |-> e] \in Item
  BY DEF Item
<1> QED
  BY <1>1, AppendFacts DEF TypeOK, Reads, Position

LEMMA SegmentTypes ==
  ASSUME TypeOK
  PROVE  /\ Len(segments) \in Nat
         /\ \A n \in SegmentRange : /\ segments[n] \in Segment
                                    /\ segments[n].end \in Nat
                                    /\ segments[n].start \in Nat
<1>1. Len(segments) \in Nat /\ \A n \in SegmentRange : segments[n] \in Segment
  BY DEF TypeOK, SegmentRange
<1> QED
  BY <1>1 DEF Segment

-----------------------------------------------------------------------------
(* The open segment after an item                                          *)

\* A word extends the open segment, or starts it after the segments flushed before.
LEMMA WithWordFits ==
  ASSUME SegmentsInv, NEW kind \in Words, NEW s \in Nat, NEW e \in Nat,
         clock <= s, s <= e, Reads(kind, s, e)
  PROVE  Fits(WithWord(current, Position, s, e), items', e)
<1> DEFINE open == WithWord(current, Position, s, e)
<1>1. TypeOK /\ SegmentsTile /\ Fits(current, items, clock)
  BY DEF SegmentsInv
<1>2. /\ Len(items) \in Nat /\ Position = Len(items) + 1 /\ Len(items') = Position
      /\ \A i \in 1 .. Len(items) : items'[i] = items[i]
      /\ items'[Position] = [kind |-> kind, start |-> s, end |-> e]
  BY <1>1, ReadsFacts
<1>3. /\ open.start = IF current.start < 0 THEN s ELSE current.start
      /\ open.end = e
      /\ open.words = current.words + 1
      /\ open.text = current.text \cup {Position}
  BY DEF WithWord
<1>4. OpenType(open)
  <2>1. current \in [start : Nat \cup {NotStarted}, end : Nat, words : Nat, text : SUBSET Nat]
    BY <1>1 DEF TypeOK
  <2>2. open.start \in Nat /\ open.text \in SUBSET Nat /\ open.words \in Nat
    BY <1>2, <1>3, <2>1 DEF NotStarted
  <2> QED
    BY <2>2, <1>3 DEF OpenType, WithWord, NotStarted
<1>5. Continues(open, items')
  BY <1>1, <1>2, <1>3 DEF Fits, Continues, SegmentsTile, SegmentIsSound, SegmentRange
<1>6. ContinuesInTime(open, e)
  <2>1. ~done
    BY DEF Reads
  <2>2. CASE current.text = {}
    <3>1. open.start = s
      BY <1>1, <1>3, <2>2 DEF TypeOK, NotStarted
    <3>2. \A n \in SegmentRange : segments[n].end <= s
      <4>1. TAKE n \in SegmentRange
      <4>2. segments[n].end \in Nat /\ clock \in Nat
        BY <1>1, SegmentTypes DEF TypeOK
      <4>3. segments[n].end <= clock
        BY <1>1, <2>1 DEF SegmentsTile, SegmentIsSound
      <4> QED
        BY <4>2, <4>3
    <3> QED
      BY <1>3, <3>1, <3>2 DEF ContinuesInTime
  <2>3. CASE current.text # {}
    <3>1. current.start \in Nat /\ open.start = current.start
      BY <1>1, <1>3, <2>3 DEF TypeOK, NotStarted
    <3> QED
      BY <1>1, <1>3, <2>3, <3>1 DEF Fits, ContinuesInTime, TypeOK
  <2> QED
    BY <2>2, <2>3
<1>7. TextIsTimed(open, items')
  <2> SUFFICES ASSUME NEW i \in open.text, items'[i].kind \in Words
               PROVE  /\ (\A k \in open.text : i <= k) => open.start = items'[i].start
                      /\ (\A k \in open.text : items'[k].kind \in Words => k <= i)
                            => open.end = items'[i].end
    BY DEF TextIsTimed
  <2>1. current.text \subseteq 1 .. Len(items)
    BY <1>1 DEF Fits, Continues
  <2>2. CASE i = Position
    <3>1. (\A k \in open.text : i <= k) => current.text = {}
      BY <1>2, <1>3, <2>1, <2>2
    <3>2. current.text = {} => open.start = s
      BY <1>1, <1>3 DEF TypeOK, NotStarted
    <3> QED
      BY <1>2, <1>3, <2>2, <3>1, <3>2
  <2>3. CASE i # Position
    <3>1. i \in current.text /\ current.text # {} /\ items'[i] = items[i] /\ i < Position
      BY <1>2, <1>3, <2>1, <2>3
    <3>2. open.start = current.start
      BY <1>1, <1>3, <3>1 DEF TypeOK, NotStarted
    <3>3. (\A k \in open.text : i <= k) => open.start = items'[i].start
      BY <1>1, <1>3, <3>1, <3>2 DEF Fits, TextIsTimed
    <3>4. Position \in open.text /\ items'[Position].kind \in Words /\ ~(Position <= i)
      BY <1>2, <1>3, <2>1, <3>1 DEF Words
    <3> QED
      BY <3>3, <3>4
  <2> QED
    BY <2>2, <2>3
<1>8. TextHasNoGap(open.text, items', Len(items'))
  BY <1>1, <1>2, <1>3 DEF Fits, TextHasNoGap, Continues
<1> QED
  BY <1>4, <1>5, <1>6, <1>7, <1>8 DEF Fits

\* A mark, glued to the last word or dropped, changes neither times nor words.
LEMMA WithMarkFits ==
  ASSUME SegmentsInv, NEW mark \in Marks, Reads(mark, 0, 0)
  PROVE  /\ Fits(WithMark(current, Position), items', clock)
         /\ WithMark(current, Position).words = current.words
<1> DEFINE open == WithMark(current, Position)
<1>1. TypeOK /\ SegmentsTile /\ Fits(current, items, clock)
  BY DEF SegmentsInv
<1>2. /\ Len(items) \in Nat /\ Position = Len(items) + 1 /\ Len(items') = Position
      /\ \A i \in 1 .. Len(items) : items'[i] = items[i]
      /\ items'[Position] = [kind |-> mark, start |-> 0, end |-> 0]
  BY <1>1, ReadsFacts
<1>3. mark \notin Words
  BY DEF Marks, Words
<1>4. /\ current \in [start : Nat \cup {NotStarted}, end : Nat, words : Nat, text : SUBSET Nat]
      /\ current.text \subseteq 1 .. Len(items)
      /\ current.start = NotStarted <=> current.text = {}
  BY <1>1 DEF TypeOK, Fits, Continues
<1>5. /\ open.start = current.start /\ open.end = current.end /\ open.words = current.words
      /\ open.text = IF current.text # {} THEN current.text \cup {Position} ELSE {}
  BY <1>4 DEF WithMark
<1>6. OpenType(open)
  BY <1>2, <1>4, <1>5 DEF OpenType, WithMark
<1>7. Continues(open, items')
  BY <1>1, <1>2, <1>3, <1>5 DEF Fits, Continues, SegmentsTile, SegmentIsSound, SegmentRange
<1>8. ContinuesInTime(open, clock)
  BY <1>1, <1>5 DEF Fits, ContinuesInTime
<1>9. TextIsTimed(open, items')
  <2> SUFFICES ASSUME NEW i \in open.text, items'[i].kind \in Words
               PROVE  /\ (\A k \in open.text : i <= k) => open.start = items'[i].start
                      /\ (\A k \in open.text : items'[k].kind \in Words => k <= i)
                            => open.end = items'[i].end
    BY DEF TextIsTimed
  <2>1. i \in current.text /\ items'[i] = items[i] /\ current.text \subseteq open.text
    BY <1>2, <1>3, <1>4, <1>5
  <2>2. (\A k \in open.text : i <= k) => open.start = items'[i].start
    BY <1>1, <1>5, <2>1 DEF Fits, TextIsTimed
  <2>3. ASSUME \A k \in open.text : items'[k].kind \in Words => k <= i
        PROVE  open.end = items'[i].end
    <3>1. \A k \in current.text : items[k].kind \in Words => k <= i
      BY <1>2, <1>4, <2>1, <2>3
    <3> QED
      BY <1>1, <1>5, <2>1, <3>1 DEF Fits, TextIsTimed
  <2> QED
    BY <2>2, <2>3
<1>10. TextHasNoGap(open.text, items', Len(items'))
  <2> SUFFICES ASSUME NEW i \in open.text, NEW k \in i .. Position,
                      items'[k].kind # "blank"
               PROVE  k \in open.text
    BY <1>2 DEF TextHasNoGap
  <2>1. i \in Int /\ current.text # {} /\ open.text = current.text \cup {Position}
    BY <1>2, <1>4, <1>5
  <2>2. CASE k = Position
    BY <2>1, <2>2
  <2>3. CASE k # Position
    <3>1. i \in current.text /\ k \in i .. Len(items) /\ k \in 1 .. Len(items)
      BY <1>2, <1>4, <2>1, <2>3
    <3>2. items[k].kind # "blank"
      BY <1>2, <3>1
    <3> QED
      BY <1>1, <2>1, <3>1, <3>2 DEF Fits, TextHasNoGap
  <2> QED
    BY <2>2, <2>3
<1> QED
  BY <1>5, <1>6, <1>7, <1>8, <1>9, <1>10 DEF Fits

-----------------------------------------------------------------------------
(* Keeping and flushing a segment that fits                                *)

\* What the items read after a flushed segment cannot change about it.
LEMMA SoundnessStays ==
  ASSUME SegmentsInv, ~done, clock' \in Nat, clock <= clock',
         Len(items') \in Nat, Len(items) <= Len(items'),
         \A i \in 1 .. Len(items) : items'[i] = items[i],
         NEW n \in SegmentRange, segments'[n] = segments[n]
  PROVE  SegmentIsSound(n)'
<1>1. TypeOK /\ SegmentIsSound(n)
  BY DEF SegmentsInv, SegmentsTile
<1>2. segments[n].end \in Nat /\ clock \in Nat /\ Len(items) \in Nat
  BY <1>1, SegmentTypes DEF TypeOK
<1>3. segments[n].end <= clock'
  BY <1>1, <1>2 DEF SegmentIsSound
<1>4. \A i \in segments[n].text : i \in 1 .. Len(items) /\ items'[i] = items[i]
  BY <1>1 DEF SegmentIsSound
<1>5. TextIsTimed(segments[n], items')
  BY <1>1, <1>4 DEF SegmentIsSound, TextIsTimed
<1>6. \A k \in segments[n].text : TextHasNoGap(segments[n].text, items', k)
  <2> SUFFICES ASSUME NEW k \in segments[n].text, NEW i \in segments[n].text,
                      NEW j \in i .. k, items'[j].kind # "blank"
               PROVE  j \in segments[n].text
    BY DEF TextHasNoGap
  <2>1. j \in 1 .. Len(items) /\ items'[j] = items[j]
    BY <1>2, <1>4
  <2> QED
    BY <1>1, <2>1 DEF SegmentIsSound, TextHasNoGap
<1>7. segments[n].text \subseteq 1 .. Len(items')
  BY <1>2, <1>4
<1> QED
  BY <1>1, <1>3, <1>5, <1>6, <1>7 DEF SegmentIsSound, TextIsTimed, TextHasNoGap

\* What an item read, or the end of the answer, leaves of the invariant but its counters.
SegmentsFit == TypeOK /\ SegmentsTile /\ Fits(current, items, clock)

\* An open segment that fits may be kept if it is not full.
LEMMA KeepStep ==
  ASSUME SegmentsInv, ~done, provider' = provider,
         clock' \in Nat, clock <= clock', fullText' \in BOOLEAN, done' \in BOOLEAN,
         items' \in Seq(Item), Len(items) <= Len(items'),
         \A i \in 1 .. Len(items) : items'[i] = items[i],
         NEW open, Fits(open, items', clock'), open.words < MaxWords, KeepSegment(open)
  PROVE  SegmentsFit' /\ segments' = segments /\ seqNum' = seqNum /\ current' = open
<1>1. TypeOK /\ SegmentsTile
  BY DEF SegmentsInv
<1>2. segments' = segments /\ seqNum' = seqNum /\ current' = open
  BY DEF KeepSegment
<1>3. TypeOK'
  BY <1>1, <1>2 DEF TypeOK, Fits, OpenType
<1>4. Len(items') \in Nat
  OBVIOUS
<1>5. \A n \in SegmentRange : SegmentIsSound(n)'
  BY <1>2, <1>4, SoundnessStays
<1>6. SegmentsTile'
  BY <1>1, <1>2, <1>5 DEF SegmentsTile, SegmentRange
<1>7. Fits(current, items, clock)'
  BY <1>2 DEF Fits, OpenType, Continues, ContinuesInTime, TextIsTimed, TextHasNoGap, SegmentRange
<1> QED
  BY <1>2, <1>3, <1>6, <1>7 DEF SegmentsFit

\* An open segment that fits and has a word may be flushed.
LEMMA FlushStep ==
  ASSUME SegmentsInv, ~done, provider' = provider,
         clock' \in Nat, clock <= clock', fullText' \in BOOLEAN, done' \in BOOLEAN,
         items' \in Seq(Item), Len(items) <= Len(items'),
         \A i \in 1 .. Len(items) : items'[i] = items[i],
         NEW open, Fits(open, items', clock'), open.text # {},
         segments' = Append(segments, Numbered(open, Len(segments) + 1)),
         current' = EmptySegment, seqNum' \in Nat \ {0}
  PROVE  SegmentsFit' /\ Len(segments') = Len(segments) + 1
<1> DEFINE new == Numbered(open, Len(segments) + 1)
<1>0. PICK last \in Nat : last = Len(segments) + 1
  BY SegmentTypes DEF SegmentsInv
<1>1. TypeOK /\ SegmentsTile
  BY DEF SegmentsInv
<1>2. segments' = Append(segments, new)
  OBVIOUS
<1>3. /\ open.start \in Nat /\ open.end \in Nat /\ open.text \in SUBSET Nat
      /\ Len(segments) + 1 \in Nat
  BY <1>1, SegmentTypes DEF Fits, OpenType, NotStarted
<1>4. new \in Segment /\ new.number = Len(segments) + 1 /\ new.start = open.start /\ new.end = open.end
        /\ new.text = open.text
  BY <1>3 DEF Numbered, Segment
<1>5. /\ segments' \in Seq(Segment)
      /\ Len(segments) \in Nat /\ Len(segments') = last
      /\ \A n \in SegmentRange : segments'[n] = segments[n]
      /\ segments'[last] = new
  BY <1>0, <1>1, <1>2, <1>4, AppendFacts DEF TypeOK, SegmentRange
<1>6. SegmentRange' = SegmentRange \cup {last}
  BY <1>0, <1>5 DEF SegmentRange
<1>7. TypeOK'
  BY <1>1, <1>2, <1>3, <1>5, SegmentsAssumption DEF TypeOK, EmptySegment, NotStarted
<1>8. Len(items') \in Nat
  OBVIOUS
<1>9. SegmentIsSound(last)'
  <2>1. open.start <= open.end /\ open.end = clock'
    BY DEF Fits, ContinuesInTime
  <2>2. TextIsTimed(new, items')
    BY <1>4 DEF Fits, TextIsTimed
  <2>3. \A k \in open.text : TextHasNoGap(open.text, items', k)
    BY <1>8, <1>3 DEF Fits, TextHasNoGap, Continues
  <2>4. open.text \subseteq 1 .. Len(items')
    BY DEF Fits, Continues
  <2> QED
    <3> HIDE DEF new
    <3>1. /\ segments'[last] = new
          /\ new.number = last /\ new.start <= new.end /\ new.end <= clock'
          /\ new.text \subseteq 1 .. Len(items')
      BY <1>0, <1>3, <1>4, <1>5, <2>1, <2>4
    <3>2. \A k \in new.text : TextHasNoGap(new.text, items', k)
      BY <1>4, <2>3
    <3> QED
      BY <2>2, <3>1, <3>2 DEF SegmentIsSound, TextIsTimed, TextHasNoGap
<1>10. \A n \in SegmentRange : SegmentIsSound(n)'
  BY <1>5, <1>8, SoundnessStays
<1>11. SegmentsTile'
  <2>1. ASSUME NEW m \in SegmentRange', NEW n \in SegmentRange', m < n
        PROVE  /\ segments'[m].end <= segments'[n].start
               /\ \A i \in segments'[m].text, k \in segments'[n].text : i < k
    <3>1. m \in SegmentRange
      BY <1>5, <1>6, <2>1 DEF SegmentRange
    <3>2. CASE n \in SegmentRange
      BY <1>1, <1>5, <2>1, <3>1, <3>2 DEF SegmentsTile
    <3>3. CASE n = last
      BY <1>4, <1>5, <3>1, <3>3 DEF Fits, Continues, ContinuesInTime
    <3> QED
      BY <1>6, <3>2, <3>3
  <2> QED
    <3>1. \A n \in SegmentRange' : SegmentIsSound(n)'
      BY <1>6, <1>9, <1>10
    <3>2. \A m, n \in SegmentRange' : m < n =>
            /\ segments'[m].end <= segments'[n].start
            /\ \A i \in segments'[m].text, k \in segments'[n].text : i < k
      BY <2>1
    <3> QED
      BY <3>1, <3>2 DEF SegmentsTile
<1>12. Fits(current, items, clock)'
  <2>1. OpenType(EmptySegment)
    BY DEF OpenType, EmptySegment, NotStarted
  <2>2. \A i \in 1 .. Len(items') : items'[i].kind \in Words =>
          \E n \in SegmentRange' : i \in segments'[n].text
    BY <1>4, <1>5, <1>6 DEF Fits, Continues
  <2> QED
    BY <1>2, <2>1, <2>2 DEF Fits, OpenType, Continues, ContinuesInTime, TextIsTimed,
                            TextHasNoGap, EmptySegment
<1> QED
  BY <1>0, <1>5, <1>7, <1>11, <1>12 DEF SegmentsFit

\* flushSegment does the one or the other.
LEMMA FlushSegmentStep ==
  ASSUME SegmentsInv, ~done, provider = "aws", provider' = provider,
         clock' \in Nat, clock <= clock', fullText' \in BOOLEAN, done' \in BOOLEAN,
         items' \in Seq(Item), Len(items) <= Len(items'),
         \A i \in 1 .. Len(items) : items'[i] = items[i],
         NEW open, Fits(open, items', clock'), open.text = {} => open.words < MaxWords,
         FlushSegment(open)
  PROVE  SegmentsFit' /\ seqNum' = Len(segments') + 1 /\ current'.text = {}
<1>1. seqNum = Len(segments) + 1 /\ Len(segments) \in Nat
  BY SegmentTypes DEF SegmentsInv, CountersAgree
<1>2. CASE open.text # {}
  <2>1. /\ segments' = Append(segments, Numbered(open, Len(segments) + 1))
        /\ current' = EmptySegment
        /\ seqNum' = seqNum + 1
    BY <1>1, <1>2 DEF FlushSegment
  <2> QED
    BY <1>1, <1>2, <2>1, FlushStep DEF EmptySegment
<1>3. CASE open.text = {}
  <2>1. KeepSegment(open)
    BY <1>3 DEF FlushSegment
  <2> QED
    BY <1>1, <1>3, <2>1, KeepStep
<1> QED
  BY <1>2, <1>3

-----------------------------------------------------------------------------
(* The invariant                                                           *)

LEMMA SegmentsInvInit == Init => SegmentsInv
<1> SUFFICES ASSUME Init PROVE SegmentsInv
  OBVIOUS
<1>1. TypeOK
  <2>1. items = <<>> /\ items \in Seq(Item) /\ segments = <<>> /\ segments \in Seq(Segment)
    BY DEF Init
  <2>2. OpenType(current) /\ current.words = 0 /\ current.text = {}
    BY DEF Init, OpenType, EmptySegment, NotStarted
  <2>3. 0 < MaxWords /\ MaxWords \in Nat
    BY SegmentsAssumption
  <2>4. current.words < MaxWords
    BY <2>2, <2>3
  <2>5. provider \in {"aws", "whisper"} /\ clock \in Nat /\ seqNum \in Nat \ {0}
    BY DEF Init
  <2>6. fullText \in BOOLEAN /\ done \in BOOLEAN
    BY DEF Init
  <2> QED
    BY <2>1, <2>2, <2>4, <2>5, <2>6 DEF TypeOK, OpenType
<1>2. SegmentsTile /\ CountersAgree /\ (done => current.text = {})
  BY DEF Init, SegmentsTile, CountersAgree, SegmentRange, EmptySegment
<1>3. Fits(current, items, clock)
  BY DEF Init, Fits, OpenType, Continues, ContinuesInTime, TextIsTimed, TextHasNoGap,
         SegmentRange, EmptySegment, NotStarted
<1> QED
  BY <1>1, <1>2, <1>3 DEF SegmentsInv

LEMMA ReadWordStep == SegmentsInv /\ ReadWord => SegmentsInv'
<1> SUFFICES ASSUME SegmentsInv, ReadWord PROVE SegmentsInv'
  OBVIOUS
<1>1. PICK s \in Times, e \in Times :
         /\ clock <= s /\ s <= e /\ clock' = e
         /\ Reads("word", s, e)
         /\ \/ /\ IsFull(WithWord(current, Position, s, e))
               /\ FlushSegment(WithWord(current, Position, s, e))
            \/ /\ ~IsFull(WithWord(current, Position, s, e))
               /\ KeepSegment(WithWord(current, Position, s, e))
  BY DEF ReadWord
<1> DEFINE open == WithWord(current, Position, s, e)
<1>2. /\ s \in Nat /\ e \in Nat /\ clock \in Nat /\ clock <= clock' /\ clock' \in Nat
      /\ provider = "aws" /\ provider' = provider /\ fullText' = fullText /\ done' = done
  BY <1>1, SegmentsAssumption DEF ReadWord, SegmentsInv, TypeOK
<1>3. /\ items' \in Seq(Item) /\ ~done /\ Len(items) \in Nat /\ Len(items') = Len(items) + 1
      /\ \A i \in 1 .. Len(items) : items'[i] = items[i]
  BY <1>1, <1>2, ReadsFacts DEF Words, SegmentsInv
<1>4. Fits(open, items', clock')
  BY <1>1, <1>2, WithWordFits DEF Words
<1>5. open.text # {} /\ open.words = current.words + 1
  BY DEF WithWord
<1>6. seqNum = Len(segments) + 1 /\ fullText \in BOOLEAN /\ done \in BOOLEAN
  BY <1>2, <1>3 DEF SegmentsInv, CountersAgree, TypeOK
<1> HIDE DEF open
<1>7. SegmentsFit' /\ seqNum' = Len(segments') + 1
  <2>1. CASE IsFull(open) /\ FlushSegment(open)
    BY <1>2, <1>3, <1>4, <1>5, <1>6, <2>1, FlushSegmentStep
  <2>2. CASE ~IsFull(open) /\ KeepSegment(open)
    <3>1. open.words < MaxWords
      BY <1>5, <2>2, SegmentsAssumption DEF IsFull, SegmentsInv, TypeOK
    <3> QED
      BY <1>2, <1>3, <1>4, <1>6, <2>2, <3>1, KeepStep
  <2> QED
    BY <1>1, <2>1, <2>2 DEF open
<1> QED
  BY <1>2, <1>3, <1>7 DEF SegmentsInv, SegmentsFit, CountersAgree

LEMMA ReadMarkStep == SegmentsInv /\ ReadMark => SegmentsInv'
<1> SUFFICES ASSUME SegmentsInv, ReadMark PROVE SegmentsInv'
  OBVIOUS
<1>1. PICK mark \in Marks :
         /\ Reads(mark, 0, 0)
         /\ \/ FlushSegment(WithMark(current, Position))
            \/ KeepSegment(WithMark(current, Position))
  BY DEF ReadMark
<1> DEFINE open == WithMark(current, Position)
<1>2. /\ clock \in Nat /\ clock <= clock' /\ clock' = clock
      /\ provider = "aws" /\ provider' = provider /\ fullText' = fullText /\ done' = done
  BY DEF ReadMark, SegmentsInv, TypeOK
<1>3. /\ items' \in Seq(Item) /\ ~done /\ Len(items) \in Nat /\ Len(items') = Len(items) + 1
      /\ \A i \in 1 .. Len(items) : items'[i] = items[i]
  BY <1>1, ReadsFacts DEF SegmentsInv
<1>4. Fits(open, items', clock') /\ open.words < MaxWords
  BY <1>1, <1>2, WithMarkFits DEF SegmentsInv, TypeOK
<1>5. seqNum = Len(segments) + 1 /\ fullText \in BOOLEAN /\ done \in BOOLEAN
  BY <1>2, <1>3 DEF SegmentsInv, CountersAgree, TypeOK
<1>6. FlushSegment(open) \/ KeepSegment(open)
  BY <1>1
<1> HIDE DEF open
<1>7. SegmentsFit' /\ seqNum' = Len(segments') + 1
  BY <1>2, <1>3, <1>4, <1>5, <1>6, FlushSegmentStep, KeepStep
<1> QED
  BY <1>2, <1>3, <1>7 DEF SegmentsInv, SegmentsFit, CountersAgree

LEMMA ReadBlankStep == SegmentsInv /\ ReadBlank => SegmentsInv'
<1> SUFFICES ASSUME SegmentsInv, ReadBlank PROVE SegmentsInv'
  OBVIOUS
<1>1. /\ clock \in Nat /\ clock <= clock' /\ clock' = clock
      /\ provider = "aws" /\ provider' = provider /\ fullText' = fullText /\ done' = done
      /\ KeepSegment(current) /\ fullText \in BOOLEAN /\ done \in BOOLEAN
      /\ current.words < MaxWords
  BY DEF ReadBlank, SegmentsInv, TypeOK, KeepSegment
<1>2. /\ items' \in Seq(Item) /\ ~done /\ Len(items) \in Nat
      /\ Position = Len(items) + 1 /\ Len(items') = Position
      /\ \A i \in 1 .. Len(items) : items'[i] = items[i]
      /\ items'[Position].kind = "blank"
  <2>1. TypeOK /\ Reads("blank", 0, 0) /\ "blank" \in Words \cup Marks \cup {"blank"}
    BY DEF ReadBlank, SegmentsInv
  <2>2. /\ items' \in Seq(Item) /\ ~done /\ Len(items) \in Nat
        /\ Position = Len(items) + 1 /\ Len(items') = Position
        /\ \A i \in 1 .. Len(items) : items'[i] = items[i]
        /\ items'[Position] = [kind |-> "blank", start |-> 0, end |-> 0]
    BY <2>1, ReadsFacts
  <2> QED
    BY <2>2
<1>3. Fits(current, items', clock')
  <2>1. Fits(current, items, clock) /\ current.text \subseteq 1 .. Len(items)
    BY DEF SegmentsInv, Fits, Continues
  <2>2. Continues(current, items')
    BY <1>2, <2>1 DEF Fits, Continues, Words
  <2>3. TextIsTimed(current, items')
    BY <1>2, <2>1 DEF Fits, TextIsTimed
  <2>4. TextHasNoGap(current.text, items', Len(items'))
    BY <1>2, <2>1 DEF Fits, TextHasNoGap
  <2> QED
    BY <1>1, <2>1, <2>2, <2>3, <2>4 DEF Fits
<1>4. SegmentsFit' /\ seqNum' = Len(segments') + 1
  BY <1>1, <1>2, <1>3, KeepStep DEF SegmentsInv, CountersAgree
<1> QED
  BY <1>1, <1>2, <1>4 DEF SegmentsInv, SegmentsFit, CountersAgree

LEMMA EndOfItemsStep == SegmentsInv /\ EndOfItems => SegmentsInv'
<1> SUFFICES ASSUME SegmentsInv, EndOfItems PROVE SegmentsInv'
  OBVIOUS
<1>1. /\ ~done /\ done' = TRUE /\ fullText' \in BOOLEAN
      /\ provider = "aws" /\ provider' = provider /\ items' = items /\ clock' = clock
  BY DEF EndOfItems
<1>2. TypeOK /\ SegmentsTile /\ Fits(current, items, clock)
  BY DEF SegmentsInv
<1>3. clock \in Nat /\ items \in Seq(Item) /\ Len(items) \in Nat /\ current.words < MaxWords
  BY <1>2 DEF TypeOK
<1>4. CASE FlushLast(current)
  <2>1. SegmentsFit' /\ current'.text = {}
    <3>1. Fits(current, items', clock')
      BY <1>1, <1>2
    <3>2. FlushSegment(current)
      BY <1>4 DEF FlushLast
    <3>3. PICK open : open = current
      OBVIOUS
    <3>4. Fits(open, items', clock') /\ open.words < MaxWords /\ FlushSegment(open)
      BY <1>3, <3>1, <3>2, <3>3
    <3> QED
      BY <1>1, <1>3, <3>4, FlushSegmentStep
  <2>2. provider' = "aws"
    BY <1>1
  <2> QED
    BY <1>1, <2>1, <2>2 DEF SegmentsInv, SegmentsFit, CountersAgree
<1>5. CASE /\ NeedsFallback(fullText')
           /\ segments' = <<FallbackSegment>>
           /\ UNCHANGED <<current, seqNum>>
  <2>1. segments = <<>> /\ current.text = {} /\ current' = current /\ seqNum' = seqNum
    BY <1>5 DEF NeedsFallback
  <2>2. /\ FallbackSegment \in Segment
        /\ FallbackSegment.number = 1 /\ FallbackSegment.text = {}
        /\ FallbackSegment.start <= FallbackSegment.end
    BY SegmentsAssumption DEF FallbackSegment, Segment, TicksPerSecond
  <2>3. /\ segments' \in Seq(Segment) /\ Len(segments') = 1
        /\ segments'[1] = FallbackSegment /\ SegmentRange' = {1}
    BY <1>5, <2>2 DEF SegmentRange
  <2>4. TypeOK'
    BY <1>1, <1>2, <2>1, <2>3 DEF TypeOK
  <2>5. SegmentIsSound(1)'
    BY <1>1, <2>2, <2>3 DEF SegmentIsSound, TextIsTimed, TextHasNoGap
  <2>6. SegmentsTile'
    BY <2>3, <2>5 DEF SegmentsTile
  <2>7. \A i \in 1 .. Len(items) : items[i].kind \notin Words
    BY <1>2, <2>1 DEF Fits, Continues, SegmentRange
  <2>8. Fits(current, items, clock)'
    BY <1>1, <1>2, <2>1, <2>7 DEF Fits, Continues, ContinuesInTime, OpenType, TextIsTimed,
                                  TextHasNoGap
  <2> QED
    BY <1>1, <2>1, <2>4, <2>6, <2>8 DEF SegmentsInv, CountersAgree
<1> QED
  BY <1>4, <1>5 DEF EndOfItems

LEMMA ReadPhraseStep == SegmentsInv /\ ReadPhrase => SegmentsInv'
<1> SUFFICES ASSUME SegmentsInv, ReadPhrase PROVE SegmentsInv'
  OBVIOUS
<1>1. PICK s \in Times, e \in Times :
         /\ clock <= s /\ s <= e /\ clock' = e
         /\ Reads("phrase", s, e)
         /\ segments' = Append(segments, [number |-> Position, start |-> s, end |-> e,
                                          text |-> {Position}])
  BY DEF ReadPhrase
<1>2. /\ s \in Nat /\ e \in Nat /\ clock \in Nat /\ clock <= clock' /\ clock' \in Nat
      /\ provider = "whisper" /\ provider' = provider /\ fullText' = fullText /\ done' = done
      /\ current' = current /\ seqNum' = seqNum
  BY <1>1, SegmentsAssumption DEF ReadPhrase, SegmentsInv, TypeOK
<1>3. /\ items' \in Seq(Item) /\ ~done /\ Len(items) \in Nat
      /\ Position = Len(items) + 1 /\ Len(items') = Len(items) + 1
      /\ \A i \in 1 .. Len(items) : items'[i] = items[i]
  BY <1>1, <1>2, ReadsFacts DEF Words, SegmentsInv
<1>4. /\ Len(segments) = Len(items) /\ current = EmptySegment /\ seqNum \in Nat \ {0}
      /\ fullText \in BOOLEAN /\ done \in BOOLEAN
  BY <1>2, <1>3 DEF SegmentsInv, CountersAgree, TypeOK
<1>5. PICK open : open = WithWord(current, Position, s, e)
  OBVIOUS
<1>6. Fits(open, items', clock')
  BY <1>1, <1>2, <1>5, WithWordFits DEF Words
<1>7. open.start = s /\ open.end = e /\ open.text = {Position}
  BY <1>4, <1>5 DEF WithWord, EmptySegment, NotStarted
<1>8. segments' = Append(segments, Numbered(open, Len(segments) + 1))
  BY <1>1, <1>3, <1>4, <1>7 DEF Numbered
<1>9. SegmentsFit' /\ Len(segments') = Len(segments) + 1
  <2>1. /\ open.text # {} /\ current' = EmptySegment /\ seqNum' \in Nat \ {0}
        /\ fullText' \in BOOLEAN /\ done' \in BOOLEAN /\ Len(items) <= Len(items')
    BY <1>2, <1>3, <1>4, <1>7
  <2> QED
    BY <1>2, <1>3, <1>6, <1>8, <2>1, FlushStep
<1> QED
  BY <1>2, <1>3, <1>4, <1>9 DEF SegmentsInv, SegmentsFit, CountersAgree

LEMMA EndOfPhrasesStep == SegmentsInv /\ EndOfPhrases => SegmentsInv'
<1> SUFFICES ASSUME SegmentsInv, EndOfPhrases PROVE SegmentsInv'
  OBVIOUS
<1>1. /\ ~done /\ done' = TRUE /\ fullText' \in BOOLEAN
      /\ provider = "whisper" /\ provider' = provider /\ items' = items /\ clock' = clock
      /\ current' = current /\ segments' = segments /\ seqNum' = seqNum
  BY DEF EndOfPhrases
<1>2. TypeOK /\ SegmentsTile /\ Fits(current, items, clock) /\ current = EmptySegment
  BY <1>1 DEF SegmentsInv, CountersAgree
<1>3. TypeOK'
  BY <1>1, <1>2 DEF TypeOK
<1>4. SegmentsTile'
  BY <1>1, <1>2 DEF SegmentsTile, SegmentRange, SegmentIsSound, TextIsTimed, TextHasNoGap
<1>5. Fits(current, items, clock)'
  BY <1>1, <1>2 DEF Fits, OpenType, Continues, ContinuesInTime, TextIsTimed, TextHasNoGap,
                    SegmentRange
<1>6. CountersAgree' /\ current'.text = {}
  BY <1>1, <1>2 DEF CountersAgree, EmptySegment
<1> QED
  BY <1>3, <1>4, <1>5, <1>6 DEF SegmentsInv

LEMMA SegmentsInvStutter == SegmentsInv /\ UNCHANGED vars => SegmentsInv'
<1> SUFFICES ASSUME SegmentsInv, UNCHANGED vars PROVE SegmentsInv'
  OBVIOUS
<1>1. TypeOK' /\ CountersAgree' /\ (done => current.text = {})'
  BY DEF vars, SegmentsInv, TypeOK, CountersAgree
<1>2. SegmentsTile'
  BY DEF vars, SegmentsInv, SegmentsTile, SegmentRange, SegmentIsSound, TextIsTimed,
         TextHasNoGap
<1>3. Fits(current, items, clock)'
  BY DEF vars, SegmentsInv, SegmentRange, Fits, OpenType, Continues, ContinuesInTime,
         TextIsTimed, TextHasNoGap
<1> QED
  BY <1>1, <1>2, <1>3 DEF SegmentsInv

\* The invariant holds in every reachable state.
THEOREM SegmentsInvariance == Spec => []SegmentsInv
<1>1. SegmentsInv /\ [Next]_vars => SegmentsInv'
  BY ReadWordStep, ReadMarkStep, ReadBlankStep, EndOfItemsStep, ReadPhraseStep,
     EndOfPhrasesStep, SegmentsInvStutter DEF Next
<1> QED
  BY <1>1, SegmentsInvInit, PTL DEF Spec

-----------------------------------------------------------------------------
(* The properties                                                          *)

\* Types, and the limits of the open segment.
THEOREM SegmentTypeCorrect == Spec => []TypeOK
<1>1. SegmentsInv => TypeOK
  BY DEF SegmentsInv
<1> QED
  BY <1>1, SegmentsInvariance, PTL

\* No word of an answer, however long, is lost, repeated or moved.
THEOREM WordsKept == Spec => []EveryWordOnce
<1>1. SegmentsInv => EveryWordOnce
  <2> SUFFICES ASSUME SegmentsInv PROVE EveryWordOnce
    OBVIOUS
  <2>1. DOMAIN items = 1 .. Len(items) /\ DOMAIN segments = SegmentRange
    BY DEF SegmentsInv, TypeOK, SegmentRange
  <2> QED
    BY <2>1 DEF SegmentsInv, SegmentsTile, Fits, Continues, EveryWordOnce
<1> QED
  BY <1>1, SegmentsInvariance, PTL

\* A mark is only ever lost between two segments.
THEOREM MarksKept == Spec => []MarksLostOnlyBetweenSegments
<1>1. SegmentsInv => MarksLostOnlyBetweenSegments
  <2> SUFFICES ASSUME SegmentsInv PROVE MarksLostOnlyBetweenSegments
    OBVIOUS
  <2>1. DOMAIN segments = SegmentRange
    BY DEF SegmentsInv, TypeOK, SegmentRange
  <2>2. \A n \in SegmentRange : \A k \in segments[n].text :
          TextHasNoGap(segments[n].text, items, k)
    BY DEF SegmentsInv, SegmentsTile, SegmentIsSound
  <2> QED
    BY <2>1, <2>2 DEF MarksLostOnlyBetweenSegments, TextHasNoGap
<1> QED
  BY <1>1, SegmentsInvariance, PTL

\* Cues are numbered as their rows are, and in playing order, down to the millisecond.
THEOREM CuesOrdered == Spec => []CuesInOrder
<1>1. SegmentsInv => CuesInOrder
  <2> SUFFICES ASSUME SegmentsInv PROVE CuesInOrder
    OBVIOUS
  <2>1. /\ DOMAIN segments = SegmentRange
        /\ \A n \in SegmentRange : segments[n].start \in Nat /\ segments[n].end \in Nat
    BY SegmentTypes DEF SegmentsInv, TypeOK, SegmentRange
  <2>2. \A n \in SegmentRange : segments[n].number = n /\ segments[n].start <= segments[n].end
    BY DEF SegmentsInv, SegmentsTile, SegmentIsSound
  <2>3. \A m, n \in SegmentRange : m < n => segments[m].end <= segments[n].start
    BY DEF SegmentsInv, SegmentsTile
  <2>4. \A n \in SegmentRange : /\ segments[n].number = Cue(n).number
                                /\ StampMillis(Cue(n).from) <= StampMillis(Cue(n).to)
    BY <2>1, <2>2, StampMonotone DEF Cue
  <2>5. \A m, n \in SegmentRange : m < n => StampMillis(Cue(m).to) <= StampMillis(Cue(n).from)
    BY <2>1, <2>3, StampMonotone DEF Cue
  <2> QED
    BY <2>1, <2>4, <2>5 DEF CuesInOrder
<1> QED
  BY <1>1, SegmentsInvariance, PTL

\* Every cue shows when its words were said, to the nearest millisecond; a time in the last
\* half millisecond of a second is shown by less than a millisecond early.
THEOREM CuesAccurate == Spec => []CuesMatchSpeech
<1>1. SegmentsInv => CuesMatchSpeech
  <2> SUFFICES ASSUME SegmentsInv, NEW n \in SegmentRange, NEW i \in segments[n].text,
                      items[i].kind \in Words
               PROVE  /\ (\A k \in segments[n].text : i <= k)
                            => CloseTo(Cue(n).from, items[i].start)
                      /\ (\A k \in segments[n].text : items[k].kind \in Words => k <= i)
                            => CloseTo(Cue(n).to, items[i].end)
    <3>1. SegmentsInv => DOMAIN segments = SegmentRange
      BY DEF SegmentsInv, TypeOK, SegmentRange
    <3> QED
      BY <3>1 DEF CuesMatchSpeech
  <2>1. TextIsTimed(segments[n], items)
    BY DEF SegmentsInv, SegmentsTile, SegmentIsSound
  <2>2. segments[n].start \in Nat /\ segments[n].end \in Nat
    BY SegmentTypes DEF SegmentsInv
  <2>3. /\ CloseTo(Cue(n).from, segments[n].start)
        /\ CloseTo(Cue(n).to, segments[n].end)
    BY <2>2, StampAccurate DEF Cue
  <2> QED
    BY <2>1, <2>3 DEF TextIsTimed
<1> QED
  BY <1>1, SegmentsInvariance, PTL

-----------------------------------------------------------------------------
(* What a viewer can read                                                  *)

\* Counting the words of a text: the item that is read behind it adds one when it is a word.
LEMMA WordsCounted ==
  ASSUME NEW text \in SUBSET (1 .. Len(items)),
         Len(items) \in Nat, Position = Len(items) + 1,
         \A i \in 1 .. Len(items) : items'[i] = items[i]
  PROVE  /\ Cardinality(WordsOf(text, items)) \in Nat
         /\ Cardinality(WordsOf(text \cup {Position}, items')) =
              Cardinality(WordsOf(text, items))
                + IF items'[Position].kind = "word" THEN 1 ELSE 0
<1>1. WordsOf(text, items') = WordsOf(text, items)
  BY DEF WordsOf
<1>2. WordsOf(text, items) \in SUBSET (1 .. Len(items))
  BY DEF WordsOf
<1>3. IsFiniteSet(WordsOf(text, items))
  <2>1. IsFiniteSet(1 .. Len(items))
    BY FS_Interval
  <2> QED
    BY <1>2, <2>1, FS_Subset
<1>4. Cardinality(WordsOf(text, items)) \in Nat
  BY <1>3, FS_CardinalityType
<1>5. CASE items'[Position].kind = "word"
  <2>1. WordsOf(text \cup {Position}, items') = WordsOf(text, items) \cup {Position}
    BY <1>1, <1>5 DEF WordsOf
  <2>2. Position \notin WordsOf(text, items)
    BY <1>2
  <2>3. Cardinality(WordsOf(text, items) \cup {Position}) = Cardinality(WordsOf(text, items)) + 1
    BY <1>3, <2>2, FS_AddElement
  <2> QED
    BY <1>4, <1>5, <2>1, <2>3
<1>6. CASE items'[Position].kind # "word"
  <2>1. WordsOf(text \cup {Position}, items') = WordsOf(text, items)
    BY <1>1, <1>6 DEF WordsOf
  <2> QED
    BY <1>4, <1>6, <2>1
<1> QED
  BY <1>5, <1>6

\* A word is counted, and the first one starts the text.
LEMMA WithWordReadable ==
  ASSUME TypeOK, OpenIsReadable(current, items), NEW s \in Nat, NEW e \in Nat,
         Reads("word", s, e)
  PROVE  LET open == WithWord(current, Position, s, e)
         IN  /\ OpenIsReadable(open, items')
             /\ open.words = current.words + 1
             /\ \A i \in open.text : i \in current.text \/ items'[i].kind = "word"
<1> DEFINE open == WithWord(current, Position, s, e)
<1>1. /\ Len(items) \in Nat /\ Position = Len(items) + 1 /\ Len(items') = Position
      /\ \A i \in 1 .. Len(items) : items'[i] = items[i]
      /\ items'[Position].kind = "word"
  <2>1. /\ Len(items) \in Nat /\ Position = Len(items) + 1 /\ Len(items') = Position
        /\ \A i \in 1 .. Len(items) : items'[i] = items[i]
        /\ items'[Position] = [kind |-> "word", start |-> s, end |-> e]
    BY ReadsFacts DEF Words
  <2> QED
    BY <2>1
<1>2. open.text = current.text \cup {Position} /\ open.words = current.words + 1
  BY DEF WithWord
<1>3. current.text \subseteq 1 .. Len(items)
  BY DEF OpenIsReadable
<1>4. Cardinality(WordsOf(open.text, items')) = open.words
  <2>1. Cardinality(WordsOf(current.text \cup {Position}, items')) =
          Cardinality(WordsOf(current.text, items)) + 1
    <3>1. current.text \in SUBSET (1 .. Len(items))
      BY <1>3
    <3>2. Cardinality(WordsOf(current.text \cup {Position}, items')) =
            Cardinality(WordsOf(current.text, items))
              + IF items'[Position].kind = "word" THEN 1 ELSE 0
      BY <1>1, <3>1, WordsCounted
    <3> QED
      BY <1>1, <3>2
  <2> QED
    BY <1>1, <1>2, <2>1 DEF OpenIsReadable
<1>5. StartsWithWord(open.text, items')
  <2>1. CASE current.text = {}
    BY <1>1, <1>2, <2>1 DEF StartsWithWord, WordsOf
  <2>2. CASE current.text # {}
    <3>1. PICK i \in WordsOf(current.text, items) : \A k \in current.text : i <= k
      BY <2>2 DEF OpenIsReadable, StartsWithWord
    <3>2. i \in 1 .. Len(items) /\ i \in WordsOf(open.text, items')
      BY <1>1, <1>2, <1>3, <3>1 DEF WordsOf
    <3>3. \A k \in open.text : i <= k
      BY <1>1, <1>2, <3>1, <3>2
    <3> QED
      BY <3>2, <3>3 DEF StartsWithWord
  <2> QED
    BY <2>1, <2>2
<1>6. open.text \subseteq 1 .. Len(items')
  BY <1>1, <1>2, <1>3
<1> QED
  BY <1>1, <1>2, <1>4, <1>5, <1>6 DEF OpenIsReadable

\* A mark comes last, is not counted, and never starts a text.
LEMMA WithMarkReadable ==
  ASSUME TypeOK, OpenIsReadable(current, items), NEW mark \in Marks, Reads(mark, 0, 0)
  PROVE  LET open == WithMark(current, Position)
         IN  /\ OpenIsReadable(open, items')
             /\ open.words = current.words
             /\ \A i \in open.text : i \in current.text
                                     \/ (items'[i].kind = mark /\ \A k \in open.text : k <= i)
<1> DEFINE open == WithMark(current, Position)
<1>1. /\ Len(items) \in Nat /\ Position = Len(items) + 1 /\ Len(items') = Position
      /\ \A i \in 1 .. Len(items) : items'[i] = items[i]
      /\ items'[Position].kind = mark
  <2>1. /\ Len(items) \in Nat /\ Position = Len(items) + 1 /\ Len(items') = Position
        /\ \A i \in 1 .. Len(items) : items'[i] = items[i]
        /\ items'[Position] = [kind |-> mark, start |-> 0, end |-> 0]
    BY ReadsFacts
  <2> QED
    BY <2>1
<1>2. /\ open.words = current.words
      /\ open.text = IF current.text # {} THEN current.text \cup {Position} ELSE {}
  BY DEF WithMark, TypeOK
<1>3. current.text \subseteq 1 .. Len(items) /\ mark # "word"
  BY DEF OpenIsReadable, Marks
<1>4. CASE current.text = {}
  <2>1. open.text = {} /\ WordsOf(open.text, items') = WordsOf(current.text, items)
    BY <1>2, <1>4 DEF WordsOf
  <2> QED
    BY <1>2, <2>1 DEF OpenIsReadable
<1>5. CASE current.text # {}
  <2>1. open.text = current.text \cup {Position}
    BY <1>2, <1>5
  <2>2. Cardinality(WordsOf(open.text, items')) = open.words
    <3>1. Cardinality(WordsOf(current.text, items)) = current.words
      BY DEF OpenIsReadable
    <3>2. /\ Cardinality(WordsOf(current.text, items)) \in Nat
          /\ Cardinality(WordsOf(current.text \cup {Position}, items')) =
               Cardinality(WordsOf(current.text, items))
      <4>1. current.text \in SUBSET (1 .. Len(items))
        BY <1>3
      <4>2. /\ Cardinality(WordsOf(current.text, items)) \in Nat
            /\ Cardinality(WordsOf(current.text \cup {Position}, items')) =
                 Cardinality(WordsOf(current.text, items))
                   + IF items'[Position].kind = "word" THEN 1 ELSE 0
        BY <1>1, <4>1, WordsCounted
      <4> QED
        BY <1>1, <1>3, <4>2
    <3> QED
      BY <1>1, <1>2, <2>1, <3>1, <3>2
  <2>3. StartsWithWord(open.text, items')
    <3>1. PICK i \in WordsOf(current.text, items) : \A k \in current.text : i <= k
      BY <1>5 DEF OpenIsReadable, StartsWithWord
    <3>2. i \in 1 .. Len(items) /\ i \in WordsOf(open.text, items')
      BY <1>1, <1>3, <2>1, <3>1 DEF WordsOf
    <3>3. \A k \in open.text : i <= k
      BY <1>1, <2>1, <3>1, <3>2
    <3> QED
      BY <3>2, <3>3 DEF StartsWithWord
  <2>4. open.text \subseteq 1 .. Len(items')
    BY <1>1, <1>3, <2>1
  <2>5. \A k \in open.text : k <= Position
    BY <1>1, <1>3, <2>1
  <2>6. OpenIsReadable(open, items')
    BY <2>2, <2>3, <2>4 DEF OpenIsReadable
  <2> HIDE DEF open
  <2>7. ASSUME NEW i \in open.text, i \notin current.text
        PROVE  items'[i].kind = mark /\ \A k \in open.text : k <= i
    <3>1. i = Position
      BY <2>1, <2>7
    <3> QED
      BY <1>1, <2>5, <3>1
  <2>8. \A i \in open.text : i \in current.text
                            \/ (items'[i].kind = mark /\ \A k \in open.text : k <= i)
    BY <2>7
  <2> QED
    BY <1>2, <2>6, <2>8 DEF open
<1> QED
  BY <1>4, <1>5

\* A flushed segment stays as readable as it was while more items are read.
LEMMA ReadableStays ==
  ASSUME NEW read \in Seq(Item), NEW more \in Seq(Item), Len(read) <= Len(more),
         \A i \in 1 .. Len(read) : more[i] = read[i],
         NEW text, TextIsReadable(text, read)
  PROVE  TextIsReadable(text, more)
<1>1. text \in SUBSET (1 .. Len(read)) /\ Len(read) \in Nat /\ Len(more) \in Nat
  BY DEF TextIsReadable
<1>2. WordsOf(text, more) = WordsOf(text, read)
  BY <1>1 DEF WordsOf
<1>3. text \subseteq 1 .. Len(more) /\ \A i \in text : more[i] = read[i]
  BY <1>1
<1> QED
  BY <1>2, <1>3 DEF TextIsReadable, StartsWithWord

\* The conjuncts of ReadableInv that an item can disturb.
ReadableParts ==
  /\ OpenIsReadable(current, items)
  /\ \A i \in current.text : items[i].kind # "stop"
  /\ \A n \in SegmentRange : TextIsReadable(segments[n].text, items)
  /\ \A n \in SegmentRange : segments[n].text # {}

\* A readable open segment may be flushed, or kept if no sentence has ended in it.
LEMMA ReadableStep ==
  ASSUME TypeOK, ReadableParts, items' \in Seq(Item), Len(items) <= Len(items'),
         \A i \in 1 .. Len(items) : items'[i] = items[i],
         NEW open, OpenType(open), OpenIsReadable(open, items'),
         TextIsReadable(open.text, items'), seqNum \in Nat,
         \/ FlushSegment(open)
         \/ KeepSegment(open) /\ \A i \in open.text : items'[i].kind # "stop"
  PROVE  ReadableParts'
<1>1. /\ Len(segments) \in Nat /\ segments \in Seq(Segment) /\ SegmentRange = 1 .. Len(segments)
      /\ items \in Seq(Item)
  BY DEF TypeOK, SegmentRange
<1>2. \A n \in SegmentRange : TextIsReadable(segments[n].text, items')
  BY <1>1, ReadableStays DEF ReadableParts
<1>3. CASE KeepSegment(open) /\ \A i \in open.text : items'[i].kind # "stop"
  <2>1. current' = open /\ segments' = segments
    BY <1>3 DEF KeepSegment
  <2> QED
    BY <1>2, <1>3, <2>1 DEF ReadableParts, SegmentRange, OpenIsReadable, TextIsReadable,
                            StartsWithWord, WordsOf
<1>4. CASE FlushSegment(open) /\ open.text = {}
  <2>1. KeepSegment(open)
    BY <1>4 DEF FlushSegment
  <2> QED
    BY <1>3, <1>4, <2>1
<1>5. CASE FlushSegment(open) /\ open.text # {}
  <2>1. /\ segments' = Append(segments, Numbered(open, seqNum))
        /\ current' = EmptySegment
    BY <1>5 DEF FlushSegment
  <2>2. Numbered(open, seqNum) \in Segment /\ Numbered(open, seqNum).text = open.text
    BY <1>5 DEF Numbered, Segment, OpenType, NotStarted
  <2>3. /\ Len(segments') = Len(segments) + 1
        /\ \A n \in SegmentRange : segments'[n] = segments[n]
        /\ segments'[Len(segments) + 1] = Numbered(open, seqNum)
    BY <1>1, <2>1, <2>2, AppendFacts
  <2>4. SegmentRange' = SegmentRange \cup {Len(segments) + 1}
    BY <1>1, <2>3 DEF SegmentRange
  <2>5. \A n \in SegmentRange' : /\ TextIsReadable(segments'[n].text, items')
                                 /\ segments'[n].text # {}
    BY <1>2, <1>5, <2>2, <2>3, <2>4 DEF ReadableParts
  <2>6. OpenIsReadable(EmptySegment, items')
    <3>1. EmptySegment.text = {} /\ EmptySegment.words = 0
      BY DEF EmptySegment
    <3>2. WordsOf(EmptySegment.text, items') = {}
      BY <3>1 DEF WordsOf
    <3> QED
      BY <3>1, <3>2, FS_EmptySet DEF OpenIsReadable
  <2>7. OpenIsReadable(current, items)' /\ current'.text = {}
    BY <2>1, <2>6 DEF OpenIsReadable, StartsWithWord, WordsOf, EmptySegment
  <2> QED
    BY <2>5, <2>7 DEF ReadableParts, TextIsReadable, StartsWithWord, WordsOf
<1> QED
  BY <1>3, <1>4, <1>5

\* Before the end of an answer of AWS the invariant is ReadableParts.
LEMMA ReadableBeforeEnd ==
  /\ ReadableInv /\ provider = "aws" /\ ~done => ReadableParts
  /\ ReadableParts /\ ~done => ReadableInv
  BY DEF ReadableInv, ReadableParts, TextHasCues

LEMMA ReadWordReadable == SegmentsInv /\ ReadableInv /\ ReadWord => ReadableInv'
<1> SUFFICES ASSUME SegmentsInv, ReadableInv, ReadWord PROVE ReadableInv'
  OBVIOUS
<1>1. PICK s \in Times, e \in Times :
         /\ clock <= s /\ s <= e
         /\ Reads("word", s, e)
         /\ \/ /\ IsFull(WithWord(current, Position, s, e))
               /\ FlushSegment(WithWord(current, Position, s, e))
            \/ /\ ~IsFull(WithWord(current, Position, s, e))
               /\ KeepSegment(WithWord(current, Position, s, e))
  BY DEF ReadWord
<1> DEFINE open == WithWord(current, Position, s, e)
<1>2. /\ TypeOK /\ seqNum \in Nat /\ current.words \in Nat /\ current.words < MaxWords
      /\ MaxWords \in Nat /\ s \in Nat /\ e \in Nat /\ "word" \in Words
      /\ ~done /\ ~done' /\ provider = "aws"
  BY <1>1, SegmentsAssumption DEF SegmentsInv, TypeOK, ReadWord, Reads, Words
<1>3. ReadableParts /\ OpenIsReadable(current, items) /\ current.text \subseteq 1 .. Len(items)
  BY <1>2, ReadableBeforeEnd DEF ReadableParts, OpenIsReadable
<1>4. /\ items' \in Seq(Item) /\ Len(items) <= Len(items')
      /\ \A i \in 1 .. Len(items) : items'[i] = items[i]
  <2>1. /\ items' \in Seq(Item) /\ Len(items) \in Nat /\ Len(items') = Len(items) + 1
        /\ \A i \in 1 .. Len(items) : items'[i] = items[i]
    BY <1>1, <1>2, ReadsFacts DEF Words
  <2> QED
    BY <2>1
<1>5. /\ OpenIsReadable(open, items') /\ open.words = current.words + 1
      /\ \A i \in open.text : i \in current.text \/ items'[i].kind = "word"
  BY <1>1, <1>2, <1>3, WithWordReadable
<1>6. OpenType(open)
  BY <1>1, <1>2, WithWordFits DEF Fits
<1>7. FlushSegment(open) \/ KeepSegment(open)
  BY <1>1
<1> HIDE DEF open
<1>8. \A i \in open.text : items'[i].kind # "stop"
  BY <1>3, <1>4, <1>5 DEF ReadableParts
<1>9. TextIsReadable(open.text, items')
  BY <1>2, <1>5, <1>8 DEF OpenIsReadable, TextIsReadable
<1>10. ReadableParts'
  BY <1>2, <1>3, <1>4, <1>5, <1>6, <1>7, <1>8, <1>9, ReadableStep
<1> QED
  BY <1>2, <1>10 DEF ReadableInv, ReadableParts, TextHasCues

LEMMA ReadMarkReadable == SegmentsInv /\ ReadableInv /\ ReadMark => ReadableInv'
<1> SUFFICES ASSUME SegmentsInv, ReadableInv, ReadMark PROVE ReadableInv'
  OBVIOUS
<1>1. PICK mark \in Marks :
         /\ Reads(mark, 0, 0)
         /\ \/ EndsSentence(mark) /\ FlushSegment(WithMark(current, Position))
            \/ ~EndsSentence(mark) /\ KeepSegment(WithMark(current, Position))
  BY DEF ReadMark
<1> DEFINE open == WithMark(current, Position)
<1>2. /\ TypeOK /\ seqNum \in Nat /\ current.words \in Nat /\ current.words < MaxWords
      /\ MaxWords \in Nat /\ ~done /\ ~done' /\ provider = "aws"
  BY <1>1, SegmentsAssumption DEF SegmentsInv, TypeOK, ReadMark, Reads
<1>3. ReadableParts /\ OpenIsReadable(current, items) /\ current.text \subseteq 1 .. Len(items)
  BY <1>2, ReadableBeforeEnd DEF ReadableParts, OpenIsReadable
<1>4. /\ items' \in Seq(Item) /\ Len(items) <= Len(items')
      /\ \A i \in 1 .. Len(items) : items'[i] = items[i]
  <2>1. /\ items' \in Seq(Item) /\ Len(items) \in Nat /\ Len(items') = Len(items) + 1
        /\ \A i \in 1 .. Len(items) : items'[i] = items[i]
    BY <1>1, <1>2, ReadsFacts
  <2> QED
    BY <2>1
<1>5. /\ OpenIsReadable(open, items') /\ open.words = current.words
      /\ \A i \in open.text :
           i \in current.text \/ (items'[i].kind = mark /\ \A k \in open.text : k <= i)
  BY <1>1, <1>2, <1>3, WithMarkReadable
<1>6. OpenType(open)
  BY <1>1, WithMarkFits DEF Fits
<1>7. \/ EndsSentence(mark) /\ FlushSegment(open)
      \/ ~EndsSentence(mark) /\ KeepSegment(open)
  BY <1>1
<1> HIDE DEF open
<1>8. \A i \in open.text : items'[i].kind = "stop" =>
        EndsSentence(mark) /\ \A k \in open.text : k <= i
  BY <1>3, <1>4, <1>5 DEF ReadableParts, EndsSentence
<1>9. TextIsReadable(open.text, items')
  BY <1>2, <1>5, <1>8 DEF OpenIsReadable, TextIsReadable
<1>10. FlushSegment(open) \/ (KeepSegment(open) /\ \A i \in open.text : items'[i].kind # "stop")
  BY <1>7, <1>8
<1>11. ReadableParts'
  BY <1>2, <1>3, <1>4, <1>5, <1>6, <1>9, <1>10, ReadableStep
<1> QED
  BY <1>2, <1>11 DEF ReadableInv, ReadableParts, TextHasCues

LEMMA ReadBlankReadable == SegmentsInv /\ ReadableInv /\ ReadBlank => ReadableInv'
<1> SUFFICES ASSUME SegmentsInv, ReadableInv, ReadBlank PROVE ReadableInv'
  OBVIOUS
<1>1. /\ TypeOK /\ Reads("blank", 0, 0) /\ provider = "aws" /\ ~done /\ ~done'
      /\ seqNum \in Nat /\ OpenType(current) /\ current.words \in Nat
      /\ current.words < MaxWords /\ MaxWords \in Nat /\ KeepSegment(current)
  BY SegmentsAssumption DEF SegmentsInv, TypeOK, Fits, ReadBlank, Reads, KeepSegment
<1>2. ReadableParts /\ current.text \subseteq 1 .. Len(items)
  BY <1>1, ReadableBeforeEnd DEF ReadableParts, OpenIsReadable
<1>3. /\ items' \in Seq(Item) /\ Len(items) <= Len(items')
      /\ Len(items) \in Nat /\ Len(items') \in Nat
      /\ \A i \in 1 .. Len(items) : items'[i] = items[i]
  <2>1. "blank" \in Words \cup Marks \cup {"blank"}
    OBVIOUS
  <2>2. /\ items' \in Seq(Item) /\ Len(items) \in Nat
        /\ Position = Len(items) + 1 /\ Len(items') = Position
        /\ \A i \in 1 .. Len(items) : items'[i] = items[i]
    BY <1>1, <2>1, ReadsFacts
  <2> QED
    BY <2>2
<1>4. \A i \in current.text : items'[i] = items[i] /\ items'[i].kind # "stop"
  BY <1>2, <1>3 DEF ReadableParts
<1>5. WordsOf(current.text, items') = WordsOf(current.text, items)
  BY <1>4 DEF WordsOf
<1>6. OpenIsReadable(current, items')
  BY <1>2, <1>3, <1>5 DEF ReadableParts, OpenIsReadable, StartsWithWord
<1>7. TextIsReadable(current.text, items')
  BY <1>1, <1>4, <1>6 DEF OpenIsReadable, TextIsReadable
<1>8. PICK open : open = current
  OBVIOUS
<1>9. ReadableParts'
  <2>1. /\ OpenType(open) /\ OpenIsReadable(open, items') /\ TextIsReadable(open.text, items')
        /\ KeepSegment(open) /\ \A i \in open.text : items'[i].kind # "stop"
    BY <1>1, <1>4, <1>6, <1>7, <1>8
  <2> QED
    BY <1>1, <1>2, <1>3, <2>1, ReadableStep
<1> QED
  BY <1>1, <1>9 DEF ReadableInv, ReadableParts, TextHasCues

LEMMA EndOfItemsReadable == SegmentsInv /\ ReadableInv /\ EndOfItems => ReadableInv'
<1> SUFFICES ASSUME SegmentsInv, ReadableInv, EndOfItems PROVE ReadableInv'
  OBVIOUS
<1>1. /\ TypeOK /\ provider = "aws" /\ ~done /\ items' = items /\ items \in Seq(Item)
      /\ seqNum \in Nat /\ OpenType(current) /\ current.words \in Nat
      /\ current.words < MaxWords /\ MaxWords \in Nat /\ segments \in Seq(Segment)
  BY SegmentsAssumption DEF SegmentsInv, TypeOK, Fits, EndOfItems
<1>2. ReadableParts
  BY <1>1, ReadableBeforeEnd
<1>3. CASE ~NeedsFallback(fullText') /\ FlushLast(current)
  <2>1. PICK open : open = current
    OBVIOUS
  <2>2. /\ OpenType(open) /\ OpenIsReadable(open, items') /\ TextIsReadable(open.text, items')
        /\ FlushSegment(open)
    BY <1>1, <1>2, <1>3, <2>1 DEF ReadableParts, OpenIsReadable, TextIsReadable, FlushLast
  <2>3. Len(items) <= Len(items') /\ \A i \in 1 .. Len(items) : items'[i] = items[i]
    BY <1>1
  <2>4. ReadableParts'
    BY <1>1, <1>2, <2>2, <2>3, ReadableStep
  <2>5. fullText' => segments' # <<>>
    <3>1. CASE current.text = {}
      BY <1>3, <3>1 DEF NeedsFallback, FlushLast, FlushSegment, KeepSegment
    <3>2. CASE current.text # {}
      <4>1. segments' = Append(segments, Numbered(current, seqNum))
        BY <1>3, <3>2 DEF FlushLast, FlushSegment
      <4>2. Numbered(current, seqNum) \in Segment
        BY <1>1, <3>2 DEF Numbered, Segment, OpenType, NotStarted
      <4>3. Len(segments') = Len(segments) + 1 /\ Len(segments) \in Nat
        BY <1>1, <4>1, <4>2, AppendFacts
      <4> QED
        BY <4>3
    <3> QED
      BY <3>1, <3>2
  <2> QED
    BY <2>4, <2>5 DEF ReadableInv, ReadableParts, TextHasCues
<1>4. CASE /\ NeedsFallback(fullText')
           /\ segments' = <<FallbackSegment>>
           /\ UNCHANGED <<current, seqNum>>
  <2>1. /\ SegmentRange' = {1} /\ segments'[1] = FallbackSegment /\ FallbackSegment.text = {}
        /\ segments' # <<>>
    BY <1>4 DEF SegmentRange, FallbackSegment
  <2>2. TextIsReadable({}, items')
    <3>1. WordsOf({}, items') = {}
      BY DEF WordsOf
    <3>2. Cardinality({}) <= MaxWords
      BY <1>1, FS_EmptySet
    <3> QED
      BY <3>1, <3>2 DEF TextIsReadable
  <2>3. \A n \in SegmentRange' : TextIsReadable(segments'[n].text, items')
    BY <2>1, <2>2
  <2>4. OpenIsReadable(current, items)' /\ \A i \in current'.text : items'[i].kind # "stop"
    BY <1>1, <1>2, <1>4 DEF ReadableParts, OpenIsReadable, StartsWithWord, WordsOf
  <2> QED
    BY <1>4, <2>1, <2>3, <2>4
    DEF EndOfItems, ReadableInv, TextHasCues, TextIsReadable, StartsWithWord, WordsOf
<1> QED
  BY <1>3, <1>4 DEF EndOfItems

\* What is shown stays readable, and a text never loses its last segment.
THEOREM ReadableInvariance == Spec => []ReadableInv
<1>1. Init => ReadableInv
  <2> SUFFICES ASSUME Init PROVE ReadableInv
    OBVIOUS
  <2>1. current = EmptySegment /\ EmptySegment.text = {} /\ EmptySegment.words = 0
    BY DEF Init, EmptySegment
  <2>2. WordsOf(current.text, items) = {} /\ Cardinality({}) = 0
    BY <2>1, FS_EmptySet DEF WordsOf
  <2>3. SegmentRange = {} /\ ~done
    BY DEF Init, SegmentRange
  <2> QED
    BY <2>1, <2>2, <2>3 DEF ReadableInv, OpenIsReadable, TextHasCues
<1>2. SegmentsInv /\ ReadableInv /\ [Next]_vars => ReadableInv'
  <2>1. ReadPhrase \/ EndOfPhrases => ReadableInv'
    BY DEF ReadPhrase, EndOfPhrases, ReadableInv
  <2>2. ASSUME ReadableInv, UNCHANGED vars PROVE ReadableInv'
    <3>1. UNCHANGED <<provider, items, current, segments, fullText, done>>
      BY <2>2 DEF vars
    <3>2. OpenIsReadable(current, items)' <=> OpenIsReadable(current, items)
      BY <3>1 DEF OpenIsReadable, StartsWithWord, WordsOf
    <3>3. \A n \in SegmentRange : TextIsReadable(segments[n].text, items)'
                                   <=> TextIsReadable(segments[n].text, items)
      BY <3>1 DEF TextIsReadable, StartsWithWord, WordsOf
    <3> QED
      BY <2>2, <3>1, <3>2, <3>3 DEF ReadableInv, TextHasCues, SegmentRange
  <2> QED
    BY <2>1, <2>2, ReadWordReadable, ReadMarkReadable, ReadBlankReadable, EndOfItemsReadable
    DEF Next
<1> QED
  BY <1>1, <1>2, SegmentsInvariance, PTL DEF Spec

\* Every segment of AWS has at most MaxWords words, starts with a word and ends with the
\* sentence that ends in it; only the fallback segment is without items.
THEOREM SegmentsReadable == Spec => []SegmentsAreReadable
<1>1. SegmentsInv /\ ReadableInv => SegmentsAreReadable
  <2> SUFFICES ASSUME SegmentsInv, ReadableInv, provider = "aws", NEW n \in SegmentRange
               PROVE  LET text == segments[n].text
                      IN  /\ Cardinality({i \in text : items[i].kind = "word"}) <= MaxWords
                          /\ \A i \in text : items[i].kind = "stop" => \A k \in text : k <= i
                          /\ text # {} => \E i \in text : /\ items[i].kind = "word"
                                                          /\ \A k \in text : i <= k
                          /\ text = {} => segments = <<FallbackSegment>>
    <3>1. SegmentsInv => DOMAIN segments = SegmentRange
      BY DEF SegmentsInv, TypeOK, SegmentRange
    <3> QED
      BY <3>1 DEF SegmentsAreReadable
  <2> QED
    BY DEF ReadableInv, TextIsReadable, StartsWithWord, WordsOf
<1> QED
  BY <1>1, SegmentsInvariance, ReadableInvariance, PTL

\* An answer of AWS that has a text has at least one cue, whatever its items are.
THEOREM CuesForEveryText == Spec => []TextHasCues
<1>1. ReadableInv => TextHasCues
  BY DEF ReadableInv, TextHasCues
<1> QED
  BY <1>1, ReadableInvariance, PTL
=============================================================================
