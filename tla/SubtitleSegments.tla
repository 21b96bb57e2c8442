-------------------------- MODULE SubtitleSegments --------------------------
(***************************************************************************)
(* From a provider's answer to subtitles: buildSegments groups the words   *)
(* and punctuation marks that AWS Transcribe returns into segments (the    *)
(* Whisper provider takes the segments of the answer), the rows are read   *)
(* back by sequence number, and FormatSRT and FormatVTT give every segment *)
(* a numbered cue with two time stamps.                                    *)
(*                                                                         *)
(* An item is known by its position in the answer; a segment's text is the *)
(* set of positions it contains, read in ascending order because words and *)
(* marks are only ever appended. Times are in ticks, TicksPerMilli of them *)
(* to a millisecond: providers return any fraction of a second, and the    *)
(* times of an answer are whole ticks for some number of ticks.            *)
(***************************************************************************)
EXTENDS Integers, Sequences, FiniteSets

CONSTANTS
  MaxWords,   \* a segment is closed when it has this many words (8 in the code)
  TicksPerMilli,  \* the resolution of times
  Times,      \* the times, in ticks, at which words may start and end
  MaxItems    \* bound: how many items an answer has

ASSUME SegmentsAssumption ==
  /\ MaxWords \in Nat \ {0}
  /\ TicksPerMilli \in Nat \ {0}
  /\ Times \subseteq Nat
  /\ MaxItems \in Nat

VARIABLES
  provider,  \* who answers: "aws" or "whisper"
  items,     \* the items of the answer read so far
  clock,     \* the end of the last word: nothing is spoken before what was spoken
  current,   \* buildSegments' open segment
  segments,  \* the segments that were flushed
  seqNum,    \* sequence number of the next segment
  fullText,  \* TRUE when the answer also has the whole text
  done       \* TRUE when the provider has returned its result

vars == <<provider, items, clock, current, segments, seqNum, fullText, done>>

Words == {"word", "phrase"}
Marks == {"stop", "comma"}

Item == [kind : Words \cup Marks \cup {"blank"}, start : Nat, end : Nat]
Segment == [number : Nat, start : Nat, end : Nat, text : SUBSET Nat]

NotStarted == -1
EmptySegment == [start |-> NotStarted, end |-> 0, words |-> 0, text |-> {}]

Init ==
  /\ provider \in {"aws", "whisper"}
  /\ items = <<>>
  /\ clock = 0
  /\ current = EmptySegment
  /\ segments = <<>>
  /\ seqNum = 1
  /\ fullText = FALSE
  /\ done = FALSE

Position == Len(items) + 1  \* of the item that is read next

-----------------------------------------------------------------------------
(* Building blocks                                                         *)

Numbered(open, n) == [number |-> n, start |-> open.start, end |-> open.end, text |-> open.text]

KeepSegment(open) ==
  /\ current' = open
  /\ UNCHANGED <<segments, seqNum>>

\* A time as whole seconds and the rest, and the rest rounded to whole milliseconds.
TicksPerSecond == 1000 * TicksPerMilli
WholeSeconds(t) == t \div TicksPerSecond
Rest(t) == t % TicksPerSecond
Fraction(t) == (2 * Rest(t) + TicksPerMilli) \div (2 * TicksPerMilli)

-----------------------------------------------------------------------------
(* Variants with a seeded bug. No action uses them: each stands for a      *)
(* plausible slip in the operation it is named after.                      *)

\* A ">" for the ">=".
IsFullTooLate(open) == open.words > MaxWords

\* Sentences are not told apart.
EndsSentenceNever(mark) == FALSE

\* A mark that follows a word is thrown away.
WithMarkDropped(open, i) == open

\* There is no segment for a text without items.
NeedsFallbackNever(text) == FALSE

\* The accumulators keep their start over a flush.
FlushSegmentKeepsStart(open) ==
  \/ /\ open.text # {}
     /\ segments' = Append(segments, Numbered(open, seqNum))
     /\ seqNum' = seqNum + 1
     /\ current' = [EmptySegment EXCEPT !.start = open.start]
  \/ /\ open.text = {}
     /\ KeepSegment(open)

\* The sequence number is not advanced.
FlushSegmentSameNumber(open) ==
  \/ /\ open.text # {}
     /\ segments' = Append(segments, Numbered(open, seqNum))
     /\ current' = EmptySegment
     /\ UNCHANGED seqNum
  \/ /\ open.text = {}
     /\ KeepSegment(open)

\* The last segment is flushed only when it is full.
FlushLastForgotten(open) == KeepSegment(open)

\* Rounding up is not cut at 999.
CutFractionNever(t) == Fraction(t)

-----------------------------------------------------------------------------
(* The open segment                                                        *)

IsFull(open) == open.words >= MaxWords
EndsSentence(mark) == mark = "stop"

\* flushSegment: a segment with words gets its number and the accumulators are reset.
FlushSegment(open) ==
  \/ /\ open.text # {}
     /\ segments' = Append(segments, Numbered(open, seqNum))
     /\ seqNum' = seqNum + 1
     /\ current' = EmptySegment
  \/ /\ open.text = {}
     /\ KeepSegment(open)

\* The call after the loop.
FlushLast(open) == FlushSegment(open)

\* A word sets the start when it is the first, and always the end.
WithWord(open, i, s, e) ==
  [start |-> IF open.start < 0 THEN s ELSE open.start, end |-> e,
   words |-> open.words + 1, text |-> open.text \cup {i}]

\* A mark is glued to the last word, if the open segment has one.
WithMark(open, i) ==
  IF open.text # {} THEN [open EXCEPT !.text = @ \cup {i}] ELSE open

Reads(kind, s, e) ==
  /\ ~done
  /\ Len(items) < MaxItems
  /\ items' = Append(items, [kind |-> kind, start |-> s, end |-> e])

-----------------------------------------------------------------------------
(* Reading the answer of AWS Transcribe                                    *)

\* A word that begins when the one before it has ended, or later. The parser drops the
\* error of a time that is no number and takes 0; the service sends none, and this model
\* relies on that.
ReadWord ==
  /\ provider = "aws"
  /\ \E s, e \in Times :
       LET open == WithWord(current, Position, s, e)
       IN  /\ clock <= s /\ s <= e
           /\ Reads("word", s, e)
           /\ clock' = e
           /\ \/ IsFull(open) /\ FlushSegment(open)
              \/ ~IsFull(open) /\ KeepSegment(open)
  /\ UNCHANGED <<provider, fullText, done>>

\* A full stop, question or exclamation mark also closes the segment.
ReadMark ==
  /\ provider = "aws"
  /\ \E mark \in Marks :
       LET open == WithMark(current, Position)
       IN  /\ Reads(mark, 0, 0)
           /\ \/ EndsSentence(mark) /\ FlushSegment(open)
              \/ ~EndsSentence(mark) /\ KeepSegment(open)
  /\ UNCHANGED <<provider, clock, fullText, done>>

\* An item without alternatives is skipped.
ReadBlank ==
  /\ provider = "aws"
  /\ Reads("blank", 0, 0)
  /\ UNCHANGED <<provider, clock, current, segments, seqNum, fullText, done>>

\* ParseAWSOutput after the last item: flush what is open, and if there is no segment at
\* all but a text, make one segment of five seconds of it.
FallbackSegment == [number |-> 1, start |-> 0, end |-> 5 * TicksPerSecond, text |-> {}]
NeedsFallback(text) == segments = <<>> /\ current.text = {} /\ text

EndOfItems ==
  /\ provider = "aws"
  /\ ~done
  /\ done' = TRUE
  /\ fullText' \in BOOLEAN
  /\ \/ ~NeedsFallback(fullText') /\ FlushLast(current)
     \/ /\ NeedsFallback(fullText')
        /\ segments' = <<FallbackSegment>>
        /\ UNCHANGED <<current, seqNum>>
  /\ UNCHANGED <<provider, items, clock>>

-----------------------------------------------------------------------------
(* Reading the answer of Whisper                                           *)

\* The answer's own segments are taken one by one and numbered i + 1.
ReadPhrase ==
  /\ provider = "whisper"
  /\ \E s, e \in Times :
       /\ clock <= s /\ s <= e
       /\ Reads("phrase", s, e)
       /\ clock' = e
       /\ segments' = Append(segments, [number |-> Position, start |-> s, end |-> e,
                                        text |-> {Position}])
  /\ UNCHANGED <<provider, current, seqNum, fullText, done>>

EndOfPhrases ==
  /\ provider = "whisper"
  /\ ~done
  /\ done' = TRUE
  /\ fullText' \in BOOLEAN
  /\ UNCHANGED <<provider, items, clock, current, segments, seqNum>>

Next == ReadWord \/ ReadMark \/ ReadBlank \/ EndOfItems \/ ReadPhrase \/ EndOfPhrases

Spec == Init /\ [][Next]_vars

-----------------------------------------------------------------------------
(* Time stamps                                                             *)

\* A fraction that rounds up to a whole second is cut to 999.
CutFraction(t) == IF Fraction(t) >= 1000 THEN 999 ELSE Fraction(t)

\* formatTimestamp
Stamp(t) ==
  [hours   |-> WholeSeconds(t) \div 3600,
   minutes |-> (WholeSeconds(t) % 3600) \div 60,
   seconds |-> WholeSeconds(t) % 60,
   millis  |-> CutFraction(t)]

\* The time that a player reads off a time stamp, in milliseconds.
StampMillis(stamp) ==
  ((stamp.hours * 60 + stamp.minutes) * 60 + stamp.seconds) * 1000 + stamp.millis

WellFormedStamp(stamp) ==
  stamp.minutes < 60 /\ stamp.seconds < 60 /\ stamp.millis < 1000

\* FormatSRT and FormatVTT on the rows in the order they are read: cue n for segment n.
Cue(n) == [number |-> n, from |-> Stamp(segments[n].start), to |-> Stamp(segments[n].end)]

-----------------------------------------------------------------------------
(* Properties                                                              *)

\* Types, and the limits of the open segment: it never holds a full segment's words, and
\* the sentinel -1 marks exactly the segment without a word.
TypeOK ==
  /\ provider \in {"aws", "whisper"}
  /\ items \in Seq(Item)
  /\ clock \in Nat
  /\ current \in [start : Nat \cup {NotStarted}, end : Nat, words : Nat, text : SUBSET Nat]
  /\ current.words < MaxWords
  /\ current.start = NotStarted <=> current.text = {}
  /\ segments \in Seq(Segment)
  /\ seqNum \in Nat \ {0}
  /\ fullText \in BOOLEAN
  /\ done \in BOOLEAN

\* No word is lost, repeated or moved: each word of the answer is in one segment or, until
\* the answer ends, in the open one, and what a segment holds comes before all that the
\* later ones hold.
EveryWordOnce ==
  /\ \A i \in DOMAIN items : items[i].kind \in Words =>
       i \in current.text \/ \E n \in DOMAIN segments : i \in segments[n].text
  /\ \A m, n \in DOMAIN segments : m < n =>
       \A i \in segments[m].text, k \in segments[n].text : i < k
  /\ \A n \in DOMAIN segments : \A i \in segments[n].text, k \in current.text : i < k
  /\ done => current.text = {}

\* A mark disappears only where a segment has just ended, never from within one: nothing
\* that is missing from the texts lies between two items of the same segment.
MarksLostOnlyBetweenSegments ==
  \A n \in DOMAIN segments : \A i, k \in segments[n].text :
    \A mark \in i .. k : items[mark].kind # "blank" => mark \in segments[n].text

\* A segment from AWS is short, starts with a word and holds at most the end of one
\* sentence, as its last item; only the fallback has no item.
SegmentsAreReadable ==
  provider = "aws" => \A n \in DOMAIN segments :
    LET text == segments[n].text
    IN  /\ Cardinality({i \in text : items[i].kind = "word"}) <= MaxWords
        /\ \A i \in text : items[i].kind = "stop" => \A k \in text : k <= i
        /\ text # {} => \E i \in text : items[i].kind = "word" /\ \A k \in text : i <= k
        /\ text = {} => segments = <<FallbackSegment>>

\* Rows are numbered 1, 2, ... in the order of their times, so that ORDER BY
\* sequence_number gives the cues in playing order, their numbers equal the sequence
\* numbers, and no cue begins before the one ahead of it has ended.
CuesInOrder ==
  /\ \A n \in DOMAIN segments :
       /\ segments[n].number = Cue(n).number
       /\ StampMillis(Cue(n).from) <= StampMillis(Cue(n).to)
  /\ \A m, n \in DOMAIN segments : m < n => StampMillis(Cue(m).to) <= StampMillis(Cue(n).from)

\* What the viewer sees is when it was said: a cue's stamps are well formed and within half
\* a millisecond of the start of its first word and the end of its last. The exception is a
\* time in the last half millisecond of a second: the code does not carry into the seconds
\* but shows .999, which is early by less than a whole millisecond.
IsCut(t) == 2 * Rest(t) >= 1999 * TicksPerMilli

CloseTo(stamp, t) ==
  /\ WellFormedStamp(stamp)
  /\ TicksPerMilli * (2 * StampMillis(stamp) - 1) <= 2 * t
  /\ IF IsCut(t) THEN t < TicksPerMilli * (StampMillis(stamp) + 1)
                 ELSE 2 * t < TicksPerMilli * (2 * StampMillis(stamp) + 1)

CuesMatchSpeech ==
  \A n \in DOMAIN segments : \A i \in segments[n].text : items[i].kind \in Words =>
    /\ (\A k \in segments[n].text : i <= k) => CloseTo(Cue(n).from, items[i].start)
    /\ (\A k \in segments[n].text : items[k].kind \in Words => k <= i)
         => CloseTo(Cue(n).to, items[i].end)

\* An answer of AWS with a text is never exported as an empty subtitle file.
TextHasCues == done /\ provider = "aws" /\ fullText => segments # <<>>

-----------------------------------------------------------------------------
(* The inductive strengthening of the properties above                     *)

SegmentRange == 1 .. Len(segments)

\* A text, of a flushed or of the open segment, against the items read so far: its times
\* are those of its first and of its last word, and it has no gap up to item `last`.
TextIsTimed(seg, read) ==
  \A i \in seg.text : read[i].kind \in Words =>
    /\ (\A k \in seg.text : i <= k) => seg.start = read[i].start
    /\ (\A k \in seg.text : read[k].kind \in Words => k <= i) => seg.end = read[i].end

TextHasNoGap(text, read, last) ==
  \A i \in text : \A k \in i .. last : read[k].kind # "blank" => k \in text

\* What makes `open` fit behind the flushed segments once `read` has been read up to
\* time `now`: it continues them in position and in time, and no word is missing.
OpenType(open) ==
  /\ open \in [start : Nat \cup {NotStarted}, end : Nat, words : Nat, text : SUBSET Nat]
  /\ open.start = NotStarted <=> open.text = {}

Continues(open, read) ==
  /\ open.text \subseteq 1 .. Len(read)
  /\ \A i \in 1 .. Len(read) : read[i].kind \in Words =>
       i \in open.text \/ \E n \in SegmentRange : i \in segments[n].text
  /\ \A n \in SegmentRange : \A i \in segments[n].text, k \in open.text : i < k

ContinuesInTime(open, now) ==
  open.text # {} => /\ open.start <= open.end
                    /\ open.end = now
                    /\ \A n \in SegmentRange : segments[n].end <= open.start

Fits(open, read, now) ==
  /\ OpenType(open)
  /\ Continues(open, read)
  /\ ContinuesInTime(open, now)
  /\ TextIsTimed(open, read)
  /\ TextHasNoGap(open.text, read, Len(read))

\* The flushed segments are numbered, and tile the answer in position and in time.
SegmentIsSound(n) ==
  /\ segments[n].number = n
  /\ segments[n].start <= segments[n].end
  /\ segments[n].text \subseteq 1 .. Len(items)
  /\ ~done => segments[n].end <= clock
  /\ TextIsTimed(segments[n], items)
  /\ \A k \in segments[n].text : TextHasNoGap(segments[n].text, items, k)

SegmentsTile ==
  /\ \A n \in SegmentRange : SegmentIsSound(n)
  /\ \A m, n \in SegmentRange : m < n =>
       /\ segments[m].end <= segments[n].start
       /\ \A i \in segments[m].text, k \in segments[n].text : i < k

\* The counters of the two loops agree with what was appended.
CountersAgree ==
  /\ ~done /\ provider = "aws" => seqNum = Len(segments) + 1
  /\ ~done /\ provider = "whisper" => Len(segments) = Len(items)
  /\ provider = "whisper" => current = EmptySegment

SegmentsInv ==
  /\ TypeOK /\ SegmentsTile /\ CountersAgree
  /\ Fits(current, items, clock)
  /\ done => current.text = {}

\* Behind SegmentsAreReadable and TextHasCues. The open segment counts its words and has
\* not met the end of a sentence, or it would have been flushed; a flushed one has at most
\* that end, as its last item. Before the answer ends no segment is without an item.
WordsOf(text, read) == {i \in text : read[i].kind = "word"}

StartsWithWord(text, read) == \E i \in WordsOf(text, read) : \A k \in text : i <= k

OpenIsReadable(open, read) ==
  /\ open.text \subseteq 1 .. Len(read)
  /\ Cardinality(WordsOf(open.text, read)) = open.words
  /\ open.text # {} => StartsWithWord(open.text, read)

TextIsReadable(text, read) ==
  /\ text \subseteq 1 .. Len(read)
  /\ Cardinality(WordsOf(text, read)) <= MaxWords
  /\ \A i \in text : read[i].kind = "stop" => \A k \in text : k <= i
  /\ text # {} => StartsWithWord(text, read)

ReadableInv ==
  provider = "aws" =>
    /\ OpenIsReadable(current, items)
    /\ \A i \in current.text : items[i].kind # "stop"
    /\ \A n \in SegmentRange : TextIsReadable(segments[n].text, items)
    /\ \/ \A n \in SegmentRange : segments[n].text # {}
       \/ done /\ segments = <<FallbackSegment>>
    /\ TextHasCues
=============================================================================
