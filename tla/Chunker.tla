-------------------------------- MODULE Chunker --------------------------------
(* ingestion/chunker.py: the paragraphs of a text, packed into chunks section  *)
(* by section, short chunks folded into a neighbour; and the reader's view of  *)
(* them, which takes the overlap back off (api/routes/sources.py).  A paragraph*)
(* is the lengths of its sentences; which section it opens is its second part. *)
EXTENDS Integers, Sequences, FiniteSets, SequencesExt, Functions

CONSTANTS Paragraphs,       \* the paragraphs a text may have: sequences of lengths
          MaxChars,         \* CHUNK_SIZE_CHARS
          MinChars,         \* MIN_CHUNK_CHARS
          Overlap,          \* CHUNK_OVERLAP_CHARS
          MaxParagraphs     \* bound on a text's length

VARIABLES text,             \* the paragraphs so far: <<sentences, section>>
          chunks            \* chunk_text of them

vars == <<text, chunks>>

Init == text = <<>> /\ chunks = <<>>

-----------------------------------------------------------------------------
(* A unit is a stretch of one paragraph: sentences a to b, or the cut-th slice *)
(* of one that is too long; over marks a sentence that is repeated.            *)
Unit(p, a, b, cut, len) == [p |-> p, a |-> a, b |-> b, cut |-> cut, len |-> len, over |-> FALSE]

Length(sentences) == FoldLeft(+, 0, sentences) + Len(sentences) - 1
Smaller(x, y) == IF x < y THEN x ELSE y

Slices(p, i, len) ==
    LET n == (len + MaxChars - 1) \div MaxChars
    IN  [k \in 1..n |-> Unit(p, i, i, k, Smaller(MaxChars, len - (k - 1) * MaxChars))]

(* _hard_split: sentences packed up to the limit; one above it is sliced.      *)
HardSplit(p, sentences) ==
    LET Step(acc, i) ==
            LET len == sentences[i]
                open == acc[Len(acc)]
                extends == acc # <<>> /\ open.cut = 0 /\ open.len + 1 + len <= MaxChars
            IN  IF len > MaxChars THEN acc \o Slices(p, i, len)
                ELSE IF extends THEN [acc EXCEPT ![Len(acc)].b = i, ![Len(acc)].len = @ + 1 + len]
                ELSE Append(acc, Unit(p, i, i, 0, len))
    IN  FoldLeft(Step, <<>>, [i \in 1..Len(sentences) |-> i])

UnitsOf(p) ==
    LET sentences == text[p][1]
    IN  IF Length(sentences) > MaxChars THEN HardSplit(p, sentences)
        ELSE <<Unit(p, 1, Len(sentences), 0, Length(sentences))>>

(* last_sentence: of a paragraph of several.                                   *)
LastSentence(unit) ==
    IF unit.b = unit.a THEN <<>>
    ELSE <<[unit EXCEPT !.a = unit.b, !.len = text[unit.p][1][unit.b], !.over = TRUE]>>

(* _split_paragraphs: its running length counts a separator after every part.  *)
Chars(units) == FoldLeft(LAMBDA n, u : n + u.len, 0, units) + 2 * (Len(units) - 1)
Split(units) ==
    LET Step(acc, u) ==
            LET tail == LastSentence(Last(acc.current))
                carried == /\ tail # <<>> /\ tail[1].len <= Overlap
                           /\ tail[1].len + u.len + 1 <= MaxChars
            IN  IF acc.current = <<>> THEN [acc EXCEPT !.current = <<u>>]
                ELSE IF Chars(acc.current) + 2 + u.len + 2 <= MaxChars
                THEN [acc EXCEPT !.current = Append(@, u)]
                ELSE [done |-> Append(acc.done, acc.current),
                      current |-> (IF carried THEN tail ELSE <<>>) \o <<u>>]
        packed == FoldLeft(Step, [done |-> <<>>, current |-> <<>>], units)
    IN  Append(packed.done, packed.current)

-----------------------------------------------------------------------------
(* _merge_small.  A piece is [section, units].                                 *)
Joined(x, y, section) == [section |-> section, units |-> x.units \o y.units]
Longer(x, y) == IF Chars(x.units) > Chars(y.units) + 2 THEN x.section ELSE y.section
Fits(x, y) == Chars(x.units) + Chars(y.units) + 2 <= MaxChars + MinChars

(* Mutant: what is carried past the last piece is forgotten.                   *)
CarryForgotten(acc) == acc.out

Carried(acc) ==
    IF acc.carry = <<>> THEN acc.out
    ELSE IF acc.out # <<>> /\ Fits(Last(acc.out), acc.carry[1])
    THEN [acc.out EXCEPT ![Len(acc.out)] = Joined(@, acc.carry[1], @.section)]
    ELSE acc.out \o acc.carry

MergeSmall(pieces) ==
    LET Step(acc, given) ==
            LET piece == IF acc.carry = <<>> THEN given
                         ELSE Joined(acc.carry[1], given, Longer(acc.carry[1], given))
            IN  IF Chars(piece.units) >= MinChars
                THEN [out |-> Append(acc.out, piece), carry |-> <<>>]
                ELSE IF acc.out # <<>> /\ Fits(Last(acc.out), piece)
                THEN [out |-> [acc.out EXCEPT ![Len(acc.out)] = Joined(@, piece, @.section)],
                      carry |-> <<>>]
                ELSE [acc EXCEPT !.carry = <<piece>>]
    IN  Carried(FoldLeft(Step, [out |-> <<>>, carry |-> <<>>], pieces))

(* chunk_text *)
ChunkText ==
    LET sections == {text[p][2] : p \in DOMAIN text}
        In(s) == SelectSeq([p \in 1..Len(text) |-> p], LAMBDA p : text[p][2] = s)
        PiecesOf(s) ==
            LET packed == Split(FoldLeft(LAMBDA us, p : us \o UnitsOf(p), <<>>, In(s)))
            IN  [k \in 1..Len(packed) |-> [section |-> s, units |-> packed[k]]]
    IN  MergeSmall(FoldLeft(LAMBDA ps, s : ps \o PiecesOf(s), <<>>,
                            [s \in 1..Cardinality(sections) |-> s]))

(* A paragraph more, in the last section or under a heading of its own.        *)
AddParagraph(paragraph, opens) ==
    LET last == IF text = <<>> THEN 0 ELSE Last(text)[2]
    IN  /\ chunks = <<>> /\ Len(text) < MaxParagraphs
        /\ text' = Append(text, <<paragraph, IF opens \/ text = <<>> THEN last + 1 ELSE last>>)
        /\ UNCHANGED chunks

Chunk ==
    /\ chunks = <<>> /\ text # <<>>
    /\ chunks' = ChunkText
    /\ UNCHANGED text

Next == Chunk \/ \E paragraph \in Paragraphs, opens \in BOOLEAN : AddParagraph(paragraph, opens)

Spec == Init /\ [][Next]_vars

-----------------------------------------------------------------------------
(* _passage: a chunk shown after another loses the sentence that one ends with.*)
Shown(k) ==
    LET units == chunks[k].units
        before == IF k = 1 THEN <<>> ELSE LastSentence(Last(chunks[k - 1].units))
    IN  IF before # <<>> /\ units[1].over /\ <<units[1].p, units[1].a>> = <<before[1].p, before[1].a>>
        THEN Tail(units) ELSE units

Flat(Of(_)) == FoldLeft(LAMBDA us, k : us \o Of(k), <<>>, [k \in 1..Len(chunks) |-> k])
Original(units) == SelectSeq(units, LAMBDA u : ~u.over)

(* Whatever the paragraphs, the chunks are the text: every sentence and slice  *)
(* once and in order, an overlap being the sentence just before it, in the same*)
(* section; and the reader is shown them all.                                  *)
TextIsKept ==
    LET units == Flat(LAMBDA k : chunks[k].units)
    IN  chunks # <<>> =>
        /\ Original(units)
              = FoldLeft(LAMBDA us, p : us \o UnitsOf(p), <<>>, [p \in 1..Len(text) |-> p])
        /\ \A i \in DOMAIN units : units[i].over =>
              /\ i > 1 /\ units[i].p = units[i - 1].p /\ units[i].a = units[i - 1].b
              /\ i < Len(units) /\ text[units[i + 1].p][2] = text[units[i].p][2]
        /\ Original(Flat(Shown)) = Original(units)

(* Only the last chunk is short, and only because the one before it is full;   *)
(* none is longer than a full one with a short one and its overlap.            *)
SizesHold ==
    /\ \A k \in DOMAIN chunks : Chars(chunks[k].units) <= MaxChars + MinChars + 2
    /\ \A k \in 1..(Len(chunks) - 1) : Chars(chunks[k].units) >= MinChars
    /\ Len(chunks) > 1 /\ Chars(Last(chunks).units) < MinChars
       => ~Fits(chunks[Len(chunks) - 1], Last(chunks))

ChunksHold == TextIsKept /\ SizesHold

(* What the docstring of _split_paragraphs says: "chunks of at most max_chars".*)
AtMostMax ==
    \A s \in {text[p][2] : p \in DOMAIN text} :
        LET mine == SelectSeq([p \in 1..Len(text) |-> p], LAMBDA p : text[p][2] = s)
        IN  \A c \in Range(Split(FoldLeft(LAMBDA us, p : us \o UnitsOf(p), <<>>, mine))) :
                Chars(c) <= MaxChars

(* What the docstring of _passage says of the repeated sentence: "Read as      *)
(* running prose that sentence appears twice, so it is dropped".               *)
SaidOnce == Flat(Shown) = Original(Flat(Shown))

(* What the docstring of _merge_small says of a label: it follows "the one     *)
(* whose content dominates the merged chunk".                                  *)
LabelDominates ==
    \A c \in Range(chunks) :
        LET Share(s) == FoldLeft(LAMBDA n, u : n + (IF text[u.p][2] = s THEN u.len + 2 ELSE 0),
                                 0, c.units)
        IN  \A u \in Range(c.units) : Share(c.section) >= Share(text[u.p][2])
=============================================================================
