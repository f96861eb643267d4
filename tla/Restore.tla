------------------------------ MODULE Restore ------------------------------
(***************************************************************************)
(* How a streamed answer gets its real values back (internal/privacy:      *)
(* transport.go admits the stream, sse.go restores it, request.go and      *)
(* trie.go find the pseudonyms).  A pseudonym may arrive cut anywhere into *)
(* deltas, so each block keeps back the end of its text that could still   *)
(* become one; the input of a tool is kept back as a whole.                *)
(*                                                                         *)
(* A text is a sequence of symbols.  A frame is a record of its event, the *)
(* index and the kind of its block, and the text it carries; the kind of a *)
(* block or a delta the router does not know is "future".  Left out: how   *)
(* frames are encoded, network addresses, letter case and byte limits.     *)
(***************************************************************************)
EXTENDS Lists, SequencesExt

CONSTANTS
    Symbols,      \* what texts are made of
    Keys,         \* the pseudonyms of the request
    Secrets,      \* those that stand for secrets
    WordLike,     \* symbols that continue a word (wordRune)
    AddressLike,  \* symbols that continue what could be an address: ASCII only
    Broken,       \* symbols that a tool input does not parse with
    Bodies        \* the streams to be restored

ASSUME KeysAssumption == Keys \subseteq Seq(Symbols) \ {<<>>}

-----------------------------------------------------------------------------
(* Text.                                                                   *)

Least(S) == CHOOSE x \in S : \A y \in S : x <= y
Greatest(S) == CHOOSE x \in S : \A y \in S : y <= x

Span(text, m) == SubSeq(text, m[1] + 1, m[2])

\* The end of the longest key that begins at the offset s, s if there is none.
Longest(text, s) ==
    Greatest({s} \cup {e \in s + 1 .. Len(text) : SubSeq(text, s + 1, e) \in Keys})

\* trieNode.matches: from left to right, the longest key, none that overlap.
Matches(text) ==
    LET scan[s \in 0 .. Len(text)] ==
            LET e == Longest(text, s) IN
            IF s = Len(text) THEN {} ELSE IF e > s THEN {<<s, e>>} \cup scan[e] ELSE scan[s + 1]
    IN  scan[0]

WordBoundary(text, m) ==
    /\ m[1] > 0 => text[m[1]] \notin WordLike
    /\ m[2] < Len(text) => text[m[2] + 1] \notin WordLike

Restorable(text, m) == Span(text, m) \in Secrets \/ WordBoundary(text, m)

Literal(text) == [i \in DOMAIN text |-> <<text[i]>>]
Original(key) == <<"real">> \o key

\* What becomes of the text between the offsets of a match.
Piece(text, m) ==
    IF Restorable(text, m) THEN <<Original(Span(text, m))>> ELSE Literal(Span(text, m))

\* unmaskText and applyText.
Unmasked(text) ==
    LET from[s \in 0 .. Len(text)] ==
            LET e == Longest(text, s) IN
            IF s = Len(text) THEN <<>>
            ELSE IF e > s THEN Piece(text, <<s, e>>) \o from[e]
            ELSE <<<<text[s + 1]>>>> \o from[s + 1]
    IN  from[0]

\* suffixPrefix: where the earliest suffix begins that a key continues.
SuffixPrefix(text) ==
    Least({Len(text)} \cup {s \in 0 .. Len(text) :
            \E k \in Keys : Len(k) > Len(text) - s /\ SubSeq(k, 1, Len(text) - s) = SubSeq(text, s + 1, Len(text))})

\* Where the last run of symbols begins that could belong to an address.
LastRun(text) ==
    Least({s \in 0 .. Len(text) : \A i \in s + 1 .. Len(text) : text[i] \in AddressLike})

\* Mutant of HoldFrom: what is kept back may begin inside a complete key.
HoldFromCut(text) == Least({SuffixPrefix(text), LastRun(text)})

\* holdFrom: what is kept back never begins inside a complete key.
HoldFrom(text) ==
    LET cut == Least({SuffixPrefix(text), LastRun(text)})
    IN  Least({cut} \cup {m[1] : m \in {x \in Matches(text) : x[2] > cut /\ x[1] < cut}})

-----------------------------------------------------------------------------
(* Frames.                                                                 *)

Frames == [event : {"message_start", "start", "delta", "stop", "message_stop", "ping", "error"},
           index : Nat, kind : {"text", "tool", "thinking", "future", "none"}, text : Seq(Symbols)]
OfBlock(f) == f.event \in {"start", "delta", "stop"}

\* Blocks are numbered from 1; a tool's input comes in its deltas.
ASSUME BodiesAssumption ==
    /\ Bodies \subseteq Seq(Frames)
    /\ \A answer \in Bodies : \A p \in DOMAIN answer :
           /\ (answer[p].index = 0) = ~OfBlock(answer[p])
           /\ answer[p].event = "start" /\ answer[p].kind = "tool" => answer[p].text = <<>>

Frame(event, index, kind, text) == [event |-> event, index |-> index, kind |-> kind, text |-> text]

Earlier(answer, p, event, i) ==
    \E q \in 1 .. p - 1 : answer[q].event = event /\ answer[q].index = i
OpenBlock(answer, p, i) == Earlier(answer, p, "start", i) /\ ~Earlier(answer, p, "stop", i)
KindOf(answer, i) ==
    LET p == CHOOSE p \in DOMAIN answer : answer[p].event = "start" /\ answer[p].index = i
    IN  answer[p].kind

\* A delta of a kind the router knows belongs to a block of that kind.
Fits(block, delta) == delta = block \/ "future" \in {block, delta}

\* checkSupportedTrafficSSE: the order of the frames and the lives of the blocks.
Admitted(answer) ==
    LET started(p) == Earlier(answer, p, "message_start", 0)
        fits(p) ==
            LET f == answer[p] IN
            /\ f.event = "message_start" => ~started(p)
            /\ f.event = "start" => started(p) /\ ~Earlier(answer, p, "start", f.index)
            /\ f.event \in {"delta", "stop"} => OpenBlock(answer, p, f.index)
            /\ f.event = "delta" => Fits(KindOf(answer, f.index), f.kind)
            /\ f.event = "message_stop" =>
                   /\ started(p)
                   /\ \A q \in 1 .. p - 1 :
                          answer[q].event = "start" => ~OpenBlock(answer, p, answer[q].index)
            /\ f.event # "error"
    IN  /\ \E p \in DOMAIN answer : answer[p].event = "message_stop"
        /\ \A p \in DOMAIN answer : fits(p) /\ ~Earlier(answer, p, "message_stop", 0)

-----------------------------------------------------------------------------
(* The stream: what has been written, the kinds of the blocks and the text *)
(* each keeps back.                                                        *)

Kept(s, i) == IF i \in DOMAIN s.tails THEN s.tails[i] ELSE <<>>
Keep(s, i, text) == [j \in DOMAIN s.tails \cup {i} |-> IF j = i THEN text ELSE s.tails[j]]
Emit(s, f) == [s EXCEPT !.out = Append(@, f)]

\* A frame the router does not look into.
Verbatim(s, f) == Emit(s, [f EXCEPT !.text = Literal(@)])

\* flush: what was kept back is restored in a delta of its own.
Flush(s, i) ==
    LET text == Kept(s, i) IN
    IF text = <<>> THEN s
    ELSE IF s.kinds[i] = "tool" /\ Broken \cap ToSet(text) # {} THEN [s EXCEPT !.failed = TRUE]
    ELSE Emit([s EXCEPT !.tails = Keep(s, i, <<>>)],
              Frame("delta", i, s.kinds[i], Unmasked(text)))

\* flushAll: in the order of the blocks, numbered from 1 here.
FlushAll(s) ==
    LET blocks == DOMAIN s.tails
        upTo[i \in {0} \cup blocks] ==
            IF i = 0 THEN s
            ELSE Flush(upTo[Greatest({j \in {0} \cup blocks : j < i})], i)
    IN  upTo[Greatest({0} \cup blocks)]

Start(s, f) ==
    LET cut == HoldFrom(f.text)
        known == [s EXCEPT !.kinds = [j \in DOMAIN @ \cup {f.index} |->
                                          IF j = f.index THEN f.kind ELSE @[j]]]
    IN  IF f.kind # "text" THEN Verbatim(known, f)
        ELSE Emit([known EXCEPT !.tails = Keep(s, f.index, SubSeq(f.text, cut + 1, Len(f.text)))],
                  [f EXCEPT !.text = Unmasked(SubSeq(f.text, 1, cut))])

Delta(s, f) ==
    LET text == Kept(s, f.index) \o f.text
        cut == IF f.kind = "tool" THEN 0 ELSE HoldFrom(text)
    IN  IF f.kind \notin {"text", "tool"} \/ s.kinds[f.index] # f.kind THEN Verbatim(s, f)
        ELSE Emit([s EXCEPT !.tails = Keep(s, f.index, SubSeq(text, cut + 1, Len(text)))],
                  [f EXCEPT !.text = Unmasked(SubSeq(text, 1, cut))])

\* streamUnmasker.frame.  An error ends the stream and refuses the answer.
TakeFrame(s, f) ==
    IF s.failed THEN s
    ELSE IF f.event = "start" THEN Start(s, f)
    ELSE IF f.event = "delta" THEN Delta(s, f)
    ELSE IF f.event = "stop" THEN Verbatim(Flush(s, f.index), f)
    ELSE IF f.event = "message_stop" THEN Verbatim(FlushAll(s), f)
    ELSE Verbatim(s, f)

RestoredStream(answer) ==
    LET after[p \in 0 .. Len(answer)] ==
            IF p = 0 THEN [out |-> <<>>, tails |-> <<>>, kinds |-> <<>>, failed |-> FALSE]
            ELSE TakeFrame(after[p - 1], answer[p])
    IN  after[Len(answer)]

-----------------------------------------------------------------------------
(* What an answer should be restored to.                                   *)

Rewritten(answer, f) ==
    f.event \in {"start", "delta"} /\ f.kind \in {"text", "tool"} /\ KindOf(answer, f.index) = f.kind

\* The text a block carries, its pieces joined.
TextOf(answer, i) ==
    Flat([p \in DOMAIN answer |->
              IF answer[p].index = i /\ Rewritten(answer, answer[p]) THEN answer[p].text ELSE <<>>])

\* What the router does not rewrite, and the order of the blocks around it.
Skeleton(answer, plain) ==
    LET outline(f) == IF Rewritten(answer, f)
                      THEN IF f.event = "delta" THEN <<>> ELSE <<[f EXCEPT !.text = <<>>]>>
                      ELSE <<IF plain THEN [f EXCEPT !.text = Literal(@)] ELSE f>>
    IN  Flat([p \in DOMAIN answer |-> outline(answer[p])])

\* A key that begins at the offset s and has several words.
Spaced(text, s) ==
    \E k \in Keys : \E n \in 1 .. Len(k) :
        k[n] \notin AddressLike /\ s + n <= Len(text) /\ SubSeq(text, s + 1, s + n) = SubSeq(k, 1, n)

\* A key that is part of a longer word, where what the last delta ended with
\* decides: wordRune knows every letter, holdFrom keeps back ASCII only, and
\* keeps a key of several words back from where it begins in the same word.
Glued(text) == \E m \in Matches(text) :
    /\ ~Restorable(text, m)
    /\ \/ \E i \in DOMAIN text : m[1] <= i /\ i <= m[2] + 1 /\ text[i] \notin AddressLike
       \/ \E s \in m[1] .. Len(text) :
              Spaced(text, s) /\ \A i \in m[1] + 1 .. s : text[i] \in AddressLike

Remasked(pieces) ==
    Flat([p \in DOMAIN pieces |-> IF Len(pieces[p]) = 1 THEN pieces[p] ELSE Tail(pieces[p])])

\* The same stream, and each text restored as if it had come in one piece.
Faithful(answer, out) ==
    /\ Admitted(out) /\ Skeleton(out, FALSE) = Skeleton(answer, TRUE)
    /\ \A i \in {answer[p].index : p \in DOMAIN answer} :
           LET text == TextOf(answer, i) IN
           /\ Remasked(TextOf(out, i)) = text
           /\ Glued(text) \/ TextOf(out, i) = Unmasked(text)

\* Exchange.Restore of one stream.
Outcome(answer) ==
    LET s == RestoredStream(answer) IN
    IF ~Admitted(answer) \/ s.failed THEN "refused"
    ELSE IF Faithful(answer, s.out) THEN "restored" ELSE "torn"

Outcomes == {Outcome(answer) : answer \in Bodies}
=============================================================================
