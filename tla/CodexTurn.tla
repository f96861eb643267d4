----------------------------- MODULE CodexTurn ------------------------------
(***************************************************************************)
(* A conversation with Codex: the native events of an answer are decoded   *)
(* (codex/decode.go), projected as chat deltas (codex/stream.go), written  *)
(* to the client as Anthropic content blocks (streamResponsePolicy), come  *)
(* back from it with the next request (toOpenAI, toCodex), and the router  *)
(* puts the native output back in their place (Capture, Restore).          *)
(*                                                                         *)
(* A text is a sequence of "x" and of "/" for a line break.  What one item *)
(* of an answer brings is counted in fragments.  The hash of a prefix is   *)
(* the prefix itself.  MaxRecords stands for the 64 MiB a scope's store    *)
(* may hold, MaxCalls for the limit of continuations; MaxItems and         *)
(* MaxFragments bound what the upstream sends in the whole conversation,   *)
(* MaxTurns the requests, MaxForks how often the client goes back and asks *)
(* something else.                                                         *)
(***************************************************************************)
EXTENDS Lists, FiniteSets, SequencesExt

CONSTANTS Scopes, NoScope, MaxTurns, MaxCalls, MaxItems, MaxFragments, MaxRecords, MaxForks

VARIABLES
    log,        \* the conversation: who spoke, its visible and its native form
    records,    \* the replay records saved, newest first
    pc,         \* "ask", "answer" or "captured"
    turn, scope, streaming,  \* this request: its number, member and account, kind
    sent,       \* its input as it went upstream
    items,      \* what the upstream sent of this call
    decoder,    \* the decoder of this call
    whole,      \* Completion of the whole answer: text, tools, native output
    projection, \* Start's projected text and the block it is in
    blocks,     \* the content blocks as the client holds them
    open,       \* openIndex of the translator
    calls,      \* of this answer
    forks, sentItems, sentFragments  \* so far, for the bounds

vars == <<log, records, pc, turn, scope, streaming, sent, items, decoder, whole, projection,
          blocks, open, calls, forks, sentItems, sentFragments>>
bounds == <<forks, sentItems, sentFragments>>
answerVars == <<items, decoder, whole, projection, blocks, open, calls>>

Shown(l) == Flat([i \in DOMAIN l |-> l[i].visible])
Visible == Shown(log)

\* The conversation as the upstream of this scope knows it.
Truth(s) == Flat([i \in DOMAIN log |-> IF log[i].who = s THEN log[i].native ELSE log[i].visible])

Fresh == [text |-> <<>>, got |-> <<>>, tools |-> <<>>, output |-> <<>>, message |-> FALSE]
NoAnswer == /\ items = <<>> /\ decoder = Fresh /\ whole = Fresh
            /\ projection = [text |-> <<>>, block |-> "none"]
            /\ blocks = <<>> /\ open = 0 /\ calls = 1

Init ==
    /\ log = <<>> /\ records = <<>> /\ pc = "ask" /\ turn = 0
    /\ scope = NoScope /\ streaming = FALSE /\ sent = <<>> /\ forks = 0
    /\ sentItems = 0 /\ sentFragments = 0
    /\ NoAnswer

-----------------------------------------------------------------------------
(* The replay records of a scope, in one file that every process of the    *)
(* router reads and replaces whole under a lock.  A file that cannot be    *)
(* read fails the request or the answer, it never counts as empty.         *)

Load(s) == {k \in DOMAIN records : records[k].scope = s}

\* What may be saved: an answer the client saw has its native output.
Sound(r) == Len(r.prefix) > r.start => r.output # <<>>

\* Nothing makes room for a record: a scope that is full fails the answer.
Save(r) == /\ Sound(r) /\ Cardinality(Load(r.scope)) < MaxRecords
           /\ records' = <<r>> \o records

\* The record of an answer: where it stands in the conversation, as the client
\* shows it, and what it was natively.
Capture(s, answer, visible) ==
    [scope |-> s, start |-> Len(Visible), output |-> answer.output,
     prefix |-> Visible \o visible]

-----------------------------------------------------------------------------
(* The request (Restore): of the records that fit, the newest of each      *)
(* start, in the order of the conversation.                                *)

\* Mutant of Fits: only the last item is compared.
FitsLast(r, s, input) ==
    /\ r.scope = s /\ Len(r.prefix) <= Len(input)
    /\ r.prefix # <<>> => r.prefix[Len(r.prefix)] = input[Len(r.prefix)]

Fits(r, s, input) == r.scope = s /\ IsPrefix(r.prefix, input)

\* The record, newest first, that takes over at this item.
Match(s, input, at) ==
    LET fitting == {k \in Load(s) : records[k].start = at /\ Fits(records[k], s, input)}
    IN IF fitting = {} THEN 0 ELSE CHOOSE k \in fitting : \A j \in fitting : k <= j

\* native of the input from the item at on: rest[Len(input) + 1] is its end.
Restore(s, input) ==
    LET end(k) == Len(records[k].prefix)
        from[at \in 0..Len(input)] ==
            LET k == Match(s, input, at)
            IN IF k # 0 /\ end(k) > at THEN records[k].output \o from[end(k)]
               ELSE (IF k # 0 THEN records[k].output ELSE <<>>)
                    \o (IF at = Len(input) THEN <<>> ELSE <<input[at + 1]>> \o from[at + 1])
    IN from[0]

\* The tools the last answer asked to run.
Pending == IF log = <<>> THEN <<>>
           ELSE LET last == Last(log).visible
                IN Only(last, {x \in ToSet(last) : x.type = "call"})

Says(n) == [who |-> "client", visible |-> <<[type |-> "user", n |-> n]>>,
            native |-> <<[type |-> "user", n |-> n]>>]
Results(tools) ==
    LET results == [i \in DOMAIN tools |-> [type |-> "result", id |-> tools[i].id]]
    IN [who |-> "client", visible |-> results, native |-> results]

\* The client asks with a message or the results of the tools it was asked to
\* run; the member and the account may be others than before.
Ask ==
    /\ pc = "ask" /\ turn < MaxTurns
    /\ \E s \in Scopes, kind \in BOOLEAN, n \in 1..(1 + forks) :
         /\ scope' = s /\ streaming' = kind
         /\ log' = Append(log, IF Pending # <<>> THEN Results(Pending) ELSE Says(n))
         /\ sent' = Restore(s, Shown(log'))
    /\ turn' = turn + 1 /\ pc' = "answer"
    /\ UNCHANGED <<records, answerVars, bounds>>

\* The client goes back to before something it said.
Fork ==
    /\ pc = "ask" /\ forks < MaxForks /\ forks' = forks + 1
    /\ \E k \in {i \in DOMAIN log : log[i].who = "client" /\ log[i].visible[1].type = "user"} :
           log' = SubSeq(log, 1, k - 1)
    /\ UNCHANGED <<records, pc, turn, scope, streaming, sent, answerVars, sentItems, sentFragments>>

-----------------------------------------------------------------------------
(* What a chat delta does: the projection of Start and the blocks of       *)
(* streamResponsePolicy.  The state it works on is s.                      *)

CloseOpen(s) == IF s.open = 0 THEN s
                ELSE [s EXCEPT !.blocks[s.open].open = FALSE, !.open = 0]
OpenBlock(s, kind, id) ==
    LET c == CloseOpen(s)
    IN [c EXCEPT !.blocks = Append(@, [kind |-> kind, id |-> id, body |-> <<>>, open |-> TRUE]),
                 !.open = Len(c.blocks) + 1]
Writes(s, b, body) == [s EXCEPT !.blocks[b].body = @ \o body]
IsOpen(s, kind) == s.open # 0 /\ s.blocks[s.open].kind = kind

\* Mutant of Project: the texts are joined without a break.
ProjectUnbroken(p, text) == [text |-> p.text \o text, block |-> "text"]

Project(p, text) ==
    [text |-> p.text \o (IF p.block # "text" /\ p.text # <<>> THEN <<"/">> ELSE <<>>) \o text,
     block |-> "text"]

Streams(s, kind, text) ==
    IF ~streaming \/ text = <<>> THEN s
    ELSE LET o == IF IsOpen(s, kind) THEN s ELSE OpenBlock(s, kind, 0)
             w == Writes(o, o.open, text)
         IN IF kind = "text" THEN [w EXCEPT !.projection = Project(@, text)]
            ELSE [w EXCEPT !.projection.block = kind]

\* A tool's deltas land in the block its first one opened.
StreamsTool(s, id, fragments) ==
    IF ~streaming THEN s
    ELSE LET known == {b \in DOMAIN s.blocks : s.blocks[b].kind = "tool" /\ s.blocks[b].id = id}
             o == IF known = {} THEN OpenBlock(s, "tool", id) ELSE s
             b == IF known = {} THEN o.open ELSE CHOOSE k \in known : TRUE
         IN [Writes(o, b, fragments) EXCEPT !.projection.block = "tool"]

State == [decoder |-> decoder, projection |-> projection, blocks |-> blocks, open |-> open]
Becomes(s) == /\ decoder' = s.decoder /\ projection' = s.projection
              /\ blocks' = s.blocks /\ open' = s.open

-----------------------------------------------------------------------------
(* The native events.  An item is open until it is done; its body is the   *)
(* fragments it brings.                                                    *)

Fragments(n) == [i \in 1..n |-> "x"]
Sends(n) == sentFragments + n <= MaxFragments /\ sentFragments' = sentFragments + n
Answering == pc = "answer"
OpenItems(kind) == {i \in DOMAIN items : items[i].kind = kind /\ ~items[i].done}

\* output_item.added, which keeps a function call's fragments to come.
ItemAdded ==
    /\ Answering /\ sentItems < MaxItems /\ sentItems' = sentItems + 1
    /\ \E kind \in {"message", "call", "reasoning"} :
           items' = Append(items, [kind |-> kind, sent |-> 0, done |-> FALSE])
    /\ decoder' = [decoder EXCEPT !.got = Append(@, 0)]
    /\ UNCHANGED <<log, records, pc, turn, scope, streaming, sent, whole, projection, blocks, open,
                   calls, forks, sentFragments>>

\* The decoder at n fragments of the item i, with more text; and its answer so far.
Counts(d, i, n) == [d EXCEPT !.got[i] = n]
AddsText(d, text) == [d EXCEPT !.text = @ \o text]
Decodes(s, d) == [s EXCEPT !.decoder = d]

\* Mutant of OnDelta: the fragments of a call are passed on as they come.
OnDeltaAtOnce(s, i) ==
    LET d == Counts(s.decoder, i, s.decoder.got[i] + 1)
    IN IF items[i].kind = "message" THEN Streams(Decodes(s, AddsText(d, <<"x">>)), "text", <<"x">>)
       ELSE IF items[i].kind = "reasoning" THEN Streams(Decodes(s, d), "thinking", <<"x">>)
       ELSE StreamsTool(s, <<turn, calls, i>>, <<"x">>)

\* Text and the summaries of reasoning go on at once, arguments are kept.
OnDelta(s, i) ==
    LET d == Counts(s.decoder, i, s.decoder.got[i] + 1)
    IN IF items[i].kind = "message" THEN Streams(Decodes(s, AddsText(d, <<"x">>)), "text", <<"x">>)
       ELSE IF items[i].kind = "reasoning" THEN Streams(Decodes(s, d), "thinking", <<"x">>)
       ELSE Decodes(s, d)

Delta ==
    /\ Answering
    /\ \E i \in DOMAIN items :
         /\ ~items[i].done /\ Sends(1)
         /\ items' = [items EXCEPT ![i].sent = @ + 1]
         /\ Becomes(OnDelta(State, i))
    /\ UNCHANGED <<log, records, pc, turn, scope, streaming, sent, whole, calls, forks, sentItems>>

Raw(kind, i, body) == [type |-> kind, turn |-> turn, call |-> calls, item |-> i, n |-> body]

\* The suffix of the completed item that no delta brought.
Rest(got, body) == Fragments(body - got)

\* decoder.item: the completed item is authoritative, the second time it is
\* the one that was seen.
OnItem(s, i, body) ==
    LET rest == Rest(s.decoder.got[i], body)
        d == [Counts(s.decoder, i, body) EXCEPT !.output = Append(@, Raw(items[i].kind, i, body))]
        id == <<turn, calls, i>>
    IN IF items[i].kind = "message"
       THEN Streams(Decodes(s, [AddsText(d, rest) EXCEPT !.message = TRUE]), "text", rest)
       ELSE IF items[i].kind = "reasoning" THEN Decodes(s, d)
       ELSE StreamsTool(Decodes(s, [d EXCEPT !.tools = Append(@, [id |-> id, n |-> body])]),
                        id, Fragments(body))

ItemDone ==
    /\ Answering
    /\ \E i \in DOMAIN items, more \in 0..1 :
         /\ ~items[i].done /\ Sends(more)
         /\ items' = [items EXCEPT ![i].done = TRUE, ![i].sent = @ + more]
         /\ Becomes(OnItem(State, i, items[i].sent + more))
    /\ UNCHANGED <<log, records, pc, turn, scope, streaming, sent, whole, calls, forks, sentItems>>

-----------------------------------------------------------------------------
(* The end of a call and of the answer.                                    *)

NotDone == {i \in DOMAIN items : ~items[i].done}

\* response.completed may bring items no event of their own completed; those
\* it repeats are known.  Without it a call that is not done is an error, and
\* an upstream that completes no message is taken at its deltas.
Completed(more) ==
    LET upTo[i \in 0..Len(items)] ==
            IF i = 0 THEN State
            ELSE IF items[i].done THEN upTo[i - 1]
            ELSE OnItem(upTo[i - 1], i, items[i].sent + (IF i = Len(items) THEN more ELSE 0))
    IN upTo[Len(items)]
Part(d) == IF d.message \/ d.text = <<>> THEN d
           ELSE [d EXCEPT !.output = Append(@, Raw("message", 0, Len(d.text)))]
Joined(d) == [whole EXCEPT !.text = @ \o d.text, !.tools = @ \o d.tools,
                           !.output = @ \o d.output]

VisibleOutput(text, tools) ==
    (IF text = <<>> THEN <<>> ELSE <<[type |-> "message", text |-> text]>>)
    \o [i \in DOMAIN tools |-> [type |-> "call", id |-> tools[i].id, n |-> tools[i].n]]

\* The client asks again as if it had not asked.
Over == /\ pc' = "ask" /\ sent' = <<>> /\ items' = <<>> /\ decoder' = Fresh /\ whole' = Fresh
        /\ projection' = [text |-> <<>>, block |-> "none"]
        /\ blocks' = <<>> /\ open' = 0 /\ calls' = 1
        /\ scope' = NoScope /\ streaming' = FALSE
Unasked == log' = Front(log) /\ Over

\* The answer is the client's when the turn is saved (BeforeFinish); a store
\* that is full fails it.
Finish(s) ==
    LET answer == Joined(Part(s.decoder))
        text == IF streaming THEN s.projection.text ELSE answer.text
        closed == CloseOpen(s)
    IN /\ whole' = answer
       /\ Save(Capture(scope, answer, VisibleOutput(text, answer.tools)))
       /\ blocks' = IF streaming THEN closed.blocks
                    ELSE (IF text = <<>> THEN <<>>
                          ELSE <<[kind |-> "text", id |-> 0, body |-> text, open |-> FALSE]>>)
                         \o [i \in DOMAIN answer.tools |->
                               [kind |-> "tool", id |-> answer.tools[i].id,
                                body |-> Fragments(answer.tools[i].n), open |-> FALSE]]
       /\ decoder' = s.decoder /\ projection' = s.projection /\ open' = 0
       /\ pc' = "captured"
       /\ UNCHANGED <<log, items, calls>>

\* A further call gets what this one brought; the client's blocks go on.
CallAgain(s) ==
    /\ calls < MaxCalls /\ calls' = calls + 1
    /\ whole' = Joined(Part(s.decoder))
    /\ decoder' = Fresh /\ items' = <<>>
    /\ projection' = s.projection /\ blocks' = s.blocks /\ open' = s.open
    /\ UNCHANGED <<log, records, pc>>

Complete ==
    /\ Answering
    /\ \E withOutput, ends \in BOOLEAN, more \in 0..1 :
         LET s == IF withOutput THEN Completed(more) ELSE State
             part == Part(s.decoder)
         IN /\ withOutput \/ (/\ more = 0 /\ \A i \in NotDone : items[i].kind = "message"
                              /\ NotDone = {} \/ ~decoder.message)
            /\ Sends(more)
            /\ IF part.tools # <<>> \/ ends
               THEN Finish(s)
               ELSE part.output # <<>> /\ CallAgain(s)
    /\ UNCHANGED <<turn, scope, streaming, sent, forks, sentItems>>

\* An error of the protocol, of the store or of the connection.
Fail ==
    /\ Answering /\ Unasked
    /\ UNCHANGED <<records, turn, bounds>>

\* The client's next request carries the blocks as toOpenAI and toCodex read
\* them: the texts joined by line breaks, then the calls.
Reads(e, b) ==
    IF b.kind = "text" THEN [e EXCEPT !.text = @ \o (IF @ = <<>> THEN <<>> ELSE <<"/">>) \o b.body]
    ELSE IF b.kind = "tool" THEN [e EXCEPT !.tools = Append(@, [id |-> b.id, n |-> Len(b.body)])]
    ELSE e
Echo(bs) ==
    LET upTo[n \in 0..Len(bs)] == IF n = 0 THEN [text |-> <<>>, tools |-> <<>>]
                                  ELSE Reads(upTo[n - 1], bs[n])
    IN upTo[Len(bs)]

Arrive ==
    /\ pc = "captured" /\ Over
    /\ log' = Append(log, [who |-> scope, visible |-> VisibleOutput(Echo(blocks).text, Echo(blocks).tools),
                           native |-> whole.output])
    /\ UNCHANGED <<records, turn, bounds>>

\* The client is gone before the end marker.
Lose ==
    /\ pc = "captured" /\ Unasked
    /\ UNCHANGED <<records, turn, bounds>>

Next == Ask \/ Fork \/ ItemAdded \/ Delta \/ ItemDone \/ Complete \/ Fail \/ Arrive \/ Lose

Spec == Init /\ [][Next]_vars

-----------------------------------------------------------------------------
(* Properties.                                                             *)

(* streamResponse, "Anthropic keeps at most one content block open at a    *)
(* time": however the items of an answer overlap upstream, the client sees *)
(* one block after another, and none changes once it was stopped.          *)
OneBlockAtATime ==
    [][pc' # "ask" /\ pc # "ask" =>
           /\ Cardinality({b \in DOMAIN blocks' : blocks'[b].open}) <= 1
           /\ \A b \in DOMAIN blocks : streaming /\ ~blocks[b].open => blocks'[b] = blocks[b]]_vars

(* TextStream, "completed items do not duplicate deltas", and Start's       *)
(* projection, which says what the client will send back: the client has    *)
(* all the text and all the arguments of an answer once, and its echo of    *)
(* one that arrived fits the record saved for it, whatever deltas, blocks   *)
(* and calls the answer came in.                                            *)
Xs(text) == Len(Only(text, {"x"}))
EchoMatches ==
    /\ pc = "captured" =>
        /\ Xs(Echo(blocks).text) = Total([i \in DOMAIN whole.output |->
                                            IF whole.output[i].type = "message" THEN whole.output[i].n ELSE 0])
        /\ Echo(blocks).tools = whole.tools
    /\ pc = "ask" /\ log # <<>> /\ Last(log).who # "client" =>
        \E k \in DOMAIN records : records[k].scope = Last(log).who /\ records[k].prefix = Visible

(* Restore, "A record is usable only when account, model and the entire    *)
(* visible prefix agree": native output only goes back to the account it   *)
(* came from, after the conversation it answered; and as long as no answer *)
(* was lost and the client did not go back, the upstream sees the          *)
(* conversation it took part in, its own output byte for byte.             *)
ReplayExact ==
    pc = "answer" =>
        /\ \A k \in DOMAIN sent : "turn" \in DOMAIN sent[k] =>
              \E j \in DOMAIN records : /\ records[j].scope = scope
                                        /\ IsPrefix(records[j].prefix, Visible)
                                        /\ \E i \in DOMAIN records[j].output : records[j].output[i] = sent[k]
        /\ Len(records) = Cardinality({i \in DOMAIN log : log[i].who # "client"}) =>
           sent = Truth(scope)
=============================================================================
