------------------------------ MODULE Exchange ------------------------------
(***************************************************************************)
(* A protected exchange (internal/privacy/traffic_http.go,                 *)
(* traffic_lifecycle.go, attempt.go): the request is masked with a         *)
(* dictionary, the answer is read whole, restored with it and only then    *)
(* released.  The handler, three timers, the client's context and the      *)
(* abort they start run concurrently; protectedLifecycle.mu makes abort,   *)
(* commit, gotHeaders and the beginning of stop atomic.                    *)
(*                                                                         *)
(* On the "direct" route the handler talks to the upstream, on the "local" *)
(* one handleLocal tries the members of a pool in order and writes into a  *)
(* buffer.  An answer is a sequence of frames: "useful" ones move the idle *)
(* timer, "other" ones do not, "stop" is message_stop with every block     *)
(* closed; what restoring does to the text of a stream is in module        *)
(* Restore.  Limit stands for TrafficOutputLimit; MaxFrames bounds what an *)
(* upstream sends, Members the pool.                                       *)
(***************************************************************************)
EXTENDS Naturals, Sequences

CONSTANTS
    Members, Limit, MaxFrames,
    Outcomes    \* of restoring the text of a stream

VARIABLES
    route, stream, masks,   \* of this request: its route, its kind, the members that mask
    pc,                     \* of the handler
    member,                 \* that is tried
    dictionary, leases,     \* the member the exchange in use was prepared for; those not closed
    life,                   \* protectedLifecycle: committed, finished, expired, seen, body
    armed, fired,           \* the timers that run; whether a function of one waits to run
    aborting,               \* what an abort still has to do: "no", "cancel", "cancel and close"
    cancelled,              \* the context of the upstream's request
    body,                   \* the body of the upstream's answer: "none", "open", "closed"
    frames, ending,         \* what the upstream sent, and how it went on: "more", "eof", "broken"
    taken,                  \* how many frames the handler has read
    failed, rejected,       \* of the attempt
    restored,               \* the dictionary the answer was restored with
    outcome,                \* how the text came out: "none", "restored" or "torn"
    reply,                  \* what commit releases: "answer" or "refusal"
    gone,                   \* the client has left
    sent                    \* what it got: "nothing", "error", "answer", "part"

request == <<route, stream, masks>>
exchange == <<member, dictionary, leases>>
timing == <<life, armed, fired, aborting>>
upstream == <<body, frames, ending, taken>>
attempt == <<failed, rejected>>
out == <<restored, outcome, reply, sent>>
vars == <<request, pc, exchange, timing, cancelled, upstream, attempt, out, gone>>

Timers == {"headers", "idle", "total", "client"}

Init ==
    /\ route \in {"direct", "local"} /\ stream \in BOOLEAN /\ masks \in SUBSET (1..(IF route = "local" THEN Members ELSE 1))
    /\ pc = "receive" /\ member = 1 /\ dictionary = 0 /\ leases = {}
    /\ life = [committed |-> FALSE, finished |-> FALSE, expired |-> FALSE, seen |-> FALSE,
               body |-> FALSE]
    /\ armed = {} /\ fired = FALSE /\ aborting = "no" /\ cancelled = FALSE
    /\ body = "none" /\ frames = <<>> /\ ending = "more" /\ taken = 0
    /\ failed = FALSE /\ rejected = FALSE /\ restored = 0 /\ outcome = "none" /\ reply = "answer"
    /\ gone = FALSE /\ sent = "nothing"

Goes(to) == pc' = to

-----------------------------------------------------------------------------
(* The request is read, masked and sent.                                   *)

\* An invalid request, one that is not complete in time, no route.
Receive ==
    /\ pc = "receive"
    /\ \/ Goes(IF route = "direct" THEN "prepare" ELSE "begin") /\ ~gone
       \/ Goes("reject")
    /\ UNCHANGED <<request, exchange, timing, cancelled, upstream, attempt, out, gone>>

Begin ==
    /\ pc = "begin"
    /\ \/ /\ armed' = {"headers", "total", "client"} /\ cancelled' = gone
          /\ Goes(IF route = "direct" THEN "send" ELSE "prepare")
       \/ Goes("reject") /\ UNCHANGED <<armed, cancelled>>
    /\ UNCHANGED <<request, exchange, life, fired, aborting, upstream, attempt, out, gone>>

\* Mutant of Prepared: the exchange of the member before stays where this one needs none.
PreparedKeeping(m) ==
    IF m \in masks THEN /\ dictionary' = m /\ leases' = (leases \ {dictionary}) \union {m}
                   ELSE UNCHANGED <<dictionary, leases>>

Prepared(m) ==
    /\ dictionary' = IF m \in masks THEN m ELSE 0
    /\ leases' = (leases \ {dictionary}) \union ({m} \intersect masks)

Prepare ==
    /\ pc = "prepare"
    /\ \/ Prepared(member) /\ rejected' = FALSE
          /\ Goes(IF route = "direct" THEN "begin" ELSE "send")
       \/ /\ dictionary' = 0 /\ leases' = leases \ {dictionary} /\ rejected' = TRUE
          /\ Goes(IF route = "direct" THEN "reject" ELSE "returned")
    /\ failed' = FALSE
    /\ UNCHANGED <<request, member, timing, cancelled, upstream, out, gone>>

Lost == cancelled \/ gone

\* handleLocal goes on with the next member as long as nothing was written.
AttemptFails ==
    \/ /\ route = "direct" /\ Goes("reject") /\ UNCHANGED <<member, attempt>>
    \/ /\ route = "local" /\ failed' = TRUE /\ UNCHANGED rejected
       /\ \/ member < Members /\ ~Lost /\ member' = member + 1 /\ Goes("prepare")
          \/ Goes("returned") /\ UNCHANGED member

Closed == IF body = "open" THEN "closed" ELSE body

SendFails ==
    /\ pc = "send" /\ AttemptFails
    /\ UNCHANGED <<request, dictionary, leases, timing, cancelled, upstream, out, gone>>

\* The answer of the upstream is there; until gotHeaders the lifecycle does
\* not know of its body.
Answers ==
    /\ pc = "send" /\ ~Lost /\ Goes("head")
    /\ body' = "open" /\ frames' = <<>> /\ ending' = "more" /\ taken' = 0
    /\ UNCHANGED <<request, exchange, timing, cancelled, attempt, out, gone>>

\* Mutant of GotHeaders: an answer that comes after the abort is not closed.
GotHeadersLeft ==
    IF life.expired THEN UNCHANGED <<life, armed, body>>
    ELSE /\ life' = [life EXCEPT !.seen = TRUE, !.body = route = "direct"]
         /\ armed' = IF life.seen THEN armed ELSE (armed \ {"headers"}) \union {"idle"}
         /\ UNCHANGED body

GotHeaders ==
    IF life.expired THEN /\ body' = IF route = "direct" THEN "closed" ELSE body
                         /\ UNCHANGED <<life, armed>>
    ELSE /\ life' = [life EXCEPT !.seen = TRUE, !.body = route = "direct"]
         /\ armed' = IF life.seen THEN armed ELSE (armed \ {"headers"}) \union {"idle"}
         /\ UNCHANGED body

Headers ==
    /\ pc = "head" /\ GotHeaders /\ Goes("status")
    /\ UNCHANGED <<request, exchange, fired, aborting, cancelled, frames, ending, taken, attempt,
                   out, gone>>

\* A refusal of the upstream is passed on directly, or tried elsewhere.
Status ==
    /\ pc = "status"
    /\ \/ Goes("read") /\ UNCHANGED <<member, attempt, reply, body>>
       \/ /\ route = "direct" /\ reply' = "refusal" /\ Goes("commit")
          /\ UNCHANGED <<member, attempt, body>>
       \/ /\ AttemptFails /\ UNCHANGED reply
          /\ body' = IF route = "local" THEN Closed ELSE body
    /\ UNCHANGED <<request, dictionary, leases, timing, cancelled, frames, ending, taken, restored,
                   outcome, sent, gone>>

-----------------------------------------------------------------------------
(* The answer is read.                                                     *)

UpstreamSends ==
    /\ pc = "read" /\ body = "open" /\ ending = "more" /\ taken = Len(frames)
    /\ \/ /\ Len(frames) < MaxFrames
          /\ \E f \in IF stream THEN {"useful", "other", "stop"} ELSE {"useful"} : frames' = Append(frames, f)
          /\ UNCHANGED ending
       \/ ending' \in {"eof", "broken"} /\ UNCHANGED frames
    /\ UNCHANGED <<request, pc, exchange, timing, cancelled, body, taken, attempt, out, gone>>

Gives(f) == taken < Len(frames) /\ frames[taken + 1] = f
Terminal == stream /\ Gives("stop")

\* The answer is in: on the local route handleLocal closes the body.
ReadDone(n) ==
    /\ taken' = n /\ UNCHANGED <<frames, ending, failed>>
    /\ IF route = "direct" THEN Goes("check") /\ UNCHANGED body
       ELSE Goes("returned") /\ body' = Closed
ReadBroken ==
    /\ frames' = <<>> /\ taken' = 0 /\ ending' = "more"
    /\ IF route = "direct" THEN Goes("reject") /\ UNCHANGED <<body, failed>>
       ELSE Goes("returned") /\ body' = Closed /\ failed' = TRUE

\* Every frame is taken while the exchange has not expired, up to the limit.
ReadFrame ==
    /\ pc = "read" /\ taken < Len(frames) /\ body = "open"
    /\ armed' = IF Gives("useful") \/ ~stream THEN armed \union {"idle"} ELSE armed
    /\ CASE life.expired \/ taken = Limit -> ReadBroken
         [] Terminal /\ ~life.expired /\ taken < Limit -> ReadDone(taken + 1)
         [] OTHER -> taken' = taken + 1 /\ UNCHANGED <<pc, body, frames, ending, failed>>
    /\ UNCHANGED <<request, exchange, life, fired, aborting, cancelled, rejected, out, gone>>

\* Mutant of EndsWell: a stream that ended is taken as it is.
EndsWellAnyhow == ending = "eof" /\ taken = Len(frames)

EndsWell == ~stream /\ ending = "eof" /\ taken = Len(frames)

ReadEnds ==
    /\ pc = "read"
    /\ \/ /\ body = "open" /\ EndsWell /\ ~life.expired
          /\ ReadDone(taken)
       \/ /\ \/ body = "closed" \/ Lost
             \/ taken = Len(frames) /\ ending # "more" /\ ~EndsWell
             \/ life.expired /\ taken = Len(frames) /\ ending # "more"
          /\ ReadBroken
    /\ UNCHANGED <<request, exchange, timing, cancelled, rejected, out, gone>>

\* serveProtectedLocal, once handleLocal is back.
Returned ==
    /\ pc = "returned"
    /\ Goes(IF life.expired \/ Lost \/ rejected \/ failed THEN "reject" ELSE "check")
    /\ armed' = IF life.expired \/ Lost THEN armed ELSE armed \ {"headers"}
    /\ UNCHANGED <<request, exchange, life, fired, aborting, cancelled, upstream, attempt, out, gone>>

-----------------------------------------------------------------------------
(* The answer is checked, restored, released.                              *)

\* Without a dictionary, or in one piece, the text can only be whole.
Results == IF stream /\ dictionary # 0 THEN Outcomes ELSE {"refused", "restored"}

Check ==
    /\ pc = "check"
    /\ \/ \E result \in Results \ {"refused"} :
              /\ ~life.expired /\ ~gone /\ Goes("commit")
              /\ restored' = dictionary /\ outcome' = result
       \/ Goes("reject") /\ UNCHANGED <<restored, outcome>>
    /\ UNCHANGED <<request, exchange, timing, cancelled, upstream, attempt, reply, sent, gone>>

Commit ==
    /\ pc = "commit"
    /\ IF life.expired \/ gone THEN Goes("reject") /\ UNCHANGED life
       ELSE life' = [life EXCEPT !.committed = TRUE] /\ Goes("write")
    /\ UNCHANGED <<request, exchange, armed, fired, aborting, cancelled, upstream, attempt, out, gone>>

\* The client takes all of it, or the write deadline passes meanwhile.
Write ==
    /\ pc = "write"
    /\ sent' \in IF reply = "refusal" THEN {"error", "nothing"} ELSE {"answer", "part", "nothing"}
    /\ Goes("stop")
    /\ UNCHANGED <<request, exchange, timing, cancelled, upstream, attempt, restored, outcome, reply, gone>>

Reject ==
    /\ pc = "reject" /\ sent' \in {"error", "nothing"} /\ Goes("stop")
    /\ UNCHANGED <<request, exchange, timing, cancelled, upstream, attempt, restored, outcome, reply, gone>>

\* protectedLifecycle.stop: its critical section, then the rest of it and the
\* exchange's Close.
Stop ==
    /\ pc = "stop" /\ Goes("stopping")
    /\ life' = [life EXCEPT !.finished = TRUE]
    /\ UNCHANGED <<request, exchange, armed, fired, aborting, cancelled, upstream, attempt, out, gone>>

Stopping ==
    /\ pc = "stopping" /\ Goes("done")
    /\ body' = IF life.body THEN "closed" ELSE body
    /\ armed' = {} /\ cancelled' = TRUE
    /\ leases' = leases \ {dictionary} /\ dictionary' = 0
    /\ UNCHANGED <<request, member, life, fired, aborting, frames, ending, taken, attempt, out, gone>>

-----------------------------------------------------------------------------
(* The timers, the client and abort.                                       *)

\* Stop of a timer does not take back a function that was started.
TimerFires ==
    /\ \E t \in armed \ {"client"} : armed' = armed \ {t} /\ fired' = TRUE
    /\ UNCHANGED <<request, pc, exchange, life, aborting, cancelled, upstream, attempt, out, gone>>

ClientLeaves ==
    /\ ~gone /\ pc # "done" /\ gone' = TRUE
    /\ cancelled' = (cancelled \/ "client" \in armed)
    /\ UNCHANGED <<request, pc, exchange, timing, upstream, attempt, out>>

ContextFires ==
    /\ gone /\ "client" \in armed
    /\ armed' = armed \ {"client"} /\ fired' = TRUE
    /\ UNCHANGED <<request, pc, exchange, life, aborting, cancelled, upstream, attempt, out, gone>>

Abort ==
    /\ fired /\ fired' = FALSE
    /\ IF life.finished \/ life.expired THEN UNCHANGED <<life, aborting>>
       ELSE /\ life' = [life EXCEPT !.expired = TRUE]
            /\ aborting' = IF life.body THEN "cancel and close" ELSE "cancel"
    /\ UNCHANGED <<request, pc, exchange, armed, cancelled, upstream, attempt, out, gone>>

Aborted == aborting # "no" /\ cancelled' = TRUE

AbortEnds ==
    /\ Aborted
    /\ body' = IF aborting = "cancel and close" THEN "closed" ELSE body
    /\ aborting' = "no"
    /\ UNCHANGED <<request, pc, exchange, life, armed, fired, frames, ending, taken, attempt, out, gone>>

-----------------------------------------------------------------------------
Before == Receive \/ Begin \/ Prepare
Reading == Headers \/ Status \/ ReadFrame \/ ReadEnds \/ Returned
After == Check \/ Commit \/ Write \/ Reject \/ Stop \/ Stopping
Aborts == TimerFires \/ ContextFires \/ Abort \/ AbortEnds
Outside == Answers \/ UpstreamSends \/ ClientLeaves

Next == Before \/ SendFails \/ Reading \/ After \/ Aborts \/ Outside

\* The handler runs, its reads of the request and writes to the client are
\* bounded by the connection's deadlines, a timer that runs fires and what it
\* starts ends.  Nothing is expected of the upstream or the client; a request
\* that is under way fails once its context is cancelled.
Spec ==
    /\ Init /\ [][Next]_vars
    /\ WF_vars(Before \/ Reading \/ After)
    /\ WF_vars(Lost /\ SendFails)
    /\ WF_vars(TimerFires) /\ WF_vars(Abort) /\ WF_vars(AbortEnds)

-----------------------------------------------------------------------------
(* Properties.                                                             *)

(* readProtectedBody, commit: what the client gets of an answer is whole   *)
(* and restored with the dictionary of the member that gave it, whatever   *)
(* members failed before it and whatever timer fired meanwhile.            *)
Whole == IF stream THEN taken > 0 /\ frames[taken] = "stop"
         ELSE ending = "eof" /\ taken = Len(frames)
ReleasedWhole ==
    sent \in {"answer", "part"} =>
        /\ Whole /\ taken <= Limit
        /\ restored = IF member \in masks THEN member ELSE 0

(* NewStreamUnmasker: however an upstream cuts its text into deltas, each  *)
(* block's text comes out as if it had come in one piece, before the block *)
(* ends; only a pseudonym that is part of a longer word may come out       *)
(* either way.                                                             *)
RestoredAsWhole == sent \in {"answer", "part"} => outcome # "torn"

(* abort, stop, gotHeaders and CloseExchange: a silent upstream or client   *)
(* does not hold an exchange, and in whatever order the upstream's answer,  *)
(* the abort, the failovers and the handler's end come, no body, timer,     *)
(* dictionary or upstream request is left behind.                           *)
EveryExchangeEnds ==
    <>[](pc = "done" /\ body # "open" /\ armed = {} /\ leases = {} /\ cancelled)
=============================================================================
