------------------------------ MODULE Streams -------------------------------
(***************************************************************************)
(* One request to the members of a pool, or through the reverse proxy, up  *)
(* to the end of its answer: the bound on the first byte, the watch on the *)
(* answer's body (upstream_watch.go), the choice of the next member        *)
(* (handleLocal, tryModel), and the calls a Codex turn goes on with        *)
(* (tryCodexModel, Exchange).  A call is one request to an upstream.  Its  *)
(* timers and its context are those of the present call: what is left of   *)
(* an earlier one can only cancel what is over, except that the watch of a *)
(* Codex call may still be about to cancel its attempt.                    *)
(*                                                                         *)
(* Time is left out: a timer that is set may fire.  MaxCalls stands for    *)
(* Options.MaxContinuations, MaxItems bounds what an upstream sends.       *)
(***************************************************************************)
EXTENDS Naturals

CONSTANTS Members, MaxCalls, MaxItems,
          Settings    \* the settings looked at: the bounds that are on, and
                      \* whether the client streams

Bounds == [stream : BOOLEAN, firstByte : BOOLEAN, start : BOOLEAN, idle : BOOLEAN]

ASSUME BoundsAssumption ==
    /\ Members \in Nat \ {0} /\ MaxCalls \in Nat \ {0} /\ MaxItems \in Nat
    /\ Settings \subseteq Bounds

VARIABLES
    route,      \* "pool" (tryModel), "codex" (tryCodexModel) or "proxy"
    bounds,     \* its setting
    pc,         \* handler: before the first event, relaying the answer, done
    conn,       \* the call: waiting for headers, reading the body, finishing
    member, call,
    begun,      \* Completion.Started of the calls of this member
    given,      \* the client got bytes of an answer
    told,       \* how the client's answer ended
    client,     \* "there" or "gone"
    cancelled,  \* the context of the attempt on this member is cancelled
    cut,        \* the context of the call is cancelled, or its body closed
    timer,      \* its first-byte timer
    watch,      \* its bodyWatch
    fired,      \* calls of expire whose timer has fired
    aborting,   \* a watch is about to call abort
    up, coming, sent, \* the upstream and what of it is not read yet
    got,        \* what body.Read returned, before the watch's lock is taken
    reads,      \* reads the watch has seen complete
    signedIn,   \* the Codex connection of this member has a token that works
    late        \* the watch of an earlier call expired as that call ended

vars == <<route, bounds, pc, conn, member, call, begun, given, told, client, cancelled, cut,
          timer, watch, fired, aborting, up, coming, sent, got, reads, signedIn, late>>
requestVars == <<route, bounds, given, told>>
whereVars == <<pc, conn, member, call, begun>>
contextVars == <<client, signedIn, cancelled, cut>>
watchVars == <<watch, fired, aborting, reads, late>>
upVars == <<up, coming, sent>>

Phase == {"off", "start", "idle"}
Expiry == [gen : Nat, phase : Phase, reads : Nat]
\* What an upstream sends: a heartbeat, a reasoning item, output, the end, a
\* Codex end that asks for a further call, a transient rejection, and what a
\* pool's translator cannot read: malformed JSON, or usage that is no number.
Item == {"beat", "think", "begin", "end", "more", "refused", "bad"}

Unwatched == [gen |-> 0, phase |-> "off", err |-> "off"]

\* Only a streamed answer is proxied under a watch.
Init ==
    /\ route \in {"pool", "codex", "proxy"} /\ bounds \in Settings
    /\ route = "proxy" => bounds.stream /\ ~bounds.firstByte
    /\ pc = "first" /\ conn = "dial" /\ member = 1 /\ call = 1
    /\ begun = FALSE /\ given = FALSE /\ told = "nothing" /\ client = "there" /\ signedIn = TRUE
    /\ cancelled = FALSE /\ cut = FALSE
    /\ timer = IF bounds.firstByte THEN "set" ELSE "off"
    /\ watch = Unwatched /\ fired = {} /\ aborting = FALSE /\ late = FALSE
    /\ up = "quiet" /\ coming = "nothing" /\ sent = 0
    /\ got = "nothing" /\ reads = 0

-----------------------------------------------------------------------------
(* The upstream.                                                           *)

\* The decoder of a Codex turn makes every event a known one or an error, the
\* proxy passes on what it gets.
Sends == IF route = "codex" THEN Item \ {"bad"}
         ELSE IF route = "pool" THEN {"beat", "begin", "end", "bad"} ELSE {"begin", "end"}

UpstreamSends ==
    /\ pc # "done" /\ up = "open" /\ coming = "nothing" /\ sent < MaxItems
    /\ \E i \in Sends : /\ coming' = i
                        /\ up' = IF i \in {"end", "more", "refused"} THEN "ended" ELSE up
    /\ sent' = sent + 1
    /\ UNCHANGED <<requestVars, whereVars, contextVars, timer, watchVars, got>>

UpstreamBreaks ==
    /\ pc # "done" /\ up = "open" /\ up' = "ended"
    /\ UNCHANGED <<requestVars, whereVars, contextVars, timer, watchVars, coming, sent, got>>

\* The request's context ends, and with it every context made from it.
ClientLeaves ==
    /\ client = "there" /\ pc # "done"
    /\ client' = "gone"
    /\ UNCHANGED <<requestVars, whereVars, signedIn, cancelled, cut, timer, watchVars, upVars, got>>

Dead == cut \/ cancelled \/ client = "gone"

-----------------------------------------------------------------------------
(* The watch.                                                              *)

Arm(w, phase) == [w EXCEPT !.gen = @ + 1, !.phase = phase]
StartBound == IF bounds.start /\ (bounds.stream \/ route = "codex") THEN "start" ELSE "off"

\* Mutant of IdleBound: only the silence before the first byte is bounded.
IdleBoundOnce == "off"

IdleBound == IF bounds.idle /\ (bounds.stream \/ route = "codex") THEN "idle" ELSE "off"

\* The runtime starts the timer's function, which then has to take the lock.
BoundPasses ==
    /\ watch.phase # "off"
    /\ fired' = fired \cup {[gen |-> watch.gen, phase |-> watch.phase, reads |-> reads]}
    /\ watch' = [watch EXCEPT !.phase = "off"]
    /\ UNCHANGED <<requestVars, whereVars, contextVars, timer, aborting, reads, late, upVars, got>>

\* Mutant of Expire: a timer that fired before it was stopped still counts.
ExpireStale(c) ==
    /\ c \in fired /\ fired' = fired \ {c}
    /\ IF watch.err # "off" THEN UNCHANGED <<watch, aborting>>
       ELSE watch' = [watch EXCEPT !.err = c.phase] /\ aborting' = TRUE
    /\ UNCHANGED <<requestVars, whereVars, contextVars, timer, reads, late, upVars, got>>

Expire(c) ==
    /\ c \in fired /\ fired' = fired \ {c}
    /\ IF c.gen # watch.gen \/ watch.err # "off" THEN UNCHANGED <<watch, aborting>>
       ELSE watch' = [watch EXCEPT !.err = c.phase] /\ aborting' = TRUE
    /\ UNCHANGED <<requestVars, whereVars, contextVars, timer, reads, late, upVars, got>>

\* abort cancels the attempt, in the proxy it closes the body.
Abort ==
    /\ aborting /\ aborting' = FALSE
    /\ IF route = "proxy" THEN cut' = TRUE /\ UNCHANGED cancelled
       ELSE cancelled' = TRUE /\ UNCHANGED cut
    /\ UNCHANGED <<requestVars, whereVars, client, signedIn, timer, watch, fired, reads, late, upVars, got>>

-----------------------------------------------------------------------------
(* The bound on the first byte: its function cancels the attempt, in a     *)
(* Codex turn only this call.                                              *)

FirstByteFires ==
    /\ timer = "set" /\ timer' = "fired"
    /\ UNCHANGED <<requestVars, whereVars, contextVars, watchVars, upVars, got>>

\* slow and expired are set before cancel is called.
CancelsSlow ==
    /\ timer = "fired" /\ ~cut /\ cut' = TRUE
    /\ UNCHANGED <<requestVars, whereVars, client, signedIn, cancelled, timer, watchVars, upVars, got>>

Slow == timer = "fired" /\ cut

-----------------------------------------------------------------------------
(* How a try fails and what comes next.                                    *)

\* Mutant of Retryable: what was already generated does not count.
RetryableAlways(e) ==
    IF route = "codex" THEN e \in {"start", "signIn", "refused"}
    ELSE route = "pool" /\ e \notin {"idle", "rejected"}

\* In a pool everything but a refusal for good and a silence mid-answer; in a
\* Codex turn a silence from the headers on, a connection to sign in again,
\* and a rejection of a first call that had not begun.
Retryable(e) ==
    IF route = "codex" THEN e \in {"start", "signIn"} \/ (e = "refused" /\ ~begun /\ call = 1)
    ELSE route = "pool" /\ e \notin {"idle", "rejected"}

\* Close stops the bound; the context of the call ends with it.
CloseBody == watch' = Unwatched /\ fired' = {} /\ reads' = 0 /\ cut' = FALSE
Close == CloseBody /\ got' = "nothing"

\* The next request: its timer runs from before it is sent.
Opens == /\ conn' = "dial" /\ timer' = IF bounds.firstByte THEN "set" ELSE "off"
         /\ up' = "quiet" /\ coming' = "nothing" /\ sent' = 0

\* An attempt ends with its context, and an abort of it comes to nothing.
Ends(how) == /\ pc' = "done" /\ told' = how /\ cancelled' = TRUE /\ timer' = "off"
             /\ UNCHANGED <<conn, member, call, begun, upVars>>

\* Bytes that went out belong to this member; the client that is still there
\* is told, unless the error is that of a cancelled context.
Fails(e) ==
    /\ Close /\ aborting' = FALSE
    /\ IF pc = "first" /\ client = "there" /\ Retryable(e) /\ member < Members
       THEN /\ member' = member + 1 /\ call' = 1 /\ begun' = FALSE /\ Opens
            /\ cancelled' = FALSE /\ late' = FALSE /\ signedIn' = TRUE
            /\ UNCHANGED <<pc, told>>
       ELSE /\ Ends(IF client = "gone" \/ (e = "canceled" /\ given) THEN "nothing"
                    ELSE IF route = "proxy" /\ given THEN "dropped" ELSE "error")
            /\ UNCHANGED <<signedIn, late>>
    /\ UNCHANGED <<route, bounds, given, client>>

-----------------------------------------------------------------------------
(* The headers.                                                            *)

\* ModifyResponse and tryModel put the watch on the body.
HeadersArrive ==
    /\ pc # "done" /\ conn = "dial" /\ ~Dead /\ signedIn
    /\ conn' = "body" /\ up' = "open"
    /\ watch' = Arm(watch, StartBound)
    /\ IF route = "proxy" THEN pc' = "answer" /\ given' = TRUE ELSE UNCHANGED <<pc, given>>
    /\ UNCHANGED <<route, bounds, told, member, call, begun, contextVars, timer, fired,
                   aborting, reads, late, coming, sent, got>>

\* The token stops working and cannot be refreshed.
SignInEnds ==
    /\ route = "codex" /\ pc # "done" /\ conn = "dial" /\ signedIn /\ signedIn' = FALSE
    /\ UNCHANGED <<requestVars, whereVars, client, cancelled, cut, timer, watchVars, upVars, got>>

\* 404, 408, 429 and 5xx, any other error status, or authorize fails.
StatusRefuses ==
    /\ pc # "done" /\ conn = "dial" /\ ~Dead /\ route # "proxy"
    /\ \E e \in IF signedIn THEN {"refused", "rejected"} ELSE {"signIn"} : Fails(e)

\* The connection fails, the transport's bounds pass or a context ends.
DialFails ==
    /\ pc # "done" /\ conn = "dial"
    /\ Fails(IF Slow THEN "slow" ELSE IF Dead THEN "canceled" ELSE "dial")

-----------------------------------------------------------------------------
(* The body.  Read looks at err, reads without the lock, then takes it.    *)

ReadBody ==
    /\ pc # "done" /\ conn = "body" /\ got = "nothing" /\ watch.err = "off"
    /\ \/ coming # "nothing" /\ got' = coming /\ coming' = "nothing"
       \/ (Dead \/ (coming = "nothing" /\ up = "ended")) /\ got' = "failure" /\ UNCHANGED coming
    /\ UNCHANGED <<requestVars, whereVars, contextVars, timer, watchVars, up, sent>>

\* Mutant of ReadError: the reader's own error comes before the watch's.
ReadErrorOwn == IF Slow THEN "slow" ELSE IF Dead THEN "canceled" ELSE "lost"

ReadError ==
    IF Slow THEN "slow" ELSE IF watch.err # "off" THEN watch.err
    ELSE IF Dead THEN "canceled" ELSE "lost"

ReadFails ==
    /\ pc # "done" /\ conn = "body"
    /\ got = "failure" \/ (got = "nothing" /\ watch.err # "off")
    /\ Fails(ReadError)

\* Bytes that came rearm the bound unless it has passed.
Takes(items) ==
    /\ pc # "done" /\ conn = "body" /\ got \in items /\ got' = "nothing"
    /\ reads' = reads + 1
    /\ watch' = IF watch.err # "off" THEN watch ELSE Arm(watch, IdleBound)
    /\ UNCHANGED <<route, bounds, contextVars, fired, aborting, late, upVars>>

\* Heartbeats leave the bound on the first byte alone.
TakeBeat ==
    /\ route # "pool" \/ bounds.stream
    /\ Takes({"beat"})
    /\ UNCHANGED <<given, told, whereVars, timer>>

Progress == timer' = IF timer = "set" THEN "off" ELSE timer

\* A reasoning item is progress that the client does not see.
TakeThought ==
    /\ Takes({"think"}) /\ Progress
    /\ begun' = TRUE
    /\ UNCHANGED <<given, told, pc, conn, member, call>>

\* The first output, for a member of a pool also the first byte of a whole
\* answer, ends the wait; a blocking Codex turn is collected first.
TakeOutput ==
    /\ route = "pool" /\ pc = "first" => timer # "fired"
    /\ Takes({"begin"} \cup IF route = "pool" /\ ~bounds.stream THEN {"beat"} ELSE {})
    /\ Progress
    /\ begun' = TRUE
    /\ IF route = "codex" /\ ~bounds.stream THEN UNCHANGED <<pc, given>>
       ELSE pc' = "answer" /\ given' = TRUE
    /\ UNCHANGED <<told, conn, member, call>>

\* The timer could not be stopped any more: the event came too late.
TooLate ==
    /\ route = "pool" /\ pc = "first" /\ conn = "body" /\ timer = "fired"
    /\ got = "begin" \/ (got \in {"beat", "bad"} /\ ~bounds.stream)
    /\ Fails("slow")

\* The end before any event, and in a stream an event that cannot be read, is
\* an error a next member may repair.
EndsEmpty ==
    /\ route = "pool" /\ pc = "first" /\ conn = "body"
    /\ got = "end" \/ (got = "bad" /\ bounds.stream)
    /\ Fails("lost")

\* What cannot be read once the answer has begun: streamResponsePolicy returns
\* with nothing written, blockingResponsePolicy answers with an error.
TakeBad ==
    /\ route = "pool" /\ conn = "body" /\ got = "bad"
    /\ pc = "answer" \/ (pc = "first" /\ ~bounds.stream /\ timer # "fired")
    /\ CloseBody /\ aborting' = FALSE
    /\ Ends(IF client = "gone" \/ bounds.stream THEN "nothing" ELSE "error")
    /\ UNCHANGED <<route, bounds, given, client, signedIn, late, got>>

TakeRefusal ==
    /\ conn = "body" /\ pc # "done" /\ got = "refused"
    /\ Fails(IF Slow THEN "slow" ELSE "refused")

TakeEnd ==
    /\ route # "pool" \/ pc = "answer"
    /\ Takes({"end", "more"}) /\ Progress
    /\ conn' = IF got = "more" THEN "more" ELSE "finish"
    /\ UNCHANGED <<given, told, pc, member, call, begun>>

-----------------------------------------------------------------------------
(* The end of a call: its watch is closed, and a Codex turn looks at what  *)
(* has been cancelled meanwhile.                                           *)

Ended == IF Slow THEN "slow" ELSE IF Dead THEN "canceled" ELSE "lost"

\* A call that asks for a further one brought output the next one carries.
CallAgain ==
    /\ pc # "done" /\ conn = "more" /\ call < MaxCalls /\ ~Slow /\ ~Dead
    /\ call' = call + 1 /\ Opens /\ Close
    /\ late' = (late \/ watch.err # "off")
    /\ UNCHANGED <<requestVars, pc, member, begun, client, signedIn, cancelled, aborting>>

CallLimit ==
    /\ pc # "done" /\ conn = "more" /\ (Slow \/ Dead \/ call = MaxCalls)
    /\ Fails(IF Slow \/ Dead THEN Ended ELSE "rejected")

\* BeforeFinish saves the turn under the attempt's context before the client
\* gets the terminal marker.
Finish ==
    /\ pc # "done" /\ conn = "finish" /\ (route = "codex" => ~Slow /\ ~Dead)
    /\ Close /\ aborting' = FALSE /\ Ends("stop") /\ given' = TRUE
    /\ UNCHANGED <<route, bounds, client, signedIn, late>>

FinishFails ==
    /\ pc # "done" /\ conn = "finish" /\ route = "codex" /\ (Slow \/ Dead)
    /\ Fails(Ended)

Handler ==
    \/ HeadersArrive \/ StatusRefuses \/ DialFails \/ ReadBody \/ ReadFails \/ TakeBeat
    \/ TakeThought \/ TakeOutput \/ TooLate \/ EndsEmpty \/ TakeBad \/ TakeRefusal \/ TakeEnd
    \/ CallAgain \/ CallLimit \/ Finish \/ FinishFails

Timers == BoundPasses \/ (\E c \in fired : Expire(c)) \/ Abort \/ FirstByteFires \/ CancelsSlow

Next == Handler \/ SignInEnds \/ Timers \/ UpstreamSends \/ UpstreamBreaks \/ ClientLeaves

\* The router's own steps, and timers, happen in the end.  An upstream need
\* not send anything, not even headers: the transport bounds that wait for
\* Codex and for a streamed answer, a cancelled context ends it for a pool.
Fairness ==
    /\ WF_vars(ReadBody) /\ WF_vars(ReadFails) /\ WF_vars(TakeBeat \/ TakeThought)
    /\ WF_vars(TakeOutput \/ TakeEnd \/ TakeRefusal \/ TooLate \/ EndsEmpty \/ TakeBad)
    /\ WF_vars(CallAgain \/ CallLimit) /\ WF_vars(Finish \/ FinishFails)
    /\ WF_vars((route # "pool" \/ Dead) /\ DialFails)
    /\ WF_vars(BoundPasses) /\ WF_vars(\E c \in fired : Expire(c)) /\ WF_vars(Abort)
    /\ WF_vars(FirstByteFires) /\ WF_vars(CancelsSlow)

Spec == Init /\ [][Next]_vars /\ Fairness

-----------------------------------------------------------------------------
(* Properties.                                                             *)

(* bodyWatch: an answer is only cut for a silence, never because its timer *)
(* fired as the read that ended the silence completed ("bumped on every    *)
(* re-arm, so a stale timer does nothing").                                *)
LiveNotCut ==
    [][watch.err = "off" /\ watch'.err # "off" =>
           \E c \in fired \ fired' : c.reads = reads]_vars

(* handleLocal goes on to the next member only for a client that got       *)
(* nothing, never after a silence mid-answer within the bound on the first *)
(* byte, and in a Codex turn never after generation has begun              *)
(* (codexAttemptError, "Never automatically replay them on another         *)
(* account"), but for an answer silent from its headers on, which          *)
(* codexAttemptError takes for one that never started even if it is that   *)
(* of a further call, or its first event comes as the bound passes; and    *)
(* but for a further call the connection has to sign in again for.         *)
NotRepeated ==
    [][member' # member =>
           /\ ~given
           /\ watch.err = "idle" /\ got \in {"nothing", "failure"} => timer = "fired"
           /\ route = "codex" /\ begun =>
                  watch.err = "start" \/ (call > 1 /\ ~signedIn)]_vars

(* A client that stays hears how its answer ended (sseWriter.failed): a    *)
(* silence is not taken for the client's leaving although cutting it       *)
(* cancels the request.  There are two exceptions: a Codex call whose watch *)
(* expires after its last event was read, when saving the turn, or calling *)
(* again, fails with a cancelled context, which failed takes for a client  *)
(* that left; and a chunk that cannot be read in a stream that has begun,  *)
(* at which streamResponsePolicy returns without calling failed.           *)
EndIsTold ==
    pc = "done" /\ client = "there" /\ told = "nothing" =>
        \/ route = "codex" /\ (late \/ conn \in {"more", "finish"})
        \/ route = "pool" /\ bounds.stream /\ given /\ got = "bad"

(* With the bounds on, a silent upstream does not hold a streamed request  *)
(* for ever, wherever it falls silent.                                     *)
SilentUpstreamEnds ==
    (bounds.start /\ bounds.idle /\ (route = "pool" => bounds.firstByte /\ bounds.stream))
        ~> pc = "done"
=============================================================================
