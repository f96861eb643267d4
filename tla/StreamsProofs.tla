---------------------------- MODULE StreamsProofs ----------------------------
(***************************************************************************)
(* For any number of members, calls and items and any setting of the       *)
(* bounds: a stale timer cuts nothing, no answer that a client or an       *)
(* account has part of is asked for again, and a client that stays is told *)
(* how its answer ended.                                                   *)
(***************************************************************************)
EXTENDS Streams, TLAPS

Watch == [gen : Nat, phase : Phase, err : Phase]

RequestOK ==
    /\ route \in {"pool", "codex", "proxy"} /\ bounds \in Bounds
    /\ pc \in {"first", "answer", "done"} /\ conn \in {"dial", "body", "more", "finish"}
    /\ member \in Nat /\ call \in Nat \ {0} /\ begun \in BOOLEAN /\ given \in BOOLEAN
    /\ told \in {"nothing", "error", "dropped", "stop"} /\ client \in {"there", "gone"}

CallOK ==
    /\ cancelled \in BOOLEAN /\ cut \in BOOLEAN /\ timer \in {"off", "set", "fired"}
    /\ watch \in Watch /\ fired \subseteq Expiry /\ aborting \in BOOLEAN
    /\ signedIn \in BOOLEAN /\ late \in BOOLEAN

UpOK ==
    /\ up \in {"quiet", "open", "ended"} /\ coming \in Item \cup {"nothing"} /\ sent \in Nat
    /\ got \in Item \cup {"nothing", "failure"} /\ reads \in Nat

TypeOK == RequestOK /\ CallOK /\ UpOK

\* A timer that fired belongs to the present silence or to an earlier one.
FiredInv ==
    \A c \in fired : /\ c.gen <= watch.gen /\ c.phase # "off"
                     /\ c.gen = watch.gen /\ watch.err = "off" => c.reads = reads

\* Where there is no body there is no watch.
DialInv == conn = "dial" => /\ watch = Unwatched /\ fired = {}
                            /\ begun => call > 1
                            /\ given => route = "codex"

\* Who can have cancelled the attempt, or the call, of a client that stays.
CancelInv ==
    /\ pc # "done" /\ (aborting \/ cancelled) => watch.err # "off" \/ late
    /\ pc # "done" /\ cut => timer = "fired" \/ (route = "proxy" /\ watch.err # "off")
    /\ late => route = "codex"

\* Only a Codex turn goes on with a further call.
MoreInv == "more" \in {coming, got, conn} => route = "codex"

IInv == /\ TypeOK /\ FiredInv /\ DialInv /\ CancelInv /\ MoreInv
        /\ pc = "first" => ~given
        /\ pc = "answer" => given
        /\ EndIsTold

Failure == {"start", "idle", "signIn", "refused", "rejected", "slow", "dial", "lost", "canceled"}

LEMMA UnwatchedType == Unwatched \in Watch /\ Unwatched.err = "off" /\ Unwatched.phase = "off"
BY DEF Unwatched, Watch, Phase

LEMMA ArmKeeps ==
    ASSUME NEW w \in Watch, NEW p \in Phase
    PROVE  Arm(w, p) \in Watch /\ Arm(w, p).gen = w.gen + 1 /\ Arm(w, p).err = w.err
<1>1. w.gen \in Nat /\ w.err \in Phase
    BY DEF Watch
<1>2. [w EXCEPT !.gen = w.gen + 1] \in Watch
    BY <1>1 DEF Watch
<1>3. Arm(w, p) = [[w EXCEPT !.gen = w.gen + 1] EXCEPT !.phase = p]
    BY DEF Arm, Watch
<1> QED BY <1>2, <1>3 DEF Watch

LEMMA BoundType == StartBound \in Phase /\ IdleBound \in Phase
BY DEF StartBound, IdleBound, Phase

\* A failure moves on to the next member or ends the answer; a client that
\* stays is not told of one kind only.
LEMMA FailsKeeps ==
    ASSUME IInv, NEW e \in Failure, Fails(e), pc # "done",
           given /\ e = "canceled" /\ client = "there" =>
               route = "codex" /\ (late \/ conn \in {"more", "finish"})
    PROVE  IInv'
<1>0. /\ TypeOK /\ watch' = Unwatched /\ fired' = {} /\ reads' = 0 /\ cut' = FALSE
      /\ got' = "nothing" /\ aborting' = FALSE
      /\ UNCHANGED <<route, bounds, given, client>>
    BY DEF IInv, Fails, Close, CloseBody
<1>1. CASE /\ pc = "first" /\ member' = member + 1 /\ call' = 1 /\ begun' = FALSE /\ Opens
           /\ cancelled' = FALSE /\ late' = FALSE /\ signedIn' = TRUE
           /\ UNCHANGED <<pc, told>>
    <2>1. TypeOK'
        <3>1. /\ conn' = "dial" /\ timer' \in {"off", "set"} /\ up' = "quiet"
              /\ coming' = "nothing" /\ sent' = 0
            BY <1>1 DEF Opens
        <3>2. RequestOK'
            <4>1. member' \in Nat /\ call' \in Nat \ {0}
                BY <1>0, <1>1 DEF TypeOK, RequestOK
            <4> QED BY <1>0, <1>1, <3>1, <4>1 DEF TypeOK, RequestOK
        <3>3. CallOK' /\ UpOK'
            BY <1>0, <1>1, <3>1, UnwatchedType DEF TypeOK, CallOK, UpOK
        <3> QED BY <3>2, <3>3 DEF TypeOK
    <2>2. FiredInv' /\ DialInv' /\ CancelInv' /\ MoreInv'
        BY <1>0, <1>1, UnwatchedType DEF IInv, FiredInv, DialInv, CancelInv, MoreInv, Opens
    <2> QED BY <1>0, <1>1, <2>1, <2>2 DEF IInv, EndIsTold
<1>2. CASE /\ Ends(IF client = "gone" \/ (e = "canceled" /\ given) THEN "nothing"
                   ELSE IF route = "proxy" /\ given THEN "dropped" ELSE "error")
           /\ UNCHANGED <<signedIn, late>>
    <2>1. TypeOK'
        <3>1. /\ pc' = "done" /\ told' \in {"nothing", "dropped", "error"}
              /\ cancelled' = TRUE /\ timer' = "off"
              /\ UNCHANGED <<conn, member, call, begun, up, coming, sent>>
            BY <1>2 DEF Ends, upVars
        <3>2. RequestOK'
            BY <1>0, <3>1 DEF TypeOK, RequestOK
        <3>3. CallOK' /\ UpOK'
            BY <1>0, <1>2, <3>1, UnwatchedType DEF TypeOK, CallOK, UpOK
        <3> QED BY <3>2, <3>3 DEF TypeOK
    <2>2. FiredInv' /\ DialInv' /\ CancelInv' /\ MoreInv'
        BY <1>0, <1>2, UnwatchedType
        DEF IInv, FiredInv, DialInv, CancelInv, MoreInv, Ends, upVars
    <2>3. EndIsTold'
        BY <1>0, <1>2 DEF TypeOK, EndIsTold, Ends
    <2> QED BY <1>0, <1>2, <2>1, <2>2, <2>3 DEF IInv, Ends
<1> QED BY <1>1, <1>2 DEF Fails
-----------------------------------------------------------------------------
(* The steps that end in a failure.                                        *)

Failing == StatusRefuses \/ DialFails \/ ReadFails \/ TooLate \/ EndsEmpty \/ TakeRefusal
           \/ CallLimit \/ FinishFails

LEMMA WhatFails ==
    ASSUME IInv, Failing
    PROVE  \E e \in Failure :
               /\ Fails(e) /\ pc # "done"
               /\ given /\ e = "canceled" /\ client = "there" =>
                      route = "codex" /\ (late \/ conn \in {"more", "finish"})
               /\ pc = "first" /\ Retryable(e) =>
                      /\ watch.err = "idle" /\ got \in {"nothing", "failure"} => timer = "fired"
                      /\ route = "codex" /\ begun =>
                             watch.err = "start" \/ (call > 1 /\ ~signedIn)
<1> USE DEF Failure, Retryable
<1>0. /\ TypeOK /\ route \in {"pool", "codex", "proxy"} /\ watch.err \in Phase
      /\ begun \in BOOLEAN /\ given \in BOOLEAN /\ pc \in {"first", "answer", "done"}
    BY DEF IInv, TypeOK, RequestOK, CallOK, Watch
<1>1. conn = "dial" => watch.err = "off" /\ (begun => call > 1) /\ (given => route = "codex")
    BY UnwatchedType DEF IInv, DialInv
<1>2. ~Slow /\ Dead /\ client = "there" /\ pc # "done" =>
          watch.err # "off" \/ (late /\ route = "codex")
    BY DEF IInv, CancelInv, Slow, Dead
<1>3. CASE StatusRefuses
    <2>1. PICK e \in IF signedIn THEN {"refused", "rejected"} ELSE {"signIn"} : Fails(e)
        BY <1>3 DEF StatusRefuses
    <2>2. pc # "done" /\ conn = "dial" /\ route # "proxy"
        BY <1>3 DEF StatusRefuses
    <2>3. e \in Failure /\ e # "canceled"
        BY <2>1
    <2>4. route = "codex" /\ begun /\ Retryable(e) => call > 1 /\ ~signedIn
        BY <2>1, <2>2, <1>1
    <2> QED BY <2>1, <2>2, <2>3, <2>4, <1>1
<1>4. CASE DialFails
    <2> DEFINE e == IF Slow THEN "slow" ELSE IF Dead THEN "canceled" ELSE "dial"
    <2>1. pc # "done" /\ conn = "dial" /\ Fails(e)
        BY <1>4 DEF DialFails
    <2>2. given /\ e = "canceled" /\ client = "there" => route = "codex" /\ late
        BY <2>1, <1>1, <1>2
    <2> QED BY <2>1, <2>2, <1>1
<1>5. CASE ReadFails
    <2> DEFINE e == ReadError
    <2>1. pc # "done" /\ Fails(e)
        BY <1>5 DEF ReadFails
    <2>2. e \in Failure /\ (e = "canceled" => ~Slow /\ Dead /\ watch.err = "off")
        BY <1>0 DEF ReadError, Phase
    <2>3. given /\ e = "canceled" /\ client = "there" => route = "codex" /\ late
        BY <2>1, <2>2, <1>2
    <2>4. Retryable(e) => /\ watch.err = "idle" => timer = "fired"
                          /\ route = "codex" => watch.err = "start"
        BY <1>0 DEF ReadError, Slow, Phase
    <2> QED BY <2>1, <2>2, <2>3, <2>4
<1>6. CASE TooLate \/ EndsEmpty
    BY <1>6, <1>0 DEF TooLate, EndsEmpty
<1>7. CASE TakeRefusal
    BY <1>7, <1>0 DEF TakeRefusal, IInv, TypeOK, UpOK, Slow
<1>8. CASE CallLimit
    <2> DEFINE e == IF Slow \/ Dead THEN Ended ELSE "rejected"
    <2>1. pc # "done" /\ conn = "more" /\ route = "codex" /\ Fails(e)
        BY <1>8 DEF CallLimit, IInv, MoreInv
    <2>2. e \in Failure /\ ~Retryable(e)
        BY <2>1 DEF Ended
    <2> QED BY <2>1, <2>2
<1>9. CASE FinishFails
    <2>1. pc # "done" /\ conn = "finish" /\ route = "codex" /\ Fails(Ended)
        BY <1>9 DEF FinishFails
    <2>2. Ended \in Failure /\ ~Retryable(Ended)
        BY <2>1 DEF Ended
    <2> QED BY <2>1, <2>2
<1> QED BY <1>3, <1>4, <1>5, <1>6, <1>7, <1>8, <1>9 DEF Failing

LEMMA FailingStep ==
    ASSUME IInv, Failing
    PROVE  IInv'
BY WhatFails, FailsKeeps
-----------------------------------------------------------------------------
(* The other steps of the handler.                                         *)

LEMMA HeadersStep ==
    ASSUME IInv, HeadersArrive
    PROVE  IInv'
<1>0. /\ TypeOK /\ watch = Unwatched /\ fired = {} /\ pc # "done" /\ conn = "dial"
      /\ conn' = "body" /\ up' = "open" /\ watch' = Arm(watch, StartBound)
      /\ UNCHANGED <<route, bounds, told, member, call, begun, client, signedIn, cancelled, cut,
                     timer, fired, aborting, reads, late, coming, sent, got>>
    BY DEF IInv, DialInv, HeadersArrive, contextVars
<1>1. watch' \in Watch /\ watch'.err = watch.err
    BY <1>0, ArmKeeps, BoundType, UnwatchedType
<1>2. IF route = "proxy" THEN pc' = "answer" /\ given' = TRUE ELSE UNCHANGED <<pc, given>>
    BY DEF HeadersArrive
<1>3. TypeOK'
    <2>1. RequestOK'
        BY <1>0, <1>2 DEF TypeOK, RequestOK
    <2>2. CallOK' /\ UpOK'
        BY <1>0, <1>1 DEF TypeOK, CallOK, UpOK
    <2> QED BY <2>1, <2>2 DEF TypeOK
<1>4. FiredInv' /\ DialInv' /\ MoreInv'
    BY <1>0 DEF IInv, FiredInv, DialInv, MoreInv
<1>5. CancelInv' /\ EndIsTold' /\ (pc' = "first" => ~given') /\ (pc' = "answer" => given')
    BY <1>0, <1>1, <1>2 DEF IInv, CancelInv, EndIsTold
<1> QED BY <1>3, <1>4, <1>5 DEF IInv

\* Bytes that came: the bound is rearmed unless it has passed.
LEMMA TakesKeeps ==
    ASSUME IInv, NEW items, Takes(items),
           RequestOK', timer' \in {"off", "set", "fired"}, timer = "fired" => timer' = "fired",
           conn' # "dial", "more" \in {conn'} => route = "codex",
           pc' # "done", pc' = "first" => ~given', pc' = "answer" => given'
    PROVE  IInv'
<1>0. /\ TypeOK /\ watch \in Watch /\ reads \in Nat /\ pc # "done"
      /\ got' = "nothing" /\ reads' = reads + 1
      /\ watch' = IF watch.err # "off" THEN watch ELSE Arm(watch, IdleBound)
      /\ UNCHANGED <<route, bounds, client, signedIn, cancelled, cut, fired, aborting, late,
                     up, coming, sent>>
    BY DEF IInv, TypeOK, CallOK, UpOK, Takes, contextVars, upVars
<1>1. /\ watch' \in Watch /\ watch'.err = watch.err
      /\ watch.err = "off" => watch'.gen = watch.gen + 1
    BY <1>0, ArmKeeps, BoundType
<1>2. TypeOK'
    BY <1>0, <1>1 DEF TypeOK, CallOK, UpOK
<1>3. FiredInv'
    <2>1. watch.gen \in Nat /\ \A c \in fired : c.gen \in Nat
        BY <1>0 DEF Watch, TypeOK, CallOK, Expiry
    <2>2. CASE watch.err = "off"
        BY <1>0, <1>1, <2>1, <2>2 DEF IInv, FiredInv
    <2>3. CASE watch.err # "off"
        BY <1>0, <1>1, <2>3 DEF IInv, FiredInv
    <2> QED BY <2>2, <2>3
<1>4. DialInv' /\ CancelInv' /\ MoreInv' /\ EndIsTold'
    BY <1>0, <1>1 DEF IInv, DialInv, CancelInv, MoreInv, EndIsTold
<1> QED BY <1>2, <1>3, <1>4 DEF IInv

LEMMA TakingStep ==
    ASSUME IInv, TakeBeat \/ TakeThought \/ TakeOutput \/ TakeEnd
    PROVE  IInv'
<1>0. /\ TypeOK /\ RequestOK /\ timer \in {"off", "set", "fired"} /\ route \in {"pool", "codex", "proxy"}
      /\ bounds.stream \in BOOLEAN
    BY DEF IInv, TypeOK, RequestOK, CallOK, Bounds
<1>1. CASE TakeBeat
    <2>1. Takes({"beat"}) /\ UNCHANGED <<route, bounds, given, told, pc, conn, member, call, begun, timer>>
        BY <1>1 DEF TakeBeat, Takes, whereVars
    <2>2. conn = "body" /\ pc # "done" /\ RequestOK'
        BY <1>0, <1>1, <2>1 DEF RequestOK, Takes, contextVars
    <2> QED BY <1>0, <2>1, <2>2, TakesKeeps DEF IInv
<1>2. CASE TakeThought
    <2>1. /\ Takes({"think"}) /\ Progress /\ begun' = TRUE
          /\ UNCHANGED <<route, bounds, given, told, pc, conn, member, call>>
        BY <1>2 DEF TakeThought, Takes
    <2>2. conn = "body" /\ pc # "done" /\ RequestOK'
        BY <1>0, <2>1 DEF RequestOK, Takes, contextVars
    <2> QED BY <1>0, <2>1, <2>2, TakesKeeps DEF IInv, Progress
<1>3. CASE TakeOutput
    <2> DEFINE items == {"begin"} \cup IF route = "pool" /\ ~bounds.stream THEN {"beat"} ELSE {}
    <2>1. /\ Takes(items) /\ Progress /\ begun' = TRUE
          /\ UNCHANGED <<route, bounds, told, conn, member, call>>
        BY <1>3 DEF TakeOutput, Takes
    <2>2. \/ UNCHANGED <<pc, given>>
          \/ pc' = "answer" /\ given' = TRUE
        BY <1>3 DEF TakeOutput
    <2>3. conn = "body" /\ pc # "done" /\ client' = client
        BY <2>1 DEF Takes, contextVars
    <2>4. RequestOK' /\ pc' # "done" /\ (pc' = "first" => ~given') /\ (pc' = "answer" => given')
        <3>1. /\ pc' \in {"first", "answer", "done"} /\ given' \in BOOLEAN
              /\ pc' # "done" /\ (pc' = "first" => ~given') /\ (pc' = "answer" => given')
            <4>1. CASE UNCHANGED <<pc, given>>
                BY <1>0, <2>3, <4>1 DEF RequestOK, IInv
            <4>2. CASE pc' = "answer" /\ given' = TRUE
                BY <4>2
            <4> QED BY <2>2, <4>1, <4>2
        <3> QED BY <1>0, <2>1, <2>3, <3>1 DEF RequestOK
    <2>5. timer' \in {"off", "set", "fired"} /\ (timer = "fired" => timer' = "fired")
        BY <1>0, <2>1 DEF Progress
    <2> HIDE DEF items
    <2> QED BY <2>1, <2>3, <2>4, <2>5, TakesKeeps
<1>4. CASE TakeEnd
    <2>1. /\ Takes({"end", "more"}) /\ Progress
          /\ conn' = IF got = "more" THEN "more" ELSE "finish"
          /\ UNCHANGED <<route, bounds, given, told, pc, member, call, begun>>
        BY <1>4 DEF TakeEnd, Takes
    <2>2. pc # "done" /\ RequestOK'
        BY <1>0, <2>1 DEF RequestOK, Takes, contextVars
    <2>3. conn' = "more" => route = "codex"
        BY <2>1 DEF IInv, MoreInv
    <2> QED BY <1>0, <2>1, <2>2, <2>3, TakesKeeps DEF IInv, Progress
<1> QED BY <1>1, <1>2, <1>3, <1>4

LEMMA CallAgainStep ==
    ASSUME IInv, CallAgain
    PROVE  IInv'
<1>0. /\ TypeOK /\ route = "codex" /\ pc # "done" /\ call \in Nat /\ call >= 1 /\ call' = call + 1
      /\ conn' = "dial" /\ timer' \in {"off", "set"} /\ up' = "quiet" /\ coming' = "nothing" /\ sent' = 0
      /\ watch' = Unwatched /\ fired' = {} /\ reads' = 0 /\ cut' = FALSE /\ got' = "nothing"
      /\ late' = (late \/ watch.err # "off")
      /\ UNCHANGED <<route, bounds, given, told, pc, member, begun, client, signedIn, cancelled, aborting>>
    BY DEF IInv, TypeOK, RequestOK, MoreInv, CallAgain, Opens, Close, CloseBody, requestVars
<1>1. late' \in BOOLEAN /\ call' \in Nat \ {0} /\ call' > 1
    BY <1>0 DEF TypeOK, CallOK
<1>2. RequestOK'
    BY <1>0, <1>1 DEF TypeOK, RequestOK
<1>3. CallOK' /\ UpOK'
    BY <1>0, <1>1, UnwatchedType DEF TypeOK, CallOK, UpOK
<1>4. FiredInv' /\ DialInv' /\ MoreInv'
    BY <1>0, <1>1 DEF FiredInv, DialInv, MoreInv
<1>5. CancelInv'
    BY <1>0 DEF IInv, CancelInv
<1>6. EndIsTold' /\ (pc' = "first" => ~given') /\ (pc' = "answer" => given')
    BY <1>0 DEF IInv, EndIsTold
<1> QED BY <1>2, <1>3, <1>4, <1>5, <1>6 DEF IInv, TypeOK

LEMMA FinishStep ==
    ASSUME IInv, Finish
    PROVE  IInv'
<1>0. /\ TypeOK /\ conn = "finish" /\ pc' = "done" /\ told' = "stop" /\ cancelled' = TRUE /\ timer' = "off"
      /\ watch' = Unwatched /\ fired' = {} /\ reads' = 0 /\ cut' = FALSE /\ got' = "nothing"
      /\ aborting' = FALSE /\ given' = TRUE
      /\ UNCHANGED <<route, bounds, client, signedIn, late, conn, member, call, begun, up, coming, sent>>
    BY DEF IInv, Finish, Close, CloseBody, Ends, upVars
<1>1. RequestOK'
    BY <1>0 DEF TypeOK, RequestOK
<1>2. CallOK' /\ UpOK'
    BY <1>0, UnwatchedType DEF TypeOK, CallOK, UpOK
<1>3. FiredInv' /\ DialInv' /\ MoreInv' /\ CancelInv' /\ EndIsTold'
    BY <1>0 DEF IInv, FiredInv, DialInv, MoreInv, CancelInv, EndIsTold
<1> QED BY <1>0, <1>1, <1>2, <1>3 DEF IInv, TypeOK

\* What cannot be read ends the answer.
LEMMA BadStep ==
    ASSUME IInv, TakeBad
    PROVE  IInv'
<1>0. /\ TypeOK /\ route = "pool" /\ conn = "body" /\ got = "bad" /\ pc \in {"answer", "first"}
      /\ pc = "answer" \/ ~bounds.stream
      /\ pc' = "done" /\ told' = (IF client = "gone" \/ bounds.stream THEN "nothing" ELSE "error")
      /\ cancelled' = TRUE /\ timer' = "off"
      /\ watch' = Unwatched /\ fired' = {} /\ reads' = 0 /\ cut' = FALSE /\ aborting' = FALSE
      /\ UNCHANGED <<route, bounds, given, client, signedIn, late, got, conn, member, call, begun,
                     up, coming, sent>>
    BY DEF IInv, TakeBad, CloseBody, Ends, upVars
<1>1. RequestOK'
    BY <1>0 DEF TypeOK, RequestOK
<1>2. CallOK' /\ UpOK'
    BY <1>0, UnwatchedType DEF TypeOK, CallOK, UpOK
<1>3. FiredInv' /\ DialInv' /\ MoreInv' /\ CancelInv'
    BY <1>0 DEF IInv, FiredInv, DialInv, MoreInv, CancelInv
<1>4. EndIsTold'
    BY <1>0 DEF IInv, EndIsTold, TypeOK, RequestOK, Bounds
<1> QED BY <1>0, <1>1, <1>2, <1>3, <1>4 DEF IInv, TypeOK
-----------------------------------------------------------------------------
(* The timers, the upstream and the client.                                *)

LEMMA TimerStep ==
    ASSUME IInv, Timers
    PROVE  IInv'
<1>0. /\ TypeOK /\ watch \in Watch /\ watch.gen \in Nat /\ reads \in Nat /\ fired \subseteq Expiry
      /\ watch.phase \in Phase /\ watch.err \in Phase
    BY DEF IInv, TypeOK, CallOK, UpOK, Watch
<1>1. CASE BoundPasses
    <2> DEFINE c == [gen |-> watch.gen, phase |-> watch.phase, reads |-> reads]
    <2>1. /\ watch.phase # "off" /\ fired' = fired \cup {c}
          /\ watch' = [watch EXCEPT !.phase = "off"]
          /\ UNCHANGED <<route, bounds, given, told, pc, conn, member, call, begun, client, signedIn,
                         cancelled, cut, timer, aborting, reads, late, up, coming, sent, got>>
        BY <1>1 DEF BoundPasses, requestVars, whereVars, contextVars, upVars
    <2>2. /\ watch' \in Watch /\ watch'.gen = watch.gen /\ watch'.err = watch.err
        BY <1>0, <2>1 DEF Watch, Phase
    <2>3. c \in Expiry
        BY <1>0 DEF Expiry
    <2>4. RequestOK' /\ CallOK' /\ UpOK'
        BY <1>0, <2>1, <2>2, <2>3 DEF TypeOK, RequestOK, CallOK, UpOK
    <2>5. FiredInv'
        BY <1>0, <2>1, <2>2 DEF IInv, FiredInv
    <2>6. conn # "dial"
        BY <2>1, UnwatchedType DEF IInv, DialInv
    <2>7. DialInv' /\ MoreInv' /\ CancelInv' /\ EndIsTold'
        BY <2>1, <2>2, <2>6 DEF IInv, DialInv, MoreInv, CancelInv, EndIsTold
    <2> QED BY <2>1, <2>4, <2>5, <2>7 DEF IInv, TypeOK
<1>2. ASSUME NEW c \in fired, Expire(c) PROVE IInv'
    <2>1. /\ fired' = fired \ {c}
          /\ UNCHANGED <<route, bounds, given, told, pc, conn, member, call, begun, client, signedIn,
                         cancelled, cut, timer, reads, late, up, coming, sent, got>>
        BY <1>2 DEF Expire, requestVars, whereVars, contextVars, upVars
    <2>2. \/ UNCHANGED <<watch, aborting>>
          \/ watch.err = "off" /\ watch' = [watch EXCEPT !.err = c.phase] /\ aborting' = TRUE
        BY <1>2 DEF Expire
    <2>3. c.phase \in Phase /\ c.phase # "off"
        BY <1>0 DEF Expiry, IInv, FiredInv
    <2>4. conn # "dial"
        BY DEF IInv, DialInv
    <2>5. CASE UNCHANGED <<watch, aborting>>
        <3>1. RequestOK' /\ CallOK' /\ UpOK'
            BY <1>0, <2>1, <2>5 DEF TypeOK, RequestOK, CallOK, UpOK
        <3>2. FiredInv' /\ DialInv' /\ MoreInv' /\ CancelInv' /\ EndIsTold'
            BY <2>1, <2>4, <2>5 DEF IInv, FiredInv, DialInv, MoreInv, CancelInv, EndIsTold
        <3> QED BY <2>1, <3>1, <3>2 DEF IInv, TypeOK
    <2>6. CASE watch.err = "off" /\ watch' = [watch EXCEPT !.err = c.phase] /\ aborting' = TRUE
        <3>1. watch' \in Watch /\ watch'.gen = watch.gen /\ watch'.err = c.phase
            BY <1>0, <2>3, <2>6 DEF Watch
        <3>2. RequestOK' /\ CallOK' /\ UpOK'
            BY <1>0, <2>1, <2>6, <3>1 DEF TypeOK, RequestOK, CallOK, UpOK
        <3>3. FiredInv' /\ DialInv' /\ MoreInv' /\ EndIsTold'
            BY <2>1, <2>4, <2>6, <3>1 DEF IInv, FiredInv, DialInv, MoreInv, EndIsTold
        <3>4. CancelInv'
            BY <2>1, <2>3, <2>6, <3>1 DEF IInv, CancelInv
        <3> QED BY <2>1, <3>2, <3>3, <3>4 DEF IInv, TypeOK
    <2> QED BY <2>2, <2>5, <2>6
<1>3. CASE Abort
    <2>1. /\ aborting /\ aborting' = FALSE
          /\ IF route = "proxy" THEN cut' = TRUE /\ UNCHANGED cancelled
             ELSE cancelled' = TRUE /\ UNCHANGED cut
          /\ UNCHANGED <<route, bounds, given, told, pc, conn, member, call, begun, client, signedIn,
                         timer, watch, fired, reads, late, up, coming, sent, got>>
        BY <1>3 DEF Abort, requestVars, whereVars, upVars
    <2>2. RequestOK' /\ UpOK'
        BY <1>0, <2>1 DEF TypeOK, RequestOK, UpOK
    <2>3. CallOK'
        <3>1. cut' \in BOOLEAN /\ cancelled' \in BOOLEAN
            BY <1>0, <2>1 DEF TypeOK, CallOK
        <3> QED BY <1>0, <2>1, <3>1 DEF TypeOK, CallOK
    <2>4. FiredInv' /\ DialInv' /\ MoreInv' /\ EndIsTold'
        BY <2>1 DEF IInv, FiredInv, DialInv, MoreInv, EndIsTold
    <2>5. CancelInv'
        BY <2>1 DEF IInv, CancelInv
    <2> QED BY <2>1, <2>2, <2>3, <2>4, <2>5 DEF IInv, TypeOK
<1>4. CASE FirstByteFires \/ CancelsSlow
    <2>1. /\ timer' \in {"off", "set", "fired"} /\ (timer = "fired" => timer' = "fired")
          /\ cut' \in BOOLEAN /\ (cut' => cut \/ timer' = "fired")
          /\ UNCHANGED <<route, bounds, given, told, pc, conn, member, call, begun, client, signedIn,
                         cancelled, watch, fired, aborting, reads, late, up, coming, sent, got>>
        BY <1>0, <1>4 DEF FirstByteFires, CancelsSlow, requestVars, whereVars, contextVars, watchVars,
                          upVars, TypeOK, CallOK
    <2>2. RequestOK' /\ CallOK' /\ UpOK'
        BY <1>0, <2>1 DEF TypeOK, RequestOK, CallOK, UpOK
    <2>3. FiredInv' /\ DialInv' /\ MoreInv' /\ EndIsTold'
        BY <2>1 DEF IInv, FiredInv, DialInv, MoreInv, EndIsTold
    <2>4. CancelInv'
        BY <2>1 DEF IInv, CancelInv
    <2> QED BY <2>1, <2>2, <2>3, <2>4 DEF IInv, TypeOK
<1> QED BY <1>1, <1>2, <1>3, <1>4 DEF Timers

LEMMA OutsideStep ==
    ASSUME IInv, ReadBody \/ SignInEnds \/ UpstreamSends \/ UpstreamBreaks \/ ClientLeaves
                 \/ UNCHANGED vars
    PROVE  IInv'
<1>0. /\ UNCHANGED <<route, bounds, given, told, pc, conn, member, call, begun, cancelled, cut,
                     timer, watch, fired, aborting, reads, late>>
      /\ client' \in {client, "gone"} /\ (client' # client => pc # "done")
      /\ got' # got => pc # "done"
    BY DEF ReadBody, SignInEnds, UpstreamSends, UpstreamBreaks, ClientLeaves, vars, requestVars,
           whereVars, contextVars, watchVars, upVars
<1>1. signedIn' \in BOOLEAN /\ RequestOK' /\ CallOK'
    <2>1. signedIn' \in BOOLEAN
        BY DEF IInv, TypeOK, CallOK, ReadBody, SignInEnds, UpstreamSends, UpstreamBreaks,
               ClientLeaves, vars, contextVars
    <2> QED BY <1>0, <2>1 DEF IInv, TypeOK, RequestOK, CallOK
<1>2. UpOK' /\ MoreInv'
    <2>1. CASE ReadBody
        BY <2>1, <1>0 DEF ReadBody, IInv, TypeOK, UpOK, MoreInv
    <2>2. CASE UpstreamSends
        BY <2>2, <1>0 DEF UpstreamSends, Sends, Item, IInv, TypeOK, RequestOK, UpOK, MoreInv
    <2>3. CASE UpstreamBreaks
        BY <2>3, <1>0 DEF UpstreamBreaks, IInv, TypeOK, UpOK, MoreInv
    <2>4. CASE SignInEnds \/ ClientLeaves \/ UNCHANGED vars
        BY <2>4, <1>0 DEF SignInEnds, ClientLeaves, vars, upVars, IInv, TypeOK, UpOK, MoreInv
    <2> QED BY <2>1, <2>2, <2>3, <2>4
<1>3. FiredInv' /\ DialInv' /\ CancelInv' /\ EndIsTold'
    BY <1>0 DEF IInv, FiredInv, DialInv, CancelInv, EndIsTold
<1> QED BY <1>0, <1>1, <1>2, <1>3 DEF IInv, TypeOK
-----------------------------------------------------------------------------
LEMMA InitIInv == Init => IInv
<1> SUFFICES ASSUME Init PROVE IInv
    OBVIOUS
<1>1. bounds \in Bounds
    BY BoundsAssumption DEF Init
<1>2. RequestOK
    <2>1. /\ route \in {"pool", "codex", "proxy"} /\ pc = "first" /\ conn = "dial" /\ member = 1
          /\ call = 1 /\ begun = FALSE /\ given = FALSE /\ told = "nothing" /\ client = "there"
        BY DEF Init
    <2>2. member \in Nat /\ call \in Nat \ {0}
        BY <2>1
    <2>3. begun \in BOOLEAN /\ given \in BOOLEAN
        BY <2>1
    <2> QED BY <1>1, <2>1, <2>2, <2>3 DEF RequestOK
<1>3. CallOK /\ UpOK
    BY UnwatchedType DEF Init, CallOK, UpOK
<1>4. FiredInv /\ DialInv /\ CancelInv /\ MoreInv /\ EndIsTold
    BY DEF Init, FiredInv, DialInv, CancelInv, MoreInv, EndIsTold
<1> QED BY <1>2, <1>3, <1>4 DEF Init, IInv, TypeOK

LEMMA Step == IInv /\ [Next]_vars => IInv'
BY FailingStep, HeadersStep, TakingStep, CallAgainStep, FinishStep, BadStep, TimerStep, OutsideStep
DEF Next, Handler, Failing

LEMMA Invariance == Spec => []IInv
BY InitIInv, Step, PTL DEF Spec

(* The request, the watch and the upstream stay within the values the      *)
(* declarations name.                                                      *)
THEOREM TypeCorrect == Spec => []TypeOK
<1>1. IInv => TypeOK
    BY DEF IInv
<1> QED BY Invariance, <1>1, PTL

(* A client that stays hears how its answer ended, but for the Codex calls *)
(* EndIsTold names (codex.go, stream_start.go).                            *)
THEOREM TheEndIsTold == Spec => []EndIsTold
<1>1. IInv => EndIsTold
    BY DEF IInv
<1> QED BY Invariance, <1>1, PTL

(* However many reads and timers race, only a silence that still lasts     *)
(* cuts an answer (upstream_watch.go).                                     *)
THEOREM StaleTimerIgnored == Spec => LiveNotCut
<1> DEFINE Cut == watch.err = "off" /\ watch'.err # "off" => \E c \in fired \ fired' : c.reads = reads
<1>1. ASSUME IInv, Next PROVE Cut
    <2>1. CASE Failing \/ CallAgain \/ Finish \/ TakeBad
        <3>1. watch' = Unwatched
            BY <2>1, WhatFails, <1>1 DEF Fails, CallAgain, Finish, TakeBad, Close, CloseBody
        <3> QED BY <3>1, UnwatchedType
    <2>2. CASE HeadersArrive \/ TakeBeat \/ TakeThought \/ TakeOutput \/ TakeEnd
        <3>1. \E p \in Phase : watch' = watch \/ watch' = Arm(watch, p)
            BY <2>2, BoundType DEF HeadersArrive, TakeBeat, TakeThought, TakeOutput, TakeEnd, Takes
        <3>2. watch \in Watch
            BY <1>1 DEF IInv, TypeOK, CallOK
        <3> QED BY <3>1, <3>2, ArmKeeps
    <2>3. CASE BoundPasses
        <3>1. watch \in Watch /\ watch' = [watch EXCEPT !.phase = "off"]
            BY <1>1, <2>3 DEF IInv, TypeOK, CallOK, BoundPasses
        <3> QED BY <3>1 DEF Watch
    <2>4. ASSUME NEW c \in fired, Expire(c) PROVE Cut
        <3>1. /\ c \in fired \ fired'
              /\ UNCHANGED watch \/ (c.gen = watch.gen /\ watch.err = "off")
            BY <2>4 DEF Expire
        <3>2. c.gen = watch.gen /\ watch.err = "off" => c.reads = reads
            BY <1>1 DEF IInv, FiredInv
        <3> QED BY <3>1, <3>2
    <2>5. CASE Abort \/ FirstByteFires \/ CancelsSlow \/ ReadBody \/ SignInEnds \/ UpstreamSends
               \/ UpstreamBreaks \/ ClientLeaves
        BY <2>5 DEF Abort, FirstByteFires, CancelsSlow, ReadBody, SignInEnds, UpstreamSends,
                    UpstreamBreaks, ClientLeaves, watchVars
    <2> QED BY <1>1, <2>1, <2>2, <2>3, <2>4, <2>5 DEF Next, Handler, Timers, Failing
<1>2. IInv /\ [Next]_vars => [Cut]_vars
    BY <1>1
<1> QED BY Invariance, <1>2, PTL DEF Spec, LiveNotCut

(* No answer that a client got a part of, or that an account has begun to  *)
(* generate, is asked for again, but as NotRepeated says (local.go,        *)
(* codex.go).                                                              *)
THEOREM NothingRepeated == Spec => NotRepeated
<1> DEFINE Again == member' # member =>
                        /\ ~given
                        /\ watch.err = "idle" /\ got \in {"nothing", "failure"} => timer = "fired"
                        /\ route = "codex" /\ begun =>
                               watch.err = "start" \/ (call > 1 /\ ~signedIn)
<1>1. ASSUME IInv, Next PROVE Again
    <2>1. CASE Failing
        <3>1. PICK e \in Failure :
                  /\ Fails(e) /\ pc # "done"
                  /\ pc = "first" /\ Retryable(e) =>
                         /\ watch.err = "idle" /\ got \in {"nothing", "failure"} => timer = "fired"
                         /\ route = "codex" /\ begun =>
                                watch.err = "start" \/ (call > 1 /\ ~signedIn)
            BY <1>1, <2>1, WhatFails
        <3>2. member' # member => pc = "first" /\ Retryable(e)
            BY <3>1 DEF Fails, Ends
        <3> QED BY <1>1, <3>1, <3>2 DEF IInv
    <2>2. CASE ~Failing
        <3>1. UNCHANGED member
            BY <1>1, <2>2 DEF Next, Handler, Timers, Failing, HeadersArrive, TakeBeat, TakeThought, TakeOutput,
                   TakeEnd, TakeBad, CallAgain, Finish, Ends, ReadBody, SignInEnds, UpstreamSends,
                   UpstreamBreaks, ClientLeaves, BoundPasses, Expire, Abort, FirstByteFires,
                   CancelsSlow, whereVars
        <3> QED BY <3>1
    <2> QED BY <2>1, <2>2
<1>2. IInv /\ [Next]_vars => [Again]_vars
    BY <1>1
<1> QED BY Invariance, <1>2, PTL DEF Spec, NotRepeated
=============================================================================
