------------------------------- MODULE Routing -------------------------------
(***************************************************************************)
(* How requests of many sessions choose members of one pool.  A request    *)
(* looks at one member after another, each under its own hold of the lock  *)
(* of the health table, sorts what it saw by the time now, asks which      *)
(* Codex members are signed in, and then, under the lock of the table, is  *)
(* put on the member its session is bound to, or binds the session by what *)
(* it saw and the time it is by then.  It tries members in that order      *)
(* until one begins to answer.  A failure makes the member cool and moves  *)
(* the session, if it is still bound there, to the member the request goes *)
(* on with.                                                                *)
(*                                                                         *)
(* Time is what is left of a cooldown, in a request's snapshot as in the   *)
(* table: Tick takes one from each.  Each loop of the sorting and of the   *)
(* balancing is taken to read the clock once.  Of the rating, whose value  *)
(* a pool ignores, only the cooldown is kept.  The release of a member and *)
(* the record of an outcome are one step.  Cap stands for the 4096         *)
(* bindings the table holds, MaxCool for the ten minutes a cooldown lasts  *)
(* at most; MaxTrouble bounds what goes wrong in one behaviour.            *)
(***************************************************************************)
EXTENDS Lists, FiniteSets, SequencesExt

CONSTANTS
    Request, Session,
    Pool,        \* the members in the pool's order
    Connection,  \* the connection of each member
    Codex,       \* the members that can be signed out
    None, Cap, MaxCool, MaxTrouble

Member == ToSet(Pool)

ASSUME PoolAssumption == /\ Pool \in Seq(Member) /\ IsInjective(Pool) /\ Pool # <<>>
                         /\ DOMAIN Connection = Member /\ Codex \subseteq Member
ASSUME CapAssumption == Cap \in Nat \ {0} /\ MaxCool \in Nat \ {0} /\ MaxTrouble \in Nat \ {0}
ASSUME RequestAssumption == IsFiniteSet(Request)
ASSUME NoneAssumption == None \notin Session \cup Member

VARIABLES
    balance, failover,  \* the pool's settings
    bound,      \* sessionBinding.Model of each session, None without a binding
    recent,     \* the bound sessions by sessionBinding.Used, oldest first
    aged,       \* the bound sessions unused for more than 24 hours
    until,      \* modelStat.CoolUntil of each member: what is left, 0 when it is past
    signedOut, inflight,
    pc, session, \* of each request: its next step, its session
    list,       \* the members it has looked at, then those it has yet to try
    seen,       \* what is left of the CoolUntil of each snapshot it took
    asked, out, \* the Codex members it asked about, those found signed out
    trouble      \* failures, evictions, sign-outs, switches so far, to MaxTrouble

tableVars == <<bound, recent, aged>>
lookVars == <<seen, asked, out>>
vars == <<balance, failover, tableVars, until, signedOut, inflight,
          pc, session, list, lookVars, trouble>>

NothingSeen == [m \in Member |-> 0]

Init ==
    /\ balance \in BOOLEAN /\ failover \in BOOLEAN
    /\ bound = [s \in Session |-> None]
    /\ recent = <<>> /\ aged = {}
    /\ until = NothingSeen /\ signedOut \in SUBSET Codex
    /\ inflight = [m \in Member |-> 0]
    /\ pc = [r \in Request |-> "idle"]
    /\ session = [r \in Request |-> None]
    /\ list = [r \in Request |-> <<>>]
    /\ seen = [r \in Request |-> NothingSeen]
    /\ asked = [r \in Request |-> {}] /\ out = [r \in Request |-> {}]
    /\ trouble = 0

Trouble == trouble < MaxTrouble /\ trouble' = trouble + 1

-----------------------------------------------------------------------------
(* The table of bindings.                                                  *)

Without(s) == Only(recent, Session \ {s})

\* Member m to the front, the others keep their order.
Lead(members, m) == <<m>> \o Only(members, Member \ {m})

\* The live sessions of the pool on a connection.
SessionsOn(table, c) ==
    Cardinality({s \in Session : table[s] # None /\ Connection[table[s]] = c})

\* Mutant of BalanceFirst: a cooling member may lead.
BalanceAnyone(table, members, cooled) ==
    LET n(m) == SessionsOn(table, Connection[m])
        best == SelectInSeq(members, LAMBDA m :
                    \A x \in ToSet(members) : n(m) <= n(x))
    IN  Lead(members, members[best])

\* The first member of the connection with the fewest sessions, among those
\* that are not cooling.
BalanceFirst(table, members, cooled) ==
    LET n(m) == SessionsOn(table, Connection[m])
        fit  == ToSet(members) \ cooled
        best == SelectInSeq(members, LAMBDA m :
                    m \in fit /\ \A x \in fit : n(m) <= n(x))
    IN  IF fit = {} THEN members ELSE Lead(members, members[best])

\* The bindings that are neither past 24 hours nor that of s.
Others(s) == Only(recent, Session \ (aged \cup {s}))
Held(order) == [x \in Session |-> IF x \in ToSet(order) THEN bound[x] ELSE None]

\* A full table loses its oldest binding before a new one is added.
Evicted(order) == IF Len(order) >= Cap THEN Tail(order) ELSE order

\* The table is set to these bindings of these sessions, oldest first.
Store(table, order, old) ==
    /\ recent' = order
    /\ bound' = [s \in Session |-> IF s \in ToSet(order) THEN table[s] ELSE None]
    /\ aged' = old

-----------------------------------------------------------------------------
(* Choosing a member.                                                      *)

\* The snapshot of the next member of the pool.
Look(r) ==
    LET m == Pool[Len(list[r]) + 1] IN
    /\ pc[r] \in {"idle", "look"}
    /\ list' = [list EXCEPT ![r] = Append(@, m)]
    /\ seen' = [seen EXCEPT ![r][m] = until[m]]
    /\ pc' = [pc EXCEPT ![r] = IF Len(list[r]) + 1 < Len(Pool) THEN "look" ELSE "sort"]
    /\ UNCHANGED <<balance, failover, tableVars, until, signedOut, inflight,
                   session, asked, out, trouble>>

\* Pool order for members that are not cooling; the cooling ones come after
\* them, the soonest back first.
Sorted(order, left) ==
    \A i, j \in DOMAIN Pool : i < j =>
        \/ left[order[i]] < left[order[j]]
        \/ /\ left[order[i]] = left[order[j]]
           /\ \E k, l \in DOMAIN Pool : k < l /\ Pool[k] = order[i] /\ Pool[l] = order[j]

Sort(r) ==
    /\ pc[r] = "sort"
    /\ \E order \in [DOMAIN Pool -> Member] :
          /\ ToSet(order) = Member /\ Sorted(order, seen[r])
          /\ list' = [list EXCEPT ![r] = order]
    /\ pc' = [pc EXCEPT ![r] = "ask"]
    /\ UNCHANGED <<balance, failover, tableVars, until, signedOut, inflight,
                   session, lookVars, trouble>>

\* Whether the next Codex member of the list is signed in; one whose store
\* another request holds counts as if it were.
Ask(r) ==
    LET toAsk == Only(list[r], Codex \ asked[r])
        m == Head(toAsk)
    IN  /\ pc[r] = "ask" /\ toAsk # <<>>
        /\ asked' = [asked EXCEPT ![r] = @ \cup {m}]
        /\ \/ /\ out' = [out EXCEPT ![r] = IF m \in signedOut THEN @ \cup {m} ELSE @]
              /\ UNCHANGED trouble
           \/ m \in signedOut /\ Trouble /\ UNCHANGED out
        /\ UNCHANGED <<balance, failover, tableVars, until, signedOut, inflight,
                       pc, session, list, seen>>

\* The candidates: the signed-out members are dropped unless nobody is left.
Candidates(r) ==
    LET in == Only(list[r], Member \ out[r]) IN IF in = <<>> THEN list[r] ELSE in

\* The members whose snapshot says by now that they are cooling.
Cooled(r) == {m \in Member : seen[r][m] > 0}

\* Mutant of BindCandidates: the session's binding is not looked up.
BindAnew(s, candidates, cooled, chosen) ==
    LET order == Evicted(Others(s))
    IN  /\ chosen = IF balance THEN BalanceFirst(bound, candidates, cooled) ELSE candidates
        /\ Store([bound EXCEPT ![s] = Head(chosen)], Append(order, s), {})
        /\ UNCHANGED trouble

\* Old bindings go.  A session bound to a candidate keeps it; another one is
\* bound to the first candidate, in a balance pool to the least loaded one.
BindCandidates(s, candidates, cooled, chosen) ==
    LET keeps == s \in ToSet(recent) \ aged /\ bound[s] \in ToSet(candidates)
        others == Others(s)
        table == Held(others)
    IN  IF keeps
        THEN /\ chosen = Lead(candidates, bound[s])
             /\ Store(bound, Append(others, s), {})
             /\ UNCHANGED trouble
        ELSE /\ chosen = IF balance THEN BalanceFirst(table, candidates, cooled) ELSE candidates
             /\ Store([table EXCEPT ![s] = Head(chosen)], Append(Evicted(others), s), {})
             /\ trouble' = IF trouble = 0 /\ Len(others) >= Cap
                           THEN 1 ELSE trouble

\* The request turns out to be of session s; one without a session is not bound.
\* Without failover one member is left.
Bind(r, s) ==
    /\ pc[r] = "ask" /\ Codex \subseteq asked[r]
    /\ LET candidates == Candidates(r) IN
       \E m \in ToSet(candidates) :
          LET chosen == Lead(candidates, m) IN
          /\ IF s = None
             THEN m = Head(candidates) /\ UNCHANGED <<tableVars, trouble>>
             ELSE BindCandidates(s, candidates, Cooled(r), chosen)
          /\ list' = [list EXCEPT ![r] = IF failover THEN chosen ELSE <<m>>]
    /\ pc' = [pc EXCEPT ![r] = "ready"]
    /\ session' = [session EXCEPT ![r] = s]
    /\ seen' = [seen EXCEPT ![r] = NothingSeen]
    /\ asked' = [asked EXCEPT ![r] = {}] /\ out' = [out EXCEPT ![r] = {}]
    /\ UNCHANGED <<balance, failover, until, signedOut, inflight>>

-----------------------------------------------------------------------------
(* Trying members.                                                         *)

\* The member a request is on.
Current(r) == Head(list[r])

\* The request ends.
Done(r) == /\ pc' = [pc EXCEPT ![r] = "idle"]
           /\ list' = [list EXCEPT ![r] = <<>>]
           /\ session' = [session EXCEPT ![r] = None]

Goto(r, l) == pc' = [pc EXCEPT ![r] = l] /\ UNCHANGED <<list, session>>

Release(r) == inflight' = [inflight EXCEPT ![Current(r)] =
                              IF @ > 0 THEN @ - 1 ELSE 0]

\* A translation or the privacy policy can refuse the request for this member.
Acquire(r) ==
    /\ pc[r] = "ready"
    /\ \/ /\ inflight' = [inflight EXCEPT ![Current(r)] = @ + 1]
          /\ Goto(r, "trying")
       \/ Done(r) /\ UNCHANGED inflight
    /\ UNCHANGED <<balance, failover, tableVars, until, signedOut, lookVars, trouble>>

\* The first usable event is there: the answer belongs to this member.
Answer(r) ==
    /\ pc[r] = "trying"
    /\ Goto(r, "streaming")
    /\ UNCHANGED <<balance, failover, tableVars, until, signedOut, inflight, lookVars, trouble>>

\* The client is gone: no failure, and the session stays.
Leave(r) ==
    /\ pc[r] \in {"trying", "streaming"}
    /\ Release(r) /\ Done(r)
    /\ UNCHANGED <<balance, failover, tableVars, until, signedOut, lookVars, trouble>>

\* Mutant of Failed: the member stays acquired when the request moves on.
FailedUnreleased(r, next) ==
    /\ \E n \in 1..MaxCool : until' = [until EXCEPT ![Current(r)] = n]
    /\ IF Len(list[r]) > 1 /\ next # "idle" THEN Goto(r, next) ELSE Release(r) /\ Done(r)
    /\ IF Len(list[r]) > 1 /\ next # "idle" THEN UNCHANGED inflight ELSE TRUE
    /\ Trouble
    /\ UNCHANGED <<balance, failover, tableVars, signedOut, lookVars>>

\* A failure on the current member is recorded; the request goes on only if
\* another member is left.
Failed(r, next) ==
    /\ \E n \in 1..MaxCool : until' = [until EXCEPT ![Current(r)] = n]
    /\ Release(r)
    /\ IF Len(list[r]) > 1 /\ next # "idle" THEN Goto(r, next) ELSE Done(r)
    /\ Trouble
    /\ UNCHANGED <<balance, failover, tableVars, signedOut, lookVars>>

\* A retryable failure goes to the next member; silence after the model began
\* ends the request and loses the session; any other failure ends the request.
Fail(r) ==
    pc[r] = "trying" /\ \E next \in {"failed", "lost", "idle"} : Failed(r, next)

\* The answer breaks off: it is not continued on another member.
Break(r) == pc[r] = "streaming" /\ Failed(r, "lost")

Finish(r) ==
    /\ pc[r] = "streaming"
    /\ until' = [until EXCEPT ![Current(r)] = 0]
    /\ Release(r) /\ Done(r)
    /\ UNCHANGED <<balance, failover, tableVars, signedOut, lookVars, trouble>>

\* Mutant of MoveSession: whichever member the session is bound to now.
MoveAnySession(s, from, to) ==
    IF s # None /\ bound[s] # None
    THEN Store([bound EXCEPT ![s] = to], Append(Without(s), s), aged \ {s})
    ELSE UNCHANGED tableVars

\* Only a session still bound to the member that failed is moved.
MoveSession(s, from, to) ==
    IF s # None /\ bound[s] = from
    THEN Store([bound EXCEPT ![s] = to], Append(Without(s), s), aged \ {s})
    ELSE UNCHANGED tableVars

Move(r) ==
    /\ pc[r] \in {"failed", "lost"}
    /\ MoveSession(session[r], Current(r), list[r][2])
    /\ IF pc[r] = "failed"
       THEN /\ pc' = [pc EXCEPT ![r] = "ready"]
            /\ list' = [list EXCEPT ![r] = Tail(@)]
            /\ UNCHANGED session
       ELSE Done(r)
    /\ UNCHANGED <<balance, failover, until, signedOut, inflight, lookVars, trouble>>

Step(r) == \/ Look(r) \/ Sort(r) \/ Ask(r) \/ (\E s \in Session \cup {None} : Bind(r, s))
           \/ Acquire(r) \/ Answer(r) \/ Fail(r) \/ Leave(r) \/ Break(r) \/ Finish(r) \/ Move(r)

-----------------------------------------------------------------------------
(* Time, checks, sign-ins and profile switches.                            *)

Minus(f) == [m \in Member |-> IF f[m] > 0 THEN f[m] - 1 ELSE 0]

\* Time goes on, for the table and for every snapshot.
Tick ==
    /\ until' = Minus(until) /\ seen' = [r \in Request |-> Minus(seen[r])]
    /\ until' # until \/ seen' # seen
    /\ UNCHANGED <<balance, failover, tableVars, signedOut, inflight,
                   pc, session, list, asked, out, trouble>>

\* A check succeeds or the statistics are reset.
Recover(m) ==
    /\ until[m] > 0 /\ until' = [until EXCEPT ![m] = 0]
    /\ UNCHANGED <<balance, failover, tableVars, signedOut, inflight,
                   pc, session, list, lookVars, trouble>>

\* A background check fails; Codex members are not checked.
ProbeFails(m) ==
    /\ m \notin Codex
    /\ \E n \in 1..MaxCool : until' = [until EXCEPT ![m] = n]
    /\ Trouble
    /\ UNCHANGED <<balance, failover, tableVars, signedOut, inflight,
                   pc, session, list, lookVars>>

SignInOrOut(m) ==
    /\ signedOut' = IF m \in signedOut THEN signedOut \ {m} ELSE signedOut \cup {m}
    /\ Trouble
    /\ UNCHANGED <<balance, failover, tableVars, until, inflight,
                   pc, session, list, lookVars>>

\* The oldest binding not yet past 24 hours gets there.
Age ==
    LET young == Only(recent, Session \ aged) IN
    /\ young # <<>> /\ aged' = aged \cup {Head(young)}
    /\ Trouble
    /\ UNCHANGED <<balance, failover, bound, recent, until, signedOut, inflight,
                   pc, session, list, lookVars>>

\* Another profile is made active.
ClearSessions ==
    /\ recent # <<>>
    /\ Store(bound, <<>>, {})
    /\ Trouble
    /\ UNCHANGED <<balance, failover, until, signedOut, inflight,
                   pc, session, list, lookVars>>

Next ==
    \/ \E r \in Request : Step(r)
    \/ \E m \in Member : Recover(m) \/ ProbeFails(m)
    \/ \E m \in Codex : SignInOrOut(m)
    \/ Tick \/ Age \/ ClearSessions

Spec == Init /\ [][Next]_vars

-----------------------------------------------------------------------------
(* Properties.                                                             *)

Ready == IF Codex \cap signedOut = Member THEN Member ELSE Member \ signedOut

(* A member's count of requests in flight, which the balancing of routes    *)
(* without a pool reads, is exact on every way a request can end.           *)
InflightExact ==
    \A m \in Member : inflight[m] =
        Cardinality({r \in Request : pc[r] \in {"trying", "streaming"} /\ Current(r) = m})

(* A session goes from one member to another only because a request of its  *)
(* own failed on the first, did not list it, or after 24 hours: neither a   *)
(* cancel nor another session's failure moves it, and a late failure on a   *)
(* member the session has left does not move it again (README.md: it "stays *)
(* on its connection and model while it is healthy, moves to the next       *)
(* member on failure and does not return").                                 *)
MovesOnFailure ==
    [][\A s \in Session : bound[s] # None /\ bound'[s] \notin {None, bound[s]} =>
           \/ s \in aged
           \/ \E r \in Request :
                 \/ pc[r] = "ask" /\ session'[r] = s /\ bound[s] \notin ToSet(Candidates(r))
                 \/ pc[r] \in {"failed", "lost"} /\ session[r] = s /\ Current(r) = bound[s]]_vars

(* While nothing goes wrong, requests of one session that run at the same   *)
(* time are on one member, and in a balance pool no connection that could   *)
(* be chosen has two sessions more than another one: the first choice is    *)
(* made, counted and recorded under one lock.                               *)
SessionsPlaced ==
    trouble = 0 =>
        /\ \A r \in Request :
               session[r] # None /\ pc[r] \in {"ready", "trying", "streaming"}
                   => Current(r) = bound[session[r]]
        /\ balance => \A m, n \in Ready :
               SessionsOn(bound, Connection[m]) <= SessionsOn(bound, Connection[n]) + 1

(* A new session is not given a member that is cooling, by what its request *)
(* saw of it and the time at the bind, if a member it could choose is not:  *)
(* the sorting, made earlier, and the balancing agree on it although        *)
(* cooldowns end between them, and the members were looked at one by one.   *)
NewSessionAvoidsCooling ==
    [][\A r \in Request : pc[r] = "ask" /\ pc'[r] = "ready" /\ session'[r] # None =>
          LET s == session'[r] IN
          bound[s] = None /\ bound'[s] \in Cooled(r) => ToSet(Candidates(r)) \subseteq Cooled(r)]_vars
=============================================================================
