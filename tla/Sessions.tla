------------------------------ MODULE Sessions ------------------------------
(***************************************************************************)
(* The dictionaries of the privacy sessions (internal/privacy/session.go,  *)
(* engine.go, mapper.go, request.go).  A session's file holds a key and    *)
(* one line per real value and the pseudonym issued for it.  Every masked  *)
(* request is one transaction under a mutex of the process and a file lock *)
(* shared by the router processes: it reads the files of all sessions,     *)
(* issues what is missing and appends it.                                  *)
(*                                                                         *)
(* A text is a set of tokens: real values, and pseudonyms that are in the  *)
(* index, of this session or of another.  Explicit are the real values     *)
(* whose pseudonym the rules configure; the others get one of Invented,    *)
(* which collides with nothing.  A fault ends an append early, tears its   *)
(* last line, or ends a process.  MaxText, MaxRequests and MaxFaults are   *)
(* bounds.                                                                 *)
(***************************************************************************)
EXTENDS Naturals, Sequences, SequencesExt, FiniteSets

CONSTANTS Names, Processes, Requests, Plain, Explicit, Invented, MaxText, MaxRequests, MaxFaults

ASSUME BoundsAssumption == {MaxText, MaxRequests, MaxFaults} \subseteq Nat

VARIABLES
    file,       \* of each session: none, or its lines and whether the last one is torn
    aged,       \* the sessions whose files were not used for RetainDays
    lock,       \* the request whose transaction runs, or None
    request,    \* of each request: its state, process, session, the lines of its file and
                \* those to append, the pairs of real value and pseudonym it sends and those it restores
    sent,       \* the pseudonyms upstream has seen in each session since its file is there
    got,        \* the pairs that did not come back
    requests, faults

vars == <<file, aged, lock, request, sent, got, requests, faults>>

Real == Plain \union Explicit
Configured(r) == <<"for", r>>
None == "none"
Idle == [state |-> "idle"]

\* What does not parse is no real value, and a pseudonym that is issued is
\* none of those the rules configure.
ASSUME ValuesAssumption ==
    /\ "" \notin Real /\ Plain \intersect Explicit = {} /\ None \notin Requests
    /\ Invented \intersect {Configured(x) : x \in Explicit} = {}
Absent == [there |-> FALSE, lines |-> <<>>, torn |-> FALSE]

Init ==
    /\ file = [s \in Names |-> Absent] /\ aged = {} /\ lock = None
    /\ request = [r \in Requests |-> Idle]
    /\ sent = [s \in Names |-> {}] /\ got = {} /\ requests = 0 /\ faults = 0

Strike == faults < MaxFaults /\ faults' = faults + 1

-----------------------------------------------------------------------------
(* The files.                                                              *)

\* A line is a real value and its pseudonym; Bad is one that does not parse.
Bad == <<"", "">>
Entries(f, s) == ToSet(f[s].lines)
Index(f) == UNION {{<<s, e[1], e[2]>> : e \in Entries(f, s)} : s \in Names}

\* readAll: lines that parse, no real value or pseudonym twice in a session,
\* one pseudonym for two sessions only where the rules say so.
ReadableIn(f) ==
    /\ \A s \in Names : Bad \notin Entries(f, s) /\ IsInjective(f[s].lines)
    /\ \A x, y \in Index(f) :
        /\ x[1] = y[1] /\ x # y => x[2] # y[2] /\ x[3] # y[3]
        /\ x[1] # y[1] /\ x[3] = y[3] => x[2] = y[2] /\ x[3] = Configured(x[2])

\* Mutant of Appended: the torn end of the file is not cut off first.
AppendedTorn(f, valid, lines) ==
    [there |-> TRUE, lines |-> (IF f.torn /\ lines # <<>> THEN Append(f.lines, Bad) ELSE f.lines) \o lines,
     torn |-> f.torn /\ lines = <<>>]

\* What is behind the valid lines the transaction has read is cut off first.
Appended(f, valid, lines) ==
    IF lines = <<>> THEN [f EXCEPT !.there = TRUE]
    ELSE [there |-> TRUE, lines |-> SubSeq(f.lines, 1, Min({valid, Len(f.lines)})) \o lines, torn |-> FALSE]

-----------------------------------------------------------------------------
(* Mask: what a text becomes.                                              *)

Own(f, s, alias) == {e[1] : e \in {x \in Entries(f, s) : x[2] = alias}}
Anyone(f, alias) == {x[2] : x \in {y \in Index(f) : y[3] = alias}}

\* What a token stands for: itself, or the real value of an alias.
Meaning(f, s, token) ==
    IF token \in Real THEN token
    ELSE CHOOSE r \in IF Own(f, s, token) # {} THEN Own(f, s, token) ELSE Anyone(f, token) : TRUE

\* The real values that need a pseudonym of this session.
Missing(f, s, text) == {Meaning(f, s, t) : t \in text} \ {e[1] : e \in Entries(f, s)}

\* init: every pseudonym of every session is reserved.
Reserved(f) == {x[3] : x \in Index(f)}

\* issue: any that collides with none; two reals get two.
Free(f) == Invented \ Reserved(f)

\* mapValue, in any order of the text.
Issues(f, s, text) ==
    LET missing == Missing(f, s, text)
    IN UNION {{[i \in DOMAIN order |-> <<order[i], IF order[i] \in Explicit THEN Configured(order[i]) ELSE c[order[i]]>>] :
                  order \in SetToSeqs(missing)} :
              c \in {g \in [missing \intersect Plain -> Free(f)] : \A x, y \in DOMAIN g : g[x] = g[y] => x = y}}

\* Mutant of Undo: the other sessions' entries are added last.
UndoForeign(f, s, alias) ==
    IF \E x \in Index(f) : x[1] # s /\ x[3] = alias THEN {} ELSE Own(f, s, alias)

\* The answer's dictionary: this session's entries are added last, and what
\* is another session's stays as it is.
Undo(f, s, alias) == Own(f, s, alias)

-----------------------------------------------------------------------------
(* A request.                                                              *)

\* Mutant of Take: the file lock is shared by nobody.
TakeAtOnce(r, p) ==
    /\ \A q \in Requests : request[q].state = "masking" => request[q].process # p
    /\ lock' = r

\* The mutex and the file lock.
Take(r, p) == lock = None /\ lock' = r

Texts(s) == {t \in SUBSET (Real \union {x[3] : x \in Index(file)}) : t # {} /\ IsFiniteSet(t) /\ Cardinality(t) <= MaxText}

\* The lock is taken, the files are read, the text is mapped.
Mask(r) ==
    /\ request[r].state = "idle" /\ requests < MaxRequests /\ requests' = requests + 1
    /\ ReadableIn(file)
    /\ \E p \in Processes, s \in Names :
        /\ Take(r, p)
        /\ \E t \in Texts(s) : \E lines \in Issues(file, s, t) :
            LET view == [file EXCEPT ![s].lines = @ \o lines]
                pairs == {e \in Entries(view, s) : e[1] \in {Meaning(file, s, x) : x \in t}}
            IN request' = [request EXCEPT ![r] =
                [state |-> "masking", process |-> p, session |-> s, valid |-> Len(file[s].lines), pending |-> lines, pairs |-> pairs,
                 restores |-> {e \in pairs : Undo(view, s, e[2]) = {e[1]}}]]
    /\ UNCHANGED <<file, aged, sent, got, faults>>

\* The lines are on disk, the file is touched, the request goes upstream.
Commit(r) ==
    /\ request[r].state = "masking"
    /\ LET q == request[r]
           s == q.session
       IN /\ file' = [file EXCEPT ![s] = Appended(@, q.valid, q.pending)]
          /\ aged' = aged \ {s}
          /\ request' = [request EXCEPT ![r].state = "open", ![r].valid = 0, ![r].pending = <<>>]
          /\ sent' = [sent EXCEPT ![s] = @ \union q.pairs]
    /\ lock' = IF lock = r THEN None ELSE lock
    /\ UNCHANGED <<got, requests, faults>>

\* The append fails midway: some lines are there, the next may be torn.
CommitFails(r) ==
    /\ request[r].state = "masking" /\ Strike
    /\ LET q == request[r]
           s == q.session
       IN \E n \in 0..Len(q.pending), torn \in BOOLEAN :
            /\ torn => n < Len(q.pending)
            /\ \/ LET begun == Appended(file[s], q.valid, SubSeq(q.pending, 1, n))
                  IN file' = [file EXCEPT ![s] = [begun EXCEPT !.torn = torn \/ begun.torn]]
               \/ ~file[s].there /\ n = 0 /\ ~torn /\ UNCHANGED file
    /\ request' = [request EXCEPT ![r] = Idle]
    /\ lock' = IF lock = r THEN None ELSE lock
    /\ UNCHANGED <<aged, sent, got, requests>>

\* An answer with the pseudonyms that were sent.
Answer(r) ==
    /\ request[r].state = "open"
    /\ got' = got \union (request[r].pairs \ request[r].restores)
    /\ request' = [request EXCEPT ![r] = Idle]
    /\ UNCHANGED <<file, aged, lock, sent, requests, faults>>

-----------------------------------------------------------------------------
(* The rest.                                                               *)

InUse(s, p) == \E r \in Requests : request[r].state = "open" /\ request[r].process = p /\ request[r].session = s

Removed(names) ==
    /\ file' = [s \in Names |-> IF s \in names THEN Absent ELSE file[s]]
    /\ sent' = [s \in Names |-> IF s \in names THEN {} ELSE sent[s]]
    /\ aged' = aged \ names

\* Open of an engine, at the start of a process or for a changed policy: it
\* reads the index and prunes what this process does not use.
Open(p) ==
    /\ lock = None /\ ReadableIn(file)
    /\ Removed({s \in aged : ~InUse(s, p)})
    /\ UNCHANGED <<lock, request, got, requests, faults>>

Forget(s) ==
    /\ lock = None /\ file[s].there /\ Removed({s})
    /\ UNCHANGED <<lock, request, got, requests, faults>>

\* RetainDays pass; no request lasts that long.
Age(s) ==
    /\ file[s].there /\ s \notin aged /\ aged' = aged \union {s}
    /\ \A r \in Requests : request[r].state # "idle" => request[r].session # s
    /\ UNCHANGED <<file, lock, request, sent, got, requests, faults>>

\* A process ends: its requests and its lock are gone.
Crash(p) ==
    /\ Strike
    /\ LET mine == {r \in Requests : request[r].state = "open" /\ request[r].process = p}
       IN mine # {} /\ request' = [r \in Requests |-> IF r \in mine THEN Idle ELSE request[r]]
    /\ UNCHANGED <<file, aged, lock, sent, got, requests>>

Next ==
    \/ \E r \in Requests : Mask(r) \/ Commit(r) \/ CommitFails(r) \/ Answer(r)
    \/ \E p \in Processes : Open(p) \/ Crash(p)
    \/ \E s \in Names : Forget(s) \/ Age(s)

Spec == Init /\ [][Next]_vars

-----------------------------------------------------------------------------
(* Properties.                                                             *)

(* readAll refuses an index it does not understand, and with it every      *)
(* request of every session: no failed append, crash or second process may *)
(* leave one, nor give two real values one pseudonym.                      *)
Readable == ReadableIn(file)

(* transaction: what upstream saw of a session stays on file while the     *)
(* file does, so the next request says the same.                           *)
SentStays == \A s \in Names : sent[s] \subseteq Entries(file, s)

(* Mask, unmaskText: a pseudonym that was sent comes back as the value the *)
(* client wrote, also one that two sessions share or that was another      *)
(* session's.                                                              *)
ComesBack == got = {}
=============================================================================
