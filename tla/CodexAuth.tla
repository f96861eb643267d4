------------------------------ MODULE CodexAuth ------------------------------
(***************************************************************************)
(* One Codex connection's credential, kept in the memory of every router   *)
(* process that uses it and in one file they share.  The OAuth issuer may  *)
(* rotate the refresh token, so a token must be redeemed by one process    *)
(* only and its successor must not be lost.  Each process serializes its   *)
(* work on the credential with a mutex; redeeming and signing in take, on  *)
(* top of it, a file lock all processes share.  Workers of a process       *)
(* authorize a request, send it, and on a 401 refresh the rejected token   *)
(* once and send the request once more.  A credential enters the router by *)
(* a browser login or as a copy of the one the Codex CLI keeps, and from   *)
(* then on the CLI and the router redeem the same token.                   *)
(*                                                                         *)
(* Tokens are numbers in the order the issuer gives them out.  The issuer, *)
(* the upstream, the CLI and the deploy that moves the writer's role are   *)
(* external.                                                               *)
(* MaxGrants bounds the tokens and MaxFaults the faults of one behaviour.  *)
(***************************************************************************)
EXTENDS Integers

CONSTANTS
    Thread,      \* the workers, pairs of a router process and a number
    Account,     \* the ChatGPT accounts one can sign in to
    Faults, MaxFaults, MaxGrants

FaultKinds == {
    "net",       \* the refresh request fails before the issuer acts on it
    "lost",      \* the issuer acts, its answer is not read (also: a client
                 \* cancels the request whose context the refresh runs in)
    "disk",      \* the credential file cannot be written
    "restart",   \* a router process dies and comes back
    "revoked" }  \* the upstream stops accepting even the last token

ASSUME AuthFaultsAssumption == Faults \subseteq FaultKinds
ASSUME AuthBoundsAssumption == MaxFaults \in Nat /\ MaxGrants \in Nat \ {0}

VARIABLES
    disk,        \* the credential in the file
    credential,  \* codexAuthStore.credential of each process
    loaded,      \* codexAuthStore.loaded
    rejected,    \* rejectedToken while rejectedAt is under a minute old, else 0
    problem,     \* codexAuthStore.authProblem is set
    writes,      \* lifecycle.writesSharedState of each process
    pc, sent,    \* of each worker: its next step, the credential it sent
    issued,      \* how many access tokens the issuer has given out
    fresh,       \* the access tokens whose JWT has not expired
    accepted,    \* the access tokens the upstream accepts
    redeemable,  \* the refresh tokens the issuer accepts
    orphaned,    \* the refresh tokens whose successor a fault kept from the file
    cli,         \* the credentials the CLI's own file has held
    faults

storeVars  == <<credential, loaded, rejected, problem>>
workVars   == <<pc, sent>>
issuerVars == <<issued, fresh, accepted, redeemable, orphaned>>
vars == <<disk, storeVars, writes, workVars, issuerVars, cli, faults>>

Process == {t[1] : t \in Thread}
Grant(access, refresh, account) ==
    [access |-> access, refresh |-> refresh, account |-> account]
Credential == [access : Nat, refresh : Nat, account : Account \cup {"none"}]
None == Grant(0, 0, "none")

\* The refresh tokens the CLI redeems on its own.
CliTokens == {c.refresh : c \in cli}

\* Signed in, by a login of the router's own or with the CLI's credential;
\* nothing read yet.
Init ==
    /\ \E a \in Account : disk = Grant(1, 1, a)
    /\ cli \in {{}, {disk}}
    /\ credential = [p \in Process |-> None]
    /\ loaded = [p \in Process |-> FALSE]
    /\ rejected = [p \in Process |-> 0]
    /\ problem = [p \in Process |-> FALSE]
    /\ writes \in [Process -> BOOLEAN]
    /\ pc = [t \in Thread |-> "idle"]
    /\ sent = [t \in Thread |-> None]
    /\ issued = 1 /\ fresh = {1} /\ accepted = {1} /\ redeemable = {1}
    /\ orphaned = {}
    /\ faults = 0

-----------------------------------------------------------------------------
(* The two locks, told by where the workers are.                           *)

MutexFree(p) ==
    \A t \in Thread : t[1] = p => pc[t] \notin {"expired", "lock", "redeem", "save"}
FileLockFree == \A t \in Thread : pc[t] \notin {"redeem", "save"}

Strike(kind) == kind \in Faults /\ faults < MaxFaults /\ faults' = faults + 1

Goto(t, l) == pc' = [pc EXCEPT ![t] = l] /\ UNCHANGED sent

\* The worker's call ends: its request was answered or failed.
Finish(t) == /\ pc' = [pc EXCEPT ![t] = "idle"]
             /\ sent' = [sent EXCEPT ![t] = None]

SendWith(t, l, c) == /\ pc' = [pc EXCEPT ![t] = l]
                     /\ sent' = [sent EXCEPT ![t] = c]

Reauthorizes(t) == sent[t] # None

\* doWithReauth sends the request again, but never for another account.
Retry(t, c) ==
    IF c.account = sent[t].account THEN SendWith(t, "resend", c) ELSE Finish(t)

-----------------------------------------------------------------------------
(* Authorizing a request.                                                  *)

\* The file is read once in the life of a writer, at every request otherwise.
CredentialFor(t) ==
    LET p == t[1]
        reread == ~loaded[p] \/ ~writes[p]
        c == IF reread THEN disk ELSE credential[p]
    IN  /\ pc[t] = "idle" /\ MutexFree(p)
        /\ credential' = [credential EXCEPT ![p] = c]
        /\ loaded' = [loaded EXCEPT ![p] = TRUE]
        /\ rejected' = [rejected EXCEPT ![p] = IF reread THEN 0 ELSE @]
        /\ problem' = [problem EXCEPT ![p] = @ /\ ~reread]
        /\ IF c.access \in fresh THEN SendWith(t, "send", c) ELSE Goto(t, "expired")
        /\ UNCHANGED <<disk, writes, issuerVars, cli, faults>>

\* The writer's role is asked for again: it may have moved since the first look.
MayRefresh(t) ==
    /\ pc[t] = "expired"
    /\ IF writes[t[1]] THEN Goto(t, "lock") ELSE Finish(t)
    /\ UNCHANGED <<disk, storeVars, writes, issuerVars, cli, faults>>

\* A refresh succeeded with the credential c: the caller goes on.
Refreshed(t, c) ==
    LET p == t[1] IN
    IF Reauthorizes(t)
    THEN /\ rejected' = [rejected EXCEPT ![p] = 0]
         /\ problem' = [problem EXCEPT ![p] = FALSE]
         /\ Retry(t, c)
    ELSE SendWith(t, "send", c) /\ UNCHANGED <<rejected, problem>>

\* A refresh failed; after a rejection it marks the connection signed out.
NotRefreshed(t) ==
    /\ problem' = [problem EXCEPT ![t[1]] = @ \/ Reauthorizes(t)]
    /\ Finish(t)
    /\ UNCHANGED rejected

\* Mutant of RefreshLocked: the file is not read again under the lock.
RefreshUnread(t) ==
    /\ pc[t] = "lock"
    /\ \/ FileLockFree /\ Goto(t, "redeem") /\ UNCHANGED <<rejected, problem>>
       \/ ~FileLockFree /\ NotRefreshed(t)
    /\ UNCHANGED <<disk, credential, loaded, writes, issuerVars, cli, faults>>

\* Under the file lock the file is read again: what another process or a
\* sign-in put there is taken over, and redeemed only if it has expired.
RefreshLocked(t) ==
    LET p == t[1] IN
    /\ pc[t] = "lock"
    /\ \/ /\ FileLockFree
          /\ credential' = [credential EXCEPT ![p] = disk]
          /\ IF disk # credential[p] /\ disk.access \in fresh
             THEN Refreshed(t, disk)
             ELSE Goto(t, "redeem") /\ UNCHANGED <<rejected, problem>>
       \/ \* the caller's context ends while another process has the lock
          ~FileLockFree /\ NotRefreshed(t) /\ UNCHANGED credential
    /\ UNCHANGED <<disk, loaded, writes, issuerVars, cli, faults>>

\* The issuer gives out a token for the refresh token r, which it may rotate
\* or keep.
Issue(r, rotates) ==
    LET n == issued + 1
    IN  /\ r \in redeemable /\ issued < MaxGrants
        /\ issued' = n
        /\ fresh' = fresh \cup {n} /\ accepted' = accepted \cup {n}
        /\ redeemable' = IF rotates THEN (redeemable \ {r}) \cup {n} ELSE redeemable

Redeem(t) ==
    LET p == t[1]
        c == credential[p]
        answered(rotates) ==
            /\ credential' = [credential EXCEPT ![p] =
                   Grant(issued', IF rotates THEN issued' ELSE c.refresh, c.account)]
            /\ Goto(t, "save") /\ UNCHANGED <<rejected, problem, orphaned, faults>>
        unanswered ==
            /\ Strike("lost") /\ orphaned' = orphaned \cup {c.refresh}
            /\ NotRefreshed(t) /\ UNCHANGED credential
    IN  /\ pc[t] = "redeem"
        /\ \/ \E rotates \in BOOLEAN :
                Issue(c.refresh, rotates) /\ (answered(rotates) \/ unanswered)
           \/ /\ c.refresh \notin redeemable \/ issued = MaxGrants
              /\ NotRefreshed(t) /\ UNCHANGED <<credential, issuerVars, faults>>
           \/ Strike("net") /\ NotRefreshed(t) /\ UNCHANGED <<credential, issuerVars>>
        /\ UNCHANGED <<disk, loaded, writes, cli>>

\* Mutant of Save: the refreshed credential stays in memory only.
SaveNothing(t) ==
    /\ pc[t] = "save"
    /\ Refreshed(t, credential[t[1]])
    /\ UNCHANGED <<disk, credential, loaded, writes, issuerVars, cli, faults>>

\* The credential is in memory before it is in the file.
Save(t) ==
    LET c == credential[t[1]] IN
    /\ pc[t] = "save"
    /\ \/ disk' = c /\ Refreshed(t, c) /\ UNCHANGED <<orphaned, faults>>
       \/ /\ Strike("disk") /\ orphaned' = orphaned \cup {disk.refresh}
          /\ NotRefreshed(t) /\ UNCHANGED disk
    /\ UNCHANGED <<credential, loaded, writes, issued, fresh, accepted, redeemable, cli>>

-----------------------------------------------------------------------------
(* Sending a request.  Only a 401 leads to another step; an answer or any   *)
(* other error ends the attempt.  A token refused once is never accepted    *)
(* again, so a 401 that waits for the mutex is one that comes later: its     *)
(* arrival and its handling are one step.                                   *)

Send(t) ==
    /\ pc[t] = "send"
    /\ Finish(t)
    /\ UNCHANGED <<disk, storeVars, writes, issuerVars, cli, faults>>

\* Mutant of RefreshRejected: that the token has been replaced since the request
\* was sent is not noticed.
RefreshAgain(t) ==
    LET p == t[1]
        a == sent[t].access
    IN  /\ pc[t] = "send" /\ a \notin accepted /\ MutexFree(p)
        /\ IF ~loaded[p] \/ credential[p].account # sent[t].account \/ ~writes[p]
           THEN Finish(t) /\ UNCHANGED rejected
           ELSE Goto(t, "lock") /\ rejected' = [rejected EXCEPT ![p] = a]
        /\ UNCHANGED <<disk, credential, loaded, problem, writes, issuerVars, cli, faults>>

\* refreshRejected up to the refresh: one refresh for one rejected token, one
\* attempt a minute; a process that may not write only reads the file again.
RefreshRejected(t) ==
    LET p == t[1]
        a == sent[t].access
        keep == UNCHANGED <<credential, rejected>>
        note == rejected' = [rejected EXCEPT ![p] = a]
    IN  /\ pc[t] = "send" /\ a \notin accepted /\ MutexFree(p)
        /\ IF ~loaded[p] \/ credential[p].account # sent[t].account
           THEN Finish(t) /\ keep
           ELSE IF credential[p].access # a THEN Retry(t, credential[p]) /\ keep
           ELSE IF rejected[p] = a THEN Finish(t) /\ keep
           ELSE IF writes[p] THEN Goto(t, "lock") /\ note /\ UNCHANGED credential
           ELSE IF disk.access = a THEN Finish(t) /\ note /\ UNCHANGED credential
           ELSE /\ credential' = [credential EXCEPT ![p] = disk]
                /\ Retry(t, disk) /\ note
        /\ UNCHANGED <<disk, loaded, problem, writes, issuerVars, cli, faults>>

Resend(t) ==
    /\ pc[t] = "resend"
    /\ Finish(t)
    /\ UNCHANGED <<disk, storeVars, writes, issuerVars, cli, faults>>

\* A second 401 marks the connection signed out, unless the credential that
\* got it has been replaced meanwhile.
Refused(t) ==
    LET p == t[1]
        current == credential[p].access = sent[t].access
    IN  /\ pc[t] = "resend" /\ sent[t].access \notin accepted /\ MutexFree(p)
        /\ problem' = [problem EXCEPT ![p] = @ \/ current]
        /\ rejected' = [rejected EXCEPT ![p] = IF current THEN sent[t].access ELSE @]
        /\ Finish(t)
        /\ UNCHANGED <<disk, credential, loaded, writes, issuerVars, cli, faults>>

Work(t) == \/ MayRefresh(t) \/ RefreshLocked(t) \/ Redeem(t) \/ Save(t)
           \/ Send(t) \/ RefreshRejected(t) \/ Resend(t) \/ Refused(t)

-----------------------------------------------------------------------------
(* Sign-ins, tokens going bad, deploys and restarts.                       *)

\* The writer saves c under both locks and takes it up; a save that fails
\* changes nothing.
TakeUp(p, c) ==
    /\ writes[p] /\ MutexFree(p) /\ FileLockFree
    /\ disk' = c
    /\ credential' = [credential EXCEPT ![p] = c]
    /\ loaded' = [loaded EXCEPT ![p] = TRUE]
    /\ rejected' = [rejected EXCEPT ![p] = 0]
    /\ problem' = [problem EXCEPT ![p] = FALSE]
    /\ UNCHANGED <<writes, workVars, faults>>

\* The issuer gives a login tokens of its own.
NewSession ==
    LET n == issued + 1 IN
    /\ n <= MaxGrants
    /\ issued' = n
    /\ fresh' = fresh \cup {n} /\ accepted' = accepted \cup {n}
    /\ redeemable' = redeemable \cup {n}
    /\ UNCHANGED orphaned

\* A browser login.
SignIn(p, account) ==
    NewSession /\ TakeUp(p, Grant(issued', issued', account)) /\ UNCHANGED cli

\* importFromCLI copies the CLI's credential as it stands.  The CLI's file is
\* read before the locks are waited for, so c may have been replaced since.
Import(p, c) == c \in cli /\ TakeUp(p, c) /\ UNCHANGED <<issuerVars, cli>>

CliSignsIn(account) ==
    /\ NewSession
    /\ cli' = cli \cup {Grant(issued', issued', account)}
    /\ UNCHANGED <<disk, storeVars, writes, workVars, faults>>

CliRefreshes(c) ==
    /\ \E rotates \in BOOLEAN :
           /\ Issue(c.refresh, rotates)
           /\ cli' = cli \cup {Grant(issued', IF rotates THEN issued' ELSE c.refresh,
                                    c.account)}
    /\ UNCHANGED <<disk, storeVars, writes, workVars, orphaned, faults>>

\* The last token of a behaviour does not expire: revoking it is a fault.
Expire(a) ==
    /\ a \in fresh /\ a < MaxGrants
    /\ fresh' = fresh \ {a} /\ accepted' = accepted \ {a}
    /\ UNCHANGED <<disk, storeVars, writes, workVars, issued, redeemable, orphaned,
                   cli, faults>>

Revoke(a) ==
    /\ a \in accepted
    /\ accepted' = accepted \ {a}
    /\ IF a < MaxGrants THEN UNCHANGED faults ELSE Strike("revoked")
    /\ UNCHANGED <<disk, storeVars, writes, workVars, issued, fresh, redeemable,
                   orphaned, cli>>

MinutePasses(p) ==
    /\ rejected[p] # 0
    /\ rejected' = [rejected EXCEPT ![p] = 0]
    /\ UNCHANGED <<disk, credential, loaded, problem, writes, workVars,
                   issuerVars, cli, faults>>

\* A deploy quiesces or activates the process, whatever its workers are doing.
Handover(p) ==
    /\ writes' = [writes EXCEPT ![p] = ~@]
    /\ UNCHANGED <<disk, storeVars, workVars, issuerVars, cli, faults>>

Restart(p) ==
    /\ Strike("restart")
    /\ credential' = [credential EXCEPT ![p] = None]
    /\ loaded' = [loaded EXCEPT ![p] = FALSE]
    /\ rejected' = [rejected EXCEPT ![p] = 0]
    /\ problem' = [problem EXCEPT ![p] = FALSE]
    /\ pc' = [t \in Thread |-> IF t[1] = p THEN "idle" ELSE pc[t]]
    /\ sent' = [t \in Thread |-> IF t[1] = p THEN None ELSE sent[t]]
    /\ orphaned' = IF \E t \in Thread : t[1] = p /\ pc[t] = "save"
                   THEN orphaned \cup {disk.refresh} ELSE orphaned
    /\ UNCHANGED <<disk, writes, issued, fresh, accepted, redeemable, cli>>

Next ==
    \/ \E t \in Thread : CredentialFor(t) \/ Work(t)
    \/ \E p \in Process : \/ \E a \in Account : SignIn(p, a)
                          \/ \E c \in cli : Import(p, c)
                          \/ MinutePasses(p) \/ Handover(p) \/ Restart(p)
    \/ \E a \in Account : CliSignsIn(a)
    \/ \E c \in cli : CliRefreshes(c)
    \/ \E a \in 1..MaxGrants : Expire(a) \/ Revoke(a)

Spec == Init /\ [][Next]_vars

-----------------------------------------------------------------------------
(* Properties.                                                             *)

(* A token is refreshed only when it went bad, and no rotated refresh token *)
(* is presented again (shared_writes_test.go: "rotated token used twice" is *)
(* an error) unless a fault kept its successor from the file or the token   *)
(* is the CLI's as well: of several workers and processes that meet the     *)
(* same bad token one refreshes it and the others take its result, across   *)
(* handovers, sign-ins, imports, restarts.                                  *)
RedeemedOnce ==
    \A t \in Thread : pc[t] = "redeem" =>
        /\ credential[t[1]].refresh \in redeemable \cup orphaned \cup CliTokens
        /\ disk.access \notin accepted

(* A refresh that began before a sign-in to another account never writes    *)
(* the old account over it.                                                 *)
SignInSticks ==
    \A t \in Thread : pc[t] \in {"redeem", "save"} =>
        /\ credential[t[1]].account = disk.account
        /\ pc[t] = "redeem" => credential[t[1]] = disk

(* A process marks the connection signed out only while the credential it   *)
(* works with is refused, or could not be saved: a 401 that arrives late,   *)
(* of a credential that a sign-in or the refresh of another worker or       *)
(* process has replaced, leads to no refresh of the new one and to no mark  *)
(* (codex_auth.go:332-333, 389-396).                                        *)
SignedOutForCause ==
    [][\A p \in Process : ~problem[p] /\ problem'[p] =>
          \/ credential'[p].access \notin accepted
          \/ \E t \in Thread : t[1] = p /\ pc[t] = "save"]_vars

=============================================================================
