--------------------------- MODULE CodexAuthProofs ---------------------------
(***************************************************************************)
(* For any number of router processes, workers, accounts, tokens and       *)
(* faults: no rotated refresh token is presented again, a sign-in is not   *)
(* overwritten, and no late 401 signs a good credential out.               *)
(***************************************************************************)
EXTENDS CodexAuth, TLAPS

Pc == {"idle", "expired", "lock", "redeem", "save", "send", "resend"}

TypeOK ==
    /\ disk \in Credential /\ credential \in [Process -> Credential]
    /\ loaded \in [Process -> BOOLEAN] /\ rejected \in [Process -> Nat]
    /\ problem \in [Process -> BOOLEAN] /\ writes \in [Process -> BOOLEAN]
    /\ pc \in [Thread -> Pc] /\ sent \in [Thread -> Credential]
    /\ issued \in Nat /\ fresh \subseteq Nat /\ accepted \subseteq fresh
    /\ redeemable \subseteq Nat /\ orphaned \subseteq Nat /\ faults \in Nat
    /\ cli \subseteq Credential

Locked(t) == pc[t] \in {"expired", "lock", "redeem", "save"}
FileLocked(t) == pc[t] \in {"redeem", "save"}

\* The mutex of a process and the file lock.
LockInv ==
    /\ \A t, u \in Thread : Locked(t) /\ Locked(u) /\ t[1] = u[1] => t = u
    /\ \A t, u \in Thread : FileLocked(t) /\ FileLocked(u) => t = u

\* Nobody knows a token the issuer has not given out.
IssuedInv ==
    /\ disk.access <= issued
    /\ \A p \in Process : credential[p].access <= issued
    /\ \A t \in Thread : sent[t].access <= issued
    /\ \A c \in cli : c.access <= issued

\* Why a worker is where it is: it met a token that is bad and stays so.
BadInv ==
    \A t \in Thread :
        /\ pc[t] = "expired" => credential[t[1]].access \notin fresh
        /\ pc[t] = "lock" => credential[t[1]].access \notin accepted
        /\ pc[t] = "redeem" => disk.access \notin accepted

\* What the holder of the file lock has in memory is what the file had.
FileInv ==
    \A t \in Thread : /\ pc[t] = "redeem" => credential[t[1]] = disk
                      /\ pc[t] = "save" => credential[t[1]].account = disk.account

\* The tokens that may be presented.
Known == redeemable \cup orphaned \cup CliTokens

\* The end of the chain of refresh tokens is in the file, or on its way there;
\* what the CLI has rotated is the CLI's.
ChainInv ==
    /\ (\A t \in Thread : pc[t] # "save") => disk.refresh \in Known
    /\ \A t \in Thread : pc[t] = "save" => credential[t[1]].refresh \in Known

IInv == TypeOK /\ LockInv /\ IssuedInv /\ BadInv /\ FileInv /\ ChainInv

LEMMA NoneType == None \in Credential /\ None.access = 0
BY DEF None, Grant, Credential

LEMMA GrantType ==
    ASSUME NEW a \in Nat, NEW r \in Nat, NEW c \in Account \cup {"none"}
    PROVE  /\ Grant(a, r, c) \in Credential
           /\ Grant(a, r, c).access = a /\ Grant(a, r, c).refresh = r
           /\ Grant(a, r, c).account = c
BY DEF Grant, Credential
-----------------------------------------------------------------------------
(* How a worker's call goes on: it leaves both locks, holding a credential  *)
(* that is c or none.                                                       *)

Leaves(t, c) ==
    /\ \E l \in {"idle", "send", "resend"} : pc' = [pc EXCEPT ![t] = l]
    /\ \E d \in {None, c} : sent' = [sent EXCEPT ![t] = d]

LEMMA Ends ==
    ASSUME TypeOK, NEW t \in Thread, NEW c \in Credential
    PROVE  /\ Finish(t) => Leaves(t, c)
           /\ SendWith(t, "send", c) => Leaves(t, c)
           /\ Retry(t, c) => Leaves(t, c)
           /\ Refreshed(t, c) => Leaves(t, c) /\ rejected' \in [Process -> Nat]
                                 /\ problem' \in [Process -> BOOLEAN]
           /\ NotRefreshed(t) => Leaves(t, c) /\ rejected' \in [Process -> Nat]
                                 /\ problem' \in [Process -> BOOLEAN]
<1>0. t[1] \in Process
    BY DEF Process
<1>1. /\ Finish(t) => Leaves(t, c)
      /\ SendWith(t, "send", c) => Leaves(t, c)
      /\ SendWith(t, "resend", c) => Leaves(t, c)
    BY DEF Finish, SendWith, Leaves
<1>2. Retry(t, c) => Leaves(t, c)
    BY <1>1 DEF Retry
<1>3. Refreshed(t, c) => Leaves(t, c)
    BY <1>1, <1>2 DEF Refreshed
<1>4. ASSUME Refreshed(t, c)
      PROVE  rejected' \in [Process -> Nat] /\ problem' \in [Process -> BOOLEAN]
    <2>1. CASE Reauthorizes(t)
        <3>1. /\ rejected' = [rejected EXCEPT ![t[1]] = 0]
              /\ problem' = [problem EXCEPT ![t[1]] = FALSE]
            BY <1>4, <2>1 DEF Refreshed
        <3> QED BY <3>1, <1>0 DEF TypeOK
    <2>2. CASE ~Reauthorizes(t)
        BY <1>4, <2>2 DEF Refreshed, TypeOK
    <2> QED BY <2>1, <2>2
<1>5. NotRefreshed(t) => problem' \in [Process -> BOOLEAN]
    BY <1>0 DEF NotRefreshed, TypeOK, Reauthorizes
<1>6. NotRefreshed(t) => Leaves(t, c) /\ rejected' \in [Process -> Nat]
    BY <1>1 DEF NotRefreshed, TypeOK
<1> QED BY <1>1, <1>2, <1>3, <1>4, <1>5, <1>6

\* A worker that leaves its locks with a known credential, or with none.
LEMMA Leaving ==
    ASSUME IInv, NEW t \in Thread, NEW c \in Credential, c.access <= issued, Leaves(t, c)
    PROVE  /\ pc' \in [Thread -> Pc] /\ sent' \in [Thread -> Credential]
           /\ pc'[t] \in {"idle", "send", "resend"}
           /\ \A u \in Thread \ {t} : pc'[u] = pc[u] /\ sent'[u] = sent[u]
           /\ \A u \in Thread : sent'[u].access <= issued
           /\ LockInv'
<1>1. /\ pc' \in [Thread -> Pc] /\ sent' \in [Thread -> Credential]
      /\ pc'[t] \in {"idle", "send", "resend"} /\ sent'[t] \in {None, c}
      /\ \A u \in Thread \ {t} : pc'[u] = pc[u] /\ sent'[u] = sent[u]
    BY NoneType DEF IInv, TypeOK, Leaves, Pc
<1>2. \A u \in Thread : sent'[u].access <= issued
    BY <1>1, NoneType DEF IInv, TypeOK, IssuedInv
<1>3. LockInv'
    BY <1>1 DEF IInv, LockInv, Locked, FileLocked
<1> QED BY <1>1, <1>2, <1>3
LEMMA Processes == \A t \in Thread : t[1] \in Process
BY DEF Process

\* A step that leaves the files, the credentials and the issuer alone.
LEMMA Quiet ==
    ASSUME IInv, TypeOK', LockInv', IssuedInv', BadInv',
           UNCHANGED <<disk, credential, issuerVars, cli>>,
           \A t \in Thread : pc'[t] = pc[t] \/ pc[t] \notin {"save", "redeem"},
           \A t \in Thread : pc'[t] = pc[t] \/ pc'[t] \notin {"save", "redeem"}
    PROVE  IInv'
BY DEF IInv, FileInv, ChainInv, Known, CliTokens, issuerVars, TypeOK

LEMMA CredentialForStep ==
    ASSUME IInv, NEW t \in Thread, CredentialFor(t)
    PROVE  IInv'
<1> DEFINE p == t[1]
           c == IF ~loaded[p] \/ ~writes[p] THEN disk ELSE credential[p]
<1>0. p \in Process /\ c \in Credential /\ c.access <= issued /\ TypeOK
    BY Processes DEF IInv, TypeOK, IssuedInv
<1>1. /\ pc[t] = "idle" /\ MutexFree(p)
      /\ credential' = [credential EXCEPT ![p] = c]
      /\ UNCHANGED <<disk, writes, issuerVars, cli, faults>>
    BY DEF CredentialFor
<1>2. /\ loaded' \in [Process -> BOOLEAN] /\ rejected' \in [Process -> Nat]
      /\ problem' \in [Process -> BOOLEAN]
    BY <1>0 DEF CredentialFor, TypeOK
<1>3. \A u \in Thread : u[1] = p => ~Locked(u)
    BY <1>1 DEF MutexFree, Locked
<1>4. /\ credential' \in [Process -> Credential]
      /\ \A q \in Process : credential'[q].access <= issued
      /\ \A u \in Thread : Locked(u) => credential'[u[1]] = credential[u[1]]
      /\ credential'[p] = c
    BY <1>0, <1>1, <1>3, Processes DEF IInv, TypeOK, IssuedInv
<1>5. CASE SendWith(t, "send", c)
    <2>1. Leaves(t, c)
        BY <1>5, <1>0, Ends
    <2>2. /\ pc' \in [Thread -> Pc] /\ sent' \in [Thread -> Credential]
          /\ pc'[t] \in {"idle", "send", "resend"}
          /\ \A u \in Thread \ {t} : pc'[u] = pc[u] /\ sent'[u] = sent[u]
          /\ \A u \in Thread : sent'[u].access <= issued
          /\ LockInv'
        BY <1>0, <2>1, Leaving
    <2>3. TypeOK' /\ IssuedInv'
        BY <1>0, <1>1, <1>2, <1>4, <2>2 DEF TypeOK, IssuedInv, IInv, issuerVars
    <2>4. BadInv'
        BY <1>1, <1>4, <2>2 DEF BadInv, IInv, issuerVars, Locked
    <2>5. FileInv' /\ ChainInv'
        BY <1>1, <1>4, <2>2 DEF FileInv, ChainInv, Known, CliTokens, IInv, issuerVars, Locked
    <2> QED BY <2>2, <2>3, <2>4, <2>5 DEF IInv
<1>6. CASE c.access \notin fresh /\ Goto(t, "expired")
    <2>2. /\ pc' \in [Thread -> Pc] /\ UNCHANGED sent /\ pc'[t] = "expired"
          /\ \A u \in Thread \ {t} : pc'[u] = pc[u]
        BY <1>0, <1>6 DEF Goto, TypeOK, Pc
    <2>1. LockInv'
        BY <1>1, <1>3, <2>2 DEF LockInv, IInv, Locked, FileLocked
    <2>3. TypeOK' /\ IssuedInv'
        BY <1>0, <1>1, <1>2, <1>4, <2>2 DEF TypeOK, IssuedInv, IInv, issuerVars
    <2>4. BadInv'
        BY <1>1, <1>4, <1>6, <2>2 DEF BadInv, IInv, issuerVars, Locked
    <2>5. FileInv' /\ ChainInv'
        BY <1>1, <1>4, <2>2 DEF FileInv, ChainInv, Known, CliTokens, IInv, issuerVars, Locked
    <2> QED BY <2>1, <2>3, <2>4, <2>5 DEF IInv
<1> QED BY <1>5, <1>6 DEF CredentialFor

LEMMA MayRefreshStep ==
    ASSUME IInv, NEW t \in Thread, MayRefresh(t)
    PROVE  IInv'
<1>0. TypeOK /\ t[1] \in Process /\ disk \in Credential /\ disk.access <= issued
    BY Processes DEF IInv, TypeOK, IssuedInv
<1>1. CASE Finish(t)
    <2>1. /\ pc' \in [Thread -> Pc] /\ sent' \in [Thread -> Credential]
          /\ pc'[t] \in {"idle", "send", "resend"}
          /\ \A u \in Thread \ {t} : pc'[u] = pc[u] /\ sent'[u] = sent[u]
          /\ \A u \in Thread : sent'[u].access <= issued
          /\ LockInv'
        BY <1>0, <1>1, Ends, Leaving
    <2>2. TypeOK' /\ IssuedInv' /\ BadInv'
        BY <2>1 DEF MayRefresh, TypeOK, IssuedInv, BadInv, IInv, storeVars, issuerVars
    <2> QED BY <2>1, <2>2, Quiet DEF MayRefresh, storeVars
<1>2. CASE Goto(t, "lock")
    <2>1. /\ pc' \in [Thread -> Pc] /\ UNCHANGED sent /\ pc'[t] = "lock"
          /\ \A u \in Thread \ {t} : pc'[u] = pc[u]
        BY <1>0, <1>2 DEF Goto, TypeOK, Pc
    <2>2. LockInv'
        BY <2>1 DEF MayRefresh, LockInv, IInv, Locked, FileLocked
    <2>3. TypeOK' /\ IssuedInv' /\ BadInv'
        BY <2>1 DEF MayRefresh, TypeOK, IssuedInv, BadInv, IInv, storeVars, issuerVars
    <2> QED BY <2>1, <2>2, <2>3, Quiet DEF MayRefresh, storeVars
<1> QED BY <1>1, <1>2 DEF MayRefresh

LEMMA SendStep ==
    ASSUME IInv, NEW t \in Thread, Send(t) \/ Resend(t)
    PROVE  IInv'
<1>0. /\ TypeOK /\ disk \in Credential /\ disk.access <= issued
      /\ UNCHANGED <<disk, storeVars, writes, issuerVars, cli, faults>>
      /\ pc[t] \in {"send", "resend"} /\ Finish(t)
    BY DEF IInv, TypeOK, IssuedInv, Send, Resend
<1>1. /\ pc' \in [Thread -> Pc] /\ sent' \in [Thread -> Credential]
      /\ pc'[t] \in {"idle", "send", "resend"}
      /\ \A u \in Thread \ {t} : pc'[u] = pc[u] /\ sent'[u] = sent[u]
      /\ \A u \in Thread : sent'[u].access <= issued
      /\ LockInv'
    BY <1>0, Ends, Leaving
<1>2. TypeOK' /\ IssuedInv' /\ BadInv'
    BY <1>0, <1>1 DEF TypeOK, IssuedInv, BadInv, IInv, storeVars, issuerVars
<1> QED BY <1>0, <1>1, <1>2, Quiet DEF storeVars

LEMMA RefusedStep ==
    ASSUME IInv, NEW t \in Thread, Refused(t)
    PROVE  IInv'
<1>0. TypeOK /\ t[1] \in Process /\ disk \in Credential /\ disk.access <= issued
    BY Processes DEF IInv, TypeOK, IssuedInv
<1>1. /\ pc[t] = "resend" /\ Finish(t)
      /\ UNCHANGED <<disk, credential, loaded, writes, issuerVars, cli, faults>>
    BY DEF Refused
<1>2. problem' \in [Process -> BOOLEAN] /\ rejected' \in [Process -> Nat]
    BY <1>0 DEF Refused, TypeOK, Credential
<1>3. /\ pc' \in [Thread -> Pc] /\ sent' \in [Thread -> Credential]
      /\ pc'[t] \in {"idle", "send", "resend"}
      /\ \A u \in Thread \ {t} : pc'[u] = pc[u] /\ sent'[u] = sent[u]
      /\ \A u \in Thread : sent'[u].access <= issued
      /\ LockInv'
    BY <1>0, <1>1, Ends, Leaving
<1>4. TypeOK' /\ IssuedInv' /\ BadInv'
    BY <1>1, <1>2, <1>3 DEF TypeOK, IssuedInv, BadInv, IInv, issuerVars
<1> QED BY <1>1, <1>3, <1>4, Quiet
LEMMA RefreshLockedStep ==
    ASSUME IInv, NEW t \in Thread, RefreshLocked(t)
    PROVE  IInv'
<1> DEFINE p == t[1]
<1>0. TypeOK /\ p \in Process /\ disk \in Credential /\ disk.access <= issued
    BY Processes DEF IInv, TypeOK, IssuedInv
<1>1. pc[t] = "lock" /\ UNCHANGED <<disk, loaded, writes, issuerVars, cli, faults>>
    BY DEF RefreshLocked
<1>2. CASE NotRefreshed(t) /\ UNCHANGED credential
    <2>1. problem' \in [Process -> BOOLEAN] /\ rejected' \in [Process -> Nat]
        BY <1>0, <1>2, Ends
    <2>2. /\ pc' \in [Thread -> Pc] /\ sent' \in [Thread -> Credential]
          /\ pc'[t] \in {"idle", "send", "resend"}
          /\ \A u \in Thread \ {t} : pc'[u] = pc[u] /\ sent'[u] = sent[u]
          /\ \A u \in Thread : sent'[u].access <= issued
          /\ LockInv'
        BY <1>0, <1>2, Ends, Leaving
    <2>3. TypeOK' /\ IssuedInv' /\ BadInv'
        BY <1>1, <1>2, <2>1, <2>2 DEF TypeOK, IssuedInv, BadInv, IInv, issuerVars
    <2> QED BY <1>1, <1>2, <2>2, <2>3, Quiet
<1>3. ASSUME FileLockFree, credential' = [credential EXCEPT ![p] = disk]
      PROVE  /\ credential' \in [Process -> Credential] /\ credential'[p] = disk
             /\ \A q \in Process : credential'[q].access <= issued
             /\ \A u \in Thread \ {t} : Locked(u) => credential'[u[1]] = credential[u[1]]
             /\ \A u \in Thread : ~FileLocked(u)
    BY <1>0, <1>1, <1>3, Processes
    DEF IInv, TypeOK, IssuedInv, LockInv, Locked, FileLockFree, FileLocked
<1>4. CASE FileLockFree /\ credential' = [credential EXCEPT ![p] = disk] /\ Refreshed(t, disk)
    <2>1. problem' \in [Process -> BOOLEAN] /\ rejected' \in [Process -> Nat]
        BY <1>0, <1>4, Ends
    <2>2. /\ pc' \in [Thread -> Pc] /\ sent' \in [Thread -> Credential]
          /\ pc'[t] \in {"idle", "send", "resend"}
          /\ \A u \in Thread \ {t} : pc'[u] = pc[u] /\ sent'[u] = sent[u]
          /\ \A u \in Thread : sent'[u].access <= issued
          /\ LockInv'
        BY <1>0, <1>4, Ends, Leaving
    <2>3. TypeOK' /\ IssuedInv'
        BY <1>0, <1>1, <1>3, <1>4, <2>1, <2>2 DEF IInv, TypeOK, IssuedInv, issuerVars
    <2>4. BadInv'
        BY <1>1, <1>3, <1>4, <2>2 DEF BadInv, IInv, issuerVars, Locked
    <2>5. FileInv' /\ ChainInv'
        BY <1>1, <1>3, <1>4, <2>2 DEF FileInv, ChainInv, Known, CliTokens, IInv, issuerVars, FileLocked
    <2> QED BY <2>2, <2>3, <2>4, <2>5 DEF IInv
<1>5. CASE /\ FileLockFree /\ credential' = [credential EXCEPT ![p] = disk]
           /\ ~(disk # credential[p] /\ disk.access \in fresh)
           /\ Goto(t, "redeem") /\ UNCHANGED <<rejected, problem>>
    <2>1. /\ pc' \in [Thread -> Pc] /\ UNCHANGED sent /\ pc'[t] = "redeem"
          /\ \A u \in Thread \ {t} : pc'[u] = pc[u]
        BY <1>0, <1>5 DEF Goto, TypeOK, Pc
    <2>2. LockInv'
        BY <1>1, <1>3, <1>5, <2>1 DEF LockInv, IInv, Locked, FileLocked
    <2>3. disk.access \notin accepted
        BY <1>0, <1>1, <1>5 DEF IInv, BadInv, TypeOK
    <2>4. TypeOK' /\ IssuedInv' /\ BadInv'
        BY <1>1, <1>3, <1>5, <2>1, <2>3
        DEF TypeOK, IssuedInv, BadInv, IInv, issuerVars, Locked
    <2>5. FileInv' /\ ChainInv'
        BY <1>1, <1>3, <1>5, <2>1 DEF FileInv, ChainInv, Known, CliTokens, IInv, issuerVars, FileLocked
    <2> QED BY <2>2, <2>4, <2>5 DEF IInv
<1> QED BY <1>2, <1>4, <1>5 DEF RefreshLocked

LEMMA RedeemStep ==
    ASSUME IInv, NEW t \in Thread, Redeem(t)
    PROVE  IInv'
<1> DEFINE p == t[1]
           c == credential[p]
<1>0. /\ TypeOK /\ p \in Process /\ c \in Credential /\ c.access <= issued /\ issued \in Nat
      /\ c.refresh \in Nat /\ c.account \in Account \cup {"none"}
    BY Processes DEF IInv, TypeOK, IssuedInv, Credential
<1>1. pc[t] = "redeem" /\ c = disk /\ UNCHANGED <<disk, loaded, writes, cli>>
    BY DEF Redeem, IInv, FileInv
<1>2. \A u \in Thread \ {t} : ~FileLocked(u)
    BY <1>1 DEF IInv, LockInv, FileLocked
<1>3. ASSUME NEW rotates \in BOOLEAN, Issue(c.refresh, rotates)
      PROVE  /\ issued' = issued + 1 /\ issued' \in Nat
             /\ fresh' = fresh \cup {issued'} /\ accepted' = accepted \cup {issued'}
             /\ redeemable' \subseteq Nat /\ accepted' \subseteq fresh' /\ fresh' \subseteq Nat
             /\ (IF rotates THEN issued' ELSE c.refresh) \in redeemable'
             /\ c.refresh \in redeemable
             /\ redeemable \ {c.refresh} \subseteq redeemable'
    <2>1. /\ issued' = issued + 1 /\ c.refresh \in redeemable
          /\ fresh' = fresh \cup {issued'} /\ accepted' = accepted \cup {issued'}
          /\ redeemable' = IF rotates THEN (redeemable \ {c.refresh}) \cup {issued'}
                           ELSE redeemable
        BY <1>3 DEF Issue
    <2>2. issued' \in Nat /\ redeemable' \subseteq Nat
        <3>1. issued \in Nat /\ redeemable \subseteq Nat
            BY <1>0 DEF TypeOK
        <3>2. issued' \in Nat
            BY <2>1, <3>1
        <3> QED BY <2>1, <3>1, <3>2
    <2>3. accepted' \subseteq fresh' /\ fresh' \subseteq Nat
        BY <1>0, <2>1, <2>2 DEF TypeOK
    <2> QED BY <2>1, <2>2, <2>3
<1>4. CASE NotRefreshed(t) /\ UNCHANGED <<credential, issuerVars>> /\ faults' \in Nat
    <2>1. problem' \in [Process -> BOOLEAN] /\ rejected' \in [Process -> Nat]
        BY <1>0, <1>4, Ends
    <2>2. /\ pc' \in [Thread -> Pc] /\ sent' \in [Thread -> Credential]
          /\ pc'[t] \in {"idle", "send", "resend"}
          /\ \A u \in Thread \ {t} : pc'[u] = pc[u] /\ sent'[u] = sent[u]
          /\ \A u \in Thread : sent'[u].access <= issued
          /\ LockInv'
        BY <1>0, <1>4, Ends, Leaving
    <2>3. TypeOK' /\ IssuedInv' /\ BadInv'
        BY <1>1, <1>4, <2>1, <2>2 DEF TypeOK, IssuedInv, BadInv, IInv, issuerVars
    <2>4. FileInv' /\ ChainInv'
        BY <1>1, <1>2, <1>4, <2>2 DEF FileInv, ChainInv, Known, CliTokens, IInv, issuerVars, FileLocked
    <2> QED BY <2>2, <2>3, <2>4 DEF IInv
<1>5. ASSUME NEW rotates \in BOOLEAN, Issue(c.refresh, rotates), faults' \in Nat,
             orphaned' = orphaned \cup {c.refresh}, NotRefreshed(t), UNCHANGED credential
      PROVE  IInv'
    <2>1. problem' \in [Process -> BOOLEAN] /\ rejected' \in [Process -> Nat]
        BY <1>0, <1>5, Ends
    <2>2. /\ pc' \in [Thread -> Pc] /\ sent' \in [Thread -> Credential]
          /\ pc'[t] \in {"idle", "send", "resend"}
          /\ \A u \in Thread \ {t} : pc'[u] = pc[u] /\ sent'[u] = sent[u]
          /\ \A u \in Thread : sent'[u].access <= issued
          /\ LockInv'
        BY <1>0, <1>5, Ends, Leaving
    <2>3. \A e \in Credential : e.access \in Nat
        BY DEF Credential
    <2>4. TypeOK' /\ IssuedInv'
        <3>1. TypeOK'
            BY <1>0, <1>1, <1>3, <1>5, <2>1, <2>2 DEF TypeOK
        <3>2. IssuedInv'
            BY <1>0, <1>1, <1>3, <1>5, <2>2, <2>3 DEF IssuedInv, IInv, TypeOK
        <3> QED BY <3>1, <3>2
    <2>5. BadInv'
        BY <1>0, <1>1, <1>2, <1>3, <1>5, <2>2, <2>3, Processes
        DEF BadInv, IInv, TypeOK, IssuedInv, FileLocked
    <2>6. FileInv' /\ ChainInv'
        BY <1>1, <1>2, <1>5, <2>2 DEF FileInv, ChainInv, Known, CliTokens, IInv, FileLocked
    <2> QED BY <2>2, <2>4, <2>5, <2>6 DEF IInv
<1>6. ASSUME NEW rotates \in BOOLEAN, Issue(c.refresh, rotates),
             credential' = [credential EXCEPT ![p] =
                 Grant(issued', IF rotates THEN issued' ELSE c.refresh, c.account)],
             Goto(t, "save"), UNCHANGED <<rejected, problem, orphaned, faults>>
      PROVE  IInv'
    <2> DEFINE g == Grant(issued', IF rotates THEN issued' ELSE c.refresh, c.account)
    <2>1. /\ pc' \in [Thread -> Pc] /\ UNCHANGED sent /\ pc'[t] = "save"
          /\ \A u \in Thread \ {t} : pc'[u] = pc[u]
        BY <1>0, <1>6 DEF Goto, TypeOK, Pc
    <2>2. LockInv'
        BY <1>1, <2>1 DEF LockInv, IInv, Locked, FileLocked
    <2>3. /\ g \in Credential /\ g.access = issued' /\ g.account = c.account
          /\ g.refresh \in redeemable'
        BY <1>0, <1>3, <1>6, GrantType
    <2>4. /\ credential' \in [Process -> Credential] /\ credential'[p] = g
          /\ \A q \in Process \ {p} : credential'[q] = credential[q]
          /\ \A u \in Thread \ {t} : Locked(u) => credential'[u[1]] = credential[u[1]]
        BY <1>0, <1>1, <1>6, <2>3, Processes DEF IInv, TypeOK, LockInv, Locked
    <2>5. \A e \in Credential : e.access \in Nat
        BY DEF Credential
    <2>6. TypeOK' /\ IssuedInv'
        <3>1. TypeOK'
            BY <1>0, <1>1, <1>3, <1>6, <2>1, <2>4 DEF TypeOK
        <3>2. disk.access \in Nat /\ (\A u \in Thread : sent[u].access \in Nat)
              /\ \A q \in Process : credential[q].access \in Nat
            BY <1>0, <2>5 DEF TypeOK
        <3>3. issued' \in Nat /\ issued' <= issued' /\ \A n \in Nat : n <= issued => n <= issued'
            BY <1>0, <1>3, <1>6
        <3>4. \A q \in Process : credential'[q].access <= issued'
            BY <2>3, <2>4, <3>2, <3>3 DEF IssuedInv, IInv
        <3>5. disk'.access <= issued' /\ \A u \in Thread : sent'[u].access <= issued'
            BY <1>1, <2>1, <3>2, <3>3 DEF IssuedInv, IInv
        <3>6. \A e \in cli' : e.access <= issued'
            BY <1>0, <1>1, <2>5, <3>3 DEF IssuedInv, IInv, TypeOK
        <3> QED BY <3>1, <3>4, <3>5, <3>6 DEF IssuedInv
    <2>7. BadInv'
        BY <1>0, <1>1, <1>2, <1>3, <1>6, <2>1, <2>4, <2>5, Processes
        DEF BadInv, IInv, TypeOK, IssuedInv, FileLocked, Locked
    <2>8. FileInv' /\ ChainInv'
        BY <1>1, <1>2, <2>1, <2>3, <2>4 DEF FileInv, ChainInv, Known, CliTokens, IInv, FileLocked
    <2> QED BY <2>2, <2>6, <2>7, <2>8 DEF IInv
<1>7. \A kind : Strike(kind) => faults' \in Nat
    BY <1>0 DEF Strike, TypeOK
<1>8. \/ \E rotates \in BOOLEAN :
          /\ Issue(c.refresh, rotates)
          /\ \/ /\ credential' = [credential EXCEPT ![p] =
                       Grant(issued', IF rotates THEN issued' ELSE c.refresh, c.account)]
                /\ Goto(t, "save") /\ UNCHANGED <<rejected, problem, orphaned, faults>>
             \/ /\ Strike("lost") /\ orphaned' = orphaned \cup {c.refresh}
                /\ NotRefreshed(t) /\ UNCHANGED credential
      \/ NotRefreshed(t) /\ UNCHANGED <<credential, issuerVars, faults>>
      \/ Strike("net") /\ NotRefreshed(t) /\ UNCHANGED <<credential, issuerVars>>
    BY DEF Redeem
<1> QED BY <1>0, <1>4, <1>5, <1>6, <1>7, <1>8 DEF TypeOK

LEMMA SaveStep ==
    ASSUME IInv, NEW t \in Thread, Save(t)
    PROVE  IInv'
<1> DEFINE p == t[1]
           c == credential[p]
<1>0. /\ TypeOK /\ p \in Process /\ c \in Credential /\ c.access <= issued
      /\ disk \in Credential /\ disk.refresh \in Nat
    BY Processes DEF IInv, TypeOK, IssuedInv, Credential
<1>1. /\ pc[t] = "save"
      /\ UNCHANGED <<credential, loaded, writes, issued, fresh, accepted, redeemable, cli>>
    BY DEF Save
<1>2. \A u \in Thread \ {t} : ~FileLocked(u)
    BY <1>1 DEF IInv, LockInv, FileLocked
<1>3. CASE disk' = c /\ Refreshed(t, c) /\ UNCHANGED <<orphaned, faults>>
    <2>1. problem' \in [Process -> BOOLEAN] /\ rejected' \in [Process -> Nat]
        BY <1>0, <1>3, Ends
    <2>2. /\ pc' \in [Thread -> Pc] /\ sent' \in [Thread -> Credential]
          /\ pc'[t] \in {"idle", "send", "resend"}
          /\ \A u \in Thread \ {t} : pc'[u] = pc[u] /\ sent'[u] = sent[u]
          /\ \A u \in Thread : sent'[u].access <= issued
          /\ LockInv'
        BY <1>0, <1>3, Ends, Leaving
    <2>3. TypeOK' /\ IssuedInv' /\ BadInv'
        BY <1>0, <1>1, <1>2, <1>3, <2>1, <2>2 DEF TypeOK, IssuedInv, BadInv, IInv, FileLocked
    <2>4. FileInv' /\ ChainInv'
        BY <1>1, <1>2, <1>3, <2>2 DEF FileInv, ChainInv, Known, CliTokens, IInv, FileLocked
    <2> QED BY <2>2, <2>3, <2>4 DEF IInv
<1>4. CASE /\ Strike("disk") /\ orphaned' = orphaned \cup {disk.refresh}
           /\ NotRefreshed(t) /\ UNCHANGED disk
    <2>1. problem' \in [Process -> BOOLEAN] /\ rejected' \in [Process -> Nat] /\ faults' \in Nat
        BY <1>0, <1>4, Ends DEF Strike, TypeOK
    <2>2. /\ pc' \in [Thread -> Pc] /\ sent' \in [Thread -> Credential]
          /\ pc'[t] \in {"idle", "send", "resend"}
          /\ \A u \in Thread \ {t} : pc'[u] = pc[u] /\ sent'[u] = sent[u]
          /\ \A u \in Thread : sent'[u].access <= issued
          /\ LockInv'
        BY <1>0, <1>4, Ends, Leaving
    <2>3. TypeOK' /\ IssuedInv' /\ BadInv'
        BY <1>0, <1>1, <1>4, <2>1, <2>2 DEF TypeOK, IssuedInv, BadInv, IInv
    <2>4. FileInv' /\ ChainInv'
        BY <1>1, <1>2, <1>4, <2>2 DEF FileInv, ChainInv, Known, CliTokens, IInv, FileLocked
    <2> QED BY <2>2, <2>3, <2>4 DEF IInv
<1> QED BY <1>3, <1>4 DEF Save

LEMMA RefreshRejectedStep ==
    ASSUME IInv, NEW t \in Thread, RefreshRejected(t)
    PROVE  IInv'
<1> DEFINE p == t[1]
           a == sent[t].access
<1>0. /\ TypeOK /\ p \in Process /\ disk \in Credential /\ disk.access <= issued
      /\ credential[p] \in Credential /\ credential[p].access <= issued /\ a \in Nat
    BY Processes DEF IInv, TypeOK, IssuedInv, Credential
<1>1. /\ pc[t] = "send" /\ MutexFree(p) /\ a \notin accepted
      /\ UNCHANGED <<disk, loaded, problem, writes, issuerVars, cli, faults>>
    BY DEF RefreshRejected
<1>2. rejected' \in [Process -> Nat]
    BY <1>0 DEF RefreshRejected, TypeOK
<1>3. \A u \in Thread : u[1] = p => ~Locked(u)
    BY <1>1 DEF MutexFree, Locked
<1>4. ASSUME Leaves(t, credential[p]), UNCHANGED credential PROVE IInv'
    <2>1. /\ pc' \in [Thread -> Pc] /\ sent' \in [Thread -> Credential]
          /\ pc'[t] \in {"idle", "send", "resend"}
          /\ \A u \in Thread \ {t} : pc'[u] = pc[u] /\ sent'[u] = sent[u]
          /\ \A u \in Thread : sent'[u].access <= issued
          /\ LockInv'
        BY <1>0, <1>4, Leaving
    <2>2. TypeOK' /\ IssuedInv' /\ BadInv'
        BY <1>1, <1>2, <1>4, <2>1 DEF TypeOK, IssuedInv, BadInv, IInv, issuerVars
    <2> QED BY <1>1, <1>4, <2>1, <2>2, Quiet
<1>5. CASE Goto(t, "lock") /\ UNCHANGED credential /\ credential[p].access = a
    <2>1. /\ pc' \in [Thread -> Pc] /\ UNCHANGED sent /\ pc'[t] = "lock"
          /\ \A u \in Thread \ {t} : pc'[u] = pc[u]
        BY <1>0, <1>5 DEF Goto, TypeOK, Pc
    <2>2. LockInv'
        BY <1>1, <1>3, <2>1 DEF LockInv, IInv, Locked, FileLocked
    <2>3. TypeOK' /\ IssuedInv' /\ BadInv'
        BY <1>1, <1>2, <1>5, <2>1 DEF TypeOK, IssuedInv, BadInv, IInv, issuerVars
    <2> QED BY <1>1, <1>5, <2>1, <2>2, <2>3, Quiet
<1>6. CASE credential' = [credential EXCEPT ![p] = disk] /\ Retry(t, disk)
    <2>1. /\ pc' \in [Thread -> Pc] /\ sent' \in [Thread -> Credential]
          /\ pc'[t] \in {"idle", "send", "resend"}
          /\ \A u \in Thread \ {t} : pc'[u] = pc[u] /\ sent'[u] = sent[u]
          /\ \A u \in Thread : sent'[u].access <= issued
          /\ LockInv'
        BY <1>0, <1>6, Ends, Leaving
    <2>2. /\ credential' \in [Process -> Credential]
          /\ \A q \in Process : credential'[q].access <= issued
          /\ \A u \in Thread : Locked(u) => credential'[u[1]] = credential[u[1]]
        BY <1>0, <1>3, <1>6, Processes DEF IInv, TypeOK, IssuedInv
    <2>3. TypeOK' /\ IssuedInv'
        BY <1>0, <1>1, <1>2, <2>1, <2>2 DEF TypeOK, IssuedInv, IInv, issuerVars
    <2>4. BadInv'
        BY <1>1, <2>1, <2>2 DEF BadInv, IInv, issuerVars, Locked
    <2>5. FileInv' /\ ChainInv'
        BY <1>1, <2>1, <2>2 DEF FileInv, ChainInv, Known, CliTokens, IInv, issuerVars, Locked
    <2> QED BY <2>1, <2>3, <2>4, <2>5 DEF IInv
<1>7. /\ Finish(t) => Leaves(t, credential[p])
      /\ Retry(t, credential[p]) => Leaves(t, credential[p])
    BY <1>0, Ends
<1>8. \/ Finish(t) /\ UNCHANGED credential
      \/ Retry(t, credential[p]) /\ UNCHANGED credential
      \/ Goto(t, "lock") /\ UNCHANGED credential /\ credential[p].access = a
      \/ credential' = [credential EXCEPT ![p] = disk] /\ Retry(t, disk)
    BY DEF RefreshRejected
<1> QED BY <1>4, <1>5, <1>6, <1>7, <1>8

\* A writer takes up a credential that is not newer than the last one issued,
\* under both locks; the issuer gives out at most the next number.
LEMMA TakeUpStep ==
    ASSUME IInv, NEW p \in Process, NEW c \in Credential, TakeUp(p, c),
           issued' \in {issued, issued + 1}, c.access <= issued',
           fresh' \subseteq fresh \cup {issued + 1}, fresh \subseteq fresh',
           accepted' \subseteq accepted \cup {issued + 1}, accepted' \subseteq fresh',
           redeemable' \subseteq Nat, redeemable \subseteq redeemable',
           c.refresh \in redeemable' \cup CliTokens, UNCHANGED <<orphaned, cli>>
    PROVE  IInv'
<1> DEFINE n == issued + 1
<1>0. /\ TypeOK /\ n \in Nat /\ issued' \in Nat
      /\ \A m \in Nat : m <= issued => m <= issued' /\ m # n
    BY DEF IInv, TypeOK
<1>1. c.access \in Nat
    BY DEF Credential
<1>2. /\ \A e \in Credential : e.access \in Nat
      /\ \A q \in Process : credential[q].access \in Nat
      /\ \A u \in Thread : sent[u].access \in Nat
      /\ \A e \in cli : e.access \in Nat
      /\ disk.access \in Nat
    BY <1>0 DEF Credential, TypeOK
<1>3. /\ disk' = c /\ credential' = [credential EXCEPT ![p] = c]
      /\ UNCHANGED <<writes, pc, sent, faults>>
      /\ \A u \in Thread : ~FileLocked(u) /\ (u[1] = p => ~Locked(u))
    BY DEF TakeUp, workVars, MutexFree, FileLockFree, Locked, FileLocked
<1>4. /\ loaded' \in [Process -> BOOLEAN] /\ problem' \in [Process -> BOOLEAN]
      /\ rejected' \in [Process -> Nat]
    BY <1>0 DEF TakeUp, TypeOK
<1>5. /\ credential' \in [Process -> Credential] /\ credential'[p] = c
      /\ \A q \in Process \ {p} : credential'[q] = credential[q]
    BY <1>0, <1>3 DEF TypeOK
<1>6. TypeOK'
    BY <1>0, <1>3, <1>4, <1>5 DEF TypeOK
<1>7. IssuedInv'
    <2>1. \A q \in Process : credential'[q].access <= issued'
        BY <1>0, <1>1, <1>2, <1>5 DEF IInv, IssuedInv
    <2>2. /\ \A u \in Thread : sent'[u].access <= issued'
          /\ \A e \in cli' : e.access <= issued'
        BY <1>0, <1>2, <1>3 DEF IInv, IssuedInv
    <2> QED BY <2>1, <2>2, <1>3 DEF IssuedInv
<1>8. LockInv' /\ FileInv'
    BY <1>3 DEF IInv, LockInv, FileInv, Locked, FileLocked
<1>9. ChainInv'
    BY <1>3 DEF ChainInv, Known, CliTokens, FileLocked
<1>10. BadInv'
    <2>1. \A u \in Thread : /\ Locked(u) => credential'[u[1]] = credential[u[1]]
                            /\ credential[u[1]].access # n /\ sent[u].access # n
        BY <1>0, <1>2, <1>3, <1>5, Processes DEF IInv, IssuedInv
    <2>2. \A u \in Thread :
              /\ pc[u] = "expired" => credential[u[1]].access \notin fresh'
              /\ pc[u] = "lock" => credential[u[1]].access \notin accepted'
        BY <2>1 DEF IInv, BadInv
    <2> QED BY <2>1, <2>2, <1>3 DEF BadInv, Locked, FileLocked
<1> QED BY <1>6, <1>7, <1>8, <1>9, <1>10 DEF IInv

LEMMA SignInStep ==
    ASSUME IInv, NEW p \in Process, NEW account \in Account, SignIn(p, account)
    PROVE  IInv'
<1> DEFINE n == issued + 1
           c == Grant(n, n, account)
<1>1. TypeOK /\ n \in Nat
    BY DEF IInv, TypeOK
<1>2. /\ issued' = n /\ fresh' = fresh \cup {n} /\ accepted' = accepted \cup {n}
      /\ redeemable' = redeemable \cup {n} /\ UNCHANGED <<orphaned, cli>>
      /\ TakeUp(p, Grant(issued', issued', account))
    BY DEF SignIn, NewSession
<1>3. c \in Credential /\ c.access = n /\ c.refresh = n /\ TakeUp(p, c)
    BY <1>1, <1>2, GrantType
<1>4. redeemable' \subseteq Nat /\ accepted' \subseteq fresh' /\ n <= n
    BY <1>1, <1>2 DEF TypeOK
<1> QED BY <1>1, <1>2, <1>3, <1>4, TakeUpStep

LEMMA ImportStep ==
    ASSUME IInv, NEW p \in Process, NEW c \in cli, Import(p, c)
    PROVE  IInv'
<1>1. TypeOK /\ c \in Credential /\ c.access <= issued /\ c.refresh \in CliTokens
    BY DEF IInv, TypeOK, IssuedInv, CliTokens
<1>2. TakeUp(p, c) /\ UNCHANGED <<issued, fresh, accepted, redeemable, orphaned, cli>>
    BY DEF Import, issuerVars
<1> QED BY <1>1, <1>2, TakeUpStep DEF TypeOK

\* The CLI signs in, or rotates a token that is its own.
LEMMA CliStep ==
    ASSUME IInv, (\E a \in Account : CliSignsIn(a)) \/ \E c \in cli : CliRefreshes(c)
    PROVE  IInv'
<1> DEFINE n == issued + 1
<1>0. /\ TypeOK /\ n \in Nat
      /\ \A m \in Nat : m <= issued => m <= n /\ m # n
    BY DEF IInv, TypeOK
<1>1. /\ issued' = n /\ fresh' = fresh \cup {n} /\ accepted' = accepted \cup {n}
      /\ UNCHANGED <<disk, storeVars, writes, workVars, orphaned, faults>>
    BY DEF CliSignsIn, CliRefreshes, NewSession, Issue
<1>2. /\ redeemable' \subseteq Nat /\ cli \subseteq cli' /\ cli' \subseteq Credential
      /\ \A e \in cli' : e \in cli \/ e.access = n
      /\ redeemable \subseteq redeemable' \cup CliTokens
    <2>1. CASE \E a \in Account : CliSignsIn(a)
        <3>1. PICK a \in Account : CliSignsIn(a)
            BY <2>1
        <3>2. /\ redeemable' = redeemable \cup {n} /\ cli' = cli \cup {Grant(n, n, a)}
            BY <1>1, <3>1 DEF CliSignsIn, NewSession
        <3>3. Grant(n, n, a) \in Credential /\ Grant(n, n, a).access = n
            BY <1>0, GrantType
        <3> QED BY <1>0, <3>2, <3>3 DEF TypeOK
    <2>2. CASE \E c \in cli : CliRefreshes(c)
        <3>1. PICK c \in cli : CliRefreshes(c)
            BY <2>2
        <3>2. PICK rotates \in BOOLEAN :
                  /\ Issue(c.refresh, rotates)
                  /\ cli' = cli \cup {Grant(issued', IF rotates THEN issued' ELSE c.refresh,
                                            c.account)}
            BY <3>1 DEF CliRefreshes
        <3>3. c \in Credential /\ c.refresh \in Nat /\ c.account \in Account \cup {"none"}
            BY <1>0 DEF TypeOK, Credential
        <3> DEFINE r == IF rotates THEN n ELSE c.refresh
                   g == Grant(n, r, c.account)
        <3>4. r \in Nat
            BY <1>0, <3>3
        <3>5. g \in Credential /\ g.access = n
            BY <1>0, <3>3, <3>4, GrantType
        <3>6. cli' = cli \cup {g}
            BY <1>1, <3>2
        <3>7. redeemable' = IF rotates THEN (redeemable \ {c.refresh}) \cup {n} ELSE redeemable
            BY <3>2 DEF Issue
        <3>8. c.refresh \in CliTokens
            BY DEF CliTokens
        <3> QED BY <1>0, <3>5, <3>6, <3>7, <3>8 DEF TypeOK
    <2> QED BY <2>1, <2>2
<1>3. /\ \A q \in Process : credential[q].access \in Nat
      /\ \A u \in Thread : sent[u].access \in Nat
      /\ \A e \in cli : e.access \in Nat
      /\ disk.access \in Nat
    BY <1>0 DEF Credential, TypeOK
<1>4. TypeOK'
    BY <1>0, <1>1, <1>2 DEF TypeOK, storeVars, workVars
<1>5. IssuedInv'
    <2>1. /\ disk'.access <= n /\ \A q \in Process : credential'[q].access <= n
          /\ \A u \in Thread : sent'[u].access <= n
        BY <1>0, <1>1, <1>3 DEF IInv, IssuedInv, storeVars, workVars
    <2>2. \A e \in cli' : e.access <= n
        BY <1>0, <1>2, <1>3 DEF IInv, IssuedInv
    <2> QED BY <1>1, <2>1, <2>2 DEF IssuedInv
<1>6. LockInv' /\ FileInv'
    BY <1>1 DEF IInv, LockInv, FileInv, Locked, FileLocked, storeVars, workVars
<1>7. ChainInv'
    <2>1. Known \subseteq Known'
        BY <1>1, <1>2 DEF Known, CliTokens
    <2> QED BY <1>1, <2>1 DEF IInv, ChainInv, storeVars, workVars
<1>8. BadInv'
    <2>1. \A u \in Thread : credential[u[1]].access # n /\ sent[u].access # n
        BY <1>0, <1>3, Processes DEF IInv, IssuedInv
    <2>2. disk.access # n
        BY <1>0, <1>3 DEF IInv, IssuedInv
    <2> QED BY <1>1, <2>1, <2>2 DEF IInv, BadInv, storeVars, workVars
<1> QED BY <1>4, <1>5, <1>6, <1>7, <1>8 DEF IInv

LEMMA RestartStep ==
    ASSUME IInv, NEW p \in Process, Restart(p)
    PROVE  IInv'
<1>0. TypeOK /\ disk.refresh \in Nat
    BY DEF IInv, TypeOK, Credential
<1>1. /\ credential' = [credential EXCEPT ![p] = None]
      /\ pc' = [t \in Thread |-> IF t[1] = p THEN "idle" ELSE pc[t]]
      /\ sent' = [t \in Thread |-> IF t[1] = p THEN None ELSE sent[t]]
      /\ orphaned' = IF \E t \in Thread : t[1] = p /\ pc[t] = "save"
                     THEN orphaned \cup {disk.refresh} ELSE orphaned
      /\ UNCHANGED <<disk, writes, issued, fresh, accepted, redeemable, cli>>
    BY DEF Restart
<1>2. /\ loaded' \in [Process -> BOOLEAN] /\ problem' \in [Process -> BOOLEAN]
      /\ rejected' \in [Process -> Nat] /\ faults' \in Nat
    BY <1>0 DEF Restart, Strike, TypeOK
<1>3. TypeOK'
    BY <1>0, <1>1, <1>2, NoneType DEF TypeOK, Pc
<1>4. IssuedInv'
    BY <1>0, <1>1, NoneType DEF IInv, IssuedInv, TypeOK
<1>5. /\ \A u \in Thread : pc'[u] # "idle" => /\ pc'[u] = pc[u] /\ sent'[u] = sent[u]
                                              /\ credential'[u[1]] = credential[u[1]]
    BY <1>0, <1>1, Processes DEF TypeOK
<1>6. LockInv' /\ BadInv' /\ FileInv'
    BY <1>1, <1>5 DEF IInv, LockInv, BadInv, FileInv, Locked, FileLocked
<1>7. ChainInv'
    <2>1. \A t \in Thread : pc'[t] = "save" =>
              credential'[t[1]].refresh \in Known'
        BY <1>1, <1>5 DEF IInv, ChainInv, Known, CliTokens
    <2>2. ASSUME \A t \in Thread : pc'[t] # "save"
          PROVE  disk'.refresh \in Known'
        <3>1. CASE \E t \in Thread : t[1] = p /\ pc[t] = "save"
            BY <1>1, <3>1 DEF Known
        <3>2. CASE ~\E t \in Thread : t[1] = p /\ pc[t] = "save"
            BY <1>1, <2>2, <3>2 DEF IInv, ChainInv, Known, CliTokens
        <3> QED BY <3>1, <3>2
    <2> QED BY <2>1, <2>2 DEF ChainInv, Known, CliTokens
<1> QED BY <1>3, <1>4, <1>6, <1>7 DEF IInv

LEMMA OutsideStep ==
    ASSUME IInv,
           \/ \E a \in 1..MaxGrants : Expire(a) \/ Revoke(a)
           \/ \E p \in Process : MinutePasses(p) \/ Handover(p)
           \/ UNCHANGED vars
    PROVE  IInv'
<1>0. TypeOK
    BY DEF IInv
<1>1. CASE \E a \in 1..MaxGrants : Expire(a) \/ Revoke(a)
    <2>1. /\ UNCHANGED <<disk, storeVars, writes, workVars, issued, redeemable, orphaned, cli>>
          /\ fresh' \subseteq fresh /\ accepted' \subseteq accepted
          /\ accepted' \subseteq fresh'
        BY <1>0, <1>1 DEF Expire, Revoke, TypeOK
    <2>2. faults' \in Nat
        BY <1>0, <1>1 DEF Expire, Revoke, TypeOK, Strike
    <2>3. TypeOK'
        BY <1>0, <2>1, <2>2 DEF TypeOK, storeVars, workVars
    <2> QED BY <2>1, <2>3 DEF IInv, LockInv, IssuedInv, BadInv, FileInv, ChainInv,
                            Known, CliTokens, Locked, FileLocked, storeVars, workVars
<1>2. CASE \E p \in Process : MinutePasses(p) \/ Handover(p)
    <2>1. UNCHANGED <<disk, credential, loaded, problem, workVars, issuerVars, cli, faults>>
        BY <1>2 DEF MinutePasses, Handover, storeVars
    <2>2. rejected' \in [Process -> Nat] /\ writes' \in [Process -> BOOLEAN]
        <3>1. CASE \E p \in Process : MinutePasses(p)
            BY <1>0, <3>1 DEF MinutePasses, TypeOK
        <3>2. CASE \E p \in Process : Handover(p)
            BY <1>0, <3>2 DEF Handover, TypeOK, storeVars
        <3> QED BY <1>2, <3>1, <3>2
    <2>3. TypeOK'
        BY <1>0, <2>1, <2>2 DEF TypeOK, workVars, issuerVars
    <2> QED BY <2>1, <2>3 DEF IInv, LockInv, IssuedInv, BadInv, FileInv, ChainInv,
                            Known, CliTokens, Locked, FileLocked, workVars, issuerVars
<1>3. CASE UNCHANGED vars
    <2>1. UNCHANGED <<disk, credential, loaded, rejected, problem, writes, pc, sent, issued,
                      fresh, accepted, redeemable, orphaned, cli, faults>>
        BY <1>3 DEF vars, storeVars, workVars, issuerVars
    <2>2. TypeOK' /\ LockInv' /\ IssuedInv'
        BY <2>1 DEF IInv, TypeOK, LockInv, IssuedInv, Locked, FileLocked
    <2>3. BadInv' /\ FileInv' /\ ChainInv'
        BY <2>1 DEF IInv, BadInv, FileInv, ChainInv, Known, CliTokens
    <2> QED BY <2>2, <2>3 DEF IInv
<1> QED BY <1>1, <1>2, <1>3
-----------------------------------------------------------------------------
(* Being marked signed out.                                                *)

Cause(p) ==
    ~problem[p] /\ problem'[p] =>
        \/ credential'[p].access \notin accepted
        \/ \E t \in Thread : t[1] = p /\ pc[t] = "save"

\* A step of t whose failure marks its process.
LEMMA Marks ==
    ASSUME TypeOK, NEW t \in Thread, NEW c \in Credential
    PROVE  /\ Refreshed(t, c) => \A p \in Process : problem'[p] => problem[p]
           /\ NotRefreshed(t) => /\ \A p \in Process \ {t[1]} : problem'[p] = problem[p]
                                 /\ problem'[t[1]] => problem[t[1]] \/ Reauthorizes(t)
<1>0. t[1] \in Process
    BY Processes
<1>1. ASSUME Refreshed(t, c), NEW p \in Process, problem'[p] PROVE problem[p]
    <2>1. CASE Reauthorizes(t)
        <3>1. problem' = [problem EXCEPT ![t[1]] = FALSE]
            BY <1>1, <2>1 DEF Refreshed
        <3> QED BY <1>0, <1>1, <3>1 DEF TypeOK
    <2>2. CASE ~Reauthorizes(t)
        BY <1>1, <2>2 DEF Refreshed
    <2> QED BY <2>1, <2>2
<1>2. ASSUME NotRefreshed(t)
      PROVE  /\ \A p \in Process \ {t[1]} : problem'[p] = problem[p]
             /\ problem'[t[1]] => problem[t[1]] \/ Reauthorizes(t)
    <2>1. problem' = [problem EXCEPT ![t[1]] = @ \/ Reauthorizes(t)]
        BY <1>2 DEF NotRefreshed
    <2> QED BY <1>0, <2>1 DEF TypeOK
<1> QED BY <1>1, <1>2

LEMMA CauseStep ==
    ASSUME IInv, [Next]_vars
    PROVE  \A p \in Process : Cause(p)
<1>0. TypeOK /\ BadInv /\ FileInv
    BY DEF IInv
<1>1. ASSUME NEW t \in Thread, CredentialFor(t) \/ Work(t) PROVE \A p \in Process : Cause(p)
    <2> DEFINE q == t[1]
    <2>0. q \in Process /\ disk \in Credential /\ credential[q] \in Credential
        BY <1>0, Processes DEF TypeOK
    <2>1. CASE CredentialFor(t)
        <3>1. problem' = [problem EXCEPT ![q] = @ /\ ~(~loaded[q] \/ ~writes[q])]
            BY <2>1 DEF CredentialFor
        <3>2. \A p \in Process : problem'[p] => problem[p]
            BY <1>0, <2>0, <3>1 DEF TypeOK
        <3> QED BY <3>2 DEF Cause
    <2>2. CASE MayRefresh(t) \/ Send(t) \/ Resend(t) \/ RefreshRejected(t)
        <3>1. UNCHANGED problem
            BY <2>2 DEF MayRefresh, Send, Resend, RefreshRejected, storeVars
        <3> QED BY <3>1 DEF Cause
    <2>3. CASE RefreshLocked(t)
        <3>1. CASE Refreshed(t, disk)
            BY <1>0, <2>0, <3>1, Marks DEF Cause
        <3>2. CASE UNCHANGED problem
            BY <3>2 DEF Cause
        <3>3. CASE NotRefreshed(t) /\ UNCHANGED credential
            <4>1. credential'[q].access \notin accepted
                BY <1>0, <2>3, <3>3 DEF RefreshLocked, BadInv
            <4> QED BY <1>0, <2>0, <3>3, <4>1, Marks DEF Cause
        <3> QED BY <2>3, <3>1, <3>2, <3>3 DEF RefreshLocked
    <2>4. CASE Redeem(t)
        <3>1. CASE NotRefreshed(t) /\ UNCHANGED credential
            <4>1. credential'[q].access \notin accepted
                BY <1>0, <2>4, <3>1 DEF Redeem, BadInv, FileInv
            <4> QED BY <1>0, <2>0, <3>1, <4>1, Marks DEF Cause
        <3>2. CASE UNCHANGED problem
            BY <3>2 DEF Cause
        <3> QED BY <2>4, <3>1, <3>2 DEF Redeem
    <2>5. CASE Save(t)
        <3>1. CASE Refreshed(t, credential[q])
            BY <1>0, <2>0, <3>1, Marks DEF Cause
        <3>2. CASE NotRefreshed(t) /\ pc[t] = "save"
            BY <1>0, <2>0, <3>2, Marks DEF Cause
        <3> QED BY <2>5, <3>1, <3>2 DEF Save
    <2>6. CASE Refused(t)
        <3>1. /\ sent[t].access \notin accepted /\ UNCHANGED credential
              /\ problem' = [problem EXCEPT ![q] =
                                 @ \/ credential[q].access = sent[t].access]
            BY <2>6 DEF Refused
        <3>2. /\ \A p \in Process \ {q} : problem'[p] = problem[p]
              /\ problem'[q] => problem[q] \/ credential[q].access = sent[t].access
            BY <1>0, <2>0, <3>1 DEF TypeOK
        <3> QED BY <2>0, <3>1, <3>2 DEF Cause
    <2> QED BY <1>1, <2>1, <2>2, <2>3, <2>4, <2>5, <2>6 DEF Work
<1>2. ASSUME NEW q \in Process, problem' = [problem EXCEPT ![q] = FALSE]
      PROVE  \A p \in Process : Cause(p)
    BY <1>0, <1>2 DEF TypeOK, Cause
<1>3. ASSUME UNCHANGED problem PROVE \A p \in Process : Cause(p)
    BY <1>3 DEF Cause
<1>4. ASSUME NEW p \in Process,
             \/ (\E a \in Account : SignIn(p, a)) \/ (\E c \in cli : Import(p, c))
             \/ MinutePasses(p) \/ Handover(p) \/ Restart(p)
      PROVE  \A q \in Process : Cause(q)
    <2>1. problem' = [problem EXCEPT ![p] = FALSE] \/ UNCHANGED problem
        BY <1>4 DEF SignIn, Import, TakeUp, MinutePasses, Handover, Restart, storeVars
    <2> QED BY <1>2, <1>3, <2>1
<1>5. ASSUME \/ \E a \in Account : CliSignsIn(a)
             \/ \E c \in cli : CliRefreshes(c)
             \/ \E a \in 1..MaxGrants : Expire(a) \/ Revoke(a)
             \/ UNCHANGED vars
      PROVE  \A p \in Process : Cause(p)
    BY <1>3, <1>5 DEF CliSignsIn, CliRefreshes, Expire, Revoke, vars, storeVars
<1> QED BY <1>1, <1>4, <1>5 DEF Next
-----------------------------------------------------------------------------
LEMMA InitIInv == Init => IInv
<1> SUFFICES ASSUME Init PROVE IInv
    OBVIOUS
<1>1. PICK a \in Account : disk = Grant(1, 1, a)
    BY DEF Init
<1>2. disk \in Credential /\ disk.access = 1 /\ disk.refresh = 1
    BY <1>1, GrantType
<1>3. TypeOK
    BY <1>2, NoneType DEF Init, TypeOK, Pc
<1>4. IssuedInv
    BY <1>2, NoneType DEF Init, IssuedInv
<1>5. LockInv /\ BadInv /\ FileInv /\ ChainInv
    BY <1>2 DEF Init, LockInv, BadInv, FileInv, ChainInv, Known, CliTokens, Locked, FileLocked
<1> QED BY <1>3, <1>4, <1>5 DEF IInv

LEMMA Step == IInv /\ [Next]_vars => IInv'
<1> SUFFICES ASSUME IInv, [Next]_vars PROVE IInv'
    OBVIOUS
<1>1. ASSUME NEW t \in Thread, CredentialFor(t) \/ Work(t) PROVE IInv'
    BY <1>1, CredentialForStep, MayRefreshStep, RefreshLockedStep, RedeemStep, SaveStep,
       SendStep, RefreshRejectedStep, RefusedStep DEF Work
<1>2. ASSUME NEW p \in Process, NEW a \in Account, SignIn(p, a) PROVE IInv'
    BY <1>2, SignInStep
<1>3. ASSUME NEW p \in Process, NEW c \in cli, Import(p, c) PROVE IInv'
    BY <1>3, ImportStep
<1>4. ASSUME (\E a \in Account : CliSignsIn(a)) \/ \E c \in cli : CliRefreshes(c) PROVE IInv'
    BY <1>4, CliStep
<1>5. ASSUME NEW p \in Process, Restart(p) PROVE IInv'
    BY <1>5, RestartStep
<1> QED BY <1>1, <1>2, <1>3, <1>4, <1>5, OutsideStep DEF Next

LEMMA Invariance == Spec => []IInv
BY InitIInv, Step, PTL DEF Spec

(* Tokens, credentials and the places of the workers are what the          *)
(* declarations say.                                                       *)
THEOREM TypeCorrect == Spec => []TypeOK
<1>1. IInv => TypeOK
    BY DEF IInv
<1> QED BY Invariance, <1>1, PTL

(* Of any number of workers and processes that meet a bad token one        *)
(* refreshes it, and no rotated refresh token is presented again unless a  *)
(* fault kept its successor from the file (codex_auth.go).                 *)
THEOREM NoReuse == Spec => []RedeemedOnce
<1>1. IInv => RedeemedOnce
    <2>1. ASSUME IInv, NEW t \in Thread, pc[t] = "redeem"
          PROVE  \A u \in Thread : pc[u] # "save"
        BY <2>1 DEF IInv, LockInv, FileLocked
    <2> QED BY <2>1 DEF IInv, BadInv, FileInv, ChainInv, Known, CliTokens, RedeemedOnce
<1> QED BY Invariance, <1>1, PTL

(* A refresh never writes the credential of one account over a sign-in to  *)
(* another (codex_auth.go).                                                *)
THEOREM SignInKept == Spec => []SignInSticks
<1>1. IInv => SignInSticks
    BY DEF IInv, FileInv, SignInSticks
<1> QED BY Invariance, <1>1, PTL

(* A process marks the connection signed out only while the credential it  *)
(* works with is refused or could not be saved (codex_auth.go).            *)
THEOREM SignedOutWithCause == Spec => SignedOutForCause
<1>1. IInv /\ [Next]_vars =>
          [\A p \in Process : ~problem[p] /\ problem'[p] =>
              \/ credential'[p].access \notin accepted
              \/ \E t \in Thread : t[1] = p /\ pc[t] = "save"]_vars
    BY CauseStep DEF Cause
<1> QED BY Invariance, <1>1, PTL DEF Spec, SignedOutForCause
=============================================================================
