-------------------------- MODULE ConversationProofs --------------------------
(* Proofs about Routing and about CodexTurn: to which member of a pool the  *)
(* requests of a session go, and what a conversation with Codex is to the   *)
(* client and to its upstreams.  For any pool, any sessions, any finite set *)
(* of requests, any accounts and any bounds.                                *)
EXTENDS Routing, MCCodexTurn, SequenceTheorems, FiniteSetTheorems, TLAPS

-----------------------------------------------------------------------------
(* Induction, over numbers and over lists: the sets it is about are given   *)
(* as sets, since a theorem about an operator cannot be used.  It comes     *)
(* from the order of the finite sets.                                       *)

\* A set of numbers that is not empty has a least one.
LEMMA Least == ASSUME NEW T, T \subseteq Nat, T # {} PROVE \E x \in T : \A y \in T : x <= y
<1> DEFINE Upto(k) == T \cap 0..k
           S == {Upto(k) : k \in T}
           R == StrictSubsetOrdering(Nat)
<1>1. IsWellFoundedOn(R, FiniteSubsetsOf(Nat))
    BY FS_StrictSubsetOrderingWellFounded
<1>2. \A k \in T : IsFiniteSet(0..k)
    BY FS_Interval
<1>3. \A k \in T : IsFiniteSet(Upto(k))
    BY <1>2, FS_Subset
<1>4. S \subseteq FiniteSubsetsOf(Nat) /\ S # {}
    BY <1>3 DEF FiniteSubsetsOf
<1>5. PICK U \in S : \A V \in S : <<V, U>> \notin R
    <2> HIDE DEF S, R
    <2> QED BY <1>1, <1>4, WFMin
<1>6. PICK k \in T : U = Upto(k)
    BY <1>5
<1>7. ASSUME NEW j \in T, j < k PROVE FALSE
    <2>1. Upto(j) \in S
        OBVIOUS
    <2>2. Upto(j) \subseteq Upto(k) /\ k \in Upto(k) /\ k \notin Upto(j)
        BY <1>7
    <2>3. <<Upto(j), U>> \in R
        BY <2>2, <1>6 DEF StrictSubsetOrdering
    <2> QED BY <1>5, <2>1, <2>3
<1> QED BY <1>7

\* A set that holds zero and the successor of each number it holds.
LEMMA NumberInduction ==
    ASSUME NEW T, 0 \in T, \A n \in Nat : n \in T => n + 1 \in T
    PROVE  Nat \subseteq T
<1> SUFFICES ASSUME NEW m \in Nat, m \notin T PROVE FALSE
    OBVIOUS
<1>1. PICK x \in Nat \ T : \A y \in Nat \ T : x <= y
    BY Least
<1>2. x # 0 /\ x - 1 \in Nat /\ x - 1 \in T
    BY <1>1
<1> QED BY <1>1, <1>2

\* A set that holds the empty list and what one element more makes of a list it holds.
LEMMA ListInduction ==
    ASSUME NEW S, NEW T, <<>> \in T, \A s \in Seq(S), e \in S : s \in T => Append(s, e) \in T
    PROVE  Seq(S) \subseteq T
<1> DEFINE U == {n \in Nat : \A s \in Seq(S) : Len(s) = n => s \in T}
<1>1. 0 \in U
    BY EmptySeq
<1>2. ASSUME NEW n \in Nat, n \in U PROVE n + 1 \in U
    <2>1. ASSUME NEW s \in Seq(S), Len(s) = n + 1 PROVE s \in T
        <3>1. s # <<>>
            BY <2>1
        <3>2. PICK f \in Seq(S), e \in S : s = Append(f, e)
            BY <3>1, SequenceEmptyOrAppend
        <3>3. Len(f) = n
            BY <3>2, <2>1, AppendProperties, LenProperties
        <3> QED BY <1>2, <3>2, <3>3
    <2> QED BY <2>1
<1> HIDE DEF U
<1>3. Nat \subseteq U
    BY <1>1, <1>2, NumberInduction, SMTT(40)
<1> USE DEF U
<1> QED BY <1>3, LenProperties

\* The recursion of Only is one.
LEMMA OnlyIs ==
    ASSUME NEW S, NEW s \in Seq(S), NEW X
    PROVE  \E g : /\ g = [n \in 0..Len(s) |->
                            IF n = 0 THEN <<>>
                            ELSE IF s[n] \in X THEN Append(g[n - 1], s[n]) ELSE g[n - 1]]
                  /\ Only(s, X) = g[Len(s)]
<1> DEFINE Is(g, m) == g = [n \in 0..m |->
                              IF n = 0 THEN <<>>
                              ELSE IF s[n] \in X THEN Append(g[n - 1], s[n]) ELSE g[n - 1]]
           T == {m \in Nat : \E g : Is(g, m)}
<1>1. 0 \in T
    <2> DEFINE g == [n \in 0..0 |-> <<>>]
    <2>1. Is(g, 0)
        OBVIOUS
    <2> QED BY <2>1
<1>2. ASSUME NEW m \in Nat, m \in T PROVE m + 1 \in T
    <2>1. PICK g : Is(g, m)
        BY <1>2
    <2> DEFINE h == [n \in 0..(m + 1) |->
                       IF n = m + 1 THEN (IF s[n] \in X THEN Append(g[m], s[n]) ELSE g[m]) ELSE g[n]]
    <2>2. Is(h, m + 1)
        <3>1. \A n \in 0..(m + 1) : n = m + 1 \/ n \in 0..m
            OBVIOUS
        <3>2. \A n \in 0..m : h[n] = g[n]
            OBVIOUS
        <3>3. \A n \in 0..(m+1) : h[n] = IF n = 0 THEN <<>>
                              ELSE IF s[n] \in X THEN Append(h[n - 1], s[n]) ELSE h[n - 1]
            <4> TAKE n \in 0..(m+1)
            <4>1. CASE n = m + 1
                BY <4>1, <3>2
            <4>2. CASE n # m + 1 
                <5>1. n \in 0..m /\ (n # 0 => n - 1 \in 0..m)
                    BY <4>2
                <5>2. g[n] = IF n = 0 THEN <<>>
                              ELSE IF s[n] \in X THEN Append(g[n - 1], s[n]) ELSE g[n - 1]
                    BY <5>1, <2>1
                <5> QED BY <5>1, <5>2, <3>2, <4>2
            <4> QED BY <4>1, <4>2
        <3> QED BY <3>3
    <2> HIDE DEF Is, h
    <2> QED BY <2>2
<1>3. Len(s) \in T
    <2> HIDE DEF T
    <2> QED BY <1>1, <1>2, NumberInduction, LenProperties
<1>4. PICK f : Is(f, Len(s))
    BY <1>3
<1> DEFINE c == CHOOSE g : Is(g, Len(s))
<1>5. Is(c, Len(s))
    <2> HIDE DEF Is
    <2> QED BY <1>4
<1>6. Only(s, X) = c[Len(s)]
    BY DEF Only
<1> QED BY <1>5, <1>6, Zenon

LEMMA OnlyEmpty == ASSUME NEW X PROVE Only(<<>>, X) = <<>>
<1>1. <<>> \in Seq({}) /\ Len(<<>>) = 0
    BY EmptySeq
<1>2. PICK g : /\ g = [n \in 0..Len(<<>>) |->
                         IF n = 0 THEN <<>>
                         ELSE IF <<>>[n] \in X THEN Append(g[n - 1], <<>>[n]) ELSE g[n - 1]]
               /\ Only(<<>>, X) = g[Len(<<>>)]
    BY <1>1, OnlyIs
<1>3. g[0] = <<>>
    BY <1>1, <1>2
<1> QED BY <1>1, <1>2, <1>3

LEMMA OnlyAppend ==
    ASSUME NEW S, NEW s \in Seq(S), NEW e \in S, NEW X
    PROVE  Only(Append(s, e), X) = IF e \in X THEN Append(Only(s, X), e) ELSE Only(s, X)
<1> DEFINE t == Append(s, e)
           Is(g, u) == g = [n \in 0..Len(u) |->
                              IF n = 0 THEN <<>>
                              ELSE IF u[n] \in X THEN Append(g[n - 1], u[n]) ELSE g[n - 1]]
<1>1. /\ t \in Seq(S) /\ Len(t) = Len(s) + 1 /\ t[Len(t)] = e /\ Len(s) \in Nat
      /\ \A n \in 1..Len(s) : t[n] = s[n]
    BY AppendProperties, LenProperties
<1>2. PICK f : Is(f, s) /\ Only(s, X) = f[Len(s)]
    BY OnlyIs
<1>3. PICK g : Is(g, t) /\ Only(t, X) = g[Len(t)]
    BY <1>1, OnlyIs
<1> HIDE DEF t
<1>4. \A n \in 0..Len(s) : f[n] = g[n]
    <2> DEFINE T == {n \in Nat : n \in 0..Len(s) => f[n] = g[n]}
    <2>1. 0 \in T
        BY <1>1, <1>2, <1>3
    <2>2. ASSUME NEW n \in Nat, n \in T, n + 1 \in 0..Len(s) PROVE f[n + 1] = g[n + 1]
        <3>1. n \in 0..Len(s) /\ n + 1 \in 1..Len(s) /\ n + 1 \in 0..Len(t) /\ n + 1 # 0 /\ (n + 1) - 1 = n
            BY <1>1, <2>2
        <3>2. f[n + 1] = IF s[n + 1] \in X THEN Append(f[n], s[n + 1]) ELSE f[n]
            BY <1>2, <2>2, <3>1
        <3>3. g[n + 1] = IF t[n + 1] \in X THEN Append(g[n], t[n + 1]) ELSE g[n]
            BY <1>3, <3>1
        <3> QED BY <1>1, <2>2, <3>1, <3>2, <3>3
    <2>3. \A n \in Nat : n \in T => n + 1 \in T
        BY <2>2
    <2> HIDE DEF T
    <2>4. Nat \subseteq T
        BY <2>1, <2>3, NumberInduction
    <2> USE DEF T
    <2> QED BY <2>4, <1>1
<1>5. g[Len(t)] = IF e \in X THEN Append(g[Len(s)], e) ELSE g[Len(s)]
    <2>1. Len(t) \in 0..Len(t) /\ Len(t) # 0 /\ Len(t) - 1 = Len(s)
        BY <1>1
    <2> QED BY <1>1, <1>3, <2>1
<1>6. f[Len(s)] = g[Len(s)]
    BY <1>1, <1>4
<1> QED BY <1>2, <1>3, <1>5, <1>6 DEF t

\* What Only keeps.
LEMMA OnlySet ==
    ASSUME NEW S, NEW s \in Seq(S), NEW X
    PROVE  Only(s, X) \in Seq(S \cap X) /\ ToSet(Only(s, X)) = ToSet(s) \cap X
<1> DEFINE T == {u \in Seq(S) : Only(u, X) \in Seq(S \cap X) /\ ToSet(Only(u, X)) = ToSet(u) \cap X}
<1>1. <<>> \in T
    <2>1. ToSet(<<>>) = {} /\ <<>> \in Seq(S) /\ <<>> \in Seq(S \cap X)
        BY DEF ToSet
    <2> QED BY <2>1, OnlyEmpty
<1>2. \A R, u, e : u \in Seq(R) => ToSet(Append(u, e)) = ToSet(u) \cup {e}
    BY AppendProperties, LenProperties DEF ToSet
<1>3. ASSUME NEW u \in Seq(S), NEW e \in S, u \in T PROVE Append(u, e) \in T
    <2>1. Append(u, e) \in Seq(S)
        BY AppendProperties
    <2>2. ToSet(Append(u, e)) = ToSet(u) \cup {e} /\ ToSet(Append(Only(u, X), e)) = ToSet(Only(u, X)) \cup {e}
        BY <1>2, <1>3
    <2>3. CASE e \in X
        <3>1. Only(Append(u, e), X) = Append(Only(u, X), e)
            BY <2>3, OnlyAppend
        <3>2. Append(Only(u, X), e) \in Seq(S \cap X)
            BY <1>3, <2>3, AppendProperties
        <3> QED BY <1>3, <2>1, <2>2, <2>3, <3>1, <3>2
    <2>4. CASE e \notin X
        BY <1>3, <2>1, <2>2, <2>4, OnlyAppend
    <2> QED BY <2>3, <2>4
<1> HIDE DEF T
<1>4. Seq(S) \subseteq T
    BY <1>1, <1>3, ListInduction
<1> USE DEF T
<1> QED BY <1>4

\* Only of what follows comes after.
LEMMA OnlyConcat ==
    ASSUME NEW S, NEW s \in Seq(S), NEW t \in Seq(S), NEW X
    PROVE  Only(s \o t, X) = Only(s, X) \o Only(t, X)
<1> DEFINE T == {u \in Seq(S) : Only(s \o u, X) = Only(s, X) \o Only(u, X)}
<1>1. \A u \in Seq(S) : Only(u, X) \in Seq(S)
    <2>1. \A u \in Seq(S) : Only(u, X) \in Seq(S \cap X)
        BY OnlySet
    <2> QED BY <2>1, SeqMonotonic
<1>2. <<>> \in T
    BY <1>1, OnlyEmpty, EmptySeq, ConcatEmptySeq
<1>3. ASSUME NEW u \in Seq(S), NEW e \in S, u \in T PROVE Append(u, e) \in T
    <2>1. Append(u, e) \in Seq(S) /\ s \o u \in Seq(S)
        BY AppendProperties, ConcatProperties
    <2>2. s \o Append(u, e) = Append(s \o u, e)
        BY <2>1
    <2>3. Append(Only(s, X) \o Only(u, X), e) = Only(s, X) \o Append(Only(u, X), e)
        <3>1. Only(s, X) \in Seq(S) /\ Only(u, X) \in Seq(S)
            BY <1>1
        <3>2. \A a, b \in Seq(S) : Append(a \o b, e) = a \o Append(b, e)
            <4> TAKE a \in Seq(S), b \in Seq(S)
            <4>1. a \o b \in Seq(S) /\ <<e>> \in Seq(S)
                BY ConcatProperties
            <4>2. Append(a \o b, e) = (a \o b) \o <<e>> /\ Append(b, e) = b \o <<e>>
                BY <4>1, AppendIsConcat
            <4>3. (a \o b) \o <<e>> = a \o (b \o <<e>>)
                BY <4>1, ConcatAssociative, SMTT(40)
            <4> QED BY <4>2, <4>3
        <3> QED BY <3>1, <3>2
    <2>4. Only(Append(u, e), X) = (IF e \in X THEN Append(Only(u, X), e) ELSE Only(u, X))
        BY OnlyAppend
    <2>5. Only(Append(s \o u, e), X) = (IF e \in X THEN Append(Only(s \o u, X), e) ELSE Only(s \o u, X))
        BY <2>1, OnlyAppend
    <2> QED BY <1>3, <2>1, <2>2, <2>3, <2>4, <2>5
<1> HIDE DEF T
<1>4. Seq(S) \subseteq T
    BY <1>2, <1>3, ListInduction
<1> USE DEF T
<1> QED BY <1>4
-----------------------------------------------------------------------------
(* Lists.                                                                   *)

LEMMA Chain ==
    ASSUME NEW S, NEW s \in Seq(S), NEW t \in Seq(S)
    PROVE  /\ s \o t \in Seq(S) /\ ToSet(s \o t) = ToSet(s) \cup ToSet(t)
           /\ s # <<>> => Head(s \o t) = Head(s)
           /\ s = <<>> => s \o t = t
<1>1. s \o t \in Seq(S) /\ Len(s \o t) = Len(s) + Len(t) /\ Len(s) \in Nat /\ Len(t) \in Nat
      /\ \A i \in 1..Len(s) + Len(t) : (s \o t)[i] = IF i <= Len(s) THEN s[i] ELSE t[i - Len(s)]
    BY ConcatProperties, LenProperties
<1>2. DOMAIN s = 1..Len(s) /\ DOMAIN t = 1..Len(t) /\ DOMAIN (s \o t) = 1..Len(s) + Len(t)
    BY <1>1, LenProperties
<1>3. ToSet(s \o t) \subseteq ToSet(s) \cup ToSet(t)
    BY <1>1, <1>2 DEF ToSet
<1>4. \A i \in 1..Len(t) : (s \o t)[i + Len(s)] = t[i] /\ i + Len(s) \in 1..Len(s) + Len(t)
    BY <1>1
<1>5. \A i \in 1..Len(s) : (s \o t)[i] = s[i] /\ i \in 1..Len(s) + Len(t)
    BY <1>1
<1>6. ToSet(s) \cup ToSet(t) \subseteq ToSet(s \o t)
    BY <1>2, <1>4, <1>5 DEF ToSet
<1>7. s # <<>> => Head(s \o t) = Head(s)
    BY <1>1, HeadTailProperties, EmptySeq
<1> QED BY <1>1, <1>3, <1>6, <1>7, ConcatEmptySeq

LEMMA OneMore ==
    ASSUME NEW S, NEW s \in Seq(S), NEW e \in S
    PROVE  /\ Append(s, e) \in Seq(S) /\ ToSet(Append(s, e)) = ToSet(s) \cup {e}
           /\ <<e>> \o s \in Seq(S) /\ Head(<<e>> \o s) = e /\ ToSet(<<e>> \o s) = ToSet(s) \cup {e}
<1>1. <<e>> \in Seq(S) /\ Head(<<e>>) = e /\ <<e>> # <<>> /\ ToSet(<<e>>) = {e}
    BY DEF ToSet
<1>2. Append(s, e) = s \o <<e>>
    BY AppendIsConcat
<1>3. \A a, b \in Seq(S) : /\ a \o b \in Seq(S) /\ ToSet(a \o b) = ToSet(a) \cup ToSet(b)
                           /\ a # <<>> => Head(a \o b) = Head(a)
    BY Chain
<1>4. s \o <<e>> \in Seq(S) /\ ToSet(s \o <<e>>) = ToSet(s) \cup ToSet(<<e>>)
    BY <1>3, <1>1
<1>5. /\ <<e>> \o s \in Seq(S) /\ ToSet(<<e>> \o s) = ToSet(<<e>>) \cup ToSet(s)
      /\ Head(<<e>> \o s) = Head(<<e>>)
    BY <1>3, <1>1
<1> QED BY <1>1, <1>2, <1>4, <1>5

LEMMA ListFacts ==
    ASSUME NEW S
    PROVE  /\ \A s \in Seq(S) : s # <<>> => Head(s) \in ToSet(s) /\ Tail(s) \in Seq(S) /\ ToSet(s) \subseteq S
           /\ \A s \in Seq(S) : s = <<>> <=> ToSet(s) = {}
           /\ \A s \in Seq(S) : IsFiniteSet(ToSet(s))
           /\ \A s, t \in Seq(S) : /\ s \o t \in Seq(S) /\ ToSet(s \o t) = ToSet(s) \cup ToSet(t)
                                   /\ s # <<>> => Head(s \o t) = Head(s)
                                   /\ s = <<>> => s \o t = t
<1>1. ASSUME NEW s \in Seq(S) PROVE s # <<>> => Head(s) \in ToSet(s) /\ Tail(s) \in Seq(S) /\ ToSet(s) \subseteq S
    BY <1>1, HeadTailProperties, LenProperties DEF ToSet
<1>2. ASSUME NEW s \in Seq(S) PROVE s = <<>> <=> ToSet(s) = {}
    <2>1. s # <<>> => ToSet(s) # {}
        BY <1>1
    <2>2. ToSet(<<>>) = {}
        BY DEF ToSet
    <2> QED BY <2>1, <2>2
<1>3. ASSUME NEW s \in Seq(S) PROVE IsFiniteSet(ToSet(s))
    <2>1. IsFiniteSet(1..Len(s)) /\ DOMAIN s = 1..Len(s)
        BY FS_Interval, LenProperties
    <2>2. s \in Surjection(1..Len(s), ToSet(s))
        <3>1. s \in [1..Len(s) -> ToSet(s)]
            BY <2>1, LenProperties DEF ToSet
        <3>2. \A x \in ToSet(s) : \E i \in 1..Len(s) : s[i] = x
            BY <2>1 DEF ToSet
        <3> QED BY <3>1, <3>2 DEF Surjection
    <2> QED BY <2>1, <2>2, FS_Surjection DEF ExistsSurjection
<1> QED BY <1>1, <1>2, <1>3, Chain

-----------------------------------------------------------------------------
Busy == {"trying", "streaming"}
On(m) == {r \in Request : pc[r] \in Busy /\ Current(r) = m}

Steps == {"idle", "look", "sort", "ask", "ready", "trying", "streaming", "failed", "lost"}

ShapeOK ==
    /\ bound = [s \in Session |-> bound[s]]
    /\ inflight \in [Member -> Nat]
    /\ pc \in [Request -> Steps]
    /\ session \in [Request -> Session \cup {None}]
    /\ list = [r \in Request |-> list[r]]

\* A bound session has its place in the order of the table.
OrderInv == \A s \in Session : bound[s] # None => s \in ToSet(recent)

IInv == ShapeOK /\ OrderInv /\ InflightExact

LEMMA OnFinite == ASSUME NEW m PROVE IsFiniteSet(On(m))
<1>1. On(m) \in SUBSET Request
    BY DEF On
<1> QED BY <1>1, RequestAssumption, FS_Subset

LEMMA CountsOn == InflightExact <=> \A m \in Member : inflight[m] = Cardinality(On(m))
BY DEF InflightExact, On, Busy
-----------------------------------------------------------------------------
(* The counts, by what a step does with the member of its request.          *)

\* Nobody is acquired or released.
LEMMA Still ==
    ASSUME InflightExact, UNCHANGED inflight,
           \A q \in Request : /\ pc'[q] \in Busy <=> pc[q] \in Busy
                              /\ pc[q] \in Busy => list'[q] = list[q]
    PROVE  InflightExact'
<1>1. \A m : On(m)' = On(m)
    BY DEF On, Current
<1> QED BY <1>1 DEF InflightExact, On, Busy

LEMMA Taken ==
    ASSUME ShapeOK, InflightExact, NEW r \in Request, pc[r] = "ready",
           pc' = [pc EXCEPT ![r] = "trying"], UNCHANGED list,
           inflight' = [inflight EXCEPT ![Current(r)] = @ + 1]
    PROVE  InflightExact'
<1>1. \A m : On(m)' = IF m = Current(r) THEN On(m) \cup {r} ELSE On(m)
    BY DEF On, Current, Busy, ShapeOK
<1>2. r \notin On(Current(r))
    BY DEF On, Busy
<1>3. ASSUME NEW m \in Member PROVE inflight'[m] = Cardinality(On(m)')
    <2>1. inflight[m] = Cardinality(On(m)) /\ inflight[m] \in Nat
        BY CountsOn DEF ShapeOK
    <2>2. CASE m = Current(r)
        <3>1. Cardinality(On(m) \cup {r}) = Cardinality(On(m)) + 1
            BY <1>2, <2>2, OnFinite, FS_AddElement
        <3>2. inflight'[m] = inflight[m] + 1
            BY <2>2 DEF ShapeOK
        <3> QED BY <1>1, <2>1, <2>2, <3>1, <3>2
    <2>3. CASE m # Current(r)
        BY <1>1, <2>1, <2>3 DEF ShapeOK
    <2> QED BY <2>2, <2>3
<1> QED BY <1>3 DEF InflightExact, On, Busy

LEMMA Released ==
    ASSUME ShapeOK, InflightExact, NEW r \in Request, pc[r] \in Busy, Release(r),
           NEW l, l \notin Busy, pc' = [pc EXCEPT ![r] = l],
           \A q \in Request \ {r} : list'[q] = list[q]
    PROVE  InflightExact'
<1>1. \A m : On(m)' = IF m = Current(r) THEN On(m) \ {r} ELSE On(m)
    BY DEF On, Current, ShapeOK
<1>2. r \in On(Current(r))
    BY DEF On
<1>3. ASSUME NEW m \in Member PROVE inflight'[m] = Cardinality(On(m)')
    <2>1. inflight[m] = Cardinality(On(m)) /\ inflight[m] \in Nat
        BY CountsOn DEF ShapeOK
    <2>2. CASE m = Current(r)
        <3>1. Cardinality(On(m) \ {r}) = Cardinality(On(m)) - 1
            BY <1>2, <2>2, OnFinite, FS_RemoveElement
        <3>2. Cardinality(On(m)) # 0
            BY <1>2, <2>2, OnFinite, FS_EmptySet
        <3>3. inflight'[m] = inflight[m] - 1
            BY <2>1, <2>2, <3>2 DEF ShapeOK, Release
        <3> QED BY <1>1, <2>1, <2>2, <3>1, <3>3
    <2>3. CASE m # Current(r)
        BY <1>1, <2>1, <2>3 DEF ShapeOK, Release
    <2> QED BY <2>2, <2>3
<1> QED BY <1>3 DEF InflightExact, On, Busy
-----------------------------------------------------------------------------
(* The table.                                                               *)

LEMMA StoreOrder ==
    ASSUME NEW table, NEW order, NEW old, Store(table, order, old)
    PROVE  OrderInv' /\ bound' = [s \in Session |-> bound'[s]]
BY DEF Store, OrderInv

LEMMA MoveSessionOrder ==
    ASSUME ShapeOK, OrderInv, NEW s, NEW from, NEW to, MoveSession(s, from, to)
    PROVE  OrderInv' /\ bound' = [x \in Session |-> bound'[x]]
<1>1. CASE s # None /\ bound[s] = from
    BY <1>1, StoreOrder DEF MoveSession
<1>2. CASE ~(s # None /\ bound[s] = from)
    BY <1>2 DEF MoveSession, tableVars, ShapeOK, OrderInv
<1> QED BY <1>1, <1>2

LEMMA BindOrder ==
    ASSUME ShapeOK, OrderInv, NEW r \in Request, NEW s \in Session \cup {None}, Bind(r, s)
    PROVE  OrderInv' /\ bound' = [x \in Session |-> bound'[x]]
<1>1. CASE s = None
    BY <1>1 DEF Bind, tableVars, ShapeOK, OrderInv
<1>2. ASSUME NEW chosen, BindCandidates(s, Candidates(r), Cooled(r), chosen)
      PROVE  OrderInv' /\ bound' = [x \in Session |-> bound'[x]]
    BY <1>2, StoreOrder DEF BindCandidates
<1> QED BY <1>1, <1>2 DEF Bind
-----------------------------------------------------------------------------
\* Only a step of these four kinds changes the table.
LEMMA TableStep ==
    ASSUME [Next]_vars
    PROVE  \/ UNCHANGED <<bound, recent>>
           \/ \E r \in Request : Move(r) \/ \E s \in Session \cup {None} : Bind(r, s)
           \/ ClearSessions
BY DEF Next, Step, Look, Sort, Ask, Acquire, Answer, Fail, Leave, Break, Finish, Failed, Tick, Recover,
       ProbeFails, SignInOrOut, Age, tableVars, vars

LEMMA OrderStep ==
    ASSUME ShapeOK, OrderInv, [Next]_vars
    PROVE  OrderInv' /\ bound' = [s \in Session |-> bound'[s]]
<1>1. CASE UNCHANGED <<bound, recent>>
    BY <1>1 DEF ShapeOK, OrderInv
<1>2. ASSUME NEW r \in Request, Move(r)
      PROVE  OrderInv' /\ bound' = [s \in Session |-> bound'[s]]
    BY <1>2, MoveSessionOrder DEF Move
<1>3. CASE ClearSessions
    BY <1>3, StoreOrder DEF ClearSessions
<1> QED BY <1>1, <1>2, <1>3, BindOrder, TableStep

LEMMA ShapeStep ==
    ASSUME ShapeOK, [Next]_vars
    PROVE  /\ inflight' \in [Member -> Nat]
           /\ pc' \in [Request -> Steps]
           /\ session' \in [Request -> Session \cup {None}]
           /\ list' = [r \in Request |-> list'[r]]
<1> DEFINE Placed == /\ pc' \in [Request -> Steps]
                     /\ session' \in [Request -> Session \cup {None}]
<1>1. ASSUME NEW c, NEW i, c \in Member => i \in Nat,
             inflight' = [inflight EXCEPT ![c] = i]
      PROVE  inflight' \in [Member -> Nat]
    BY <1>1 DEF ShapeOK
<1>2. ASSUME NEW r \in Request, Release(r) PROVE inflight' \in [Member -> Nat]
    <2> DEFINE c == Current(r)
               i == IF inflight[c] > 0 THEN inflight[c] - 1 ELSE 0
    <2>1. c \in Member => i \in Nat
        BY DEF ShapeOK
    <2>2. inflight' = [inflight EXCEPT ![c] = i]
        BY <1>2 DEF Release
    <2> QED BY <1>1, <2>1, <2>2
<1>3. ASSUME NEW r \in Request, Acquire(r) PROVE inflight' \in [Member -> Nat]
    <2>1. Current(r) \in Member => inflight[Current(r)] + 1 \in Nat
        BY DEF ShapeOK
    <2> QED BY <1>1, <1>3, <2>1 DEF Acquire, ShapeOK
<1>4. inflight' \in [Member -> Nat]
    BY <1>2, <1>3 DEF Next, Step, Look, Sort, Ask, Bind, Answer, Fail, Leave, Break, Finish, Failed, Move,
        Tick, Recover, ProbeFails, SignInOrOut, Age, ClearSessions, vars, ShapeOK
<1>5. Placed
    <2>1. ASSUME NEW r \in Request, NEW s \in Session \cup {None}, NEW l \in Steps,
                 pc' = [pc EXCEPT ![r] = l] \/ UNCHANGED pc,
                 session' = [session EXCEPT ![r] = s] \/ UNCHANGED session
          PROVE  Placed
        BY <2>1 DEF ShapeOK
    <2> HIDE DEF Placed
    <2>2. ASSUME NEW r \in Request, Acquire(r) \/ Answer(r) \/ Fail(r) \/ Leave(r) \/ Break(r) \/ Finish(r) \/ Move(r)
          PROVE  Placed
        BY <2>1, <2>2 DEF Acquire, Answer, Fail, Leave, Break, Finish, Failed, Move, Done, Goto, Steps
    <2>3. ASSUME NEW r \in Request, Look(r) \/ Sort(r) \/ Ask(r) PROVE Placed
        BY <2>1, <2>3 DEF Look, Sort, Ask, Steps
    <2>4. ASSUME NEW r \in Request, NEW s \in Session \cup {None}, Bind(r, s) PROVE Placed
        BY <2>1, <2>4 DEF Bind, Steps
    <2>5. UNCHANGED <<pc, session>> => Placed
        BY DEF ShapeOK, Placed
    <2> QED BY <2>2, <2>3, <2>4, <2>5 DEF Next, Step, Tick, Recover, ProbeFails, SignInOrOut, Age, ClearSessions, vars
<1>6. list' = [r \in Request |-> list'[r]]
    BY DEF Next, Step, Look, Sort, Ask, Bind, Acquire, Answer, Fail, Leave, Break, Finish, Failed,
        Move, Done, Goto, Tick, Recover, ProbeFails, SignInOrOut, Age, ClearSessions, vars, ShapeOK
<1> QED BY <1>4, <1>5, <1>6

LEMMA CountStep == ShapeOK /\ InflightExact /\ [Next]_vars => InflightExact'
<1> SUFFICES ASSUME ShapeOK, InflightExact, [Next]_vars PROVE InflightExact'
    OBVIOUS
<1>1. ASSUME NEW r \in Request, Look(r) \/ Sort(r) \/ Ask(r) PROVE InflightExact'
    BY <1>1, Still DEF Look, Sort, Ask, ShapeOK, Busy
<1>2. ASSUME NEW r \in Request, NEW s \in Session \cup {None}, Bind(r, s) PROVE InflightExact'
    BY <1>2, Still DEF Bind, ShapeOK, Busy
<1>3. ASSUME NEW r \in Request, Acquire(r) PROVE InflightExact'
    <2>1. CASE Goto(r, "trying") /\ inflight' = [inflight EXCEPT ![Current(r)] = @ + 1]
        BY <1>3, <2>1, Taken DEF Acquire, Goto
    <2>2. CASE Done(r) /\ UNCHANGED inflight
        BY <1>3, <2>2, Still DEF Acquire, Done, ShapeOK, Busy
    <2> QED BY <1>3, <2>1, <2>2 DEF Acquire
<1>4. ASSUME NEW r \in Request, Answer(r) PROVE InflightExact'
    BY <1>4, Still DEF Answer, Goto, ShapeOK, Busy
<1>5. ASSUME NEW r \in Request, pc[r] \in Busy, Release(r),
             NEW l \in {"idle", "failed", "lost"}, Done(r) \/ Goto(r, l)
      PROVE  InflightExact'
    <2>1. "idle" \notin Busy /\ l \notin Busy
        BY <1>5 DEF Busy
    <2>2. CASE Done(r)
        BY <1>5, <2>1, <2>2, Released DEF Done, ShapeOK
    <2>3. CASE Goto(r, l)
        BY <1>5, <2>1, <2>3, Released DEF Goto
    <2> QED BY <1>5, <2>2, <2>3
<1>6. ASSUME NEW r \in Request, Fail(r) \/ Leave(r) \/ Break(r) \/ Finish(r)
      PROVE  InflightExact'
    BY <1>5, <1>6 DEF Fail, Leave, Break, Finish, Failed, Busy
<1>7. ASSUME NEW r \in Request, Move(r) PROVE InflightExact'
    BY <1>7, Still DEF Move, Done, ShapeOK, Busy
<1>8. CASE \/ \E m \in Member : Recover(m) \/ ProbeFails(m)
           \/ \E m \in Codex : SignInOrOut(m)
           \/ Tick \/ Age \/ ClearSessions \/ UNCHANGED vars
    BY <1>8, Still DEF Tick, Recover, ProbeFails, SignInOrOut, Age, ClearSessions, vars
<1> QED BY <1>1, <1>2, <1>3, <1>4, <1>6, <1>7, <1>8 DEF Next, Step
-----------------------------------------------------------------------------
(* Where sessions are placed.                                               *)

TableOK ==
    /\ bound \in [Session -> Member \cup {None}] /\ recent \in Seq(Session)
    /\ until \in [Member -> Nat] /\ signedOut \subseteq Codex /\ trouble \in Nat
    /\ seen \in [Request -> [Member -> Nat]]
    /\ asked = [r \in Request |-> asked[r]] /\ out = [r \in Request |-> out[r]]

ListsOK ==
    \A r \in Request : /\ list[r] \in Seq(Member)
                       /\ pc[r] \in {"idle", "look"} => Len(list[r]) < Len(Pool)
                       /\ pc[r] \notin {"idle", "look", "sort"} => list[r] # <<>>
                       /\ pc[r] = "ask" => ToSet(list[r]) = Member
                       /\ pc[r] \in {"failed", "lost"} => Len(list[r]) > 1

\* Nobody on a list comes back later, by its snapshot, than one after it.
InOrder(order, left) == \A i, j \in DOMAIN order : i <= j => left[order[i]] <= left[order[j]]

\* A sorted list stays sorted as time goes on.
SortedInv == \A r \in Request : pc[r] = "ask" => InOrder(list[r], seen[r])

\* What nothing gone wrong means for the lists and the bindings.
CalmInv ==
    trouble = 0 =>
        /\ until = NothingSeen /\ aged = {}
        /\ \A r \in Request : /\ pc[r] \notin {"failed", "lost"} /\ seen[r] = NothingSeen
                              /\ out[r] = signedOut \cap asked[r]
        /\ \A s \in Session : bound[s] \in Ready \cup {None}

PlaceInv == ShapeOK /\ OrderInv /\ TableOK /\ ListsOK /\ SortedInv /\ CalmInv /\ SessionsPlaced

LEMMA Members == Pool \in Seq(Member) /\ ToSet(Pool) = Member /\ IsFiniteSet(Member) /\ Member # {}
BY PoolAssumption, ListFacts DEF Member

\* What is left of a list begins with the first of its members that is left.
LEMMA HeadOfOnly ==
    ASSUME NEW S, NEW s \in Seq(S), NEW X, Only(s, X) # <<>>
    PROVE  \E i \in DOMAIN s : s[i] = Head(Only(s, X)) /\ \A j \in DOMAIN s : s[j] \in X => i <= j
<1> DEFINE First(u) == \E i \in DOMAIN u : u[i] = Head(Only(u, X)) /\ \A j \in DOMAIN u : u[j] \in X => i <= j
           T == {u \in Seq(S) : Only(u, X) # <<>> => First(u)}
<1>1. <<>> \in T
    BY OnlyEmpty, EmptySeq
<1>2. ASSUME NEW u \in Seq(S), NEW e \in S, u \in T PROVE Append(u, e) \in T
    <2> DEFINE v == Append(u, e)
    <2>1. /\ v \in Seq(S) /\ DOMAIN v = 1..Len(u) + 1 /\ DOMAIN u = 1..Len(u) /\ Len(u) \in Nat
          /\ v[Len(u) + 1] = e /\ \A n \in 1..Len(u) : v[n] = u[n]
        BY AppendProperties, LenProperties
    <2>2. Only(v, X) = (IF e \in X THEN Append(Only(u, X), e) ELSE Only(u, X))
        BY OnlyAppend
    <2>3. Only(u, X) \in Seq(S \cap X) /\ ToSet(Only(u, X)) = ToSet(u) \cap X
        BY OnlySet
    <2> HIDE DEF v
    <2>4. ASSUME Only(u, X) # <<>> PROVE First(v)
        <3>1. PICK i \in DOMAIN u : u[i] = Head(Only(u, X)) /\ \A j \in DOMAIN u : u[j] \in X => i <= j
            BY <1>2, <2>4
        <3>2. Head(Only(v, X)) = Head(Only(u, X))
            <4>1. ASSUME NEW o \in Seq(S \cap X), o # <<>>, NEW d \in S \cap X PROVE Head(Append(o, d)) = Head(o)
                BY <4>1, AppendProperties, HeadTailProperties, LenProperties, EmptySeq
            <4> QED BY <2>2, <2>3, <2>4, <4>1
        <3>3. i \in DOMAIN v /\ v[i] = u[i]
            BY <2>1
        <3>4. ASSUME NEW j \in DOMAIN v, v[j] \in X PROVE i <= j
            <4>1. j = Len(u) + 1 \/ j \in DOMAIN u
                BY <2>1
            <4> QED BY <2>1, <3>1, <3>4, <4>1
        <3> QED BY <3>1, <3>2, <3>3, <3>4
    <2>5. ASSUME Only(u, X) = <<>>, e \in X PROVE First(v)
        <3>1. Only(v, X) = <<e>> /\ Head(<<e>>) = e
            BY <2>2, <2>5
        <3>2. ToSet(u) \cap X = {}
            BY <2>3, <2>5, ListFacts
        <3>3. \A j \in DOMAIN v : v[j] \in X => Len(u) + 1 <= j
            <4> TAKE j \in DOMAIN v
            <4>1. j = Len(u) + 1 \/ j \in DOMAIN u
                BY <2>1
            <4>2. j \in DOMAIN u => v[j] \in ToSet(u)
                BY <2>1 DEF ToSet
            <4> QED BY <2>1, <3>2, <4>1, <4>2
        <3>4. Len(u) + 1 \in DOMAIN v /\ v[Len(u) + 1] = Head(Only(v, X))
            BY <2>1, <3>1
        <3> QED BY <3>3, <3>4
    <2> HIDE DEF First
    <2>6. v \in T
        BY <2>1, <2>2, <2>4, <2>5
    <2> QED BY <2>6 DEF v
<1> HIDE DEF T
<1>3. Seq(S) \subseteq T
    BY <1>1, <1>2, ListInduction
<1> USE DEF T
<1> QED BY <1>3

\* The candidates of a request, and who is first among them.
LEMMA Chosen ==
    ASSUME NEW r \in Request, list[r] \in Seq(Member), list[r] # <<>>
    PROVE  /\ Candidates(r) \in Seq(Member) /\ Candidates(r) # <<>>
           /\ ToSet(Candidates(r)) = IF ToSet(list[r]) \subseteq out[r] THEN ToSet(list[r]) ELSE ToSet(list[r]) \ out[r]
           /\ InOrder(list[r], seen[r]) =>
                  \A x \in ToSet(Candidates(r)) : seen[r][Head(Candidates(r))] <= seen[r][x]
<1> DEFINE s == list[r]
           X == Member \ out[r]
           in == Only(s, X)
<1>1. in \in Seq(Member) /\ ToSet(in) = ToSet(s) \ out[r]
    <2>1. in \in Seq(Member \cap X) /\ ToSet(in) = ToSet(s) \cap X
        BY OnlySet
    <2>2. ToSet(s) \subseteq Member
        BY ListFacts
    <2> HIDE DEF in
    <2>3. Member \cap X \subseteq Member
        OBVIOUS
    <2> QED BY <2>1, <2>2, <2>3, SeqMonotonic
<1>2. DOMAIN s = 1..Len(s) /\ Len(s) \in Nat /\ Len(s) # 0
    BY LenProperties, EmptySeq
<1>3. CASE in = <<>>
    <2>1. Candidates(r) = s /\ ToSet(s) \subseteq out[r]
        <3>1. ToSet(in) = {}
            BY <1>3 DEF ToSet
        <3> QED BY <1>1, <1>3, <3>1 DEF Candidates
    <2>2. 1 \in DOMAIN s /\ Head(s) = s[1] /\ \A j \in DOMAIN s : 1 <= j
        BY <1>2
    <2>3. ASSUME InOrder(s, seen[r]), NEW x \in ToSet(s) PROVE seen[r][Head(s)] <= seen[r][x]
        <3>1. PICK j \in DOMAIN s : s[j] = x
            BY DEF ToSet
        <3> QED BY <2>2, <2>3, <3>1 DEF InOrder
    <2> QED BY <2>1, <2>3
<1>4. CASE in # <<>>
    <2>1. Candidates(r) = in /\ ~(ToSet(s) \subseteq out[r])
        <3>1. ToSet(in) # {}
            <4> HIDE DEF in
            <4> QED BY <1>1, <1>4, ListFacts
        <3> QED BY <1>1, <1>4, <3>1 DEF Candidates
    <2>2. PICK i \in DOMAIN s : s[i] = Head(in) /\ \A j \in DOMAIN s : s[j] \in X => i <= j
        BY <1>4, HeadOfOnly
    <2>3. ASSUME InOrder(s, seen[r]), NEW x \in ToSet(in) PROVE seen[r][Head(in)] <= seen[r][x]
        <3>1. x \in ToSet(s) /\ x \in X
            BY <1>1, ListFacts
        <3>2. PICK j \in DOMAIN s : s[j] = x
            BY <3>1 DEF ToSet
        <3> QED BY <2>2, <2>3, <3>1, <3>2 DEF InOrder
    <2> HIDE DEF in
    <2> QED BY <1>1, <1>4, <2>1, <2>3
<1> QED BY <1>3, <1>4

LEMMA Leads ==
    ASSUME NEW members \in Seq(Member), NEW m \in Member
    PROVE  Lead(members, m) \in Seq(Member) /\ Lead(members, m) # <<>> /\ Head(Lead(members, m)) = m
<1>1. Only(members, Member \ {m}) \in Seq(Member)
    <2>1. Only(members, Member \ {m}) \in Seq(Member \cap (Member \ {m}))
        BY OnlySet
    <2> QED BY <2>1, SeqMonotonic
<1>2. PICK t \in Seq(Member) : t = Only(members, Member \ {m})
    BY <1>1
<1>3. <<m>> \o t \in Seq(Member) /\ Head(<<m>> \o t) = m /\ ToSet(<<m>> \o t) = ToSet(t) \cup {m}
    <2>1. \A u \in Seq(Member), e \in Member : /\ <<e>> \o u \in Seq(Member) /\ Head(<<e>> \o u) = e
                                              /\ ToSet(<<e>> \o u) = ToSet(u) \cup {e}
        BY OneMore
    <2> QED BY <2>1
<1>4. <<m>> \o t # <<>>
    BY <1>3, ListFacts
<1> QED BY <1>2, <1>3, <1>4 DEF Lead

\* The bound sessions can be counted.
LEMMA Counted ==
    ASSUME NEW table, IsFiniteSet({s \in Session : table[s] # None}), NEW c
    PROVE  SessionsOn(table, c) \in Nat
<1>1. {s \in Session : table[s] # None /\ Connection[table[s]] = c} \subseteq {s \in Session : table[s] # None}
    OBVIOUS
<1> QED BY <1>1, FS_Subset, FS_CardinalityType DEF SessionsOn

\* A member that can be chosen goes first, and none has fewer sessions.
LEMMA Balanced ==
    ASSUME NEW table, IsFiniteSet({s \in Session : table[s] # None}), NEW members \in Seq(Member), NEW cooled,
           NEW m, m = Head(BalanceFirst(table, members, cooled)), members # <<>>
    PROVE  /\ m \in cooled => ToSet(members) \subseteq cooled
           /\ \A x \in ToSet(members) \ cooled :
                  SessionsOn(table, Connection[m]) <= SessionsOn(table, Connection[x])
<1> DEFINE n(x) == SessionsOn(table, Connection[x])
           fit == ToSet(members) \ cooled
           I == {i \in 1..Len(members) : members[i] \in fit /\ \A x \in fit : n(members[i]) <= n(x)}
<1>1. CASE fit = {}
    BY <1>1
<1>2. CASE fit # {}
    <2>1. PICK k \in {n(x) : x \in fit} : \A y \in {n(x) : x \in fit} : k <= y
        <3>1. {n(x) : x \in fit} \subseteq Nat
            BY Counted
        <3>2. {n(x) : x \in fit} # {}
            BY <1>2
        <3> HIDE DEF n, fit
        <3> QED BY <3>1, <3>2, Least
    <2>2. PICK z \in fit : n(z) = k
        BY <2>1
    <2>3. PICK i \in 1..Len(members) : members[i] = z
        BY <2>2, LenProperties DEF ToSet
    <2>4. i \in I
        BY <2>1, <2>2, <2>3
    <2>5. PICK j \in I : \A y \in I : j <= y
        <3>1. I \subseteq Nat /\ I # {}
            BY <2>4
        <3> HIDE DEF I
        <3> QED BY <3>1, Least
    <2> DEFINE best == SelectInSeq(members, LAMBDA x : x \in fit /\ \A y \in fit : n(x) <= n(y))
    <2>6. best = Min(I)
        BY <2>4 DEF SelectInSeq
    <2>7. best \in I
        <3>1. Min(I) \in I
            BY <2>5 DEF Min
        <3> QED BY <2>6, <3>1
    <2>8. BalanceFirst(table, members, cooled) = Lead(members, members[best])
        BY <1>2 DEF BalanceFirst
    <2> HIDE DEF best
    <2>9. members[best] \in fit /\ members[best] \in Member
        BY <2>7, ListFacts
    <2>10. m = members[best]
        BY <2>8, <2>9, Leads
    <2> QED BY <2>7, <2>9, <2>10
<1> QED BY <1>1, <1>2

LEMMA Remaining ==
    ASSUME TableOK, NEW s \in Session
    PROVE  /\ Others(s) \in Seq(Session) /\ ToSet(Others(s)) = ToSet(recent) \ (aged \cup {s})
           /\ Evicted(Others(s)) \in Seq(Session)
           /\ Append(Others(s), s) \in Seq(Session) /\ ToSet(Append(Others(s), s)) = ToSet(Others(s)) \cup {s}
           /\ s \in ToSet(Append(Evicted(Others(s)), s)) /\ Append(Evicted(Others(s)), s) \in Seq(Session)
<1> DEFINE o == Others(s)
<1>1. o \in Seq(Session) /\ ToSet(o) = ToSet(recent) \ (aged \cup {s})
    <2>1. o \in Seq(Session \cap (Session \ (aged \cup {s}))) /\ ToSet(o) = ToSet(recent) \cap (Session \ (aged \cup {s}))
        BY OnlySet DEF Others, TableOK
    <2>2. ToSet(recent) \subseteq Session
        BY ListFacts DEF TableOK
    <2> HIDE DEF o
    <2>3. Session \cap (Session \ (aged \cup {s})) \subseteq Session
        OBVIOUS
    <2> QED BY <2>1, <2>2, <2>3, SeqMonotonic
<1> HIDE DEF o
<1>2. Evicted(o) \in Seq(Session)
    <2>1. Len(o) >= Cap => o # <<>>
        BY CapAssumption
    <2> QED BY <1>1, <2>1, ListFacts DEF Evicted
<1>3. /\ Append(o, s) \in Seq(Session) /\ ToSet(Append(o, s)) = ToSet(o) \cup {s}
      /\ s \in ToSet(Append(Evicted(o), s)) /\ Append(Evicted(o), s) \in Seq(Session)
    <2>0. \A u \in Seq(Session), e \in Session : Append(u, e) \in Seq(Session) /\ ToSet(Append(u, e)) = ToSet(u) \cup {e}
        <3> TAKE u \in Seq(Session), e \in Session
        <3>1. Append(u, e) = u \o <<e>> /\ <<e>> \in Seq(Session) /\ ToSet(<<e>>) = {e}
            BY AppendIsConcat DEF ToSet
        <3>2. u \o <<e>> \in Seq(Session) /\ ToSet(u \o <<e>>) = ToSet(u) \cup ToSet(<<e>>)
            BY <3>1, ListFacts, SMTT(40)
        <3> QED BY <3>1, <3>2
    <2>1. Append(o, s) \in Seq(Session) /\ ToSet(Append(o, s)) = ToSet(o) \cup {s}
        BY <1>1, <2>0
    <2>2. PICK v \in Seq(Session) : v = Evicted(o)
        BY <1>2
    <2>3. Append(v, s) \in Seq(Session) /\ ToSet(Append(v, s)) = ToSet(v) \cup {s}
        BY <2>0
    <2> QED BY <2>1, <2>2, <2>3
<1> QED BY <1>1, <1>2, <1>3 DEF o

\* The session keeps its binding.
Keeps(cands, s) == s \in ToSet(recent) \ aged /\ bound[s] \in ToSet(cands)

\* What a request does to the table when its session is placed.
LEMMA Placed ==
    ASSUME TableOK, OrderInv, NEW cands \in Seq(Member), cands # <<>>, NEW cooled,
           Head(cands) \in cooled => ToSet(cands) \subseteq cooled,
           NEW s \in Session, NEW chosen, BindCandidates(s, cands, cooled, chosen), NEW m, m = Head(chosen)
    PROVE  /\ m \in Member => bound' \in [Session -> Member \cup {None}]
           /\ recent' \in Seq(Session) /\ aged' = {} /\ trouble' \in Nat /\ bound'[s] = m
           /\ Keeps(cands, s) => m = bound[s]
           /\ m \in cooled => ToSet(cands) \subseteq cooled \/ Keeps(cands, s)
           /\ trouble' = 0 => trouble = 0 /\ (aged = {} /\ (Keeps(cands, s) \/ bound[s] = None) => bound' = [bound EXCEPT ![s] = m])
           /\ balance /\ aged = {} /\ bound[s] = None =>
                  \A x \in ToSet(cands) \ cooled : SessionsOn(bound, Connection[m]) <= SessionsOn(bound, Connection[x])
<1> DEFINE others == Others(s)
           table == Held(others)
<1>1. /\ others \in Seq(Session) /\ ToSet(others) = ToSet(recent) \ (aged \cup {s})
      /\ Append(others, s) \in Seq(Session) /\ ToSet(Append(others, s)) = ToSet(others) \cup {s}
      /\ s \in ToSet(Append(Evicted(others), s)) /\ Append(Evicted(others), s) \in Seq(Session)
    BY Remaining
<1>2. \A x \in Session : bound[x] # None => x \in ToSet(recent)
    BY DEF OrderInv
<1>3. table = [x \in Session |-> IF x \in ToSet(recent) \ (aged \cup {s}) THEN bound[x] ELSE None]
    BY <1>1 DEF Held
<1>4. CASE Keeps(cands, s)
    <2>1. chosen = Lead(cands, bound[s]) /\ Store(bound, Append(others, s), {}) /\ UNCHANGED trouble
        BY <1>4 DEF BindCandidates, Keeps
    <2>2. bound[s] \in Member
        BY <1>4, ListFacts DEF Keeps
    <2>3. m = bound[s]
        BY <2>1, <2>2, Leads
    <2>4. bound' = [x \in Session |-> IF x \in (ToSet(recent) \ (aged \cup {s})) \cup {s} THEN bound[x] ELSE None]
        BY <2>1, <1>1 DEF Store
    <2>5. aged = {} => bound' = bound
        BY <2>4, <1>2 DEF TableOK
    <2>6. bound[s] # None
        BY <2>2, NoneAssumption
    <2> HIDE DEF others, table
    <2> QED BY <1>1, <1>4, <2>1, <2>3, <2>4, <2>5, <2>6 DEF Store, TableOK, Keeps
<1>5. CASE ~Keeps(cands, s)
    <2>1. /\ chosen = IF balance THEN BalanceFirst(table, cands, cooled) ELSE cands
          /\ Store([table EXCEPT ![s] = m], Append(Evicted(others), s), {})
          /\ trouble' = IF trouble = 0 /\ Len(others) >= Cap THEN 1 ELSE trouble
        BY <1>5 DEF BindCandidates, Keeps
    <2>2. IsFiniteSet({x \in Session : table[x] # None})
        <3>1. {x \in Session : table[x] # None} \subseteq ToSet(recent)
            BY <1>3
        <3>2. IsFiniteSet(ToSet(recent))
            BY ListFacts DEF TableOK
        <3> QED BY <3>1, <3>2, FS_Subset
    <2>3. aged = {} /\ bound[s] = None => table = bound
        BY <1>2, <1>3 DEF TableOK
    <2>4. bound' = [x \in Session |-> IF x \in ToSet(Append(Evicted(others), s))
                                      THEN [table EXCEPT ![s] = m][x] ELSE None]
        BY <2>1 DEF Store
    <2>5. bound'[s] = m
        BY <1>1, <1>3, <2>4
    <2>6. m \in Member => bound' \in [Session -> Member \cup {None}]
        BY <1>3, <2>4 DEF TableOK
    <2>7. trouble' = 0 => trouble = 0 /\ (aged = {} /\ bound[s] = None => bound' = [bound EXCEPT ![s] = m])
        <3>1. trouble' = 0 => trouble = 0 /\ ~(Len(others) >= Cap)
            BY <2>1
        <3>2. ~(Len(others) >= Cap) => Append(Evicted(others), s) = Append(others, s)
            BY DEF Evicted
        <3>3. ASSUME aged = {}, bound[s] = None, ~(Len(others) >= Cap) PROVE bound' = [bound EXCEPT ![s] = m]
            <4>1. table = bound /\ ToSet(Append(Evicted(others), s)) = ToSet(recent) \cup {s}
                BY <2>3, <3>2, <3>3, <1>1
            <4>2. bound' = [x \in Session |-> IF x \in ToSet(recent) \cup {s} THEN [bound EXCEPT ![s] = m][x] ELSE None]
                BY <2>4, <4>1
            <4> HIDE DEF others, table
            <4> QED BY <4>2, <1>2 DEF TableOK
        <3> QED BY <3>1, <3>3
    <2>8. m \in cooled => ToSet(cands) \subseteq cooled
        <3>1. CASE balance
            BY <2>1, <2>2, <3>1, Balanced
        <3>2. CASE ~balance
            BY <2>1, <3>2
        <3> QED BY <3>1, <3>2
    <2>9. balance /\ aged = {} /\ bound[s] = None =>
              \A x \in ToSet(cands) \ cooled : SessionsOn(bound, Connection[m]) <= SessionsOn(bound, Connection[x])
        BY <2>1, <2>2, <2>3, Balanced
    <2>10. recent' \in Seq(Session) /\ aged' = {} /\ trouble' \in Nat
        BY <1>1, <2>1 DEF Store, TableOK
    <2> HIDE DEF others, table
    <2> QED BY <1>5, <2>5, <2>6, <2>7, <2>8, <2>9, <2>10
<1> QED BY <1>4, <1>5

LEMMA BoundCounted ==
    ASSUME TableOK, OrderInv
    PROVE  IsFiniteSet({s \in Session : bound[s] # None}) /\ \A c : SessionsOn(bound, c) \in Nat
<1>1. {s \in Session : bound[s] # None} \subseteq ToSet(recent)
    BY DEF OrderInv
<1>2. IsFiniteSet(ToSet(recent))
    BY ListFacts DEF TableOK
<1>3. IsFiniteSet({s \in Session : bound[s] # None})
    BY <1>1, <1>2, FS_Subset
<1> QED BY <1>3, Counted

\* A new binding counts for its connection only.
LEMMA OneSessionMore ==
    ASSUME TableOK, OrderInv, NEW s \in Session, bound[s] = None, NEW m \in Member,
           NEW b, b = [bound EXCEPT ![s] = m], NEW c
    PROVE  SessionsOn(b, c) = SessionsOn(bound, c) + IF c = Connection[m] THEN 1 ELSE 0
<1> DEFINE on(t) == {x \in Session : t[x] # None /\ Connection[t[x]] = c}
<1>1. IsFiniteSet(on(bound)) /\ s \notin on(bound)
    <2>1. on(bound) \subseteq {x \in Session : bound[x] # None}
        OBVIOUS
    <2> QED BY <2>1, BoundCounted, FS_Subset
<1>2. on(b) = IF c = Connection[m] THEN on(bound) \cup {s} ELSE on(bound)
    <2>1. \A x \in Session : b[x] = IF x = s THEN m ELSE bound[x]
        BY DEF TableOK
    <2>2. m # None
        BY NoneAssumption
    <2> QED BY <2>1, <2>2
<1>3. Cardinality(on(bound) \cup {s}) = Cardinality(on(bound)) + 1
    BY <1>1, FS_AddElement
<1>4. Cardinality(on(bound)) \in Nat
    BY <1>1, FS_CardinalityType
<1> HIDE DEF on
<1>5. Cardinality(on(b)) = Cardinality(on(bound)) + IF c = Connection[m] THEN 1 ELSE 0
    BY <1>2, <1>3, <1>4
<1> USE DEF on
<1> QED BY <1>5 DEF SessionsOn

\* A request that neither chooses nor is placed.
LEMMA ListsKept ==
    ASSUME ListsOK, SortedInv, UNCHANGED seen,
           \A q \in Request :
               \/ list'[q] = list[q] /\ pc'[q] = pc[q]
               \/ list'[q] = <<>> /\ pc'[q] = "idle"
               \/ /\ list'[q] = list[q] /\ pc[q] \in {"ready", "trying", "streaming"}
                  /\ pc'[q] \in {"trying", "streaming", "failed", "lost"}
                  /\ pc'[q] \in {"failed", "lost"} => Len(list[q]) > 1
               \/ list'[q] = Tail(list[q]) /\ pc'[q] = "ready" /\ Len(list[q]) > 1
    PROVE  ListsOK' /\ SortedInv'
<1>0. <<>> \in Seq(Member) /\ Len(<<>>) < Len(Pool)
    <2>1. Len(Pool) \in Nat /\ Len(Pool) # 0
        BY Members, PoolAssumption, LenProperties, EmptySeq
    <2> QED BY <2>1
<1>1. ASSUME NEW q \in Request
      PROVE  /\ list'[q] \in Seq(Member)
             /\ pc'[q] \in {"idle", "look"} => Len(list'[q]) < Len(Pool)
             /\ pc'[q] \notin {"idle", "look", "sort"} => list'[q] # <<>>
             /\ pc'[q] \in {"failed", "lost"} => Len(list'[q]) > 1
             /\ pc'[q] = "ask" => list'[q] = list[q] /\ pc[q] = "ask"
    <2>1. list[q] \in Seq(Member)
        BY DEF ListsOK
    <2>2. CASE list'[q] = Tail(list[q]) /\ pc'[q] = "ready" /\ Len(list[q]) > 1
        <3>1. list[q] # <<>> /\ Tail(list[q]) \in Seq(Member) /\ Len(Tail(list[q])) = Len(list[q]) - 1
            BY <2>1, <2>2, HeadTailProperties, EmptySeq
        <3>2. Len(<<>>) = 0 /\ Len(list[q]) \in Nat
            BY <2>1, LenProperties
        <3>3. Len(Tail(list[q])) # 0
            <4>1. PICK n, k : n \in Nat /\ n = Len(list[q]) /\ k = Len(Tail(list[q]))
                BY <3>2
            <4>2. n > 1 /\ k = n - 1
                BY <2>2, <3>1, <4>1
            <4>3. k # 0
                BY <4>2
            <4> QED BY <4>1, <4>3
        <3>4. Tail(list[q]) # <<>>
            BY <3>2, <3>3
        <3> QED BY <2>2, <3>1, <3>4
    <2>3. CASE list'[q] = <<>> /\ pc'[q] = "idle"
        BY <1>0, <2>3
    <2> QED BY <2>1, <2>2, <2>3 DEF ListsOK
<1> QED BY <1>1 DEF ListsOK, SortedInv

LEMMA CalmKept ==
    ASSUME CalmInv, SessionsPlaced, UNCHANGED <<bound, signedOut, trouble, balance, aged, seen, asked, out>>,
           until = NothingSeen => until' = NothingSeen,
           \A q \in Request :
               \/ list'[q] = list[q] /\ pc'[q] = pc[q] /\ session'[q] = session[q]
               \/ pc'[q] = "idle"
               \/ /\ list'[q] = list[q] /\ session'[q] = session[q] /\ pc[q] \in {"ready", "trying", "streaming"}
                  /\ pc'[q] \in {"trying", "streaming"}
    PROVE  CalmInv' /\ SessionsPlaced'
<1>1. Ready' = Ready
    BY DEF Ready
<1>2. ASSUME trouble = 0, NEW q \in Request
      PROVE  /\ pc'[q] \notin {"failed", "lost"}
             /\ session'[q] # None /\ pc'[q] \in {"ready", "trying", "streaming"} => Head(list'[q]) = bound[session'[q]]
    BY <1>2 DEF CalmInv, SessionsPlaced, Current
<1> QED BY <1>1, <1>2 DEF CalmInv, SessionsPlaced, Current

LEMMA LookPlaces ==
    ASSUME PlaceInv, NEW r \in Request, Look(r)
    PROVE  TableOK' /\ ListsOK' /\ SortedInv' /\ CalmInv' /\ SessionsPlaced'
<1> USE DEF PlaceInv
<1> DEFINE m == Pool[Len(list[r]) + 1]
<1>1. pc[r] \in {"idle", "look"} /\ list[r] \in Seq(Member) /\ Len(list[r]) < Len(Pool)
    BY DEF Look, ListsOK
<1>2. m \in Member
    <2>1. Len(Pool) \in Nat /\ Len(list[r]) \in Nat /\ Pool \in Seq(Member)
        BY <1>1, Members, LenProperties
    <2>2. Len(list[r]) + 1 \in 1..Len(Pool)
        BY <1>1, <2>1
    <2> QED BY <2>1, <2>2, ElementOfSeq
<1>3. /\ list' = [list EXCEPT ![r] = Append(@, m)] /\ seen' = [seen EXCEPT ![r] = [@ EXCEPT ![m] = until[m]]]
      /\ pc' = [pc EXCEPT ![r] = IF Len(list[r]) + 1 < Len(Pool) THEN "look" ELSE "sort"]
      /\ UNCHANGED <<balance, bound, recent, aged, until, signedOut, session, asked, out, trouble>>
    BY DEF Look, tableVars
<1> HIDE DEF m
<1>4. /\ \A q \in Request \ {r} : list'[q] = list[q] /\ pc'[q] = pc[q] /\ seen'[q] = seen[q]
      /\ list'[r] = Append(list[r], m) /\ seen'[r] = [seen[r] EXCEPT ![m] = until[m]]
      /\ pc'[r] = (IF Len(list[r]) + 1 < Len(Pool) THEN "look" ELSE "sort")
    BY <1>3 DEF ShapeOK, TableOK
<1>5. TableOK'
    <2>1. seen' \in [Request -> [Member -> Nat]]
        BY <1>2, <1>3 DEF TableOK
    <2> QED BY <1>3, <2>1 DEF TableOK
<1>6. ListsOK'
    <2>1. list'[r] \in Seq(Member) /\ Len(list'[r]) = Len(list[r]) + 1
        BY <1>1, <1>2, <1>4, AppendProperties
    <2> QED BY <1>4, <2>1 DEF ListsOK
<1>7. SortedInv'
    BY <1>4 DEF SortedInv, InOrder
<1>8. Ready' = Ready
    BY <1>3 DEF Ready
<1>9. CalmInv'
    <2>1. trouble = 0 => seen'[r] = NothingSeen
        <3>1. trouble = 0 => seen[r] = NothingSeen /\ until[m] = 0
            BY <1>2 DEF CalmInv, NothingSeen
        <3> QED BY <1>4, <3>1 DEF NothingSeen
    <2>2. pc'[r] \notin {"failed", "lost"}
        BY <1>4
    <2> QED BY <1>3, <1>4, <1>8, <2>1, <2>2 DEF CalmInv
<1>10. SessionsPlaced'
    <2>1. \A q \in Request \ {r} : Head(list'[q]) = Head(list[q])
        BY <1>4
    <2>2. pc'[r] \notin {"ready", "trying", "streaming"}
        BY <1>4
    <2> QED BY <1>3, <1>4, <1>8, <2>1, <2>2 DEF SessionsPlaced, Current
<1> QED BY <1>5, <1>6, <1>7, <1>9, <1>10

LEMMA SortPlaces ==
    ASSUME PlaceInv, NEW r \in Request, Sort(r)
    PROVE  TableOK' /\ ListsOK' /\ SortedInv' /\ CalmInv' /\ SessionsPlaced'
<1> USE DEF PlaceInv
<1>1. PICK order \in [DOMAIN Pool -> Member] :
          ToSet(order) = Member /\ Sorted(order, seen[r]) /\ list' = [list EXCEPT ![r] = order]
    BY DEF Sort
<1>2. /\ pc[r] = "sort" /\ pc' = [pc EXCEPT ![r] = "ask"]
      /\ UNCHANGED <<balance, bound, recent, aged, until, signedOut, session, seen, asked, out, trouble>>
    BY DEF Sort, tableVars, lookVars
<1>3. /\ \A q \in Request \ {r} : list'[q] = list[q] /\ pc'[q] = pc[q]
      /\ list'[r] = order /\ pc'[r] = "ask"
    BY <1>1, <1>2 DEF ShapeOK
<1>4. order \in Seq(Member) /\ order # <<>> /\ DOMAIN order = DOMAIN Pool
    <2>1. DOMAIN Pool = 1..Len(Pool) /\ Len(Pool) \in Nat
        BY Members, LenProperties
    <2>2. order \in Seq(Member)
        BY <2>1, IsASeq
    <2> QED BY <1>1, <2>2, Members, ListFacts
<1>5. TableOK'
    BY <1>2 DEF TableOK
<1>6. ListsOK'
    BY <1>1, <1>3, <1>4 DEF ListsOK
<1>7. InOrder(order, seen[r])
    <2> SUFFICES ASSUME NEW i \in DOMAIN order, NEW j \in DOMAIN order, i <= j
                 PROVE  seen[r][order[i]] <= seen[r][order[j]]
        BY DEF InOrder
    <2>1. i \in Nat /\ j \in Nat /\ order[i] \in Member /\ order[j] \in Member
        BY <1>4, LenProperties
    <2>2. seen[r][order[i]] \in Nat /\ seen[r][order[j]] \in Nat
        BY <2>1 DEF TableOK
    <2>3. CASE i < j
        BY <1>1, <1>4, <2>2, <2>3 DEF Sorted
    <2>4. CASE i = j
        BY <2>2, <2>4
    <2> QED BY <2>1, <2>3, <2>4
<1>8. SortedInv'
    BY <1>2, <1>3, <1>7 DEF SortedInv, InOrder
<1>9. Ready' = Ready
    BY <1>2 DEF Ready
<1>10. CalmInv'
    BY <1>2, <1>3, <1>9 DEF CalmInv
<1>11. SessionsPlaced'
    <2>1. \A q \in Request \ {r} : Head(list'[q]) = Head(list[q])
        BY <1>3
    <2> QED BY <1>2, <1>3, <1>9, <2>1 DEF SessionsPlaced, Current
<1> QED BY <1>5, <1>6, <1>8, <1>10, <1>11

\* After something has gone wrong nothing is said of the placing.
LEMMA Troubled ==
    ASSUME TableOK, trouble' = trouble + 1
    PROVE  CalmInv' /\ SessionsPlaced' /\ trouble' \in Nat
<1>1. trouble' \in Nat /\ trouble' # 0
    BY DEF TableOK
<1> QED BY <1>1 DEF CalmInv, SessionsPlaced

LEMMA AskPlaces ==
    ASSUME PlaceInv, NEW r \in Request, Ask(r)
    PROVE  TableOK' /\ ListsOK' /\ SortedInv' /\ CalmInv' /\ SessionsPlaced'
<1> USE DEF PlaceInv
<1> DEFINE m == Head(Only(list[r], Codex \ asked[r]))
<1>1. /\ asked' = [asked EXCEPT ![r] = @ \cup {m}]
      /\ \/ out' = [out EXCEPT ![r] = IF m \in signedOut THEN @ \cup {m} ELSE @] /\ UNCHANGED trouble
         \/ trouble' = trouble + 1 /\ UNCHANGED out
      /\ UNCHANGED <<balance, bound, recent, aged, until, signedOut, pc, session, list, seen>>
    BY DEF Ask, Trouble, tableVars
<1> HIDE DEF m
<1>2. ListsOK' /\ SortedInv'
    BY <1>1, ListsKept
<1>3. trouble' \in Nat
    BY <1>1 DEF TableOK
<1>4. TableOK'
    BY <1>1, <1>3 DEF TableOK
<1>5. CASE trouble' = trouble + 1
    BY <1>2, <1>4, <1>5, Troubled
<1>6. CASE UNCHANGED trouble /\ out' = [out EXCEPT ![r] = IF m \in signedOut THEN @ \cup {m} ELSE @]
    <2>1. Ready' = Ready
        BY <1>1 DEF Ready
    <2>2. ASSUME trouble = 0, NEW q \in Request PROVE out'[q] = signedOut \cap asked'[q]
        <3>1. out[q] = signedOut \cap asked[q]
            BY <2>2 DEF CalmInv
        <3>2. CASE q = r
            <4>1. /\ asked'[r] = asked[r] \cup {m}
                  /\ out'[r] = IF m \in signedOut THEN out[r] \cup {m} ELSE out[r]
                BY <1>1, <1>6 DEF TableOK
            <4> QED BY <3>1, <3>2, <4>1
        <3>3. CASE q # r
            BY <1>1, <1>6, <3>1, <3>3 DEF TableOK
        <3> QED BY <3>2, <3>3
    <2>3. CalmInv'
        BY <1>1, <1>6, <2>1, <2>2 DEF CalmInv
    <2>4. SessionsPlaced'
        BY <1>1, <1>6, <2>1 DEF SessionsPlaced, Current
    <2> QED BY <1>2, <1>4, <2>3, <2>4
<1> QED BY <1>1, <1>5, <1>6

\* What the candidates of a request are when it is to be bound.
LEMMA ChosenCooled ==
    ASSUME TableOK, ListsOK, SortedInv, NEW r \in Request, pc[r] = "ask"
    PROVE  /\ Candidates(r) \in Seq(Member) /\ Candidates(r) # <<>> /\ ToSet(Candidates(r)) \subseteq Member
           /\ Head(Candidates(r)) \in Cooled(r) => ToSet(Candidates(r)) \subseteq Cooled(r)
           /\ ToSet(Candidates(r)) = IF Member \subseteq out[r] THEN Member ELSE Member \ out[r]
<1>1. list[r] \in Seq(Member) /\ list[r] # <<>> /\ ToSet(list[r]) = Member /\ InOrder(list[r], seen[r])
    BY DEF ListsOK, SortedInv
<1>2. /\ Candidates(r) \in Seq(Member) /\ Candidates(r) # <<>>
      /\ ToSet(Candidates(r)) = IF Member \subseteq out[r] THEN Member ELSE Member \ out[r]
      /\ \A x \in ToSet(Candidates(r)) : seen[r][Head(Candidates(r))] <= seen[r][x]
    BY <1>1, Chosen
<1>3. ToSet(Candidates(r)) \subseteq Member /\ Head(Candidates(r)) \in Member
    BY <1>2, ListFacts
<1>4. ASSUME Head(Candidates(r)) \in Cooled(r), NEW x \in ToSet(Candidates(r)) PROVE x \in Cooled(r)
    <2>1. seen[r][Head(Candidates(r))] > 0 /\ seen[r][Head(Candidates(r))] \in Nat /\ seen[r][x] \in Nat /\ x \in Member
        BY <1>3, <1>4 DEF Cooled, TableOK
    <2> QED BY <1>2, <2>1 DEF Cooled
<1> QED BY <1>2, <1>3, <1>4

LEMMA BindPlaces ==
    ASSUME PlaceInv, NEW r \in Request, NEW s0 \in Session \cup {None}, Bind(r, s0)
    PROVE  TableOK' /\ ListsOK' /\ SortedInv' /\ CalmInv' /\ SessionsPlaced'
<1> USE DEF PlaceInv
<1>0. PICK cands : cands = Candidates(r)
    OBVIOUS
<1>1. PICK m \in ToSet(cands) :
          /\ IF s0 = None
             THEN m = Head(cands) /\ UNCHANGED <<tableVars, trouble>>
             ELSE BindCandidates(s0, cands, Cooled(r), Lead(cands, m))
          /\ list' = [list EXCEPT ![r] = IF failover THEN Lead(cands, m) ELSE <<m>>]
    BY <1>0 DEF Bind
<1>2. /\ pc[r] = "ask" /\ Codex \subseteq asked[r] /\ pc' = [pc EXCEPT ![r] = "ready"]
      /\ session' = [session EXCEPT ![r] = s0] /\ seen' = [seen EXCEPT ![r] = NothingSeen]
      /\ asked' = [asked EXCEPT ![r] = {}] /\ out' = [out EXCEPT ![r] = {}]
      /\ UNCHANGED <<balance, failover, until, signedOut, inflight>>
    BY DEF Bind
<1>3. /\ cands \in Seq(Member) /\ cands # <<>> /\ m \in Member
      /\ Head(cands) \in Cooled(r) => ToSet(cands) \subseteq Cooled(r)
      /\ ToSet(cands) = IF Member \subseteq out[r] THEN Member ELSE Member \ out[r]
    BY <1>0, <1>1, <1>2, ChosenCooled
<1>4. list'[r] \in Seq(Member) /\ list'[r] # <<>> /\ Head(list'[r]) = m /\ Head(Lead(cands, m)) = m
    <2>1. list'[r] = IF failover THEN Lead(cands, m) ELSE <<m>>
        BY <1>1 DEF ShapeOK
    <2>2. Lead(cands, m) \in Seq(Member) /\ Lead(cands, m) # <<>> /\ Head(Lead(cands, m)) = m
        BY <1>3, Leads
    <2>3. <<m>> \in Seq(Member) /\ <<m>> # <<>> /\ Head(<<m>>) = m
        BY <1>3
    <2> QED BY <2>1, <2>2, <2>3
<1>5. /\ \A q \in Request \ {r} : /\ list'[q] = list[q] /\ pc'[q] = pc[q] /\ session'[q] = session[q]
                                   /\ seen'[q] = seen[q] /\ asked'[q] = asked[q] /\ out'[q] = out[q]
      /\ pc'[r] = "ready" /\ session'[r] = s0 /\ seen'[r] = NothingSeen /\ asked'[r] = {} /\ out'[r] = {}
      /\ seen' \in [Request -> [Member -> Nat]]
      /\ asked' = [q \in Request |-> asked'[q]] /\ out' = [q \in Request |-> out'[q]]
    <2>1. NothingSeen \in [Member -> Nat]
        BY DEF NothingSeen
    <2> QED BY <1>1, <1>2, <2>1 DEF ShapeOK, TableOK
<1>6. ListsOK' /\ SortedInv'
    BY <1>4, <1>5 DEF ListsOK, SortedInv, InOrder
<1>7. Ready' = Ready
    BY <1>2 DEF Ready
<1>8. CASE s0 = None
    <2>1. UNCHANGED <<bound, recent, aged, trouble>>
        BY <1>1, <1>8 DEF tableVars
    <2>2. TableOK'
        BY <1>2, <1>5, <2>1 DEF TableOK
    <2>3. CalmInv'
        BY <1>2, <1>5, <1>7, <2>1 DEF CalmInv
    <2>4. SessionsPlaced'
        <3>1. \A q \in Request \ {r} : Head(list'[q]) = Head(list[q])
            BY <1>5
        <3> QED BY <1>2, <1>5, <1>7, <1>8, <2>1, <3>1 DEF SessionsPlaced, Current
    <2> QED BY <1>6, <2>2, <2>3, <2>4
<1>9. CASE s0 # None
    <2>1. PICK s \in Session : s = s0
        BY <1>9
    <2>2. BindCandidates(s, cands, Cooled(r), Lead(cands, m))
        BY <1>1, <1>9, <2>1
    <2>3. /\ bound' \in [Session -> Member \cup {None}]
          /\ recent' \in Seq(Session) /\ aged' = {} /\ trouble' \in Nat /\ bound'[s] = m
          /\ Keeps(cands, s) => m = bound[s]
          /\ trouble' = 0 => trouble = 0 /\ (aged = {} /\ (Keeps(cands, s) \/ bound[s] = None) => bound' = [bound EXCEPT ![s] = m])
          /\ balance /\ aged = {} /\ bound[s] = None =>
                \A x \in ToSet(cands) \ Cooled(r) : SessionsOn(bound, Connection[m]) <= SessionsOn(bound, Connection[x])
        BY <1>2, <1>3, <1>4, <2>2, Placed
    <2>4. TableOK'
        BY <1>2, <1>5, <2>3 DEF TableOK
    <2>5. ASSUME trouble' = 0
          PROVE  /\ bound' = [bound EXCEPT ![s] = m] /\ m \in Ready /\ ToSet(cands) = Ready
                 /\ bound[s] # None => m = bound[s]
                 /\ trouble = 0 /\ Cooled(r) = {} /\ aged = {}
        <3>0. trouble = 0 /\ aged = {} /\ bound[s] \in Ready \cup {None} /\ seen[r] = NothingSeen /\ out[r] = signedOut \cap asked[r]
            BY <2>3, <2>5 DEF CalmInv
        <3>1. ToSet(cands) = Ready /\ Cooled(r) = {} /\ trouble = 0 /\ aged = {} /\ bound[s] \in Ready \cup {None}
            <4>1. out[r] = signedOut /\ (Member \subseteq signedOut <=> Codex \cap signedOut = Member)
                BY <1>2, <3>0, PoolAssumption DEF TableOK
            <4>2. Cooled(r) = {}
                BY <3>0 DEF Cooled, NothingSeen
            <4> QED BY <1>3, <3>0, <4>1, <4>2 DEF Ready
        <3>2. bound[s] # None => Keeps(cands, s)
            BY <3>1 DEF Keeps, OrderInv
        <3> QED BY <2>3, <2>5, <3>1, <3>2
    <2>6. CalmInv'
        <3>1. ASSUME trouble' = 0, NEW q \in Request
              PROVE  pc'[q] \notin {"failed", "lost"} /\ seen'[q] = NothingSeen /\ out'[q] = signedOut' \cap asked'[q]
            <4>1. pc[q] \notin {"failed", "lost"} /\ seen[q] = NothingSeen /\ out[q] = signedOut \cap asked[q]
                BY <2>5, <3>1 DEF CalmInv
            <4> QED BY <1>2, <1>5, <4>1
        <3>2. ASSUME trouble' = 0, NEW x \in Session PROVE bound'[x] \in Ready' \cup {None}
            <4>1. bound[x] \in Ready \cup {None} /\ bound' = [bound EXCEPT ![s] = m] /\ m \in Ready
                BY <2>5, <3>2 DEF CalmInv
            <4> QED BY <1>7, <4>1 DEF TableOK
        <3>3. trouble' = 0 => until' = NothingSeen /\ aged' = {}
            BY <1>2, <2>3, <2>5 DEF CalmInv
        <3> QED BY <3>1, <3>2, <3>3 DEF CalmInv
    <2>7. ASSUME trouble' = 0, NEW q \in Request, session'[q] # None, pc'[q] \in {"ready", "trying", "streaming"}
          PROVE  Head(list'[q]) = bound'[session'[q]]
        <3>1. CASE q = r
            BY <1>4, <1>5, <2>1, <2>3, <3>1
        <3>2. CASE q # r
            <4>1. /\ Head(list[q]) = bound[session[q]] /\ list'[q] = list[q]
                  /\ session[q] \in Session /\ session'[q] = session[q]
                BY <1>2, <1>5, <2>5, <2>7, <3>2, ZenonT(60) DEF SessionsPlaced, Current, ShapeOK
            <4>2. Head(list[q]) \in Member
                BY <1>5, <2>7, <3>2, ListFacts DEF ListsOK
            <4>3. bound'[session[q]] = bound[session[q]]
                BY <4>1, <4>2, <2>5, <2>7, NoneAssumption DEF TableOK
            <4> QED BY <4>1, <4>3
        <3> QED BY <3>1, <3>2
    <2>8. ASSUME trouble' = 0, balance, NEW x \in Ready, NEW y \in Ready
          PROVE  SessionsOn(bound', Connection[x]) <= SessionsOn(bound', Connection[y]) + 1
        <3>1. SessionsOn(bound, Connection[x]) <= SessionsOn(bound, Connection[y]) + 1
            BY <2>5, <2>8 DEF SessionsPlaced
        <3>2. CASE bound[s] # None
            <4>1. bound' = bound
                BY <2>5, <2>8, <3>2 DEF TableOK
            <4> QED BY <3>1, <4>1
        <3>3. CASE bound[s] = None
            <4>1. \A c : SessionsOn(bound', c) = SessionsOn(bound, c) + IF c = Connection[m] THEN 1 ELSE 0
                BY <1>3, <2>5, <2>8, <3>3, OneSessionMore
            <4>2. SessionsOn(bound, Connection[m]) <= SessionsOn(bound, Connection[y])
                BY <2>3, <2>5, <2>8, <3>3
            <4>3. \A c : SessionsOn(bound, c) \in Nat
                BY BoundCounted
            <4> QED BY <3>1, <4>1, <4>2, <4>3
        <3> QED BY <3>2, <3>3
    <2>9. SessionsPlaced'
        BY <1>2, <1>7, <2>7, <2>8 DEF SessionsPlaced, Current
    <2> QED BY <1>6, <2>4, <2>6, <2>9
<1> QED BY <1>8, <1>9

LEMMA FailedPlaces ==
    ASSUME PlaceInv, NEW r \in Request, pc[r] \in {"trying", "streaming"},
           NEW next \in {"failed", "lost", "idle"}, Failed(r, next)
    PROVE  TableOK' /\ ListsOK' /\ SortedInv' /\ CalmInv' /\ SessionsPlaced'
<1> USE DEF PlaceInv
<1>1. Current(r) \in Member
    BY ListFacts DEF ListsOK, Current
<1>2. trouble' = trouble + 1 /\ UNCHANGED <<bound, recent, signedOut, seen, asked, out>>
    BY DEF Failed, Trouble, tableVars, lookVars
<1>3. TableOK'
    <2>1. PICK n \in 1..MaxCool : until' = [until EXCEPT ![Current(r)] = n]
        BY DEF Failed
    <2>2. n \in Nat
        BY CapAssumption
    <2>3. until' \in [Member -> Nat]
        BY <2>1, <2>2 DEF TableOK
    <2> QED BY <1>2, <2>3, Troubled DEF TableOK
<1>4. \/ Len(list[r]) > 1 /\ pc' = [pc EXCEPT ![r] = next] /\ next # "idle" /\ UNCHANGED list
      \/ pc' = [pc EXCEPT ![r] = "idle"] /\ list' = [list EXCEPT ![r] = <<>>]
    BY DEF Failed, Goto, Done
<1>5. ASSUME NEW q \in Request
      PROVE  \/ list'[q] = list[q] /\ pc'[q] = pc[q]
             \/ list'[q] = <<>> /\ pc'[q] = "idle"
             \/ /\ list'[q] = list[q] /\ pc[q] \in {"ready", "trying", "streaming"}
                /\ pc'[q] \in {"trying", "streaming", "failed", "lost"}
                /\ pc'[q] \in {"failed", "lost"} => Len(list[q]) > 1
    BY <1>4 DEF ShapeOK
<1>6. ListsOK' /\ SortedInv'
    BY <1>2, <1>5, ListsKept
<1> QED BY <1>2, <1>3, <1>6, Troubled

LEMMA MovePlaces ==
    ASSUME PlaceInv, NEW r \in Request, Move(r)
    PROVE  TableOK' /\ ListsOK' /\ SortedInv' /\ CalmInv' /\ SessionsPlaced'
<1> USE DEF PlaceInv
<1>1. pc[r] \in {"failed", "lost"} /\ UNCHANGED <<until, signedOut, seen, asked, out, trouble>>
    BY DEF Move, lookVars
<1>2. list[r] \in Seq(Member) /\ Len(list[r]) > 1 /\ list[r][2] \in Member
    <2>1. list[r] \in Seq(Member) /\ Len(list[r]) > 1
        BY <1>1 DEF ListsOK
    <2>2. 2 \in 1..Len(list[r])
        BY <2>1, LenProperties
    <2> QED BY <2>1, <2>2, ElementOfSeq
<1>3. trouble # 0
    BY <1>1 DEF CalmInv
<1>4. recent' \in Seq(Session) /\ bound' \in [Session -> Member \cup {None}]
    <2>1. CASE session[r] # None /\ bound[session[r]] = Current(r)
        <3>1. PICK t \in Session : t = session[r]
            BY <2>1 DEF ShapeOK
        <3>2. Store([bound EXCEPT ![t] = list[r][2]], Append(Without(t), t), aged \ {t})
            BY <2>1, <3>1 DEF Move, MoveSession
        <3>3. Without(t) \in Seq(Session)
            <4>1. Without(t) \in Seq(Session \cap (Session \ {t}))
                BY OnlySet DEF Without, TableOK
            <4> QED BY <4>1, SeqMonotonic
        <3>4. Append(Without(t), t) \in Seq(Session)
            BY <3>3, AppendProperties
        <3>5. bound' \in [Session -> Member \cup {None}]
            BY <1>2, <3>2 DEF Store, TableOK
        <3> QED BY <3>2, <3>4, <3>5 DEF Store
    <2>2. CASE ~(session[r] # None /\ bound[session[r]] = Current(r))
        BY <2>2 DEF Move, MoveSession, tableVars, TableOK
    <2> QED BY <2>1, <2>2
<1>5. TableOK' /\ CalmInv' /\ SessionsPlaced'
    BY <1>1, <1>3, <1>4 DEF TableOK, CalmInv, SessionsPlaced
<1>6. \/ pc' = [pc EXCEPT ![r] = "ready"] /\ list' = [list EXCEPT ![r] = Tail(@)]
      \/ pc' = [pc EXCEPT ![r] = "idle"] /\ list' = [list EXCEPT ![r] = <<>>]
    BY DEF Move, Done
<1>7. ASSUME NEW q \in Request
      PROVE  \/ list'[q] = list[q] /\ pc'[q] = pc[q]
             \/ list'[q] = <<>> /\ pc'[q] = "idle"
             \/ list'[q] = Tail(list[q]) /\ pc'[q] = "ready" /\ Len(list[q]) > 1
    BY <1>2, <1>6 DEF ShapeOK
<1>8. ListsOK' /\ SortedInv'
    BY <1>1, <1>7, ListsKept
<1> QED BY <1>5, <1>8

\* The steps that leave the table and the trouble as they are.
LEMMA QuietPlaces ==
    ASSUME PlaceInv, NEW r \in Request, Acquire(r) \/ Answer(r) \/ Leave(r) \/ Finish(r)
    PROVE  TableOK' /\ ListsOK' /\ SortedInv' /\ CalmInv' /\ SessionsPlaced'
<1> USE DEF PlaceInv
<1>1. /\ UNCHANGED <<bound, recent, aged, signedOut, trouble, balance, seen, asked, out>>
      /\ UNCHANGED until \/ until' = [until EXCEPT ![Current(r)] = 0]
      /\ pc[r] \in {"ready", "trying", "streaming"}
    BY DEF Acquire, Answer, Leave, Finish, tableVars, lookVars
<1>2. \/ \E l \in {"trying", "streaming"} : pc' = [pc EXCEPT ![r] = l] /\ UNCHANGED <<list, session>>
      \/ /\ pc' = [pc EXCEPT ![r] = "idle"] /\ list' = [list EXCEPT ![r] = <<>>]
         /\ session' = [session EXCEPT ![r] = None]
    BY DEF Acquire, Answer, Leave, Finish, Goto, Done
<1>3. ASSUME NEW q \in Request
      PROVE  \/ list'[q] = list[q] /\ pc'[q] = pc[q] /\ session'[q] = session[q]
             \/ list'[q] = <<>> /\ pc'[q] = "idle"
             \/ /\ list'[q] = list[q] /\ session'[q] = session[q] /\ pc[q] \in {"ready", "trying", "streaming"}
                /\ pc'[q] \in {"trying", "streaming"}
    BY <1>1, <1>2 DEF ShapeOK
<1>4. ListsOK' /\ SortedInv'
    <2>1. \A q \in Request :
               \/ list'[q] = list[q] /\ pc'[q] = pc[q]
               \/ list'[q] = <<>> /\ pc'[q] = "idle"
               \/ /\ list'[q] = list[q] /\ pc[q] \in {"ready", "trying", "streaming"}
                  /\ pc'[q] \in {"trying", "streaming", "failed", "lost"}
                  /\ pc'[q] \in {"failed", "lost"} => Len(list[q]) > 1
        BY <1>3
    <2> QED BY <1>1, <2>1, ListsKept
<1>5. CalmInv' /\ SessionsPlaced'
    <2>1. until = NothingSeen => until' = NothingSeen
        BY <1>1 DEF NothingSeen
    <2> QED BY <1>1, <1>3, <2>1, CalmKept
<1>6. TableOK'
    <2>1. CASE UNCHANGED until
        BY <1>1, <2>1 DEF TableOK
    <2>2. CASE until' = [until EXCEPT ![Current(r)] = 0]
        <3>1. until' \in [Member -> Nat]
            BY <2>2 DEF TableOK
        <3> QED BY <1>1, <3>1 DEF TableOK
    <2> QED BY <1>1, <2>1, <2>2
<1> QED BY <1>4, <1>5, <1>6

\* The steps of nobody's request.
LEMMA OtherPlaces ==
    ASSUME PlaceInv,
           \/ \E m \in Member : Recover(m) \/ ProbeFails(m)
           \/ \E m \in Codex : SignInOrOut(m)
           \/ Age \/ ClearSessions \/ UNCHANGED vars
    PROVE  TableOK' /\ ListsOK' /\ SortedInv' /\ CalmInv' /\ SessionsPlaced'
<1> USE DEF PlaceInv
<1>1. UNCHANGED <<pc, session, list, seen, asked, out, balance>>
    BY DEF Recover, ProbeFails, SignInOrOut, Age, ClearSessions, vars, lookVars
<1>2. ListsOK' /\ SortedInv'
    BY <1>1, ListsKept
<1>3. CASE UNCHANGED vars \/ \E m \in Member : Recover(m)
    <2>1. /\ UNCHANGED <<bound, recent, aged, signedOut, trouble>>
          /\ UNCHANGED until \/ \E m \in Member : until' = [until EXCEPT ![m] = 0]
        BY <1>3 DEF Recover, vars, tableVars
    <2>2. CalmInv' /\ SessionsPlaced'
        <3>1. until = NothingSeen => until' = NothingSeen
            BY <2>1 DEF NothingSeen
        <3> QED BY <1>1, <2>1, <3>1, CalmKept
    <2>3. TableOK'
        <3>1. ASSUME NEW m \in Member, until' = [until EXCEPT ![m] = 0] PROVE until' \in [Member -> Nat]
            BY <3>1 DEF TableOK
        <3>2. until' \in [Member -> Nat]
            BY <2>1, <3>1 DEF TableOK
        <3> QED BY <1>1, <2>1, <3>2 DEF TableOK
    <2> QED BY <1>2, <2>2, <2>3
<1>4. CASE (\E m \in Member : ProbeFails(m)) \/ (\E m \in Codex : SignInOrOut(m)) \/ Age
    <2>1. UNCHANGED <<bound, recent>> /\ trouble' = trouble + 1
        BY <1>4 DEF ProbeFails, SignInOrOut, Age, Trouble, tableVars
    <2>2. until' \in [Member -> Nat] /\ signedOut' \subseteq Codex
        <3>1. ASSUME NEW m \in Member, ProbeFails(m) PROVE until' \in [Member -> Nat] /\ UNCHANGED signedOut
            <4>1. PICK n \in 1..MaxCool : until' = [until EXCEPT ![m] = n]
                BY <3>1 DEF ProbeFails
            <4>2. n \in Nat
                BY CapAssumption
            <4> QED BY <3>1, <4>1, <4>2 DEF ProbeFails, TableOK
        <3> QED BY <1>4, <3>1 DEF SignInOrOut, Age, TableOK
    <2>3. TableOK'
        BY <1>1, <2>1, <2>2, Troubled DEF TableOK
    <2> QED BY <1>2, <2>1, <2>3, Troubled
<1>5. CASE ClearSessions
    <2>1. trouble' = trouble + 1 /\ recent' = <<>> /\ bound' = [x \in Session |-> IF x \in ToSet(<<>>) THEN bound[x] ELSE None]
          /\ UNCHANGED <<until, signedOut>>
        BY <1>5 DEF ClearSessions, Store, Trouble
    <2>2. bound' \in [Session -> Member \cup {None}] /\ recent' \in Seq(Session)
        BY <2>1 DEF TableOK
    <2>3. TableOK'
        BY <1>1, <2>1, <2>2, Troubled DEF TableOK
    <2> QED BY <1>2, <2>1, <2>3, Troubled
<1> QED BY <1>3, <1>4, <1>5

\* Time goes on: a sorted list stays sorted.
LEMMA TickPlaces ==
    ASSUME PlaceInv, Tick
    PROVE  TableOK' /\ ListsOK' /\ SortedInv' /\ CalmInv' /\ SessionsPlaced'
<1> USE DEF PlaceInv
<1>1. /\ until' = Minus(until) /\ seen' = [r \in Request |-> Minus(seen[r])]
      /\ UNCHANGED <<balance, bound, recent, aged, signedOut, pc, session, list, asked, out, trouble>>
    BY DEF Tick, tableVars
<1>2. \A f \in [Member -> Nat] : Minus(f) \in [Member -> Nat]
    BY DEF Minus
<1>3. TableOK'
    BY <1>1, <1>2 DEF TableOK
<1>4. ListsOK'
    BY <1>1 DEF ListsOK
<1>5. SortedInv'
    <2> SUFFICES ASSUME NEW r \in Request, pc[r] = "ask", NEW i \in DOMAIN list[r], NEW j \in DOMAIN list[r], i <= j
                 PROVE  seen'[r][list[r][i]] <= seen'[r][list[r][j]]
        BY <1>1 DEF SortedInv, InOrder
    <2> DEFINE x == list[r][i]
               y == list[r][j]
    <2>1. x \in Member /\ y \in Member
        BY LenProperties DEF ListsOK
    <2>2. seen[r][x] <= seen[r][y]
        BY DEF SortedInv, InOrder
    <2> HIDE DEF x, y
    <2>3. seen[r][x] \in Nat /\ seen[r][y] \in Nat
        BY <2>1 DEF TableOK
    <2>4. /\ seen'[r][x] = IF seen[r][x] > 0 THEN seen[r][x] - 1 ELSE 0
          /\ seen'[r][y] = IF seen[r][y] > 0 THEN seen[r][y] - 1 ELSE 0
        BY <1>1, <2>1 DEF Minus
    <2>5. seen'[r][x] <= seen'[r][y]
        BY <2>2, <2>3, <2>4
    <2> QED BY <2>5 DEF x, y
<1>6. Ready' = Ready
    BY <1>1 DEF Ready
<1>7. Minus(NothingSeen) = NothingSeen
    BY DEF Minus, NothingSeen
<1>8. CalmInv'
    BY <1>1, <1>6, <1>7 DEF CalmInv
<1>9. SessionsPlaced'
    BY <1>1, <1>6 DEF SessionsPlaced, Current
<1> QED BY <1>3, <1>4, <1>5, <1>8, <1>9

LEMMA PlaceStep == PlaceInv /\ [Next]_vars => PlaceInv'
<1> SUFFICES ASSUME PlaceInv, [Next]_vars PROVE PlaceInv'
    OBVIOUS
<1> DEFINE Good == TableOK' /\ ListsOK' /\ SortedInv' /\ CalmInv' /\ SessionsPlaced'
<1> HIDE DEF Good
<1>1. ASSUME NEW r \in Request, Look(r) \/ Sort(r) \/ Ask(r) PROVE Good
    BY <1>1, LookPlaces, SortPlaces, AskPlaces DEF Good
<1>2. ASSUME NEW r \in Request, NEW s \in Session \cup {None}, Bind(r, s) PROVE Good
    BY <1>2, BindPlaces DEF Good
<1>3. ASSUME NEW r \in Request, Fail(r) \/ Break(r) PROVE Good
    <2>1. PICK next \in {"failed", "lost", "idle"} : Failed(r, next) /\ pc[r] \in {"trying", "streaming"}
        BY <1>3 DEF Fail, Break
    <2> QED BY <2>1, FailedPlaces DEF Good
<1>4. ASSUME NEW r \in Request, Move(r) PROVE Good
    BY <1>4, MovePlaces DEF Good
<1>5. ASSUME NEW r \in Request, Acquire(r) \/ Answer(r) \/ Leave(r) \/ Finish(r) PROVE Good
    BY <1>5, QuietPlaces DEF Good
<1>6. ASSUME \/ \E m \in Member : Recover(m) \/ ProbeFails(m)
             \/ \E m \in Codex : SignInOrOut(m)
             \/ Tick \/ Age \/ ClearSessions \/ UNCHANGED vars
      PROVE  Good
    BY <1>6, OtherPlaces, TickPlaces DEF Good
<1>7. Good
    BY <1>1, <1>2, <1>3, <1>4, <1>5, <1>6 DEF Next, Step
<1>8. ShapeOK' /\ OrderInv'
    BY OrderStep, ShapeStep DEF PlaceInv, ShapeOK
<1> QED BY <1>7, <1>8 DEF PlaceInv, Good
-----------------------------------------------------------------------------
LEMMA Invariance == Spec => []IInv
<1>1. Init => IInv
    <2>1. ASSUME Init, NEW m PROVE On(m) = {}
        BY <2>1 DEF Init, On, Busy
    <2>2. Init => InflightExact
        BY <2>1, FS_EmptySet DEF Init, InflightExact, On, Busy
    <2> QED BY <2>2 DEF Init, IInv, ShapeOK, Steps, OrderInv
<1>2. IInv /\ [Next]_vars => IInv'
    BY OrderStep, ShapeStep, CountStep DEF IInv, ShapeOK
<1> QED BY <1>1, <1>2, PTL DEF Spec

(* However the requests of any number of sessions end, the members' counts  *)
(* are those of the requests on them (local.go, health.go).                 *)
THEOREM CountsExact == Spec => []InflightExact
<1>1. IInv => InflightExact
    BY DEF IInv
<1> QED BY Invariance, <1>1, PTL

(* A session leaves a member only through a request of its own that failed  *)
(* there or could not choose it, or after 24 hours (affinity.go).           *)
THEOREM MovesExplained == Spec => MovesOnFailure
<1> DEFINE Explained(s) ==
        \/ s \in aged
        \/ \E r \in Request :
              \/ pc[r] = "ask" /\ session'[r] = s /\ bound[s] \notin ToSet(Candidates(r))
              \/ pc[r] \in {"failed", "lost"} /\ session[r] = s /\ Current(r) = bound[s]
<1>1. ASSUME IInv, [Next]_vars, NEW s \in Session, bound[s] # None, bound'[s] \notin {None, bound[s]}
      PROVE  Explained(s)
    <2>1. ASSUME NEW table, NEW order, NEW old, Store(table, order, old)
          PROVE  bound'[s] = table[s]
        BY <1>1, <2>1 DEF Store
    <2>2. ASSUME NEW r \in Request, NEW x \in Session \cup {None}, Bind(r, x) PROVE Explained(s)
        <3>1. x # None /\ x \in Session
            BY <1>1, <2>2 DEF Bind, tableVars, IInv, ShapeOK
        <3>2. PICK chosen : BindCandidates(x, Candidates(r), Cooled(r), chosen)
            BY <2>2, <3>1 DEF Bind
        <3>3. ~(x \in ToSet(recent) \ aged /\ bound[x] \in ToSet(Candidates(r)))
            BY <1>1, <2>1, <3>2 DEF BindCandidates
        <3>4. s = x
            <4>1. \E order : Store([Held(Others(x)) EXCEPT ![x] = Head(chosen)], order, {})
                BY <3>2, <3>3 DEF BindCandidates
            <4>2. bound'[s] = [Held(Others(x)) EXCEPT ![x] = Head(chosen)][s]
                BY <2>1, <4>1
            <4>3. s # x => bound'[s] \in {None, bound[s]}
                BY <4>2 DEF Held
            <4> QED BY <1>1, <4>3
        <3>5. pc[r] = "ask" /\ session'[r] = x
            BY <1>1, <2>2 DEF Bind, IInv, ShapeOK
        <3>6. s \in ToSet(recent)
            BY <1>1 DEF IInv, OrderInv
        <3> QED BY <3>3, <3>4, <3>5, <3>6
    <2>3. ASSUME NEW r \in Request, Move(r) PROVE Explained(s)
        <3>1. MoveSession(session[r], Current(r), list[r][2]) /\ pc[r] \in {"failed", "lost"}
            BY <2>3 DEF Move
        <3>2. session[r] # None /\ bound[session[r]] = Current(r)
            BY <1>1, <3>1 DEF MoveSession, tableVars
        <3>3. bound'[s] = [bound EXCEPT ![session[r]] = list[r][2]][s]
            BY <2>1, <3>1, <3>2 DEF MoveSession
        <3>4. s = session[r]
            BY <1>1, <3>3 DEF IInv, ShapeOK
        <3> QED BY <3>1, <3>2, <3>4
    <2>4. CASE ClearSessions
        BY <1>1, <2>1, <2>4 DEF ClearSessions
    <2> QED BY <1>1, <2>2, <2>3, <2>4, TableStep
<1>2. IInv /\ [Next]_vars =>
          [\A s \in Session : bound[s] # None /\ bound'[s] \notin {None, bound[s]}
                              => Explained(s)]_vars
    BY <1>1
<1> QED BY Invariance, <1>2, PTL DEF Spec, MovesOnFailure
-----------------------------------------------------------------------------
LEMMA PlaceInvariance == Spec => []PlaceInv
<1>1. Init => PlaceInv
    <2> SUFFICES ASSUME Init PROVE PlaceInv
        OBVIOUS
    <2>1. ShapeOK /\ OrderInv /\ ListsOK /\ SortedInv
        <3>1. Len(Pool) > 0 /\ <<>> \in Seq(Member) /\ Len(<<>>) = 0
            BY Members, PoolAssumption, LenProperties, EmptySeq
        <3> QED BY <3>1 DEF Init, ShapeOK, Steps, OrderInv, ListsOK, SortedInv
    <2>2. TableOK
        BY DEF Init, TableOK, NothingSeen
    <2>3. CalmInv
        BY DEF Init, CalmInv
    <2>4. \A c : SessionsOn(bound, c) = 0
        <3>1. \A c : {s \in Session : bound[s] # None /\ Connection[bound[s]] = c} = {}
            BY DEF Init
        <3> QED BY <3>1, FS_EmptySet DEF SessionsOn
    <2>5. SessionsPlaced
        BY <2>4 DEF Init, SessionsPlaced
    <2> QED BY <2>1, <2>2, <2>3, <2>5 DEF PlaceInv
<1> QED BY <1>1, PlaceStep, PTL DEF Spec

(* Whatever the pool, the sessions and the room in the table: as long as    *)
(* nothing goes wrong, the concurrent requests of a session are on the      *)
(* member it is bound to, and a balance pool keeps its connections within   *)
(* one session of each other (affinity.go, under the lock of the table).    *)
THEOREM PlacedTogether == Spec => []SessionsPlaced
<1>1. PlaceInv => SessionsPlaced
    BY DEF PlaceInv
<1> QED BY PlaceInvariance, <1>1, PTL

(* A new session does not start on a member that is cooling at the bind, by  *)
(* what its request saw of it, unless all it could choose are (affinity.go,  *)
(* health.go): whatever time passes between its looks, its sort and its bind. *)
THEOREM CoolingAvoided == Spec => NewSessionAvoidsCooling
<1> DEFINE Avoids(r) == bound[session'[r]] = None /\ bound'[session'[r]] \in Cooled(r)
                            => ToSet(Candidates(r)) \subseteq Cooled(r)
<1>1. ASSUME PlaceInv, [Next]_vars, NEW r \in Request, pc[r] = "ask", pc'[r] = "ready", session'[r] # None
      PROVE  Avoids(r)
    <2>1. PICK s \in Session \cup {None} : Bind(r, s)
        <3>1. pc \in [Request -> Steps]
            BY <1>1 DEF PlaceInv, ShapeOK
        <3>2. ASSUME NEW q \in Request, NEW l, pc' = [pc EXCEPT ![q] = l], q # r PROVE FALSE
            BY <1>1, <3>1, <3>2
        <3>3. ASSUME NEW q \in Request, Look(q) \/ Sort(q) \/ Ask(q) PROVE FALSE
            <4>1. CASE Ask(q)
                BY <1>1, <4>1 DEF Ask
            <4>2. CASE Look(q) \/ Sort(q)
                <5>1. pc[q] # "ask" /\ \E l : pc' = [pc EXCEPT ![q] = l]
                    BY <4>2 DEF Look, Sort
                <5> QED BY <1>1, <3>2, <5>1
            <4> QED BY <3>3, <4>1, <4>2
        <3>4. ASSUME NEW q \in Request,
                     Acquire(q) \/ Answer(q) \/ Fail(q) \/ Leave(q) \/ Break(q) \/ Finish(q) \/ Move(q)
              PROVE  FALSE
            <4>1. pc[q] # "ask" /\ \E l : pc' = [pc EXCEPT ![q] = l]
                BY <3>4 DEF Acquire, Answer, Fail, Leave, Break, Finish, Failed, Move, Done, Goto
            <4> QED BY <1>1, <3>2, <4>1
        <3>5. ASSUME NEW q \in Request, NEW s \in Session \cup {None}, Bind(q, s) PROVE q = r
            BY <3>2, <3>5 DEF Bind
        <3>6. ~UNCHANGED pc
            BY <1>1
        <3> QED BY <1>1, <3>3, <3>4, <3>5, <3>6 DEF Next, Step, Tick, Recover, ProbeFails, SignInOrOut, Age, ClearSessions, vars
    <2>2. session'[r] = s
        BY <1>1, <2>1 DEF Bind, PlaceInv, ShapeOK
    <2>3. PICK m \in ToSet(Candidates(r)) : BindCandidates(s, Candidates(r), Cooled(r), Lead(Candidates(r), m))
        BY <1>1, <2>1, <2>2 DEF Bind
    <2>4. /\ s \in Session /\ Candidates(r) \in Seq(Member) /\ Candidates(r) # <<>> /\ m \in Member
          /\ ToSet(Candidates(r)) \subseteq Member
          /\ Head(Candidates(r)) \in Cooled(r) => ToSet(Candidates(r)) \subseteq Cooled(r)
        BY <1>1, <2>2, <2>3, ChosenCooled DEF PlaceInv
    <2>5. Head(Lead(Candidates(r), m)) = m
        BY <2>4, Leads
    <2>6. bound'[s] = m /\ (m \in Cooled(r) => ToSet(Candidates(r)) \subseteq Cooled(r) \/ Keeps(Candidates(r), s))
        <3>1. PICK cands, cooled : cands = Candidates(r) /\ cooled = Cooled(r)
            OBVIOUS
        <3>2. bound'[s] = m /\ (m \in cooled => ToSet(cands) \subseteq cooled \/ Keeps(cands, s))
            BY <1>1, <2>3, <2>4, <2>5, <3>1, Placed DEF PlaceInv
        <3> QED BY <3>1, <3>2
    <2>7. Keeps(Candidates(r), s) => bound[s] # None
        BY <2>4, NoneAssumption DEF Keeps
    <2> QED BY <2>2, <2>6, <2>7
<1>2. PlaceInv /\ [Next]_vars =>
          [\A r \in Request : pc[r] = "ask" /\ pc'[r] = "ready" /\ session'[r] # None => Avoids(r)]_vars
    BY <1>1
<1> QED BY PlaceInvariance, <1>2, PTL DEF Spec, NewSessionAvoidsCooling

-----------------------------------------------------------------------------
(* What a recursion over 0..N makes, and the lists made of lists.           *)

\* The functions that take these steps.
Taking(F, N, base, S) == {g \in [0..N -> S] : g[0] = base /\ \A n \in 1..N : g[n] = F[n][g[n - 1]]}

LEMMA Recursion ==
    ASSUME NEW S, NEW base \in S, NEW N \in Nat, NEW F \in [1..N -> [S -> S]]
    PROVE  \E g : g \in Taking(F, N, base, S)
<1> DEFINE Is(g, m) == g \in [0..m -> S] /\ g[0] = base /\ \A n \in 1..m : g[n] = F[n][g[n - 1]]
           U == {m \in Nat : m <= N => \E g : Is(g, m)}
<1>1. 0 \in U
    <2>1. Is([n \in 0..0 |-> base], 0)
        OBVIOUS
    <2> QED BY <2>1
<1>2. ASSUME NEW m \in Nat, m \in U, m + 1 <= N PROVE \E g : Is(g, m + 1)
    <2>1. PICK g : Is(g, m)
        BY <1>2
    <2> DEFINE h == [n \in 0..(m + 1) |-> IF n = m + 1 THEN F[m + 1][g[m]] ELSE g[n]]
    <2>2. g[m] \in S /\ m + 1 \in 1..N
        BY <2>1, <1>2
    <2>3. F[m + 1][g[m]] \in S
        BY <2>2
    <2>4. h \in [0..(m + 1) -> S] /\ h[0] = base
        BY <2>1, <2>3
    <2>5. \A n \in 1..(m + 1) : h[n] = F[n][h[n - 1]]
        <3> TAKE n \in 1..(m + 1)
        <3>1. CASE n = m + 1
            <4>1. h[n - 1] = g[m]
                BY <3>1
            <4> QED BY <3>1, <4>1
        <3>2. CASE n # m + 1
            <4>1. n \in 1..m /\ h[n] = g[n] /\ h[n - 1] = g[n - 1]
                BY <3>2
            <4> QED BY <4>1, <2>1
        <3> QED BY <3>1, <3>2
    <2> HIDE DEF h
    <2> QED BY <2>4, <2>5
<1>3. ASSUME NEW m \in Nat, m \in U PROVE m + 1 \in U
    <2> HIDE DEF Is
    <2>1. m + 1 <= N => \E g : Is(g, m + 1)
        BY <1>2, <1>3
    <2> QED BY <2>1
<1>4. N \in U
    <2> HIDE DEF U
    <2> QED BY <1>1, <1>3, NumberInduction
<1>5. PICK g : Is(g, N)
    BY <1>4, SMTT(40)
<1> QED BY <1>5 DEF Taking

LEMMA FlatIs ==
    ASSUME NEW S, NEW s \in Seq(Seq(S))
    PROVE  \E g : /\ g = [n \in 0..Len(s) |-> IF n = 0 THEN <<>> ELSE g[n - 1] \o s[n]]
                  /\ Flat(s) = g[Len(s)]
<1> DEFINE N == Len(s)
           F == [n \in 1..N |-> [x \in Seq(S) |-> x \o s[n]]]
           Is(g) == g = [n \in 0..N |-> IF n = 0 THEN <<>> ELSE g[n - 1] \o s[n]]
<1>1. N \in Nat /\ <<>> \in Seq(S) /\ \A n \in 1..N : s[n] \in Seq(S)
    BY LenProperties, ElementOfSeq, EmptySeq
<1>2. F \in [1..N -> [Seq(S) -> Seq(S)]]
    BY <1>1, ConcatProperties
<1>3. PICK g \in [0..N -> Seq(S)] : g[0] = <<>> /\ \A n \in 1..N : g[n] = F[n][g[n - 1]]
    <2> HIDE DEF F, N
    <2>1. \E g : g \in Taking(F, N, <<>>, Seq(S))
        BY <1>1, <1>2, Recursion
    <2> QED BY <2>1 DEF Taking
<1>4. ASSUME NEW n \in 1..N PROVE g[n] = g[n - 1] \o s[n]
    <2>1. n - 1 \in 0..N
        BY <1>1
    <2>2. g[n - 1] \in Seq(S)
        BY <2>1, <1>3
    <2> QED BY <2>2, <1>3
<1>5. Is(g)
    <2>1. \A n \in 0..N : n # 0 => n \in 1..N
        BY <1>1
    <2> HIDE DEF F, N
    <2>2. \A n \in 0..N : g[n] = IF n = 0 THEN <<>> ELSE g[n - 1] \o s[n]
        BY <2>1, <1>3, <1>4
    <2> QED BY <2>2, <1>3
<1> DEFINE c == CHOOSE f : Is(f)
<1>6. Is(c)
    <2> HIDE DEF Is
    <2> QED BY <1>5
<1>7. Flat(s) = c[N]
    BY DEF Flat
<1> QED BY <1>6, <1>7, Zenon

LEMMA FlatAppend ==
    ASSUME NEW S, NEW s \in Seq(Seq(S)), NEW e \in Seq(S)
    PROVE  Flat(Append(s, e)) = Flat(s) \o e
<1> DEFINE t == Append(s, e)
           Is(g, u) == g = [n \in 0..Len(u) |-> IF n = 0 THEN <<>> ELSE g[n - 1] \o u[n]]
<1>1. /\ t \in Seq(Seq(S)) /\ Len(t) = Len(s) + 1 /\ t[Len(t)] = e /\ Len(s) \in Nat
      /\ \A n \in 1..Len(s) : t[n] = s[n]
    BY AppendProperties, LenProperties
<1>2. PICK f : Is(f, s) /\ Flat(s) = f[Len(s)]
    BY FlatIs
<1>3. PICK g : Is(g, t) /\ Flat(t) = g[Len(t)]
    BY <1>1, FlatIs
<1> HIDE DEF t
<1>4. ASSUME NEW n \in 1..Len(s) PROVE f[n] = f[n - 1] \o s[n] /\ g[n] = g[n - 1] \o s[n]
    <2>1. n \in 0..Len(s) /\ n \in 0..Len(t) /\ n # 0 /\ t[n] = s[n]
        BY <1>1
    <2> QED BY <2>1, <1>2, <1>3
<1>5. f[0] = <<>> /\ g[0] = <<>> /\ g[Len(t)] = g[Len(s)] \o e
    <2>1. 0 \in 0..Len(s) /\ 0 \in 0..Len(t) /\ Len(t) \in 0..Len(t) /\ Len(t) # 0 /\ Len(t) - 1 = Len(s)
        BY <1>1
    <2> QED BY <1>1, <1>2, <1>3, <2>1
<1>6. f[Len(s)] = g[Len(s)]
    <2> DEFINE T == {n \in Nat : n \in 0..Len(s) => f[n] = g[n]}
    <2>1. 0 \in T
        BY <1>5
    <2>2. ASSUME NEW n \in Nat, n \in T, n + 1 \in 0..Len(s) PROVE f[n + 1] = g[n + 1]
        <3>1. n \in 0..Len(s) /\ n + 1 \in 1..Len(s) /\ (n + 1) - 1 = n
            BY <1>1, <2>2
        <3> QED BY <3>1, <2>2, <1>4
    <2>3. \A n \in Nat : n \in T => n + 1 \in T
        BY <2>2
    <2> HIDE DEF T
    <2>4. Nat \subseteq T
        BY <2>1, <2>3, NumberInduction
    <2> USE DEF T
    <2> QED BY <2>4, <1>1
<1> QED BY <1>2, <1>3, <1>5, <1>6 DEF t

LEMMA TotalIs ==
    ASSUME NEW s \in Seq(Nat)
    PROVE  \E g : /\ g = [n \in 0..Len(s) |-> IF n = 0 THEN 0 ELSE g[n - 1] + s[n]]
                  /\ Total(s) = g[Len(s)]
<1> DEFINE N == Len(s)
           F == [n \in 1..N |-> [x \in Nat |-> x + s[n]]]
           Is(g) == g = [n \in 0..N |-> IF n = 0 THEN 0 ELSE g[n - 1] + s[n]]
<1>1. N \in Nat /\ 0 \in Nat /\ \A n \in 1..N : s[n] \in Nat
    BY LenProperties, ElementOfSeq
<1>2. F \in [1..N -> [Nat -> Nat]]
    BY <1>1
<1>3. PICK g \in [0..N -> Nat] : g[0] = 0 /\ \A n \in 1..N : g[n] = F[n][g[n - 1]]
    <2> HIDE DEF F, N
    <2>1. \E g : g \in Taking(F, N, 0, Nat)
        BY <1>1, <1>2, Recursion
    <2> QED BY <2>1 DEF Taking
<1>4. ASSUME NEW n \in 1..N PROVE g[n] = g[n - 1] + s[n]
    <2>1. n - 1 \in 0..N
        BY <1>1
    <2>2. g[n - 1] \in Nat
        BY <2>1, <1>3
    <2> QED BY <2>2, <1>3
<1>5. Is(g)
    <2>1. \A n \in 0..N : n # 0 => n \in 1..N
        BY <1>1
    <2> HIDE DEF F, N
    <2>2. \A n \in 0..N : g[n] = IF n = 0 THEN 0 ELSE g[n - 1] + s[n]
        BY <2>1, <1>3, <1>4
    <2> QED BY <2>2, <1>3
<1> DEFINE c == CHOOSE f : Is(f)
<1>6. Is(c)
    <2> HIDE DEF Is
    <2> QED BY <1>5
<1>7. Total(s) = c[N]
    BY DEF Total
<1> QED BY <1>6, <1>7

LEMMA TotalAppend ==
    ASSUME NEW s \in Seq(Nat), NEW e \in Nat
    PROVE  Total(Append(s, e)) = Total(s) + e
<1> DEFINE t == Append(s, e)
           Is(g, u) == g = [n \in 0..Len(u) |-> IF n = 0 THEN 0 ELSE g[n - 1] + u[n]]
<1>1. /\ t \in Seq(Nat) /\ Len(t) = Len(s) + 1 /\ t[Len(t)] = e /\ Len(s) \in Nat
      /\ \A n \in 1..Len(s) : t[n] = s[n]
    BY AppendProperties, LenProperties
<1>2. PICK f : Is(f, s) /\ Total(s) = f[Len(s)]
    BY TotalIs
<1>3. PICK g : Is(g, t) /\ Total(t) = g[Len(t)]
    BY <1>1, TotalIs
<1> HIDE DEF t
<1>4. ASSUME NEW n \in 1..Len(s) PROVE f[n] = f[n - 1] + s[n] /\ g[n] = g[n - 1] + s[n]
    <2>1. n \in 0..Len(s) /\ n \in 0..Len(t) /\ n # 0 /\ t[n] = s[n]
        BY <1>1
    <2> QED BY <2>1, <1>2, <1>3
<1>5. f[0] = 0 /\ g[0] = 0 /\ g[Len(t)] = g[Len(s)] + e
    <2>1. 0 \in 0..Len(s) /\ 0 \in 0..Len(t) /\ Len(t) \in 0..Len(t) /\ Len(t) # 0 /\ Len(t) - 1 = Len(s)
        BY <1>1
    <2> QED BY <1>1, <1>2, <1>3, <2>1
<1>6. f[Len(s)] = g[Len(s)]
    <2> DEFINE T == {n \in Nat : n \in 0..Len(s) => f[n] = g[n]}
    <2>1. 0 \in T
        BY <1>5
    <2>2. ASSUME NEW n \in Nat, n \in T, n + 1 \in 0..Len(s) PROVE f[n + 1] = g[n + 1]
        <3>1. n \in 0..Len(s) /\ n + 1 \in 1..Len(s) /\ (n + 1) - 1 = n
            BY <1>1, <2>2, SMTT(40)
        <3> QED BY <3>1, <2>2, <1>4
    <2>3. \A n \in Nat : n \in T => n + 1 \in T
        BY <2>2
    <2> HIDE DEF T
    <2>4. Nat \subseteq T
        BY <2>1, <2>3, NumberInduction
    <2> USE DEF T
    <2> QED BY <2>4, <1>1
<1> QED BY <1>2, <1>3, <1>5, <1>6 DEF t

\* A list that goes on as another one, and ends with e.
LEMMA EndsWith ==
    ASSUME NEW S, NEW s \in Seq(S), NEW e \in S, NEW t \in Seq(S), Len(t) = Len(s) + 1,
           t[Len(s) + 1] = e, \A i \in 1..Len(s) : t[i] = s[i]
    PROVE  t = Append(s, e)
<1> DEFINE a == Append(s, e)
<1>1. /\ a \in Seq(S) /\ Len(a) = Len(s) + 1 /\ Len(s) \in Nat
      /\ a[Len(s) + 1] = e /\ \A i \in 1..Len(s) : a[i] = s[i]
    BY AppendProperties, LenProperties
<1> HIDE DEF a
<1>2. \A i \in 1..Len(t) : t[i] = a[i]
    <2>1. \A i \in 1..Len(t) : i \in 1..Len(s) \/ i = Len(s) + 1
        BY <1>1
    <2> QED BY <1>1, <2>1
<1>3. t = a
    BY <1>1, <1>2, SeqEqual
<1> QED BY <1>3 DEF a

\* Joining goes on the same way.
LEMMA JoinAppend ==
    ASSUME NEW S, NEW s \in Seq(S), NEW u \in Seq(S), NEW e \in S
    PROVE  s \o Append(u, e) = Append(s \o u, e)
<1>1. s \o u \in Seq(S) /\ <<e>> \in Seq(S)
    BY ConcatProperties
<1>2. Append(u, e) = u \o <<e>> /\ Append(s \o u, e) = (s \o u) \o <<e>>
    BY <1>1, AppendIsConcat
<1>3. (s \o u) \o <<e>> = s \o (u \o <<e>>)
    BY <1>1, ConcatAssociative
<1> QED BY <1>2, <1>3

LEMMA FlatFacts ==
    ASSUME NEW S
    PROVE  /\ Flat(<<>>) = <<>>
           /\ \A s \in Seq(Seq(S)) : Flat(s) \in Seq(S)
           /\ \A s, t \in Seq(Seq(S)) : Flat(s \o t) = Flat(s) \o Flat(t)
<1>1. Flat(<<>>) = <<>>
    <2>1. <<>> \in Seq(Seq(S)) /\ Len(<<>>) = 0
        BY EmptySeq
    <2>2. PICK g : /\ g = [n \in 0..Len(<<>>) |-> IF n = 0 THEN <<>> ELSE g[n - 1] \o <<>>[n]]
                   /\ Flat(<<>>) = g[Len(<<>>)]
        BY <2>1, FlatIs
    <2>3. g[0] = <<>>
        BY <2>1, <2>2
    <2> QED BY <2>1, <2>2, <2>3
<1>2. ASSUME NEW s \in Seq(Seq(S)) PROVE Flat(s) \in Seq(S)
    <2> DEFINE T == {u \in Seq(Seq(S)) : Flat(u) \in Seq(S)}
    <2>1. <<>> \in T
        BY <1>1, EmptySeq
    <2>2. ASSUME NEW u \in Seq(Seq(S)), NEW e \in Seq(S), u \in T PROVE Append(u, e) \in T
        BY <2>2, FlatAppend, AppendProperties, ConcatProperties
    <2> HIDE DEF T
    <2>3. Seq(Seq(S)) \subseteq T
        BY <2>1, <2>2, ListInduction
    <2> USE DEF T
    <2> QED BY <2>3
<1>3. ASSUME NEW B, B = Seq(S), NEW s \in Seq(B), NEW t \in Seq(B) PROVE Flat(s \o t) = Flat(s) \o Flat(t)
    <2> DEFINE T == {u \in Seq(B) : Flat(s \o u) = Flat(s) \o Flat(u)}
    <2>1. \A u \in Seq(B), e \in B : Flat(u) \in Seq(S) /\ e \in Seq(S) /\ Flat(Append(u, e)) = Flat(u) \o e
        BY <1>2, <1>3, FlatAppend
    <2>2. <<>> \in T
        <3>1. s \o <<>> = s /\ <<>> \in Seq(B)
            BY EmptySeq, ConcatEmptySeq
        <3>2. Flat(s) \o <<>> = Flat(s)
            BY <1>2, <1>3, ConcatEmptySeq
        <3> QED BY <1>1, <3>1, <3>2
    <2>3. ASSUME NEW u \in Seq(B), NEW e \in B, u \in T PROVE Append(u, e) \in T
        <3>1. Append(u, e) \in Seq(B) /\ s \o u \in Seq(B)
            BY AppendProperties, ConcatProperties
        <3>2. s \o Append(u, e) = Append(s \o u, e)
            BY JoinAppend
        <3>3. Flat(Append(s \o u, e)) = Flat(s \o u) \o e /\ Flat(Append(u, e)) = Flat(u) \o e
            BY <3>1, <2>1
        <3>4. Flat(s) \in Seq(S) /\ Flat(u) \in Seq(S) /\ e \in Seq(S)
            BY <2>1, <1>2, <1>3
        <3>5. (Flat(s) \o Flat(u)) \o e = Flat(s) \o (Flat(u) \o e)
            BY <3>4, ConcatAssociative
        <3> QED BY <2>3, <3>1, <3>2, <3>3, <3>5
    <2> HIDE DEF T
    <2>4. Seq(B) \subseteq T
        BY <2>2, <2>3, ListInduction
    <2> USE DEF T
    <2> QED BY <2>4
<1> QED BY <1>1, <1>2, <1>3

LEMMA TotalFacts ==
    /\ Total(<<>>) = 0
    /\ \A s \in Seq(Nat) : Total(s) \in Nat
    /\ \A s \in Seq(Nat) : (\A i \in 1..Len(s) : s[i] = 0) => Total(s) = 0
<1>1. Total(<<>>) = 0
    <2>1. <<>> \in Seq(Nat) /\ Len(<<>>) = 0
        BY EmptySeq
    <2>2. PICK g : /\ g = [n \in 0..Len(<<>>) |-> IF n = 0 THEN 0 ELSE g[n - 1] + <<>>[n]]
                   /\ Total(<<>>) = g[Len(<<>>)]
        BY <2>1, TotalIs
    <2>3. g[0] = 0
        BY <2>1, <2>2
    <2> QED BY <2>1, <2>2, <2>3
<1> DEFINE T == {u \in Seq(Nat) : /\ Total(u) \in Nat
                                  /\ (\A i \in 1..Len(u) : u[i] = 0) => Total(u) = 0}
<1>2. <<>> \in T
    BY <1>1, EmptySeq
<1>3. ASSUME NEW u \in Seq(Nat), NEW e \in Nat, u \in T PROVE Append(u, e) \in T
    <2>1. /\ Append(u, e) \in Seq(Nat) /\ Len(Append(u, e)) = Len(u) + 1 /\ Append(u, e)[Len(u) + 1] = e
          /\ Len(u) \in Nat /\ \A i \in 1..Len(u) : Append(u, e)[i] = u[i]
        BY AppendProperties, LenProperties
    <2>2. Total(Append(u, e)) = Total(u) + e
        BY TotalAppend
    <2>3. Total(Append(u, e)) \in Nat
        BY <1>3, <2>2
    <2>4. (\A i \in 1..Len(Append(u, e)) : Append(u, e)[i] = 0) => Total(Append(u, e)) = 0
        <3> HAVE \A i \in 1..Len(Append(u, e)) : Append(u, e)[i] = 0
        <3>1. e = 0 /\ \A i \in 1..Len(u) : u[i] = 0
            BY <2>1
        <3> QED BY <1>3, <2>2, <3>1
    <2> QED BY <2>1, <2>3, <2>4
<1> HIDE DEF T
<1>4. Seq(Nat) \subseteq T
    BY <1>2, <1>3, ListInduction
<1> USE DEF T
<1> QED BY <1>1, <1>4

\* One number changes.
LEMMA TotalChange ==
    \A s, t \in Seq(Nat), i \in Nat :
        /\ Len(t) = Len(s) /\ i \in 1..Len(s) /\ \A j \in 1..Len(s) : j # i => t[j] = s[j]
        => Total(t) + s[i] = Total(s) + t[i]
<1> DEFINE Differ(u, v, k) == Len(v) = Len(u) /\ k \in 1..Len(u) /\ \A j \in 1..Len(u) : j # k => v[j] = u[j]
           T == {u \in Seq(Nat) : \A v \in Seq(Nat), k \in 1..Len(u) :
                                      Differ(u, v, k) => Total(v) + u[k] = Total(u) + v[k]}
<1>1. <<>> \in T
    BY EmptySeq
<1>2. ASSUME NEW x \in Seq(Nat), NEW e \in Nat, x \in T PROVE Append(x, e) \in T
    <2>1. PICK u \in Seq(Nat) : u = Append(x, e)
        BY AppendProperties
    <2>2. Len(u) = Len(x) + 1 /\ u[Len(x) + 1] = e /\ Len(x) \in Nat /\ \A j \in 1..Len(x) : u[j] = x[j]
        BY <2>1, AppendProperties, LenProperties
    <2>3. Total(u) = Total(x) + e /\ Total(x) \in Nat
        BY <2>1, TotalAppend, TotalFacts
    <2>4. ASSUME NEW v \in Seq(Nat), NEW k \in 1..Len(u), Differ(u, v, k) PROVE Total(v) + u[k] = Total(u) + v[k]
        <3>1. v # <<>>
            BY <2>2, <2>4, EmptySeq
        <3>2. PICK y \in Seq(Nat), f \in Nat : v = Append(y, f)
            BY <3>1, SequenceEmptyOrAppend
        <3>3. Len(v) = Len(y) + 1 /\ v[Len(y) + 1] = f /\ Len(y) \in Nat /\ \A j \in 1..Len(y) : v[j] = y[j]
            BY <3>2, AppendProperties, LenProperties
        <3>4. Total(v) = Total(y) + f /\ Total(y) \in Nat
            BY <3>2, TotalAppend, TotalFacts
        <3>5. Len(y) = Len(x)
            BY <2>2, <2>4, <3>3
        <3>6. CASE k = Len(x) + 1
            <4>1. ASSUME NEW j \in 1..Len(x) PROVE x[j] = y[j]
                <5>1. j \in 1..Len(u) /\ j # k /\ u[j] = x[j] /\ v[j] = y[j]
                    BY <2>2, <3>3, <3>5, <3>6
                <5> QED BY <2>4, <5>1
            <4>2. x = y
                BY <3>5, <4>1, SeqEqual
            <4>3. u[k] = e /\ v[k] = f /\ Total(u) = Total(x) + e /\ Total(v) = Total(x) + f
                BY <2>2, <2>3, <3>3, <3>4, <3>5, <3>6, <4>2
            <4> QED BY <2>3, <4>3
        <3>7. CASE k \in 1..Len(x)
            <4>1. Len(u) \in 1..Len(u) /\ Len(u) # k /\ u[Len(u)] = e /\ v[Len(u)] = f
                <5>1. Len(x) + 1 \in 1..(Len(x) + 1) /\ Len(x) + 1 # k
                    BY <2>2, <3>7
                <5> QED BY <5>1, <2>2, <3>3, <3>5
            <4>2. e = f
                BY <2>4, <4>1
            <4>3. ASSUME NEW j \in 1..Len(x), j # k PROVE y[j] = x[j]
                <5>1. j \in 1..Len(u) /\ u[j] = x[j] /\ v[j] = y[j]
                    BY <2>2, <3>3, <3>5
                <5> QED BY <2>4, <4>3, <5>1
            <4>4. Differ(x, y, k)
                BY <3>5, <3>7, <4>3
            <4>5. Total(y) + x[k] = Total(x) + y[k]
                BY <1>2, <3>7, <4>4
            <4>6. u[k] = x[k] /\ v[k] = y[k] /\ x[k] \in Nat /\ y[k] \in Nat
                BY <2>2, <3>3, <3>5, <3>7, ElementOfSeq
            <4> HIDE DEF Differ
            <4>7. Total(u) = Total(x) + e /\ Total(v) = Total(y) + e
                BY <2>3, <3>4, <4>2
            <4> HIDE DEF T
            <4>8. PICK a \in Nat, b \in Nat, c \in Nat, d \in Nat :
                      a = Total(x) /\ b = Total(y) /\ c = x[k] /\ d = y[k]
                BY <2>3, <3>4, <4>6
            <4>9. b + c = a + d
                BY <4>5, <4>8
            <4>10. (b + e) + c = (a + e) + d
                BY <4>9
            <4> QED BY <4>6, <4>7, <4>8, <4>10
        <3> QED BY <2>2, <3>6, <3>7
    <2> HIDE DEF Differ
    <2> QED BY <2>1, <2>4
<1> HIDE DEF T
<1>3. Seq(Nat) \subseteq T
    BY <1>1, <1>2, ListInduction
<1> USE DEF T
<1> QED BY <1>3

-----------------------------------------------------------------------------
(* The conversation: its texts, and what the client's blocks say.           *)

Symbols == {"x", "/"}
Text == Seq(Symbols)
Id == Nat \X Nat \X Nat
Tool == [id : Id, n : Nat]
Kinds == {"text", "thinking", "tool"}
Block == [kind : Kinds, id : Id \cup {0}, body : Text, open : BOOLEAN]
Echoed == [text : Text, tools : Seq(Tool \cup [id : {0}, n : Nat])]

\* CodexTurn's list operators are those of Lists.
LEMMA SameLists ==
    /\ \A s, X : Talk!Only(s, X) = Only(s, X)
    /\ \A s : Talk!Flat(s) = Flat(s) /\ Talk!Total(s) = Total(s)
<1>1. ASSUME NEW s, NEW X PROVE Talk!Only(s, X) = Only(s, X)
    BY DEF Talk!Only, Only
<1>2. ASSUME NEW s PROVE Talk!Flat(s) = Flat(s)
    BY DEF Talk!Flat, Flat
<1>3. ASSUME NEW s PROVE Talk!Total(s) = Total(s)
    BY DEF Talk!Total, Total
<1> QED BY <1>1, <1>2, <1>3

LEMMA XsFacts ==
    /\ \A s \in Text : Talk!Xs(s) \in Nat
    /\ \A s, t \in Text : Talk!Xs(s \o t) = Talk!Xs(s) + Talk!Xs(t)
    /\ Talk!Xs(<<>>) = 0 /\ Talk!Xs(<<"/">>) = 0
    /\ \A s \in Seq({"x"}) : s \in Text /\ Talk!Xs(s) = Len(s)
<1> DEFINE xs(s) == Len(Only(s, {"x"}))
<1>1. \A s : Talk!Xs(s) = xs(s)
    BY SameLists DEF Talk!Xs
<1>2. \A s \in Text : Only(s, {"x"}) \in Seq(Symbols \cap {"x"})
    BY OnlySet DEF Text
<1>3. ASSUME NEW s \in Text PROVE Talk!Xs(s) \in Nat
    BY <1>1, <1>2, LenProperties
<1>4. ASSUME NEW s \in Text, NEW t \in Text PROVE Talk!Xs(s \o t) = Talk!Xs(s) + Talk!Xs(t)
    <2>1. Only(s \o t, {"x"}) = Only(s, {"x"}) \o Only(t, {"x"})
        BY OnlyConcat DEF Text
    <2>2. \A p, q \in Seq(Symbols \cap {"x"}) : Len(p \o q) = Len(p) + Len(q)
        BY ConcatProperties
    <2> QED BY <1>1, <1>2, <2>1, <2>2
<1>5. Talk!Xs(<<>>) = 0
    BY <1>1, OnlyEmpty, EmptySeq
<1>6. Talk!Xs(<<"/">>) = 0
    <2>1. Append(<<>>, "/") = <<"/">> /\ "/" \in Symbols /\ <<>> \in Seq(Symbols)
        BY DEF Symbols
    <2>2. Only(Append(<<>>, "/"), {"x"}) = Only(<<>>, {"x"})
        BY <2>1, OnlyAppend
    <2> QED BY <1>1, <1>5, <2>1, <2>2
<1>7. ASSUME NEW s \in Seq({"x"}) PROVE s \in Text /\ Talk!Xs(s) = Len(s)
    <2> DEFINE T == {u \in Seq({"x"}) : Only(u, {"x"}) = u}
    <2>1. <<>> \in T
        BY OnlyEmpty, EmptySeq
    <2>2. ASSUME NEW u \in Seq({"x"}), NEW e \in {"x"}, u \in T PROVE Append(u, e) \in T
        BY <2>2, OnlyAppend, AppendProperties
    <2> HIDE DEF T
    <2>3. Seq({"x"}) \subseteq T
        BY <2>1, <2>2, ListInduction
    <2> USE DEF T
    <2>4. {"x"} \subseteq Symbols
        BY DEF Symbols
    <2>5. s \in Seq(Symbols)
        BY <2>4, SeqMonotonic
    <2> QED BY <2>3, <2>5, <1>1 DEF Text
<1> QED BY <1>3, <1>4, <1>5, <1>6, <1>7

LEMMA FragmentsAre ==
    ASSUME NEW n \in Nat
    PROVE  /\ Talk!Fragments(n) \in Seq({"x"}) /\ Talk!Fragments(n) \in Text /\ Len(Talk!Fragments(n)) = n
           /\ Talk!Fragments(n) = <<>> <=> n = 0
<1>1. Talk!Fragments(n) \in Seq({"x"}) /\ Len(Talk!Fragments(n)) = n
    BY DEF Talk!Fragments
<1> QED BY <1>1, XsFacts, EmptySeq

LEMMA ReadsType ==
    ASSUME NEW e \in Echoed, NEW b \in Block
    PROVE  Talk!Reads(e, b) \in Echoed
<1>1. CASE b.kind = "text"
    <2>1. e.text \in Text /\ b.body \in Text /\ <<"/">> \in Text /\ <<>> \in Text
        BY DEF Echoed, Block, Text, Symbols
    <2>2. e.text \o (IF e.text = <<>> THEN <<>> ELSE <<"/">>) \in Text
        BY <2>1, ConcatProperties DEF Text
    <2>3. e.text \o (IF e.text = <<>> THEN <<>> ELSE <<"/">>) \o b.body \in Text
        BY <2>1, <2>2, ConcatProperties DEF Text
    <2> QED BY <1>1, <2>3 DEF Talk!Reads, Echoed
<1>2. CASE b.kind = "tool"
    <2>1. [id |-> b.id, n |-> Len(b.body)] \in Tool \cup [id : {0}, n : Nat]
        BY LenProperties DEF Block, Tool, Text
    <2>2. Append(e.tools, [id |-> b.id, n |-> Len(b.body)]) \in Seq(Tool \cup [id : {0}, n : Nat])
        BY <2>1, AppendProperties DEF Echoed
    <2> QED BY <1>2, <2>2 DEF Talk!Reads, Echoed
<1>3. CASE b.kind = "thinking"
    BY <1>3 DEF Talk!Reads
<1> QED BY <1>1, <1>2, <1>3 DEF Block, Kinds

LEMMA EchoIs ==
    ASSUME NEW s \in Seq(Block)
    PROVE  \E g : /\ g = [n \in 0..Len(s) |-> IF n = 0 THEN [text |-> <<>>, tools |-> <<>>]
                                             ELSE Talk!Reads(g[n - 1], s[n])]
                  /\ Talk!Echo(s) = g[Len(s)]
<1> DEFINE N == Len(s)
           b == [text |-> <<>>, tools |-> <<>>]
           F == [n \in 1..N |-> [x \in Echoed |-> Talk!Reads(x, s[n])]]
           Is(g) == g = [n \in 0..N |-> IF n = 0 THEN b ELSE Talk!Reads(g[n - 1], s[n])]
<1>1. N \in Nat /\ b \in Echoed /\ \A n \in 1..N : s[n] \in Block
    BY LenProperties, ElementOfSeq DEF Echoed, Text
<1>2. F \in [1..N -> [Echoed -> Echoed]]
    BY <1>1, ReadsType
<1>3. PICK g \in [0..N -> Echoed] : g[0] = b /\ \A n \in 1..N : g[n] = F[n][g[n - 1]]
    <2> HIDE DEF F, N, b
    <2>1. \E g : g \in Taking(F, N, b, Echoed)
        BY <1>1, <1>2, Recursion
    <2> QED BY <2>1 DEF Taking
<1>4. ASSUME NEW n \in 1..N PROVE g[n] = Talk!Reads(g[n - 1], s[n])
    <2>1. n - 1 \in 0..N
        BY <1>1
    <2>2. g[n - 1] \in Echoed
        BY <2>1, <1>3
    <2> QED BY <2>2, <1>3
<1>5. Is(g)
    <2>1. \A n \in 0..N : n # 0 => n \in 1..N
        BY <1>1
    <2> HIDE DEF F, N, b
    <2>2. \A n \in 0..N : g[n] = IF n = 0 THEN b ELSE Talk!Reads(g[n - 1], s[n])
        BY <2>1, <1>3, <1>4
    <2> QED BY <2>2, <1>3
<1> DEFINE c == CHOOSE f : Is(f)
<1>6. Is(c)
    <2> HIDE DEF Is
    <2> QED BY <1>5
<1>7. Talk!Echo(s) = c[N]
    BY DEF Talk!Echo
<1> QED BY <1>6, <1>7

LEMMA EchoAppend ==
    ASSUME NEW s \in Seq(Block), NEW e \in Block
    PROVE  Talk!Echo(Append(s, e)) = Talk!Reads(Talk!Echo(s), e)
<1> DEFINE t == Append(s, e)
           b == [text |-> <<>>, tools |-> <<>>]
           Is(g, u) == g = [n \in 0..Len(u) |-> IF n = 0 THEN b ELSE Talk!Reads(g[n - 1], u[n])]
<1>1. /\ t \in Seq(Block) /\ Len(t) = Len(s) + 1 /\ t[Len(t)] = e /\ Len(s) \in Nat
      /\ \A n \in 1..Len(s) : t[n] = s[n]
    BY AppendProperties, LenProperties
<1>2. PICK f : Is(f, s) /\ Talk!Echo(s) = f[Len(s)]
    BY EchoIs
<1>3. PICK g : Is(g, t) /\ Talk!Echo(t) = g[Len(t)]
    BY <1>1, EchoIs
<1> HIDE DEF t, b
<1>4. ASSUME NEW n \in 1..Len(s)
      PROVE  f[n] = Talk!Reads(f[n - 1], s[n]) /\ g[n] = Talk!Reads(g[n - 1], s[n])
    <2>1. n \in 0..Len(s) /\ n \in 0..Len(t) /\ n # 0 /\ t[n] = s[n]
        BY <1>1
    <2> QED BY <2>1, <1>2, <1>3
<1>5. f[0] = b /\ g[0] = b /\ g[Len(t)] = Talk!Reads(g[Len(s)], e)
    <2>1. 0 \in 0..Len(s) /\ 0 \in 0..Len(t) /\ Len(t) \in 0..Len(t) /\ Len(t) # 0 /\ Len(t) - 1 = Len(s)
        BY <1>1
    <2> QED BY <1>1, <1>2, <1>3, <2>1
<1>6. f[Len(s)] = g[Len(s)]
    <2> DEFINE T == {n \in Nat : n \in 0..Len(s) => f[n] = g[n]}
    <2>1. 0 \in T
        BY <1>5
    <2>2. ASSUME NEW n \in Nat, n \in T, n + 1 \in 0..Len(s) PROVE f[n + 1] = g[n + 1]
        <3>1. n \in 0..Len(s) /\ n + 1 \in 1..Len(s) /\ (n + 1) - 1 = n
            BY <1>1, <2>2
        <3> QED BY <3>1, <2>2, <1>4
    <2>3. \A n \in Nat : n \in T => n + 1 \in T
        BY <2>2
    <2> HIDE DEF T
    <2>4. Nat \subseteq T
        BY <2>1, <2>3, NumberInduction
    <2> USE DEF T
    <2> QED BY <2>4, <1>1
<1> QED BY <1>2, <1>3, <1>5, <1>6 DEF t

LEMMA EchoFacts ==
    /\ Talk!Echo(<<>>) = [text |-> <<>>, tools |-> <<>>]
    /\ \A s \in Seq(Block) : Talk!Echo(s) \in Echoed
<1>1. Talk!Echo(<<>>) = [text |-> <<>>, tools |-> <<>>]
    <2>1. <<>> \in Seq(Block) /\ Len(<<>>) = 0
        BY EmptySeq
    <2>2. PICK g : /\ g = [n \in 0..Len(<<>>) |-> IF n = 0 THEN [text |-> <<>>, tools |-> <<>>]
                                                 ELSE Talk!Reads(g[n - 1], <<>>[n])]
                   /\ Talk!Echo(<<>>) = g[Len(<<>>)]
        BY <2>1, EchoIs
    <2>3. g[0] = [text |-> <<>>, tools |-> <<>>]
        BY <2>1, <2>2
    <2> QED BY <2>1, <2>2, <2>3
<1> DEFINE T == {u \in Seq(Block) : Talk!Echo(u) \in Echoed}
<1>2. <<>> \in T
    <2>1. [text |-> <<>>, tools |-> <<>>] \in Echoed
        BY DEF Echoed, Text
    <2> QED BY <1>1, <2>1, EmptySeq
<1>3. ASSUME NEW u \in Seq(Block), NEW e \in Block, u \in T PROVE Append(u, e) \in T
    BY <1>3, EchoAppend, ReadsType, AppendProperties
<1> HIDE DEF T
<1>4. Seq(Block) \subseteq T
    BY <1>2, <1>3, ListInduction
<1> USE DEF T
<1> QED BY <1>1, <1>4

\* The echo does not tell an open block from a closed one.
Alike(b, c) == b.kind = c.kind /\ b.id = c.id /\ b.body = c.body

LEMMA EchoAlike ==
    \A s, t \in Seq(Block) :
        Len(s) = Len(t) /\ (\A i \in 1..Len(s) : Alike(s[i], t[i])) => Talk!Echo(s) = Talk!Echo(t)
<1> DEFINE Same(u, v) == Len(u) = Len(v) /\ \A i \in 1..Len(u) : Alike(u[i], v[i])
           T == {u \in Seq(Block) : \A v \in Seq(Block) : Same(u, v) => Talk!Echo(u) = Talk!Echo(v)}
<1>1. <<>> \in T
    BY EmptySeq
<1>2. ASSUME NEW x \in Seq(Block), NEW e \in Block, x \in T PROVE Append(x, e) \in T
    <2>1. PICK u \in Seq(Block) : u = Append(x, e)
        BY AppendProperties
    <2>2. Len(u) = Len(x) + 1 /\ u[Len(x) + 1] = e /\ Len(x) \in Nat /\ \A j \in 1..Len(x) : u[j] = x[j]
        BY <2>1, AppendProperties, LenProperties
    <2>3. ASSUME NEW v \in Seq(Block), Same(u, v) PROVE Talk!Echo(u) = Talk!Echo(v)
        <3>1. v # <<>>
            BY <2>2, <2>3, EmptySeq
        <3>2. PICK y \in Seq(Block), f \in Block : v = Append(y, f)
            BY <3>1, SequenceEmptyOrAppend
        <3>3. Len(v) = Len(y) + 1 /\ v[Len(y) + 1] = f /\ Len(y) \in Nat /\ \A j \in 1..Len(y) : v[j] = y[j]
            BY <3>2, AppendProperties, LenProperties
        <3>4. Len(y) = Len(x)
            BY <2>2, <2>3, <3>3
        <3>5. ASSUME NEW j \in 1..Len(x) PROVE Alike(x[j], y[j])
            <4>1. j \in 1..Len(u) /\ u[j] = x[j] /\ v[j] = y[j]
                BY <2>2, <3>3, <3>4
            <4> QED BY <2>3, <4>1
        <3>6. Alike(e, f)
            <4>1. Len(u) \in 1..Len(u) /\ u[Len(u)] = e /\ v[Len(u)] = f
                BY <2>2, <3>3, <3>4
            <4> QED BY <2>3, <4>1
        <3>7. Talk!Echo(x) = Talk!Echo(y)
            BY <1>2, <3>4, <3>5
        <3>8. \A g : Talk!Reads(g, e) = Talk!Reads(g, f)
            BY <3>6 DEF Alike, Talk!Reads
        <3> QED BY <2>1, <3>2, <3>7, <3>8, EchoAppend
    <2> HIDE DEF Same
    <2> QED BY <2>1, <2>3
<1> HIDE DEF T
<1>3. Seq(Block) \subseteq T
    BY <1>1, <1>2, ListInduction
<1> USE DEF T
<1> QED BY <1>3

-----------------------------------------------------------------------------
(* The blocks of an answer.                                                 *)

Raw == [type : {"message", "call", "reasoning"}, turn : Nat, call : Nat, item : Nat, n : Nat]
Completion == [text : Seq({"x"}), got : Seq(Nat), tools : Seq(Tool), output : Seq(Raw), message : BOOLEAN]
Progress == [decoder : Completion, projection : [text : Text, block : {"none"} \cup Kinds],
             blocks : Seq(Block), open : Nat]

\* At most the last block is open, and the projection is what the client reads.
BlocksOK(s) ==
    /\ s \in Progress
    /\ s.open \in {0, Len(s.blocks)}
    /\ \A b \in 1..Len(s.blocks) : s.blocks[b].open <=> b = s.open
    /\ s.projection.block = IF s.open = 0 THEN "none" ELSE s.blocks[s.open].kind
    /\ s.projection.text = Talk!Echo(s.blocks).text

\* No block that was stopped changes.
KeepsStopped(s, t) ==
    /\ Len(s.blocks) <= Len(t.blocks)
    /\ \A b \in 1..Len(s.blocks) : ~s.blocks[b].open => t.blocks[b] = s.blocks[b]

\* Edits of a block.
LEMMA BlockEdits ==
    /\ \A b \in Block : \A c : c = [b EXCEPT !.open = FALSE] =>
           c \in Block /\ c.kind = b.kind /\ c.id = b.id /\ c.body = b.body /\ ~c.open
    /\ \A b \in Block, t \in Text : \A c : c = [b EXCEPT !.body = b.body \o t] =>
           c \in Block /\ c.kind = b.kind /\ c.id = b.id /\ c.open = b.open /\ c.body = b.body \o t
<1>1. ASSUME NEW b \in Block, NEW c, c = [b EXCEPT !.open = FALSE]
      PROVE  c \in Block /\ c.kind = b.kind /\ c.id = b.id /\ c.body = b.body /\ ~c.open
    BY <1>1 DEF Block
<1>2. ASSUME NEW b \in Block, NEW t \in Text, NEW c, c = [b EXCEPT !.body = b.body \o t]
      PROVE  c \in Block /\ c.kind = b.kind /\ c.id = b.id /\ c.open = b.open /\ c.body = b.body \o t
    <2>1. PICK f \in Text : f = b.body \o t
        BY ConcatProperties DEF Text, Block
    <2>2. c = [b EXCEPT !.body = f]
        BY <1>2, <2>1
    <2>3. c \in Block /\ c.kind = b.kind /\ c.id = b.id /\ c.open = b.open /\ c.body = f
        BY <2>2 DEF Block
    <2> QED BY <2>1, <2>3
<1> QED BY <1>1, <1>2

\* Joining in whatever order; by a name of its own the provers find it.
Join(a, b) == a \o b

LEMMA JoinFacts ==
    ASSUME NEW S, NEW a \in Seq(S), NEW b \in Seq(S), NEW c \in Seq(S)
    PROVE  Join(a, Join(b, c)) = Join(Join(a, b), c) /\ Join(a, b) \in Seq(S)
BY ConcatAssociative, ConcatProperties DEF Join

LEMMA JoinFour ==
    ASSUME NEW S, NEW p \in Seq(S), NEW q \in Seq(S), NEW r \in Seq(S), NEW t \in Seq(S)
    PROVE  Join(Join(p, q), Join(r, t)) = Join(Join(Join(p, q), r), t)
<1>1. PICK u \in Seq(S) : u = Join(p, q)
    BY JoinFacts
<1>2. Join(u, Join(r, t)) = Join(Join(u, r), t)
    BY JoinFacts
<1> QED BY <1>1, <1>2

LEMMA Closing ==
    ASSUME NEW s, BlocksOK(s), NEW c, c = Talk!CloseOpen(s)
    PROVE  /\ c \in Progress /\ c.decoder = s.decoder /\ c.projection = s.projection /\ c.open = 0
           /\ Len(c.blocks) = Len(s.blocks)
           /\ \A b \in 1..Len(s.blocks) : Alike(c.blocks[b], s.blocks[b]) /\ ~c.blocks[b].open
           /\ Talk!Echo(c.blocks) = Talk!Echo(s.blocks) /\ KeepsStopped(s, c)
<1>1. s.blocks \in Seq(Block) /\ Len(s.blocks) \in Nat /\ \A b \in 1..Len(s.blocks) : s.blocks[b] \in Block
    BY LenProperties, ElementOfSeq DEF BlocksOK, Progress
<1>2. CASE s.open = 0
    BY <1>1, <1>2 DEF Talk!CloseOpen, BlocksOK, Alike, KeepsStopped
<1>3. CASE s.open # 0
    <2> DEFINE last == [s.blocks[s.open] EXCEPT !.open = FALSE]
               bs == [s.blocks EXCEPT ![s.open] = last]
    <2>1. s.open \in 1..Len(s.blocks) /\ s.blocks[s.open] \in Block
        BY <1>1, <1>3 DEF BlocksOK
    <2>2. last \in Block /\ Alike(last, s.blocks[s.open]) /\ ~last.open
        BY <2>1, BlockEdits DEF Alike
    <2>3. bs \in Seq(Block) /\ Len(bs) = Len(s.blocks)
          /\ \A b \in 1..Len(s.blocks) : bs[b] = IF b = s.open THEN last ELSE s.blocks[b]
        BY <1>1, <2>1, <2>2, ExceptSeq
    <2>4. c = [s EXCEPT !.blocks = bs, !.open = 0]
        BY <1>3 DEF Talk!CloseOpen
    <2> HIDE DEF bs, last
    <2>5. c \in Progress /\ c.decoder = s.decoder /\ c.projection = s.projection /\ c.open = 0 /\ c.blocks = bs
        <3>1. s \in Progress
            BY DEF BlocksOK
        <3>2. PICK n \in Nat : n = 0
            OBVIOUS
        <3>3. c = [s EXCEPT !.blocks = bs, !.open = n]
            BY <2>4, <3>2
        <3>4. bs \in Seq(Block)
            BY <2>3
        <3>5. c \in Progress /\ c.decoder = s.decoder /\ c.projection = s.projection /\ c.blocks = bs /\ c.open = n
            BY <3>1, <3>3, <3>4 DEF Progress
        <3> QED BY <3>2, <3>5
    <2>6. \A b \in 1..Len(s.blocks) : Alike(bs[b], s.blocks[b]) /\ ~bs[b].open
        BY <2>1, <2>2, <2>3 DEF Alike, BlocksOK
    <2>7. Talk!Echo(bs) = Talk!Echo(s.blocks)
        BY <1>1, <2>3, <2>6, EchoAlike
    <2>8. KeepsStopped(s, c)
        BY <1>1, <2>1, <2>3, <2>5 DEF KeepsStopped, BlocksOK
    <2> QED BY <2>3, <2>5, <2>6, <2>7, <2>8
<1> QED BY <1>2, <1>3

\* A block that is opened and written to.
LEMMA Opening ==
    ASSUME NEW s, BlocksOK(s), NEW kind \in Kinds, NEW id \in Id \cup {0}, NEW body \in Text,
           NEW w, LET o == Talk!OpenBlock(s, kind, id) IN w = Talk!Writes(o, o.open, body)
    PROVE  LET last == [kind |-> kind, id |-> id, body |-> body, open |-> TRUE] IN
           /\ w \in Progress /\ w.decoder = s.decoder /\ w.projection = s.projection
           /\ w.open = Len(w.blocks) /\ Len(w.blocks) = Len(s.blocks) + 1
           /\ w.blocks[w.open] = last
           /\ \A b \in 1..Len(s.blocks) : Alike(w.blocks[b], s.blocks[b])
           /\ \A b \in 1..Len(w.blocks) : w.blocks[b].open <=> b = w.open
           /\ Talk!Echo(w.blocks) = Talk!Reads(Talk!Echo(s.blocks), last) /\ KeepsStopped(s, w)
<1> DEFINE c == Talk!CloseOpen(s)
           new == [kind |-> kind, id |-> id, body |-> <<>>, open |-> TRUE]
           last == [kind |-> kind, id |-> id, body |-> body, open |-> TRUE]
           bs == Append(c.blocks, new)
           ws == Append(c.blocks, last)
           n == Len(c.blocks) + 1
<1>1. /\ c \in Progress /\ c.decoder = s.decoder /\ c.projection = s.projection /\ c.open = 0
      /\ Len(c.blocks) = Len(s.blocks)
      /\ \A b \in 1..Len(s.blocks) : Alike(c.blocks[b], s.blocks[b]) /\ ~c.blocks[b].open
      /\ Talk!Echo(c.blocks) = Talk!Echo(s.blocks) /\ KeepsStopped(s, c)
    BY Closing
<1> HIDE DEF c
<1>2. c.blocks \in Seq(Block) /\ Len(c.blocks) \in Nat /\ new \in Block /\ last \in Block /\ n \in Nat
    BY <1>1, LenProperties DEF Progress, Block, Text
<1>3. /\ bs \in Seq(Block) /\ Len(bs) = n /\ bs[n] = new /\ \A b \in 1..Len(c.blocks) : bs[b] = c.blocks[b]
      /\ ws \in Seq(Block) /\ Len(ws) = n /\ ws[n] = last /\ \A b \in 1..Len(c.blocks) : ws[b] = c.blocks[b]
    <2> HIDE DEF new, last
    <2> QED BY <1>2, AppendProperties
<1>4. Talk!OpenBlock(s, kind, id) = [c EXCEPT !.blocks = bs, !.open = n]
    BY DEF Talk!OpenBlock, c
<1>5. w = [c EXCEPT !.blocks = [bs EXCEPT ![n] = [bs[n] EXCEPT !.body = @ \o body]], !.open = n]
    BY <1>1, <1>4 DEF Talk!Writes, Progress
<1>6. [bs[n] EXCEPT !.body = @ \o body] = last
    <2>1. <<>> \o body = body
        BY ConcatEmptySeq DEF Text
    <2>2. bs[n] = new
        BY <1>3
    <2>3. PICK d : d = [new EXCEPT !.body = body]
        OBVIOUS
    <2>4. d = last
        BY <2>3
    <2>5. new.body = <<>>
        OBVIOUS
    <2> HIDE DEF bs, n, new, last
    <2> QED BY <2>1, <2>2, <2>3, <2>4, <2>5
<1>7. [bs EXCEPT ![n] = last] = ws
    <2> DEFINE es == [bs EXCEPT ![n] = last]
    <2>1. n \in 1..Len(bs)
        BY <1>2, <1>3
    <2> HIDE DEF bs, last, new
    <2>2. es \in Seq(Block) /\ Len(es) = Len(bs) /\ \A b \in 1..Len(bs) : es[b] = IF b = n THEN last ELSE bs[b]
        BY <1>2, <1>3, <2>1, ExceptSeq
    <2> HIDE DEF es, ws
    <2>3. \A b \in 1..n : b = n \/ b \in 1..Len(c.blocks)
        BY <1>2
    <2>4. \A b \in 1..n : es[b] = ws[b]
        BY <1>3, <2>2, <2>3
    <2>5. es = ws
        BY <1>3, <2>2, <2>4, SeqEqual
    <2> QED BY <2>5 DEF es
<1>8. w = [c EXCEPT !.blocks = ws, !.open = n]
    BY <1>5, <1>6, <1>7
<1>9. Talk!Echo(ws) = Talk!Reads(Talk!Echo(s.blocks), last)
    BY <1>1, <1>2, EchoAppend
<1> HIDE DEF ws, bs, last, new
<1>10. /\ w \in Progress /\ w.decoder = s.decoder /\ w.projection = s.projection
       /\ w.open = n /\ w.blocks = ws
    BY <1>1, <1>2, <1>3, <1>8 DEF Progress
<1> HIDE DEF n
<1>11. \A b \in 1..Len(w.blocks) : w.blocks[b].open <=> b = w.open
    <2>1. \A b \in 1..n : b = n \/ b \in 1..Len(c.blocks)
        BY <1>2 DEF n
    <2>2. last.open
        BY DEF last
    <2>3. \A b \in 1..Len(c.blocks) : b # n
        BY <1>2 DEF n
    <2> QED BY <1>1, <1>3, <1>10, <2>1, <2>2, <2>3
<1>12. Len(c.blocks) <= n
    BY <1>2 DEF n
<1>13. KeepsStopped(s, w)
    <2>1. \A b \in 1..Len(s.blocks) : ~s.blocks[b].open => ws[b] = s.blocks[b]
        BY <1>1, <1>3 DEF KeepsStopped
    <2> QED BY <1>1, <1>3, <1>10, <1>12, <2>1 DEF KeepsStopped
<1>14. n = Len(s.blocks) + 1
    BY <1>1 DEF n
<1>15. \A b \in 1..Len(s.blocks) : Alike(w.blocks[b], s.blocks[b])
    BY <1>1, <1>3, <1>10 DEF Alike
<1> QED BY <1>3, <1>9, <1>10, <1>11, <1>13, <1>14, <1>15 DEF last

\* The open block is written to.
LEMMA Writing ==
    ASSUME NEW s, BlocksOK(s), s.open # 0, s.blocks[s.open].kind \in {"text", "thinking"}, NEW body \in Text,
           NEW w, w = Talk!Writes(s, s.open, body)
    PROVE  /\ w \in Progress /\ w.decoder = s.decoder /\ w.projection = s.projection
           /\ w.open = s.open /\ Len(w.blocks) = Len(s.blocks)
           /\ \A b \in 1..Len(s.blocks) : /\ w.blocks[b].kind = s.blocks[b].kind
                                          /\ w.blocks[b].id = s.blocks[b].id
                                          /\ w.blocks[b].open = s.blocks[b].open
           /\ Talk!Echo(w.blocks).tools = Talk!Echo(s.blocks).tools
           /\ Talk!Echo(w.blocks).text = IF s.blocks[s.open].kind = "text" THEN Talk!Echo(s.blocks).text \o body
                                         ELSE Talk!Echo(s.blocks).text
           /\ KeepsStopped(s, w)
<1> DEFINE n == Len(s.blocks)
           old == s.blocks[n]
           new == [old EXCEPT !.body = @ \o body]
           ws == [s.blocks EXCEPT ![n] = new]
<1>1. s.blocks \in Seq(Block) /\ n \in Nat /\ s.open = n /\ n \in 1..n /\ old \in Block /\ s.blocks # <<>>
    BY LenProperties, ElementOfSeq, EmptySeq DEF BlocksOK, Progress
<1>2. old.body \o body \in Text
    BY <1>1, ConcatProperties DEF Block, Text
<1>3. new \in Block /\ new.kind = old.kind /\ new.id = old.id /\ new.open = old.open /\ new.body = old.body \o body
    BY <1>1, <1>2 DEF Block
<1>4. w = [s EXCEPT !.blocks = ws]
    BY <1>1 DEF Talk!Writes
<1>5. PICK f \in Seq(Block), e \in Block : s.blocks = Append(f, e)
    BY <1>1, SequenceEmptyOrAppend
<1>6. n = Len(f) + 1 /\ old = e /\ Len(f) \in Nat /\ \A b \in 1..Len(f) : s.blocks[b] = f[b]
    BY <1>5, AppendProperties, LenProperties
<1>7. ws \in Seq(Block) /\ Len(ws) = n /\ \A b \in 1..n : ws[b] = IF b = n THEN new ELSE s.blocks[b]
    BY <1>1, <1>3, ExceptSeq
<1> HIDE DEF ws, new
<1>8. ws = Append(f, new)
    <2>1. ws[Len(f) + 1] = new /\ \A b \in 1..Len(f) : ws[b] = f[b]
        <3>1. \A b \in 1..Len(f) : b \in 1..n /\ b # n
            BY <1>6
        <3> QED BY <1>1, <1>6, <1>7, <3>1
    <2> QED BY <1>3, <1>6, <1>7, <2>1, EndsWith
<1>9. Talk!Echo(ws) = Talk!Reads(Talk!Echo(f), new) /\ Talk!Echo(s.blocks) = Talk!Reads(Talk!Echo(f), old)
    BY <1>1, <1>3, <1>5, <1>6, <1>8, EchoAppend
<1>10. Talk!Echo(f) \in Echoed
    BY EchoFacts
<1> DEFINE E == Talk!Echo(f)
           break == IF E.text = <<>> THEN <<>> ELSE <<"/">>
<1>11. (E.text \o break) \o (old.body \o body) = ((E.text \o break) \o old.body) \o body
    <2>1. <<>> \in Seq(Symbols) /\ <<"/">> \in Seq(Symbols)
        BY DEF Symbols
    <2>2. break \in Seq(Symbols)
        BY <2>1
    <2>3. E.text \in Seq(Symbols) /\ old.body \in Seq(Symbols) /\ body \in Seq(Symbols)
        BY <1>1, <1>10 DEF Echoed, Text, Block
    <2>4. PICK p \in Seq(Symbols), q \in Seq(Symbols), r \in Seq(Symbols) :
              p = E.text /\ q = break /\ r = old.body
        BY <2>2, <2>3
    <2> HIDE DEF break, E, old
    <2>5. Join(Join(p, q), Join(r, body)) = Join(Join(Join(p, q), r), body)
        BY <2>3, JoinFour
    <2>6. (p \o q) \o (r \o body) = ((p \o q) \o r) \o body
        BY <2>5 DEF Join
    <2> QED BY <2>4, <2>6
<1>12. /\ Talk!Echo(ws).tools = Talk!Echo(s.blocks).tools
       /\ Talk!Echo(ws).text = IF old.kind = "text" THEN Talk!Echo(s.blocks).text \o body
                               ELSE Talk!Echo(s.blocks).text
    <2>1. CASE old.kind = "text"
        BY <2>1, <1>3, <1>9, <1>10, <1>11, ZenonT(60) DEF Talk!Reads, Echoed
    <2>2. CASE old.kind = "thinking"
        BY <2>2, <1>3, <1>9 DEF Talk!Reads
    <2> QED BY <1>1, <2>1, <2>2, SMTT(40)
<1> HIDE DEF old, n
<1>13. w \in Progress /\ w.decoder = s.decoder /\ w.projection = s.projection /\ w.open = s.open /\ w.blocks = ws
    BY <1>4, <1>7 DEF BlocksOK, Progress
<1>14. \A b \in 1..n : ws[b].kind = s.blocks[b].kind /\ ws[b].id = s.blocks[b].id /\ ws[b].open = s.blocks[b].open
    BY <1>3, <1>7 DEF old
<1>15. \A b \in 1..n : ~s.blocks[b].open => b # n
    BY <1>1 DEF BlocksOK, n
<1>16. KeepsStopped(s, w)
    BY <1>1, <1>7, <1>13, <1>15 DEF KeepsStopped, n
<1> QED BY <1>1, <1>7, <1>12, <1>13, <1>14, <1>16 DEF n, old

\* The tools the client has blocks of.
ToolIds(bs) == {bs[b].id : b \in {k \in 1..Len(bs) : bs[k].kind = "tool"}}

\* What a text does to the answer as the client has it.
Texted(s, w, n) ==
    /\ BlocksOK(w) /\ w.decoder = s.decoder /\ KeepsStopped(s, w)
    /\ Talk!Echo(w.blocks).tools = Talk!Echo(s.blocks).tools
    /\ ToolIds(w.blocks) = ToolIds(s.blocks)
    /\ Talk!Xs(w.projection.text) = Talk!Xs(s.projection.text) + n

LEMMA SameIds ==
    ASSUME NEW s \in Seq(Block), NEW t \in Seq(Block), NEW n \in Nat,
           Len(s) <= Len(t), Len(t) <= Len(s) + 1,
           \A b \in 1..Len(s) : t[b].kind = s[b].kind /\ t[b].id = s[b].id
    PROVE  ToolIds(t) = ToolIds(s) \cup {t[b].id : b \in {k \in {Len(s) + 1} \cap {Len(t)} : t[k].kind = "tool"}}
<1>1. Len(s) \in Nat /\ Len(t) \in Nat
    BY LenProperties
<1>2. \A b \in 1..Len(t) : b \in 1..Len(s) \/ (b = Len(s) + 1 /\ b = Len(t))
    BY <1>1
<1>3. \A b \in 1..Len(s) : b \in 1..Len(t)
    BY <1>1
<1>4. \A b : b = Len(s) + 1 /\ b = Len(t) => b \in 1..Len(t)
    BY <1>1
<1> QED BY <1>2, <1>3, <1>4, ZenonT(60) DEF ToolIds

LEMMA StreamsText ==
    ASSUME NEW s, BlocksOK(s), streaming, NEW kind \in {"text", "thinking"}, NEW text \in Seq({"x"}),
           NEW w, w = Talk!Streams(s, kind, text)
    PROVE  Texted(s, w, IF kind = "text" THEN Len(text) ELSE 0)
<1> DEFINE o == IF Talk!IsOpen(s, kind) THEN s ELSE Talk!OpenBlock(s, kind, 0)
           v == Talk!Writes(o, o.open, text)
           E == Talk!Echo(s.blocks)
<1>1. s \in Progress /\ s.blocks \in Seq(Block) /\ Len(s.blocks) \in Nat /\ s.projection.text \in Text
    BY LenProperties DEF BlocksOK, Progress
<1>2. text \in Text /\ Talk!Xs(text) = Len(text) /\ Len(text) \in Nat /\ Talk!Xs(s.projection.text) \in Nat
    BY <1>1, XsFacts, LenProperties
<1>3. CASE text = <<>>
    <2>1. w = s
        BY <1>3 DEF Talk!Streams
    <2>2. Len(text) = 0
        BY <1>3
    <2>3. KeepsStopped(s, s)
        BY <1>1 DEF KeepsStopped
    <2> QED BY <1>2, <2>1, <2>2, <2>3 DEF Texted
<1>4. CASE text # <<>>
    <2>1. w = IF kind = "text" THEN [v EXCEPT !.projection = Talk!Project(v.projection, text)]
              ELSE [v EXCEPT !.projection.block = kind]
        BY <1>4 DEF Talk!Streams
    <2>2. E \in Echoed /\ E.text = s.projection.text
        BY <1>1, EchoFacts, SMTT(40) DEF BlocksOK
    <2>3. /\ v \in Progress /\ v.decoder = s.decoder /\ v.projection = s.projection
          /\ v.open = Len(v.blocks) /\ v.open # 0 /\ v.blocks[v.open].kind = kind
          /\ \A b \in 1..Len(v.blocks) : v.blocks[b].open <=> b = v.open
          /\ Talk!Echo(v.blocks).tools = E.tools /\ KeepsStopped(s, v)
          /\ ToolIds(v.blocks) = ToolIds(s.blocks)
          /\ Talk!Echo(v.blocks).text =
                 IF kind # "text" THEN E.text
                 ELSE (E.text \o (IF s.projection.block # "text" /\ E.text # <<>> THEN <<"/">> ELSE <<>>)) \o text
        <3>1. CASE Talk!IsOpen(s, kind)
            <4>1. v = Talk!Writes(s, s.open, text)
                BY <3>1
            <4>2. s.open # 0 /\ s.open = Len(s.blocks) /\ s.blocks[s.open].kind = kind /\ s.projection.block = kind
                BY <3>1 DEF Talk!IsOpen, BlocksOK
            <4> HIDE DEF v
            <4>3. /\ v \in Progress /\ v.decoder = s.decoder /\ v.projection = s.projection
                  /\ v.open = s.open /\ Len(v.blocks) = Len(s.blocks)
                  /\ \A b \in 1..Len(s.blocks) : /\ v.blocks[b].kind = s.blocks[b].kind
                                                 /\ v.blocks[b].id = s.blocks[b].id
                                                 /\ v.blocks[b].open = s.blocks[b].open
                  /\ Talk!Echo(v.blocks).tools = Talk!Echo(s.blocks).tools
                  /\ Talk!Echo(v.blocks).text = IF s.blocks[s.open].kind = "text" THEN Talk!Echo(s.blocks).text \o text
                                                ELSE Talk!Echo(s.blocks).text
                  /\ KeepsStopped(s, v)
                BY <1>2, <4>1, <4>2, Writing
            <4>4. v.open \in 1..Len(v.blocks)
                BY <1>1, <4>2, <4>3
            <4>5. ToolIds(v.blocks) = ToolIds(s.blocks)
                BY <1>1, <4>3, SMTT(40) DEF ToolIds
            <4>6. E.text \o <<>> = E.text
                BY <2>2, ConcatEmptySeq DEF Echoed, Text
            <4>7. \A b \in 1..Len(v.blocks) : v.blocks[b].open <=> b = v.open
                BY <4>3 DEF BlocksOK
            <4> HIDE DEF E
            <4>8. Talk!Echo(v.blocks).tools = E.tools
                  /\ Talk!Echo(v.blocks).text = IF kind = "text" THEN E.text \o text ELSE E.text
                BY <4>2, <4>3 DEF E
            <4>9. v.blocks[v.open].kind = kind /\ v.open = Len(v.blocks) /\ v.open # 0
                BY <4>2, <4>3, <4>4
            <4> QED BY <4>2, <4>3, <4>5, <4>6, <4>7, <4>8, <4>9
        <3>2. CASE ~Talk!IsOpen(s, kind)
            <4>1. v = LET q == Talk!OpenBlock(s, kind, 0) IN Talk!Writes(q, q.open, text)
                BY <3>2
            <4>2. s.projection.block # kind
                BY <3>2 DEF Talk!IsOpen, BlocksOK
            <4> DEFINE last == [kind |-> kind, id |-> 0, body |-> text, open |-> TRUE]
            <4> HIDE DEF v
            <4>3. /\ v \in Progress /\ v.decoder = s.decoder /\ v.projection = s.projection
                  /\ v.open = Len(v.blocks) /\ Len(v.blocks) = Len(s.blocks) + 1
                  /\ v.blocks[v.open] = last
                  /\ \A b \in 1..Len(s.blocks) : Alike(v.blocks[b], s.blocks[b])
                  /\ \A b \in 1..Len(v.blocks) : v.blocks[b].open <=> b = v.open
                  /\ Talk!Echo(v.blocks) = Talk!Reads(Talk!Echo(s.blocks), last) /\ KeepsStopped(s, v)
                <5>1. kind \in Kinds /\ 0 \in Id \cup {0}
                    BY DEF Kinds
                <5> QED BY <1>2, <4>1, <5>1, Opening
            <4>4. v.open # 0
                BY <1>1, <4>3
            <4>5. ToolIds(v.blocks) = ToolIds(s.blocks)
                <5>1. v.blocks \in Seq(Block) /\ Len(s.blocks) <= Len(v.blocks) /\ Len(v.blocks) <= Len(s.blocks) + 1
                    BY <1>1, <4>3 DEF Progress
                <5>2. \A b \in 1..Len(s.blocks) : v.blocks[b].kind = s.blocks[b].kind /\ v.blocks[b].id = s.blocks[b].id
                    BY <4>3 DEF Alike
                <5>3. v.blocks[Len(v.blocks)].kind # "tool"
                    BY <4>3
                <5>4. ToolIds(v.blocks) = ToolIds(s.blocks) \cup {v.blocks[b].id : b \in {k \in {Len(s.blocks) + 1} \cap {Len(v.blocks)} : v.blocks[k].kind = "tool"}}
                    BY <1>1, <5>1, <5>2, SameIds
                <5> QED BY <5>3, <5>4
            <4>6. /\ Talk!Echo(v.blocks).tools = E.tools
                  /\ Talk!Echo(v.blocks).text =
                        IF kind # "text" THEN E.text
                        ELSE (E.text \o (IF E.text = <<>> THEN <<>> ELSE <<"/">>)) \o text
                BY <2>2, <4>3 DEF Talk!Reads, Echoed
            <4>7. v.blocks[v.open].kind = kind
                BY <4>3
            <4> HIDE DEF E
            <4> QED BY <4>2, <4>3, <4>4, <4>5, <4>6, <4>7
        <3> QED BY <3>1, <3>2
    <2> DEFINE p == Talk!Project(s.projection, text)
    <2>4. CASE kind = "text"
        <3> DEFINE gap == IF s.projection.block # "text" /\ E.text # <<>> THEN <<"/">> ELSE <<>>
        <3>1. p = [text |-> (E.text \o gap) \o text, block |-> "text"]
            BY <2>2 DEF Talk!Project
        <3>2. gap \in Text /\ Talk!Xs(gap) = 0
            <4>1. <<>> \in Text /\ <<"/">> \in Text
                BY DEF Text, Symbols
            <4>2. gap = <<>> \/ gap = <<"/">>
                OBVIOUS
            <4> HIDE DEF gap
            <4> QED BY <4>1, <4>2, XsFacts
        <3> HIDE DEF gap, E, v
        <3>3. E.text \in Text /\ E.text \o gap \in Text /\ (E.text \o gap) \o text \in Text
            BY <1>2, <2>2, <3>2, ConcatProperties DEF Text, Echoed
        <3>4. Talk!Xs((E.text \o gap) \o text) = Talk!Xs(E.text) + Len(text)
            <4>1. PICK u \in Text : u = E.text \o gap
                BY <3>3
            <4>2. PICK e \in Text : e = E.text
                BY <3>3
            <4>3. Talk!Xs(u) = Talk!Xs(e) + Talk!Xs(gap)
                BY <3>2, <4>1, <4>2, XsFacts
            <4>4. Talk!Xs(u \o text) = Talk!Xs(u) + Talk!Xs(text)
                BY <1>2, XsFacts
            <4>5. Talk!Xs(e) \in Nat
                BY XsFacts
            <4> QED BY <1>2, <3>2, <4>1, <4>2, <4>3, <4>4, <4>5
        <3> HIDE DEF p
        <3>5. w = [v EXCEPT !.projection = p]
            BY <2>1, <2>3, <2>4 DEF p
        <3>6. p \in [text : Text, block : {"none"} \cup Kinds] /\ p.text = (E.text \o gap) \o text /\ p.block = "text"
            BY <3>1, <3>3 DEF Kinds
        <3>7. w \in Progress /\ w.decoder = v.decoder /\ w.projection = p /\ w.blocks = v.blocks /\ w.open = v.open
            BY <2>3, <3>5, <3>6 DEF Progress
        <3>8. p.text = Talk!Echo(w.blocks).text
            BY <2>3, <2>4, <3>6, <3>7 DEF gap
        <3>9. BlocksOK(w)
            BY <2>3, <2>4, <3>6, <3>7, <3>8 DEF BlocksOK
        <3>10. KeepsStopped(s, w)
            BY <2>3, <3>7 DEF KeepsStopped
        <3> QED BY <1>2, <2>2, <2>3, <2>4, <3>4, <3>6, <3>7, <3>9, <3>10 DEF Texted, E
    <2>5. CASE kind = "thinking"
        <3>1. w = [v EXCEPT !.projection.block = "thinking"]
            BY <2>1, <2>5
        <3>2. PICK q : q = [s.projection EXCEPT !.block = "thinking"]
            OBVIOUS
        <3>3. q \in [text : Text, block : {"none"} \cup Kinds] /\ q.text = s.projection.text /\ q.block = "thinking"
            BY <1>1, <3>2 DEF Kinds, Progress
        <3> HIDE DEF v, E
        <3>4. w = [v EXCEPT !.projection = q]
            BY <2>3, <3>1, <3>2
        <3>5. w \in Progress /\ w.decoder = v.decoder /\ w.projection = q /\ w.blocks = v.blocks /\ w.open = v.open
            BY <2>3, <3>3, <3>4 DEF Progress
        <3>6. q.text = Talk!Echo(w.blocks).text
            BY <2>2, <2>3, <2>5, <3>3, <3>5
        <3>7. BlocksOK(w)
            BY <2>3, <2>5, <3>3, <3>5, <3>6 DEF BlocksOK
        <3>8. KeepsStopped(s, w)
            BY <2>3, <3>5 DEF KeepsStopped
        <3> QED BY <1>2, <2>3, <2>5, <3>3, <3>5, <3>7, <3>8 DEF Texted, E
    <2> QED BY <2>4, <2>5
<1> QED BY <1>3, <1>4

\* What a tool does to the answer as the client has it.
Tooled(s, w, id, n) ==
    /\ BlocksOK(w) /\ w.decoder = s.decoder /\ KeepsStopped(s, w)
    /\ Talk!Echo(w.blocks).tools = Append(Talk!Echo(s.blocks).tools, [id |-> id, n |-> n])
    /\ ToolIds(w.blocks) = ToolIds(s.blocks) \cup {id}
    /\ w.projection.text = s.projection.text

\* A tool the client has no block of goes to it.
NewTool(s, id, n, w) ==
    /\ BlocksOK(s)
    /\ streaming
    /\ id \notin ToolIds(s.blocks)
    /\ w = Talk!StreamsTool(s, id, Talk!Fragments(n))

LEMMA StreamsTool ==
    ASSUME NEW s, NEW id \in Id, NEW n \in Nat, NEW w, NewTool(s, id, n, w)
    PROVE  Tooled(s, w, id, n)
<1>1. /\ BlocksOK(s)
      /\ streaming
      /\ id \notin ToolIds(s.blocks)
      /\ w = Talk!StreamsTool(s, id, Talk!Fragments(n))
    BY DEF NewTool
<1> DEFINE body == Talk!Fragments(n)
           v == LET q == Talk!OpenBlock(s, "tool", id) IN Talk!Writes(q, q.open, body)
           last == [kind |-> "tool", id |-> id, body |-> body, open |-> TRUE]
<1>2. s \in Progress /\ s.blocks \in Seq(Block) /\ Len(s.blocks) \in Nat /\ s.projection.text \in Text
    BY <1>1, LenProperties DEF BlocksOK, Progress
<1>3. body \in Text /\ Len(body) = n
    BY <1>1, FragmentsAre
<1>4. {b \in DOMAIN s.blocks : s.blocks[b].kind = "tool" /\ s.blocks[b].id = id} = {}
    <2>1. DOMAIN s.blocks = 1..Len(s.blocks)
        BY <1>1, <1>2, LenProperties, SMTT(40)
    <2> QED BY <1>1, <2>1 DEF ToolIds
<1>5. w = [v EXCEPT !.projection.block = "tool"]
    BY <1>1, <1>4, Zenon DEF Talk!StreamsTool
<1>6. "tool" \in Kinds /\ id \in Id \cup {0}
    BY <1>1 DEF Kinds
<1> HIDE DEF v, body
<1>7. /\ v \in Progress /\ v.decoder = s.decoder /\ v.projection = s.projection
      /\ v.open = Len(v.blocks) /\ Len(v.blocks) = Len(s.blocks) + 1
      /\ v.blocks[v.open] = last
      /\ \A b \in 1..Len(s.blocks) : Alike(v.blocks[b], s.blocks[b])
      /\ \A b \in 1..Len(v.blocks) : v.blocks[b].open <=> b = v.open
      /\ Talk!Echo(v.blocks) = Talk!Reads(Talk!Echo(s.blocks), last) /\ KeepsStopped(s, v)
    <2>1. v = LET q == Talk!OpenBlock(s, "tool", id) IN Talk!Writes(q, q.open, body)
        BY <1>1 DEF v
    <2> QED BY <1>1, <1>3, <1>6, <2>1, Opening
<1>8. v.open # 0 /\ v.blocks[v.open].kind = "tool"
    BY <1>1, <1>2, <1>7
<1>9. ToolIds(v.blocks) = ToolIds(s.blocks) \cup {id}
    <2>1. v.blocks \in Seq(Block) /\ Len(s.blocks) <= Len(v.blocks) /\ Len(v.blocks) <= Len(s.blocks) + 1
        BY <1>1, <1>2, <1>7 DEF Progress
    <2>2. \A b \in 1..Len(s.blocks) : v.blocks[b].kind = s.blocks[b].kind /\ v.blocks[b].id = s.blocks[b].id
        BY <1>1, <1>7 DEF Alike
    <2>3. v.blocks[Len(v.blocks)].kind = "tool" /\ v.blocks[Len(v.blocks)].id = id
        BY <1>1, <1>7
    <2>4. ToolIds(v.blocks) = ToolIds(s.blocks) \cup {v.blocks[b].id : b \in {k \in {Len(s.blocks) + 1} \cap {Len(v.blocks)} : v.blocks[k].kind = "tool"}}
        BY <1>1, <1>2, <2>1, <2>2, SameIds
    <2> QED BY <1>1, <1>7, <2>3, <2>4
<1>10. Talk!Echo(s.blocks) \in Echoed /\ Talk!Echo(s.blocks).text = s.projection.text
    BY <1>1, <1>2, EchoFacts DEF BlocksOK
<1>11. /\ Talk!Echo(v.blocks).tools = Append(Talk!Echo(s.blocks).tools, [id |-> id, n |-> n])
       /\ Talk!Echo(v.blocks).text = Talk!Echo(s.blocks).text
    BY <1>1, <1>3, <1>7, <1>10 DEF Talk!Reads, Echoed
<1>12. PICK q : q = [s.projection EXCEPT !.block = "tool"]
    OBVIOUS
<1>13. q \in [text : Text, block : {"none"} \cup Kinds] /\ q.text = s.projection.text /\ q.block = "tool"
    BY <1>1, <1>2, <1>12 DEF Kinds, Progress
<1>14. w = [v EXCEPT !.projection = q]
    BY <1>1, <1>5, <1>7, <1>12
<1>15. w \in Progress /\ w.decoder = v.decoder /\ w.projection = q /\ w.blocks = v.blocks /\ w.open = v.open
    BY <1>1, <1>7, <1>13, <1>14 DEF Progress
<1>16. BlocksOK(w)
    BY <1>1, <1>7, <1>8, <1>10, <1>11, <1>13, <1>15 DEF BlocksOK
<1>17. KeepsStopped(s, w)
    BY <1>1, <1>7, <1>15 DEF KeepsStopped
<1> QED BY <1>1, <1>7, <1>9, <1>11, <1>13, <1>15, <1>16, <1>17 DEF Tooled

-----------------------------------------------------------------------------
(* The items of a call and what the decoder made of them.                   *)

Item == [kind : {"message", "call", "reasoning"}, sent : Nat, done : BOOLEAN]
Items == Seq(Item)

\* The fragments of the messages in an output.
Said(output) == [i \in 1..Len(output) |-> IF output[i].type = "message" THEN output[i].n ELSE 0]
Told(output) == Total(Said(output))

\* The fragments of messages that are not done.
Untold(got, its, D) ==
    [i \in 1..Len(its) |-> IF its[i].kind = "message" /\ i \notin D THEN got[i] ELSE 0]

\* Of this call, where the items in D are done.
StateOK(s, its, D) ==
    /\ BlocksOK(s)
    /\ Len(s.decoder.got) = Len(its) /\ D \subseteq 1..Len(its)
    /\ \A i \in 1..Len(its) : i \notin D => s.decoder.got[i] = its[i].sent
    /\ streaming => /\ Talk!Echo(s.blocks).tools = whole.tools \o s.decoder.tools
                    /\ Talk!Xs(s.projection.text) = Len(whole.text) + Len(s.decoder.text)
    /\ ~streaming => s.blocks = <<>>
    /\ \A id \in ToolIds(s.blocks) : id[1] = turn /\ ((id[2] \in Nat /\ id[2] < calls) \/ (id[2] = calls /\ id[3] \in D))
    /\ Len(s.decoder.text) = Told(s.decoder.output) + Total(Untold(s.decoder.got, its, D))
    /\ ~s.decoder.message => Told(s.decoder.output) = 0

\* A function on the first numbers is a list.
LEMMA AsList ==
    ASSUME NEW S, NEW n \in Nat, NEW f \in [1..n -> S]
    PROVE  f \in Seq(S) /\ Len(f) = n
<1>1. f \in Seq(S)
    BY SeqDef
<1>2. Len(f) \in Nat /\ 1..Len(f) = 1..n
    BY <1>1, LenProperties
<1> QED BY <1>1, <1>2

LEMMA SaidType == \A p \in Seq(Raw) : Said(p) \in Seq(Nat) /\ Len(Said(p)) = Len(p)
<1>1. TAKE p \in Seq(Raw)
<1>2. Len(p) \in Nat /\ \A i \in 1..Len(p) : p[i] \in Raw
    BY LenProperties, ElementOfSeq
<1>3. \A i \in 1..Len(p) : (IF p[i].type = "message" THEN p[i].n ELSE 0) \in Nat
    BY <1>2 DEF Raw
<1>4. Said(p) \in [1..Len(p) -> Nat]
    BY <1>3 DEF Said
<1> QED BY <1>2, <1>4, AsList

LEMMA ToldFacts ==
    /\ Told(<<>>) = 0
    /\ \A o \in Seq(Raw) : Told(o) \in Nat
    /\ \A o \in Seq(Raw), r \in Raw :
           Told(Append(o, r)) = Told(o) + (IF r.type = "message" THEN r.n ELSE 0)
<1>1. Told(<<>>) = 0
    <2>1. Said(<<>>) = <<>>
        BY DEF Said
    <2> QED BY <2>1, TotalFacts DEF Told
<1>2. \A o \in Seq(Raw) : Told(o) \in Nat
    BY SaidType, TotalFacts DEF Told
<1>3. ASSUME NEW o \in Seq(Raw), NEW r \in Raw
      PROVE  Told(Append(o, r)) = Told(o) + (IF r.type = "message" THEN r.n ELSE 0)
    <2> DEFINE k == IF r.type = "message" THEN r.n ELSE 0
    <2>1. k \in Nat
        BY DEF Raw
    <2>2. /\ Append(o, r) \in Seq(Raw) /\ Len(o) \in Nat /\ Len(Append(o, r)) = Len(o) + 1
          /\ Append(o, r)[Len(o) + 1] = r /\ \A i \in 1..Len(o) : Append(o, r)[i] = o[i]
        BY AppendProperties, LenProperties
    <2>3. /\ Said(o) \in Seq(Nat) /\ Len(Said(o)) = Len(o)
          /\ Said(Append(o, r)) \in Seq(Nat) /\ Len(Said(Append(o, r))) = Len(Append(o, r))
        BY <2>2, SaidType
    <2>4. Said(Append(o, r))[Len(o) + 1] = k /\ \A i \in 1..Len(o) : Said(Append(o, r))[i] = Said(o)[i]
        BY <2>2 DEF Said
    <2> HIDE DEF k
    <2>5. Said(Append(o, r)) = Append(Said(o), k)
        BY <2>1, <2>2, <2>3, <2>4, EndsWith
    <2>6. Total(Append(Said(o), k)) = Total(Said(o)) + k
        BY <2>1, <2>3, TotalAppend
    <2> QED BY <2>5, <2>6 DEF Told, k
<1> QED BY <1>1, <1>2, <1>3

\* Of a request that is being answered.
Base == /\ whole \in Completion /\ items \in Items /\ turn \in Nat /\ calls \in Nat /\ streaming \in BOOLEAN

\* The answer after the decoder moved on.
Decoded(s, d) == [decoder |-> d, projection |-> s.projection, blocks |-> s.blocks, open |-> s.open]

LEMMA DecodedFacts ==
    ASSUME NEW s, BlocksOK(s), NEW d \in Completion
    PROVE  /\ BlocksOK(Decoded(s, d)) /\ KeepsStopped(s, Decoded(s, d))
           /\ Decoded(s, d).decoder = d /\ Decoded(s, d).blocks = s.blocks
           /\ Decoded(s, d).projection = s.projection /\ Decoded(s, d).open = s.open
<1>1. s.blocks \in Seq(Block) /\ Len(s.blocks) \in Nat
    BY LenProperties DEF BlocksOK, Progress
<1> QED BY <1>1 DEF BlocksOK, KeepsStopped, Decoded, Progress

\* The numbers of the fragments when one item changes.
Recount(its, jts, got, hot, D, E, i) ==
    /\ its \in Items /\ jts \in Items /\ got \in Seq(Nat) /\ hot \in Seq(Nat) /\ i \in 1..Len(its)
    /\ Len(jts) = Len(its) /\ Len(got) = Len(its) /\ Len(hot) = Len(its)
    /\ \A j \in 1..Len(its) : jts[j].kind = its[j].kind
    /\ \A j \in 1..Len(its) : j # i => (hot[j] = got[j] /\ (j \in D <=> j \in E))

LEMMA UntoldFacts ==
    ASSUME NEW its, NEW jts, NEW got, NEW hot, NEW D, NEW E, NEW i, Recount(its, jts, got, hot, D, E, i)
    PROVE  /\ Untold(got, its, D) \in Seq(Nat) /\ Len(Untold(got, its, D)) = Len(its)
           /\ Total(Untold(got, its, D)) \in Nat /\ Total(Untold(hot, jts, E)) \in Nat
           /\ Total(Untold(hot, jts, E)) + (IF its[i].kind = "message" /\ i \notin D THEN got[i] ELSE 0)
              = Total(Untold(got, its, D)) + (IF its[i].kind = "message" /\ i \notin E THEN hot[i] ELSE 0)
<1> DEFINE u == Untold(got, its, D)
           v == Untold(hot, jts, E)
<1>1. /\ its \in Items /\ jts \in Items /\ got \in Seq(Nat) /\ hot \in Seq(Nat) /\ i \in 1..Len(its)
      /\ Len(jts) = Len(its) /\ Len(got) = Len(its) /\ Len(hot) = Len(its)
      /\ \A j \in 1..Len(its) : jts[j].kind = its[j].kind
      /\ \A j \in 1..Len(its) : j # i => (hot[j] = got[j] /\ (j \in D <=> j \in E))
    BY DEF Recount
<1>2. Len(its) \in Nat
    BY <1>1, LenProperties DEF Items
<1>3. \A j \in 1..Len(its) : got[j] \in Nat /\ hot[j] \in Nat
    BY <1>1, ElementOfSeq
<1>4. u \in [1..Len(its) -> Nat] /\ v \in [1..Len(its) -> Nat]
    BY <1>1, <1>3 DEF Untold
<1>5. u \in Seq(Nat) /\ Len(u) = Len(its) /\ v \in Seq(Nat) /\ Len(v) = Len(its)
    BY <1>2, <1>4, AsList
<1>6. \A j \in 1..Len(its) : j # i => v[j] = u[j]
    BY <1>1 DEF Untold
<1>7. /\ u[i] = IF its[i].kind = "message" /\ i \notin D THEN got[i] ELSE 0
      /\ v[i] = IF its[i].kind = "message" /\ i \notin E THEN hot[i] ELSE 0
    BY <1>1 DEF Untold
<1> HIDE DEF u, v
<1>8. Total(v) + u[i] = Total(u) + v[i]
    <2>1. i \in Nat /\ i \in 1..Len(u) /\ Len(v) = Len(u)
        BY <1>1, <1>2, <1>5
    <2>2. \A j \in 1..Len(u) : j # i => v[j] = u[j]
        BY <1>5, <1>6
    <2> QED BY <1>5, <2>1, <2>2, TotalChange
<1>9. Total(u) \in Nat /\ Total(v) \in Nat
    BY <1>5, TotalFacts
<1> QED BY <1>5, <1>7, <1>8, <1>9 DEF u, v

LEMMA KeepsSelf == ASSUME NEW s \in Progress PROVE KeepsStopped(s, s)
<1>1. Len(s.blocks) \in Nat
    BY LenProperties DEF Progress
<1> QED BY <1>1 DEF KeepsStopped

LEMMA ItemFacts ==
    ASSUME NEW its \in Items, NEW i \in 1..Len(its)
    PROVE  /\ Len(its) \in Nat /\ i \in Nat /\ its[i] \in Item
           /\ its[i].kind \in {"message", "call", "reasoning"} /\ its[i].sent \in Nat /\ its[i].done \in BOOLEAN
<1>1. Len(its) \in Nat /\ its[i] \in Item
    BY LenProperties, ElementOfSeq DEF Items
<1> QED BY <1>1 DEF Item

\* One item of the call moves on, from the items its to jts and what is done from D to E.
Moves(its, jts, D, E, i) ==
    /\ its \in Items /\ jts \in Items /\ Len(jts) = Len(its) /\ i \in 1..Len(its)
    /\ \A j \in 1..Len(its) : jts[j].kind = its[j].kind
    /\ \A j \in 1..Len(its) : j # i => jts[j].sent = its[j].sent /\ (j \in D <=> j \in E)
    /\ D \subseteq E /\ E \subseteq 1..Len(its) /\ i \notin D

\* What the decoder made of it.
Decodes(s, d, its, jts, D, E, i) ==
    /\ d \in Completion /\ Len(d.got) = Len(its)
    /\ \A j \in 1..Len(its) : j # i => d.got[j] = s.decoder.got[j]
    /\ i \notin E => d.got[i] = jts[i].sent
    /\ Len(d.text) = Told(d.output) + Total(Untold(d.got, jts, E))
    /\ ~d.message => Told(d.output) = 0

LEMMA KeepsOn ==
    ASSUME NEW s \in Progress, NEW t \in Progress, NEW w \in Progress, KeepsStopped(s, t), KeepsStopped(t, w),
           \A b \in 1..Len(s.blocks) : ~s.blocks[b].open => ~t.blocks[b].open
    PROVE  KeepsStopped(s, w)
<1>1. Len(s.blocks) \in Nat /\ Len(t.blocks) \in Nat /\ Len(w.blocks) \in Nat
    BY LenProperties DEF Progress
<1>2. \A b \in 1..Len(s.blocks) : b \in 1..Len(t.blocks)
    BY <1>1 DEF KeepsStopped
<1> QED BY <1>1, <1>2 DEF KeepsStopped

LEMMA StateTypes ==
    ASSUME NEW s, NEW its \in Items, NEW D, StateOK(s, its, D)
    PROVE  /\ s \in Progress /\ s.decoder \in Completion /\ Len(its) \in Nat
           /\ s.decoder.got \in Seq(Nat) /\ s.decoder.text \in Seq({"x"}) /\ Len(s.decoder.text) \in Nat
           /\ s.decoder.tools \in Seq(Tool) /\ s.decoder.output \in Seq(Raw) /\ s.decoder.message \in BOOLEAN
<1>1. s \in Progress /\ s.decoder \in Completion
    BY DEF StateOK, BlocksOK, Progress
<1> QED BY <1>1, LenProperties DEF Completion, Items

\* A step of the decoder that brings text, and one that brings a tool.
TextStepped(s, its, jts, D, E, i, d, n, w) ==
    /\ Base
    /\ StateOK(s, its, D)
    /\ Moves(its, jts, D, E, i)
    /\ Decodes(s, d, its, jts, D, E, i)
    /\ d.tools = s.decoder.tools
    /\ Len(d.text) = Len(s.decoder.text) + n
    /\ IF streaming THEN Texted(Decoded(s, d), w, n) ELSE w = Decoded(s, d)

LEMMA TextStep ==
    ASSUME NEW s, NEW its, NEW jts, NEW D, NEW E, NEW i, NEW d, NEW n \in Nat, NEW w, TextStepped(s, its, jts, D, E, i, d, n, w)
    PROVE  StateOK(w, jts, E) /\ KeepsStopped(s, w)
<1>1. /\ Base
      /\ StateOK(s, its, D)
      /\ Moves(its, jts, D, E, i)
      /\ Decodes(s, d, its, jts, D, E, i)
      /\ d.tools = s.decoder.tools
      /\ Len(d.text) = Len(s.decoder.text) + n
      /\ IF streaming THEN Texted(Decoded(s, d), w, n) ELSE w = Decoded(s, d)
    BY DEF TextStepped
<1>2. /\ s \in Progress /\ s.decoder \in Completion /\ d \in Completion /\ BlocksOK(s) /\ its \in Items
      /\ Len(s.decoder.text) \in Nat /\ Len(whole.text) \in Nat
    BY <1>1, StateTypes, LenProperties DEF StateOK, BlocksOK, Decodes, Base, Completion, Moves, Progress
<1>3. /\ BlocksOK(Decoded(s, d)) /\ KeepsStopped(s, Decoded(s, d))
      /\ Decoded(s, d).decoder = d /\ Decoded(s, d).blocks = s.blocks
      /\ Decoded(s, d).projection = s.projection /\ Decoded(s, d).open = s.open
    BY <1>1, <1>2, DecodedFacts
<1> DEFINE v == Decoded(s, d)
<1>4. /\ BlocksOK(w) /\ w.decoder = d
      /\ streaming => /\ Talk!Echo(w.blocks).tools = Talk!Echo(s.blocks).tools
                      /\ Talk!Xs(w.projection.text) = Talk!Xs(s.projection.text) + n
      /\ ~streaming => w.blocks = s.blocks
      /\ ToolIds(w.blocks) = ToolIds(s.blocks)
    BY <1>1, <1>3 DEF Texted
<1>5. KeepsStopped(s, w)
    <2>1. CASE streaming
        <3>1. KeepsStopped(Decoded(s, d), w) /\ w \in Progress /\ Decoded(s, d) \in Progress
            BY <1>1, <1>3, <2>1 DEF Texted, BlocksOK
        <3>2. \A b \in 1..Len(s.blocks) : ~s.blocks[b].open => ~Decoded(s, d).blocks[b].open
            BY <1>1, <1>3
        <3> QED BY <1>1, <1>2, <1>3, <3>1, <3>2, KeepsOn
    <2>2. CASE ~streaming
        BY <1>1, <1>3, <2>2
    <2> QED BY <1>1, <2>1, <2>2 DEF Base
<1>6. Len(w.decoder.got) = Len(jts) /\ E \subseteq 1..Len(jts)
    BY <1>1, <1>4 DEF Decodes, Moves
<1>7. \A j \in 1..Len(jts) : j \notin E => w.decoder.got[j] = jts[j].sent
    BY <1>1, <1>4 DEF Decodes, Moves, StateOK
<1>8. streaming => /\ Talk!Echo(w.blocks).tools = whole.tools \o w.decoder.tools
                   /\ Talk!Xs(w.projection.text) = Len(whole.text) + Len(w.decoder.text)
    <2>1. streaming => /\ Talk!Echo(s.blocks).tools = whole.tools \o s.decoder.tools
                       /\ Talk!Xs(s.projection.text) = Len(whole.text) + Len(s.decoder.text)
        BY <1>1 DEF StateOK
    <2>2. w.decoder.tools = s.decoder.tools /\ Len(w.decoder.text) = Len(s.decoder.text) + n
        BY <1>1, <1>4
    <2>3. PICK x : x = Talk!Xs(s.projection.text)
        OBVIOUS
    <2>4. PICK y \in Nat, z \in Nat : y = Len(whole.text) /\ z = Len(s.decoder.text)
        BY <1>2
    <2>5. x = y + z => x + n = y + (z + n)
        BY <1>1
    <2>6. ASSUME streaming
          PROVE  /\ Talk!Echo(w.blocks).tools = whole.tools \o w.decoder.tools
                 /\ Talk!Xs(w.projection.text) = Len(whole.text) + Len(w.decoder.text)
        <3>1. Talk!Echo(w.blocks).tools = whole.tools \o w.decoder.tools
            BY <1>1, <1>4, <2>1, <2>2, <2>6
        <3>2. Talk!Xs(w.projection.text) = x + n /\ x = y + z
            BY <1>4, <2>1, <2>3, <2>6, <2>4
        <3> QED BY <2>2, <2>4, <2>5, <3>1, <3>2
    <2> QED BY <1>1, <2>6
<1>9. ~streaming => w.blocks = <<>>
    BY <1>1, <1>4 DEF StateOK
<1>10. \A id \in ToolIds(w.blocks) : id[1] = turn /\ ((id[2] \in Nat /\ id[2] < calls) \/ (id[2] = calls /\ id[3] \in E))
    BY <1>1, <1>4 DEF StateOK, Moves
<1>11. /\ Len(w.decoder.text) = Told(w.decoder.output) + Total(Untold(w.decoder.got, jts, E))
       /\ ~w.decoder.message => Told(w.decoder.output) = 0
    BY <1>1, <1>4 DEF Decodes
<1> QED BY <1>1, <1>4, <1>5, <1>6, <1>7, <1>8, <1>9, <1>10, <1>11 DEF StateOK

ToolStepped(s, its, jts, D, E, i, d, n, w) ==
    /\ Base
    /\ StateOK(s, its, D)
    /\ Moves(its, jts, D, E, i)
    /\ Decodes(s, d, its, jts, D, E, i)
    /\ i \in E
    /\ d.tools = Append(s.decoder.tools, [id |-> <<turn, calls, i>>, n |-> n])
    /\ Len(d.text) = Len(s.decoder.text)
    /\ w = Talk!StreamsTool(Decoded(s, d), <<turn, calls, i>>, Talk!Fragments(n))

LEMMA GotMoved ==
    ASSUME NEW s, NEW its, NEW jts, NEW D, NEW E, NEW i, NEW d,
           StateOK(s, its, D), Moves(its, jts, D, E, i), Decodes(s, d, its, jts, D, E, i), i \in E
    PROVE  \A j \in 1..Len(jts) : j \notin E => d.got[j] = jts[j].sent
<1>1. \A j \in 1..Len(its) : j \notin D => s.decoder.got[j] = its[j].sent
    BY DEF StateOK
<1>2. /\ Len(jts) = Len(its)
      /\ \A j \in 1..Len(its) : j # i => jts[j].sent = its[j].sent /\ (j \in D <=> j \in E)
    BY DEF Moves
<1>3. \A j \in 1..Len(its) : j # i => d.got[j] = s.decoder.got[j]
    BY DEF Decodes
<1>4. ASSUME NEW j \in 1..Len(jts), j \notin E PROVE d.got[j] = jts[j].sent
    <2>1. j \in 1..Len(its) /\ j # i
        BY <1>2, <1>4
    <2>2. j \notin D /\ jts[j].sent = its[j].sent
        BY <1>2, <1>4, <2>1
    <2> QED BY <1>1, <1>3, <2>1, <2>2
<1> QED BY <1>4

LEMMA ToolStep ==
    ASSUME NEW s, NEW its, NEW jts, NEW D, NEW E, NEW i, NEW d, NEW n \in Nat, NEW w, ToolStepped(s, its, jts, D, E, i, d, n, w)
    PROVE  StateOK(w, jts, E) /\ KeepsStopped(s, w)
<1>1. /\ Base
      /\ StateOK(s, its, D)
      /\ Moves(its, jts, D, E, i)
      /\ Decodes(s, d, its, jts, D, E, i)
      /\ i \in E
      /\ d.tools = Append(s.decoder.tools, [id |-> <<turn, calls, i>>, n |-> n])
      /\ Len(d.text) = Len(s.decoder.text)
      /\ w = Talk!StreamsTool(Decoded(s, d), <<turn, calls, i>>, Talk!Fragments(n))
    BY DEF ToolStepped
<1> DEFINE id == <<turn, calls, i>>
<1>2. /\ s \in Progress /\ s.decoder \in Completion /\ d \in Completion /\ BlocksOK(s) /\ its \in Items
      /\ Len(s.decoder.text) \in Nat /\ Len(whole.text) \in Nat
      /\ whole.tools \in Seq(Tool) /\ s.decoder.tools \in Seq(Tool)
    BY <1>1, StateTypes, LenProperties DEF StateOK, BlocksOK, Decodes, Base, Completion, Moves, Progress
<1>3. /\ BlocksOK(Decoded(s, d)) /\ KeepsStopped(s, Decoded(s, d))
      /\ Decoded(s, d).decoder = d /\ Decoded(s, d).blocks = s.blocks
      /\ Decoded(s, d).projection = s.projection /\ Decoded(s, d).open = s.open
    BY <1>1, <1>2, DecodedFacts
<1>4. id \in Id /\ [id |-> id, n |-> n] \in Tool /\ i \in Nat /\ calls \in Nat
    BY <1>1, <1>2, LenProperties DEF Id, Tool, Moves, Base, Items
<1>5. id \notin ToolIds(s.blocks)
    BY <1>1, <1>4, SMTT(40) DEF StateOK, Moves
<1>6. CASE streaming
    <2>1. /\ BlocksOK(w) /\ w.decoder = d /\ KeepsStopped(Decoded(s, d), w)
          /\ Talk!Echo(w.blocks).tools = Append(Talk!Echo(s.blocks).tools, [id |-> id, n |-> n])
          /\ ToolIds(w.blocks) = ToolIds(s.blocks) \cup {id}
          /\ w.projection.text = s.projection.text
        <3> HIDE DEF id
        <3>1. w = Talk!StreamsTool(Decoded(s, d), id, Talk!Fragments(n))
            BY <1>1 DEF id
        <3>2. id \notin ToolIds(Decoded(s, d).blocks)
            BY <1>1, <1>3, <1>5
        <3>3. PICK v : v = Decoded(s, d)
            OBVIOUS
        <3>4. BlocksOK(v) /\ id \notin ToolIds(v.blocks) /\ w = Talk!StreamsTool(v, id, Talk!Fragments(n))
            BY <1>1, <1>3, <3>1, <3>2, <3>3
        <3>5. id \in Id
            BY <1>1, <1>4
        <3>6. /\ BlocksOK(w) /\ w.decoder = v.decoder /\ KeepsStopped(v, w)
              /\ Talk!Echo(w.blocks).tools = Append(Talk!Echo(v.blocks).tools, [id |-> id, n |-> n])
              /\ ToolIds(w.blocks) = ToolIds(v.blocks) \cup {id}
              /\ w.projection.text = v.projection.text
            <4>1. NewTool(v, id, n, w)
                BY <1>6, <3>4 DEF NewTool
            <4>2. Tooled(v, w, id, n)
                BY <3>5, <4>1, StreamsTool
            <4> QED BY <4>2 DEF Tooled
        <3> QED BY <1>1, <1>3, <3>3, <3>6
    <2>2. KeepsStopped(s, w)
        <3>1. w \in Progress /\ Decoded(s, d) \in Progress
            BY <1>1, <1>3, <2>1 DEF BlocksOK
        <3>2. \A b \in 1..Len(s.blocks) : ~s.blocks[b].open => ~Decoded(s, d).blocks[b].open
            BY <1>1, <1>3, SMTT(40)
        <3> QED BY <1>1, <1>2, <1>3, <2>1, <3>1, <3>2, KeepsOn
    <2>3. Talk!Echo(w.blocks).tools = whole.tools \o w.decoder.tools
        <3>1. Talk!Echo(s.blocks).tools = whole.tools \o s.decoder.tools
            BY <1>1, <1>6 DEF StateOK
        <3> HIDE DEF id
        <3>2. whole.tools \o Append(s.decoder.tools, [id |-> id, n |-> n]) = Append(whole.tools \o s.decoder.tools, [id |-> id, n |-> n])
            <4>1. PICK e \in Tool : e = [id |-> id, n |-> n]
                BY <1>1, <1>4
            <4>2. PICK a \in Seq(Tool), b \in Seq(Tool) : a = whole.tools /\ b = s.decoder.tools
                BY <1>1, <1>2
            <4>3. a \o Append(b, e) = Append(a \o b, e)
                BY <1>1, JoinAppend, SMTT(40)
            <4> QED BY <1>1, <4>1, <4>2, <4>3
        <3>3. d.tools = Append(s.decoder.tools, [id |-> id, n |-> n])
            BY <1>1 DEF id
        <3> QED BY <1>1, <2>1, <3>1, <3>2, <3>3
    <2>4. Talk!Xs(w.projection.text) = Len(whole.text) + Len(w.decoder.text)
        BY <1>1, <1>2, <1>6, <2>1 DEF StateOK
    <2>5. \A x \in ToolIds(w.blocks) : x[1] = turn /\ ((x[2] \in Nat /\ x[2] < calls) \/ (x[2] = calls /\ x[3] \in E))
        <3>1. id[1] = turn /\ id[2] = calls /\ id[3] \in E
            BY <1>1
        <3> HIDE DEF id
        <3> QED BY <1>1, <2>1, <3>1 DEF StateOK, Moves
    <2>6. Len(w.decoder.got) = Len(jts) /\ E \subseteq 1..Len(jts)
        BY <1>1, <2>1 DEF Decodes, Moves
    <2>7. \A j \in 1..Len(jts) : j \notin E => w.decoder.got[j] = jts[j].sent
        <3>1. \A j \in 1..Len(jts) : j \notin E => d.got[j] = jts[j].sent
            BY <1>1, GotMoved
        <3>2. w.decoder = d
            BY <2>1
        <3> QED BY <3>1, <3>2
    <2>8. /\ Len(w.decoder.text) = Told(w.decoder.output) + Total(Untold(w.decoder.got, jts, E))
          /\ ~w.decoder.message => Told(w.decoder.output) = 0
        BY <1>1, <2>1 DEF Decodes
    <2> QED BY <1>1, <1>6, <2>1, <2>2, <2>3, <2>4, <2>5, <2>6, <2>7, <2>8 DEF StateOK
<1>7. CASE ~streaming
    <2>1. w = Decoded(s, d)
        BY <1>1, <1>7 DEF Talk!StreamsTool
    <2>2. s.blocks = <<>>
        BY <1>1, <1>7 DEF StateOK
    <2>3. ToolIds(w.blocks) = ToolIds(s.blocks)
        BY <1>1, <1>3, <2>1
    <2>4. \A x \in ToolIds(w.blocks) : x[1] = turn /\ ((x[2] \in Nat /\ x[2] < calls) \/ (x[2] = calls /\ x[3] \in E))
        BY <1>1, <2>3 DEF StateOK, Moves
    <2>5. Len(w.decoder.got) = Len(jts) /\ E \subseteq 1..Len(jts)
        BY <1>1, <1>3, <2>1 DEF Decodes, Moves
    <2>6. \A j \in 1..Len(jts) : j \notin E => w.decoder.got[j] = jts[j].sent
        <3>1. \A j \in 1..Len(jts) : j \notin E => d.got[j] = jts[j].sent
            BY <1>1, GotMoved
        <3>2. w.decoder = d
            BY <1>3, <2>1
        <3> QED BY <3>1, <3>2
    <2>7. /\ Len(w.decoder.text) = Told(w.decoder.output) + Total(Untold(w.decoder.got, jts, E))
          /\ ~w.decoder.message => Told(w.decoder.output) = 0
        BY <1>1, <1>3, <2>1 DEF Decodes
    <2> QED BY <1>1, <1>3, <1>7, <2>1, <2>2, <2>4, <2>5, <2>6, <2>7 DEF StateOK
<1> QED BY <1>1, <1>6, <1>7 DEF Base

\* The decoder's edits, all at once.
Edited(text, got, tools, output, message) ==
    [text |-> text, got |-> got, tools |-> tools, output |-> output, message |-> message]

EditsTo(d, i, n, t, got) ==
    /\ Talk!Counts(d, i, n) = Edited(d.text, got, d.tools, d.output, d.message)
    /\ Talk!AddsText(Talk!Counts(d, i, n), t) = Edited(d.text \o t, got, d.tools, d.output, d.message)
    /\ Len(got) = Len(d.got) /\ got[i] = n
    /\ \A j \in 1..Len(d.got) : j # i => got[j] = d.got[j]

LEMMA EditFacts ==
    ASSUME NEW d \in Completion, NEW i \in 1..Len(d.got), NEW n \in Nat, NEW t \in Seq({"x"})
    PROVE  \E got \in Seq(Nat) : EditsTo(d, i, n, t, got)
<1>1. d.got \in Seq(Nat) /\ d.text \in Seq({"x"})
    BY DEF Completion
<1>2. PICK got : got = [d.got EXCEPT ![i] = n]
    OBVIOUS
<1>3. got \in Seq(Nat) /\ Len(got) = Len(d.got) /\ \A j \in 1..Len(d.got) : got[j] = IF j = i THEN n ELSE d.got[j]
    BY <1>1, <1>2, ExceptSeq
<1>4. PICK e : e = [d EXCEPT !.got = got]
    OBVIOUS
<1>5. e = Talk!Counts(d, i, n)
    BY <1>2, <1>4 DEF Talk!Counts
<1>6. e = Edited(d.text, got, d.tools, d.output, d.message)
    BY <1>4 DEF Edited, Completion
<1>7. e.text = d.text
    BY <1>6 DEF Edited
<1>8. PICK u : u = d.text \o t
    OBVIOUS
<1>9. Talk!AddsText(e, t) = [e EXCEPT !.text = u]
    BY <1>7, <1>8 DEF Talk!AddsText
<1>10. [e EXCEPT !.text = u] = Edited(u, got, d.tools, d.output, d.message)
    BY <1>6 DEF Edited
<1>11. got[i] = n /\ \A j \in 1..Len(d.got) : j # i => got[j] = d.got[j]
    BY <1>3
<1> QED BY <1>3, <1>5, <1>6, <1>8, <1>9, <1>10, <1>11 DEF EditsTo

LEMMA DecodesIs ==
    ASSUME NEW s \in Progress, NEW d
    PROVE  Talk!Decodes(s, d) = Decoded(s, d)
BY DEF Talk!Decodes, Decoded, Progress

\* A delta of the item i.
Deltas(s, D, jts, i, w) ==
    /\ Base /\ StateOK(s, items, D) /\ Moves(items, jts, D, D, i) /\ jts[i].sent = items[i].sent + 1
    /\ w = Talk!OnDelta(s, i)

LEMMA DeltaStep ==
    ASSUME NEW s, NEW D, NEW jts, NEW i, NEW w, Deltas(s, D, jts, i, w)
    PROVE  StateOK(w, jts, D) /\ KeepsStopped(s, w)
<1>1. /\ Base /\ StateOK(s, items, D) /\ Moves(items, jts, D, D, i) /\ jts[i].sent = items[i].sent + 1
      /\ w = Talk!OnDelta(s, i)
    BY DEF Deltas
<1> DEFINE d == s.decoder
<1>2. /\ s \in Progress /\ d \in Completion /\ Len(items) \in Nat
      /\ d.got \in Seq(Nat) /\ d.text \in Seq({"x"}) /\ Len(d.text) \in Nat
      /\ d.tools \in Seq(Tool) /\ d.output \in Seq(Raw) /\ d.message \in BOOLEAN
      /\ items \in Items /\ jts \in Items /\ i \in 1..Len(items) /\ Len(jts) = Len(items) /\ i \notin D
    BY <1>1, StateTypes DEF Base, Moves
<1>3. Len(d.got) = Len(items) /\ d.got[i] = items[i].sent /\ d.got[i] \in Nat
    BY <1>1, <1>2, ElementOfSeq DEF StateOK
<1>4. PICK n \in Nat : n = d.got[i] + 1 /\ n = jts[i].sent
    BY <1>1, <1>3
<1>5. d.text \o <<"x">> \in Seq({"x"}) /\ Len(d.text \o <<"x">>) = Len(d.text) + 1
      /\ <<"x">> \in Seq({"x"}) /\ Len(<<"x">>) = 1
    <2>1. <<"x">> \in Seq({"x"}) /\ Len(<<"x">>) = 1
        OBVIOUS
    <2> QED BY <1>2, <2>1, ConcatProperties
<1>6. PICK got \in Seq(Nat) : EditsTo(d, i, n, <<"x">>, got)
    <2>1. i \in 1..Len(d.got)
        BY <1>2, <1>3
    <2>2. PICK t \in Seq({"x"}) : t = <<"x">>
        BY <1>5
    <2> HIDE DEF d
    <2>3. \E got \in Seq(Nat) : EditsTo(d, i, n, t, got)
        BY <1>2, <2>1, EditFacts
    <2> QED BY <2>2, <2>3
<1>7.
         /\ Talk!Counts(d, i, n) = Edited(d.text, got, d.tools, d.output, d.message)
         /\ Talk!AddsText(Talk!Counts(d, i, n), <<"x">>) = Edited(d.text \o <<"x">>, got, d.tools, d.output, d.message)
         /\ Len(got) = Len(d.got) /\ got[i] = n
         /\ \A j \in 1..Len(d.got) : j # i => got[j] = d.got[j]
    BY <1>6 DEF EditsTo
<1> DEFINE e == Edited(d.text, got, d.tools, d.output, d.message)
           f == Edited(d.text \o <<"x">>, got, d.tools, d.output, d.message)
<1>8. e \in Completion /\ f \in Completion
    BY <1>2, <1>5, <1>7 DEF Edited, Completion
<1>9. /\ Total(Untold(d.got, items, D)) \in Nat /\ Total(Untold(got, jts, D)) \in Nat
      /\ Total(Untold(got, jts, D)) + (IF items[i].kind = "message" THEN d.got[i] ELSE 0)
         = Total(Untold(d.got, items, D)) + (IF items[i].kind = "message" THEN got[i] ELSE 0)
    <2>1. \A j \in 1..Len(items) : jts[j].kind = items[j].kind
        BY <1>1 DEF Moves
    <2>2. \A j \in 1..Len(items) : j # i => (got[j] = d.got[j] /\ (j \in D <=> j \in D))
        BY <1>3, <1>7
    <2>3. Len(got) = Len(items)
        BY <1>3, <1>7
    <2>4. Recount(items, jts, d.got, got, D, D, i)
        BY <1>2, <1>3, <1>7, <2>1, <2>2, <2>3 DEF Recount
    <2>5. /\ Total(Untold(d.got, items, D)) \in Nat /\ Total(Untold(got, jts, D)) \in Nat
          /\ Total(Untold(got, jts, D)) + (IF items[i].kind = "message" /\ i \notin D THEN d.got[i] ELSE 0)
             = Total(Untold(d.got, items, D)) + (IF items[i].kind = "message" /\ i \notin D THEN got[i] ELSE 0)
        BY <2>4, UntoldFacts
    <2> QED BY <1>2, <2>5
<1>10. Len(d.text) = Told(d.output) + Total(Untold(d.got, items, D)) /\ Told(d.output) \in Nat
    BY <1>1, <1>2, ToldFacts DEF StateOK
<1>11. w = IF items[i].kind = "message" THEN Talk!Streams(Decoded(s, f), "text", <<"x">>)
          ELSE IF items[i].kind = "reasoning" THEN Talk!Streams(Decoded(s, e), "thinking", <<"x">>)
          ELSE Decoded(s, e)
    <2>1. Talk!Decodes(s, e) = Decoded(s, e) /\ Talk!Decodes(s, f) = Decoded(s, f)
        BY <1>2, DecodesIs
    <2>2. Talk!Counts(s.decoder, i, s.decoder.got[i] + 1) = e
          /\ Talk!AddsText(Talk!Counts(s.decoder, i, s.decoder.got[i] + 1), <<"x">>) = f
        BY <1>4, <1>7
    <2> HIDE DEF e, f
    <2> QED BY <1>1, <2>1, <2>2 DEF Talk!OnDelta
<1>12. items[i].kind \in {"message", "call", "reasoning"}
    BY <1>2, ItemFacts
<1>13. BlocksOK(Decoded(s, e)) /\ BlocksOK(Decoded(s, f)) /\ <<"x">> \in Seq({"x"}) /\ Len(<<"x">>) = 1
    BY <1>1, <1>5, <1>8, DecodedFacts DEF StateOK
<1>14. CASE items[i].kind = "message"
    <2>1. w = Talk!Streams(Decoded(s, f), "text", <<"x">>)
        BY <1>11, <1>14
    <2>2. Decodes(s, f, items, jts, D, D, i)
        <3>1. f.text = d.text \o <<"x">> /\ f.got = got /\ f.tools = d.tools /\ f.output = d.output /\ f.message = d.message
            BY SMTT(40) DEF Edited
        <3>2. Len(f.text) = Told(f.output) + Total(Untold(f.got, jts, D))
            <4>1. PICK a \in Nat, b \in Nat, c \in Nat, g \in Nat :
                      a = Told(d.output) /\ b = Total(Untold(d.got, items, D))
                      /\ c = Total(Untold(got, jts, D)) /\ g = d.got[i]
                BY <1>3, <1>9, <1>10
            <4>2. got[i] = g + 1
                BY <1>4, <1>7, <4>1
            <4>3. c + g = b + (g + 1)
                BY <1>9, <1>14, <4>1, <4>2
            <4>4. Len(d.text) = a + b
                BY <1>10, <4>1
            <4>5. (a + b) + 1 = a + c
                BY <4>3
            <4>6. Len(f.text) = a + c
                BY <1>5, <3>1, <4>4, <4>5, SMTT(40)
            <4> QED BY <3>1, <4>1, <4>6
        <3>3. ~f.message => Told(f.output) = 0
            BY <1>1, <3>1 DEF StateOK
        <3> HIDE DEF f
        <3> QED BY <1>3, <1>4, <1>8, <1>7, <3>1, <3>2, <3>3 DEF Decodes
    <2>3. IF streaming THEN Texted(Decoded(s, f), w, 1) ELSE w = Decoded(s, f)
        <3>1. CASE streaming
            <4> HIDE DEF f
            <4>1. Texted(Decoded(s, f), w, IF "text" = "text" THEN Len(<<"x">>) ELSE 0)
                BY <1>13, <2>1, <3>1, StreamsText
            <4> QED BY <1>13, <3>1, <4>1
        <3>2. CASE ~streaming
            BY <2>1, <3>2 DEF Talk!Streams
        <3> QED BY <3>1, <3>2
    <2>4. f.tools = d.tools /\ Len(f.text) = Len(d.text) + 1
        BY <1>5 DEF Edited
    <2> HIDE DEF f
    <2>5. TextStepped(s, items, jts, D, D, i, f, 1, w)
        BY <1>1, <2>2, <2>3, <2>4 DEF TextStepped
    <2> QED BY <2>5, TextStep
<1>15. CASE items[i].kind # "message"
    <2>1. Decodes(s, e, items, jts, D, D, i)
        <3>1. e.text = d.text /\ e.got = got /\ e.tools = d.tools /\ e.output = d.output /\ e.message = d.message
            BY DEF Edited
        <3>2. Len(e.text) = Told(e.output) + Total(Untold(e.got, jts, D))
            BY <1>2, <1>9, <1>10, <1>15, <3>1
        <3>3. ~e.message => Told(e.output) = 0
            BY <1>1, <3>1 DEF StateOK
        <3> HIDE DEF e
        <3> QED BY <1>3, <1>4, <1>8, <1>7, <3>1, <3>2, <3>3 DEF Decodes
    <2>2. e.tools = d.tools /\ Len(e.text) = Len(d.text) + 0
        BY <1>2 DEF Edited
    <2> HIDE DEF e
    <2>3. IF streaming THEN Texted(Decoded(s, e), w, 0) ELSE w = Decoded(s, e)
        <3>1. CASE items[i].kind = "reasoning" /\ streaming
            <4>1. w = Talk!Streams(Decoded(s, e), "thinking", <<"x">>)
                BY <1>11, <3>1
            <4>2. Texted(Decoded(s, e), w, IF "thinking" = "text" THEN Len(<<"x">>) ELSE 0)
                BY <1>13, <3>1, <4>1, StreamsText
            <4> QED BY <3>1, <4>2
        <3>2. CASE items[i].kind = "reasoning" /\ ~streaming
            <4>1. w = Talk!Streams(Decoded(s, e), "thinking", <<"x">>)
                BY <1>11, <3>2
            <4> QED BY <3>2, <4>1 DEF Talk!Streams
        <3>3. CASE items[i].kind = "call"
            <4>1. w = Decoded(s, e)
                BY <1>11, <3>3, SMTT(40)
            <4>2. KeepsStopped(w, w)
                BY <1>13, <4>1, KeepsSelf, ZenonT(60) DEF BlocksOK
            <4>3. w.projection.text \in Text
                BY <1>13, <4>1, Zenon DEF BlocksOK, Progress
            <4>4. Texted(Decoded(s, e), w, 0)
                BY <1>13, <4>1, <4>2, <4>3, XsFacts DEF Texted
            <4> QED BY <4>1, <4>4
        <3> QED BY <1>12, <1>15, <3>1, <3>2, <3>3
    <2>4. TextStepped(s, items, jts, D, D, i, e, 0, w)
        BY <1>1, <2>1, <2>2, <2>3 DEF TextStepped
    <2> QED BY <2>4, TextStep
<1> QED BY <1>14, <1>15

\* The item i completed with this body.
Completes(s, its, D, jts, i, body, w) ==
    /\ Base /\ StateOK(s, its, D) /\ Moves(its, jts, D, D \cup {i}, i)
    /\ body >= its[i].sent /\ its[i].kind = items[i].kind
    /\ w = Talk!OnItem(s, i, body)

LEMMA ItemStep ==
    ASSUME NEW s, NEW its, NEW D, NEW jts, NEW i, NEW body \in Nat, NEW w, Completes(s, its, D, jts, i, body, w)
    PROVE  StateOK(w, jts, D \cup {i}) /\ KeepsStopped(s, w)
<1>1. /\ Base /\ StateOK(s, its, D) /\ Moves(its, jts, D, D \cup {i}, i)
      /\ body >= its[i].sent /\ its[i].kind = items[i].kind
      /\ w = Talk!OnItem(s, i, body)
    BY DEF Completes
<1> DEFINE d == s.decoder
           rest == Talk!Fragments(body - d.got[i])
           raw == Talk!Raw(its[i].kind, i, body)
           tool == [id |-> <<turn, calls, i>>, n |-> body]
           E == D \cup {i}
<1>2. /\ s \in Progress /\ d \in Completion /\ Len(its) \in Nat
      /\ d.got \in Seq(Nat) /\ d.text \in Seq({"x"}) /\ Len(d.text) \in Nat
      /\ d.tools \in Seq(Tool) /\ d.output \in Seq(Raw) /\ d.message \in BOOLEAN
      /\ its \in Items /\ jts \in Items /\ i \in 1..Len(its) /\ Len(jts) = Len(its) /\ i \notin D
      /\ i \in E /\ i \in Nat /\ its[i].sent \in Nat /\ its[i].kind \in {"message", "call", "reasoning"}
      /\ turn \in Nat /\ calls \in Nat
    BY <1>1, StateTypes, ItemFacts DEF Base, Moves
<1>3. Len(d.got) = Len(its) /\ d.got[i] = its[i].sent /\ d.got[i] \in Nat /\ body - d.got[i] \in Nat
    BY <1>1, <1>2, SMTT(40) DEF StateOK
<1>4. rest \in Seq({"x"}) /\ Len(rest) = body - d.got[i]
    BY <1>3, FragmentsAre
<1>5. d.text \o rest \in Seq({"x"}) /\ Len(d.text \o rest) = Len(d.text) + (body - d.got[i])
    <2>1. PICK t \in Seq({"x"}), u \in Seq({"x"}) : t = d.text /\ u = rest
        BY <1>2, <1>4
    <2>2. t \o u \in Seq({"x"}) /\ Len(t \o u) = Len(t) + Len(u)
        BY ConcatProperties
    <2> QED BY <1>4, <2>1, <2>2
<1>6. raw \in Raw /\ raw.type = its[i].kind /\ raw.n = body /\ tool \in Tool
    BY <1>2 DEF Talk!Raw, Raw, Tool, Id
<1>7. Append(d.output, raw) \in Seq(Raw) /\ Append(d.tools, tool) \in Seq(Tool)
      /\ Told(Append(d.output, raw)) = Told(d.output) + (IF its[i].kind = "message" THEN body ELSE 0)
      /\ Told(d.output) \in Nat
    <2> HIDE DEF raw, tool
    <2> QED BY <1>2, <1>6, AppendProperties, ToldFacts
<1>8. PICK got \in Seq(Nat) : EditsTo(d, i, body, rest, got)
    <2>1. i \in 1..Len(d.got)
        BY <1>2, <1>3
    <2> HIDE DEF d, rest
    <2> QED BY <1>2, <1>4, <2>1, EditFacts
<1>9. /\ Talk!Counts(d, i, body) = Edited(d.text, got, d.tools, d.output, d.message)
      /\ Len(got) = Len(d.got) /\ got[i] = body
      /\ \A j \in 1..Len(d.got) : j # i => got[j] = d.got[j]
    BY <1>8 DEF EditsTo
<1>10. /\ Total(Untold(d.got, its, D)) \in Nat /\ Total(Untold(got, jts, E)) \in Nat
      /\ Total(Untold(got, jts, E)) + (IF its[i].kind = "message" THEN d.got[i] ELSE 0) = Total(Untold(d.got, its, D))
    <2>1. \A j \in 1..Len(its) : jts[j].kind = its[j].kind
        BY <1>1 DEF Moves
    <2>2. \A j \in 1..Len(its) : j # i => (got[j] = d.got[j] /\ (j \in D <=> j \in E))
        BY <1>3, <1>9
    <2>3. Len(got) = Len(its)
        BY <1>3, <1>9
    <2>4. Recount(its, jts, d.got, got, D, E, i)
        BY <1>2, <1>3, <1>9, <2>1, <2>2, <2>3 DEF Recount
    <2> HIDE DEF E
    <2>5. /\ Total(Untold(d.got, its, D)) \in Nat /\ Total(Untold(got, jts, E)) \in Nat
          /\ Total(Untold(got, jts, E)) + (IF its[i].kind = "message" /\ i \notin D THEN d.got[i] ELSE 0)
             = Total(Untold(d.got, its, D)) + (IF its[i].kind = "message" /\ i \notin E THEN got[i] ELSE 0)
        BY <2>4, UntoldFacts
    <2> QED BY <1>2, <2>5
<1>11. Len(d.text) = Told(d.output) + Total(Untold(d.got, its, D))
    BY <1>1 DEF StateOK
<1> DEFINE output == Append(d.output, raw)
           e == Edited(d.text, got, d.tools, output, d.message)
           f == Edited(d.text \o rest, got, d.tools, output, TRUE)
           g == Edited(d.text, got, Append(d.tools, tool), output, d.message)
<1>12. e \in Completion /\ f \in Completion /\ g \in Completion
    <2> HIDE DEF rest, raw, tool
    <2> QED BY <1>2, <1>5, <1>7 DEF Edited, Completion
<1>13. w = IF its[i].kind = "message" THEN Talk!Streams(Decoded(s, f), "text", rest)
           ELSE IF its[i].kind = "reasoning" THEN Decoded(s, e)
           ELSE Talk!StreamsTool(Decoded(s, g), <<turn, calls, i>>, Talk!Fragments(body))
    <2> HIDE DEF rest, raw, tool, output
    <2>1. /\ Talk!Decodes(s, e) = Decoded(s, e) /\ Talk!Decodes(s, f) = Decoded(s, f)
          /\ Talk!Decodes(s, g) = Decoded(s, g)
        BY <1>2, DecodesIs
    <2> HIDE DEF d
    <2>2. [Talk!Counts(d, i, body) EXCEPT !.output = Append(@, raw)] = e
        <3>1. PICK k : k = Talk!Counts(d, i, body)
            OBVIOUS
        <3>2. k = Edited(d.text, got, d.tools, d.output, d.message)
            BY <1>9, <3>1
        <3>3. k.output = d.output
            BY <3>2 DEF Edited
        <3>4. [k EXCEPT !.output = Append(@, raw)] = [k EXCEPT !.output = output]
            BY <3>3 DEF output
        <3>5. [k EXCEPT !.output = output] = e
            BY <3>2 DEF Edited
        <3> HIDE DEF e
        <3> QED BY <3>1, <3>4, <3>5
    <2>3. [Talk!AddsText(e, rest) EXCEPT !.message = TRUE] = f
        <3>1. PICK u : u = d.text \o rest
            OBVIOUS
        <3>2. PICK k : k = e
            OBVIOUS
        <3>3. k.text = d.text
            BY <3>2 DEF Edited
        <3>4. Talk!AddsText(k, rest) = [k EXCEPT !.text = u]
            BY <3>1, <3>3 DEF Talk!AddsText
        <3>5. [k EXCEPT !.text = u] = Edited(u, got, d.tools, output, d.message)
            BY <3>2 DEF Edited
        <3>6. PICK m : m = Edited(u, got, d.tools, output, d.message)
            OBVIOUS
        <3>7. PICK b : b = TRUE
            OBVIOUS
        <3>8. [m EXCEPT !.message = b] = Edited(u, got, d.tools, output, b)
            BY <3>6 DEF Edited
        <3>9. [m EXCEPT !.message = TRUE] = Edited(u, got, d.tools, output, TRUE)
            BY <3>7, <3>8
        <3>10. Talk!AddsText(e, rest) = m
            BY <3>2, <3>4, <3>5, <3>6
        <3> HIDE DEF e
        <3> QED BY <3>1, <3>9, <3>10
    <2>4. [e EXCEPT !.tools = Append(@, tool)] = g
        <3>1. PICK t : t = Append(d.tools, tool)
            OBVIOUS
        <3>2. PICK k : k = e
            OBVIOUS
        <3>3. k.tools = d.tools
            BY <3>2 DEF Edited
        <3>4. [k EXCEPT !.tools = Append(@, tool)] = [k EXCEPT !.tools = t]
            BY <3>1, <3>3
        <3>5. [k EXCEPT !.tools = t] = Edited(d.text, got, t, output, d.message)
            BY <3>2 DEF Edited
        <3> HIDE DEF e
        <3> QED BY <3>1, <3>2, <3>4, <3>5
    <2>5. Talk!Rest(d.got[i], body) = rest
        BY DEF Talk!Rest, rest
    <2>6. w = LET c == [Talk!Counts(d, i, body) EXCEPT !.output = Append(@, raw)]
              IN IF its[i].kind = "message"
                 THEN Talk!Streams(Talk!Decodes(s, [Talk!AddsText(c, rest) EXCEPT !.message = TRUE]), "text", rest)
                 ELSE IF its[i].kind = "reasoning" THEN Talk!Decodes(s, c)
                 ELSE Talk!StreamsTool(Talk!Decodes(s, [c EXCEPT !.tools = Append(@, tool)]),
                                       <<turn, calls, i>>, Talk!Fragments(body))
        BY <1>1, <2>5 DEF Talk!OnItem, raw, tool, d
    <2>7. PICK c : c = [Talk!Counts(d, i, body) EXCEPT !.output = Append(@, raw)]
        OBVIOUS
    <2>8. PICK ct : ct = [c EXCEPT !.tools = Append(@, tool)]
        OBVIOUS
    <2>9. PICK cf : cf = [Talk!AddsText(c, rest) EXCEPT !.message = TRUE]
        OBVIOUS
    <2>10. w = IF its[i].kind = "message" THEN Talk!Streams(Talk!Decodes(s, cf), "text", rest)
               ELSE IF its[i].kind = "reasoning" THEN Talk!Decodes(s, c)
               ELSE Talk!StreamsTool(Talk!Decodes(s, ct), <<turn, calls, i>>, Talk!Fragments(body))
        BY <2>6, <2>7, <2>8, <2>9
    <2> HIDE DEF e, f, g, d
    <2>11. c = e /\ ct = g /\ cf = f
        BY <2>2, <2>3, <2>4, <2>7, <2>8, <2>9
    <2> QED BY <2>1, <2>10, <2>11
<1> HIDE DEF rest, raw, output
<1>14. BlocksOK(Decoded(s, e)) /\ BlocksOK(Decoded(s, f))
    BY <1>1, <1>12, DecodedFacts DEF StateOK
<1>15. CASE its[i].kind = "message"
    <2>1. w = Talk!Streams(Decoded(s, f), "text", rest)
        BY <1>13, <1>15
    <2>2. PICK a \in Nat, b \in Nat, c \in Nat, k \in Nat, n \in Nat :
              /\ a = Told(d.output) /\ b = Total(Untold(d.got, its, D))
              /\ c = Total(Untold(got, jts, E)) /\ k = d.got[i] /\ n = body - k
        BY <1>3, <1>7, <1>10
    <2>3. c + k = b /\ Len(d.text) = a + b
        BY <1>10, <1>11, <1>15, <2>2
    <2>4. f.text = d.text \o rest /\ f.got = got /\ f.tools = d.tools /\ f.output = output /\ f.message = TRUE
        BY DEF Edited
    <2>5. Len(f.text) = Len(d.text) + n
        BY <1>5, <2>2, <2>4
    <2>6. (a + b) + n = (a + body) + c
        <3>1. n = body - k /\ c + k = b
            BY <2>2, <2>3
        <3>2. a \in Nat /\ b \in Nat /\ c \in Nat /\ k \in Nat /\ n \in Nat /\ body \in Nat
            BY <2>2
        <3>3. c + k = b
            BY <3>1
        <3>4. n = body - k
            BY <3>1
        <3>5. n + k = body
            BY <3>2, <3>4
        <3>6. b + n = body + c
            BY <3>2, <3>3, <3>5
        <3>7. (a + b) + n = a + (b + n)
            BY <3>2
        <3>8. (a + body) + c = a + (body + c)
            BY <3>2, SMTT(40)
        <3> QED BY <3>6, <3>7, <3>8
    <2>7. Told(f.output) = a + body
        BY <1>7, <1>15, <2>2, <2>4 DEF output
    <2>8. Len(f.text) = Told(f.output) + Total(Untold(f.got, jts, E))
        BY <2>2, <2>3, <2>4, <2>5, <2>6, <2>7
    <2> HIDE DEF f, E
    <2>9. Decodes(s, f, its, jts, D, E, i)
        BY <1>2, <1>3, <1>9, <1>12, <2>4, <2>8 DEF Decodes
    <2>10. IF streaming THEN Texted(Decoded(s, f), w, n) ELSE w = Decoded(s, f)
        <3>1. CASE streaming
            <4>1. Texted(Decoded(s, f), w, IF "text" = "text" THEN Len(rest) ELSE 0)
                BY <1>4, <1>14, <2>1, <3>1, StreamsText
            <4> QED BY <1>4, <2>2, <3>1, <4>1
        <3>2. CASE ~streaming
            BY <2>1, <3>2 DEF Talk!Streams
        <3> QED BY <3>1, <3>2
    <2>11. Moves(its, jts, D, E, i)
        BY <1>1 DEF E
    <2>12. TextStepped(s, its, jts, D, E, i, f, n, w)
        BY <1>1, <2>4, <2>5, <2>9, <2>10, <2>11 DEF TextStepped
    <2>13. StateOK(w, jts, E) /\ KeepsStopped(s, w)
        BY <2>12, TextStep
    <2> QED BY <2>13 DEF E
<1>16. CASE its[i].kind # "message"
    <2>1. Len(d.text) = Told(output) + Total(Untold(got, jts, E))
        BY <1>7, <1>10, <1>11, <1>16 DEF output
    <2>2. Told(output) = Told(d.output)
        BY <1>7, <1>16 DEF output
    <2>3. ~d.message => Told(output) = 0
        BY <1>1, <2>2 DEF StateOK
    <2>4. /\ e.text = d.text /\ e.got = got /\ e.tools = d.tools /\ e.output = output /\ e.message = d.message
          /\ g.text = d.text /\ g.got = got /\ g.tools = Append(d.tools, tool) /\ g.output = output /\ g.message = d.message
        BY DEF Edited
    <2> HIDE DEF e, g, E
    <2>5. Decodes(s, e, its, jts, D, E, i) /\ Decodes(s, g, its, jts, D, E, i)
        BY <1>2, <1>3, <1>9, <1>12, <2>1, <2>3, <2>4 DEF Decodes
    <2>6. Moves(its, jts, D, E, i)
        BY <1>1 DEF E
    <2>7. CASE its[i].kind = "reasoning"
        <3>1. w = Decoded(s, e)
            BY <1>13, <1>16, <2>7, SMTT(40)
        <3>2. w \in Progress /\ w.projection.text \in Text
            BY <1>14, <3>1 DEF BlocksOK, Progress
        <3>3. KeepsStopped(w, w)
            BY <3>2, KeepsSelf
        <3>4. Texted(Decoded(s, e), w, 0)
            BY <1>14, <3>1, <3>2, <3>3, XsFacts DEF Texted
        <3>5. e.tools = d.tools /\ Len(e.text) = Len(d.text) + 0
            BY <1>2, <2>4
        <3>6. TextStepped(s, its, jts, D, E, i, e, 0, w)
            BY <1>1, <2>5, <2>6, <3>1, <3>4, <3>5 DEF TextStepped
        <3>7. StateOK(w, jts, E) /\ KeepsStopped(s, w)
            BY <3>6, TextStep
        <3> QED BY <3>7 DEF E
    <2>8. CASE its[i].kind = "call"
        <3>1. w = Talk!StreamsTool(Decoded(s, g), <<turn, calls, i>>, Talk!Fragments(body))
            BY <1>13, <1>16, <2>8
        <3>2. ToolStepped(s, its, jts, D, E, i, g, body, w)
            BY <1>1, <1>2, <2>4, <2>5, <2>6, <3>1 DEF ToolStepped, E
        <3>3. StateOK(w, jts, E) /\ KeepsStopped(s, w)
            BY <3>2, ToolStep
        <3> QED BY <3>3 DEF E
    <2> QED BY <1>2, <1>16, <2>7, <2>8
<1> QED BY <1>15, <1>16

-----------------------------------------------------------------------------
(* The end of a call.                                                       *)

LEMMA KeepsTrans ==
    ASSUME NEW s \in Progress, NEW t \in Progress, NEW w \in Progress, KeepsStopped(s, t), KeepsStopped(t, w)
    PROVE  KeepsStopped(s, w)
<1>1. Len(s.blocks) \in Nat /\ Len(t.blocks) \in Nat /\ Len(w.blocks) \in Nat
    BY LenProperties DEF Progress
<1>2. \A b \in 1..Len(s.blocks) : b \in 1..Len(t.blocks)
    BY <1>1 DEF KeepsStopped
<1> QED BY <1>1, <1>2 DEF KeepsStopped

\* What response.completed brings.
DoneItems == {i \in 1..Len(items) : items[i].done}
Body(more, n) == items[n].sent + (IF n = Len(items) THEN more ELSE 0)
ItemEnds(more, n, s) == IF items[n].done THEN s ELSE Talk!OnItem(s, n, Body(more, n))

Goes(more, h) ==
    /\ Base /\ StateOK(Talk!State, items, DoneItems) /\ h[0] = Talk!State
    /\ \A n \in 1..Len(items) : ItemEnds(more, n, h[n - 1]) \in Progress => h[n] = ItemEnds(more, n, h[n - 1])

LEMMA Going ==
    ASSUME NEW more \in 0..1, NEW h, Goes(more, h)
    PROVE  \A n \in 0..Len(items) : /\ StateOK(h[n], items, DoneItems \cup 1..n) /\ KeepsStopped(Talk!State, h[n])
                                    /\ h[n] \in Progress /\ (n # 0 => h[n] = ItemEnds(more, n, h[n - 1]))
<1> DEFINE N == Len(items)
           OK(n) == /\ StateOK(h[n], items, DoneItems \cup 1..n) /\ KeepsStopped(Talk!State, h[n]) /\ h[n] \in Progress
                    /\ (n # 0 => h[n] = ItemEnds(more, n, h[n - 1]))
           T == {n \in Nat : n \in 0..N => OK(n)}
<1>1. /\ Base /\ StateOK(Talk!State, items, DoneItems) /\ h[0] = Talk!State
      /\ \A n \in 1..N : ItemEnds(more, n, h[n - 1]) \in Progress => h[n] = ItemEnds(more, n, h[n - 1])
    BY DEF Goes
<1>2. N \in Nat /\ items \in Items
    BY <1>1, LenProperties DEF Base, Items
<1>3. 0 \in T
    <2>1. DoneItems \cup 1..0 = DoneItems
        OBVIOUS
    <2>2. Talk!State \in Progress
        BY <1>1, <1>2, StateTypes
    <2> QED BY <1>1, <2>1, <2>2, KeepsSelf
<1>4. ASSUME NEW n \in Nat, n \in T, n + 1 \in 0..N PROVE OK(n + 1)
    <2> DEFINE m == n + 1
               s == h[n]
               w == ItemEnds(more, m, s)
               D == DoneItems \cup 1..n
               E == DoneItems \cup 1..m
    <2>1. m \in 1..N /\ m - 1 = n /\ OK(n) /\ 1..m = (1..n) \cup {m} /\ m \notin 1..n /\ m \in Nat
        BY <1>2, <1>4
    <2>2. w \in Progress => h[m] = w
        BY <1>1, <2>1
    <2>3. items[m].done => w = s /\ E = D
        BY <2>1 DEF ItemEnds, DoneItems
    <2>4. ASSUME ~items[m].done PROVE StateOK(w, items, E) /\ KeepsStopped(s, w)
        <3> DEFINE body == Body(more, m)
        <3>1. items[m].sent \in Nat /\ body \in Nat /\ body >= items[m].sent
            BY <1>2, <2>1, ItemFacts DEF Body
        <3>2. E = D \cup {m} /\ m \notin D /\ E \subseteq 1..N /\ D \subseteq 1..N
            BY <1>2, <2>1, <2>4 DEF DoneItems
        <3> HIDE DEF body, D, E, m
        <3>3. Moves(items, items, D, D \cup {m}, m)
            BY <1>2, <2>1, <3>2 DEF Moves
        <3>4. StateOK(s, items, D)
            BY <2>1 DEF D
        <3>5. w = Talk!OnItem(s, m, body)
            BY <2>4 DEF ItemEnds, body
        <3>6. Completes(s, items, D, items, m, body, w)
            BY <1>1, <3>1, <3>3, <3>4, <3>5 DEF Completes
        <3>7. StateOK(w, items, D \cup {m}) /\ KeepsStopped(s, w)
            <4> HIDE DEF w, s
            <4> QED BY <3>1, <3>6, ItemStep
        <3> QED BY <3>2, <3>7
    <2>5. StateOK(w, items, E) /\ KeepsStopped(s, w)
        <3>1. s \in Progress /\ StateOK(s, items, D)
            BY <2>1
        <3> HIDE DEF E, D, s, w, m
        <3> QED BY <2>3, <2>4, <3>1, KeepsSelf
    <2>6. w \in Progress
        <3> HIDE DEF E, w
        <3> QED BY <1>2, <2>5, StateTypes
    <2>7. h[m] = w
        BY <2>2, <2>6
    <2>8. KeepsStopped(Talk!State, w)
        <3>1. KeepsStopped(Talk!State, s) /\ s \in Progress /\ Talk!State \in Progress
            BY <1>1, <1>2, <2>1, StateTypes
        <3> HIDE DEF s, w
        <3> QED BY <2>5, <2>6, <3>1, KeepsTrans
    <2>9. h[m] = ItemEnds(more, m, h[m - 1])
        BY <2>1, <2>7
    <2> HIDE DEF w
    <2> QED BY <2>5, <2>6, <2>7, <2>8, <2>9
<1> HIDE DEF OK
<1>5. \A n \in Nat : n \in T => n + 1 \in T
    BY <1>4
<1> HIDE DEF T
<1>6. Nat \subseteq T
    BY <1>3, <1>5, NumberInduction
<1>7. \A n \in 0..N : OK(n)
    BY <1>2, <1>6 DEF T
<1> QED BY <1>7 DEF OK

Completing(f, more) ==
    f = [i \in 0..Len(items) |->
            IF i = 0 THEN Talk!State
            ELSE IF items[i].done THEN f[i - 1]
            ELSE Talk!OnItem(f[i - 1], i, Body(more, i))]

LEMMA CompletedOK ==
    ASSUME Base, StateOK(Talk!State, items, DoneItems), NEW more \in 0..1
    PROVE  StateOK(Talk!Completed(more), items, 1..Len(items)) /\ KeepsStopped(Talk!State, Talk!Completed(more))
<1> DEFINE N == Len(items)
           F == [n \in 1..N |-> [s \in Progress |-> IF ItemEnds(more, n, s) \in Progress THEN ItemEnds(more, n, s) ELSE s]]
<1>1. N \in Nat /\ Talk!State \in Progress
    BY StateTypes, LenProperties DEF Base, Items
<1>2. F \in [1..N -> [Progress -> Progress]]
    OBVIOUS
<1>3. PICK g : g \in Taking(F, N, Talk!State, Progress)
    <2> HIDE DEF F
    <2> QED BY <1>1, <1>2, Recursion
<1>4. /\ g \in [0..N -> Progress] /\ g[0] = Talk!State
      /\ \A n \in 1..N : g[n] = F[n][g[n - 1]]
    BY <1>3 DEF Taking
<1>5. \A n \in 1..N : n - 1 \in 0..N /\ n \in 0..N /\ n # 0
    BY <1>1
<1>6. \A n \in 1..N : ItemEnds(more, n, g[n - 1]) \in Progress => g[n] = ItemEnds(more, n, g[n - 1])
    BY <1>4, <1>5
<1>7. Goes(more, g)
    BY <1>4, <1>6 DEF Goes
<1>8. \A n \in 1..N : g[n] = ItemEnds(more, n, g[n - 1])
    <2>1. \A k \in 0..N : k # 0 => g[k] = ItemEnds(more, k, g[k - 1])
        BY <1>7, Going
    <2> QED BY <1>5, <2>1
<1>9. Completing(g, more)
    <2>1. g = [n \in 0..N |-> g[n]]
        BY <1>4
    <2>2. \A n \in 0..N : g[n] = IF n = 0 THEN Talk!State
                                 ELSE IF items[n].done THEN g[n - 1]
                                 ELSE Talk!OnItem(g[n - 1], n, Body(more, n))
        <3>1. \A n \in 0..N : n # 0 => n \in 1..N
            BY <1>1
        <3> HIDE DEF F, N
        <3> QED BY <1>4, <1>8, <3>1 DEF ItemEnds
    <2> QED BY <2>1, <2>2 DEF Completing
<1> DEFINE c == CHOOSE f : Completing(f, more)
<1>10. Completing(c, more)
    BY <1>9
<1>11. Talk!Completed(more) = c[N]
    BY DEF Talk!Completed, Completing, Body
<1> HIDE DEF c
<1>12. c[0] = Talk!State /\ \A n \in 1..N : c[n] = ItemEnds(more, n, c[n - 1])
    <2>1. 0 \in 0..N
        BY <1>1
    <2> QED BY <1>5, <1>10, <2>1 DEF Completing, ItemEnds
<1>13. Goes(more, c)
    BY <1>12 DEF Goes
<1>14. N \in 0..N
    BY <1>1
<1>15. StateOK(c[N], items, DoneItems \cup 1..N) /\ KeepsStopped(Talk!State, c[N])
    BY <1>13, <1>14, Going
<1>16. DoneItems \cup 1..N = 1..N
    BY DEF DoneItems
<1> QED BY <1>11, <1>15, <1>16

LEMMA ToldConcat ==
    ASSUME NEW o \in Seq(Raw), NEW p \in Seq(Raw)
    PROVE  Told(o \o p) = Told(o) + Told(p)
<1> DEFINE T == {q \in Seq(Raw) : Told(o \o q) = Told(o) + Told(q)}
<1>1. <<>> \in T
    BY ToldFacts, ConcatEmptySeq, EmptySeq
<1>2. ASSUME NEW q \in Seq(Raw), NEW e \in Raw, q \in T PROVE Append(q, e) \in T
    <2>1. o \o Append(q, e) = Append(o \o q, e) /\ o \o q \in Seq(Raw) /\ Append(q, e) \in Seq(Raw)
        BY JoinAppend, ConcatProperties, AppendProperties
    <2>2. PICK k \in Nat : k = IF e.type = "message" THEN e.n ELSE 0
        BY DEF Raw
    <2>3. Told(Append(o \o q, e)) = Told(o \o q) + k /\ Told(Append(q, e)) = Told(q) + k
        BY <2>1, <2>2, ToldFacts
    <2>4. PICK a \in Nat, b \in Nat : a = Told(o) /\ b = Told(q)
        BY ToldFacts
    <2>5. Told(o \o q) = a + b
        BY <1>2, <2>4
    <2>6. (a + b) + k = a + (b + k)
        BY <2>2, <2>4
    <2> QED BY <2>1, <2>3, <2>4, <2>5, <2>6
<1>3. \A q \in Seq(Raw), e \in Raw : q \in T => Append(q, e) \in T
    BY <1>2
<1> HIDE DEF T
<1>4. Seq(Raw) \subseteq T
    BY <1>1, <1>3, ListInduction
<1> QED BY <1>4 DEF T

\* An answer whose text is what its output says.
Whole(d) == d \in Completion /\ Len(d.text) = Told(d.output)

LEMMA PartFacts ==
    ASSUME Base, NEW d \in Completion, d.message => Len(d.text) = Told(d.output),
           ~d.message => Told(d.output) = 0
    PROVE  Whole(Talk!Part(d)) /\ Talk!Part(d).tools = d.tools /\ Talk!Part(d).text = d.text
<1>1. d.text \in Seq({"x"}) /\ Len(d.text) \in Nat /\ d.output \in Seq(Raw)
    BY LenProperties DEF Completion
<1>2. CASE d.message
    BY <1>2 DEF Talk!Part, Whole
<1>3. CASE ~d.message /\ d.text = <<>>
    BY <1>3 DEF Talk!Part, Whole
<1>4. CASE ~d.message /\ d.text # <<>>
    <2> DEFINE raw == Talk!Raw("message", 0, Len(d.text))
    <2>1. raw \in Raw /\ raw.type = "message" /\ raw.n = Len(d.text)
        BY <1>1 DEF Talk!Raw, Raw, Base
    <2>2. PICK o \in Seq(Raw) : o = Append(d.output, raw)
        BY <1>1, <2>1, AppendProperties
    <2>3. Talk!Part(d) = [d EXCEPT !.output = o]
        BY <1>4, <2>2 DEF Talk!Part
    <2>4. Talk!Part(d) \in Completion /\ Talk!Part(d).text = d.text /\ Talk!Part(d).output = o /\ Talk!Part(d).tools = d.tools
        BY <2>3 DEF Completion
    <2>5. Told(o) = Len(d.text)
        <3> HIDE DEF raw
        <3>1. Told(o) = 0 + Len(d.text)
            BY <1>1, <1>4, <2>1, <2>2, ToldFacts
        <3> QED BY <1>1, <3>1
    <2> QED BY <2>4, <2>5 DEF Whole
<1> QED BY <1>2, <1>3, <1>4 DEF Completion

LEMMA JoinedFacts ==
    ASSUME Base, Whole(whole), NEW d, Whole(d)
    PROVE  /\ Whole(Talk!Joined(d)) /\ Talk!Joined(d).text = whole.text \o d.text
           /\ Talk!Joined(d).tools = whole.tools \o d.tools /\ Talk!Joined(d).output = whole.output \o d.output
           /\ Len(Talk!Joined(d).text) = Len(whole.text) + Len(d.text)
<1>1. /\ whole \in Completion /\ d \in Completion /\ whole.text \in Seq({"x"}) /\ d.text \in Seq({"x"})
      /\ whole.tools \in Seq(Tool) /\ d.tools \in Seq(Tool)
      /\ whole.output \in Seq(Raw) /\ d.output \in Seq(Raw)
    BY DEF Whole, Completion
<1>2. PICK t \in Seq({"x"}) : t = whole.text \o d.text /\ Len(t) = Len(whole.text) + Len(d.text)
    BY <1>1, ConcatProperties, ZenonT(60)
<1>3. PICK u \in Seq(Tool) : u = whole.tools \o d.tools
    BY <1>1, ConcatProperties
<1>4. PICK o \in Seq(Raw) : o = whole.output \o d.output
    BY <1>1, ConcatProperties
<1>5. Talk!Joined(d) = [whole EXCEPT !.text = t, !.tools = u, !.output = o]
    BY <1>2, <1>3, <1>4 DEF Talk!Joined
<1>6. /\ Talk!Joined(d) \in Completion /\ Talk!Joined(d).text = t /\ Talk!Joined(d).tools = u
      /\ Talk!Joined(d).output = o
    BY <1>1, <1>5 DEF Completion
<1>7. Told(o) = Told(whole.output) + Told(d.output)
    BY <1>1, <1>4, ToldConcat
<1> QED BY <1>2, <1>3, <1>4, <1>6, <1>7 DEF Whole

-----------------------------------------------------------------------------
(* The blocks of an answer that comes whole.                                *)

ToolBlock(t) == [kind |-> "tool", id |-> t.id, body |-> Talk!Fragments(t.n), open |-> FALSE]
ToolBlocks(ts) == [i \in 1..Len(ts) |-> ToolBlock(ts[i])]

LEMMA ToolBlockFacts ==
    ASSUME NEW t \in Tool
    PROVE  /\ ToolBlock(t) \in Block
           /\ \A e \in Echoed : Talk!Reads(e, ToolBlock(t)).text = e.text /\ Talk!Reads(e, ToolBlock(t)).tools = Append(e.tools, t)
<1>1. t.id \in Id /\ t.n \in Nat /\ t = [id |-> t.id, n |-> t.n]
    BY DEF Tool
<1>2. Talk!Fragments(t.n) \in Text /\ Len(Talk!Fragments(t.n)) = t.n
    BY <1>1, FragmentsAre
<1>3. ToolBlock(t) \in Block /\ ToolBlock(t).kind = "tool" /\ ToolBlock(t).id = t.id /\ Len(ToolBlock(t).body) = t.n
    BY <1>1, <1>2 DEF ToolBlock, Block, Kinds
<1>4. ASSUME NEW e \in Echoed
      PROVE  Talk!Reads(e, ToolBlock(t)).text = e.text /\ Talk!Reads(e, ToolBlock(t)).tools = Append(e.tools, t)
    BY <1>1, <1>3 DEF Talk!Reads, Echoed
<1> QED BY <1>3, <1>4

LEMMA EchoTools ==
    ASSUME NEW bs \in Seq(Block), NEW ts \in Seq(Tool)
    PROVE  /\ ToolBlocks(ts) \in Seq(Block)
           /\ Talk!Echo(bs \o ToolBlocks(ts)).text = Talk!Echo(bs).text
           /\ Talk!Echo(bs \o ToolBlocks(ts)).tools = Talk!Echo(bs).tools \o ts
<1> DEFINE E(q) == Talk!Echo(bs \o ToolBlocks(q))
           T == {q \in Seq(Tool) : /\ ToolBlocks(q) \in Seq(Block)
                                   /\ E(q).text = Talk!Echo(bs).text /\ E(q).tools = Talk!Echo(bs).tools \o q}
<1> DEFINE S == Tool \cup [id : {0}, n : Nat]
<1>1. Talk!Echo(bs) \in Echoed /\ Talk!Echo(bs).tools \in Seq(S)
    BY EchoFacts DEF Echoed
<1>2. <<>> \in T
    <2>1. ToolBlocks(<<>>) = <<>>
        BY DEF ToolBlocks
    <2>2. bs \o <<>> = bs /\ Talk!Echo(bs).tools \o <<>> = Talk!Echo(bs).tools
        BY <1>1, ConcatEmptySeq
    <2>3. PICK z : z = <<>>
        OBVIOUS
    <2>4. z \in Seq(Tool) /\ z \in Seq(Block) /\ ToolBlocks(z) = z /\ bs \o z = bs
          /\ Talk!Echo(bs).tools \o z = Talk!Echo(bs).tools
        BY <2>1, <2>2, <2>3
    <2>5. z \in T
        BY <2>4, Zenon
    <2> QED BY <2>3, <2>5
<1>3. ASSUME NEW q \in Seq(Tool), NEW t \in Tool, q \in T PROVE Append(q, t) \in T
    <2> DEFINE a == Append(q, t)
               k == Len(q) + 1
    <2>1. a \in Seq(Tool) /\ Len(a) = k /\ a[k] = t /\ Len(q) \in Nat /\ \A i \in 1..Len(q) : a[i] = q[i] /\ q[i] \in Tool
        BY AppendProperties, LenProperties, ElementOfSeq
    <2>2. ToolBlock(t) \in Block
        BY ToolBlockFacts
    <2>3. \A i \in 1..k : i = k \/ i \in 1..Len(q)
        BY <2>1
    <2>4. \A i \in 1..k : ToolBlock(a[i]) \in Block
        BY <2>1, <2>3, ToolBlockFacts
    <2>5. ToolBlocks(a) \in [1..k -> Block] /\ k \in Nat
        BY <2>1, <2>4 DEF ToolBlocks
    <2>6. ToolBlocks(a) \in Seq(Block) /\ Len(ToolBlocks(a)) = k
        BY <2>5, AsList
    <2>7. ToolBlocks(q) \in [1..Len(q) -> Block]
        BY <2>1, ToolBlockFacts DEF ToolBlocks
    <2>8. ToolBlocks(q) \in Seq(Block) /\ Len(ToolBlocks(q)) = Len(q)
        BY <2>1, <2>7, AsList
    <2>9. ToolBlocks(a)[Len(q) + 1] = ToolBlock(t) /\ \A i \in 1..Len(q) : ToolBlocks(a)[i] = ToolBlocks(q)[i]
        BY <2>1 DEF ToolBlocks
    <2> HIDE DEF a
    <2>10. ToolBlocks(a) = Append(ToolBlocks(q), ToolBlock(t))
        BY <2>2, <2>6, <2>8, <2>9, EndsWith
    <2>11. bs \o ToolBlocks(a) = Append(bs \o ToolBlocks(q), ToolBlock(t)) /\ bs \o ToolBlocks(q) \in Seq(Block)
        BY <2>2, <2>8, <2>10, JoinAppend, ConcatProperties
    <2>12. E(a) = Talk!Reads(E(q), ToolBlock(t)) /\ E(q) \in Echoed
        BY <2>2, <2>11, EchoAppend, EchoFacts
    <2>13. E(a).text = E(q).text /\ E(a).tools = Append(E(q).tools, t)
        BY <2>12, ToolBlockFacts
    <2>14. Talk!Echo(bs).tools \o Append(q, t) = Append(Talk!Echo(bs).tools \o q, t)
        <3>1. PICK u \in Seq(S) : u = Talk!Echo(bs).tools
            BY <1>1
        <3>2. q \in Seq(S) /\ t \in S
            BY SeqMonotonic
        <3> HIDE DEF S
        <3>3. u \o Append(q, t) = Append(u \o q, t)
            BY <3>2, JoinAppend
        <3> QED BY <3>1, <3>3
    <2> QED BY <1>3, <2>1, <2>6, <2>13, <2>14 DEF a
<1>4. \A q \in Seq(Tool), t \in Tool : q \in T => Append(q, t) \in T
    BY <1>3
<1> HIDE DEF T
<1>5. Seq(Tool) \subseteq T
    BY <1>2, <1>4, ListInduction
<1> QED BY <1>5 DEF T

-----------------------------------------------------------------------------
(* The conversation and its records.                                        *)

Visibles == [type : {"user"}, n : Nat] \cup [type : {"result"}, id : Id]
            \cup [type : {"message"}, text : Text] \cup [type : {"call"}, id : Id, n : Nat]
Natives == Visibles \cup Raw
Entry == [who : Scopes \cup {"client"}, visible : Seq(Visibles), native : Seq(Natives)]
Record == [scope : Scopes, start : Nat, output : Seq(Raw), prefix : Seq(Visibles)]

\* What the upstream of the scope s knows of a conversation.
Known(l, s) == Flat([i \in 1..Len(l) |-> IF l[i].who = s THEN l[i].native ELSE l[i].visible])

LEMMA ShownFacts ==
    /\ Talk!Shown(<<>>) = <<>>
    /\ \A l \in Seq(Entry) : Talk!Shown(l) \in Seq(Visibles)
    /\ \A l \in Seq(Entry), e \in Entry : Talk!Shown(Append(l, e)) = Talk!Shown(l) \o e.visible
<1> DEFINE V(l) == [i \in 1..Len(l) |-> l[i].visible]
<1>1. \A l \in Seq(Entry) : V(l) \in Seq(Seq(Visibles)) /\ Len(V(l)) = Len(l) /\ Talk!Shown(l) = Flat(V(l))
    <2>1. TAKE l \in Seq(Entry)
    <2>2. Len(l) \in Nat /\ DOMAIN l = 1..Len(l) /\ \A i \in 1..Len(l) : l[i] \in Entry
        BY LenProperties, ElementOfSeq
    <2>3. V(l) \in [1..Len(l) -> Seq(Visibles)]
        BY <2>2 DEF Entry
    <2>4. Talk!Shown(l) = Flat(V(l))
        BY <2>2, SameLists DEF Talk!Shown
    <2> QED BY <2>2, <2>3, <2>4, AsList
<1>2. \A l \in Seq(Entry) : Talk!Shown(l) \in Seq(Visibles)
    BY <1>1, FlatFacts
<1>3. Talk!Shown(<<>>) = <<>>
    <2>1. V(<<>>) = <<>> /\ <<>> \in Seq(Entry)
        BY EmptySeq
    <2>2. Talk!Shown(<<>>) = Flat(V(<<>>))
        BY <1>1, <2>1
    <2> QED BY <2>1, <2>2, FlatFacts
<1>4. ASSUME NEW l \in Seq(Entry), NEW e \in Entry PROVE Talk!Shown(Append(l, e)) = Talk!Shown(l) \o e.visible
    <2>1. /\ Append(l, e) \in Seq(Entry) /\ Len(Append(l, e)) = Len(l) + 1 /\ Append(l, e)[Len(l) + 1] = e
          /\ Len(l) \in Nat /\ \A i \in 1..Len(l) : Append(l, e)[i] = l[i]
        BY AppendProperties, LenProperties
    <2>2. PICK v : v = e.visible /\ v \in Seq(Visibles)
        BY DEF Entry
    <2>3. PICK B : B = Seq(Visibles)
        OBVIOUS
    <2>4. V(Append(l, e))[Len(l) + 1] = v /\ \A i \in 1..Len(l) : V(Append(l, e))[i] = V(l)[i]
        BY <2>1, <2>2
    <2> HIDE DEF V
    <2>5. /\ V(l) \in Seq(B) /\ V(Append(l, e)) \in Seq(B) /\ v \in B /\ Len(V(l)) = Len(l)
          /\ Len(V(Append(l, e))) = Len(V(l)) + 1
        BY <1>1, <2>1, <2>2, <2>3
    <2>6. V(Append(l, e)) = Append(V(l), v)
        BY <2>4, <2>5, EndsWith
    <2>7. Flat(Append(V(l), v)) = Flat(V(l)) \o v
        BY <2>2, <2>3, <2>5, FlatAppend
    <2> QED BY <1>1, <2>1, <2>2, <2>6, <2>7
<1> QED BY <1>2, <1>3, <1>4

LEMMA KnownFacts ==
    ASSUME NEW s
    PROVE  /\ Known(<<>>, s) = <<>>
           /\ \A l \in Seq(Entry) : Known(l, s) \in Seq(Natives)
           /\ \A l \in Seq(Entry), e \in Entry :
                  Known(Append(l, e), s) = Known(l, s) \o (IF e.who = s THEN e.native ELSE e.visible)
<1> DEFINE V(l) == [i \in 1..Len(l) |-> IF l[i].who = s THEN l[i].native ELSE l[i].visible]
<1>1. \A v \in Seq(Visibles) : v \in Seq(Natives)
    BY SeqMonotonic DEF Natives
<1>2. \A l \in Seq(Entry) : V(l) \in Seq(Seq(Natives)) /\ Len(V(l)) = Len(l)
    <2>1. TAKE l \in Seq(Entry)
    <2>2. Len(l) \in Nat /\ \A i \in 1..Len(l) : l[i] \in Entry
        BY LenProperties, ElementOfSeq
    <2>3. V(l) \in [1..Len(l) -> Seq(Natives)]
        BY <1>1, <2>2 DEF Entry
    <2> QED BY <2>2, <2>3, AsList
<1>3. \A l \in Seq(Entry) : Known(l, s) \in Seq(Natives)
    BY <1>2, FlatFacts DEF Known
<1>4. Known(<<>>, s) = <<>>
    <2>1. V(<<>>) = <<>>
        BY EmptySeq
    <2> QED BY <2>1, FlatFacts DEF Known
<1>5. ASSUME NEW l \in Seq(Entry), NEW e \in Entry
      PROVE Known(Append(l, e), s) = Known(l, s) \o (IF e.who = s THEN e.native ELSE e.visible)
    <2>1. /\ Append(l, e) \in Seq(Entry) /\ Len(Append(l, e)) = Len(l) + 1 /\ Append(l, e)[Len(l) + 1] = e
          /\ Len(l) \in Nat /\ \A i \in 1..Len(l) : Append(l, e)[i] = l[i]
        BY AppendProperties, LenProperties
    <2>2. PICK v : v = (IF e.who = s THEN e.native ELSE e.visible) /\ v \in Seq(Natives)
        BY <1>1 DEF Entry
    <2>3. PICK B : B = Seq(Natives)
        OBVIOUS
    <2>4. /\ V(l) \in Seq(B) /\ V(Append(l, e)) \in Seq(B) /\ v \in B /\ Len(V(l)) = Len(l)
          /\ Len(V(Append(l, e))) = Len(V(l)) + 1 /\ V(Append(l, e))[Len(l) + 1] = v
          /\ \A i \in 1..Len(l) : V(Append(l, e))[i] = V(l)[i]
        BY <1>2, <2>1, <2>2, <2>3
    <2> HIDE DEF V
    <2>5. V(Append(l, e)) = Append(V(l), v)
        BY <2>4, EndsWith
    <2>6. Flat(Append(V(l), v)) = Flat(V(l)) \o v
        BY <2>2, <2>3, <2>4, FlatAppend
    <2> QED BY <2>2, <2>5, <2>6 DEF Known, V
<1> QED BY <1>3, <1>4, <1>5

-----------------------------------------------------------------------------
(* The invariant.                                                           *)

ClientEntry(e) == e \in Entry /\ e.who = "client" /\ e.visible # <<>> /\ e.native = e.visible
AnswerEntry(e) == e \in Entry /\ e.who \in Scopes

\* The client and the accounts take turns; n answers.
Turns(l, n) ==
    /\ n \in Nat /\ l \in Seq(Entry) /\ Len(l) \in {2 * n, 2 * n + 1}
    /\ \A j \in 1..n : AnswerEntry(l[2 * j])
    /\ \A j \in 0..n : 2 * j + 1 <= Len(l) => ClientEntry(l[2 * j + 1])

\* The record of the answer at i.
Upto(l, i) == Talk!Shown(SubSeq(l, 1, i))
RecordOf(l, i) ==
    [scope |-> l[i].who, start |-> Len(Upto(l, i - 1)), output |-> l[i].native, prefix |-> Upto(l, i)]

\* Every answer has its record; if nothing was lost, the records are theirs in order.
LogOK(l, recs, n, m) ==
    /\ Turns(l, n) /\ recs \in Seq(Record) /\ m \in Nat /\ n <= m /\ m <= Len(recs)
    /\ \A j \in 1..n : \E k \in 1..Len(recs) : recs[k] = RecordOf(l, 2 * j)
    /\ Len(recs) = m => \A j \in 1..n : recs[m + 1 - j] = RecordOf(l, 2 * j)

TurnLog ==
    \E n \in Nat : /\ LogOK(log, records, n, IF step = "captured" THEN n + 1 ELSE n)
                   /\ Len(log) = IF step = "ask" THEN 2 * n ELSE 2 * n + 1

\* The answer as it stands, and once it is the client's.
Arriving ==
    [who |-> scope, visible |-> Talk!VisibleOutput(Talk!Echo(blocks).text, Talk!Echo(blocks).tools),
     native |-> whole.output]
Captured ==
    /\ Whole(whole) /\ blocks \in Seq(Block) /\ \A b \in 1..Len(blocks) : ~blocks[b].open
    /\ Talk!Xs(Talk!Echo(blocks).text) = Len(whole.text) /\ Talk!Echo(blocks).tools = whole.tools
    /\ records # <<>>
    /\ records[1] = [scope |-> scope, start |-> Len(Talk!Shown(log)), output |-> whole.output,
                     prefix |-> Talk!Shown(log) \o Arriving.visible]
TurnAnswer ==
    /\ step \in {"ask", "answer", "captured"}
    /\ turn \in Nat /\ calls \in Nat /\ forks \in Nat /\ streaming \in BOOLEAN
    /\ items \in Items /\ whole \in Completion
    /\ step = "ask" => Talk!NoAnswer
    /\ step # "ask" => scope \in Scopes
    /\ step = "answer" => Whole(whole) /\ StateOK(Talk!State, items, DoneItems)
    /\ step = "captured" => Captured

TurnInv == TurnAnswer /\ TurnLog

LEMMA CutFacts ==
    ASSUME NEW S, NEW l \in Seq(S), NEW m \in Nat, m <= Len(l)
    PROVE  /\ SubSeq(l, 1, m) \in Seq(S) /\ Len(SubSeq(l, 1, m)) = m
           /\ \A i \in 1..m : SubSeq(l, 1, m)[i] = l[i]
<1>1. Len(l) \in Nat /\ \A i \in 1..m : l[i] \in S
    BY LenProperties, ElementOfSeq
<1>2. /\ SubSeq(l, 1, m) \in Seq(S)
      /\ Len(SubSeq(l, 1, m)) = IF 1 <= m THEN m - 1 + 1 ELSE 0
      /\ \A i \in 1..(m - 1 + 1) : SubSeq(l, 1, m)[i] = l[1 + i - 1]
    BY <1>1, SubSeqProperties
<1>3. m - 1 + 1 = m /\ \A i \in 1..m : 1 + i - 1 = i
    OBVIOUS
<1> QED BY <1>2, <1>3

\* Two conversations that begin alike.
Agree(l, k, m) == /\ l \in Seq(Entry) /\ k \in Seq(Entry) /\ m \in Nat /\ m <= Len(l) /\ m <= Len(k)
                  /\ \A i \in 1..m : l[i] = k[i]

LEMMA SameCuts ==
    ASSUME NEW l, NEW k, NEW m, Agree(l, k, m)
    PROVE  SubSeq(l, 1, m) = SubSeq(k, 1, m)
<1>1. /\ SubSeq(l, 1, m) \in Seq(Entry) /\ Len(SubSeq(l, 1, m)) = m
      /\ SubSeq(k, 1, m) \in Seq(Entry) /\ Len(SubSeq(k, 1, m)) = m
      /\ \A i \in 1..m : SubSeq(l, 1, m)[i] = SubSeq(k, 1, m)[i]
    BY CutFacts DEF Agree
<1> QED BY <1>1, SeqEqual

LEMMA SameRecord ==
    ASSUME NEW l, NEW k, NEW m, Agree(l, k, m), NEW i \in 1..m
    PROVE  RecordOf(l, i) = RecordOf(k, i)
<1>1. m \in Nat /\ i - 1 \in Nat /\ i \in Nat /\ l[i] = k[i]
    BY DEF Agree
<1>2. Agree(l, k, i) /\ Agree(l, k, i - 1)
    BY <1>1 DEF Agree
<1>3. Upto(l, i) = Upto(k, i) /\ Upto(l, i - 1) = Upto(k, i - 1)
    BY <1>2, SameCuts DEF Upto
<1> QED BY <1>1, <1>3 DEF RecordOf

LEMMA UptoFacts ==
    ASSUME NEW l \in Seq(Entry)
    PROVE  /\ Upto(l, 0) = <<>> /\ Upto(l, Len(l)) = Talk!Shown(l)
           /\ \A i \in 0..Len(l) : Upto(l, i) \in Seq(Visibles)
           /\ \A i \in 1..Len(l) : /\ l[i] \in Entry
                                   /\ Upto(l, i) = Upto(l, i - 1) \o l[i].visible
<1>1. Len(l) \in Nat /\ \A i \in 1..Len(l) : l[i] \in Entry
    BY LenProperties, ElementOfSeq
<1>2. SubSeq(l, 1, 0) = <<>> /\ SubSeq(l, 1, Len(l)) = l
    BY SubSeqEmpty, SubSeqFull
<1>3. Upto(l, 0) = <<>> /\ Upto(l, Len(l)) = Talk!Shown(l)
    BY <1>2, ShownFacts DEF Upto
<1>4. \A i \in 0..Len(l) : Upto(l, i) \in Seq(Visibles)
    <2>1. TAKE i \in 0..Len(l)
    <2>2. i \in Nat /\ i <= Len(l)
        BY <1>1
    <2>3. SubSeq(l, 1, i) \in Seq(Entry)
        BY <2>2, CutFacts
    <2> QED BY <2>3, ShownFacts DEF Upto
<1>5. ASSUME NEW i \in 1..Len(l) PROVE Upto(l, i) = Upto(l, i - 1) \o l[i].visible
    <2> DEFINE a == SubSeq(l, 1, i - 1)
               b == SubSeq(l, 1, i)
    <2>1. i - 1 \in Nat /\ i \in Nat /\ i - 1 <= Len(l) /\ i <= Len(l) /\ l[i] \in Entry
        BY <1>1
    <2>2. /\ a \in Seq(Entry) /\ Len(a) = i - 1 /\ \A j \in 1..(i - 1) : a[j] = l[j]
          /\ b \in Seq(Entry) /\ Len(b) = i /\ \A j \in 1..i : b[j] = l[j]
        BY <2>1, CutFacts
    <2>3. Len(b) = Len(a) + 1 /\ b[Len(a) + 1] = l[i] /\ \A j \in 1..Len(a) : b[j] = a[j]
        BY <2>1, <2>2
    <2> HIDE DEF a, b
    <2>4. b = Append(a, l[i])
        BY <2>1, <2>2, <2>3, EndsWith
    <2>5. Talk!Shown(b) = Talk!Shown(a) \o l[i].visible
        BY <2>1, <2>2, <2>4, ShownFacts
    <2> QED BY <2>5 DEF Upto, a, b
<1> QED BY <1>1, <1>3, <1>4, <1>5

LEMMA TurnsFacts ==
    ASSUME NEW l, NEW n, Turns(l, n)
    PROVE  /\ n \in Nat /\ l \in Seq(Entry) /\ Len(l) \in Nat
           /\ Len(l) = 2 * n \/ Len(l) = 2 * n + 1
           /\ \A j \in 1..n : j \in Nat /\ 2 * j \in 1..Len(l) /\ 2 * j \in 1..(2 * n) /\ l[2 * j] \in Entry /\ l[2 * j].who \in Scopes
<1>1. n \in Nat /\ l \in Seq(Entry) /\ Len(l) \in Nat /\ (Len(l) = 2 * n \/ Len(l) = 2 * n + 1)
    BY LenProperties DEF Turns
<1>2. ASSUME NEW j \in 1..n PROVE 2 * j \in 1..(2 * n) /\ 2 * j \in 1..Len(l)
    BY <1>1
<1> QED BY <1>1, <1>2 DEF Turns, AnswerEntry

\* Records of a conversation that goes on.
LEMMA SameRecords ==
    ASSUME NEW l, NEW k, NEW n, Turns(l, n), Agree(l, k, 2 * n)
    PROVE  \A j \in 1..n : RecordOf(k, 2 * j) = RecordOf(l, 2 * j)
BY SameRecord, TurnsFacts

LEMMA AppendAgrees ==
    ASSUME NEW l \in Seq(Entry), NEW e \in Entry, NEW m \in Nat, m <= Len(l)
    PROVE  /\ Append(l, e) \in Seq(Entry) /\ Len(Append(l, e)) = Len(l) + 1 /\ Agree(l, Append(l, e), m)
           /\ Append(l, e)[Len(l) + 1] = e /\ \A i \in 1..Len(l) : Append(l, e)[i] = l[i]
<1>1. /\ Append(l, e) \in Seq(Entry) /\ Len(Append(l, e)) = Len(l) + 1
      /\ Append(l, e)[Len(l) + 1] = e /\ \A i \in 1..Len(l) : Append(l, e)[i] = l[i]
    BY AppendProperties
<1>2. Len(l) \in Nat
    BY LenProperties
<1> QED BY <1>1, <1>2 DEF Agree

LEMMA LogAsk ==
    ASSUME NEW l, NEW recs, NEW n, LogOK(l, recs, n, n), Len(l) = 2 * n, NEW e, ClientEntry(e)
    PROVE  LogOK(Append(l, e), recs, n, n) /\ Len(Append(l, e)) = 2 * n + 1
<1> DEFINE k == Append(l, e)
<1>1. Turns(l, n) /\ n \in Nat /\ l \in Seq(Entry) /\ Len(l) \in Nat /\ e \in Entry
    BY TurnsFacts DEF LogOK, ClientEntry
<1>2. /\ k \in Seq(Entry) /\ Len(k) = 2 * n + 1 /\ Agree(l, k, 2 * n)
      /\ k[2 * n + 1] = e /\ \A i \in 1..(2 * n) : k[i] = l[i]
    BY <1>1, AppendAgrees
<1>3. \A j \in 1..n : RecordOf(k, 2 * j) = RecordOf(l, 2 * j)
    BY <1>1, <1>2, SameRecords
<1> HIDE DEF k
<1>4. \A j \in 1..n : AnswerEntry(k[2 * j])
    <2>1. TAKE j \in 1..n
    <2>2. 2 * j \in 1..(2 * n) /\ k[2 * j] = l[2 * j]
        BY <1>1, <1>2
    <2> QED BY <1>1, <2>2 DEF Turns
<1>5. ASSUME NEW j \in 0..n, 2 * j + 1 <= Len(k) PROVE ClientEntry(k[2 * j + 1])
    <2>1. CASE j = n
        BY <1>2, <2>1
    <2>2. CASE j # n
        <3>1. j \in Nat /\ 2 * j + 1 \in 1..(2 * n) /\ 2 * j + 1 <= Len(l)
            BY <1>1, <2>2
        <3>2. ClientEntry(l[2 * j + 1])
            BY <1>1, <3>1 DEF Turns
        <3> QED BY <1>2, <3>1, <3>2
    <2> QED BY <2>1, <2>2
<1>6. Turns(k, n)
    BY <1>1, <1>2, <1>4, <1>5 DEF Turns
<1> QED BY <1>2, <1>3, <1>6 DEF LogOK, k

LEMMA LogCut ==
    ASSUME NEW l, NEW recs, NEW n, NEW m, LogOK(l, recs, n, m), NEW j \in 0..n
    PROVE  LogOK(SubSeq(l, 1, 2 * j), recs, j, j) /\ Len(SubSeq(l, 1, 2 * j)) = 2 * j
<1> DEFINE k == SubSeq(l, 1, 2 * j)
<1>1. /\ Turns(l, n) /\ n \in Nat /\ l \in Seq(Entry) /\ Len(l) \in Nat /\ m \in Nat /\ n <= m
      /\ m <= Len(recs) /\ recs \in Seq(Record) /\ Len(recs) \in Nat
      /\ \A i \in 1..n : \E x \in 1..Len(recs) : recs[x] = RecordOf(l, 2 * i)
      /\ (Len(recs) = m => \A i \in 1..n : recs[m + 1 - i] = RecordOf(l, 2 * i))
    BY TurnsFacts, LenProperties DEF LogOK
<1>2. j \in Nat /\ 2 * j \in Nat /\ 2 * j <= Len(l) /\ j <= n
    BY <1>1, TurnsFacts
<1>3. k \in Seq(Entry) /\ Len(k) = 2 * j /\ \A i \in 1..(2 * j) : k[i] = l[i]
    BY <1>1, <1>2, CutFacts
<1>4. Agree(l, k, 2 * j)
    BY <1>1, <1>2, <1>3 DEF Agree
<1> HIDE DEF k
<1>5. \A i \in 1..j : i \in 1..n /\ 2 * i \in 1..(2 * j) /\ 2 * i \in Nat
    BY <1>1, <1>2
<1>6. \A i \in 1..j : RecordOf(k, 2 * i) = RecordOf(l, 2 * i)
    BY <1>4, <1>5, SameRecord
<1>7. \A i \in 1..j : AnswerEntry(k[2 * i])
    BY <1>1, <1>3, <1>5 DEF Turns
<1>8. ASSUME NEW i \in 0..j, 2 * i + 1 <= Len(k) PROVE ClientEntry(k[2 * i + 1])
    <2>1. i \in 0..n /\ 2 * i + 1 <= Len(l) /\ 2 * i + 1 \in 1..(2 * j)
        BY <1>1, <1>2, <1>3, <1>8
    <2> QED BY <1>1, <1>3, <2>1 DEF Turns
<1>9. Turns(k, j)
    BY <1>2, <1>3, <1>7, <1>8 DEF Turns
<1>10. j <= Len(recs)
    BY <1>1, <1>2
<1>11. \A i \in 1..j : \E x \in 1..Len(recs) : recs[x] = RecordOf(k, 2 * i)
    BY <1>1, <1>5, <1>6
<1>12. Len(recs) = j => \A i \in 1..j : recs[j + 1 - i] = RecordOf(k, 2 * i)
    <2>1. Len(recs) = j => j = n /\ m = n
        BY <1>1, <1>2
    <2> QED BY <1>1, <1>6, <2>1
<1> QED BY <1>1, <1>2, <1>3, <1>9, <1>10, <1>11, <1>12 DEF LogOK, k

LEMMA LogSave ==
    ASSUME NEW l, NEW recs, NEW n, LogOK(l, recs, n, n), NEW r \in Record
    PROVE  LogOK(l, <<r>> \o recs, n, n + 1) /\ (<<r>> \o recs)[1] = r /\ <<r>> \o recs # <<>>
<1> DEFINE q == <<r>> \o recs
<1>1. /\ Turns(l, n) /\ n \in Nat /\ n <= Len(recs) /\ recs \in Seq(Record) /\ Len(recs) \in Nat
      /\ \A i \in 1..n : \E x \in 1..Len(recs) : recs[x] = RecordOf(l, 2 * i)
      /\ (Len(recs) = n => \A i \in 1..n : recs[n + 1 - i] = RecordOf(l, 2 * i))
    BY TurnsFacts, LenProperties DEF LogOK
<1>2. /\ q \in Seq(Record) /\ Len(q) = Len(recs) + 1
      /\ \A i \in 1..(Len(recs) + 1) : q[i] = IF i <= 1 THEN r ELSE recs[i - 1]
    <2>1. <<r>> \in Seq(Record) /\ Len(<<r>>) = 1 /\ <<r>>[1] = r
        OBVIOUS
    <2>2. PICK p : p = <<r>>
        OBVIOUS
    <2>3. /\ p \o recs \in Seq(Record) /\ Len(p \o recs) = 1 + Len(recs)
          /\ \A i \in 1..(1 + Len(recs)) : (p \o recs)[i] = IF i <= 1 THEN p[i] ELSE recs[i - 1]
        BY <2>1, <2>2, <1>1, ConcatProperties
    <2> QED BY <2>1, <2>2, <2>3, <1>1
<1> HIDE DEF q
<1>3. q[1] = r /\ q # <<>>
    BY <1>1, <1>2
<1>4. \A x \in 1..Len(recs) : x + 1 \in 1..Len(q) /\ q[x + 1] = recs[x]
    BY <1>1, <1>2
<1>5. \A i \in 1..n : \E x \in 1..Len(q) : q[x] = RecordOf(l, 2 * i)
    BY <1>1, <1>4
<1>6. ASSUME Len(q) = n + 1, NEW i \in 1..n PROVE q[n + 1 + 1 - i] = RecordOf(l, 2 * i)
    <2>1. Len(recs) = n /\ n + 1 - i \in 1..Len(recs) /\ (n + 1 - i) + 1 = n + 1 + 1 - i
        BY <1>1, <1>2, <1>6
    <2>2. q[(n + 1 - i) + 1] = recs[n + 1 - i]
        BY <1>4, <2>1
    <2> QED BY <1>1, <2>1, <2>2
<1>7. n + 1 \in Nat /\ n <= n + 1 /\ n + 1 <= Len(q)
    BY <1>1, <1>2
<1> QED BY <1>1, <1>2, <1>3, <1>5, <1>6, <1>7 DEF LogOK, q

LEMMA LogArrive ==
    ASSUME NEW l, NEW recs, NEW n, LogOK(l, recs, n, n + 1), Len(l) = 2 * n + 1,
           NEW e, AnswerEntry(e), recs[1] = RecordOf(Append(l, e), 2 * (n + 1))
    PROVE  LogOK(Append(l, e), recs, n + 1, n + 1) /\ Len(Append(l, e)) = 2 * (n + 1)
<1> DEFINE k == Append(l, e)
<1>1. /\ Turns(l, n) /\ n \in Nat /\ l \in Seq(Entry) /\ Len(l) \in Nat /\ e \in Entry
      /\ recs \in Seq(Record) /\ Len(recs) \in Nat /\ n + 1 <= Len(recs)
      /\ \A i \in 1..n : \E x \in 1..Len(recs) : recs[x] = RecordOf(l, 2 * i)
      /\ (Len(recs) = n + 1 => \A i \in 1..n : recs[n + 1 + 1 - i] = RecordOf(l, 2 * i))
    BY TurnsFacts, LenProperties DEF LogOK, AnswerEntry
<1>2. /\ k \in Seq(Entry) /\ Len(k) = 2 * (n + 1) /\ k[2 * (n + 1)] = e
      /\ \A i \in 1..(2 * n + 1) : k[i] = l[i]
    <2>1. /\ k \in Seq(Entry) /\ Len(k) = Len(l) + 1 /\ k[Len(l) + 1] = e
          /\ \A i \in 1..Len(l) : k[i] = l[i]
        BY <1>1, AppendProperties, SMTT(40)
    <2>2. Len(l) + 1 = 2 * (n + 1) /\ Len(l) = 2 * n + 1
        BY <1>1
    <2> QED BY <2>1, <2>2
<1>3. Agree(l, k, 2 * n)
    <2>1. 2 * n \in Nat /\ 2 * n <= Len(l)
        BY <1>1
    <2> QED BY <1>1, <2>1, AppendAgrees
<1>4. \A j \in 1..n : RecordOf(k, 2 * j) = RecordOf(l, 2 * j)
    <2> HIDE DEF k
    <2>1. Turns(l, n) /\ Agree(l, k, 2 * n)
        BY <1>1, <1>3
    <2> QED BY <2>1, SameRecords, Zenon
<1> HIDE DEF k
<1>5. ASSUME NEW j \in 1..(n + 1) PROVE AnswerEntry(k[2 * j])
    <2>1. CASE j = n + 1
        BY <1>2, <2>1
    <2>2. CASE j # n + 1
        <3>1. j \in 1..n /\ 2 * j \in 1..(2 * n + 1)
            BY <1>1, <2>2
        <3> QED BY <1>1, <1>2, <3>1 DEF Turns
    <2> QED BY <2>1, <2>2
<1>6. ASSUME NEW j \in 0..(n + 1), 2 * j + 1 <= Len(k) PROVE ClientEntry(k[2 * j + 1])
    <2>1. j \in 0..n /\ 2 * j + 1 \in 1..(2 * n + 1) /\ 2 * j + 1 <= Len(l)
        BY <1>1, <1>2, <1>6
    <2>2. k[2 * j + 1] = l[2 * j + 1] /\ ClientEntry(l[2 * j + 1])
        BY <1>1, <1>2, <2>1 DEF Turns
    <2> QED BY <2>2
<1>7. n + 1 \in Nat /\ Turns(k, n + 1)
    BY <1>1, <1>2, <1>5, <1>6 DEF Turns
<1>8. ASSUME NEW i \in 1..(n + 1) PROVE i \in 1..n \/ i = n + 1
    BY <1>1
<1>9. \A i \in 1..(n + 1) : \E x \in 1..Len(recs) : recs[x] = RecordOf(k, 2 * i)
    <2>1. 1 \in 1..Len(recs)
        BY <1>1
    <2> QED BY <1>1, <1>4, <1>8, <2>1 DEF k
<1>10. ASSUME Len(recs) = n + 1, NEW i \in 1..(n + 1) PROVE recs[n + 1 + 1 - i] = RecordOf(k, 2 * i)
    <2>1. CASE i = n + 1
        <3>1. n + 1 + 1 - i = 1
            BY <1>1, <2>1
        <3> QED BY <2>1, <3>1 DEF k
    <2>2. CASE i \in 1..n
        BY <1>1, <1>4, <1>10, <2>2
    <2>3. i \in 1..n \/ i = n + 1
        BY <1>8
    <2> QED BY <2>1, <2>2, <2>3
<1>11. n + 1 <= n + 1 /\ n + 1 <= Len(recs) /\ recs \in Seq(Record)
    BY <1>1
<1>12. LogOK(k, recs, n + 1, n + 1)
    BY <1>7, <1>9, <1>10, <1>11 DEF LogOK
<1> QED BY <1>2, <1>12 DEF k

\* Odd or even.
LEMMA Halves == \A k \in Nat : \E j \in Nat : k = 2 * j \/ k = 2 * j + 1
<1> DEFINE T == {k \in Nat : \E j \in Nat : k = 2 * j \/ k = 2 * j + 1}
<1>1. 0 \in T
    BY 0 = 2 * 0, 0 \in Nat
<1>2. ASSUME NEW k \in Nat, k \in T PROVE k + 1 \in T
    <2>1. PICK j \in Nat : k = 2 * j \/ k = 2 * j + 1
        BY <1>2
    <2>2. k + 1 = 2 * j + 1 \/ k + 1 = 2 * (j + 1)
        BY <2>1
    <2>3. j + 1 \in Nat /\ k + 1 \in Nat
        OBVIOUS
    <2> QED BY <2>2, <2>3
<1> HIDE DEF T
<1>3. Nat \subseteq T
    BY <1>1, <1>2, NumberInduction
<1> QED BY <1>3 DEF T

-----------------------------------------------------------------------------
(* What the steps of an answer do.                                          *)

LEMMA AddedOK ==
    ASSUME Base, NEW s, NEW D, StateOK(s, items, D), NEW e \in Item, e.sent = 0, NEW w,
           w = Decoded(s, [s.decoder EXCEPT !.got = Append(s.decoder.got, 0)])
    PROVE  StateOK(w, Append(items, e), D) /\ KeepsStopped(s, w) /\ Append(items, e) \in Items
<1> DEFINE its == Append(items, e)
           got == s.decoder.got
           hot == Append(got, 0)
           n == Len(items)
           u == Untold(got, items, D)
           v == Untold(hot, its, D)
<1>1. /\ items \in Items /\ items \in Seq(Item) /\ n \in Nat /\ s.decoder \in Completion /\ got \in Seq(Nat)
      /\ Len(got) = n /\ D \subseteq 1..n /\ BlocksOK(s)
    BY StateTypes, LenProperties DEF Base, Items, Completion, StateOK
<1>2. /\ its \in Items /\ Len(its) = n + 1 /\ its[n + 1] = e /\ \A i \in 1..n : its[i] = items[i]
    BY <1>1, AppendProperties DEF Items
<1>3. /\ hot \in Seq(Nat) /\ Len(hot) = n + 1 /\ hot[n + 1] = 0 /\ \A i \in 1..n : hot[i] = got[i]
    BY <1>1, AppendProperties
<1>4. PICK d : d = [s.decoder EXCEPT !.got = hot]
    OBVIOUS
<1> HIDE DEF its, hot
<1>5. d \in Completion /\ d.text = s.decoder.text /\ d.tools = s.decoder.tools /\ d.output = s.decoder.output
      /\ d.message = s.decoder.message /\ d.got = hot
    BY <1>1, <1>3, <1>4 DEF Completion
<1>6. w = Decoded(s, d)
    BY <1>4 DEF hot
<1>7. /\ BlocksOK(w) /\ KeepsStopped(s, w) /\ w.decoder = d /\ w.blocks = s.blocks
      /\ w.projection = s.projection /\ w.open = s.open
    BY <1>1, <1>5, <1>6, DecodedFacts
<1>8. \A i \in 1..(n + 1) : i = n + 1 \/ i \in 1..n
    BY <1>1
<1>9. u \in Seq(Nat) /\ Len(u) = n /\ v \in Seq(Nat) /\ Len(v) = n + 1
    <2>1. \A i \in 1..n : got[i] \in Nat
        BY <1>1, ElementOfSeq
    <2>2. \A i \in 1..(n + 1) : hot[i] \in Nat
        BY <1>3, ElementOfSeq
    <2>3. u \in [1..n -> Nat]
        BY <2>1 DEF Untold
    <2>4. v \in [1..(n + 1) -> Nat]
        BY <1>2, <2>2 DEF Untold
    <2>5. n \in Nat /\ n + 1 \in Nat
        BY <1>1
    <2> HIDE DEF u, v
    <2> QED BY <2>3, <2>4, <2>5, AsList
<1>10. v[n + 1] = 0 /\ \A i \in 1..n : v[i] = u[i]
    BY <1>1, <1>2, <1>3 DEF Untold
<1> HIDE DEF u, v
<1>11. Total(v) = Total(u)
    <2>1. v = Append(u, 0)
        BY <1>1, <1>9, <1>10, EndsWith
    <2>2. Total(v) = Total(u) + 0 /\ Total(u) \in Nat
        BY <1>9, <2>1, TotalAppend, TotalFacts
    <2> QED BY <2>2
<1>12. ASSUME NEW i \in 1..Len(its), i \notin D PROVE w.decoder.got[i] = its[i].sent
    <2>1. CASE i = n + 1
        BY <1>2, <1>3, <1>5, <1>7, <2>1
    <2>2. CASE i \in 1..n
        BY <1>1, <1>2, <1>3, <1>5, <1>7, <1>12, <2>2 DEF StateOK
    <2> QED BY <1>2, <1>8, <2>1, <2>2
<1>13. D \subseteq 1..Len(its) /\ Len(w.decoder.got) = Len(its)
    BY <1>1, <1>2, <1>3, <1>5, <1>7
<1>14. Len(w.decoder.text) = Told(w.decoder.output) + Total(Untold(w.decoder.got, its, D))
    BY <1>5, <1>7, <1>11 DEF StateOK, u, v
<1>15. /\ (streaming => /\ Talk!Echo(w.blocks).tools = whole.tools \o w.decoder.tools
                        /\ Talk!Xs(w.projection.text) = Len(whole.text) + Len(w.decoder.text))
       /\ (~streaming => w.blocks = <<>>)
       /\ \A id \in ToolIds(w.blocks) : id[1] = turn /\ ((id[2] \in Nat /\ id[2] < calls) \/ (id[2] = calls /\ id[3] \in D))
       /\ (~w.decoder.message => Told(w.decoder.output) = 0)
    BY <1>5, <1>7, Zenon DEF StateOK
<1>16. StateOK(w, its, D)
    BY <1>7, <1>12, <1>13, <1>14, <1>15 DEF StateOK
<1> QED BY <1>2, <1>7, <1>16 DEF its

LEMMA VisibleOutputType ==
    ASSUME NEW text \in Text, NEW tools \in Seq(Tool)
    PROVE  Talk!VisibleOutput(text, tools) \in Seq(Visibles)
<1> DEFINE m == [type |-> "message", text |-> text]
           c == [i \in DOMAIN tools |-> [type |-> "call", id |-> tools[i].id, n |-> tools[i].n]]
<1>1. Len(tools) \in Nat /\ DOMAIN tools = 1..Len(tools) /\ \A i \in 1..Len(tools) : tools[i] \in Tool
    BY LenProperties, ElementOfSeq
<1>2. m \in Visibles
    BY DEF Visibles
<1>3. ASSUME NEW t \in Tool PROVE [type |-> "call", id |-> t.id, n |-> t.n] \in Visibles
    BY DEF Visibles, Tool
<1>4. c \in [1..Len(tools) -> Visibles]
    BY <1>1, <1>3
<1>5. c \in Seq(Visibles)
    BY <1>1, <1>4, AsList
<1>6. <<m>> \in Seq(Visibles) /\ <<>> \in Seq(Visibles)
    BY <1>2
<1>7. PICK p \in Seq(Visibles) : p = IF text = <<>> THEN <<>> ELSE <<m>>
    BY <1>6
<1>8. Talk!VisibleOutput(text, tools) = p \o c
    BY <1>7 DEF Talk!VisibleOutput
<1> HIDE DEF c
<1> QED BY <1>5, <1>7, <1>8, ConcatProperties

\* A call that ends with the decoder's answer d.
Ends(s, D) ==
    /\ Base /\ Whole(whole) /\ StateOK(s, items, D)
    /\ s.decoder.message => D = 1..Len(items)

LEMMA EndsOK ==
    ASSUME NEW s, NEW D, Ends(s, D)
    PROVE  LET d == Talk!Part(s.decoder)
               answer == Talk!Joined(d)
           IN /\ Whole(answer) /\ answer.tools = whole.tools \o s.decoder.tools
              /\ Len(answer.text) = Len(whole.text) + Len(s.decoder.text)
<1> DEFINE d == Talk!Part(s.decoder)
           u == Untold(s.decoder.got, items, D)
<1>1. /\ Base /\ Whole(whole) /\ StateOK(s, items, D) /\ s.decoder \in Completion /\ Len(items) \in Nat
      /\ s.decoder.got \in Seq(Nat) /\ s.decoder.output \in Seq(Raw) /\ Len(s.decoder.got) = Len(items)
    BY StateTypes DEF Ends, Base, StateOK, Completion
<1>2. s.decoder.message => Len(s.decoder.text) = Told(s.decoder.output)
    <2>1. SUFFICES ASSUME s.decoder.message PROVE Len(s.decoder.text) = Told(s.decoder.output)
        OBVIOUS
    <2>2. D = 1..Len(items)
        BY <2>1 DEF Ends
    <2>3. \A i \in 1..Len(items) : s.decoder.got[i] \in Nat
        BY <1>1, ElementOfSeq
    <2>4. u \in [1..Len(items) -> Nat] /\ \A i \in 1..Len(items) : u[i] = 0
        BY <2>2, <2>3 DEF Untold
    <2>5. Len(s.decoder.text) = Told(s.decoder.output) + Total(u) /\ Told(s.decoder.output) \in Nat
        BY <1>1, ToldFacts DEF StateOK
    <2> HIDE DEF u
    <2>6. u \in Seq(Nat) /\ Len(u) = Len(items)
        BY <1>1, <2>4, AsList
    <2>7. Total(u) = 0
        BY <2>4, <2>6, TotalFacts
    <2> QED BY <2>5, <2>7
<1>3. ~s.decoder.message => Told(s.decoder.output) = 0
    BY <1>1 DEF StateOK
<1>4. Whole(d) /\ d.tools = s.decoder.tools /\ d.text = s.decoder.text
    BY <1>1, <1>2, <1>3, PartFacts
<1> HIDE DEF d
<1>5. Whole(Talk!Joined(d)) /\ Talk!Joined(d).tools = whole.tools \o d.tools
      /\ Len(Talk!Joined(d).text) = Len(whole.text) + Len(d.text)
    BY <1>1, <1>4, JoinedFacts
<1> QED BY <1>4, <1>5 DEF d

\* The client's blocks of an answer that is over.
TextBlock(text) == [kind |-> "text", id |-> 0, body |-> text, open |-> FALSE]
TextBlocks(text) == IF text = <<>> THEN <<>> ELSE <<TextBlock(text)>>

LEMMA WholeBlocks ==
    ASSUME NEW text \in Seq({"x"}), NEW tools \in Seq(Tool)
    PROVE  /\ TextBlocks(text) \o ToolBlocks(tools) \in Seq(Block)
           /\ Talk!Echo(TextBlocks(text) \o ToolBlocks(tools)).text = text
           /\ Talk!Echo(TextBlocks(text) \o ToolBlocks(tools)).tools = tools
           /\ \A b \in 1..Len(TextBlocks(text) \o ToolBlocks(tools)) : ~(TextBlocks(text) \o ToolBlocks(tools))[b].open
<1> DEFINE t == TextBlocks(text)
           c == ToolBlocks(tools)
           none == [text |-> <<>>, tools |-> <<>>]
<1>1. text \in Text /\ TextBlock(text) \in Block /\ ~TextBlock(text).open
    BY XsFacts DEF TextBlock, Block, Kinds
<1>2. Talk!Echo(<<>>) = none
    BY EchoFacts
<1>3. t \in Seq(Block) /\ Talk!Echo(t).text = text /\ Talk!Echo(t).tools = <<>>
      /\ \A b \in 1..Len(t) : ~t[b].open
    <2>1. CASE text = <<>>
        BY <1>2, <2>1 DEF TextBlocks
    <2>2. CASE text # <<>>
        <3>1. <<>> \in Seq(Block) /\ Append(<<>>, TextBlock(text)) = <<TextBlock(text)>>
            BY EmptySeq
        <3>2. t = Append(<<>>, TextBlock(text))
            BY <2>2, <3>1 DEF TextBlocks
        <3>3. Talk!Echo(t) = Talk!Reads(none, TextBlock(text))
            BY <1>1, <1>2, <3>1, <3>2, EchoAppend
        <3>4. <<>> \o <<>> \o text = text
            BY <1>1 DEF Text
        <3>5. Talk!Reads(none, TextBlock(text)).text = text /\ Talk!Reads(none, TextBlock(text)).tools = <<>>
            BY <3>4 DEF Talk!Reads, TextBlock
        <3>6. t \in Seq(Block) /\ Len(t) = 1 /\ t[1] = TextBlock(text)
            BY <1>1, <2>2 DEF TextBlocks
        <3>7. \A b \in 1..Len(t) : b = 1
            BY <3>6
        <3> QED BY <1>1, <3>3, <3>5, <3>6, <3>7
    <2> QED BY <2>1, <2>2
<1>4. c \in Seq(Block) /\ Talk!Echo(t \o c).text = Talk!Echo(t).text
      /\ Talk!Echo(t \o c).tools = Talk!Echo(t).tools \o tools
    BY <1>3, EchoTools
<1>5. Len(c) = Len(tools) /\ \A b \in 1..Len(c) : ~c[b].open
    <2>1. Len(tools) \in Nat /\ \A i \in 1..Len(tools) : tools[i] \in Tool /\ ToolBlock(tools[i]) \in Block /\ ~ToolBlock(tools[i]).open
        BY LenProperties, ElementOfSeq, ToolBlockFacts DEF ToolBlock
    <2>2. c \in [1..Len(tools) -> Block]
        BY <2>1 DEF ToolBlocks
    <2>3. Len(c) = Len(tools)
        BY <2>1, <2>2, AsList
    <2> QED BY <2>1, <2>3 DEF ToolBlocks
<1> HIDE DEF c, t
<1>6. t \o c \in Seq(Block) /\ Len(t) \in Nat /\ Len(c) \in Nat /\ Len(t \o c) = Len(t) + Len(c)
      /\ \A b \in 1..(Len(t) + Len(c)) : (t \o c)[b] = IF b <= Len(t) THEN t[b] ELSE c[b - Len(t)]
    BY <1>3, <1>4, ConcatProperties, LenProperties
<1>7. \A b \in 1..Len(t \o c) : ~(t \o c)[b].open
    <2>1. TAKE b \in 1..Len(t \o c)
    <2>2. CASE b <= Len(t)
        <3>1. b \in 1..Len(t) /\ (t \o c)[b] = t[b]
            BY <1>6, <2>2
        <3> QED BY <1>3, <3>1
    <2>3. CASE ~(b <= Len(t))
        <3>1. b - Len(t) \in 1..Len(c) /\ (t \o c)[b] = c[b - Len(t)]
            BY <1>6, <2>3
        <3> QED BY <1>5, <3>1
    <2> QED BY <2>2, <2>3
<1>8. <<>> \o tools = tools
    BY ConcatEmptySeq
<1> QED BY <1>3, <1>4, <1>6, <1>7, <1>8 DEF t, c

\* What the client is left with, and what is recorded of it.
Delivered(answer, text, bs) ==
    /\ Whole(answer) /\ text \in Text /\ bs \in Seq(Block)
    /\ Talk!Xs(text) = Len(answer.text) /\ Talk!Echo(bs).text = text /\ Talk!Echo(bs).tools = answer.tools
    /\ \A b \in 1..Len(bs) : ~bs[b].open

LEMMA Delivering ==
    ASSUME NEW s, NEW D, Ends(s, D)
    PROVE  LET answer == Talk!Joined(Talk!Part(s.decoder))
           IN /\ streaming => Delivered(answer, s.projection.text, Talk!CloseOpen(s).blocks)
              /\ ~streaming => Delivered(answer, answer.text, TextBlocks(answer.text) \o ToolBlocks(answer.tools))
<1> DEFINE answer == Talk!Joined(Talk!Part(s.decoder))
<1>1. /\ Whole(answer) /\ answer.tools = whole.tools \o s.decoder.tools
      /\ Len(answer.text) = Len(whole.text) + Len(s.decoder.text)
    BY EndsOK
<1> HIDE DEF answer
<1>2. ASSUME streaming PROVE Delivered(answer, s.projection.text, Talk!CloseOpen(s).blocks)
    <2>1. BlocksOK(s) /\ s \in Progress /\ s.projection.text \in Text /\ s.projection.text = Talk!Echo(s.blocks).text
        BY DEF Ends, StateOK, BlocksOK, Progress
    <2>2. /\ Talk!Echo(s.blocks).tools = whole.tools \o s.decoder.tools
          /\ Talk!Xs(s.projection.text) = Len(whole.text) + Len(s.decoder.text)
        BY <1>2 DEF Ends, StateOK
    <2>3. PICK c : c = Talk!CloseOpen(s)
        OBVIOUS
    <2>4. /\ c \in Progress /\ Len(c.blocks) = Len(s.blocks) /\ Talk!Echo(c.blocks) = Talk!Echo(s.blocks)
          /\ \A b \in 1..Len(s.blocks) : ~c.blocks[b].open
        BY <2>1, <2>3, Closing
    <2>5. c.blocks \in Seq(Block)
        BY <2>4 DEF Progress
    <2> QED BY <1>1, <2>1, <2>2, <2>3, <2>4, <2>5 DEF Delivered
<1>3. Delivered(answer, answer.text, TextBlocks(answer.text) \o ToolBlocks(answer.tools))
    <2>1. answer.text \in Seq({"x"}) /\ answer.tools \in Seq(Tool)
        BY <1>1 DEF Whole, Completion
    <2>2. answer.text \in Text /\ Talk!Xs(answer.text) = Len(answer.text)
        BY <2>1, XsFacts
    <2> QED BY <1>1, <2>1, <2>2, WholeBlocks DEF Delivered
<1> QED BY <1>2, <1>3 DEF answer

LEMMA CaptureType ==
    ASSUME NEW answer, NEW text, NEW bs, Delivered(answer, text, bs), scope \in Scopes, log \in Seq(Entry)
    PROVE  /\ Talk!VisibleOutput(text, answer.tools) \in Seq(Visibles)
           /\ Talk!Capture(scope, answer, Talk!VisibleOutput(text, answer.tools)) \in Record
           /\ Talk!Capture(scope, answer, Talk!VisibleOutput(text, answer.tools))
              = [scope |-> scope, start |-> Len(Talk!Shown(log)), output |-> answer.output,
                 prefix |-> Talk!Shown(log) \o Talk!VisibleOutput(text, answer.tools)]
<1>1. text \in Text /\ answer.tools \in Seq(Tool) /\ answer.output \in Seq(Raw)
    BY DEF Delivered, Whole, Completion
<1>2. PICK v \in Seq(Visibles) : v = Talk!VisibleOutput(text, answer.tools)
    BY <1>1, VisibleOutputType
<1>3. Talk!Shown(log) \in Seq(Visibles) /\ Len(Talk!Shown(log)) \in Nat
    BY ShownFacts, LenProperties
<1>4. PICK p \in Seq(Visibles) : p = Talk!Shown(log) \o v
    BY <1>2, <1>3, ConcatProperties
<1>5. Talk!Capture(scope, answer, v) = [scope |-> scope, start |-> Len(Talk!Shown(log)), output |-> answer.output, prefix |-> p]
    BY <1>4 DEF Talk!Capture, Talk!Visible
<1>6. Talk!Capture(scope, answer, v) \in Record
    BY <1>1, <1>3, <1>4, <1>5 DEF Record
<1> QED BY <1>2, <1>4, <1>5, <1>6

\* The answer is saved for the client.
LEMMA Finishing ==
    ASSUME NEW s, NEW D, Ends(s, D), scope \in Scopes, log \in Seq(Entry), Talk!Finish(s)
    PROVE  /\ \E r \in Record : records' = <<r>> \o records
                                /\ r = [scope |-> scope, start |-> Len(Talk!Shown(log)), output |-> whole'.output,
                                        prefix |-> Talk!Shown(log) \o Talk!VisibleOutput(Talk!Echo(blocks').text, Talk!Echo(blocks').tools)]
           /\ step' = "captured" /\ log' = log /\ items' = items /\ calls' = calls
           /\ Whole(whole') /\ blocks' \in Seq(Block) /\ \A b \in 1..Len(blocks') : ~blocks'[b].open
           /\ Talk!Xs(Talk!Echo(blocks').text) = Len(whole'.text) /\ Talk!Echo(blocks').tools = whole'.tools
           /\ streaming => blocks' = Talk!CloseOpen(s).blocks
<1> DEFINE answer == Talk!Joined(Talk!Part(s.decoder))
           text == IF streaming THEN s.projection.text ELSE answer.text
           bs == IF streaming THEN Talk!CloseOpen(s).blocks ELSE TextBlocks(answer.text) \o ToolBlocks(answer.tools)
           v == Talk!VisibleOutput(text, answer.tools)
<1>1. Delivered(answer, text, bs)
    BY Delivering
<1>2. whole' = answer /\ step' = "captured" /\ log' = log /\ items' = items /\ calls' = calls
    BY DEF Talk!Finish
<1>3. records' = <<Talk!Capture(scope, answer, v)>> \o records
    BY DEF Talk!Finish, Talk!Save
<1>4. blocks' = bs
    <2>1. answer.tools \in Seq(Tool)
        BY <1>1 DEF Delivered, Whole, Completion
    <2>2. DOMAIN answer.tools = 1..Len(answer.tools)
        BY <2>1, LenProperties
    <2> HIDE DEF answer
    <2>3. ToolBlocks(answer.tools) = [i \in DOMAIN answer.tools |->
                               [kind |-> "tool", id |-> answer.tools[i].id,
                                body |-> Talk!Fragments(answer.tools[i].n), open |-> FALSE]]
        BY <2>2 DEF ToolBlocks, ToolBlock
    <2>4. streaming \in BOOLEAN
        BY DEF Ends, Base
    <2>5. CASE streaming
        BY <2>5, SMTT(40) DEF Talk!Finish
    <2>6. CASE ~streaming
        BY <2>3, <2>6, Zenon DEF Talk!Finish, TextBlocks, TextBlock, answer
    <2> QED BY <2>5, <2>6
<1> HIDE DEF answer, text, bs
<1>5. v \in Seq(Visibles) /\ Talk!Capture(scope, answer, v) \in Record
      /\ Talk!Capture(scope, answer, v) = [scope |-> scope, start |-> Len(Talk!Shown(log)), output |-> answer.output,
                                           prefix |-> Talk!Shown(log) \o v]
    BY <1>1, CaptureType
<1>6. v = Talk!VisibleOutput(Talk!Echo(blocks').text, Talk!Echo(blocks').tools)
    BY <1>1, <1>4 DEF Delivered
<1>7. /\ Whole(whole') /\ blocks' \in Seq(Block) /\ \A b \in 1..Len(blocks') : ~blocks'[b].open
      /\ Talk!Xs(Talk!Echo(blocks').text) = Len(whole'.text) /\ Talk!Echo(blocks').tools = whole'.tools
    BY <1>1, <1>2, <1>4 DEF Delivered
<1>8. streaming => blocks' = Talk!CloseOpen(s).blocks
    BY <1>4 DEF bs
<1> HIDE DEF v
<1> QED BY <1>2, <1>3, <1>5, <1>6, <1>7, <1>8

\* A further call of the answer.
LEMMA Again ==
    ASSUME NEW s, NEW D, Ends(s, D), Talk!CallAgain(s), turn' = turn, streaming' = streaming
    PROVE  /\ Whole(whole') /\ items' = <<>> /\ calls' \in Nat /\ StateOK(Talk!State, items, DoneItems)'
           /\ log' = log /\ records' = records /\ step' = step
           /\ blocks' = s.blocks
<1>1. /\ whole' = Talk!Joined(Talk!Part(s.decoder)) /\ decoder' = Talk!Fresh /\ items' = <<>> /\ calls' = calls + 1
      /\ projection' = s.projection /\ blocks' = s.blocks /\ open' = s.open
      /\ log' = log /\ records' = records /\ step' = step
    BY DEF Talk!CallAgain
<1>2. Base /\ StateOK(s, items, D) /\ BlocksOK(s) /\ s \in Progress /\ calls \in Nat
    BY StateTypes DEF Ends, Base, StateOK, BlocksOK
<1>3. Whole(whole') /\ whole'.tools = whole.tools \o s.decoder.tools /\ Len(whole'.text) = Len(whole.text) + Len(s.decoder.text)
    BY <1>1, EndsOK
<1>4. PICK t : t = [decoder |-> Talk!Fresh, projection |-> s.projection, blocks |-> s.blocks, open |-> s.open]
    OBVIOUS
<1>5. Talk!State' = t /\ (DoneItems)' = {}
    BY <1>1, <1>4 DEF Talk!State, DoneItems
<1>6. Talk!Fresh \in Completion
    BY DEF Talk!Fresh, Completion
<1>7. t = Decoded(s, Talk!Fresh)
    BY <1>4 DEF Decoded
<1>8. /\ BlocksOK(t) /\ t.decoder = Talk!Fresh /\ t.blocks = s.blocks /\ t.projection = s.projection
    BY <1>2, <1>6, <1>7, DecodedFacts
<1>9. /\ Talk!Fresh.text = <<>> /\ Talk!Fresh.got = <<>> /\ Talk!Fresh.tools = <<>> /\ Talk!Fresh.output = <<>>
      /\ Talk!Fresh.message = FALSE
    BY DEF Talk!Fresh
<1>10. Told(<<>>) = 0 /\ Total(Untold(<<>>, <<>>, {})) = 0
    <2>1. Untold(<<>>, <<>>, {}) = <<>>
        BY DEF Untold
    <2> QED BY <2>1, ToldFacts, TotalFacts
<1>11. streaming => /\ Talk!Echo(t.blocks).tools = whole'.tools \o t.decoder.tools
                    /\ Talk!Xs(t.projection.text) = Len(whole'.text) + Len(t.decoder.text)
    <2>1. SUFFICES ASSUME streaming PROVE /\ Talk!Echo(t.blocks).tools = whole'.tools \o t.decoder.tools
                                          /\ Talk!Xs(t.projection.text) = Len(whole'.text) + Len(t.decoder.text)
        OBVIOUS
    <2>2. /\ Talk!Echo(s.blocks).tools = whole.tools \o s.decoder.tools
          /\ Talk!Xs(s.projection.text) = Len(whole.text) + Len(s.decoder.text)
        BY <1>2, <2>1 DEF StateOK
    <2>3. whole'.tools \in Seq(Tool) /\ whole'.text \in Seq({"x"}) /\ Len(whole'.text) \in Nat
        BY <1>3, LenProperties DEF Whole, Completion
    <2>4. whole'.tools \o <<>> = whole'.tools /\ Len(<<>>) = 0
        BY <2>3, ConcatEmptySeq
    <2> QED BY <1>3, <1>8, <1>9, <2>2, <2>3, <2>4
<1>12. ~streaming => t.blocks = <<>>
    BY <1>2, <1>8 DEF StateOK
<1>13. \A id \in ToolIds(t.blocks) : id[1] = turn /\ ((id[2] \in Nat /\ id[2] < calls + 1) \/ (id[2] = calls + 1 /\ id[3] \in {}))
    <2>1. TAKE id \in ToolIds(t.blocks)
    <2>2. id[1] = turn /\ ((id[2] \in Nat /\ id[2] < calls) \/ id[2] = calls)
        BY <1>2, <1>8 DEF StateOK
    <2>3. id[2] \in Nat /\ id[2] < calls + 1
        BY <1>2, <2>2
    <2> QED BY <2>2, <2>3
<1>14. Len(t.decoder.text) = Told(t.decoder.output) + Total(Untold(t.decoder.got, <<>>, {}))
    BY <1>8, <1>9, <1>10
<1>15. Len(t.decoder.got) = Len(<<>>) /\ {} \subseteq 1..Len(<<>>) /\ \A i \in 1..Len(<<>>) : i \notin {} => t.decoder.got[i] = <<>>[i].sent
    BY <1>8, <1>9
<1>16. ~t.decoder.message => Told(t.decoder.output) = 0
    BY <1>8, <1>9, <1>10
<1>17. /\ StateOK(t, items, {})'
    BY <1>1, <1>8, <1>11, <1>12, <1>13, <1>14, <1>15, <1>16 DEF StateOK
<1>18. StateOK(Talk!State, items, DoneItems)'
    BY <1>5, <1>17
<1> QED BY <1>1, <1>2, <1>3, <1>18

\* Nothing of an answer yet.
LEMMA Starting ==
    ASSUME Talk!NoAnswer'
    PROVE  /\ Whole(whole') /\ items' = <<>> /\ items' \in Items /\ calls' \in Nat
           /\ StateOK(Talk!State, items, DoneItems)'
<1>1. /\ items' = <<>> /\ decoder' = Talk!Fresh /\ whole' = Talk!Fresh
      /\ projection' = [text |-> <<>>, block |-> "none"] /\ blocks' = <<>> /\ open' = 0 /\ calls' = 1
    BY DEF Talk!NoAnswer
<1>2. Talk!Fresh \in Completion
    BY DEF Talk!Fresh, Completion
<1>3. /\ Talk!Fresh.text = <<>> /\ Talk!Fresh.got = <<>> /\ Talk!Fresh.tools = <<>> /\ Talk!Fresh.output = <<>>
      /\ Talk!Fresh.message = FALSE
    BY DEF Talk!Fresh
<1>4. Told(<<>>) = 0 /\ Total(Untold(<<>>, <<>>, {})) = 0
    <2>1. Untold(<<>>, <<>>, {}) = <<>>
        BY DEF Untold
    <2> QED BY <2>1, ToldFacts, TotalFacts
<1>5. PICK t : t = [decoder |-> Talk!Fresh, projection |-> [text |-> <<>>, block |-> "none"], blocks |-> <<>>, open |-> 0]
    OBVIOUS
<1>6. Talk!State' = t /\ (DoneItems)' = {}
    BY <1>1, <1>5 DEF Talk!State, DoneItems
<1>7. /\ t.decoder = Talk!Fresh /\ t.projection.text = <<>> /\ t.projection.block = "none"
      /\ t.blocks = <<>> /\ t.open = 0
    BY <1>5
<1>8. BlocksOK(t)
    <2>1. Talk!Echo(<<>>).text = <<>>
        BY EchoFacts
    <2>2. [text |-> <<>>, block |-> "none"] \in [text : Text, block : {"none"} \cup Kinds]
        BY DEF Text
    <2>3. t \in Progress
        BY <1>2, <1>5, <2>2 DEF Progress
    <2> QED BY <1>7, <2>1, <2>3 DEF BlocksOK
<1>9. /\ Talk!Echo(t.blocks).tools = whole'.tools \o t.decoder.tools
      /\ Talk!Xs(t.projection.text) = Len(whole'.text) + Len(t.decoder.text)
    <2>1. Talk!Echo(<<>>).tools = <<>> /\ Talk!Xs(<<>>) = 0
        BY EchoFacts, XsFacts
    <2>2. <<>> \o <<>> = <<>> /\ Len(<<>>) = 0
        OBVIOUS
    <2> QED BY <1>1, <1>3, <1>7, <2>1, <2>2
<1>10. ToolIds(t.blocks) = {}
    BY <1>7 DEF ToolIds
<1>11. Len(t.decoder.text) = Told(t.decoder.output) + Total(Untold(t.decoder.got, <<>>, {}))
    BY <1>3, <1>4, <1>7
<1>12. Len(t.decoder.got) = Len(<<>>) /\ {} \subseteq 1..Len(<<>>) /\ \A i \in 1..Len(<<>>) : i \notin {} => t.decoder.got[i] = <<>>[i].sent
    BY <1>3, <1>7
<1>13. ~t.decoder.message => Told(t.decoder.output) = 0
    BY <1>3, <1>4, <1>7
<1>14. StateOK(t, items, {})'
    BY <1>1, <1>7, <1>8, <1>9, <1>10, <1>11, <1>12, <1>13 DEF StateOK
<1>15. StateOK(Talk!State, items, DoneItems)'
    BY <1>6, <1>14
<1>16. Whole(Talk!Fresh)
    BY <1>2, <1>3, <1>4 DEF Whole
<1>17. <<>> \in Items
    BY DEF Items
<1> QED BY <1>1, <1>15, <1>16, <1>17

\* What the client says.
LEMMA SaysFacts == ASSUME NEW n \in Nat PROVE ClientEntry(Talk!Says(n))
<1>1. [type |-> "user", n |-> n] \in Visibles
    BY DEF Visibles
<1>2. PICK v : v = <<[type |-> "user", n |-> n]>>
    OBVIOUS
<1>3. v \in Seq(Visibles) /\ v \in Seq(Natives) /\ v # <<>>
    BY <1>1, <1>2 DEF Natives
<1>4. Talk!Says(n) = [who |-> "client", visible |-> v, native |-> v]
    BY <1>2 DEF Talk!Says
<1> QED BY <1>3, <1>4 DEF ClientEntry, Entry

LEMMA PendingFacts ==
    ASSUME log \in Seq(Entry)
    PROVE  Talk!Pending \in Seq({x \in Visibles : x.type = "call"})
<1> DEFINE C == {x \in Visibles : x.type = "call"}
           last == Talk!Last(log).visible
           X == {x \in Talk!ToSet(last) : x.type = "call"}
<1>1. CASE log = <<>>
    BY <1>1 DEF Talk!Pending
<1>2. CASE log # <<>>
    <2>1. Len(log) \in 1..Len(log) /\ log[Len(log)] \in Entry
        BY <1>2, LenProperties, ElementOfSeq, EmptySeq
    <2>2. last \in Seq(Visibles)
        BY <2>1 DEF Talk!Last, Entry
    <2>3. Talk!Pending = Talk!Only(last, X)
        BY <1>2 DEF Talk!Pending
    <2> HIDE DEF last
    <2>4. Talk!Only(last, X) \in Seq(Visibles \cap X)
        BY <2>2, SameLists, OnlySet
    <2>5. Visibles \cap X \subseteq C
        OBVIOUS
    <2> QED BY <2>3, <2>4, <2>5, SeqMonotonic
<1> QED BY <1>1, <1>2

LEMMA ResultsFacts ==
    ASSUME log \in Seq(Entry), Talk!Pending # <<>>
    PROVE  ClientEntry(Talk!Results(Talk!Pending))
<1> DEFINE C == {x \in Visibles : x.type = "call"}
           p == Talk!Pending
           r == [i \in DOMAIN p |-> [type |-> "result", id |-> p[i].id]]
<1>1. p \in Seq(C)
    BY PendingFacts
<1>2. \A x \in C : x.id \in Id
    BY DEF Visibles
<1>3. Len(p) \in Nat /\ DOMAIN p = 1..Len(p) /\ \A i \in 1..Len(p) : p[i] \in C
    BY <1>1, LenProperties, ElementOfSeq
<1>4. ASSUME NEW id \in Id PROVE [type |-> "result", id |-> id] \in Visibles
    BY DEF Visibles
<1>5. r \in [1..Len(p) -> Visibles]
    BY <1>2, <1>3, <1>4
<1>6. p # <<>>
    OBVIOUS
<1> HIDE DEF C
<1>7. r \in Seq(Visibles) /\ Len(r) = Len(p) /\ Len(p) # 0
    <2>1. Len(p) # 0
        BY <1>1, <1>6, EmptySeq
    <2> HIDE DEF r, p
    <2> QED BY <1>3, <1>5, <2>1, AsList
<1>8. Talk!Results(p) = [who |-> "client", visible |-> r, native |-> r]
    BY DEF Talk!Results
<1> HIDE DEF r, p
<1>9. r \in Seq(Natives) /\ r # <<>>
    <2>1. Visibles \subseteq Natives
        BY DEF Natives
    <2> QED BY <1>7, <2>1, SeqMonotonic, EmptySeq
<1>10. ClientEntry(Talk!Results(p))
    BY <1>7, <1>8, <1>9 DEF ClientEntry, Entry
<1> QED BY <1>10 DEF p

-----------------------------------------------------------------------------
(* The invariant holds.                                                     *)

\* The client's blocks that were stopped stay.
Seen == streaming => \A b \in DOMAIN blocks : ~blocks[b].open => blocks'[b] = blocks[b]

LEMMA TurnInit == Talk!Init => TurnInv
<1> SUFFICES ASSUME Talk!Init PROVE TurnInv
    OBVIOUS
<1>1. /\ log = <<>> /\ records = <<>> /\ step = "ask" /\ turn = 0 /\ streaming = FALSE /\ forks = 0
      /\ Talk!NoAnswer
    BY DEF Talk!Init
<1>2. items = <<>> /\ calls = 1 /\ whole = Talk!Fresh /\ Talk!Fresh \in Completion
    BY <1>1 DEF Talk!NoAnswer, Talk!Fresh, Completion
<1>3. <<>> \in Items
    BY DEF Items
<1>4. TurnAnswer
    BY <1>1, <1>2, <1>3 DEF TurnAnswer
<1>5. Turns(<<>>, 0)
    BY DEF Turns
<1>6. LogOK(<<>>, <<>>, 0, 0)
    BY <1>5 DEF LogOK
<1>7. TurnLog
    <2>1. 0 \in Nat /\ LogOK(log, records, 0, IF step = "captured" THEN 0 + 1 ELSE 0)
          /\ Len(log) = IF step = "ask" THEN 2 * 0 ELSE 2 * 0 + 1
        BY <1>1, <1>6
    <2> QED BY <2>1 DEF TurnLog
<1> QED BY <1>4, <1>7 DEF TurnInv

LEMMA TurnFacts ==
    ASSUME TurnInv
    PROVE  /\ log \in Seq(Entry) /\ records \in Seq(Record) /\ turn \in Nat /\ calls \in Nat /\ forks \in Nat
           /\ streaming \in BOOLEAN /\ items \in Items /\ whole \in Completion
           /\ step = "answer" => Base /\ StateOK(Talk!State, items, DoneItems) /\ Talk!State \in Progress
                                 /\ Whole(whole) /\ scope \in Scopes
           /\ step = "captured" => Captured /\ scope \in Scopes
<1>1. PICK n \in Nat : LogOK(log, records, n, IF step = "captured" THEN n + 1 ELSE n)
    BY DEF TurnInv, TurnLog
<1>2. log \in Seq(Entry) /\ records \in Seq(Record)
    BY <1>1 DEF LogOK, Turns
<1>3. /\ turn \in Nat /\ calls \in Nat /\ forks \in Nat
      /\ streaming \in BOOLEAN /\ items \in Items /\ whole \in Completion
      /\ step = "answer" => StateOK(Talk!State, items, DoneItems) /\ Whole(whole) /\ scope \in Scopes
      /\ step = "captured" => Captured /\ scope \in Scopes
    BY DEF TurnInv, TurnAnswer
<1>4. Base
    BY <1>3 DEF Base
<1> QED BY <1>2, <1>3, <1>4, StateTypes

LEMMA BecomesIs ==
    ASSUME NEW w \in Progress, Talk!Becomes(w)
    PROVE  Talk!State' = w
BY DEF Talk!Becomes, Talk!State, Progress

LEMMA KeepsSeen ==
    ASSUME KeepsStopped(Talk!State, Talk!State'), Talk!State \in Progress
    PROVE  Seen
<1>1. Talk!State.blocks = blocks /\ Talk!State'.blocks = blocks' /\ blocks \in Seq(Block)
    BY DEF Talk!State, Progress
<1>2. DOMAIN blocks = 1..Len(blocks)
    BY <1>1, LenProperties
<1> QED BY <1>1, <1>2 DEF KeepsStopped, Seen

\* The log is as it was, whatever the answer does.
LEMMA SameLog ==
    ASSUME TurnInv, step = "answer", step' = "answer", log' = log, records' = records
    PROVE  TurnLog'
BY DEF TurnInv, TurnLog

LEMMA AskStep ==
    ASSUME TurnInv, Talk!Ask
    PROVE  TurnInv'
<1>1. /\ step = "ask" /\ step' = "answer" /\ turn' = turn + 1 /\ scope' \in Scopes /\ streaming' \in BOOLEAN
      /\ records' = records /\ forks' = forks /\ UNCHANGED Talk!answerVars
    BY DEF Talk!Ask, Talk!bounds
<1>2. PICK n \in Nat : LogOK(log, records, n, n) /\ Len(log) = 2 * n
    BY <1>1 DEF TurnInv, TurnLog
<1>3. /\ log \in Seq(Entry) /\ turn \in Nat /\ forks \in Nat
    BY TurnFacts
<1>4. PICK e : ClientEntry(e) /\ log' = Append(log, e)
    <2>1. PICK k \in 1..(1 + forks) : log' = Append(log, IF Talk!Pending # <<>> THEN Talk!Results(Talk!Pending) ELSE Talk!Says(k))
        BY DEF Talk!Ask
    <2>2. k \in Nat
        BY <1>3
    <2>3. Talk!Pending # <<>> => ClientEntry(Talk!Results(Talk!Pending))
        BY <1>3, ResultsFacts
    <2>4. ClientEntry(Talk!Says(k))
        BY <2>2, SaysFacts
    <2> QED BY <2>1, <2>3, <2>4
<1>5. LogOK(log', records, n, n) /\ Len(log') = 2 * n + 1
    BY <1>2, <1>4, LogAsk
<1>6. TurnLog'
    BY <1>1, <1>5 DEF TurnLog
<1>7. Talk!NoAnswer'
    <2>1. Talk!NoAnswer
        BY <1>1 DEF TurnInv, TurnAnswer
    <2> QED BY <1>1, <2>1 DEF Talk!NoAnswer, Talk!answerVars
<1>8. /\ Whole(whole') /\ items' \in Items /\ calls' \in Nat /\ StateOK(Talk!State, items, DoneItems)'
    BY <1>7, Starting
<1>9. turn' \in Nat /\ whole' \in Completion
    BY <1>1, <1>3, <1>8 DEF Whole
<1>10. TurnAnswer'
    BY <1>1, <1>3, <1>8, <1>9 DEF TurnAnswer
<1> QED BY <1>6, <1>10 DEF TurnInv

LEMMA ForkStep ==
    ASSUME TurnInv, Talk!Fork
    PROVE  TurnInv'
<1>1. /\ step = "ask" /\ forks' = forks + 1
      /\ UNCHANGED <<records, step, turn, scope, streaming, sent, Talk!answerVars, sentItems, sentFragments>>
    BY DEF Talk!Fork
<1>2. PICK n \in Nat : LogOK(log, records, n, n) /\ Len(log) = 2 * n
    BY <1>1 DEF TurnInv, TurnLog
<1>3. Turns(log, n) /\ log \in Seq(Entry)
    BY <1>2 DEF LogOK, Turns
<1>4. PICK k \in DOMAIN log : log[k].who = "client" /\ log' = SubSeq(log, 1, k - 1)
    BY DEF Talk!Fork
<1>5. k \in 1..(2 * n) /\ k \in Nat
    BY <1>2, <1>3, <1>4, LenProperties
<1>6. PICK j \in Nat : k = 2 * j \/ k = 2 * j + 1
    BY <1>5, Halves
<1>7. k # 2 * j
    <2>1. SUFFICES ASSUME k = 2 * j PROVE FALSE
        OBVIOUS
    <2>2. j \in 1..n
        BY <1>2, <1>5, <2>1
    <2>3. log[k].who \in Scopes
        BY <1>3, <2>1, <2>2 DEF Turns, AnswerEntry
    <2> QED BY <1>4, <2>3, SpeakerAssumption
<1>8. j \in 0..n /\ k - 1 = 2 * j
    BY <1>2, <1>5, <1>6, <1>7
<1>9. LogOK(log', records, j, j) /\ Len(log') = 2 * j
    BY <1>2, <1>4, <1>8, LogCut
<1>10. TurnLog'
    BY <1>1, <1>8, <1>9 DEF TurnLog
<1>11. TurnAnswer'
    <2>1. Talk!NoAnswer /\ forks \in Nat
        BY <1>1 DEF TurnInv, TurnAnswer
    <2>2. Talk!NoAnswer'
        BY <1>1, <2>1 DEF Talk!NoAnswer, Talk!answerVars
    <2>3. forks' \in Nat
        BY <1>1, <2>1
    <2> QED BY <1>1, <2>2, <2>3 DEF TurnInv, TurnAnswer, Talk!answerVars
<1> QED BY <1>10, <1>11 DEF TurnInv

LEMMA ItemAddedStep ==
    ASSUME TurnInv, Talk!ItemAdded
    PROVE  TurnInv' /\ Seen
<1>1. /\ step = "answer" /\ step' = "answer" /\ log' = log /\ records' = records /\ turn' = turn
      /\ scope' = scope /\ streaming' = streaming /\ whole' = whole /\ projection' = projection
      /\ blocks' = blocks /\ open' = open /\ calls' = calls /\ forks' = forks
      /\ decoder' = [decoder EXCEPT !.got = Append(@, 0)]
    BY DEF Talk!ItemAdded, Talk!Answering
<1>2. PICK e : e \in Item /\ e.sent = 0 /\ ~e.done /\ items' = Append(items, e)
    <2>1. PICK kind \in {"message", "call", "reasoning"} :
              items' = Append(items, [kind |-> kind, sent |-> 0, done |-> FALSE])
        BY DEF Talk!ItemAdded
    <2>2. PICK e : e = [kind |-> kind, sent |-> 0, done |-> FALSE]
        OBVIOUS
    <2>3. e \in Item /\ e.sent = 0 /\ ~e.done
        BY <2>2 DEF Item
    <2> QED BY <2>1, <2>2, <2>3
<1>3. Base /\ StateOK(Talk!State, items, DoneItems) /\ Talk!State \in Progress /\ items \in Items
    BY <1>1, TurnFacts
<1>4. Talk!State' = Decoded(Talk!State, [Talk!State.decoder EXCEPT !.got = Append(Talk!State.decoder.got, 0)])
    BY <1>1 DEF Talk!State, Decoded
<1>5. StateOK(Talk!State', items', DoneItems) /\ KeepsStopped(Talk!State, Talk!State') /\ items' \in Items
    BY <1>2, <1>3, <1>4, AddedOK
<1>6. (DoneItems)' = DoneItems
    <2>1. items \in Seq(Item) /\ Len(items) \in Nat
        BY <1>3, LenProperties DEF Items
    <2>2. /\ Len(items') = Len(items) + 1 /\ items'[Len(items) + 1] = e /\ \A i \in 1..Len(items) : items'[i] = items[i]
        BY <1>2, <2>1, AppendProperties
    <2>3. \A i \in 1..(Len(items) + 1) : i = Len(items) + 1 \/ i \in 1..Len(items)
        BY <2>1
    <2>4. 1..Len(items) \subseteq 1..(Len(items) + 1)
        BY <2>1
    <2> QED BY <1>2, <2>2, <2>3, <2>4 DEF DoneItems
<1>7. StateOK(Talk!State, items, DoneItems)'
    BY <1>1, <1>5, <1>6 DEF StateOK
<1>8. TurnAnswer'
    BY <1>1, <1>5, <1>7 DEF TurnInv, TurnAnswer
<1>9. TurnLog'
    BY <1>1, SameLog
<1> QED BY <1>3, <1>5, <1>8, <1>9, KeepsSeen DEF TurnInv

\* The items when one of them changes.
Exchanged(jts, i, e) ==
    /\ items \in Items /\ i \in 1..Len(items) /\ ~items[i].done /\ e \in Item /\ e.kind = items[i].kind
    /\ jts = [items EXCEPT ![i] = e]

LEMMA ItemsMove ==
    ASSUME NEW jts, NEW i, NEW e, Exchanged(jts, i, e), NEW E, E = IF e.done THEN DoneItems \cup {i} ELSE DoneItems
    PROVE  Moves(items, jts, DoneItems, E, i) /\ jts[i] = e /\ {k \in 1..Len(jts) : jts[k].done} = E
<1>1. /\ items \in Seq(Item) /\ Len(items) \in Nat /\ i \in 1..Len(items) /\ ~items[i].done
      /\ e \in Item /\ e.kind = items[i].kind /\ jts = [items EXCEPT ![i] = e]
    BY LenProperties DEF Exchanged, Items
<1>2. e.done \in BOOLEAN
    BY <1>1 DEF Item
<1>3. jts \in Seq(Item) /\ Len(jts) = Len(items) /\ \A k \in 1..Len(items) : jts[k] = IF k = i THEN e ELSE items[k]
    BY <1>1, ExceptSeq
<1>4. {k \in 1..Len(jts) : jts[k].done} = E
    BY <1>1, <1>2, <1>3 DEF DoneItems
<1>5. DoneItems \subseteq 1..Len(items) /\ i \notin DoneItems
    BY <1>1 DEF DoneItems
<1>6. Moves(items, jts, DoneItems, E, i)
    BY <1>1, <1>2, <1>3, <1>5 DEF Moves, Items
<1> QED BY <1>1, <1>3, <1>4, <1>6

LEMMA DeltaSteps ==
    ASSUME TurnInv, Talk!Delta
    PROVE  TurnInv' /\ Seen
<1>1. /\ step = "answer" /\ step' = "answer" /\ log' = log /\ records' = records /\ turn' = turn
      /\ scope' = scope /\ streaming' = streaming /\ whole' = whole /\ calls' = calls /\ forks' = forks
    <2>1. step = "answer" /\ UNCHANGED <<log, records, step, turn, scope, streaming, sent, whole, calls, forks, sentItems>>
        BY DEF Talk!Delta, Talk!Answering
    <2> QED BY <2>1
<1>2. PICK i \in DOMAIN items : /\ ~items[i].done /\ items' = [items EXCEPT ![i].sent = @ + 1]
                                /\ Talk!Becomes(Talk!OnDelta(Talk!State, i))
    BY DEF Talk!Delta
<1>3. Base /\ StateOK(Talk!State, items, DoneItems) /\ Talk!State \in Progress /\ items \in Items
    BY <1>1, TurnFacts
<1>4. i \in 1..Len(items) /\ items[i] \in Item /\ items[i].sent \in Nat /\ items[i].sent + 1 \in Nat /\ items[i].done = FALSE
    BY <1>2, <1>3, LenProperties, ItemFacts DEF Items
<1>5. PICK e : e = [items[i] EXCEPT !.sent = items[i].sent + 1]
    OBVIOUS
<1>6. /\ Moves(items, items', DoneItems, DoneItems, i) /\ items'[i].sent = items[i].sent + 1 /\ (DoneItems)' = DoneItems
    <2>1. e \in Item /\ e.kind = items[i].kind /\ e.sent = items[i].sent + 1 /\ ~e.done
        BY <1>4, <1>5 DEF Item
    <2>2. PICK jts : jts = items'
        OBVIOUS
    <2>3. jts = [items EXCEPT ![i] = e]
        BY <1>2, <1>5, <2>2
    <2>4. Moves(items, jts, DoneItems, DoneItems, i) /\ jts[i] = e /\ {k \in 1..Len(jts) : jts[k].done} = DoneItems
        <3>1. Exchanged(jts, i, e)
            BY <1>2, <1>3, <1>4, <2>1, <2>3 DEF Exchanged
        <3> QED BY <2>1, <3>1, ItemsMove
    <2> QED BY <2>1, <2>2, <2>4 DEF DoneItems
<1>7. PICK w : w = Talk!OnDelta(Talk!State, i)
    OBVIOUS
<1>8. Deltas(Talk!State, DoneItems, items', i, w)
    BY <1>3, <1>6, <1>7 DEF Deltas
<1>9. StateOK(w, items', DoneItems) /\ KeepsStopped(Talk!State, w)
    BY <1>8, DeltaStep
<1>10. w \in Progress
    BY <1>9 DEF StateOK, BlocksOK
<1>11. Talk!State' = w
    BY <1>2, <1>7, <1>10, BecomesIs
<1>12. StateOK(Talk!State, items, DoneItems)'
    BY <1>1, <1>6, <1>9, <1>11 DEF StateOK
<1>13. items' \in Items
    BY <1>6 DEF Moves
<1>14. TurnAnswer'
    BY <1>1, <1>12, <1>13 DEF TurnInv, TurnAnswer
<1>15. TurnLog'
    BY <1>1, SameLog
<1> QED BY <1>3, <1>9, <1>11, <1>14, <1>15, KeepsSeen DEF TurnInv

LEMMA ItemDoneStep ==
    ASSUME TurnInv, Talk!ItemDone
    PROVE  TurnInv' /\ Seen
<1>1. /\ step = "answer" /\ step' = "answer" /\ log' = log /\ records' = records /\ turn' = turn
      /\ scope' = scope /\ streaming' = streaming /\ whole' = whole /\ calls' = calls /\ forks' = forks
    <2>1. step = "answer" /\ UNCHANGED <<log, records, step, turn, scope, streaming, sent, whole, calls, forks, sentItems>>
        BY DEF Talk!ItemDone, Talk!Answering
    <2> QED BY <2>1
<1>2. PICK i \in DOMAIN items, more \in 0..1 :
          /\ ~items[i].done /\ items' = [items EXCEPT ![i].done = TRUE, ![i].sent = @ + more]
          /\ Talk!Becomes(Talk!OnItem(Talk!State, i, items[i].sent + more))
    BY DEF Talk!ItemDone
<1>3. Base /\ StateOK(Talk!State, items, DoneItems) /\ Talk!State \in Progress /\ items \in Items
    BY <1>1, TurnFacts
<1>4. i \in 1..Len(items) /\ items[i] \in Item /\ items[i].sent \in Nat
    BY <1>2, <1>3, LenProperties, ItemFacts DEF Items
<1>5. PICK n \in Nat : n = items[i].sent + more /\ n >= items[i].sent
    BY <1>4
<1>6. PICK b \in BOOLEAN : b = TRUE
    OBVIOUS
<1>7. /\ Moves(items, items', DoneItems, DoneItems \cup {i}, i) /\ items'[i].sent = n /\ (DoneItems)' = DoneItems \cup {i}
    <2>1. PICK d : d = [items[i] EXCEPT !.done = b]
        OBVIOUS
    <2>2. d = [kind |-> items[i].kind, sent |-> items[i].sent, done |-> b]
        BY <1>4, <2>1 DEF Item
    <2>3. PICK e : e = [d EXCEPT !.sent = n]
        OBVIOUS
    <2>4. e = [kind |-> items[i].kind, sent |-> n, done |-> b]
        BY <2>2, <2>3
    <2>5. e \in Item /\ e.kind = items[i].kind /\ e.sent = n /\ e.done
        BY <1>4, <1>6, <2>4 DEF Item
    <2>6. PICK jts : jts = items'
        OBVIOUS
    <2>7. items' = [items EXCEPT ![i].done = b, ![i].sent = items[i].sent + more]
        BY <1>2, <1>6
    <2>8. jts = [items EXCEPT ![i] = e]
        <3>1. PICK q : q = [items EXCEPT ![i] = d]
            OBVIOUS
        <3>2. q[i] = d
            BY <1>2, <3>1
        <3>3. [q EXCEPT ![i].sent = n] = [items EXCEPT ![i] = e]
            BY <1>2, <2>3, <3>1, <3>2
        <3>4. items' = [q EXCEPT ![i].sent = items[i].sent + more]
            BY <2>1, <2>7, <3>1
        <3> QED BY <1>5, <2>6, <3>3, <3>4
    <2>9. Moves(items, jts, DoneItems, DoneItems \cup {i}, i) /\ jts[i] = e /\ {k \in 1..Len(jts) : jts[k].done} = DoneItems \cup {i}
        <3>1. Exchanged(jts, i, e)
            BY <1>2, <1>3, <1>4, <2>5, <2>8 DEF Exchanged
        <3> QED BY <2>5, <3>1, ItemsMove, SMTT(40)
    <2> QED BY <2>5, <2>6, <2>9 DEF DoneItems
<1>8. PICK w : w = Talk!OnItem(Talk!State, i, n)
    OBVIOUS
<1>9. Completes(Talk!State, items, DoneItems, items', i, n, w)
    BY <1>3, <1>5, <1>7, <1>8 DEF Completes
<1>10. StateOK(w, items', DoneItems \cup {i}) /\ KeepsStopped(Talk!State, w)
    BY <1>9, ItemStep
<1>11. w \in Progress
    BY <1>10 DEF StateOK, BlocksOK
<1>12. Talk!State' = w
    BY <1>2, <1>5, <1>8, <1>11, BecomesIs
<1>13. StateOK(Talk!State, items, DoneItems)'
    BY <1>1, <1>7, <1>10, <1>12 DEF StateOK
<1>14. items' \in Items
    BY <1>7 DEF Moves
<1>15. TurnAnswer'
    BY <1>1, <1>13, <1>14 DEF TurnInv, TurnAnswer
<1>16. TurnLog'
    BY <1>1, SameLog
<1> QED BY <1>3, <1>10, <1>12, <1>15, <1>16, KeepsSeen DEF TurnInv

LEMMA CompleteStep ==
    ASSUME TurnInv, Talk!Complete
    PROVE  TurnInv' /\ Seen
<1>1. /\ step = "answer" /\ turn' = turn /\ scope' = scope /\ streaming' = streaming /\ forks' = forks
    <2>1. step = "answer" /\ UNCHANGED <<turn, scope, streaming, sent, forks, sentItems>>
        BY DEF Talk!Complete, Talk!Answering
    <2> QED BY <2>1
<1>2. /\ Base /\ StateOK(Talk!State, items, DoneItems) /\ Talk!State \in Progress /\ Whole(whole) /\ scope \in Scopes
      /\ log \in Seq(Entry) /\ records \in Seq(Record) /\ items \in Items /\ turn \in Nat /\ calls \in Nat
      /\ streaming \in BOOLEAN /\ forks \in Nat
    BY <1>1, TurnFacts
<1>3. PICK s, D : /\ Ends(s, D) /\ KeepsStopped(Talk!State, s) /\ (Talk!Finish(s) \/ Talk!CallAgain(s))
    <2>1. PICK withOutput \in BOOLEAN, more \in 0..1 :
              LET s == IF withOutput THEN Talk!Completed(more) ELSE Talk!State
              IN /\ withOutput \/ Talk!NotDone = {} \/ ~decoder.message
                 /\ Talk!Finish(s) \/ Talk!CallAgain(s)
        BY DEF Talk!Complete
    <2>2. CASE withOutput
        <3>1. PICK s : s = Talk!Completed(more)
            OBVIOUS
        <3>2. StateOK(s, items, 1..Len(items)) /\ KeepsStopped(Talk!State, s)
            BY <1>2, <3>1, CompletedOK
        <3>3. Ends(s, 1..Len(items))
            BY <1>2, <3>2 DEF Ends
        <3>4. Talk!Finish(s) \/ Talk!CallAgain(s)
            BY <2>1, <2>2, <3>1
        <3> QED BY <3>2, <3>3, <3>4
    <2>3. CASE ~withOutput
        <3>1. PICK s : s = Talk!State
            OBVIOUS
        <3>2. s.decoder.message => DoneItems = 1..Len(items)
            <4>1. s.decoder.message => Talk!NotDone = {}
                BY <2>1, <2>3, <3>1 DEF Talk!State
            <4>2. DOMAIN items = 1..Len(items)
                BY <1>2, LenProperties DEF Items
            <4> QED BY <4>1, <4>2 DEF DoneItems, Talk!NotDone
        <3>3. StateOK(s, items, DoneItems) /\ KeepsStopped(Talk!State, s)
            BY <1>2, <3>1, KeepsSelf
        <3>4. Ends(s, DoneItems)
            BY <1>2, <3>2, <3>3 DEF Ends
        <3>5. Talk!Finish(s) \/ Talk!CallAgain(s)
            BY <2>1, <2>3, <3>1
        <3> QED BY <3>3, <3>4, <3>5
    <2> QED BY <2>2, <2>3
<1>4. BlocksOK(s) /\ s \in Progress /\ s.blocks \in Seq(Block) /\ blocks \in Seq(Block)
    BY <1>2, <1>3 DEF Ends, StateOK, BlocksOK, Progress, Talk!State
<1>5. /\ DOMAIN blocks = 1..Len(blocks) /\ Len(blocks) <= Len(s.blocks) /\ Len(blocks) \in Nat
      /\ \A b \in 1..Len(blocks) : b \in 1..Len(s.blocks) /\ (~blocks[b].open => s.blocks[b] = blocks[b])
    <2>1. Talk!State.blocks = blocks
        BY DEF Talk!State
    <2> QED BY <1>3, <1>4, <2>1, LenProperties DEF KeepsStopped
<1>6. CASE Talk!Finish(s)
    <2>1. /\ \E r \in Record : records' = <<r>> \o records
                                /\ r = [scope |-> scope, start |-> Len(Talk!Shown(log)), output |-> whole'.output,
                                        prefix |-> Talk!Shown(log) \o Talk!VisibleOutput(Talk!Echo(blocks').text, Talk!Echo(blocks').tools)]
          /\ step' = "captured" /\ log' = log /\ items' = items /\ calls' = calls
          /\ Whole(whole') /\ blocks' \in Seq(Block) /\ \A b \in 1..Len(blocks') : ~blocks'[b].open
          /\ Talk!Xs(Talk!Echo(blocks').text) = Len(whole'.text) /\ Talk!Echo(blocks').tools = whole'.tools
          /\ streaming => blocks' = Talk!CloseOpen(s).blocks
        BY <1>2, <1>3, <1>6, Finishing
    <2>2. PICK r \in Record : records' = <<r>> \o records
                              /\ r = [scope |-> scope, start |-> Len(Talk!Shown(log)), output |-> whole'.output,
                                      prefix |-> Talk!Shown(log) \o Talk!VisibleOutput(Talk!Echo(blocks').text, Talk!Echo(blocks').tools)]
        BY <2>1
    <2>3. PICK n \in Nat : LogOK(log, records, n, n) /\ Len(log) = 2 * n + 1
        BY <1>1 DEF TurnInv, TurnLog
    <2>4. LogOK(log, records', n, n + 1) /\ records'[1] = r /\ records' # <<>>
        <3>1. LogOK(log, <<r>> \o records, n, n + 1) /\ (<<r>> \o records)[1] = r /\ <<r>> \o records # <<>>
            BY <2>3, LogSave
        <3> QED BY <2>2, <3>1
    <2>5. TurnLog'
        BY <2>1, <2>3, <2>4 DEF TurnLog
    <2>6. Captured'
        <3>1. Talk!Shown(log)' = Talk!Shown(log)
            BY <2>1
        <3>2. (Arriving.visible)' = Talk!VisibleOutput(Talk!Echo(blocks').text, Talk!Echo(blocks').tools)
            BY DEF Arriving
        <3>3. records'[1] = [scope |-> scope', start |-> Len(Talk!Shown(log)'), output |-> whole'.output,
                             prefix |-> Talk!Shown(log)' \o (Arriving.visible)']
            BY <1>1, <2>2, <2>4, <3>1, <3>2
        <3> QED BY <2>1, <2>4, <3>3 DEF Captured
    <2>7. TurnAnswer'
        <3>1. whole' \in Completion
            BY <2>1 DEF Whole
        <3> QED BY <1>1, <1>2, <2>1, <2>6, <3>1 DEF TurnAnswer
    <2>8. Seen
        <3>1. SUFFICES ASSUME streaming, NEW b \in 1..Len(blocks), ~blocks[b].open PROVE blocks'[b] = blocks[b]
            BY <1>5 DEF Seen
        <3>2. PICK c : c = Talk!CloseOpen(s)
            OBVIOUS
        <3>3. KeepsStopped(s, c)
            BY <1>4, <3>2, Closing
        <3>4. s.blocks[b] = blocks[b] /\ b \in 1..Len(s.blocks)
            BY <1>5, <3>1
        <3>5. c.blocks[b] = s.blocks[b]
            BY <3>1, <3>3, <3>4 DEF KeepsStopped
        <3> QED BY <2>1, <3>1, <3>2, <3>4, <3>5
    <2> QED BY <2>5, <2>7, <2>8 DEF TurnInv
<1>7. CASE Talk!CallAgain(s)
    <2>1. /\ Whole(whole') /\ items' = <<>> /\ calls' \in Nat /\ StateOK(Talk!State, items, DoneItems)'
          /\ log' = log /\ records' = records /\ step' = step
          /\ blocks' = s.blocks
        BY <1>1, <1>3, <1>7, Again
    <2>2. TurnLog'
        BY <1>1, <2>1, SameLog
    <2>3. TurnAnswer'
        <3>1. whole' \in Completion /\ items' \in Items
            BY <2>1 DEF Whole, Items
        <3> QED BY <1>1, <1>2, <2>1, <3>1 DEF TurnAnswer
    <2>4. Seen
        BY <1>5, <2>1 DEF Seen
    <2> QED BY <2>2, <2>3, <2>4 DEF TurnInv
<1> QED BY <1>3, <1>6, <1>7

\* The client asks again as if it had not asked.
LEMMA UnaskedStep ==
    ASSUME TurnInv, step # "ask", Talk!Unasked, records' = records, turn' = turn, forks' = forks
    PROVE  TurnInv'
<1>1. log' = Talk!Front(log) /\ step' = "ask" /\ Talk!NoAnswer' /\ scope' = NoScope /\ streaming' = FALSE
    BY DEF Talk!Unasked, Talk!Over, Talk!NoAnswer
<1>2. PICK n \in Nat, m \in Nat : LogOK(log, records, n, m) /\ Len(log) = 2 * n + 1
    BY DEF TurnInv, TurnLog, LogOK
<1>3. Len(log) - 1 = 2 * n /\ n \in 0..n
    BY <1>2
<1>4. LogOK(SubSeq(log, 1, 2 * n), records, n, n) /\ Len(SubSeq(log, 1, 2 * n)) = 2 * n
    BY <1>2, <1>3, LogCut
<1>5. log' = SubSeq(log, 1, 2 * n)
    BY <1>1, <1>3 DEF Talk!Front
<1>6. TurnLog'
    BY <1>1, <1>4, <1>5 DEF TurnLog
<1>7. /\ Whole(whole') /\ items' \in Items /\ calls' \in Nat
    BY <1>1, Starting
<1>8. TurnAnswer'
    <2>1. turn \in Nat /\ forks \in Nat /\ whole' \in Completion
        BY <1>7, TurnFacts DEF Whole
    <2> QED BY <1>1, <1>7, <2>1 DEF TurnAnswer
<1> QED BY <1>6, <1>8 DEF TurnInv

LEMMA FailStep ==
    ASSUME TurnInv, Talk!Fail
    PROVE  TurnInv'
<1>1. step # "ask" /\ Talk!Unasked /\ records' = records /\ turn' = turn /\ forks' = forks
    BY DEF Talk!Fail, Talk!Answering, Talk!bounds
<1> QED BY <1>1, UnaskedStep

LEMMA LoseStep ==
    ASSUME TurnInv, Talk!Lose
    PROVE  TurnInv'
<1>1. step # "ask" /\ Talk!Unasked /\ records' = records /\ turn' = turn /\ forks' = forks
    BY DEF Talk!Lose, Talk!bounds
<1> QED BY <1>1, UnaskedStep

LEMMA ArriveStep ==
    ASSUME TurnInv, Talk!Arrive
    PROVE  TurnInv'
<1>1. /\ step = "captured" /\ log' = Append(log, Arriving) /\ step' = "ask" /\ Talk!NoAnswer' /\ scope' = NoScope
      /\ streaming' = FALSE /\ records' = records /\ turn' = turn /\ forks' = forks
    BY DEF Talk!Arrive, Talk!Over, Talk!NoAnswer, Talk!bounds, Arriving
<1>2. Captured /\ scope \in Scopes /\ log \in Seq(Entry) /\ turn \in Nat /\ forks \in Nat
    BY <1>1, TurnFacts
<1>3. PICK n \in Nat : LogOK(log, records, n, n + 1) /\ Len(log) = 2 * n + 1
    BY <1>1 DEF TurnInv, TurnLog
<1>4. AnswerEntry(Arriving) /\ Arriving.who = scope /\ Arriving.native = whole.output
    <2>1. blocks \in Seq(Block) /\ Talk!Echo(blocks).tools = whole.tools /\ whole.tools \in Seq(Tool)
          /\ whole.output \in Seq(Raw)
        BY <1>2 DEF Captured, Whole, Completion
    <2>2. Talk!Echo(blocks).text \in Text
        BY <2>1, EchoFacts DEF Echoed
    <2>3. PICK v \in Seq(Visibles) : v = Talk!VisibleOutput(Talk!Echo(blocks).text, Talk!Echo(blocks).tools)
        BY <2>1, <2>2, VisibleOutputType
    <2>4. whole.output \in Seq(Natives)
        <3>1. Raw \subseteq Natives
            BY DEF Natives
        <3> QED BY <2>1, <3>1, SeqMonotonic
    <2>5. Arriving = [who |-> scope, visible |-> v, native |-> whole.output]
        BY <2>3 DEF Arriving
    <2> QED BY <1>2, <2>4, <2>5 DEF AnswerEntry, Entry
<1>5. records[1] = RecordOf(Append(log, Arriving), 2 * (n + 1))
    <2>1. PICK e \in Entry : e = Arriving
        BY <1>4 DEF AnswerEntry
    <2>2. PICK k : k = Append(log, e)
        OBVIOUS
    <2>3. PICK m \in Nat : m = Len(log)
        BY <1>2, LenProperties
    <2>4. k \in Seq(Entry) /\ Len(k) = m + 1 /\ Agree(log, k, m) /\ k[m + 1] = e
        BY <1>2, <2>2, <2>3, AppendAgrees
    <2>5. Upto(k, m) = Talk!Shown(log) /\ Upto(k, m + 1) = Talk!Shown(log) \o e.visible
        <3>1. Upto(log, m) = Talk!Shown(log)
            BY <1>2, <2>3, UptoFacts
        <3>2. Upto(k, m) = Upto(log, m)
            BY <2>4, SameCuts, ZenonT(60) DEF Upto
        <3>3. Upto(k, m + 1) = Talk!Shown(k)
            BY <2>4, UptoFacts
        <3>4. Talk!Shown(k) = Talk!Shown(log) \o e.visible
            BY <1>2, <2>2, ShownFacts
        <3> QED BY <3>1, <3>2, <3>3, <3>4
    <2>6. RecordOf(k, m + 1) = [scope |-> e.who, start |-> Len(Talk!Shown(log)), output |-> e.native,
                                prefix |-> Talk!Shown(log) \o e.visible]
        <3>1. (m + 1) - 1 = m
            BY <2>3
        <3> QED BY <2>4, <2>5, <3>1 DEF RecordOf
    <2>7. m + 1 = 2 * (n + 1)
        BY <1>3, <2>3
    <2>8. records[1] = [scope |-> e.who, start |-> Len(Talk!Shown(log)), output |-> e.native,
                        prefix |-> Talk!Shown(log) \o e.visible]
        BY <1>2, <1>4, <2>1 DEF Captured
    <2> QED BY <2>1, <2>2, <2>6, <2>7, <2>8
<1>6. LogOK(log', records, n + 1, n + 1) /\ Len(log') = 2 * (n + 1)
    BY <1>1, <1>3, <1>4, <1>5, LogArrive
<1>7. TurnLog'
    <2>1. n + 1 \in Nat
        BY <1>3
    <2> QED BY <1>1, <1>6, <2>1 DEF TurnLog
<1>8. TurnAnswer'
    <2>1. /\ Whole(whole') /\ items' \in Items /\ calls' \in Nat
        BY <1>1, Starting
    <2>2. whole' \in Completion
        BY <2>1 DEF Whole
    <2> QED BY <1>1, <1>2, <2>1, <2>2 DEF TurnAnswer
<1> QED BY <1>7, <1>8 DEF TurnInv

LEMMA TurnStays ==
    ASSUME TurnInv, UNCHANGED Talk!vars
    PROVE  TurnInv'
<1>1. /\ log' = log /\ records' = records /\ step' = step /\ turn' = turn /\ scope' = scope
      /\ streaming' = streaming /\ items' = items /\ decoder' = decoder /\ whole' = whole
      /\ projection' = projection /\ blocks' = blocks /\ open' = open /\ calls' = calls /\ forks' = forks
    BY DEF Talk!vars
<1>2. TurnLog'
    BY <1>1 DEF TurnInv, TurnLog
<1>3. TurnAnswer'
    BY <1>1 DEF TurnInv, TurnAnswer, Talk!NoAnswer, Captured, Arriving, StateOK, DoneItems, Talk!State, Talk!Shown
<1> QED BY <1>2, <1>3 DEF TurnInv

LEMMA TurnStep == TurnInv /\ [Talk!Next]_Talk!vars => TurnInv'
<1> SUFFICES ASSUME TurnInv, [Talk!Next]_Talk!vars PROVE TurnInv'
    OBVIOUS
<1>1. CASE UNCHANGED Talk!vars
    BY <1>1, TurnStays
<1>2. CASE Talk!Ask
    BY <1>2, AskStep
<1>3. CASE Talk!Fork
    BY <1>3, ForkStep
<1>4. CASE Talk!ItemAdded
    BY <1>4, ItemAddedStep
<1>5. CASE Talk!Delta
    BY <1>5, DeltaSteps
<1>6. CASE Talk!ItemDone
    BY <1>6, ItemDoneStep
<1>7. CASE Talk!Complete
    BY <1>7, CompleteStep
<1>8. CASE Talk!Fail
    BY <1>8, FailStep
<1>9. CASE Talk!Arrive
    BY <1>9, ArriveStep
<1>10. CASE Talk!Lose
    BY <1>10, LoseStep
<1> QED BY <1>1, <1>2, <1>3, <1>4, <1>5, <1>6, <1>7, <1>8, <1>9, <1>10 DEF Talk!Next

LEMMA OneOpen ==
    ASSUME NEW bs \in Seq(Block), NEW o, \A b \in 1..Len(bs) : bs[b].open => b = o
    PROVE  Cardinality({b \in DOMAIN bs : bs[b].open}) <= 1
<1> DEFINE B == {b \in DOMAIN bs : bs[b].open}
<1>1. DOMAIN bs = 1..Len(bs)
    BY LenProperties
<1>2. B = {} \/ B = {o}
    BY <1>1
<1> HIDE DEF B
<1>3. Cardinality({}) = 0 /\ Cardinality({o}) = 1
    BY FS_EmptySet, FS_Singleton
<1>4. Cardinality(B) = 0 \/ Cardinality(B) = 1
    BY <1>2, <1>3, Zenon
<1>5. Cardinality(B) <= 1
    BY <1>4
<1> QED BY <1>5 DEF B

\* What Talk counts, Cardinality counts.
LEMMA SameCardinality == ASSUME NEW S PROVE Talk!Cardinality(S) = Cardinality(S)
BY DEF Talk!Cardinality, Cardinality

THEOREM TurnInvariant == TurnSpec => []TurnInv
<1>1. Talk!Init => TurnInv
    BY TurnInit
<1>2. TurnInv /\ [Talk!Next]_Talk!vars => TurnInv'
    BY TurnStep
<1> QED BY <1>1, <1>2, PTL DEF TurnSpec, Talk!Spec

LEMMA BlockByBlock ==
    ASSUME TurnInv, TurnInv', Talk!Next, step # "ask", step' # "ask"
    PROVE  /\ Cardinality({b \in DOMAIN blocks' : blocks'[b].open}) <= 1
           /\ \A b \in DOMAIN blocks : streaming /\ ~blocks[b].open => blocks'[b] = blocks[b]
<1>1. Seen
    <2>1. ~Talk!Ask /\ ~Talk!Fork /\ ~Talk!Fail /\ ~Talk!Arrive /\ ~Talk!Lose
        BY DEF Talk!Ask, Talk!Fork, Talk!Fail, Talk!Arrive, Talk!Lose, Talk!Unasked, Talk!Over
    <2> QED BY <2>1, ItemAddedStep, DeltaSteps, ItemDoneStep, CompleteStep DEF Talk!Next
<1>2. Cardinality({b \in DOMAIN blocks' : blocks'[b].open}) <= 1
    <2>1. step' \in {"answer", "captured"}
        BY DEF TurnInv, TurnAnswer
    <2>2. CASE step' = "answer"
        <3>1. BlocksOK(Talk!State')
            BY <2>2 DEF TurnInv, TurnAnswer, StateOK
        <3>2. PICK s : s = Talk!State'
            OBVIOUS
        <3>3. s.blocks = blocks'
            BY <3>2 DEF Talk!State
        <3>4. s.blocks \in Seq(Block) /\ \A b \in 1..Len(s.blocks) : s.blocks[b].open => b = s.open
            BY <3>1, <3>2 DEF BlocksOK, Progress
        <3> QED BY <3>3, <3>4, OneOpen
    <2>3. CASE step' = "captured"
        <3>1. blocks' \in Seq(Block) /\ \A b \in 1..Len(blocks') : ~blocks'[b].open
            BY <2>3 DEF TurnInv, TurnAnswer, Captured
        <3>2. PICK bs : bs = blocks'
            OBVIOUS
        <3>3. bs \in Seq(Block) /\ \A b \in 1..Len(bs) : bs[b].open => b = 0
            BY <3>1, <3>2
        <3> QED BY <3>2, <3>3, OneOpen
    <2> QED BY <2>1, <2>2, <2>3
<1> QED BY <1>1, <1>2 DEF Seen

(* However the items of an answer overlap upstream, the client sees one     *)
(* block after another, and none changes once it was stopped.               *)
THEOREM BlocksInOrder == TurnSpec => OneBlockAtATime
<1> DEFINE A == step' # "ask" /\ step # "ask" =>
                    /\ Talk!Cardinality({b \in DOMAIN blocks' : blocks'[b].open}) <= 1
                    /\ \A b \in DOMAIN blocks : streaming /\ ~blocks[b].open => blocks'[b] = blocks[b]
<1>1. TurnInv /\ TurnInv' /\ [Talk!Next]_Talk!vars => [A]_Talk!vars
    BY BlockByBlock, SameCardinality
<1>2. TurnSpec => [][Talk!Next]_Talk!vars
    BY PTL DEF TurnSpec, Talk!Spec
<1>3. TurnSpec => [][A]_Talk!vars
    BY <1>1, <1>2, TurnInvariant, PTL
<1> QED BY <1>3, PTL DEF OneBlockAtATime, Talk!OneBlockAtATime

LEMMA EchoIsSaid == TurnInv => EchoMatches
<1> SUFFICES ASSUME TurnInv PROVE EchoMatches
    OBVIOUS
<1>1. ASSUME step = "captured"
      PROVE  /\ Talk!Xs(Talk!Echo(blocks).text) = Talk!Total([i \in DOMAIN whole.output |->
                    IF whole.output[i].type = "message" THEN whole.output[i].n ELSE 0])
             /\ Talk!Echo(blocks).tools = whole.tools
    <2>1. Captured
        BY <1>1, TurnFacts
    <2>2. Len(whole.text) = Told(whole.output) /\ whole.output \in Seq(Raw)
        BY <2>1 DEF Captured, Whole, Completion
    <2>3. DOMAIN whole.output = 1..Len(whole.output)
        BY <2>2, LenProperties
    <2>4. Told(whole.output) = Talk!Total([i \in DOMAIN whole.output |->
                    IF whole.output[i].type = "message" THEN whole.output[i].n ELSE 0])
        BY <2>3, SameLists DEF Told, Said
    <2> QED BY <2>1, <2>2, <2>4 DEF Captured
<1>2. ASSUME step = "ask", log # <<>>, Talk!Last(log).who # "client"
      PROVE  \E k \in DOMAIN records : records[k].scope = Talk!Last(log).who /\ records[k].prefix = Talk!Visible
    <2>1. PICK n \in Nat : LogOK(log, records, n, n) /\ Len(log) = 2 * n
        BY <1>2 DEF TurnInv, TurnLog
    <2>2. log \in Seq(Entry) /\ records \in Seq(Record)
        BY TurnFacts
    <2>3. n \in 1..n
        <3>1. Len(log) # 0
            BY <1>2, <2>2, EmptySeq
        <3> QED BY <2>1, <3>1
    <2>4. PICK k \in 1..Len(records) : records[k] = RecordOf(log, 2 * n)
        BY <2>1, <2>3 DEF LogOK
    <2>5. Upto(log, 2 * n) = Talk!Shown(log)
        BY <2>1, <2>2, UptoFacts
    <2>6. records[k].scope = log[2 * n].who /\ records[k].prefix = Talk!Shown(log)
        BY <2>4, <2>5 DEF RecordOf
    <2>7. k \in DOMAIN records
        BY <2>2, <2>4, LenProperties
    <2> QED BY <2>1, <2>6, <2>7 DEF Talk!Last, Talk!Visible
<1> QED BY <1>1, <1>2 DEF EchoMatches, Talk!EchoMatches

(* The client has the text and the arguments of an answer once, and its     *)
(* echo of one that arrived fits the record saved for it.                   *)
THEOREM EchoFits == TurnSpec => []EchoMatches
BY TurnInvariant, EchoIsSaid, PTL

-----------------------------------------------------------------------------
(* What is restored.                                                        *)

\* A record the request may use.
Usable(k, s, input) ==
    /\ k \in 1..Len(records) /\ records[k] \in Record /\ records[k].scope = s
    /\ Talk!IsPrefix(records[k].prefix, input)

Fitting(s, input, at) == {k \in 1..Len(records) : Usable(k, s, input) /\ records[k].start = at}

LEMMA MatchFacts ==
    ASSUME records \in Seq(Record), NEW s, NEW input, NEW at \in Nat
    PROVE  /\ Talk!Match(s, input, at) = 0 <=> Fitting(s, input, at) = {}
           /\ Talk!Match(s, input, at) # 0 => Talk!Match(s, input, at) \in Fitting(s, input, at)
<1> DEFINE fit == {k \in Talk!Load(s) : records[k].start = at /\ Talk!Fits(records[k], s, input)}
<1>1. DOMAIN records = 1..Len(records) /\ \A j \in 1..Len(records) : records[j] \in Record
    BY LenProperties, ElementOfSeq
<1>2. fit = Fitting(s, input, at)
    BY <1>1 DEF Talk!Load, Talk!Fits, Usable, Fitting
<1>3. Talk!Match(s, input, at) = IF fit = {} THEN 0 ELSE CHOOSE k \in fit : \A j \in fit : k <= j
    BY DEF Talk!Match
<1>4. 0 \notin fit
    BY <1>2 DEF Fitting
<1> HIDE DEF fit
<1>5. ASSUME fit # {} PROVE (CHOOSE k \in fit : \A j \in fit : k <= j) \in fit
    <2>1. fit \subseteq Nat
        BY <1>2 DEF Fitting
    <2>2. \E k \in fit : \A j \in fit : k <= j
        BY <1>5, <2>1, Least
    <2> QED BY <2>2
<1>6. CASE fit = {}
    BY <1>2, <1>3, <1>6
<1>7. CASE fit # {}
    <2>1. Talk!Match(s, input, at) \in fit
        BY <1>3, <1>5, <1>7
    <2> QED BY <1>2, <1>4, <1>7, <2>1
<1> QED BY <1>6, <1>7

\* What may go upstream: what the client shows, and what usable records hold.
Good(s, input) ==
    {x \in Natives : x \in Visibles \/ \E k \in 1..Len(records) :
                          Usable(k, s, input) /\ \E i \in 1..Len(records[k].output) : records[k].output[i] = x}

LEMMA GoodFacts ==
    ASSUME NEW s, NEW input \in Seq(Visibles)
    PROVE  /\ \A i \in 1..Len(input) : <<input[i]>> \in Seq(Good(s, input))
           /\ \A k : Usable(k, s, input) =>
                  /\ records[k].output \in Seq(Good(s, input))
                  /\ Len(records[k].prefix) \in Nat /\ Len(records[k].prefix) <= Len(input)
<1>1. \A i \in 1..Len(input) : input[i] \in Visibles
    BY ElementOfSeq
<1>2. \A i \in 1..Len(input) : input[i] \in Good(s, input)
    BY <1>1 DEF Good, Natives
<1>3. ASSUME NEW k, Usable(k, s, input)
      PROVE  records[k].output \in Seq(Good(s, input)) /\ Len(records[k].prefix) \in Nat /\ Len(records[k].prefix) <= Len(input)
    <2>1. records[k].output \in Seq(Raw) /\ records[k].prefix \in Seq(Visibles)
        BY <1>3 DEF Usable, Record
    <2>2. PICK o : o = records[k].output
        OBVIOUS
    <2>3. o \in Seq(Raw) /\ Len(o) \in Nat /\ \A i \in 1..Len(o) : o[i] \in Raw
        BY <2>1, <2>2, LenProperties, ElementOfSeq
    <2>4. \A i \in 1..Len(o) : o[i] \in Good(s, input)
        BY <1>3, <2>2, <2>3 DEF Good, Natives, Usable
    <2>5. o \in [1..Len(o) -> Good(s, input)]
        BY <2>3, <2>4, LenProperties
    <2>6. o \in Seq(Good(s, input))
        BY <2>3, <2>5, AsList
    <2>7. Len(records[k].prefix) <= Len(input)
        BY <1>3 DEF Usable, Talk!IsPrefix
    <2> QED BY <2>1, <2>2, <2>6, <2>7, LenProperties
<1>4. \A x \in Good(s, input) : <<x>> \in Seq(Good(s, input))
    OBVIOUS
<1> QED BY <1>2, <1>3, <1>4

\* native from the item at on.
From(f, s, input, at) ==
    LET k == Talk!Match(s, input, at)
    IN IF k # 0 /\ Len(records[k].prefix) > at THEN records[k].output \o f[Len(records[k].prefix)]
       ELSE (IF k # 0 THEN records[k].output ELSE <<>>)
            \o (IF at = Len(input) THEN <<>> ELSE <<input[at + 1]>> \o f[at + 1])

LEMMA FromLater ==
    ASSUME records \in Seq(Record), NEW s, NEW input \in Seq(Visibles), NEW at \in 0..Len(input),
           NEW f, NEW g, \A i \in (at + 1)..Len(input) : f[i] = g[i]
    PROVE  From(f, s, input, at) = From(g, s, input, at)
<1> DEFINE k == Talk!Match(s, input, at)
<1>1. Len(input) \in Nat /\ at \in Nat
    BY LenProperties
<1>2. k # 0 => Usable(k, s, input)
    BY <1>1, MatchFacts DEF Fitting
<1> HIDE DEF k
<1>3. k # 0 /\ Len(records[k].prefix) > at => f[Len(records[k].prefix)] = g[Len(records[k].prefix)]
    <2>1. k # 0 => Len(records[k].prefix) \in Nat /\ Len(records[k].prefix) <= Len(input)
        BY <1>2, GoodFacts
    <2>2. k # 0 /\ Len(records[k].prefix) > at => Len(records[k].prefix) \in (at + 1)..Len(input)
        BY <1>1, <2>1
    <2> QED BY <2>2
<1>4. at # Len(input) => f[at + 1] = g[at + 1]
    <2>1. at # Len(input) => at + 1 \in (at + 1)..Len(input)
        BY <1>1
    <2> QED BY <2>1
<1> QED BY <1>3, <1>4 DEF From, k

LEMMA FromGood ==
    ASSUME records \in Seq(Record), NEW s, NEW input \in Seq(Visibles), NEW at \in 0..Len(input),
           NEW f, \A i \in (at + 1)..Len(input) : f[i] \in Seq(Good(s, input))
    PROVE  From(f, s, input, at) \in Seq(Good(s, input))
<1> DEFINE k == Talk!Match(s, input, at)
           e == Len(records[k].prefix)
<1>1. Len(input) \in Nat /\ at \in Nat
    BY LenProperties
<1>2. k # 0 => Usable(k, s, input)
    BY <1>1, MatchFacts DEF Fitting
<1> HIDE DEF k
<1>3. k # 0 => records[k].output \in Seq(Good(s, input)) /\ e \in Nat /\ e <= Len(input)
    BY <1>2, GoodFacts
<1>4. PICK o \in Seq(Good(s, input)) : o = IF k # 0 THEN records[k].output ELSE <<>>
    BY <1>3, EmptySeq
<1>5. CASE k # 0 /\ e > at
    <2>1. e \in (at + 1)..Len(input)
        BY <1>1, <1>3, <1>5
    <2>2. f[e] \in Seq(Good(s, input))
        BY <2>1
    <2>3. o \o f[e] \in Seq(Good(s, input))
        BY <1>4, <2>2, ConcatProperties
    <2> QED BY <1>4, <1>5, <2>3 DEF From, k
<1>6. CASE ~(k # 0 /\ e > at)
    <2>1. PICK r \in Seq(Good(s, input)) : r = IF at = Len(input) THEN <<>> ELSE <<input[at + 1]>> \o f[at + 1]
        <3>1. CASE at = Len(input)
            BY <3>1, EmptySeq
        <3>2. CASE at # Len(input)
            <4>1. at + 1 \in (at + 1)..Len(input) /\ at + 1 \in 1..Len(input)
                BY <1>1, <3>2
            <4>2. <<input[at + 1]>> \in Seq(Good(s, input)) /\ f[at + 1] \in Seq(Good(s, input))
                BY <4>1, GoodFacts
            <4>3. <<input[at + 1]>> \o f[at + 1] \in Seq(Good(s, input))
                BY <4>2, ConcatProperties
            <4> QED BY <3>2, <4>3
        <3> QED BY <3>1, <3>2
    <2>2. From(f, s, input, at) = o \o r
        BY <1>4, <1>6, <2>1 DEF From, k
    <2> QED BY <1>4, <2>1, <2>2, ConcatProperties
<1> QED BY <1>5, <1>6

Restoring(f, s, input) ==
    f = [at \in 0..Len(input) |->
            LET k == Talk!Match(s, input, at)
            IN IF k # 0 /\ Len(records[k].prefix) > at THEN records[k].output \o f[Len(records[k].prefix)]
               ELSE (IF k # 0 THEN records[k].output ELSE <<>>)
                    \o (IF at = Len(input) THEN <<>> ELSE <<input[at + 1]>> \o f[at + 1])]

LEMMA RestoringExists ==
    ASSUME records \in Seq(Record), NEW s, NEW input \in Seq(Visibles)
    PROVE  \E f : Restoring(f, s, input)
<1> DEFINE N == Len(input)
           S == Seq(Good(s, input))
           DoneBelow(f, n) == /\ f \in [0..N -> S]
                          /\ \A at \in 0..N : at + n > N => f[at] = From(f, s, input, at)
           T == {n \in Nat : n <= N + 1 => \E f : DoneBelow(f, n)}
<1>1. N \in Nat
    BY LenProperties
<1>2. 0 \in T
    <2>1. <<>> \in S
        BY EmptySeq
    <2>2. DoneBelow([at \in 0..N |-> <<>>], 0)
        BY <1>1, <2>1
    <2> QED BY <2>2
<1>3. ASSUME NEW n \in Nat, n \in T, n + 1 <= N + 1 PROVE \E f : DoneBelow(f, n + 1)
    <2>1. PICK f : DoneBelow(f, n)
        BY <1>1, <1>3
    <2> DEFINE p == N - n
               v == From(f, s, input, p)
               g == [f EXCEPT ![p] = v]
    <2>2. p \in 0..N
        BY <1>1, <1>3
    <2>3. v \in S
        <3>1. \A i \in (p + 1)..N : i \in 0..N
            BY <1>1, <2>2
        <3>2. \A i \in (p + 1)..N : f[i] \in S
            BY <2>1, <3>1
        <3> QED BY <2>2, <3>2, FromGood
    <2>4. g \in [0..N -> S] /\ g[p] = v /\ \A at \in 0..N : at # p => g[at] = f[at]
        BY <2>1, <2>2, <2>3
    <2> HIDE DEF g, v
    <2>5. ASSUME NEW at \in 0..N, at + (n + 1) > N PROVE g[at] = From(g, s, input, at)
        <3>1. at >= p /\ \A i \in (at + 1)..N : i \in 0..N /\ i # p
            BY <1>1, <1>3, <2>5
        <3>2. \A i \in (at + 1)..N : f[i] = g[i]
            BY <2>4, <3>1
        <3>3. From(f, s, input, at) = From(g, s, input, at)
            BY <3>2, FromLater
        <3>4. CASE at = p
            BY <2>4, <3>3, <3>4 DEF v
        <3>5. CASE at # p
            <4>1. at + n > N
                BY <1>1, <3>1, <3>5
            <4> QED BY <2>1, <2>4, <3>3, <3>5, <4>1
        <3> QED BY <3>4, <3>5
    <2> QED BY <2>4, <2>5
<1> HIDE DEF DoneBelow
<1>4. \A n \in Nat : n \in T => n + 1 \in T
    <2>1. TAKE n \in Nat
    <2>2. n + 1 \in Nat
        OBVIOUS
    <2> QED BY <1>3, <2>2
<1> HIDE DEF T
<1>5. Nat \subseteq T
    BY <1>2, <1>4, NumberInduction
<1>6. PICK f : DoneBelow(f, N + 1)
    <2>1. N + 1 \in Nat /\ N + 1 <= N + 1
        BY <1>1
    <2> QED BY <1>5, <2>1 DEF T
<1>7. f \in [0..N -> S] /\ \A at \in 0..N : f[at] = From(f, s, input, at)
    BY <1>1, <1>6 DEF DoneBelow
<1>8. f = [at \in 0..N |-> From(f, s, input, at)]
    BY <1>7, SMTT(40)
<1>9. Restoring(f, s, input)
    BY <1>8 DEF Restoring, From
<1> QED BY <1>9

\* The function Restore takes its result from.
Native(f, s, input) ==
    /\ \A at \in 0..Len(input) : f[at] = From(f, s, input, at)
    /\ \A at \in 0..Len(input) : f[at] \in Seq(Good(s, input))

LEMMA RestoreIs ==
    ASSUME records \in Seq(Record), NEW s, NEW input \in Seq(Visibles)
    PROVE  \E f : Native(f, s, input) /\ Talk!Restore(s, input) = f[0]
<1> DEFINE N == Len(input)
           c == CHOOSE f : Restoring(f, s, input)
<1>1. N \in Nat
    BY LenProperties
<1>2. Restoring(c, s, input)
    BY RestoringExists, SMTT(40)
<1>3. Talk!Restore(s, input) = c[0]
    BY DEF Talk!Restore, Restoring
<1> HIDE DEF c
<1>4. \A at \in 0..N : c[at] = From(c, s, input, at)
    BY <1>2 DEF Restoring, From
<1> DEFINE T == {n \in Nat : \A at \in 0..N : at + n > N => c[at] \in Seq(Good(s, input))}
<1>5. 0 \in T
    BY <1>1
<1>6. ASSUME NEW n \in Nat, n \in T PROVE n + 1 \in T
    <2>1. ASSUME NEW at \in 0..N, at + (n + 1) > N PROVE c[at] \in Seq(Good(s, input))
        <3>1. \A i \in (at + 1)..N : i \in 0..N /\ i + n > N
            BY <1>1, <2>1
        <3>2. \A i \in (at + 1)..N : c[i] \in Seq(Good(s, input))
            BY <1>6, <3>1
        <3>3. From(c, s, input, at) \in Seq(Good(s, input))
            BY <3>2, FromGood
        <3> QED BY <1>4, <3>3
    <2> QED BY <2>1
<1> HIDE DEF T
<1>7. Nat \subseteq T
    BY <1>5, <1>6, NumberInduction
<1>8. \A at \in 0..N : c[at] \in Seq(Good(s, input))
    <2>1. N + 1 \in T
        BY <1>1, <1>7
    <2>2. \A at \in 0..N : at + (N + 1) > N
        BY <1>1
    <2> QED BY <2>1, <2>2 DEF T
<1>9. Native(c, s, input)
    BY <1>4, <1>8 DEF Native
<1> QED BY <1>3, <1>9

LEMMA GoodTurn ==
    ASSUME NEW s, NEW input, NEW x \in Good(s, input), "turn" \in DOMAIN x
    PROVE  \E k \in 1..Len(records) : Usable(k, s, input) /\ \E i \in 1..Len(records[k].output) : records[k].output[i] = x
<1>1. ASSUME NEW v \in Visibles PROVE "turn" \notin DOMAIN v
    <2>1. CASE v \in [type : {"user"}, n : Nat]
        BY <2>1
    <2>2. CASE v \in [type : {"result"}, id : Id]
        BY <2>2
    <2>3. CASE v \in [type : {"message"}, text : Text]
        BY <2>3
    <2>4. CASE v \in [type : {"call"}, id : Id, n : Nat]
        BY <2>4
    <2> QED BY <2>1, <2>2, <2>3, <2>4 DEF Visibles
<1> QED BY <1>1 DEF Good

\* Where no record takes over.
LEMMA Onward ==
    ASSUME NEW s, NEW input \in Seq(Visibles), NEW f, Native(f, s, input), NEW at \in 0..Len(input)
    PROVE  /\ f[at] \in Seq(Natives)
           /\ Talk!Match(s, input, at) = 0 /\ at # Len(input) =>
                  /\ f[at] = Join(<<input[at + 1]>>, f[at + 1])
                  /\ <<input[at + 1]>> \in Seq(Natives) /\ f[at + 1] \in Seq(Natives)
           /\ Talk!Match(s, input, at) = 0 /\ at = Len(input) => f[at] = <<>>
<1>1. Len(input) \in Nat
    BY LenProperties
<1>2. Good(s, input) \subseteq Natives
    BY DEF Good
<1>3. \A i \in 0..Len(input) : f[i] \in Seq(Natives)
    BY <1>2, SeqMonotonic DEF Native
<1>4. f[at] = From(f, s, input, at)
    BY DEF Native
<1>5. ASSUME Talk!Match(s, input, at) = 0, at # Len(input)
      PROVE  /\ f[at] = Join(<<input[at + 1]>>, f[at + 1])
             /\ <<input[at + 1]>> \in Seq(Natives) /\ f[at + 1] \in Seq(Natives)
    <2>1. at + 1 \in 0..Len(input) /\ at + 1 \in 1..Len(input)
        BY <1>1, <1>5
    <2>2. PICK e : e = <<input[at + 1]>>
        OBVIOUS
    <2>3. e \in Seq(Natives)
        BY <1>2, <2>1, <2>2, GoodFacts, SeqMonotonic
    <2>4. PICK r : r = e \o f[at + 1]
        OBVIOUS
    <2>5. r \in Seq(Natives) /\ f[at + 1] \in Seq(Natives)
        BY <1>3, <2>1, <2>3, <2>4, ConcatProperties
    <2>6. f[at] = <<>> \o r
        BY <1>4, <1>5, <2>2, <2>4 DEF From
    <2>7. <<>> \o r = r
        BY <2>5, ConcatEmptySeq
    <2> QED BY <2>2, <2>3, <2>4, <2>5, <2>6, <2>7 DEF Join
<1>6. ASSUME Talk!Match(s, input, at) = 0, at = Len(input) PROVE f[at] = <<>>
    BY <1>4, <1>6 DEF From
<1> QED BY <1>3, <1>5, <1>6

\* A stretch of the input, from the item after a on, in which no record takes over.
Stretch(f, s, input, a, v) ==
    /\ input \in Seq(Visibles) /\ Native(f, s, input) /\ a \in Nat /\ v \in Seq(Visibles)
    /\ v # <<>> /\ a + Len(v) <= Len(input)
    /\ \A i \in 1..Len(v) : input[a + i] = v[i]
    /\ \A at \in (a + 1)..(a + Len(v) - 1) : Talk!Match(s, input, at) = 0

LEMMA Stretches ==
    ASSUME NEW s, NEW input, NEW f, NEW a, NEW v, Stretch(f, s, input, a, v)
    PROVE  Join(<<input[a + 1]>>, f[a + 1]) = Join(v, f[a + Len(v)])
<1> DEFINE OK(w) == Join(<<input[a + 1]>>, f[a + 1]) = Join(w, f[a + Len(w)])
           T == {w \in Seq(Visibles) : Stretch(f, s, input, a, w) => OK(w)}
<1>1. \A p, q, r \in Seq(Natives) : Join(p, Join(q, r)) = Join(Join(p, q), r)
    BY JoinFacts
<1>2. <<>> \in T
    BY EmptySeq DEF Stretch
<1>3. ASSUME NEW w \in Seq(Visibles), NEW e \in Visibles, w \in T, Stretch(f, s, input, a, Append(w, e))
      PROVE  OK(Append(w, e))
    <2>1. PICK u : u = Append(w, e)
        OBVIOUS
    <2>2. PICK m : m = Len(w)
        OBVIOUS
    <2>3. /\ m \in Nat /\ u \in Seq(Visibles) /\ Len(u) = m + 1 /\ u[m + 1] = e /\ \A i \in 1..m : u[i] = w[i]
        BY <2>1, <2>2, AppendProperties, LenProperties
    <2>4. /\ input \in Seq(Visibles) /\ Native(f, s, input) /\ a \in Nat /\ a + (m + 1) <= Len(input)
          /\ \A i \in 1..(m + 1) : input[a + i] = u[i]
          /\ \A at \in (a + 1)..(a + (m + 1) - 1) : Talk!Match(s, input, at) = 0
        BY <1>3, <2>1, <2>3 DEF Stretch
    <2>5. Len(input) \in Nat
        BY <2>4, LenProperties
    <2>6. CASE m = 0
        <3>1. w = <<>>
            BY <2>2, <2>6, EmptySeq
        <3>2. u = <<e>>
            BY <2>1, <3>1
        <3>3. input[a + 1] = e /\ Len(u) = 1
            BY <2>3, <2>4, <2>6
        <3> QED BY <2>1, <3>2, <3>3
    <2>7. CASE m # 0
        <3>1. w # <<>> /\ a + m <= Len(input) /\ a + (m + 1) - 1 = a + m /\ a + m \in (a + 1)..(a + m)
              /\ a + m \in 0..Len(input) /\ a + m # Len(input) /\ (a + m) + 1 = a + (m + 1)
            BY <2>2, <2>3, <2>4, <2>5, <2>7
        <3>2. \A i \in 1..m : i \in 1..(m + 1)
            BY <2>3
        <3>3. \A at \in (a + 1)..(a + m - 1) : at \in (a + 1)..(a + m)
            BY <2>3, <2>4
        <3>4. Stretch(f, s, input, a, w)
            BY <2>2, <2>3, <2>4, <3>1, <3>2, <3>3 DEF Stretch
        <3>5. OK(w)
            BY <1>3, <3>4
        <3>6. Talk!Match(s, input, a + m) = 0
            BY <2>4, <3>1
        <3>7. /\ f[a + m] = Join(<<input[a + (m + 1)]>>, f[a + (m + 1)])
              /\ <<input[a + (m + 1)]>> \in Seq(Natives) /\ f[a + (m + 1)] \in Seq(Natives)
            BY <2>4, <3>1, <3>6, Onward
        <3>8. input[a + (m + 1)] = e
            BY <2>3, <2>4
        <3>9. PICK r \in Seq(Natives), d \in Seq(Natives) : r = f[a + (m + 1)] /\ d = <<e>>
            BY <3>7, <3>8
        <3>10. w \in Seq(Natives)
            BY SeqMonotonic DEF Natives
        <3>11. Join(w, Join(d, r)) = Join(Join(w, d), r)
            BY <1>1, <3>9, <3>10, Zenon
        <3>12. Join(w, d) = u
            BY <2>1, <3>9, AppendIsConcat DEF Join
        <3>13. f[a + m] = Join(d, r)
            BY <3>7, <3>8, <3>9
        <3> QED BY <2>1, <2>2, <2>3, <3>5, <3>9, <3>11, <3>12, <3>13
    <2> QED BY <2>6, <2>7
<1> HIDE DEF OK
<1>4. \A w \in Seq(Visibles), e \in Visibles : w \in T => Append(w, e) \in T
    BY <1>3, AppendProperties
<1> HIDE DEF T
<1>5. Seq(Visibles) \subseteq T
    BY <1>2, <1>4, ListInduction
<1> QED BY <1>5 DEF T, OK, Stretch

\* A stretch in which no record takes over at its first item either.
Passing(f, s, input, a, v, p) ==
    /\ input \in Seq(Visibles) /\ Native(f, s, input) /\ a \in Nat /\ v \in Seq(Visibles)
    /\ p = Len(v) /\ a + p <= Len(input)
    /\ \A i \in 1..p : input[a + i] = v[i]
    /\ \A at \in a..(a + p - 1) : Talk!Match(s, input, at) = 0

LEMMA Passes ==
    ASSUME NEW s, NEW input, NEW f, NEW a, NEW v, NEW p, Passing(f, s, input, a, v, p)
    PROVE  f[a] = Join(v, f[a + p])
<1>1. /\ input \in Seq(Visibles) /\ Native(f, s, input) /\ a \in Nat /\ v \in Seq(Visibles)
      /\ p = Len(v) /\ a + Len(v) <= Len(input)
      /\ \A i \in 1..Len(v) : input[a + i] = v[i]
      /\ \A at \in a..(a + Len(v) - 1) : Talk!Match(s, input, at) = 0
    BY DEF Passing
<1>2. Len(input) \in Nat /\ Len(v) \in Nat
    BY <1>1, LenProperties
<1>3. CASE v = <<>>
    <2>1. Len(v) = 0 /\ a + Len(v) = a /\ a \in 0..Len(input)
        BY <1>1, <1>2, <1>3
    <2>2. f[a] \in Seq(Natives)
        BY <1>1, <2>1, Onward
    <2> QED BY <1>1, <1>3, <2>1, <2>2, ConcatEmptySeq DEF Join
<1>4. CASE v # <<>>
    <2>1. Len(v) # 0
        BY <1>1, <1>4, EmptySeq
    <2>2. a \in 0..Len(input) /\ a # Len(input) /\ a \in a..(a + Len(v) - 1)
        BY <1>1, <1>2, <2>1
    <2>3. f[a] = Join(<<input[a + 1]>>, f[a + 1])
        BY <1>1, <2>2, Onward
    <2>4. \A at \in (a + 1)..(a + Len(v) - 1) : at \in a..(a + Len(v) - 1)
        BY <1>1, <1>2
    <2>5. Stretch(f, s, input, a, v)
        BY <1>1, <1>4, <2>4 DEF Stretch
    <2>6. Join(<<input[a + 1]>>, f[a + 1]) = Join(v, f[a + Len(v)])
        BY <2>5, Stretches
    <2> QED BY <1>1, <2>3, <2>6
<1> QED BY <1>3, <1>4

\* Where the entries stand in what the client shows.
At(l, i) == Len(Upto(l, i))

LEMMA UptoGrows ==
    ASSUME NEW l \in Seq(Entry), NEW i \in 0..Len(l)
    PROVE  \A k \in i..Len(l) : \E r \in Seq(Visibles) : Upto(l, k) = Upto(l, i) \o r
<1> DEFINE T == {n \in Nat : i + n <= Len(l) => \E r \in Seq(Visibles) : Upto(l, i + n) = Upto(l, i) \o r}
<1>1. Len(l) \in Nat
    BY LenProperties
<1>2. Len(l) \in Nat /\ i \in Nat /\ Upto(l, i) \in Seq(Visibles)
    <2>1. Len(l) \in Nat /\ i \in Nat
        BY <1>1
    <2> QED BY <2>1, UptoFacts
<1>3. 0 \in T
    <2>1. Upto(l, i) \o <<>> = Upto(l, i) /\ <<>> \in Seq(Visibles) /\ i + 0 = i
        BY <1>2, ConcatEmptySeq, EmptySeq
    <2> QED BY <2>1
<1>4. ASSUME NEW n \in Nat, n \in T, i + (n + 1) <= Len(l)
      PROVE  \E r \in Seq(Visibles) : Upto(l, i + (n + 1)) = Upto(l, i) \o r
    <2>1. i + (n + 1) \in 1..Len(l) /\ (i + (n + 1)) - 1 = i + n /\ i + n <= Len(l)
        BY <1>2, <1>4
    <2>2. PICK r \in Seq(Visibles) : Upto(l, i + n) = Upto(l, i) \o r
        BY <1>4, <2>1
    <2>3. PICK v : v = l[i + (n + 1)].visible
        OBVIOUS
    <2>4. l[i + (n + 1)] \in Entry /\ Upto(l, i + (n + 1)) = Upto(l, i + n) \o v
        BY <2>1, <2>3, UptoFacts
    <2>5. v \in Seq(Visibles)
        BY <2>3, <2>4 DEF Entry
    <2>6. PICK a \in Seq(Visibles) : a = Upto(l, i)
        BY <1>2
    <2>7. (a \o r) \o v = a \o (r \o v)
        BY <2>5, ConcatAssociative
    <2>8. r \o v \in Seq(Visibles)
        BY <2>5, ConcatProperties
    <2> QED BY <2>2, <2>4, <2>6, <2>7, <2>8
<1>5. \A n \in Nat : n \in T => n + 1 \in T
    <2>1. TAKE n \in Nat
    <2>2. n + 1 \in Nat
        OBVIOUS
    <2> QED BY <1>4, <2>2
<1> HIDE DEF T
<1>6. Nat \subseteq T
    BY <1>3, <1>5, NumberInduction
<1>7. ASSUME NEW k \in i..Len(l) PROVE \E r \in Seq(Visibles) : Upto(l, k) = Upto(l, i) \o r
    <2>1. k - i \in Nat /\ i + (k - i) = k /\ k <= Len(l)
        BY <1>2
    <2>2. k - i \in T
        BY <1>6, <2>1
    <2> QED BY <2>1, <2>2 DEF T
<1> QED BY <1>7

\* An entry in what is shown.
LEMMA EntryShown ==
    ASSUME NEW l \in Seq(Entry), NEW input, input = Talk!Shown(l), NEW i \in 1..Len(l)
    PROVE  /\ At(l, i - 1) \in Nat /\ Len(l[i].visible) \in Nat /\ l[i].visible \in Seq(Visibles)
           /\ At(l, i) = At(l, i - 1) + Len(l[i].visible) /\ At(l, i) <= Len(input)
           /\ \A x \in 1..Len(l[i].visible) : input[At(l, i - 1) + x] = l[i].visible[x]
<1>1. Len(l) \in Nat /\ i \in 0..Len(l) /\ i - 1 \in 0..Len(l) /\ Len(l) \in i..Len(l)
    BY LenProperties
<1>2. PICK a \in Seq(Visibles) : a = Upto(l, i - 1)
    BY <1>1, UptoFacts
<1>3. PICK v \in Seq(Visibles) : v = l[i].visible
    BY UptoFacts DEF Entry
<1>4. PICK b \in Seq(Visibles) : b = Upto(l, i)
    BY <1>1, UptoFacts
<1>5. b = a \o v
    BY <1>2, <1>3, <1>4, UptoFacts
<1>6. PICK r \in Seq(Visibles) : Upto(l, Len(l)) = b \o r
    BY <1>1, <1>4, UptoGrows
<1>7. input = b \o r
    BY <1>6, UptoFacts
<1>8. Len(a) \in Nat /\ Len(v) \in Nat /\ Len(r) \in Nat
    BY LenProperties
<1>9. /\ Len(b) = Len(a) + Len(v)
      /\ \A x \in 1..(Len(a) + Len(v)) : b[x] = IF x <= Len(a) THEN a[x] ELSE v[x - Len(a)]
    BY <1>5, ConcatProperties
<1>10. /\ Len(input) = Len(b) + Len(r)
       /\ \A x \in 1..(Len(b) + Len(r)) : input[x] = IF x <= Len(b) THEN b[x] ELSE r[x - Len(b)]
    BY <1>7, ConcatProperties
<1>11. ASSUME NEW x \in 1..Len(v) PROVE input[Len(a) + x] = v[x]
    <2>1. /\ Len(a) + x \in 1..(Len(b) + Len(r)) /\ Len(a) + x <= Len(b) /\ Len(a) + x \in 1..(Len(a) + Len(v))
          /\ ~(Len(a) + x <= Len(a)) /\ (Len(a) + x) - Len(a) = x
        BY <1>8, <1>9
    <2> QED BY <1>9, <1>10, <2>1
<1>12. Len(b) <= Len(input)
    BY <1>8, <1>9, <1>10
<1> QED BY <1>2, <1>3, <1>4, <1>8, <1>9, <1>11, <1>12 DEF At

LEMMA AtGrows ==
    ASSUME NEW l \in Seq(Entry), NEW i \in 0..Len(l), NEW k \in i..Len(l)
    PROVE  At(l, i) \in Nat /\ At(l, k) \in Nat /\ At(l, i) <= At(l, k) /\ Talk!IsPrefix(Upto(l, i), Upto(l, k))
<1>1. Len(l) \in Nat /\ k \in 0..Len(l)
    BY LenProperties
<1>2. PICK a \in Seq(Visibles) : a = Upto(l, i)
    BY UptoFacts
<1>3. PICK b \in Seq(Visibles) : b = Upto(l, k)
    BY <1>1, UptoFacts
<1>4. PICK r \in Seq(Visibles) : b = a \o r
    BY <1>2, <1>3, UptoGrows
<1>5. Len(a) \in Nat /\ Len(b) \in Nat /\ Len(r) \in Nat /\ Len(b) = Len(a) + Len(r)
    BY <1>4, LenProperties, ConcatProperties
<1>6. SubSeq(b, 1, Len(a)) = a
    <2>1. Len(a) <= Len(b) /\ \A x \in 1..Len(a) : x \in 1..(Len(a) + Len(r)) /\ x <= Len(a)
        BY <1>5
    <2>2. /\ SubSeq(b, 1, Len(a)) \in Seq(Visibles) /\ Len(SubSeq(b, 1, Len(a))) = Len(a)
          /\ \A x \in 1..Len(a) : SubSeq(b, 1, Len(a))[x] = b[x]
        BY <1>5, <2>1, CutFacts
    <2>3. \A x \in 1..Len(a) : b[x] = a[x]
        BY <1>4, <2>1, ConcatProperties
    <2> QED BY <2>2, <2>3, SeqEqual
<1>7. SubSeq(a, 1, Len(a)) = a
    BY SubSeqFull
<1>8. Talk!IsPrefix(a, b)
    BY <1>5, <1>6, <1>7 DEF Talk!IsPrefix
<1> QED BY <1>2, <1>3, <1>5, <1>8 DEF At

\* A conversation of which nothing was lost, about to go to s.
Plain(l, n, s, input, f) ==
    /\ LogOK(l, records, n, n) /\ Len(l) = 2 * n + 1 /\ Len(records) = n /\ s \in Scopes
    /\ input = Talk!Shown(l) /\ Native(f, s, input)

\* The record of the j-th answer.
Recorded(l, n, j) ==
    LET r == records[n + 1 - j]
    IN /\ n + 1 - j \in 1..n /\ r.scope = l[2 * j].who /\ r.start = At(l, 2 * j - 1)
       /\ r.output = l[2 * j].native /\ r.prefix = Upto(l, 2 * j)

LEMMA PlainFacts ==
    ASSUME NEW l, NEW n, NEW s, NEW input, NEW f, Plain(l, n, s, input, f)
    PROVE  /\ n \in Nat /\ l \in Seq(Entry) /\ Len(l) = 2 * n + 1 /\ Turns(l, n)
           /\ records \in Seq(Record) /\ Len(records) = n /\ s \in Scopes
           /\ input \in Seq(Visibles) /\ Len(input) \in Nat /\ Len(input) = At(l, 2 * n + 1)
           /\ input = Talk!Shown(l) /\ Native(f, s, input)
           /\ \A j \in 1..n : Recorded(l, n, j)
<1>1. /\ n \in Nat /\ l \in Seq(Entry) /\ Len(l) = 2 * n + 1 /\ Turns(l, n)
      /\ records \in Seq(Record) /\ Len(records) = n /\ s \in Scopes
      /\ input = Talk!Shown(l) /\ Native(f, s, input)
      /\ \A j \in 1..n : records[n + 1 - j] = RecordOf(l, 2 * j)
    BY DEF Plain, LogOK, Turns
<1>2. input \in Seq(Visibles) /\ input = Upto(l, Len(l))
    BY <1>1, ShownFacts, UptoFacts
<1>3. Len(input) \in Nat /\ Len(input) = At(l, 2 * n + 1)
    BY <1>1, <1>2, LenProperties DEF At
<1>4. ASSUME NEW j \in 1..n PROVE Recorded(l, n, j)
    <2>1. n + 1 - j \in 1..n
        BY <1>1
    <2>2. PICK r : r = records[n + 1 - j]
        OBVIOUS
    <2>3. r = RecordOf(l, 2 * j)
        BY <1>1, <2>2
    <2>4. /\ r.scope = l[2 * j].who /\ r.start = At(l, 2 * j - 1)
          /\ r.output = l[2 * j].native /\ r.prefix = Upto(l, 2 * j)
        BY <2>3 DEF RecordOf, At
    <2> QED BY <2>1, <2>2, <2>4 DEF Recorded
<1> QED BY <1>1, <1>2, <1>3, <1>4

\* Answers stand one behind the other: a request of the client is between.
LEMMA Behind ==
    ASSUME NEW l, NEW n, NEW s, NEW input, NEW f, Plain(l, n, s, input, f),
           NEW i \in 1..(n + 1), NEW j \in 1..(n + 1)
    PROVE  /\ At(l, 2 * i - 1) \in Nat /\ At(l, 2 * j - 1) \in Nat
           /\ i < j => At(l, 2 * i - 1) < At(l, 2 * j - 1)
<1>1. n \in Nat /\ l \in Seq(Entry) /\ Len(l) = 2 * n + 1 /\ Turns(l, n)
    BY PlainFacts
<1>2. \A k \in 1..(n + 1) : At(l, 2 * k - 1) \in Nat
    <2>1. TAKE k \in 1..(n + 1)
    <2>2. 2 * k - 1 \in 0..Len(l) /\ 2 * k - 1 \in (2 * k - 1)..Len(l)
        BY <1>1
    <2> QED BY <1>1, <2>2, AtGrows
<1>3. ASSUME i < j PROVE At(l, 2 * i - 1) < At(l, 2 * j - 1)
    <2>1. PICK p \in Nat : p = 2 * j - 1
        BY <1>1
    <2>2. /\ 2 * i - 1 \in 0..Len(l) /\ p - 1 \in (2 * i - 1)..Len(l) /\ p \in 1..Len(l)
        BY <1>1, <1>3, <2>1
    <2>3. PICK q \in 0..n : q = j - 1 /\ p = 2 * q + 1 /\ 2 * q + 1 <= Len(l)
        <3>1. j - 1 \in 0..n /\ p = 2 * (j - 1) + 1 /\ 2 * (j - 1) + 1 <= Len(l)
            BY <1>1, <1>3, <2>1
        <3> QED BY <3>1
    <2>4. At(l, 2 * i - 1) <= At(l, p - 1)
        BY <1>1, <2>2, AtGrows
    <2>5. /\ At(l, p - 1) \in Nat /\ Len(l[p].visible) \in Nat /\ l[p].visible \in Seq(Visibles)
          /\ At(l, p) = At(l, p - 1) + Len(l[p].visible)
        BY <1>1, <2>2, EntryShown
    <2>6. ClientEntry(l[p])
        BY <1>1, <2>3 DEF Turns
    <2>7. l[p].visible # <<>>
        BY <2>6 DEF ClientEntry
    <2>8. Len(l[p].visible) # 0
        BY <2>5, <2>7, EmptySeq
    <2>9. At(l, 2 * i - 1) \in Nat /\ At(l, p) \in Nat
        BY <1>2, <2>1
    <2> QED BY <2>1, <2>4, <2>5, <2>8, <2>9
<1> QED BY <1>2, <1>3

\* The record that takes over stands for an answer of the account.
LEMMA Takes ==
    ASSUME NEW l, NEW n, NEW s, NEW input, NEW f, Plain(l, n, s, input, f), NEW at \in Nat,
           Talk!Match(s, input, at) # 0
    PROVE  \E j \in 1..n : /\ at = At(l, 2 * j - 1) /\ l[2 * j].who = s
                           /\ Talk!Match(s, input, at) = n + 1 - j
<1>1. /\ n \in Nat /\ records \in Seq(Record) /\ Len(records) = n
      /\ \A j \in 1..n : Recorded(l, n, j)
    BY PlainFacts
<1>2. PICK k : k = Talk!Match(s, input, at)
    OBVIOUS
<1>3. k \in Fitting(s, input, at)
    BY <1>1, <1>2, MatchFacts
<1>4. k \in 1..n /\ records[k].scope = s /\ records[k].start = at
    BY <1>1, <1>3 DEF Fitting, Usable
<1>5. PICK j \in 1..n : k = n + 1 - j
    <2>1. n + 1 - k \in 1..n /\ k = n + 1 - (n + 1 - k)
        BY <1>1, <1>4
    <2> QED BY <2>1
<1>6. Recorded(l, n, j)
    BY <1>1
<1>7. at = At(l, 2 * j - 1) /\ l[2 * j].who = s
    BY <1>4, <1>5, <1>6 DEF Recorded
<1> QED BY <1>2, <1>5, <1>7

\* Every answer of the account has one that takes over.
LEMMA Matched ==
    ASSUME NEW l, NEW n, NEW s, NEW input, NEW f, Plain(l, n, s, input, f), NEW j \in 1..n
    PROVE  Talk!Match(s, input, At(l, 2 * j - 1)) = IF l[2 * j].who = s THEN n + 1 - j ELSE 0
<1>1. /\ n \in Nat /\ l \in Seq(Entry) /\ Len(l) = 2 * n + 1
      /\ records \in Seq(Record) /\ Len(records) = n /\ input = Talk!Shown(l)
      /\ Recorded(l, n, j)
    BY PlainFacts
<1>2. PICK at \in Nat : at = At(l, 2 * j - 1)
    <2>1. j \in 1..(n + 1)
        BY <1>1
    <2> QED BY <2>1, Behind
<1>3. ASSUME Talk!Match(s, input, at) # 0
      PROVE  l[2 * j].who = s /\ Talk!Match(s, input, at) = n + 1 - j
    <2>1. PICK i \in 1..n : /\ at = At(l, 2 * i - 1) /\ l[2 * i].who = s
                            /\ Talk!Match(s, input, at) = n + 1 - i
        BY <1>3, Takes
    <2>2. i \in 1..(n + 1) /\ j \in 1..(n + 1)
        BY <1>1
    <2>3. ~(At(l, 2 * i - 1) < At(l, 2 * j - 1)) /\ ~(At(l, 2 * j - 1) < At(l, 2 * i - 1))
        BY <1>2, <2>1
    <2>4. ~(i < j) /\ ~(j < i)
        BY <2>2, <2>3, Behind
    <2>5. i = j
        BY <1>1, <2>4
    <2> QED BY <2>1, <2>5
<1>4. ASSUME l[2 * j].who = s PROVE Talk!Match(s, input, at) # 0
    <2>1. 2 * j \in 0..Len(l) /\ Len(l) \in (2 * j)..Len(l)
        BY <1>1
    <2>2. Talk!IsPrefix(Upto(l, 2 * j), Upto(l, Len(l)))
        BY <1>1, <2>1, AtGrows
    <2>3. Upto(l, Len(l)) = input
        BY <1>1, UptoFacts
    <2>4. n + 1 - j \in 1..Len(records) /\ records[n + 1 - j] \in Record
        BY <1>1, ElementOfSeq DEF Recorded
    <2>5. n + 1 - j \in Fitting(s, input, at)
        BY <1>1, <1>2, <1>4, <2>2, <2>3, <2>4 DEF Recorded, Fitting, Usable
    <2> QED BY <1>1, <2>5, MatchFacts
<1> QED BY <1>2, <1>3, <1>4

\* Between answers no record takes over.
LEMMA NoneTakes ==
    ASSUME NEW l, NEW n, NEW s, NEW input, NEW f, Plain(l, n, s, input, f)
    PROVE  /\ \A at \in Nat : at < At(l, 1) => Talk!Match(s, input, at) = 0
           /\ \A j \in 1..n, at \in Nat :
                  At(l, 2 * j - 1) < at /\ at < At(l, 2 * (j + 1) - 1) => Talk!Match(s, input, at) = 0
           /\ Talk!Match(s, input, Len(input)) = 0
<1>1. n \in Nat /\ Len(input) \in Nat /\ Len(input) = At(l, 2 * n + 1)
    BY PlainFacts
<1>2. \A i, j \in 1..(n + 1) : /\ At(l, 2 * i - 1) \in Nat /\ At(l, 2 * j - 1) \in Nat
                               /\ i < j => At(l, 2 * i - 1) < At(l, 2 * j - 1)
    BY Behind
<1>3. ASSUME NEW at \in Nat, at < At(l, 1) PROVE Talk!Match(s, input, at) = 0
    <2> SUFFICES ASSUME Talk!Match(s, input, at) # 0 PROVE FALSE
        OBVIOUS
    <2>1. PICK i \in 1..n : at = At(l, 2 * i - 1)
        BY Takes
    <2>2. i \in 1..(n + 1) /\ 1 \in 1..(n + 1) /\ (i = 1 \/ 1 < i) /\ 2 * 1 - 1 = 1
        BY <1>1
    <2>3. CASE i = 1
        BY <1>3, <2>1, <2>2, <2>3
    <2>4. CASE 1 < i
        <3>1. At(l, 2 * 1 - 1) \in Nat /\ At(l, 2 * 1 - 1) < At(l, 2 * i - 1)
            BY <1>2, <2>2, <2>4
        <3>2. At(l, 1) \in Nat /\ At(l, 1) < at
            BY <2>1, <2>2, <3>1
        <3> QED BY <1>3, <3>2
    <2> QED BY <2>2, <2>3, <2>4
<1>4. ASSUME NEW j \in 1..n, NEW at \in Nat, At(l, 2 * j - 1) < at, at < At(l, 2 * (j + 1) - 1)
      PROVE  Talk!Match(s, input, at) = 0
    <2> SUFFICES ASSUME Talk!Match(s, input, at) # 0 PROVE FALSE
        OBVIOUS
    <2>1. PICK i \in 1..n : at = At(l, 2 * i - 1)
        BY Takes
    <2>2. i \in 1..(n + 1) /\ j \in 1..(n + 1) /\ j + 1 \in 1..(n + 1) /\ (i = j \/ i < j \/ i = j + 1 \/ j + 1 < i)
        BY <1>1
    <2>3. PICK k \in 1..(n + 1) : k = j + 1
        BY <2>2
    <2>4. /\ At(l, 2 * i - 1) \in Nat /\ At(l, 2 * j - 1) \in Nat /\ At(l, 2 * k - 1) \in Nat
          /\ i < j => At(l, 2 * i - 1) < At(l, 2 * j - 1)
          /\ k < i => At(l, 2 * k - 1) < At(l, 2 * i - 1)
        BY <1>2, <2>2
    <2>5. at < At(l, 2 * k - 1)
        BY <1>4, <2>3
    <2>6. i # j /\ i # k
        BY <1>4, <2>1, <2>4, <2>5
    <2>7. ~(i < j) /\ ~(k < i)
        BY <1>4, <2>1, <2>4, <2>5
    <2> QED BY <2>2, <2>3, <2>6, <2>7
<1>5. Talk!Match(s, input, Len(input)) = 0
    <2> SUFFICES ASSUME Talk!Match(s, input, Len(input)) # 0 PROVE FALSE
        OBVIOUS
    <2>1. PICK i \in 1..n : Len(input) = At(l, 2 * i - 1)
        BY <1>1, Takes
    <2>2. i \in 1..(n + 1) /\ n + 1 \in 1..(n + 1) /\ i < n + 1 /\ 2 * (n + 1) - 1 = 2 * n + 1
        BY <1>1
    <2>3. At(l, 2 * i - 1) \in Nat /\ At(l, 2 * i - 1) < At(l, 2 * (n + 1) - 1)
        BY <1>2, <2>2
    <2> QED BY <1>1, <2>1, <2>2, <2>3
<1> QED BY <1>3, <1>4, <1>5

\* An answer v, natively w, from the item after a on and the request c behind it; mine if
\* the native one is to go up.
Answered(f, s, input, a, v, w, c, mine) ==
    LET k == Talk!Match(s, input, a)
    IN /\ input \in Seq(Visibles) /\ Native(f, s, input) /\ a \in Nat /\ v \in Seq(Visibles)
       /\ w \in Seq(Natives) /\ c \in Seq(Visibles) /\ c # <<>> /\ a + Len(v) + Len(c) <= Len(input)
       /\ \A i \in 1..Len(v) : input[a + i] = v[i]
       /\ \A i \in 1..Len(c) : input[a + Len(v) + i] = c[i]
       /\ \A at \in Nat : a < at /\ at < a + Len(v) + Len(c) => Talk!Match(s, input, at) = 0
       /\ mine => k # 0 /\ records[k].output = w /\ Len(records[k].prefix) = a + Len(v)
       /\ ~mine => k = 0

LEMMA AnswerGoes ==
    ASSUME NEW f, NEW s, NEW input, NEW a, NEW v, NEW w, NEW c, NEW mine,
           Answered(f, s, input, a, v, w, c, mine)
    PROVE  f[a] = Join(IF mine THEN w ELSE v, Join(c, f[a + Len(v) + Len(c)]))
<1>1. /\ input \in Seq(Visibles) /\ Native(f, s, input) /\ a \in Nat /\ v \in Seq(Visibles)
      /\ c \in Seq(Visibles) /\ c # <<>> /\ w \in Seq(Natives)
    BY DEF Answered
<1>2. PICK p \in Nat, q \in Nat, N \in Nat : p = Len(v) /\ q = Len(c) /\ N = Len(input)
    BY <1>1, LenProperties
<1>3. q # 0
    BY <1>1, <1>2, EmptySeq
<1>4. /\ a + p + q <= N
      /\ \A i \in 1..p : input[a + i] = v[i]
      /\ \A i \in 1..q : input[a + p + i] = c[i]
      /\ \A at \in Nat : a < at /\ at < a + p + q => Talk!Match(s, input, at) = 0
    BY <1>2 DEF Answered
<1>5. PICK k : k = Talk!Match(s, input, a)
    OBVIOUS
<1>6. /\ mine => k # 0 /\ records[k].output = w /\ Len(records[k].prefix) = a + p
      /\ ~mine => k = 0
    BY <1>2, <1>5 DEF Answered
<1>7. PICK m \in Nat : m = a + p
    BY <1>1, <1>2
<1>8. \A at \in m..(m + q - 1) : m # a => Talk!Match(s, input, at) = 0
    <2>1. TAKE at \in m..(m + q - 1)
    <2>2. m # a => at \in Nat /\ a < at /\ at < a + p + q
        BY <1>1, <1>2, <1>7
    <2> QED BY <1>4, <2>2
<1>9. m + q <= N /\ \A i \in 1..q : input[m + i] = c[i]
    BY <1>1, <1>2, <1>4, <1>7
<1>10. m # a \/ k = 0 => f[m] = Join(c, f[m + q])
    <2>1. SUFFICES ASSUME m # a \/ k = 0 PROVE f[m] = Join(c, f[m + q])
        OBVIOUS
    <2>2. ASSUME NEW at \in m..(m + q - 1) PROVE Talk!Match(s, input, at) = 0
        <3>1. CASE m # a
            BY <1>8, <2>2, <3>1
        <3>2. CASE m = a
            <4>1. at = a \/ (at \in Nat /\ a < at /\ at < a + p + q)
                BY <1>1, <1>2, <1>7, <2>2, <3>2
            <4> QED BY <1>4, <1>5, <2>1, <3>2, <4>1
        <3> QED BY <3>1, <3>2
    <2>3. Passing(f, s, input, m, c, q)
        BY <1>1, <1>2, <1>7, <1>9, <2>2 DEF Passing
    <2> QED BY <2>3, Passes
<1>11. CASE ~mine
    <2>1. k = 0
        BY <1>6, <1>11
    <2>2. ASSUME NEW at \in a..(a + p - 1) PROVE Talk!Match(s, input, at) = 0
        <3>1. at = a \/ (at \in Nat /\ a < at /\ at < a + p + q)
            BY <1>1, <1>2, <1>3, <2>2
        <3> QED BY <1>4, <1>5, <2>1, <3>1
    <2>3. a + p <= N
        BY <1>7, <1>9, <1>2
    <2>4. f[a] = Join(v, f[a + p])
        <3>1. Passing(f, s, input, a, v, p)
            BY <1>1, <1>2, <1>4, <2>2, <2>3 DEF Passing
        <3> QED BY <3>1, Passes
    <2>5. f[m] = Join(c, f[m + q])
        BY <1>10, <2>1
    <2> QED BY <1>2, <1>7, <1>11, <2>4, <2>5
<1>12. CASE mine
    <2>1. k # 0 /\ records[k].output = w /\ Len(records[k].prefix) = m
        BY <1>6, <1>7, <1>12
    <2>2. a \in 0..N /\ a # N /\ (m > a \/ m = a)
        BY <1>1, <1>2, <1>3, <1>7, <1>9
    <2>3. f[a] = From(f, s, input, a)
        BY <1>1, <1>2, <2>2 DEF Native
    <2>4. CASE m > a
        <3>1. f[a] = w \o f[m]
            BY <1>5, <2>1, <2>3, <2>4 DEF From
        <3>2. f[m] = Join(c, f[m + q])
            BY <1>1, <1>7, <1>10, <2>4
        <3> QED BY <1>2, <1>7, <1>12, <3>1, <3>2 DEF Join
    <2>5. CASE m = a
        <3>1. f[a] = w \o (<<input[a + 1]>> \o f[a + 1])
            <4>1. ~(Len(records[k].prefix) > a)
                BY <1>1, <2>1, <2>5
            <4> QED BY <1>2, <1>5, <2>1, <2>2, <2>3, <4>1 DEF From
        <3>2. ASSUME NEW at \in (a + 1)..(a + q - 1) PROVE Talk!Match(s, input, at) = 0
            <4>1. at \in Nat /\ a < at /\ at < a + p + q
                BY <1>1, <1>2, <1>7, <2>5, <3>2
            <4> QED BY <1>4, <4>1
        <3>3. Stretch(f, s, input, a, c)
            BY <1>1, <1>2, <1>9, <2>5, <3>2 DEF Stretch
        <3>4. Join(<<input[a + 1]>>, f[a + 1]) = Join(c, f[a + q])
            BY <1>2, <3>3, Stretches
        <3> QED BY <1>2, <1>7, <1>12, <2>5, <3>1, <3>4 DEF Join
    <2> QED BY <2>2, <2>4, <2>5
<1> QED BY <1>11, <1>12

\* So it goes with every answer of a conversation of which nothing was lost.
LEMMA GoesOn ==
    ASSUME NEW l, NEW n, NEW s, NEW input, NEW f, Plain(l, n, s, input, f), NEW j \in 1..n
    PROVE  /\ At(l, 2 * j - 1) + Len(l[2 * j].visible) + Len(l[2 * j + 1].visible) = At(l, 2 * (j + 1) - 1)
           /\ Answered(f, s, input, At(l, 2 * j - 1), l[2 * j].visible, l[2 * j].native,
                       l[2 * j + 1].visible, l[2 * j].who = s)
<1>1. /\ n \in Nat /\ l \in Seq(Entry) /\ Len(l) = 2 * n + 1 /\ Turns(l, n)
      /\ records \in Seq(Record) /\ Len(records) = n
      /\ input \in Seq(Visibles) /\ Len(input) \in Nat /\ input = Talk!Shown(l) /\ Native(f, s, input)
      /\ Recorded(l, n, j)
    BY PlainFacts
<1>2. PICK i \in Nat : i = 2 * j /\ i \in 1..Len(l) /\ i + 1 \in 1..Len(l) /\ 2 * (j + 1) - 1 = i + 1 /\ (i + 1) - 1 = i
    <2>1. 2 * j \in Nat /\ 2 * j \in 1..Len(l) /\ 2 * j + 1 \in 1..Len(l) /\ 2 * (j + 1) - 1 = 2 * j + 1 /\ (2 * j + 1) - 1 = 2 * j
        BY <1>1
    <2> QED BY <2>1
<1>3. PICK v : v = l[i].visible
    OBVIOUS
<1>4. PICK c : c = l[i + 1].visible
    OBVIOUS
<1>5. PICK w : w = l[i].native
    OBVIOUS
<1>6. PICK a : a = At(l, i - 1)
    OBVIOUS
<1>7. /\ a \in Nat /\ Len(v) \in Nat /\ v \in Seq(Visibles)
      /\ At(l, i) = a + Len(v) /\ At(l, i) <= Len(input)
      /\ \A x \in 1..Len(v) : input[a + x] = v[x]
    <2>1. /\ At(l, i - 1) \in Nat /\ Len(l[i].visible) \in Nat /\ l[i].visible \in Seq(Visibles)
          /\ At(l, i) = At(l, i - 1) + Len(l[i].visible) /\ At(l, i) <= Len(input)
          /\ \A x \in 1..Len(l[i].visible) : input[At(l, i - 1) + x] = l[i].visible[x]
        BY <1>1, <1>2, EntryShown, ZenonT(60)
    <2> QED BY <1>3, <1>6, <2>1
<1>8. /\ At(l, i) \in Nat /\ Len(c) \in Nat /\ c \in Seq(Visibles)
      /\ At(l, i + 1) = At(l, i) + Len(c) /\ At(l, i + 1) <= Len(input)
      /\ \A x \in 1..Len(c) : input[At(l, i) + x] = c[x]
    <2>1. /\ At(l, (i + 1) - 1) \in Nat /\ Len(l[i + 1].visible) \in Nat /\ l[i + 1].visible \in Seq(Visibles)
          /\ At(l, i + 1) = At(l, (i + 1) - 1) + Len(l[i + 1].visible) /\ At(l, i + 1) <= Len(input)
          /\ \A x \in 1..Len(l[i + 1].visible) : input[At(l, (i + 1) - 1) + x] = l[i + 1].visible[x]
        BY <1>1, <1>2, EntryShown, ZenonT(60)
    <2> QED BY <1>2, <1>4, <2>1
<1>9. c # <<>>
    <2>1. 2 * j + 1 <= Len(l) /\ j \in 0..n
        BY <1>1
    <2>2. ClientEntry(l[2 * j + 1])
        BY <1>1, <2>1 DEF Turns
    <2> QED BY <1>2, <1>4, <2>2 DEF ClientEntry
<1>10. w \in Seq(Natives)
    <2>1. l[i] \in Entry
        BY <1>1, <1>2, ElementOfSeq
    <2> QED BY <1>5, <2>1 DEF Entry
<1>11. PICK k : k = Talk!Match(s, input, a)
    OBVIOUS
<1>12. k = IF l[2 * j].who = s THEN n + 1 - j ELSE 0
    BY <1>2, <1>6, <1>11, Matched
<1>13. /\ l[2 * j].who = s => k # 0 /\ records[k].output = w /\ Len(records[k].prefix) = a + Len(v)
       /\ l[2 * j].who # s => k = 0
    <2>1. n + 1 - j \in 1..n /\ records[n + 1 - j].output = w /\ records[n + 1 - j].prefix = Upto(l, i)
        BY <1>1, <1>2, <1>5 DEF Recorded
    <2>2. n + 1 - j # 0 /\ Len(Upto(l, i)) = a + Len(v)
        BY <1>7, <2>1 DEF At
    <2> QED BY <1>12, <2>1, <2>2
<1>14. At(l, 2 * (j + 1) - 1) = a + Len(v) + Len(c)
    BY <1>2, <1>7, <1>8
<1>15. \A at \in Nat : a < at /\ at < a + Len(v) + Len(c) => Talk!Match(s, input, at) = 0
    <2>1. \A at \in Nat : At(l, 2 * j - 1) < at /\ at < At(l, 2 * (j + 1) - 1) => Talk!Match(s, input, at) = 0
        BY NoneTakes
    <2> QED BY <1>2, <1>6, <1>14, <2>1
<1>16. a + Len(v) + Len(c) <= Len(input) /\ \A x \in 1..Len(c) : input[a + Len(v) + x] = c[x]
    BY <1>2, <1>7, <1>8
<1>17. Answered(f, s, input, a, v, w, c, l[2 * j].who = s)
    BY <1>1, <1>7, <1>8, <1>9, <1>10, <1>11, <1>13, <1>15, <1>16 DEF Answered
<1> QED BY <1>2, <1>3, <1>4, <1>5, <1>6, <1>14, <1>17

\* The conversation as its account knows it, one answer and one request further.
LEMMA KnownGrows ==
    ASSUME NEW l \in Seq(Entry), NEW s, NEW i \in 1..Len(l)
    PROVE  /\ Known(SubSeq(l, 1, i - 1), s) \in Seq(Natives)
           /\ Known(SubSeq(l, 1, i), s)
              = Join(Known(SubSeq(l, 1, i - 1), s), IF l[i].who = s THEN l[i].native ELSE l[i].visible)
<1>1. Len(l) \in Nat
    BY LenProperties
<1>2. i - 1 \in Nat /\ i \in Nat /\ i - 1 <= Len(l) /\ i <= Len(l) /\ l[i] \in Entry
    BY <1>1, ElementOfSeq
<1>3. PICK a : a = SubSeq(l, 1, i - 1)
    OBVIOUS
<1>4. PICK b : b = SubSeq(l, 1, i)
    OBVIOUS
<1>5. /\ a \in Seq(Entry) /\ Len(a) = i - 1 /\ \A j \in 1..(i - 1) : a[j] = l[j]
      /\ b \in Seq(Entry) /\ Len(b) = i /\ \A j \in 1..i : b[j] = l[j]
    BY <1>2, <1>3, <1>4, CutFacts
<1>6. Len(b) = Len(a) + 1 /\ b[Len(a) + 1] = l[i] /\ \A j \in 1..Len(a) : b[j] = a[j]
    BY <1>2, <1>5, SMTT(40)
<1>7. b = Append(a, l[i])
    BY <1>2, <1>5, <1>6, EndsWith
<1>8. Known(b, s) = Known(a, s) \o (IF l[i].who = s THEN l[i].native ELSE l[i].visible)
    <2>1. PICK e \in Entry : e = l[i]
        BY <1>2
    <2>2. Known(Append(a, e), s) = Known(a, s) \o (IF e.who = s THEN e.native ELSE e.visible)
        BY <1>5, KnownFacts
    <2> QED BY <1>7, <2>1, <2>2
<1>9. Known(a, s) \in Seq(Natives)
    BY <1>5, KnownFacts
<1> QED BY <1>3, <1>4, <1>8, <1>9 DEF Join

\* What goes up of such a conversation, answer by answer.
LEMMA GoesUpTo ==
    ASSUME NEW l, NEW n, NEW s, NEW input, NEW f, Plain(l, n, s, input, f)
    PROVE  \A j \in 1..(n + 1) : f[0] = Join(Known(SubSeq(l, 1, 2 * j - 1), s), f[At(l, 2 * j - 1)])
<1> DEFINE ToldUpTo(j) == f[0] = Join(Known(SubSeq(l, 1, 2 * j - 1), s), f[At(l, 2 * j - 1)])
           T == {m \in Nat : m \in 1..(n + 1) => ToldUpTo(m)}
<1>1. /\ n \in Nat /\ l \in Seq(Entry) /\ Len(l) = 2 * n + 1 /\ Turns(l, n) /\ s \in Scopes
      /\ input \in Seq(Visibles) /\ Len(input) \in Nat /\ input = Talk!Shown(l) /\ Native(f, s, input)
    BY PlainFacts
<1>2. ASSUME NEW e, ClientEntry(e) PROVE (IF e.who = s THEN e.native ELSE e.visible) = e.visible
    BY <1>1, <1>2, SpeakerAssumption DEF ClientEntry
<1>3. ToldUpTo(1)
    <2>1. 1 \in 1..Len(l) /\ 0 \in 0..n /\ 2 * 0 + 1 = 1 /\ 2 * 0 + 1 <= Len(l) /\ 1 - 1 = 0 /\ 2 * 1 - 1 = 1
        BY <1>1
    <2>2. ClientEntry(l[1])
        BY <1>1, <2>1 DEF Turns
    <2>3. PICK v : v = l[1].visible
        OBVIOUS
    <2>4. Known(SubSeq(l, 1, 1), s) = Join(Known(SubSeq(l, 1, 0), s), v)
        BY <1>1, <1>2, <2>1, <2>2, <2>3, KnownGrows
    <2>5. At(l, 0) = 0
        BY <1>1, UptoFacts, EmptySeq DEF At
    <2>6. /\ v \in Seq(Visibles) /\ Len(v) \in Nat /\ At(l, 1) = 0 + Len(v) /\ At(l, 1) <= Len(input)
          /\ \A x \in 1..Len(v) : input[0 + x] = v[x]
        <3>1. /\ At(l, 1 - 1) \in Nat /\ Len(l[1].visible) \in Nat /\ l[1].visible \in Seq(Visibles)
              /\ At(l, 1) = At(l, 1 - 1) + Len(l[1].visible) /\ At(l, 1) <= Len(input)
              /\ \A x \in 1..Len(l[1].visible) : input[At(l, 1 - 1) + x] = l[1].visible[x]
            BY <1>1, <2>1, EntryShown
        <3> QED BY <2>1, <2>3, <2>5, <3>1
    <2>7. Known(SubSeq(l, 1, 1), s) = v
        <3>1. SubSeq(l, 1, 0) = <<>>
            BY SubSeqEmpty
        <3>2. Known(SubSeq(l, 1, 0), s) = <<>>
            BY <3>1, KnownFacts
        <3> QED BY <2>4, <2>6, <3>2, ConcatEmptySeq DEF Join
    <2>8. \A at \in 0..(0 + Len(v) - 1) : at \in Nat /\ at < At(l, 1)
        BY <2>6
    <2>9. \A at \in 0..(0 + Len(v) - 1) : Talk!Match(s, input, at) = 0
        BY <2>8, NoneTakes
    <2>10. Passing(f, s, input, 0, v, Len(v))
        BY <1>1, <2>6, <2>9 DEF Passing
    <2>11. f[0] = Join(v, f[0 + Len(v)])
        BY <2>10, Passes
    <2> QED BY <2>1, <2>6, <2>7, <2>11
<1>4. ASSUME NEW j \in 1..n, ToldUpTo(j) PROVE ToldUpTo(j + 1)
    <2> DEFINE a == At(l, 2 * j - 1)
               b == At(l, 2 * (j + 1) - 1)
    <2>1. PICK i \in Nat : /\ i = 2 * j /\ i \in 1..Len(l) /\ i + 1 \in 1..Len(l)
                           /\ 2 * (j + 1) - 1 = i + 1 /\ (i + 1) - 1 = i /\ 2 * j - 1 = i - 1
        <3>1. /\ 2 * j \in Nat /\ 2 * j \in 1..Len(l) /\ 2 * j + 1 \in 1..Len(l)
              /\ 2 * (j + 1) - 1 = 2 * j + 1 /\ (2 * j + 1) - 1 = 2 * j
            BY <1>1
        <3> QED BY <3>1
    <2>2. ClientEntry(l[i + 1])
        <3>1. 2 * j + 1 <= Len(l) /\ j \in 0..n
            BY <1>1
        <3> QED BY <1>1, <2>1, <3>1 DEF Turns
    <2>3. PICK v : v = l[i].visible
        OBVIOUS
    <2>4. PICK w : w = l[i].native
        OBVIOUS
    <2>5. PICK c : c = l[i + 1].visible
        OBVIOUS
    <2>6. PICK e : e = IF l[i].who = s THEN w ELSE v
        OBVIOUS
    <2>7. PICK k : k = Known(SubSeq(l, 1, i - 1), s)
        OBVIOUS
    <2>8. k \in Seq(Natives) /\ Known(SubSeq(l, 1, i), s) = Join(k, e)
        BY <1>1, <2>1, <2>3, <2>4, <2>6, <2>7, KnownGrows, ZenonT(60)
    <2>9. Known(SubSeq(l, 1, i + 1), s) = Join(Join(k, e), c)
        <3>1. Known(SubSeq(l, 1, i + 1), s)
              = Join(Known(SubSeq(l, 1, (i + 1) - 1), s), IF l[i + 1].who = s THEN l[i + 1].native ELSE l[i + 1].visible)
            BY <1>1, <2>1, KnownGrows
        <3>2. (IF l[i + 1].who = s THEN l[i + 1].native ELSE l[i + 1].visible) = c
            BY <1>2, <2>2, <2>5
        <3> QED BY <2>1, <2>8, <3>1, <3>2
    <2>10. /\ a + Len(v) + Len(c) = b
           /\ Answered(f, s, input, a, v, w, c, l[i].who = s)
        BY <2>1, <2>3, <2>4, <2>5, GoesOn
    <2> HIDE DEF a, b
    <2>11. PICK g : g = f[b]
        OBVIOUS
    <2>12. f[a] = Join(IF l[i].who = s THEN w ELSE v, Join(c, f[a + Len(v) + Len(c)]))
        <3>1. PICK mine : mine = (l[i].who = s)
            OBVIOUS
        <3>2. Answered(f, s, input, a, v, w, c, mine)
            BY <2>10, <3>1
        <3>3. f[a] = Join(IF mine THEN w ELSE v, Join(c, f[a + Len(v) + Len(c)]))
            BY <3>2, AnswerGoes
        <3> QED BY <3>1, <3>3
    <2>13. f[a] = Join(e, Join(c, g))
        BY <2>6, <2>10, <2>11, <2>12
    <2>14. e \in Seq(Natives) /\ c \in Seq(Natives) /\ g \in Seq(Natives)
        <3>1. v \in Seq(Visibles) /\ w \in Seq(Natives) /\ c \in Seq(Visibles)
            BY <2>10 DEF Answered
        <3>2. v \in Seq(Natives) /\ c \in Seq(Natives)
            BY <3>1, SeqMonotonic DEF Natives
        <3>3. b \in 0..Len(input)
            <4>1. a \in Nat /\ Len(v) \in Nat /\ Len(c) \in Nat /\ a + Len(v) + Len(c) <= Len(input)
                BY <2>10, <3>1, LenProperties DEF Answered
            <4> QED BY <1>1, <2>10, <4>1
        <3>4. g \in Seq(Natives)
            BY <1>1, <2>11, <3>3, Onward
        <3> QED BY <2>6, <3>1, <3>2, <3>4
    <2>15. f[0] = Join(k, f[a])
        BY <1>4, <2>1, <2>7 DEF a
    <2>16. Join(k, Join(e, Join(c, g))) = Join(Join(Join(k, e), c), g)
        <3>1. PICK x \in Seq(Natives) : x = Join(c, g)
            BY <2>14, JoinFacts
        <3>2. PICK y \in Seq(Natives) : y = Join(k, e)
            BY <2>8, <2>14, JoinFacts
        <3>3. Join(k, Join(e, x)) = Join(y, x)
            BY <2>8, <2>14, <3>2, JoinFacts
        <3>4. Join(y, Join(c, g)) = Join(Join(y, c), g)
            BY <2>14, JoinFacts
        <3> QED BY <3>1, <3>2, <3>3, <3>4
    <2>17. f[0] = Join(Known(SubSeq(l, 1, i + 1), s), f[b])
        BY <2>9, <2>11, <2>13, <2>15, <2>16
    <2> QED BY <2>1, <2>17 DEF b
<1> HIDE DEF ToldUpTo
<1>5. 0 \in T
    OBVIOUS
<1>6. ASSUME NEW m \in Nat, m \in T PROVE m + 1 \in T
    <2>1. ASSUME m + 1 \in 1..(n + 1) PROVE ToldUpTo(m + 1)
        <3>1. m = 0 \/ m \in 1..n
            BY <1>1, <2>1
        <3>2. CASE m = 0
            BY <1>3, <3>2
        <3>3. CASE m \in 1..n
            <4>1. m \in 1..(n + 1)
                BY <1>1, <3>3
            <4> QED BY <1>4, <1>6, <3>3, <4>1
        <3> QED BY <3>1, <3>2, <3>3
    <2> QED BY <2>1
<1> HIDE DEF T
<1>7. Nat \subseteq T
    BY <1>5, <1>6, NumberInduction
<1>8. \A j \in 1..(n + 1) : j \in Nat
    BY <1>1
<1>9. \A j \in 1..(n + 1) : ToldUpTo(j)
    BY <1>7, <1>8 DEF T
<1> QED BY <1>9 DEF ToldUpTo

\* All of it.
LEMMA GoesUp ==
    ASSUME NEW l, NEW n, NEW s, NEW input, NEW f, Plain(l, n, s, input, f)
    PROVE  f[0] = Known(l, s)
<1>1. /\ n \in Nat /\ l \in Seq(Entry) /\ Len(l) = 2 * n + 1 /\ input \in Seq(Visibles)
      /\ Len(input) \in Nat /\ Len(input) = At(l, 2 * n + 1) /\ Native(f, s, input)
    BY PlainFacts
<1>2. n + 1 \in 1..(n + 1) /\ 2 * (n + 1) - 1 = Len(l) /\ Len(input) \in 0..Len(input)
    BY <1>1
<1>3. f[0] = Join(Known(SubSeq(l, 1, 2 * (n + 1) - 1), s), f[At(l, 2 * (n + 1) - 1)])
    BY <1>2, GoesUpTo
<1>4. f[0] = Join(Known(SubSeq(l, 1, Len(l)), s), f[Len(input)])
    BY <1>1, <1>2, <1>3
<1>5. SubSeq(l, 1, Len(l)) = l
    BY <1>1, SubSeqFull
<1>6. f[Len(input)] = <<>>
    <2>1. Talk!Match(s, input, Len(input)) = 0
        BY NoneTakes
    <2>2. PICK at \in 0..Len(input) : at = Len(input)
        BY <1>2
    <2>3. Talk!Match(s, input, at) = 0 /\ at = Len(input) => f[at] = <<>>
        BY <1>1, Onward
    <2> QED BY <2>1, <2>2, <2>3
<1>7. Known(l, s) \in Seq(Natives)
    BY <1>1, KnownFacts
<1> QED BY <1>4, <1>5, <1>6, <1>7, ConcatEmptySeq DEF Join

-----------------------------------------------------------------------------
(* What goes up is the conversation.                                        *)

Answers(l) == {i \in 1..Len(l) : l[i].who # "client"}

LEMMA AnswerCount ==
    ASSUME NEW l, NEW n, Turns(l, n)
    PROVE  Cardinality(Answers(l)) = n
<1> DEFINE g == [j \in 1..n |-> 2 * j]
<1>1. /\ n \in Nat /\ l \in Seq(Entry) /\ Len(l) \in Nat /\ (Len(l) = 2 * n \/ Len(l) = 2 * n + 1)
      /\ \A j \in 1..n : 2 * j \in 1..Len(l) /\ l[2 * j].who \in Scopes
    BY TurnsFacts
<1>2. \A j \in 1..n : 2 * j \in Answers(l)
    BY <1>1, SpeakerAssumption DEF Answers
<1>3. ASSUME NEW i \in Answers(l) PROVE \E j \in 1..n : i = 2 * j
    <2>1. i \in 1..Len(l) /\ i \in Nat /\ l[i].who # "client"
        BY <1>1 DEF Answers
    <2>2. PICK j \in Nat : i = 2 * j \/ i = 2 * j + 1
        BY <2>1, Halves
    <2>3. i # 2 * j + 1
        <3>1. SUFFICES ASSUME i = 2 * j + 1 PROVE FALSE
            OBVIOUS
        <3>2. j \in 0..n /\ 2 * j + 1 <= Len(l)
            BY <1>1, <2>1, <3>1
        <3>3. ClientEntry(l[2 * j + 1])
            BY <3>2 DEF Turns
        <3> QED BY <2>1, <3>1, <3>3 DEF ClientEntry
    <2>4. j \in 1..n /\ i = 2 * j
        BY <1>1, <2>1, <2>2, <2>3
    <2> QED BY <2>4
<1>4. g \in Bijection(1..n, Answers(l))
    <2>1. g \in [1..n -> Answers(l)]
        BY <1>2
    <2>2. \A x, y \in 1..n : g[x] = g[y] => x = y
        BY <1>1
    <2>3. \A i \in Answers(l) : \E j \in 1..n : g[j] = i
        BY <1>3
    <2>4. IsInjective(g)
        BY <2>1, <2>2 DEF IsInjective
    <2> QED BY <2>1, <2>3, <2>4 DEF Bijection, Injection, Surjection
<1>5. IsFiniteSet(1..n) /\ Cardinality(1..n) = n
    BY <1>1, FS_Interval
<1>6. Cardinality(Answers(l)) = Cardinality(1..n)
    BY <1>4, <1>5, FS_Bijection DEF ExistsBijection
<1> QED BY <1>5, <1>6

\* What goes up of the conversation l to the account s: natively only what is of usable
\* records, and all of it as s knows it while every answer has the one record.
SentUp(up, l, s) ==
    /\ up \in Seq(Natives)
    /\ \A k \in 1..Len(up) : "turn" \in DOMAIN up[k] =>
          \E j \in 1..Len(records) : /\ Usable(j, s, Talk!Shown(l))
                                     /\ \E i \in 1..Len(records[j].output) : records[j].output[i] = up[k]
    /\ Len(records) = Cardinality(Answers(l)) => up = Known(l, s)

ReplayInv == TurnInv /\ (step = "answer" => SentUp(sent, log, scope))

\* What Restore makes of a conversation.
LEMMA Asks ==
    ASSUME records \in Seq(Record), NEW l, NEW n, LogOK(l, records, n, n), Len(l) = 2 * n + 1,
           NEW s \in Scopes, NEW up, up = Talk!Restore(s, Talk!Shown(l))
    PROVE  SentUp(up, l, s)
<1>1. n \in Nat /\ l \in Seq(Entry) /\ Turns(l, n)
    BY DEF LogOK, Turns
<1>2. PICK input \in Seq(Visibles) : input = Talk!Shown(l)
    BY <1>1, ShownFacts
<1>3. PICK f : Native(f, s, input) /\ up = f[0]
    BY <1>2, RestoreIs
<1>4. up \in Seq(Good(s, input))
    <2>1. 0 \in 0..Len(input)
        BY LenProperties
    <2> QED BY <1>3, <2>1 DEF Native
<1>5. Good(s, input) \subseteq Natives
    BY DEF Good
<1>6. up \in Seq(Natives)
    BY <1>4, <1>5, SeqMonotonic
<1>7. \A k \in 1..Len(up) : "turn" \in DOMAIN up[k] =>
          \E j \in 1..Len(records) : Usable(j, s, input) /\ \E i \in 1..Len(records[j].output) : records[j].output[i] = up[k]
    <2>1. TAKE k \in 1..Len(up)
    <2>2. PICK x \in Good(s, input) : x = up[k]
        BY <1>4, ElementOfSeq
    <2>3. "turn" \in DOMAIN x =>
              \E j \in 1..Len(records) : Usable(j, s, input) /\ \E i \in 1..Len(records[j].output) : records[j].output[i] = x
        BY GoodTurn
    <2> QED BY <2>2, <2>3
<1>8. ASSUME Len(records) = Cardinality(Answers(l)) PROVE up = Known(l, s)
    <2>1. Len(records) = n
        BY <1>1, <1>8, AnswerCount
    <2>2. Plain(l, n, s, input, f)
        BY <1>2, <1>3, <2>1 DEF Plain
    <2> QED BY <1>3, <2>2, GoesUp
<1> QED BY <1>2, <1>6, <1>7, <1>8 DEF SentUp

LEMMA ReplayStep == ReplayInv /\ [Talk!Next]_Talk!vars => ReplayInv'
<1> SUFFICES ASSUME ReplayInv, [Talk!Next]_Talk!vars PROVE ReplayInv'
    OBVIOUS
<1>1. TurnInv /\ TurnInv'
    BY TurnStep DEF ReplayInv
<1>2. CASE step' # "answer"
    BY <1>1, <1>2 DEF ReplayInv
<1>3. CASE step' = "answer" /\ step = "answer"
    <2>1. log' = log /\ records' = records /\ scope' = scope /\ sent' = sent
        <3>1. CASE UNCHANGED Talk!vars
            BY <3>1 DEF Talk!vars
        <3>2. CASE Talk!Next
            <4>1. ~Talk!Ask /\ ~Talk!Fork /\ ~Talk!Fail /\ ~Talk!Arrive /\ ~Talk!Lose
                BY <1>3 DEF Talk!Ask, Talk!Fork, Talk!Fail, Talk!Arrive, Talk!Lose, Talk!Unasked, Talk!Over
            <4>2. Talk!ItemAdded \/ Talk!Delta \/ Talk!ItemDone \/ Talk!Complete
                BY <3>2, <4>1 DEF Talk!Next
            <4>3. Talk!Complete => log' = log /\ records' = records /\ scope' = scope /\ sent' = sent
                <5>1. SUFFICES ASSUME Talk!Complete PROVE log' = log /\ records' = records /\ scope' = scope /\ sent' = sent
                    OBVIOUS
                <5>2. scope' = scope /\ sent' = sent
                    BY <5>1 DEF Talk!Complete
                <5>3. \E s : Talk!Finish(s) \/ Talk!CallAgain(s)
                    <6>1. PICK withOutput \in BOOLEAN, ends \in BOOLEAN, more \in 0..1 :
                              LET s == IF withOutput THEN Talk!Completed(more) ELSE Talk!State
                                  part == Talk!Part(s.decoder)
                              IN IF part.tools # <<>> \/ ends THEN Talk!Finish(s)
                                 ELSE part.output # <<>> /\ Talk!CallAgain(s)
                        BY <5>1 DEF Talk!Complete
                    <6> QED BY <6>1
                <5>4. ASSUME NEW s PROVE ~Talk!Finish(s)
                    BY <1>3 DEF Talk!Finish
                <5>5. log' = log /\ records' = records
                    BY <5>3, <5>4 DEF Talk!CallAgain
                <5> QED BY <5>2, <5>5
            <4> QED BY <4>2, <4>3 DEF Talk!ItemAdded, Talk!Delta, Talk!ItemDone
        <3> QED BY <3>1, <3>2
    <2>2. SentUp(sent, log, scope)
        BY <1>3 DEF ReplayInv
    <2>3. SentUp(sent, log, scope)'
        BY <2>1, <2>2 DEF SentUp, Usable
    <2> QED BY <1>1, <2>3 DEF ReplayInv
<1>4. CASE step' = "answer" /\ step # "answer"
    <2>1. Talk!Ask
        <3>1. ~UNCHANGED Talk!vars
            BY <1>4 DEF Talk!vars
        <3>2. /\ ~Talk!Fork /\ ~Talk!Fail /\ ~Talk!Arrive /\ ~Talk!Lose
              /\ ~Talk!ItemAdded /\ ~Talk!Delta /\ ~Talk!ItemDone /\ ~Talk!Complete
            BY <1>4 DEF Talk!Fork, Talk!Fail, Talk!Arrive, Talk!Lose, Talk!Unasked, Talk!Over, Talk!ItemAdded,
                        Talk!Delta, Talk!ItemDone, Talk!Complete, Talk!Answering
        <3> QED BY <3>1, <3>2 DEF Talk!Next
    <2>2. PICK l : l = log'
        OBVIOUS
    <2>3. records' = records /\ records \in Seq(Record)
        BY <1>1, <2>1, TurnFacts DEF Talk!Ask
    <2>4. PICK n \in Nat : LogOK(l, records, n, n) /\ Len(l) = 2 * n + 1
        BY <1>1, <1>4, <2>2, <2>3 DEF TurnInv, TurnLog
    <2>5. PICK s \in Scopes : s = scope' /\ sent' = Talk!Restore(s, Talk!Shown(l))
        BY <2>1, <2>2 DEF Talk!Ask
    <2>6. PICK up : up = sent' /\ up = Talk!Restore(s, Talk!Shown(l))
        BY <2>5
    <2>7. SentUp(up, l, s)
        BY <2>3, <2>4, <2>5, <2>6, Asks
    <2>8. SentUp(sent, log, scope)'
        BY <2>2, <2>3, <2>5, <2>6, <2>7 DEF SentUp, Usable
    <2> QED BY <1>1, <2>8 DEF ReplayInv
<1> QED BY <1>2, <1>3, <1>4

LEMMA ReplayIs == ReplayInv => ReplayExact
<1> SUFFICES ASSUME ReplayInv, step = "answer" PROVE ReplayExact
    BY DEF ReplayExact, Talk!ReplayExact
<1>1. SentUp(sent, log, scope) /\ log \in Seq(Entry) /\ records \in Seq(Record) /\ sent \in Seq(Natives)
    BY TurnFacts DEF ReplayInv, SentUp
<1>2. DOMAIN sent = 1..Len(sent) /\ DOMAIN log = 1..Len(log) /\ DOMAIN records = 1..Len(records)
    BY <1>1, LenProperties
<1>3. ASSUME NEW k \in DOMAIN sent, "turn" \in DOMAIN sent[k]
      PROVE  \E j \in DOMAIN records : /\ records[j].scope = scope
                                       /\ Talk!IsPrefix(records[j].prefix, Talk!Visible)
                                       /\ \E i \in DOMAIN records[j].output : records[j].output[i] = sent[k]
    <2>1. PICK j \in 1..Len(records) : /\ Usable(j, scope, Talk!Shown(log))
                                       /\ \E i \in 1..Len(records[j].output) : records[j].output[i] = sent[k]
        BY <1>1, <1>2, <1>3 DEF SentUp
    <2>2. records[j].output \in Seq(Raw)
        BY <2>1 DEF Usable, Record
    <2>3. DOMAIN records[j].output = 1..Len(records[j].output)
        BY <2>2, LenProperties
    <2> QED BY <1>2, <2>1, <2>3 DEF Usable, Talk!Visible
<1>4. ASSUME Len(records) = Talk!Cardinality({i \in DOMAIN log : log[i].who # "client"})
      PROVE  sent = Talk!Truth(scope)
    <2>1. {i \in DOMAIN log : log[i].who # "client"} = Answers(log)
        BY <1>2 DEF Answers
    <2>2. Len(records) = Cardinality(Answers(log))
        BY <1>4, <2>1, SameCardinality
    <2>3. Talk!Truth(scope) = Known(log, scope)
        BY <1>2, SameLists DEF Talk!Truth, Known
    <2> QED BY <1>1, <2>2, <2>3 DEF SentUp
<1> QED BY <1>3, <1>4 DEF ReplayExact, Talk!ReplayExact

(* Native output only goes back to the account it came from, after the      *)
(* conversation it answered; as long as no answer was lost and the client   *)
(* did not go back, the upstream sees the conversation it took part in, its *)
(* own output byte for byte, whatever the answers and the other accounts.   *)
THEOREM ReplayedAsItWas == TurnSpec => []ReplayExact
<1>1. Talk!Init => ReplayInv
    BY TurnInit DEF ReplayInv, Talk!Init
<1>2. ReplayInv /\ [Talk!Next]_Talk!vars => ReplayInv'
    BY ReplayStep
<1>3. TurnSpec => []ReplayInv
    BY <1>1, <1>2, PTL DEF TurnSpec, Talk!Spec
<1> QED BY <1>3, ReplayIs, PTL
===============================================================================
