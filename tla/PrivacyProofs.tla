--------------------------- MODULE PrivacyProofs ---------------------------
(***************************************************************************)
(* Proofs about the privacy proxy.  Sessions, for any sessions, processes, *)
(* requests, values and faults: the index of a session stays readable,     *)
(* what a request sent stays said, and an answer gets the values back it   *)
(* was asked with.  Then Restore: in whatever deltas a text comes, it is   *)
(* restored as it would be in one piece.  Then Exchange: what is released  *)
(* of an answer is whole, and restored as a whole.                         *)
(***************************************************************************)
EXTENDS Sessions, MCExchange, SequenceTheorems, FiniteSetTheorems, TLAPS

\* A line a transaction writes: an issued or a configured pseudonym.
Line == (Plain \X Invented) \union {<<x, Configured(x)>> : x \in Explicit}

FileOK(f) == f \in [Names -> [there : BOOLEAN, lines : Seq(Line), torn : BOOLEAN]]

\* The index a transaction leaves when its append succeeds.
View(f, q) == [f EXCEPT ![q.session].lines = @ \o q.pending]

\* What a transaction read is still what is on file, and what it is going to
\* append fits the index.
MaskingOK(f, q) ==
    /\ q.session \in Names /\ q.pending \in Seq(Line)
    /\ q.valid = Len(f[q.session].lines)
    /\ ReadableIn(View(f, q)) /\ q.pairs \subseteq Entries(View(f, q), q.session)

RequestInv ==
    /\ request = [r \in Requests |-> request[r]]
    /\ \A r \in Requests :
        /\ request[r].state \in {"idle", "masking", "open"}
        /\ request[r].state = "masking" => lock = r /\ MaskingOK(file, request[r])
        /\ request[r].state # "idle" => request[r].pairs \subseteq request[r].restores

IInv == /\ FileOK(file) /\ ReadableIn(file) /\ sent \in [Names -> SUBSET Line] /\ SentStays
        /\ RequestInv /\ ComesBack

-----------------------------------------------------------------------------
(* The lines of a file.                                                    *)

LEMMA LinesOf ==
    ASSUME NEW l \in Seq(Line)
    PROVE  /\ ToSet(l) \subseteq Line /\ Bad \notin ToSet(l)
           /\ \A i \in DOMAIN l : l[i] \in ToSet(l)
           /\ \A e \in ToSet(l) : \E i \in DOMAIN l : e = l[i]
<1>1. DOMAIN l = 1..Len(l) /\ \A i \in 1..Len(l) : l[i] \in Line
    BY LenProperties, ElementOfSeq
<1>2. Bad \notin Line
    BY ValuesAssumption DEF Line, Bad, Real
<1> QED BY <1>1, <1>2 DEF ToSet

\* A pseudonym the rules configure stands for one value.
LEMMA ConfiguredOnce ==
    ASSUME NEW e \in Line, NEW x \in Explicit, e[2] = Configured(x)
    PROVE  e[1] = x
<1>1. CASE e \in Plain \X Invented
    <2>1. e[2] \in Invented /\ e[2] \in {Configured(y) : y \in Explicit}
        BY <1>1
    <2> QED BY <2>1, ValuesAssumption
<1>2. ASSUME NEW y \in Explicit, e = <<y, Configured(y)>> PROVE e[1] = x
    BY <1>2 DEF Configured
<1> QED BY <1>1, <1>2 DEF Line

LEMMA Joined ==
    ASSUME NEW l \in Seq(Line), NEW n \in Seq(Line)
    PROVE  /\ l \o n \in Seq(Line)
           /\ ToSet(l \o n) = ToSet(l) \union ToSet(n)
           /\ IsInjective(l) /\ IsInjective(n) /\ ToSet(l) \intersect ToSet(n) = {} => IsInjective(l \o n)
<1>1. /\ l \o n \in Seq(Line) /\ Len(l \o n) = Len(l) + Len(n)
      /\ \A i \in 1..Len(l) + Len(n) : (l \o n)[i] = IF i <= Len(l) THEN l[i] ELSE n[i - Len(l)]
    BY ConcatProperties
<1>2. /\ DOMAIN l = 1..Len(l) /\ DOMAIN n = 1..Len(n) /\ DOMAIN (l \o n) = 1..(Len(l) + Len(n))
      /\ Len(l) \in Nat /\ Len(n) \in Nat
    BY <1>1, LenProperties
<1>3. ToSet(l \o n) \subseteq ToSet(l) \union ToSet(n)
    BY <1>1, <1>2 DEF ToSet
<1>4. ASSUME NEW i \in DOMAIN l PROVE l[i] \in ToSet(l \o n)
    BY <1>1, <1>2 DEF ToSet
<1>5. ASSUME NEW i \in DOMAIN n PROVE n[i] \in ToSet(l \o n)
    <2>1. i + Len(l) \in 1..(Len(l) + Len(n)) /\ ~(i + Len(l) <= Len(l)) /\ i + Len(l) - Len(l) = i
        BY <1>2
    <2> QED BY <1>1, <1>2, <2>1 DEF ToSet
<1>6. ToSet(l) \union ToSet(n) \subseteq ToSet(l \o n)
    BY <1>4, <1>5 DEF ToSet
<1>7. ASSUME IsInjective(l), IsInjective(n), ToSet(l) \intersect ToSet(n) = {}
      PROVE  IsInjective(l \o n)
    <2> SUFFICES ASSUME NEW a \in 1..(Len(l) + Len(n)), NEW b \in 1..(Len(l) + Len(n)), (l \o n)[a] = (l \o n)[b]
                 PROVE  a = b
        BY <1>2 DEF IsInjective
    <2>1. CASE a <= Len(l) /\ b <= Len(l)
        BY <1>1, <1>2, <1>7, <2>1 DEF IsInjective
    <2>2. CASE ~(a <= Len(l)) /\ ~(b <= Len(l))
        <3>1. a - Len(l) \in DOMAIN n /\ b - Len(l) \in DOMAIN n /\ n[a - Len(l)] = n[b - Len(l)]
            BY <1>1, <1>2, <2>2
        <3>2. a - Len(l) = b - Len(l)
            BY <1>7, <3>1 DEF IsInjective
        <3> QED BY <1>2, <3>2
    <2>3. CASE a <= Len(l) /\ ~(b <= Len(l))
        <3>1. a \in DOMAIN l /\ b - Len(l) \in DOMAIN n /\ l[a] = n[b - Len(l)]
            BY <1>1, <1>2, <2>3
        <3> QED BY <1>7, <3>1 DEF ToSet
    <2>4. CASE ~(a <= Len(l)) /\ b <= Len(l)
        <3>1. b \in DOMAIN l /\ a - Len(l) \in DOMAIN n /\ l[b] = n[a - Len(l)]
            BY <1>1, <1>2, <2>4
        <3> QED BY <1>7, <3>1 DEF ToSet
    <2> QED BY <2>1, <2>2, <2>3, <2>4
<1> QED BY <1>1, <1>3, <1>6, <1>7

\* The beginning of what is to be appended.
LEMMA Begun ==
    ASSUME NEW l \in Seq(Line), NEW n \in 0..Len(l)
    PROVE  /\ SubSeq(l, 1, n) \in Seq(Line) /\ ToSet(SubSeq(l, 1, n)) \subseteq ToSet(l)
           /\ IsInjective(l) => IsInjective(SubSeq(l, 1, n))
<1>1. /\ DOMAIN l = 1..Len(l) /\ Len(l) \in Nat /\ \A i \in 1..n : l[i] \in Line
    BY LenProperties, ElementOfSeq
<1>2. /\ SubSeq(l, 1, n) \in Seq(Line) /\ Len(SubSeq(l, 1, n)) = n
      /\ \A i \in 1..n : SubSeq(l, 1, n)[i] = l[i]
    <2>1. /\ SubSeq(l, 1, n) \in Seq(Line) /\ Len(SubSeq(l, 1, n)) = IF 1 <= n THEN n - 1 + 1 ELSE 0
          /\ \A i \in 1..n - 1 + 1 : SubSeq(l, 1, n)[i] = l[1 + i - 1]
        BY <1>1, SubSeqProperties
    <2> QED BY <1>1, <2>1
<1>3. DOMAIN SubSeq(l, 1, n) = 1..n
    BY <1>2, LenProperties
<1> QED BY <1>1, <1>2, <1>3 DEF ToSet, IsInjective

LEMMA BegunAfter ==
    ASSUME NEW l \in Seq(Line), NEW n \in Seq(Line), NEW k \in 0..Len(n), IsInjective(l \o n)
    PROVE  IsInjective(l \o SubSeq(n, 1, k))
<1>1. Len(l) \in Nat /\ Len(n) \in Nat /\ \A i \in 1..Len(n) : n[i] \in Line
    BY LenProperties, ElementOfSeq
<1>2. PICK part : part = SubSeq(n, 1, k)
    OBVIOUS
<1>3. part \in Seq(Line) /\ Len(part) = k /\ \A i \in 1..k : part[i] = n[i]
    <2>1. /\ part \in Seq(Line) /\ Len(part) = IF 1 <= k THEN k - 1 + 1 ELSE 0
          /\ \A i \in 1..k - 1 + 1 : part[i] = n[1 + i - 1]
        BY <1>1, <1>2, SubSeqProperties
    <2> QED BY <1>1, <2>1
<1>4. PICK all \in Seq(Line) : all = l \o n
    BY ConcatProperties
<1>a. PICK some \in Seq(Line) : some = l \o part
    BY <1>3, ConcatProperties
<1>b. /\ Len(all) = Len(l) + Len(n)
      /\ \A i \in 1..(Len(l) + Len(n)) : all[i] = IF i <= Len(l) THEN l[i] ELSE n[i - Len(l)]
    BY <1>4, ConcatProperties
<1>c. /\ Len(some) = Len(l) + Len(part)
      /\ \A i \in 1..(Len(l) + Len(part)) : some[i] = IF i <= Len(l) THEN l[i] ELSE part[i - Len(l)]
    BY <1>a, <1>3, ConcatProperties
<1>5. DOMAIN all = 1..(Len(l) + Len(n)) /\ DOMAIN some = 1..(Len(l) + k)
    BY <1>3, <1>b, <1>c, LenProperties
<1>6. ASSUME NEW i \in 1..(Len(l) + k) PROVE i \in 1..(Len(l) + Len(n)) /\ some[i] = all[i]
    <2>1. i \in 1..(Len(l) + Len(n)) /\ (~(i <= Len(l)) => i - Len(l) \in 1..k)
        BY <1>1
    <2> QED BY <1>3, <1>b, <1>c, <2>1
<1>7. IsInjective(some)
    BY <1>4, <1>5, <1>6 DEF IsInjective
<1> QED BY <1>2, <1>a, <1>7

-----------------------------------------------------------------------------
(* What an index that can be read says of any two lines.                   *)

\* Two lines of one session differ in both parts; two sessions share only a
\* pseudonym the rules configure.
Together(same, e, d) ==
    /\ same /\ e # d => e[1] # d[1] /\ e[2] # d[2]
    /\ ~same /\ e[2] = d[2] => e[1] = d[1] /\ e[2] = Configured(e[1])

LEMMA EntriesOf ==
    ASSUME NEW f, FileOK(f), NEW s \in Names
    PROVE  /\ f[s].lines \in Seq(Line) /\ Entries(f, s) \subseteq Line /\ Bad \notin Entries(f, s)
           /\ \A e \in Entries(f, s) : e = <<e[1], e[2]>>
<1>1. f[s].lines \in Seq(Line)
    BY DEF FileOK
<1>2. \A e \in Line : e = <<e[1], e[2]>>
    BY DEF Line
<1> QED BY <1>1, <1>2, LinesOf DEF Entries

LEMMA ReadableMeans ==
    ASSUME NEW f, FileOK(f)
    PROVE  ReadableIn(f) <=> \A s, t \in Names : /\ IsInjective(f[s].lines)
               /\ \A e \in Entries(f, s), d \in Entries(f, t) : Together(s = t, e, d)
<1>1. \A x \in Index(f) : \E s \in Names : \E e \in Entries(f, s) : x = <<s, e[1], e[2]>>
    BY DEF Index
<1>2. \A s \in Names : \A e \in Entries(f, s) : <<s, e[1], e[2]>> \in Index(f)
    BY DEF Index
<1>3. ASSUME ReadableIn(f), NEW s \in Names, NEW t \in Names, NEW e \in Entries(f, s), NEW d \in Entries(f, t)
      PROVE  Together(s = t, e, d)
    <2> DEFINE x == <<s, e[1], e[2]>>
    <2> DEFINE y == <<t, d[1], d[2]>>
    <2>1. x \in Index(f) /\ y \in Index(f) /\ (s = t /\ e # d => x # y)
        BY <1>2, EntriesOf
    <2> QED BY <1>3, <2>1 DEF ReadableIn, Together
<1>4. ASSUME \A s, t \in Names : \A e \in Entries(f, s), d \in Entries(f, t) : Together(s = t, e, d),
             NEW x \in Index(f), NEW y \in Index(f)
      PROVE  /\ x[1] = y[1] /\ x # y => x[2] # y[2] /\ x[3] # y[3]
             /\ x[1] # y[1] /\ x[3] = y[3] => x[2] = y[2] /\ x[3] = Configured(x[2])
    <2>1. PICK s \in Names : \E e \in Entries(f, s) : x = <<s, e[1], e[2]>>
        BY <1>1
    <2>2. PICK e \in Entries(f, s) : x = <<s, e[1], e[2]>>
        BY <2>1
    <2>3. PICK t \in Names : \E d \in Entries(f, t) : y = <<t, d[1], d[2]>>
        BY <1>1
    <2>4. PICK d \in Entries(f, t) : y = <<t, d[1], d[2]>>
        BY <2>3
    <2>5. Together(s = t, e, d)
        BY <1>4
    <2> QED BY <2>2, <2>4, <2>5 DEF Together
<1> QED BY <1>3, <1>4, EntriesOf DEF ReadableIn

\* An index that says less can be read as well.
LEMMA LessIsReadable ==
    ASSUME NEW f, NEW g, FileOK(f), FileOK(g), ReadableIn(f),
           \A s \in Names : Entries(g, s) \subseteq Entries(f, s) /\ IsInjective(g[s].lines)
    PROVE  ReadableIn(g)
BY ReadableMeans

-----------------------------------------------------------------------------
(* What a transaction issues.                                              *)

LEMMA Meant ==
    ASSUME FileOK(file), NEW s \in Names, NEW t, t \subseteq Real \union {x[3] : x \in Index(file)}
    PROVE  Missing(file, s, t) \subseteq Real \ {e[1] : e \in Entries(file, s)}
<1>1. ASSUME NEW u \in Names, NEW e \in Entries(file, u) PROVE e[1] \in Real
    <2>1. e \in Line
        BY EntriesOf
    <2> QED BY <2>1 DEF Line, Real
<1>2. ASSUME NEW token \in t PROVE Meaning(file, s, token) \in Real
    <2>1. CASE token \in Real
        BY <2>1 DEF Meaning
    <2>2. CASE token \notin Real
        <3>1. PICK x \in Index(file) : x[3] = token
            BY <2>2
        <3> DEFINE S == IF Own(file, s, token) # {} THEN Own(file, s, token) ELSE Anyone(file, token)
        <3>2. S # {}
            BY <3>1 DEF Anyone
        <3>3. S \subseteq Real
            <4>1. \A y \in Own(file, s, token) : y \in Real
                BY <1>1 DEF Own
            <4>2. \A y \in Anyone(file, token) : y \in Real
                BY <1>1 DEF Anyone, Index
            <4> QED BY <4>1, <4>2
        <3>4. Meaning(file, s, token) = CHOOSE r \in S : TRUE
            BY <2>2 DEF Meaning
        <3> QED BY <3>2, <3>3, <3>4
    <2> QED BY <2>1, <2>2
<1> QED BY <1>2 DEF Missing

LEMMA Issued ==
    ASSUME FileOK(file), NEW s \in Names, NEW t, t \subseteq Real \union {x[3] : x \in Index(file)},
           IsFiniteSet(t), NEW n \in Issues(file, s, t)
    PROVE  /\ n \in Seq(Line) /\ IsInjective(n)
           /\ \A e, d \in ToSet(n) : Together(TRUE, e, d)
           /\ \A e \in ToSet(n) : /\ \A d \in Entries(file, s) : d[1] # e[1]
                                  /\ e[2] \in Free(file) \/ (e[1] \in Explicit /\ e[2] = Configured(e[1]))
<1> DEFINE missing == Missing(file, s, t)
<1> DEFINE Inventions == {g \in [missing \intersect Plain -> Free(file)] : \A x, y \in DOMAIN g : g[x] = g[y] => x = y}
<1> DEFINE Lines(c) == {[i \in DOMAIN order |-> <<order[i], IF order[i] \in Explicit THEN Configured(order[i]) ELSE c[order[i]]>>] :
                            order \in SetToSeqs(missing)}
<1>a. n \in UNION {Lines(c) : c \in Inventions}
    BY DEF Issues
<1>b. PICK c \in Inventions : n \in Lines(c)
    BY <1>a
<1>c. PICK order \in SetToSeqs(missing) :
        n = [i \in DOMAIN order |-> <<order[i], IF order[i] \in Explicit THEN Configured(order[i]) ELSE c[order[i]]>>]
    BY <1>b
<1>1. /\ c \in [missing \intersect Plain -> Free(file)]
      /\ n = [i \in DOMAIN order |-> <<order[i], IF order[i] \in Explicit THEN Configured(order[i]) ELSE c[order[i]]>>]
      /\ \A x, y \in DOMAIN c : c[x] = c[y] => x = y
    BY <1>b, <1>c
<1> DEFINE D == 1..Cardinality(missing)
<1>2. order \in [D -> missing] /\ \A i, j \in D : i # j => order[i] # order[j]
    BY <1>1 DEF SetToSeqs
<1>3. missing \subseteq Real \ {e[1] : e \in Entries(file, s)}
    BY Meant
<1>4. DOMAIN n = D
    BY <1>1, <1>2
<1>5. \A i \in D : /\ order[i] \in missing
                  /\ \/ order[i] \in Explicit /\ n[i] = <<order[i], Configured(order[i])>>
                     \/ order[i] \in Plain /\ order[i] \notin Explicit /\ n[i] = <<order[i], c[order[i]]>>
    BY <1>1, <1>2, <1>3 DEF Real
<1>6. Cardinality(missing) \in Nat
    <2> DEFINE all == {Meaning(file, s, x) : x \in t}
    <2>1. IsFiniteSet(all)
        <3>1. [x \in t |-> Meaning(file, s, x)] \in Surjection(t, all)
            BY DEF Surjection
        <3> QED BY <3>1, FS_Surjection
    <2>2. missing \subseteq all
        BY DEF Missing
    <2> QED BY <2>1, <2>2, FS_Subset, FS_CardinalityType
<1>7. \A i \in D : order[i] \in missing \intersect Plain => c[order[i]] \in Free(file)
    BY <1>1
<1>8. ASSUME NEW i \in D PROVE n[i] \in Line
    <2>1. CASE order[i] \in Explicit /\ n[i] = <<order[i], Configured(order[i])>>
        BY <2>1 DEF Line
    <2>2. CASE order[i] \in Plain /\ n[i] = <<order[i], c[order[i]]>>
        BY <1>5, <1>7, <2>2 DEF Line, Free
    <2> QED BY <1>5, <2>1, <2>2
<1>9. n \in [D -> Line]
    <2>1. n = [i \in D |-> n[i]]
        BY <1>1, <1>4
    <2> QED BY <1>8, <2>1
<1>10. n \in Seq(Line)
    BY <1>6, <1>9
<1>11. ASSUME NEW i \in D, NEW j \in D, i # j PROVE n[i][1] # n[j][1] /\ n[i][2] # n[j][2]
    <2>1. order[i] # order[j] /\ order[i] \in missing /\ order[j] \in missing
        BY <1>2, <1>5, <1>11
    <2>2. CASE order[i] \in Explicit /\ order[j] \in Explicit
        <3>1. Configured(order[i]) # Configured(order[j])
            BY <2>1 DEF Configured
        <3> QED BY <1>5, <2>1, <2>2, <3>1
    <2>3. CASE order[i] \notin Explicit /\ order[j] \notin Explicit
        <3>1. c[order[i]] # c[order[j]]
            BY <1>1, <1>5, <2>1, <2>3
        <3> QED BY <1>5, <2>1, <2>3, <3>1
    <2>4. ASSUME NEW k \in D, order[k] \in Explicit, NEW l \in D, order[l] \notin Explicit
          PROVE  n[k][2] # n[l][2]
        <3>1. c[order[l]] \in Invented /\ Configured(order[k]) \in {Configured(x) : x \in Explicit}
            BY <1>5, <1>7, <2>4 DEF Free
        <3>2. n[k][2] = Configured(order[k]) /\ n[l][2] = c[order[l]]
            BY <1>5, <2>4
        <3> QED BY <3>1, <3>2, ValuesAssumption
    <2> QED BY <1>5, <2>1, <2>2, <2>3, <2>4
<1>12. ASSUME NEW i \in D
       PROVE /\ \A d \in Entries(file, s) : d[1] # n[i][1]
             /\ n[i][2] \in Free(file) \/ (n[i][1] \in Explicit /\ n[i][2] = Configured(n[i][1]))
    <2>1. n[i][1] = order[i] /\ order[i] \in missing
        BY <1>5
    <2>2. n[i][2] \in Free(file) \/ (n[i][1] \in Explicit /\ n[i][2] = Configured(n[i][1]))
        <3>1. CASE order[i] \in Explicit /\ n[i] = <<order[i], Configured(order[i])>>
            BY <2>1, <3>1
        <3>2. CASE order[i] \in Plain /\ n[i] = <<order[i], c[order[i]]>>
            BY <1>7, <2>1, <3>2
        <3> QED BY <1>5, <3>1, <3>2
    <2> QED BY <1>3, <2>1, <2>2
<1>13. \A e \in ToSet(n) : \E i \in D : e = n[i]
    BY <1>4 DEF ToSet
<1>14. IsInjective(n)
    BY <1>4, <1>11 DEF IsInjective
<1>15. \A e, d \in ToSet(n) : Together(TRUE, e, d)
    BY <1>11, <1>13 DEF Together
<1>16. \A e \in ToSet(n) : /\ \A d \in Entries(file, s) : d[1] # e[1]
                           /\ e[2] \in Free(file) \/ (e[1] \in Explicit /\ e[2] = Configured(e[1]))
    BY <1>12, <1>13
<1> QED BY <1>10, <1>14, <1>15, <1>16

\* The transaction's own view of the index can be read.
LEMMA ViewReadable ==
    ASSUME FileOK(file), ReadableIn(file), NEW s \in Names, NEW n \in Seq(Line), IsInjective(n),
           \A e, d \in ToSet(n) : Together(TRUE, e, d),
           \A e \in ToSet(n) : /\ \A d \in Entries(file, s) : d[1] # e[1]
                               /\ e[2] \in Free(file) \/ (e[1] \in Explicit /\ e[2] = Configured(e[1]))
    PROVE  LET view == [file EXCEPT ![s].lines = @ \o n]
           IN FileOK(view) /\ ReadableIn(view) /\ Entries(view, s) = Entries(file, s) \union ToSet(n)
<1> DEFINE view == [file EXCEPT ![s].lines = @ \o n]
<1>1. /\ \A u \in Names : view[u].lines = IF u = s THEN file[s].lines \o n ELSE file[u].lines
      /\ view = [u \in Names |-> view[u]]
    BY DEF FileOK
<1>2. /\ file[s].lines \o n \in Seq(Line) /\ file[s].lines \in Seq(Line)
      /\ ToSet(file[s].lines \o n) = ToSet(file[s].lines) \union ToSet(n)
    BY Joined, EntriesOf
<1>3. FileOK(view)
    BY ZenonT(60), <1>1, <1>2 DEF FileOK
<1>4. \A u \in Names : Entries(view, u) = IF u = s THEN Entries(file, s) \union ToSet(n) ELSE Entries(file, u)
    BY <1>1, <1>2 DEF Entries
<1>5. /\ \A u \in Names : IsInjective(file[u].lines)
      /\ \A u, v \in Names : \A e \in Entries(file, u), d \in Entries(file, v) : Together(u = v, e, d)
    BY ReadableMeans
<1>6. ToSet(file[s].lines) \intersect ToSet(n) = {}
    BY DEF Entries
<1>7. \A u \in Names : IsInjective(view[u].lines)
    BY <1>1, <1>2, <1>5, <1>6, Joined
<1>8. ASSUME NEW e \in ToSet(n), NEW u \in Names, NEW d \in Entries(file, u)
      PROVE  Together(s = u, e, d) /\ Together(u = s, d, e)
    <2>1. e \in Line /\ d \in Line
        BY LinesOf, EntriesOf
    <2>2. CASE e[2] \in Free(file)
        <3>1. d[2] # e[2]
            <4>1. <<u, d[1], d[2]>> \in Index(file)
                BY DEF Index
            <4> QED BY <2>2, <4>1 DEF Free, Reserved
        <3> QED BY <3>1 DEF Together
    <2>3. CASE e[1] \in Explicit /\ e[2] = Configured(e[1])
        <3>1. e[2] = d[2] => d[1] = e[1]
            BY <2>1, <2>3, ConfiguredOnce
        <3> QED BY <2>3, <3>1 DEF Together
    <2> QED BY <2>2, <2>3
<1>9. ASSUME NEW u \in Names, NEW v \in Names, NEW e \in Entries(view, u), NEW d \in Entries(view, v)
      PROVE  Together(u = v, e, d)
    <2>1. CASE e \in Entries(file, u) /\ d \in Entries(file, v)
        BY <1>5, <2>1
    <2>2. CASE u = s /\ e \in ToSet(n) /\ d \in Entries(file, v)
        BY <1>8, <2>2
    <2>3. CASE v = s /\ d \in ToSet(n) /\ e \in Entries(file, u)
        BY <1>8, <2>3
    <2>4. CASE u = s /\ v = s /\ e \in ToSet(n) /\ d \in ToSet(n)
        BY <2>4
    <2> QED BY <1>4, <2>1, <2>2, <2>3, <2>4
<1>10. ReadableIn(view)
    <2> HIDE DEF view
    <2> QED BY <1>3, <1>7, <1>9, ReadableMeans
<1> QED BY <1>3, <1>4, <1>10
\* What a session's line says comes back.
LEMMA Restored ==
    ASSUME NEW f, FileOK(f), ReadableIn(f), NEW s \in Names, NEW e \in Entries(f, s)
    PROVE  Undo(f, s, e[2]) = {e[1]}
<1>1. \A d \in Entries(f, s) : Together(TRUE, e, d)
    BY ReadableMeans
<1>2. \A d \in Entries(f, s) : d[2] = e[2] => d[1] = e[1]
    BY <1>1 DEF Together
<1> QED BY <1>2 DEF Undo, Own

-----------------------------------------------------------------------------
(* The steps.                                                              *)

LEMMA InitInv == Init => IInv
<1> SUFFICES ASSUME Init PROVE IInv
    OBVIOUS
<1>1. FileOK(file) /\ \A s \in Names : Entries(file, s) = {} /\ IsInjective(file[s].lines)
    BY DEF Init, FileOK, Absent, Entries, ToSet, IsInjective
<1>2. ReadableIn(file)
    BY <1>1, ReadableMeans
<1>3. sent \in [Names -> SUBSET Line] /\ SentStays /\ ComesBack
    BY DEF Init, SentStays, ComesBack
<1>4. RequestInv
    BY DEF Init, RequestInv, Idle
<1> QED BY <1>1, <1>2, <1>3, <1>4 DEF IInv

LEMMA MaskInv == ASSUME IInv, NEW r \in Requests, Mask(r) PROVE IInv'
<1> DEFINE Masked(p, s, t, n) ==
        LET view == [file EXCEPT ![s].lines = @ \o n]
            pairs == {e \in Entries(view, s) : e[1] \in {Meaning(file, s, x) : x \in t}}
        IN [state |-> "masking", process |-> p, session |-> s, valid |-> Len(file[s].lines), pending |-> n,
            pairs |-> pairs,
            restores |-> {e \in pairs : Undo(view, s, e[2]) = {e[1]}}]
<1>1. PICK p \in Processes, s \in Names :
        /\ Take(r, p)
        /\ \E t \in Texts(s) : \E n \in Issues(file, s, t) : request' = [request EXCEPT ![r] = Masked(p, s, t, n)]
    BY DEF Mask
<1>2. PICK t \in Texts(s) : \E n \in Issues(file, s, t) : request' = [request EXCEPT ![r] = Masked(p, s, t, n)]
    BY <1>1
<1>3. PICK n \in Issues(file, s, t) : request' = [request EXCEPT ![r] = Masked(p, s, t, n)]
    BY <1>2
<1>4. PICK q : q = Masked(p, s, t, n)
    OBVIOUS
<1>5. PICK view : view = [file EXCEPT ![s].lines = @ \o n]
    OBVIOUS
<1>6. /\ q.state = "masking" /\ q.session = s /\ q.pending = n /\ q.valid = Len(file[s].lines)
      /\ q.pairs \subseteq Entries(view, s) /\ q.restores = {e \in q.pairs : Undo(view, s, e[2]) = {e[1]}}
    BY <1>4, <1>5
<1>7. request' = [request EXCEPT ![r] = q]
    BY <1>3, <1>4
<1> HIDE DEF Masked
<1>8. UNCHANGED <<file, sent, got>> /\ lock = None /\ lock' = r
    BY <1>1 DEF Mask, Take
<1>9. /\ n \in Seq(Line) /\ IsInjective(n)
      /\ \A e, d \in ToSet(n) : Together(TRUE, e, d)
      /\ \A e \in ToSet(n) : /\ \A d \in Entries(file, s) : d[1] # e[1]
                             /\ e[2] \in Free(file) \/ (e[1] \in Explicit /\ e[2] = Configured(e[1]))
    BY Issued DEF Texts, IInv
<1>10. FileOK(view) /\ ReadableIn(view)
    BY <1>5, <1>9, ViewReadable DEF IInv
<1>11. q.pairs \subseteq q.restores
    <2>1. \A e \in Entries(view, s) : Undo(view, s, e[2]) = {e[1]}
        BY <1>10, Restored
    <2> QED BY <1>6, <2>1
<1>12. MaskingOK(file, q)
    BY <1>5, <1>6, <1>9, <1>10 DEF MaskingOK, View
<1>13. ASSUME NEW x \in Requests, x # r
       PROVE  request'[x] = request[x] /\ request[x].state # "masking"
    BY <1>7, <1>8, <1>13, ValuesAssumption DEF IInv, RequestInv
<1>14. request' = [x \in Requests |-> request'[x]] /\ request'[r] = q
    BY <1>7 DEF IInv, RequestInv
<1>15. RequestInv'
    <2>1. \A x \in Requests : /\ request'[x].state \in {"idle", "masking", "open"}
                              /\ request'[x].state # "idle" => request'[x].pairs \subseteq request'[x].restores
        BY <1>6, <1>11, <1>13, <1>14 DEF IInv, RequestInv
    <2>2. \A x \in Requests : request'[x].state = "masking" => x = r
        BY <1>13
    <2>3. ASSUME NEW x \in Requests, request'[x].state = "masking" PROVE lock' = x /\ MaskingOK(file', request'[x])
        BY <1>8, <1>12, <1>14, <2>2, <2>3
    <2> QED BY <1>14, <2>1, <2>3 DEF RequestInv
<1>16. FileOK(file') /\ ReadableIn(file') /\ sent' \in [Names -> SUBSET Line] /\ SentStays' /\ ComesBack'
    BY <1>8 DEF IInv, SentStays, ComesBack
<1> QED BY <1>15, <1>16 DEF IInv

\* Some of what a transaction is to append reaches its file.
LEMMA Written ==
    ASSUME NEW q, FileOK(file), ReadableIn(file), MaskingOK(file, q), NEW s \in Names, s = q.session,
           NEW k \in 0..Len(q.pending), NEW g, FileOK(g),
           g[s].lines = file[s].lines \o SubSeq(q.pending, 1, k),
           \A u \in Names \ {s} : g[u] = file[u]
    PROVE  /\ ReadableIn(g) /\ \A u \in Names : Entries(file, u) \subseteq Entries(g, u)
           /\ k = Len(q.pending) => q.pairs \subseteq Entries(g, s)
<1> DEFINE part == SubSeq(q.pending, 1, k)
<1>2. q.pending \in Seq(Line) /\ file[s].lines \in Seq(Line)
    BY EntriesOf DEF MaskingOK
<1>3. FileOK(View(file, q)) /\ View(file, q)[s].lines = file[s].lines \o q.pending
      /\ \A u \in Names \ {s} : View(file, q)[u] = file[u]
    <2>1. file[s].lines \o q.pending \in Seq(Line)
        BY <1>2, Joined
    <2> QED BY <1>2, <2>1 DEF View, FileOK
<1>4. part \in Seq(Line) /\ ToSet(part) \subseteq ToSet(q.pending) /\ (IsInjective(q.pending) => IsInjective(part))
    BY <1>2, Begun
<1>5. /\ ToSet(g[s].lines) = ToSet(file[s].lines) \union ToSet(part)
      /\ ToSet(View(file, q)[s].lines) = ToSet(file[s].lines) \union ToSet(q.pending)
    BY ZenonT(40), <1>2, <1>3, <1>4, Joined
<1>6. \A u \in Names : Entries(g, u) \subseteq Entries(View(file, q), u) /\ Entries(file, u) \subseteq Entries(g, u)
    BY <1>3, <1>4, <1>5 DEF Entries
<1>7. \A u \in Names : IsInjective(View(file, q)[u].lines)
    BY <1>3, ReadableMeans DEF MaskingOK
<1>8. IsInjective(g[s].lines)
    BY <1>2, <1>3, <1>7, BegunAfter
<1>9. ReadableIn(g)
    <2>1. \A u \in Names : IsInjective(g[u].lines)
        BY <1>3, <1>7, <1>8
    <2> QED BY <1>3, <1>6, <2>1, LessIsReadable DEF MaskingOK
<1>10. k = Len(q.pending) => q.pairs \subseteq Entries(g, s)
    <2>1. k = Len(q.pending) => part = q.pending
        BY <1>2, SubSeqFull
    <2> QED BY <1>3, <1>5, <2>1 DEF MaskingOK, Entries
<1> QED BY <1>6, <1>9, <1>10

LEMMA AppendedWhole ==
    ASSUME NEW f \in [there : BOOLEAN, lines : Seq(Line), torn : BOOLEAN], NEW n \in Seq(Line)
    PROVE  /\ Appended(f, Len(f.lines), n) \in [there : BOOLEAN, lines : Seq(Line), torn : BOOLEAN]
           /\ Appended(f, Len(f.lines), n).lines = f.lines \o n
<1>1. f.lines \in Seq(Line) /\ f.lines \o n \in Seq(Line) /\ Len(f.lines) \in Nat
    BY Joined, LenProperties
<1>2. CASE n = <<>>
    <2>1. Appended(f, Len(f.lines), n) = [f EXCEPT !.there = TRUE] /\ f.lines \o n = f.lines
        BY <1>1, <1>2, ConcatEmptySeq DEF Appended
    <2> QED BY <1>1, <2>1
<1>3. CASE n # <<>>
    <2>1. Min({Len(f.lines), Len(f.lines)}) = Len(f.lines)
        BY <1>1 DEF Min
    <2>2. SubSeq(f.lines, 1, Len(f.lines)) = f.lines
        BY <1>1, SubSeqFull
    <2>3. Appended(f, Len(f.lines), n) = [there |-> TRUE, lines |-> f.lines \o n, torn |-> FALSE]
        BY <1>3, <2>1, <2>2 DEF Appended
    <2> QED BY <1>1, <2>3
<1> QED BY <1>2, <1>3

\* The transaction that ends was the only one.
LEMMA Released ==
    ASSUME IInv, NEW r \in Requests, request[r].state = "masking",
           lock' = IF lock = r THEN None ELSE lock
    PROVE  \A x \in Requests \ {r} : request[x].state # "masking"
BY DEF IInv, RequestInv

LEMMA CommitInv == ASSUME IInv, NEW r \in Requests, Commit(r) PROVE IInv'
<1> DEFINE q == request[r]
<1> DEFINE s == request[r].session
<1>1. /\ q.state = "masking" /\ FileOK(file) /\ ReadableIn(file) /\ MaskingOK(file, q) /\ s \in Names
      /\ file' = [file EXCEPT ![s] = Appended(@, q.valid, q.pending)]
      /\ request' = [request EXCEPT ![r].state = "open", ![r].valid = 0, ![r].pending = <<>>]
      /\ sent' = [sent EXCEPT ![s] = @ \union q.pairs]
      /\ q.pairs \subseteq q.restores
    BY DEF Commit, IInv, RequestInv, MaskingOK
<1>2. /\ q.pending \in Seq(Line) /\ file[s].lines \in Seq(Line) /\ q.valid = Len(file[s].lines)
      /\ file[s].there \in BOOLEAN /\ file[s].torn \in BOOLEAN /\ file = [u \in Names |-> file[u]]
      /\ file[s] = [there |-> file[s].there, lines |-> file[s].lines, torn |-> file[s].torn]
    BY <1>1 DEF MaskingOK, FileOK
<1>3. Appended(file[s], q.valid, q.pending) \in [there : BOOLEAN, lines : Seq(Line), torn : BOOLEAN]
      /\ Appended(file[s], q.valid, q.pending).lines = file[s].lines \o q.pending
    <2> HIDE DEF q, s
    <2>1. PICK f : f = file[s]
        OBVIOUS
    <2>2. PICK n : n = q.pending
        OBVIOUS
    <2>3. f \in [there : BOOLEAN, lines : Seq(Line), torn : BOOLEAN] /\ n \in Seq(Line)
        BY <1>2, <2>1, <2>2
    <2>4. /\ Appended(f, Len(f.lines), n) \in [there : BOOLEAN, lines : Seq(Line), torn : BOOLEAN]
          /\ Appended(f, Len(f.lines), n).lines = f.lines \o n
        BY ZenonT(20), <2>3, AppendedWhole
    <2> QED BY <1>2, <2>1, <2>2, <2>4
<1>4. FileOK(file') /\ file'[s].lines = file[s].lines \o q.pending /\ \A u \in Names \ {s} : file'[u] = file[u]
    BY ZenonT(20), <1>1, <1>3 DEF FileOK
<1>5. SubSeq(q.pending, 1, Len(q.pending)) = q.pending /\ Len(q.pending) \in 0..Len(q.pending)
    BY <1>2, SubSeqFull, LenProperties
<1>6. /\ ReadableIn(file') /\ \A u \in Names : Entries(file, u) \subseteq Entries(file', u)
      /\ q.pairs \subseteq Entries(file', s)
    <2>1. PICK k \in 0..Len(q.pending) : k = Len(q.pending)
        BY <1>5
    <2>2. PICK g : g = file'
        BY Zenon
    <2>3. /\ FileOK(g) /\ g[s].lines = file[s].lines \o SubSeq(q.pending, 1, k)
          /\ \A u \in Names \ {s} : g[u] = file[u]
        BY <1>4, <1>5, <2>1, <2>2
    <2>4. FileOK(file) /\ ReadableIn(file) /\ MaskingOK(file, q) /\ s \in Names /\ s = q.session
        BY <1>1
    <2> HIDE DEF q, s
    <2>5. /\ ReadableIn(g) /\ \A u \in Names : Entries(file, u) \subseteq Entries(g, u)
          /\ k = Len(q.pending) => q.pairs \subseteq Entries(g, s)
        BY ZenonT(20), <2>3, <2>4, Written
    <2> QED BY <2>1, <2>2, <2>5
<1>7. q.pairs \subseteq Line
    BY <1>1, <1>4, <1>6, EntriesOf
<1>8. sent' \in [Names -> SUBSET Line] /\ SentStays'
    BY <1>1, <1>6, <1>7 DEF IInv, SentStays
<1>9. \A x \in Requests \ {r} : request'[x] = request[x] /\ request[x].state # "masking"
    BY <1>1, Released DEF Commit, IInv, RequestInv
<1>10. request'[r].state = "open" /\ request'[r].pairs = q.pairs /\ request'[r].restores = q.restores
      /\ request' = [x \in Requests |-> request'[x]]
    BY <1>1 DEF IInv, RequestInv
<1>11. RequestInv'
    BY <1>1, <1>9, <1>10 DEF RequestInv, IInv
<1>12. ComesBack'
    BY DEF Commit, IInv, ComesBack
<1> QED BY <1>4, <1>6, <1>8, <1>11, <1>12 DEF IInv

LEMMA CommitFailsInv == ASSUME IInv, NEW r \in Requests, CommitFails(r) PROVE IInv'
<1> DEFINE q == request[r]
<1> DEFINE s == request[r].session
<1>1. /\ q.state = "masking" /\ FileOK(file) /\ ReadableIn(file) /\ MaskingOK(file, q) /\ s \in Names
      /\ request' = [request EXCEPT ![r] = Idle] /\ UNCHANGED <<sent, got>>
    BY DEF CommitFails, IInv, RequestInv, MaskingOK
<1>2. /\ q.pending \in Seq(Line) /\ file[s].lines \in Seq(Line) /\ q.valid = Len(file[s].lines)
      /\ file[s] \in [there : BOOLEAN, lines : Seq(Line), torn : BOOLEAN] /\ file = [u \in Names |-> file[u]]
    BY <1>1 DEF MaskingOK, FileOK
<1>3. PICK n \in 0..Len(q.pending), torn \in BOOLEAN :
        \/ LET begun == Appended(file[s], q.valid, SubSeq(q.pending, 1, n))
           IN file' = [file EXCEPT ![s] = [begun EXCEPT !.torn = torn \/ begun.torn]]
        \/ file' = file
    BY DEF CommitFails
<1>4. FileOK(file') /\ ReadableIn(file') /\ \A u \in Names : Entries(file, u) \subseteq Entries(file', u)
    <2>1. CASE file' = file
        BY <1>1, <2>1
    <2> DEFINE begun == Appended(file[s], q.valid, SubSeq(q.pending, 1, n))
    <2>2. CASE file' = [file EXCEPT ![s] = [begun EXCEPT !.torn = torn \/ begun.torn]]
        <3>1. /\ begun \in [there : BOOLEAN, lines : Seq(Line), torn : BOOLEAN]
              /\ begun.lines = file[s].lines \o SubSeq(q.pending, 1, n)
            BY ZenonT(20), <1>2, Begun, AppendedWhole
        <3>2. PICK h : h = [begun EXCEPT !.torn = torn \/ begun.torn]
            OBVIOUS
        <3>3. file' = [file EXCEPT ![s] = h]
            BY <2>2, <3>2, Zenon
        <3>4. /\ h \in [there : BOOLEAN, lines : Seq(Line), torn : BOOLEAN]
              /\ h.lines = file[s].lines \o SubSeq(q.pending, 1, n)
            BY ZenonT(40), <3>1, <3>2
        <3>5. PICK g : g = file'
            OBVIOUS
        <3>6. /\ FileOK(g) /\ g[s].lines = file[s].lines \o SubSeq(q.pending, 1, n)
              /\ \A u \in Names \ {s} : g[u] = file[u]
            BY ZenonT(20), <1>1, <1>2, <3>3, <3>4, <3>5 DEF FileOK
        <3>7. FileOK(file) /\ ReadableIn(file) /\ MaskingOK(file, q) /\ s \in Names /\ s = q.session
            BY <1>1
        <3> HIDE DEF q, s
        <3>8. ReadableIn(g) /\ \A u \in Names : Entries(file, u) \subseteq Entries(g, u)
            BY <3>6, <3>7, Written
        <3> QED BY <3>5, <3>6, <3>8, Zenon
    <2> QED BY <1>3, <2>1, <2>2
<1>5. SentStays' /\ sent' \in [Names -> SUBSET Line] /\ ComesBack'
    BY <1>1, <1>4 DEF IInv, SentStays, ComesBack
<1>6. \A x \in Requests \ {r} : request'[x] = request[x] /\ request[x].state # "masking"
    BY <1>1, Released DEF CommitFails, IInv, RequestInv
<1>7. request'[r].state = "idle" /\ request' = [x \in Requests |-> request'[x]]
    BY <1>1 DEF IInv, RequestInv, Idle
<1>8. RequestInv'
    BY <1>6, <1>7 DEF IInv, RequestInv
<1> QED BY <1>4, <1>5, <1>8 DEF IInv

LEMMA AnswerInv == ASSUME IInv, NEW r \in Requests, Answer(r) PROVE IInv'
<1>1. /\ request' = [request EXCEPT ![r] = Idle] /\ UNCHANGED <<file, sent, lock>>
      /\ got' = got \union (request[r].pairs \ request[r].restores) /\ request[r].state = "open"
    BY DEF Answer
<1>2. ComesBack'
    BY <1>1 DEF IInv, RequestInv, ComesBack
<1>3. /\ request' = [x \in Requests |-> request'[x]] /\ request'[r].state = "idle"
      /\ \A x \in Requests \ {r} : request'[x] = request[x]
    BY <1>1 DEF IInv, RequestInv, Idle
<1>4. RequestInv'
    BY <1>1, <1>3 DEF IInv, RequestInv
<1>5. FileOK(file') /\ ReadableIn(file') /\ sent' \in [Names -> SUBSET Line] /\ SentStays'
    BY <1>1 DEF IInv, SentStays
<1> QED BY <1>2, <1>4, <1>5 DEF IInv

\* Files are removed while no transaction runs.
LEMMA RemovedInv ==
    ASSUME IInv, lock = None, NEW names, Removed(names), UNCHANGED <<lock, request, got>>
    PROVE  IInv'
<1>1. /\ file' = [s \in Names |-> IF s \in names THEN Absent ELSE file[s]]
      /\ sent' = [s \in Names |-> IF s \in names THEN {} ELSE sent[s]]
    BY DEF Removed
<1>2. <<>> \in Seq(Line) /\ ToSet(<<>>) = {} /\ IsInjective(<<>>)
    BY DEF ToSet, IsInjective
<1>3. FileOK(file')
    BY <1>1, <1>2 DEF IInv, FileOK, Absent
<1>4. \A s \in Names : Entries(file', s) = IF s \in names THEN {} ELSE Entries(file, s)
    BY <1>1, <1>2 DEF Entries, Absent
<1>5. \A s \in Names : IsInjective(file'[s].lines)
    BY <1>1, <1>2, ReadableMeans DEF IInv, Absent
<1>6. ReadableIn(file')
    BY <1>3, <1>4, <1>5, LessIsReadable DEF IInv
<1>7. sent' \in [Names -> SUBSET Line] /\ SentStays'
    BY <1>1, <1>4 DEF IInv, SentStays
<1>8. RequestInv' /\ ComesBack'
    BY ValuesAssumption DEF IInv, RequestInv, ComesBack
<1> QED BY <1>3, <1>6, <1>7, <1>8 DEF IInv

LEMMA CrashInv == ASSUME IInv, NEW p \in Processes, Crash(p) PROVE IInv'
<1>1. /\ UNCHANGED <<file, lock, sent, got>> /\ request' = [x \in Requests |-> request'[x]]
      /\ \A x \in Requests : request'[x] = Idle \/ request'[x] = request[x]
    BY DEF Crash
<1>2. RequestInv'
    BY <1>1 DEF IInv, RequestInv, Idle
<1> QED BY <1>1, <1>2 DEF IInv, SentStays, ComesBack

LEMMA NextInv == IInv /\ [Next]_vars => IInv'
<1> SUFFICES ASSUME IInv, [Next]_vars PROVE IInv'
    OBVIOUS
<1>1. ASSUME NEW r \in Requests, Mask(r) \/ Commit(r) \/ CommitFails(r) \/ Answer(r) PROVE IInv'
    BY <1>1, MaskInv, CommitInv, CommitFailsInv, AnswerInv
<1>2. ASSUME NEW p \in Processes, Open(p) PROVE IInv'
    BY <1>2, RemovedInv DEF Open
<1>3. ASSUME NEW p \in Processes, Crash(p) PROVE IInv'
    BY <1>3, CrashInv
<1>4. ASSUME NEW s \in Names, Forget(s) PROVE IInv'
    BY <1>4, RemovedInv DEF Forget
<1>5. CASE UNCHANGED <<file, lock, request, sent, got>>
    BY <1>5 DEF IInv, RequestInv, SentStays, ComesBack
<1>6. ASSUME NEW s \in Names, Age(s) PROVE IInv'
    BY <1>5, <1>6 DEF Age
<1>7. CASE UNCHANGED vars
    BY <1>5, <1>7 DEF vars
<1> QED BY <1>1, <1>2, <1>3, <1>4, <1>6, <1>7 DEF Next

-----------------------------------------------------------------------------

LEMMA Invariance == Spec => []IInv
BY InitInv, NextInv, PTL DEF Spec

\* Whatever append is cut short and whenever a process dies, the next reader of a
\* session's index finds one pseudonym per value and one value per pseudonym
\* (readSession, transaction).
THEOREM IndexReadable == Spec => []Readable
<1>1. IInv => Readable
    BY DEF IInv, Readable
<1> QED BY <1>1, Invariance, PTL

\* What has gone out under a pseudonym is in the index for as long as the session's
\* file is there, so a later request says it with the same pseudonym
\* (transaction).
THEOREM SaysTheSame == Spec => []SentStays
<1>1. IInv => SentStays
    BY DEF IInv
<1> QED BY <1>1, Invariance, PTL

\* An answer gets exactly the real values back that its request was asked with,
\* although other requests, processes and sessions issued pseudonyms meanwhile
\* (unmaskText).
THEOREM ValuesComeBack == Spec => []ComesBack
<1>1. IInv => ComesBack
    BY DEF IInv
<1> QED BY <1>1, Invariance, PTL

-----------------------------------------------------------------------------
(* Induction, over numbers and over lists: the sets it is about are given  *)
(* as sets, since a theorem about an operator cannot be used.  It comes    *)
(* from the order of the finite sets.                                      *)

\* A set of numbers that is not empty has a least one.
LEMMA MinExists == ASSUME NEW T, T \subseteq Nat, T # {} PROVE \E x \in T : \A y \in T : x <= y
<1> DEFINE Upto(k) == T \cap 0..k
           S == {Upto(k) : k \in T}
           R == StrictSubsetOrdering(Nat)
<1>1. IsWellFoundedOn(R, FiniteSubsetsOf(Nat))
    BY FS_StrictSubsetOrderingWellFounded
<1>2. \A k \in T : IsFiniteSet(0..k)
    BY FS_Interval
<1>3. \A k \in T : IsFiniteSet(Upto(k))
    BY <1>2, FS_Subset
<1>4. S \subseteq FiniteSubsetsOf(Nat) /\ S # {}
    BY <1>3 DEF FiniteSubsetsOf
<1>5. PICK U \in S : \A V \in S : <<V, U>> \notin R
    <2> HIDE DEF S, R
    <2> QED BY <1>1, <1>4, WFMin
<1>6. PICK k \in T : U = Upto(k)
    BY <1>5
<1>7. ASSUME NEW j \in T, j < k PROVE FALSE
    <2>1. Upto(j) \in S
        OBVIOUS
    <2>2. Upto(j) \subseteq Upto(k) /\ k \in Upto(k) /\ k \notin Upto(j)
        BY <1>7
    <2>3. <<Upto(j), U>> \in R
        BY <2>2, <1>6 DEF StrictSubsetOrdering
    <2> QED BY <1>5, <2>1, <2>3
<1> QED BY <1>7

\* A set that holds zero and the successor of each number it holds.
LEMMA NumberInduction ==
    ASSUME NEW T, 0 \in T, \A n \in Nat : n \in T => n + 1 \in T
    PROVE  Nat \subseteq T
<1> SUFFICES ASSUME NEW m \in Nat, m \notin T PROVE FALSE
    OBVIOUS
<1>1. PICK x \in Nat \ T : \A y \in Nat \ T : x <= y
    BY MinExists
<1>2. x # 0 /\ x - 1 \in Nat /\ x - 1 \in T
    BY <1>1
<1> QED BY <1>1, <1>2

\* A set that holds the empty list and what one element more makes of a list it holds.
LEMMA ListInduction ==
    ASSUME NEW S, NEW T, <<>> \in T, \A s \in Seq(S), e \in S : s \in T => Append(s, e) \in T
    PROVE  Seq(S) \subseteq T
<1> DEFINE U == {n \in Nat : \A s \in Seq(S) : Len(s) = n => s \in T}
<1>1. 0 \in U
    BY EmptySeq
<1>2. ASSUME NEW n \in Nat, n \in U PROVE n + 1 \in U
    <2>1. ASSUME NEW s \in Seq(S), Len(s) = n + 1 PROVE s \in T
        <3>1. s # <<>>
            BY <2>1
        <3>2. PICK f \in Seq(S), e \in S : s = Append(f, e)
            BY <3>1, SequenceEmptyOrAppend
        <3>3. Len(f) = n
            BY <3>2, <2>1, AppendProperties, LenProperties
        <3> QED BY <1>2, <3>2, <3>3
    <2> QED BY <2>1
<1> HIDE DEF U
<1>3. Nat \subseteq U
    BY <1>1, <1>2, NumberInduction, SMTT(40)
<1> USE DEF U
<1> QED BY <1>3, LenProperties

\* The functions that take these steps.
Taking(F, N, base, S) == {g \in [0..N -> S] : g[0] = base /\ \A n \in 1..N : g[n] = F[n][g[n - 1]]}

LEMMA Recursion ==
    ASSUME NEW S, NEW base \in S, NEW N \in Nat, NEW F \in [1..N -> [S -> S]]
    PROVE  \E g : g \in Taking(F, N, base, S)
<1> DEFINE Is(g, m) == g \in [0..m -> S] /\ g[0] = base /\ \A n \in 1..m : g[n] = F[n][g[n - 1]]
           U == {m \in Nat : m <= N => \E g : Is(g, m)}
<1>1. 0 \in U
    <2>1. Is([n \in 0..0 |-> base], 0)
        OBVIOUS
    <2> QED BY <2>1
<1>2. ASSUME NEW m \in Nat, m \in U, m + 1 <= N PROVE \E g : Is(g, m + 1)
    <2>1. PICK g : Is(g, m)
        BY <1>2
    <2> DEFINE h == [n \in 0..(m + 1) |-> IF n = m + 1 THEN F[m + 1][g[m]] ELSE g[n]]
    <2>2. g[m] \in S /\ m + 1 \in 1..N
        BY <2>1, <1>2
    <2>3. F[m + 1][g[m]] \in S
        BY <2>2
    <2>4. h \in [0..(m + 1) -> S] /\ h[0] = base
        BY <2>1, <2>3
    <2>5. \A n \in 1..(m + 1) : h[n] = F[n][h[n - 1]]
        <3> TAKE n \in 1..(m + 1)
        <3>1. CASE n = m + 1
            <4>1. h[n - 1] = g[m]
                BY <3>1
            <4> QED BY <3>1, <4>1
        <3>2. CASE n # m + 1
            <4>1. n \in 1..m /\ h[n] = g[n] /\ h[n - 1] = g[n - 1]
                BY <3>2
            <4> QED BY <4>1, <2>1
        <3> QED BY <3>1, <3>2
    <2> HIDE DEF h
    <2> QED BY <2>4, <2>5
<1>3. ASSUME NEW m \in Nat, m \in U PROVE m + 1 \in U
    <2> HIDE DEF Is
    <2>1. m + 1 <= N => \E g : Is(g, m + 1)
        BY <1>2, <1>3
    <2> QED BY <2>1
<1>4. N \in U
    <2> HIDE DEF U
    <2> QED BY <1>1, <1>3, NumberInduction
<1>5. PICK g : Is(g, N)
    <2>1. N <= N
        OBVIOUS
    <2> HIDE DEF Is
    <2> QED BY <1>4, <2>1
<1> QED BY <1>5 DEF Taking

\* What is joined of several lists is built up from the left.
LEMMA FlatIs ==
    ASSUME NEW S, NEW s \in Seq(Seq(S))
    PROVE  \E g : /\ g = [n \in 0..Len(s) |-> IF n = 0 THEN <<>> ELSE g[n - 1] \o s[n]]
                  /\ Flat(s) = g[Len(s)]
<1> DEFINE N == Len(s)
           F == [n \in 1..N |-> [x \in Seq(S) |-> x \o s[n]]]
           Is(g) == g = [n \in 0..N |-> IF n = 0 THEN <<>> ELSE g[n - 1] \o s[n]]
<1>1. N \in Nat /\ <<>> \in Seq(S) /\ \A n \in 1..N : s[n] \in Seq(S)
    BY LenProperties, ElementOfSeq, EmptySeq
<1>2. F \in [1..N -> [Seq(S) -> Seq(S)]]
    BY <1>1, ConcatProperties
<1>3. PICK g \in [0..N -> Seq(S)] : g[0] = <<>> /\ \A n \in 1..N : g[n] = F[n][g[n - 1]]
    <2> HIDE DEF F, N
    <2>1. \E g : g \in Taking(F, N, <<>>, Seq(S))
        BY <1>1, <1>2, Recursion
    <2> QED BY <2>1 DEF Taking
<1>4. ASSUME NEW n \in 1..N PROVE g[n] = g[n - 1] \o s[n]
    <2>1. n - 1 \in 0..N
        BY <1>1
    <2>2. g[n - 1] \in Seq(S)
        BY <2>1, <1>3
    <2> QED BY <2>2, <1>3
<1>5. Is(g)
    <2>1. \A n \in 0..N : n # 0 => n \in 1..N
        BY <1>1
    <2> HIDE DEF F, N
    <2>2. \A n \in 0..N : g[n] = IF n = 0 THEN <<>> ELSE g[n - 1] \o s[n]
        BY <2>1, <1>3, <1>4
    <2> QED BY <2>2, <1>3
<1> DEFINE c == CHOOSE f : Is(f)
<1>6. Is(c)
    <2> HIDE DEF Is
    <2> QED BY <1>5
<1>7. Flat(s) = c[N]
    BY DEF Flat
<1> QED BY <1>6, <1>7, Zenon

\* One list more is joined at the end.
LEMMA FlatAppend ==
    ASSUME NEW S, NEW s \in Seq(Seq(S)), NEW e \in Seq(S)
    PROVE  Flat(Append(s, e)) = Flat(s) \o e
<1> DEFINE t == Append(s, e)
           Is(g, u) == g = [n \in 0..Len(u) |-> IF n = 0 THEN <<>> ELSE g[n - 1] \o u[n]]
<1>1. /\ t \in Seq(Seq(S)) /\ Len(t) = Len(s) + 1 /\ t[Len(t)] = e /\ Len(s) \in Nat
      /\ \A n \in 1..Len(s) : t[n] = s[n]
    BY AppendProperties, LenProperties
<1>2. PICK f : Is(f, s) /\ Flat(s) = f[Len(s)]
    BY FlatIs
<1>3. PICK g : Is(g, t) /\ Flat(t) = g[Len(t)]
    BY <1>1, FlatIs
<1> HIDE DEF t
<1>4. ASSUME NEW n \in 1..Len(s) PROVE f[n] = f[n - 1] \o s[n] /\ g[n] = g[n - 1] \o s[n]
    <2>1. n \in 0..Len(s) /\ n \in 0..Len(t) /\ n # 0 /\ t[n] = s[n]
        BY <1>1
    <2> QED BY <2>1, <1>2, <1>3
<1>5. f[0] = <<>> /\ g[0] = <<>> /\ g[Len(t)] = g[Len(s)] \o e
    <2>1. 0 \in 0..Len(s) /\ 0 \in 0..Len(t) /\ Len(t) \in 0..Len(t) /\ Len(t) # 0 /\ Len(t) - 1 = Len(s)
        BY <1>1
    <2> QED BY <1>1, <1>2, <1>3, <2>1
<1>6. f[Len(s)] = g[Len(s)]
    <2> DEFINE T == {n \in Nat : n \in 0..Len(s) => f[n] = g[n]}
    <2>1. 0 \in T
        BY <1>5
    <2>2. ASSUME NEW n \in Nat, n \in T, n + 1 \in 0..Len(s) PROVE f[n + 1] = g[n + 1]
        <3>1. n \in 0..Len(s) /\ n + 1 \in 1..Len(s) /\ (n + 1) - 1 = n
            BY <1>1, <2>2
        <3> QED BY <3>1, <2>2, <1>4
    <2>3. \A n \in Nat : n \in T => n + 1 \in T
        BY <2>2
    <2> HIDE DEF T
    <2>4. Nat \subseteq T
        BY <2>1, <2>3, NumberInduction
    <2> USE DEF T
    <2> QED BY <2>4, <1>1
<1> QED BY <1>2, <1>3, <1>5, <1>6 DEF t

\* Joining goes on the same way.
LEMMA JoinAppend ==
    ASSUME NEW S, NEW s \in Seq(S), NEW u \in Seq(S), NEW e \in S
    PROVE  s \o Append(u, e) = Append(s \o u, e)
<1>1. s \o u \in Seq(S) /\ <<e>> \in Seq(S)
    BY ConcatProperties
<1>2. Append(u, e) = u \o <<e>> /\ Append(s \o u, e) = (s \o u) \o <<e>>
    BY <1>1, AppendIsConcat
<1>3. (s \o u) \o <<e>> = s \o (u \o <<e>>)
    BY <1>1, ConcatAssociative
<1> QED BY <1>2, <1>3

\* Joining goes through a concatenation.
LEMMA FlatFacts ==
    ASSUME NEW S
    PROVE  /\ Flat(<<>>) = <<>>
           /\ \A s \in Seq(Seq(S)) : Flat(s) \in Seq(S)
           /\ \A s, t \in Seq(Seq(S)) : Flat(s \o t) = Flat(s) \o Flat(t)
<1>1. Flat(<<>>) = <<>>
    <2>1. <<>> \in Seq(Seq(S)) /\ Len(<<>>) = 0
        BY EmptySeq
    <2>2. PICK g : /\ g = [n \in 0..Len(<<>>) |-> IF n = 0 THEN <<>> ELSE g[n - 1] \o <<>>[n]]
                   /\ Flat(<<>>) = g[Len(<<>>)]
        BY <2>1, FlatIs
    <2>3. g[0] = <<>>
        BY <2>1, <2>2
    <2> QED BY <2>1, <2>2, <2>3
<1>2. ASSUME NEW s \in Seq(Seq(S)) PROVE Flat(s) \in Seq(S)
    <2> DEFINE T == {u \in Seq(Seq(S)) : Flat(u) \in Seq(S)}
    <2>1. <<>> \in T
        BY <1>1, EmptySeq
    <2>2. ASSUME NEW u \in Seq(Seq(S)), NEW e \in Seq(S), u \in T PROVE Append(u, e) \in T
        BY <2>2, FlatAppend, AppendProperties, ConcatProperties
    <2> HIDE DEF T
    <2>3. Seq(Seq(S)) \subseteq T
        BY <2>1, <2>2, ListInduction
    <2> USE DEF T
    <2> QED BY <2>3
<1>3. ASSUME NEW B, B = Seq(S), NEW s \in Seq(B), NEW t \in Seq(B) PROVE Flat(s \o t) = Flat(s) \o Flat(t)
    <2> DEFINE T == {u \in Seq(B) : Flat(s \o u) = Flat(s) \o Flat(u)}
    <2>1. \A u \in Seq(B), e \in B : Flat(u) \in Seq(S) /\ e \in Seq(S) /\ Flat(Append(u, e)) = Flat(u) \o e
        BY <1>2, <1>3, FlatAppend
    <2>2. <<>> \in T
        <3>1. s \o <<>> = s /\ <<>> \in Seq(B)
            BY EmptySeq, ConcatEmptySeq
        <3>2. Flat(s) \o <<>> = Flat(s)
            BY <1>2, <1>3, ConcatEmptySeq
        <3> QED BY <1>1, <3>1, <3>2
    <2>3. ASSUME NEW u \in Seq(B), NEW e \in B, u \in T PROVE Append(u, e) \in T
        <3>1. Append(u, e) \in Seq(B) /\ s \o u \in Seq(B)
            BY AppendProperties, ConcatProperties
        <3>2. s \o Append(u, e) = Append(s \o u, e)
            BY JoinAppend
        <3>3. Flat(Append(s \o u, e)) = Flat(s \o u) \o e /\ Flat(Append(u, e)) = Flat(u) \o e
            BY <3>1, <2>1
        <3>4. Flat(s) \in Seq(S) /\ Flat(u) \in Seq(S) /\ e \in Seq(S)
            BY <2>1, <1>2, <1>3
        <3>5. (Flat(s) \o Flat(u)) \o e = Flat(s) \o (Flat(u) \o e)
            BY <3>4, ConcatAssociative
        <3> QED BY <2>3, <3>1, <3>2, <3>3, <3>5
    <2> HIDE DEF T
    <2>4. Seq(B) \subseteq T
        BY <2>2, <2>3, ListInduction
    <2> USE DEF T
    <2> QED BY <2>4
<1> QED BY <1>1, <1>2, <1>3

\* A set that holds each number up to N if it holds the greater ones.
LEMMA Downward ==
    ASSUME NEW N \in Nat, NEW T, \A s \in 0..N : (\A r \in (s + 1)..N : r \in T) => s \in T
    PROVE  \A s \in 0..N : s \in T
<1> SUFFICES ASSUME NEW m \in 0..N, m \notin T PROVE FALSE
    OBVIOUS
<1> DEFINE D == {d \in 0..N : N - d \notin T}
<1>1. N - m \in D /\ D \subseteq Nat
    BY N - (N - m) = m, N - m \in 0..N
<1>2. PICK d \in D : \A e \in D : d <= e
    <2> HIDE DEF D
    <2> QED BY <1>1, MinExists
<1>3. ASSUME NEW r \in (N - d + 1)..N PROVE r \in T
    <2>1. N - r \in 0..N /\ ~(d <= N - r) /\ N - (N - r) = r
        BY <1>2, <1>3
    <2> QED BY <1>2, <2>1
<1>4. N - d \in 0..N
    BY <1>2
<1> QED BY <1>2, <1>3, <1>4

\* The functions that go from each s up to next[s], until N.
Walking(f, V, base, N, G, next) ==
    /\ f \in [0..N -> V]
    /\ \A s \in 0..N : f[s] = IF s = N THEN base ELSE G[s][f[next[s]]]

\* A function that is defined from the end of a text backwards exists.
LEMMA Walk ==
    ASSUME NEW V, NEW base \in V, NEW N \in Nat, NEW G \in [0..N -> [V -> V]],
           NEW next \in [0..N -> 0..N], \A s \in 0..N : s # N => s < next[s]
    PROVE  \E f : Walking(f, V, base, N, G, next)
<1> DEFINE Is(g, d) == /\ g \in [(N - d)..N -> V]
                       /\ \A s \in (N - d)..N : g[s] = IF s = N THEN base ELSE G[s][g[next[s]]]
           U == {d \in Nat : d <= N => \E g : Is(g, d)}
<1>1. 0 \in U
    <2>1. N - 0 = N
        OBVIOUS
    <2>2. Is([s \in N..N |-> base], 0)
        BY <2>1
    <2> QED BY <2>2
<1>2. ASSUME NEW d \in Nat, d \in U, d + 1 <= N PROVE \E g : Is(g, d + 1)
    <2>1. PICK g : Is(g, d)
        <3>1. d <= N
            BY <1>2
        <3> HIDE DEF Is
        <3> QED BY <1>2, <3>1
    <2>2. PICK t : t = N - (d + 1)
        OBVIOUS
    <2>3. /\ t \in 0..N /\ t # N /\ next[t] \in (N - d)..N /\ t + 1 = N - d
          /\ \A s \in t..N : s = t \/ s \in (N - d)..N
          /\ \A s \in (N - d)..N : s \in 0..N /\ s # t
        <3>1. t \in 0..N /\ t # N /\ t + 1 = N - d
            BY <1>2, <2>2
        <3>2. PICK u \in 0..N : u = next[t] /\ t < u
            BY <3>1
        <3>3. N - d <= u
            BY <1>2, <2>2, <3>2
        <3>4. next[t] \in (N - d)..N
            BY <1>2, <3>2, <3>3
        <3>5. /\ \A s \in t..N : s = t \/ s \in (N - d)..N
              /\ \A s \in (N - d)..N : s \in 0..N /\ s # t
            BY <1>2, <2>2
        <3> QED BY <3>1, <3>4, <3>5
    <2>4. PICK v : v = G[t][g[next[t]]]
        OBVIOUS
    <2>5. v \in V
        BY <2>1, <2>3, <2>4
    <2>6. PICK h : h = [s \in t..N |-> IF s = t THEN v ELSE g[s]]
        OBVIOUS
    <2>7. h \in [t..N -> V] /\ h[t] = v /\ \A s \in (N - d)..N : h[s] = g[s]
        <3>1. \A s \in t..N : (IF s = t THEN v ELSE g[s]) \in V
            BY <2>1, <2>3, <2>5
        <3>2. \A s \in (N - d)..N : s \in t..N
            BY <2>3, <1>2
        <3>3. t \in t..N
            BY <2>3
        <3> QED BY <2>3, <2>6, <3>1, <3>2, <3>3
    <2>8. ASSUME NEW s \in t..N PROVE h[s] = IF s = N THEN base ELSE G[s][h[next[s]]]
        <3>1. CASE s = t
            <4>1. h[next[t]] = g[next[t]]
                BY <2>3, <2>7
            <4> QED BY <2>3, <2>4, <2>7, <3>1, <4>1
        <3>2. CASE s \in (N - d)..N
            <4>1. h[s] = g[s] /\ g[s] = IF s = N THEN base ELSE G[s][g[next[s]]]
                BY <2>1, <2>7, <3>2
            <4>2. CASE s = N
                BY <4>1, <4>2
            <4>3. CASE s # N
                <5>1. s \in 0..N
                    BY <2>3, <3>2
                <5>2. s < next[s] /\ next[s] \in 0..N
                    BY <4>3, <5>1
                <5>3. next[s] \in (N - d)..N
                    BY <3>2, <5>1, <5>2, <1>2
                <5>4. h[next[s]] = g[next[s]]
                    BY <2>7, <5>3
                <5> QED BY <4>1, <4>3, <5>4
            <4> QED BY <4>2, <4>3
        <3> QED BY <2>3, <3>1, <3>2
    <2> QED BY <2>2, <2>7, <2>8
<1>3. ASSUME NEW d \in Nat, d \in U PROVE d + 1 \in U
    <2> HIDE DEF Is
    <2>1. d + 1 <= N => \E g : Is(g, d + 1)
        BY <1>2, <1>3
    <2> QED BY <2>1
<1>4. N \in U
    <2> HIDE DEF U
    <2> QED BY <1>1, <1>3, NumberInduction
<1>5. PICK g : Is(g, N)
    <2>1. N <= N
        OBVIOUS
    <2> HIDE DEF Is
    <2> QED BY <1>4, <2>1
<1>6. N - N = 0
    OBVIOUS
<1>7. Walking(g, V, base, N, G, next)
    BY <1>5, <1>6 DEF Walking
<1> QED BY <1>7

\* The least and the greatest of some numbers up to a bound.
LEMMA LeastFacts ==
    ASSUME NEW S, S \subseteq Nat, S # {}
    PROVE  Least(S) \in S /\ \A y \in S : Least(S) <= y
<1>1. \E x \in S : \A y \in S : x <= y
    BY MinExists
<1> QED BY <1>1 DEF Least

LEMMA GreatestFacts ==
    ASSUME NEW S, NEW N \in Nat, S \subseteq 0..N, S # {}
    PROVE  Greatest(S) \in S /\ \A y \in S : y <= Greatest(S)
<1> DEFINE D == {d \in 0..N : N - d \in S}
<1>1. PICK e \in S : e \in 0..N
    OBVIOUS
<1>2. N - e \in D /\ D \subseteq Nat
    BY <1>1, N - (N - e) = e, N - e \in 0..N
<1>3. PICK d \in D : \A x \in D : d <= x
    <2> HIDE DEF D
    <2> QED BY <1>2, MinExists
<1>4. ASSUME NEW y \in S PROVE y <= N - d
    <2>1. y \in 0..N /\ N - y \in 0..N /\ N - (N - y) = y
        OBVIOUS
    <2>2. d <= N - y
        BY <1>3, <1>4, <2>1
    <2> QED BY <1>3, <2>1, <2>2
<1>5. \E x \in S : \A y \in S : y <= x
    BY <1>3, <1>4
<1> QED BY <1>5 DEF Greatest

-----------------------------------------------------------------------------
(* Texts, and what the scan for pseudonyms makes of one.                   *)

Text == Seq(Symbols)
\* A piece of a restored text: a symbol, or a value with the pseudonym it came from.
Letters == Symbols \cup {"real"}
Bit == Seq(Letters) \ {<<>>}

\* A part of a list, element by element.
LEMMA CutFacts ==
    ASSUME NEW S, NEW l \in Seq(S), NEW s \in Nat, NEW e \in Nat, s <= e, e <= Len(l)
    PROVE  /\ SubSeq(l, s + 1, e) \in Seq(S) /\ Len(SubSeq(l, s + 1, e)) = e - s
           /\ \A i \in 1..(e - s) : SubSeq(l, s + 1, e)[i] = l[s + i]
<1>1. Len(l) \in Nat /\ \A i \in (s + 1)..e : l[i] \in S
    <2>1. Len(l) \in Nat
        BY LenProperties
    <2>2. \A i \in (s + 1)..e : i \in 1..Len(l)
        BY <2>1
    <2> QED BY <2>1, <2>2, ElementOfSeq
<1>2. s + 1 \in Int /\ e \in Int
    OBVIOUS
<1>3. /\ SubSeq(l, s + 1, e) \in Seq(S)
      /\ Len(SubSeq(l, s + 1, e)) = IF s + 1 <= e THEN e - (s + 1) + 1 ELSE 0
      /\ \A i \in 1..(e - (s + 1) + 1) : SubSeq(l, s + 1, e)[i] = l[(s + 1) + i - 1]
    BY <1>1, <1>2, SubSeqProperties
<1>4. e - (s + 1) + 1 = e - s /\ \A i \in 1..(e - s) : (s + 1) + i - 1 = s + i
    OBVIOUS
<1>5. (IF s + 1 <= e THEN e - s ELSE 0) = e - s
    OBVIOUS
<1> QED BY <1>3, <1>4, <1>5

\* The text b stands in t, after the first c symbols.
Window(t, c, b) ==
    /\ t \in Text /\ b \in Text /\ c \in Nat /\ c + Len(b) <= Len(t)
    /\ \A i \in 1..Len(b) : b[i] = t[c + i]

\* The parts of a text are windows of it.
LEMMA Windows ==
    /\ \A t, s, e : t \in Text /\ s \in Nat /\ e \in Nat /\ s <= e /\ e <= Len(t) =>
           Window(t, s, SubSeq(t, s + 1, e)) /\ Len(SubSeq(t, s + 1, e)) = e - s
    /\ \A a, b : a \in Text /\ b \in Text => Window(a \o b, 0, a) /\ Window(a \o b, Len(a), b)
<1>1. ASSUME NEW t \in Text, NEW s \in Nat, NEW e \in Nat, s <= e, e <= Len(t)
      PROVE  Window(t, s, SubSeq(t, s + 1, e)) /\ Len(SubSeq(t, s + 1, e)) = e - s
    <2>1. /\ SubSeq(t, s + 1, e) \in Text /\ Len(SubSeq(t, s + 1, e)) = e - s
          /\ \A i \in 1..(e - s) : SubSeq(t, s + 1, e)[i] = t[s + i]
        BY <1>1, CutFacts DEF Text
    <2>2. s + (e - s) <= Len(t)
        BY <1>1
    <2> QED BY <2>1, <2>2 DEF Window
<1>2. ASSUME NEW a \in Text, NEW b \in Text PROVE Window(a \o b, 0, a) /\ Window(a \o b, Len(a), b)
    <2>1. /\ a \o b \in Text /\ Len(a \o b) = Len(a) + Len(b) /\ Len(a) \in Nat /\ Len(b) \in Nat
          /\ \A i \in 1..Len(a) + Len(b) : (a \o b)[i] = IF i <= Len(a) THEN a[i] ELSE b[i - Len(a)]
        BY ConcatProperties, LenProperties DEF Text
    <2>2. \A i \in 1..Len(a) : i \in 1..Len(a) + Len(b) /\ i <= Len(a) /\ 0 + i = i
        BY <2>1
    <2>3. \A i \in 1..Len(b) : Len(a) + i \in 1..Len(a) + Len(b) /\ ~(Len(a) + i <= Len(a))
            /\ (Len(a) + i) - Len(a) = i
        BY <2>1
    <2>4. 0 + Len(a) <= Len(a) + Len(b) /\ Len(a) + Len(b) <= Len(a) + Len(b)
        BY <2>1
    <2>5. \A i \in 1..Len(a) : a[i] = (a \o b)[0 + i]
        BY <2>1, <2>2
    <2>6. \A i \in 1..Len(b) : b[i] = (a \o b)[Len(a) + i]
        BY <2>1, <2>3
    <2> QED BY <2>1, <2>4, <2>5, <2>6 DEF Window
<1> QED BY <1>1, <1>2

SpanIn(t, c, b, s, e) == SubSeq(b, s + 1, e) = SubSeq(t, c + s + 1, c + e)

\* What a window holds from s to e the text holds there.
LEMMA WindowSpan ==
    ASSUME NEW t, NEW c, NEW b, Window(t, c, b), NEW s \in Nat, NEW e \in Nat, s <= e, e <= Len(b)
    PROVE  SpanIn(t, c, b, s, e)
<1>1. t \in Text /\ b \in Text /\ c \in Nat /\ Len(t) \in Nat /\ Len(b) \in Nat /\ c + Len(b) <= Len(t)
    BY LenProperties DEF Window, Text
<1>2. /\ SubSeq(b, s + 1, e) \in Text /\ Len(SubSeq(b, s + 1, e)) = e - s
      /\ \A i \in 1..(e - s) : SubSeq(b, s + 1, e)[i] = b[s + i]
    BY <1>1, CutFacts DEF Text
<1>3. PICK u \in Nat, v \in Nat : u = c + s /\ v = c + e
    BY <1>1
<1>4. u <= v /\ v <= Len(t) /\ v - u = e - s
    BY <1>1, <1>3
<1>5. /\ SubSeq(t, u + 1, v) \in Text /\ Len(SubSeq(t, u + 1, v)) = e - s
      /\ \A i \in 1..(e - s) : SubSeq(t, u + 1, v)[i] = t[u + i]
    <2>1. /\ SubSeq(t, u + 1, v) \in Text /\ Len(SubSeq(t, u + 1, v)) = v - u
          /\ \A i \in 1..(v - u) : SubSeq(t, u + 1, v)[i] = t[u + i]
        <3>1. t \in Seq(Symbols) /\ u \in Nat /\ v \in Nat /\ u <= v /\ v <= Len(t)
            BY <1>1, <1>4 DEF Text
        <3> QED BY <3>1, CutFacts DEF Text
    <2> QED BY <1>4, <2>1
<1>6. ASSUME NEW i \in 1..(e - s) PROVE b[s + i] = t[u + i]
    <2>1. s + i \in 1..Len(b) /\ c + (s + i) = u + i
        BY <1>1, <1>3
    <2>2. b[s + i] = t[c + (s + i)]
        BY <2>1 DEF Window
    <2> QED BY <2>1, <2>2
<1>7. SubSeq(b, s + 1, e) = SubSeq(t, u + 1, v)
    BY <1>2, <1>5, <1>6, SeqEqual DEF Text
<1> QED BY <1>3, <1>7 DEF SpanIn

\* The longest key at an offset.
Ends(t, s, e) ==
    /\ e \in s..Len(t)
    /\ e > s => SubSeq(t, s + 1, e) \in Keys
    /\ \A f \in (s + 1)..Len(t) : SubSeq(t, s + 1, f) \in Keys => f <= e

\* The pseudonym found at a place ends where it ends, and none that ends later is there.
LEMMA LongestFacts ==
    ASSUME NEW t \in Text, NEW s \in 0..Len(t)
    PROVE  Ends(t, s, Longest(t, s)) /\ \A e : Ends(t, s, e) => e = Longest(t, s)
<1> DEFINE S == {s} \cup {e \in (s + 1)..Len(t) : SubSeq(t, s + 1, e) \in Keys}
<1>1. Len(t) \in Nat /\ s \in Nat /\ s <= Len(t)
    BY LenProperties DEF Text
<1>2. S \subseteq 0..Len(t) /\ S # {}
    BY <1>1
<1>3. Longest(t, s) = Greatest(S)
    BY DEF Longest
<1>4. Greatest(S) \in S /\ \A y \in S : y <= Greatest(S)
    <2> HIDE DEF S
    <2> QED BY <1>1, <1>2, GreatestFacts
<1>5. Ends(t, s, Greatest(S))
    <2>1. PICK g : g = Greatest(S)
        OBVIOUS
    <2>2. g \in S /\ \A y \in S : y <= g
        BY <1>4, <2>1
    <2>3. Ends(t, s, g)
        BY <1>1, <2>2 DEF Ends
    <2> QED BY <2>1, <2>3
<1>6. ASSUME NEW e, NEW g, Ends(t, s, e), Ends(t, s, g) PROVE e = g
    <2>1. e \in s..Len(t) /\ g \in s..Len(t)
        BY <1>6 DEF Ends
    <2>2. CASE e < g
        BY <1>1, <1>6, <2>1, <2>2 DEF Ends
    <2>3. CASE g < e
        BY <1>1, <1>6, <2>1, <2>3 DEF Ends
    <2> QED BY <1>1, <2>1, <2>2, <2>3
<1> QED BY <1>3, <1>5, <1>6

\* A pseudonym found in the text that ends in the window is the one found in the window.
LEMMA WindowLongest ==
    ASSUME NEW t, NEW c, NEW b, Window(t, c, b), NEW s \in 0..Len(b),
           Longest(t, c + s) <= c + Len(b)
    PROVE  Longest(t, c + s) = c + Longest(b, s)
<1>1. t \in Text /\ b \in Text /\ c \in Nat /\ Len(t) \in Nat /\ Len(b) \in Nat
        /\ c + Len(b) <= Len(t) /\ s \in Nat
    BY LenProperties DEF Window, Text
<1>2. PICK u \in 0..Len(t) : u = c + s
    BY <1>1
<1>3. PICK e : e = Longest(t, u)
    OBVIOUS
<1>4. Ends(t, u, e) /\ e <= c + Len(b)
    BY <1>1, <1>2, <1>3, LongestFacts
<1>5. PICK d \in Nat : e = c + d /\ s <= d /\ d <= Len(b)
    <2>1. e \in u..Len(t)
        BY <1>4 DEF Ends
    <2>2. e - c \in Nat /\ e = c + (e - c) /\ s <= e - c /\ e - c <= Len(b)
        BY <1>1, <1>2, <1>4, <2>1
    <2> QED BY <2>2
<1>6. ASSUME NEW f \in Nat, s <= f, f <= Len(b) PROVE SubSeq(b, s + 1, f) = SubSeq(t, u + 1, c + f)
    <2>1. SubSeq(b, s + 1, f) = SubSeq(t, c + s + 1, c + f)
        <3>1. Window(t, c, b) /\ s \in Nat /\ f \in Nat /\ s <= f /\ f <= Len(b)
            BY <1>1, <1>6
        <3>2. SpanIn(t, c, b, s, f)
            BY <3>1, WindowSpan, Zenon
        <3> QED BY <3>2 DEF SpanIn
    <2> QED BY <1>2, <2>1
<1>7. d > s => SubSeq(b, s + 1, d) \in Keys
    <2>1. d > s => e > u
        BY <1>1, <1>2, <1>5
    <2> QED BY <1>4, <1>5, <1>6, <2>1 DEF Ends
<1>8. ASSUME NEW f \in (s + 1)..Len(b), SubSeq(b, s + 1, f) \in Keys PROVE f <= d
    <2>1. f \in Nat /\ s <= f /\ f <= Len(b) /\ c + f \in (u + 1)..Len(t)
        BY <1>1, <1>2
    <2>2. SubSeq(t, u + 1, c + f) \in Keys
        BY <1>6, <1>8, <2>1
    <2>3. c + f <= e
        BY <1>4, <2>1, <2>2 DEF Ends
    <2> QED BY <1>1, <1>5, <2>1, <2>3
<1>9. Ends(b, s, d)
    BY <1>1, <1>5, <1>7, <1>8 DEF Ends
<1>10. d = Longest(b, s)
    BY <1>1, <1>9, LongestFacts
<1> QED BY <1>2, <1>3, <1>5, <1>10

\* The scan as a function of where it stands: what it has made from there on.
From(f, t) ==
    /\ f \in [0..Len(t) -> Seq(Bit)]
    /\ \A s \in 0..Len(t) :
          f[s] = IF s = Len(t) THEN <<>>
                 ELSE IF Longest(t, s) > s THEN Piece(t, <<s, Longest(t, s)>>) \o f[Longest(t, s)]
                 ELSE <<<<t[s + 1]>>>> \o f[s + 1]

Scan(g, t) ==
    /\ g \in [0..Len(t) -> SUBSET (Nat \X Nat)]
    /\ \A s \in 0..Len(t) :
          g[s] = IF s = Len(t) THEN {}
                 ELSE IF Longest(t, s) > s THEN {<<s, Longest(t, s)>>} \cup g[Longest(t, s)]
                 ELSE g[s + 1]

\* A letter and an original, as pieces of what is written.
LEMMA BitFacts ==
    /\ \A e \in Letters : <<e>> \in Bit /\ Len(<<e>>) = 1
    /\ \A u \in Text : /\ u \in Seq(Letters) /\ Original(u) \in Bit /\ Len(Original(u)) = Len(u) + 1
                       /\ Tail(Original(u)) = u
<1>1. ASSUME NEW e \in Letters PROVE <<e>> \in Bit /\ Len(<<e>>) = 1
    <2>1. <<e>> \in Seq(Letters) /\ Len(<<e>>) = 1 /\ Len(<<>>) = 0
        OBVIOUS
    <2>2. <<e>> # <<>>
        BY <2>1
    <2> QED BY <2>1, <2>2 DEF Bit
<1>2. ASSUME NEW u \in Text
      PROVE  u \in Seq(Letters) /\ Original(u) \in Bit /\ Len(Original(u)) = Len(u) + 1 /\ Tail(Original(u)) = u
    <2>1. "real" \in Letters /\ Symbols \subseteq Letters
        BY DEF Letters
    <2>2. u \in Seq(Letters)
        BY <2>1, SeqMonotonic DEF Text
    <2>3. PICK r \in Seq(Letters) : r = <<"real">> /\ Len(r) = 1
        <3>1. <<"real">> \in Bit /\ Len(<<"real">>) = 1
            BY <1>1, <2>1
        <3> QED BY <3>1 DEF Bit
    <2>4. PICK o : o = r \o u
        OBVIOUS
    <2>5. /\ o \in Seq(Letters) /\ Len(o) = 1 + Len(u) /\ Len(u) \in Nat
          /\ \A i \in 1..(1 + Len(u)) : o[i] = IF i <= 1 THEN r[i] ELSE u[i - 1]
        BY <2>2, <2>3, <2>4, ConcatProperties, LenProperties
    <2>6. o # <<>>
        <3>1. Len(<<>>) = 0
            OBVIOUS
        <3> QED BY <2>5, <3>1
    <2>7. Tail(o) \in Seq(Letters) /\ Len(Tail(o)) = Len(u) /\ \A i \in 1..Len(u) : Tail(o)[i] = u[i]
        <3>1. Tail(o) \in Seq(Letters) /\ Len(Tail(o)) = Len(o) - 1
                /\ \A i \in 1..(Len(o) - 1) : Tail(o)[i] = o[i + 1]
            BY <2>5, <2>6, HeadTailProperties
        <3>2. \A i \in 1..Len(u) : i \in 1..(Len(o) - 1) /\ i + 1 \in 1..(1 + Len(u)) /\ ~(i + 1 <= 1)
                /\ (i + 1) - 1 = i
            BY <2>5
        <3> QED BY <2>5, <3>1, <3>2
    <2>8. Tail(o) = u
        BY <2>2, <2>5, <2>7, SeqEqual
    <2> QED BY <2>2, <2>3, <2>4, <2>5, <2>6, <2>8 DEF Original, Bit
<1> QED BY <1>1, <1>2

\* Text that is written as it came.
LEMMA LiteralType ==
    ASSUME NEW t \in Text
    PROVE  Literal(t) \in Seq(Bit) /\ Len(Literal(t)) = Len(t) /\ \A i \in 1..Len(t) : Literal(t)[i] = <<t[i]>>
<1>1. Len(t) \in Nat /\ DOMAIN t = 1..Len(t) /\ \A i \in 1..Len(t) : t[i] \in Symbols
    BY LenProperties, ElementOfSeq DEF Text
<1>2. \A i \in 1..Len(t) : <<t[i]>> \in Bit
    BY <1>1, BitFacts DEF Letters
<1>3. Literal(t) = [i \in 1..Len(t) |-> <<t[i]>>]
    BY <1>1 DEF Literal
<1>4. Literal(t) \in [1..Len(t) -> Bit]
    BY <1>2, <1>3
<1>5. Literal(t) \in Seq(Bit)
    BY <1>1, <1>4, SeqDef
<1>6. Len(Literal(t)) \in Nat /\ 1..Len(Literal(t)) = 1..Len(t)
    BY <1>4, <1>5, LenProperties
<1>7. Len(Literal(t)) = Len(t)
    BY <1>1, <1>6
<1> QED BY <1>3, <1>5, <1>7

LEMMA PieceType ==
    ASSUME NEW t \in Text, NEW s \in Nat, NEW e \in Nat, s <= e, e <= Len(t)
    PROVE  Piece(t, <<s, e>>) \in Seq(Bit)
<1>1. PICK u \in Text : u = Span(t, <<s, e>>)
    <2>1. Span(t, <<s, e>>) = SubSeq(t, s + 1, e)
        BY DEF Span
    <2> QED BY <2>1, CutFacts DEF Text
<1>2. Literal(u) \in Seq(Bit)
    BY LiteralType
<1>3. <<Original(u)>> \in Seq(Bit)
    <2>2. Original(u) \in Bit
        BY BitFacts
    <2> QED BY <2>2
<1> QED BY <1>1, <1>2, <1>3 DEF Piece

LEMMA LetterType ==
    ASSUME NEW t \in Text, NEW s \in 0..Len(t), s # Len(t)
    PROVE  <<<<t[s + 1]>>>> \in Seq(Bit) /\ t[s + 1] \in Symbols
<1>1. Len(t) \in Nat /\ s + 1 \in 1..Len(t)
    BY LenProperties DEF Text
<1>2. t[s + 1] \in Symbols
    BY <1>1, ElementOfSeq DEF Text
<1>3. <<t[s + 1]>> \in Bit
    BY <1>2, BitFacts DEF Letters
<1> QED BY <1>2, <1>3

\* Where the scan goes from s.
Next1(t, s) == IF s = Len(t) THEN Len(t) ELSE IF Longest(t, s) > s THEN Longest(t, s) ELSE s + 1

Onward(t, s) ==
    /\ Next1(t, s) \in 0..Len(t) /\ (s # Len(t) => s < Next1(t, s) /\ Next1(t, s) \in (s + 1)..Len(t))
    /\ Longest(t, s) \in s..Len(t) /\ Longest(t, s) \in Nat /\ s \in Nat /\ Len(t) \in Nat

\* The scanner always goes on.
LEMMA NextFacts == ASSUME NEW t \in Text, NEW s \in 0..Len(t) PROVE Onward(t, s)
<1>1. Len(t) \in Nat
    BY LenProperties DEF Text
<1>2. PICK e \in s..Len(t) : e = Longest(t, s)
    BY LongestFacts DEF Ends
<1> QED BY <1>1, <1>2 DEF Next1, Onward

\* What is restored of a text is what a scan from its end finds at its beginning.
LEMMA UnmaskedIs == ASSUME NEW t \in Text PROVE \E f : From(f, t) /\ Unmasked(t) = f[0]
<1> DEFINE N == Len(t)
           part(s) == IF Longest(t, s) > s THEN Piece(t, <<s, Longest(t, s)>>) ELSE <<<<t[s + 1]>>>>
           made(f, s) == LET e == Longest(t, s) IN
                         IF s = N THEN <<>>
                         ELSE IF e > s THEN Piece(t, <<s, e>>) \o f[e]
                         ELSE <<<<t[s + 1]>>>> \o f[s + 1]
           G == [s \in 0..N |-> [x \in Seq(Bit) |-> IF s = N THEN x ELSE part(s) \o x]]
           next == [s \in 0..N |-> Next1(t, s)]
           Is(f) == f = [s \in 0..N |-> made(f, s)]
<1>1. N \in Nat /\ <<>> \in Seq(Bit)
    BY LenProperties, EmptySeq DEF Text
<1>2. ASSUME NEW s \in 0..N, s # N PROVE part(s) \in Seq(Bit)
    <2>1. s \in Nat /\ Longest(t, s) \in Nat /\ s <= Longest(t, s) /\ Longest(t, s) <= Len(t)
        BY NextFacts DEF Onward
    <2>2. Piece(t, <<s, Longest(t, s)>>) \in Seq(Bit)
        BY <2>1, PieceType
    <2>3. <<<<t[s + 1]>>>> \in Seq(Bit)
        BY <1>2, LetterType
    <2> QED BY <2>2, <2>3
<1>3. G \in [0..N -> [Seq(Bit) -> Seq(Bit)]]
    <2> HIDE DEF part
    <2>1. \A s \in 0..N : \A x \in Seq(Bit) : (IF s = N THEN x ELSE part(s) \o x) \in Seq(Bit)
        BY <1>2, ConcatProperties
    <2> QED BY <2>1
<1>4. next \in [0..N -> 0..N] /\ \A s \in 0..N : s # N => s < next[s]
    <2>1. \A s \in 0..N : Onward(t, s)
        BY NextFacts
    <2> QED BY <2>1 DEF Onward
<1>5. PICK f : Walking(f, Seq(Bit), <<>>, N, G, next)
    <2> HIDE DEF G, next, N
    <2> QED BY <1>1, <1>3, <1>4, Walk
<1>6. f \in [0..N -> Seq(Bit)]
    BY <1>5 DEF Walking
<1>7. ASSUME NEW s \in 0..N PROVE f[s] = made(f, s)
    <2>1. f[s] = IF s = N THEN <<>> ELSE G[s][f[next[s]]]
        BY <1>5 DEF Walking
    <2>2. CASE s = N
        BY <2>1, <2>2
    <2>3. CASE s # N
        <3>1. PICK n \in 0..N : n = Next1(t, s) /\ n = next[s]
            BY <1>4
        <3>2. f[n] \in Seq(Bit)
            BY <1>6
        <3>3. f[s] = part(s) \o f[n]
            BY <2>1, <2>3, <3>1, <3>2
        <3>4. n = IF Longest(t, s) > s THEN Longest(t, s) ELSE s + 1
            BY <2>3, <3>1 DEF Next1
        <3> QED BY <2>3, <3>3, <3>4
    <2> QED BY <2>2, <2>3
<1>8. Is(f)
    <2> HIDE DEF made
    <2> QED BY <1>6, <1>7
<1> DEFINE c == CHOOSE g : Is(g)
<1>9. Is(c)
    <2> HIDE DEF Is
    <2> QED BY <1>8
<1>10. Unmasked(t) = c[0]
    BY DEF Unmasked
<1> HIDE DEF c
<1>11. \A s \in 0..N : c[s] = made(c, s)
    <2> HIDE DEF made
    <2> QED BY <1>9
<1>12. c[0] = f[0]
    <2> DEFINE T == {s \in 0..N : c[s] = f[s]}
    <2>1. ASSUME NEW s \in 0..N, \A r \in (s + 1)..N : r \in T PROVE s \in T
        <3>1. s # N => Next1(t, s) \in (s + 1)..N
            <4>1. Onward(t, s)
                BY NextFacts
            <4> QED BY <4>1 DEF Onward
        <3>2. s # N => c[Next1(t, s)] = f[Next1(t, s)]
            BY <2>1, <3>1
        <3>3. made(c, s) = made(f, s)
            BY <3>2 DEF Next1
        <3> HIDE DEF made
        <3> QED BY <1>7, <1>11, <3>3
    <2> HIDE DEF T
    <2>2. \A s \in 0..N : s \in T
        BY <1>1, <2>1, Downward
    <2> USE DEF T
    <2> QED BY <1>1, <2>2
<1>13. From(f, t)
    BY <1>6, <1>7 DEF From
<1> QED BY <1>10, <1>12, <1>13

\* So are the pseudonyms found in it.
LEMMA MatchesIs == ASSUME NEW t \in Text PROVE \E g : Scan(g, t) /\ Matches(t) = g[0]
<1> DEFINE N == Len(t)
           M == SUBSET (Nat \X Nat)
           part(s) == IF Longest(t, s) > s THEN {<<s, Longest(t, s)>>} ELSE {}
           made(f, s) == LET e == Longest(t, s) IN
                         IF s = N THEN {} ELSE IF e > s THEN {<<s, e>>} \cup f[e] ELSE f[s + 1]
           G == [s \in 0..N |-> [x \in M |-> part(s) \cup x]]
           next == [s \in 0..N |-> Next1(t, s)]
           Is(f) == f = [s \in 0..N |-> made(f, s)]
<1>1. N \in Nat /\ {} \in M
    BY LenProperties DEF Text
<1>2. ASSUME NEW s \in 0..N PROVE part(s) \in M
    <2>1. s \in Nat /\ Longest(t, s) \in Nat
        BY NextFacts DEF Onward
    <2> QED BY <2>1
<1>3. G \in [0..N -> [M -> M]]
    <2> HIDE DEF part
    <2> QED BY <1>2
<1>4. next \in [0..N -> 0..N] /\ \A s \in 0..N : s # N => s < next[s]
    <2>1. \A s \in 0..N : Onward(t, s)
        BY NextFacts
    <2> QED BY <2>1 DEF Onward
<1>5. PICK f : Walking(f, M, {}, N, G, next)
    <2> HIDE DEF G, next, N, M
    <2> QED BY <1>1, <1>3, <1>4, Walk
<1>6. f \in [0..N -> M]
    BY <1>5 DEF Walking
<1>7. ASSUME NEW s \in 0..N PROVE f[s] = made(f, s)
    <2>1. f[s] = IF s = N THEN {} ELSE G[s][f[next[s]]]
        BY <1>5 DEF Walking
    <2>2. CASE s = N
        BY <2>1, <2>2
    <2>3. CASE s # N
        <3>1. PICK n \in 0..N : n = Next1(t, s) /\ n = next[s]
            BY <1>4
        <3>2. f[n] \in M
            BY <1>6
        <3>3. f[s] = part(s) \cup f[n]
            <4> HIDE DEF part, M
            <4> QED BY <2>1, <2>3, <3>1, <3>2
        <3>4. n = IF Longest(t, s) > s THEN Longest(t, s) ELSE s + 1
            BY <2>3, <3>1 DEF Next1
        <3> QED BY <2>3, <3>3, <3>4
    <2> QED BY <2>2, <2>3
<1>8. Is(f)
    <2> HIDE DEF made
    <2> QED BY <1>6, <1>7
<1> DEFINE c == CHOOSE g : Is(g)
<1>9. Is(c)
    <2> HIDE DEF Is
    <2> QED BY <1>8
<1>10. Matches(t) = c[0]
    BY DEF Matches
<1> HIDE DEF c
<1>11. \A s \in 0..N : c[s] = made(c, s)
    <2> HIDE DEF made
    <2> QED BY <1>9
<1>12. c[0] = f[0]
    <2> DEFINE T == {s \in 0..N : c[s] = f[s]}
    <2>1. ASSUME NEW s \in 0..N, \A r \in (s + 1)..N : r \in T PROVE s \in T
        <3>1. s # N => Next1(t, s) \in (s + 1)..N
            <4>1. Onward(t, s)
                BY NextFacts
            <4> QED BY <4>1 DEF Onward
        <3>2. s # N => c[Next1(t, s)] = f[Next1(t, s)]
            BY <2>1, <3>1
        <3>3. made(c, s) = made(f, s)
            BY <3>2 DEF Next1
        <3> HIDE DEF made
        <3> QED BY <1>7, <1>11, <3>3
    <2> HIDE DEF T
    <2>2. \A s \in 0..N : s \in T
        BY <1>1, <2>1, Downward
    <2> USE DEF T
    <2> QED BY <1>1, <2>2
<1>13. Scan(f, t)
    <2> HIDE DEF M
    <2>1. f \in [0..Len(t) -> SUBSET (Nat \X Nat)]
        BY <1>6 DEF M
    <2> QED BY <1>7, <2>1 DEF Scan
<1> QED BY <1>10, <1>12, <1>13

\* A match of the scan.
Found(t, m) ==
    /\ m \in Nat \X Nat /\ m[1] < m[2] /\ m[2] <= Len(t)
    /\ m[2] = Longest(t, m[1]) /\ SubSeq(t, m[1] + 1, m[2]) \in Keys

Apart(m, n) == m = n \/ m[2] <= n[1] \/ n[2] <= m[1]

ScanTo(g, t, s) == /\ \A m \in g[s] : Found(t, m) /\ s <= m[1]
                   /\ \A m \in g[s], n \in g[s] : Apart(m, n)

\* Each pseudonym found is the longest at its place, and no two of them overlap.
LEMMA ScanFacts ==
    ASSUME NEW t \in Text, NEW g, Scan(g, t)
    PROVE  \A s \in 0..Len(t) : ScanTo(g, t, s)
<1> DEFINE T == {s \in 0..Len(t) : ScanTo(g, t, s)}
<1>1. Len(t) \in Nat
    BY LenProperties DEF Text
<1>2. ASSUME NEW s \in 0..Len(t), \A r \in (s + 1)..Len(t) : r \in T PROVE s \in T
    <2>1. g[s] = IF s = Len(t) THEN {}
                 ELSE IF Longest(t, s) > s THEN {<<s, Longest(t, s)>>} \cup g[Longest(t, s)]
                 ELSE g[s + 1]
        BY DEF Scan
    <2>2. s \in Nat /\ Longest(t, s) \in s..Len(t) /\ Longest(t, s) \in Nat
        BY NextFacts DEF Onward
    <2>3. CASE s = Len(t)
        BY <2>1, <2>3 DEF ScanTo
    <2>4. CASE s # Len(t) /\ ~(Longest(t, s) > s)
        <3>1. g[s] = g[s + 1] /\ s + 1 \in (s + 1)..Len(t)
            BY <1>1, <2>1, <2>2, <2>4
        <3>2. ScanTo(g, t, s + 1)
            BY <1>2, <3>1
        <3>3. \A m \in g[s] : Found(t, m) /\ s + 1 <= m[1]
            BY <3>1, <3>2 DEF ScanTo
        <3>4. \A m \in g[s] : Found(t, m) /\ s <= m[1]
            BY <2>2, <3>3 DEF Found
        <3> QED BY <3>1, <3>2, <3>4 DEF ScanTo
    <2>5. CASE s # Len(t) /\ Longest(t, s) > s
        <3>1. PICK e \in Nat : e = Longest(t, s)
            BY <2>2
        <3>2. PICK m0 : m0 = <<s, e>>
            OBVIOUS
        <3>3. g[s] = {m0} \cup g[e] /\ e \in (s + 1)..Len(t) /\ m0 \in Nat \X Nat /\ m0[1] = s /\ m0[2] = e
            BY <1>1, <2>1, <2>2, <2>5, <3>1, <3>2
        <3>4. ScanTo(g, t, e)
            BY <1>2, <3>3
        <3>5. Found(t, m0)
            <4>1. SubSeq(t, s + 1, e) \in Keys
                BY <2>5, <3>1, LongestFacts DEF Ends
            <4> QED BY <1>1, <3>1, <3>3, <4>1 DEF Found
        <3>6. \A m \in g[e] : Found(t, m) /\ e <= m[1]
            BY <3>4 DEF ScanTo
        <3>7. \A m \in g[s] : Found(t, m) /\ s <= m[1]
            BY <2>2, <3>3, <3>5, <3>6 DEF Found
        <3>8. ASSUME NEW m \in g[s], NEW n \in g[s] PROVE Apart(m, n)
            <4>1. CASE m \in g[e] /\ n \in g[e]
                BY <3>4, <4>1 DEF ScanTo
            <4>2. CASE m = m0 \/ n = m0
                BY <3>3, <3>6, <4>2, <3>8 DEF Apart
            <4> QED BY <3>3, <4>1, <4>2
        <3> QED BY <3>7, <3>8 DEF ScanTo
    <2>6. ScanTo(g, t, s)
        BY <2>3, <2>4, <2>5
    <2> QED BY <2>6
<1> HIDE DEF T
<1>3. \A s \in 0..Len(t) : s \in T
    BY <1>1, <1>2, Downward
<1> QED BY <1>3 DEF T

LEMMA MatchesFacts ==
    ASSUME NEW t \in Text
    PROVE  /\ \A m \in Matches(t) : Found(t, m)
           /\ \A m \in Matches(t), n \in Matches(t) : Apart(m, n)
<1>1. PICK g : Scan(g, t) /\ Matches(t) = g[0]
    BY MatchesIs
<1>2. ScanTo(g, t, 0)
    <2>1. 0 \in 0..Len(t)
        BY LenProperties DEF Text
    <2> QED BY <1>1, <2>1, ScanFacts
<1> QED BY <1>1, <1>2 DEF ScanTo

\* The text ends with the start of a pseudonym where it says so, and nowhere before.
LEMMA SuffixFacts ==
    ASSUME NEW t \in Text
    PROVE  /\ SuffixPrefix(t) \in 0..Len(t)
           /\ SuffixPrefix(t) # Len(t) => \E k \in Keys : /\ Len(k) > Len(t) - SuffixPrefix(t)
                  /\ SubSeq(k, 1, Len(t) - SuffixPrefix(t)) = SubSeq(t, SuffixPrefix(t) + 1, Len(t))
           /\ \A s \in 0..Len(t) : s < SuffixPrefix(t) => \A k \in Keys :
                  Len(k) > Len(t) - s => SubSeq(k, 1, Len(t) - s) # SubSeq(t, s + 1, Len(t))
<1> DEFINE Goes(s, k) == Len(k) > Len(t) - s /\ SubSeq(k, 1, Len(t) - s) = SubSeq(t, s + 1, Len(t))
           S == {Len(t)} \cup {s \in 0..Len(t) : \E k \in Keys : Goes(s, k)}
<1>1. Len(t) \in Nat
    BY LenProperties DEF Text
<1>2. S \subseteq Nat /\ S # {} /\ S \subseteq 0..Len(t)
    BY <1>1
<1>3. PICK p : p = SuffixPrefix(t)
    OBVIOUS
<1>4. p = Least(S)
    BY <1>3 DEF SuffixPrefix
<1>5. p \in S /\ \A y \in S : p <= y
    <2> HIDE DEF S
    <2> QED BY <1>2, <1>4, LeastFacts
<1>6. p \in 0..Len(t) /\ (p # Len(t) => \E k \in Keys : Goes(p, k))
    <2> HIDE DEF Goes
    <2> QED BY <1>2, <1>5
<1>7. ASSUME NEW s \in 0..Len(t), s < p, NEW k \in Keys PROVE ~Goes(s, k)
    <2>1. s \notin S
        <3> HIDE DEF S
        <3> QED BY <1>2, <1>5, <1>6, <1>7
    <2> HIDE DEF Goes
    <2> QED BY <2>1
<1> QED BY <1>3, <1>6, <1>7

\* The text ends with a run of signs an address is made of, and no longer one.
LEMMA RunFacts ==
    ASSUME NEW t \in Text
    PROVE  /\ LastRun(t) \in 0..Len(t)
           /\ \A i \in (LastRun(t) + 1)..Len(t) : t[i] \in AddressLike
           /\ LastRun(t) > 0 => t[LastRun(t)] \notin AddressLike
<1> DEFINE S == {s \in 0..Len(t) : \A i \in (s + 1)..Len(t) : t[i] \in AddressLike}
<1>1. Len(t) \in Nat
    BY LenProperties DEF Text
<1>2. Len(t) \in S /\ S \subseteq Nat
    BY <1>1
<1>3. PICK p : p = LastRun(t)
    OBVIOUS
<1>4. p = Least(S)
    BY <1>3 DEF LastRun
<1>5. p \in S /\ \A y \in S : p <= y
    <2> HIDE DEF S
    <2> QED BY <1>2, <1>4, LeastFacts
<1>6. ASSUME p > 0, t[p] \in AddressLike PROVE FALSE
    <2>1. p - 1 \in 0..Len(t) /\ p \in Nat
        BY <1>1, <1>5, <1>6
    <2>2. \A i \in ((p - 1) + 1)..Len(t) : i = p \/ i \in (p + 1)..Len(t)
        BY <1>1, <2>1
    <2>3. p - 1 \in S
        BY <1>5, <1>6, <2>1, <2>2
    <2>4. p <= p - 1
        <3> HIDE DEF S
        <3> QED BY <1>5, <2>3
    <2> QED BY <2>1, <2>4
<1> QED BY <1>3, <1>5, <1>6

\* What is kept back: the first symbols that are not are settled.
Settled(t, c, d) ==
    /\ c \in 0..Len(t) /\ d \in 0..Len(t) /\ c <= d
    /\ d = SuffixPrefix(t) \/ d = LastRun(t)
    /\ d <= SuffixPrefix(t) /\ d <= LastRun(t)
    /\ c = d \/ \E m \in Matches(t) : m[1] = c /\ c < d /\ d < m[2]
    /\ \A m \in Matches(t) : ~(m[1] < c /\ c < m[2])

\* What is let go of ends before all that could go on, a pseudonym or an address, and in no
\* pseudonym that is complete.
LEMMA HoldFacts == ASSUME NEW t \in Text PROVE \E d : Settled(t, HoldFrom(t), d)
<1>1. Len(t) \in Nat /\ SuffixPrefix(t) \in 0..Len(t) /\ LastRun(t) \in 0..Len(t)
    BY LenProperties, SuffixFacts, RunFacts DEF Text
<1>2. PICK d : d = Least({SuffixPrefix(t), LastRun(t)})
    OBVIOUS
<1>3. d \in {SuffixPrefix(t), LastRun(t)} /\ \A y \in {SuffixPrefix(t), LastRun(t)} : d <= y
    <2>1. {SuffixPrefix(t), LastRun(t)} \subseteq Nat /\ {SuffixPrefix(t), LastRun(t)} # {}
        BY <1>1
    <2> QED BY <1>2, <2>1, LeastFacts
<1> DEFINE X == {x \in Matches(t) : x[2] > d /\ x[1] < d}
           S == {d} \cup {m[1] : m \in X}
<1>4. \A m \in Matches(t) : Found(t, m)
    BY MatchesFacts
<1>5. S \subseteq Nat /\ S # {}
    BY <1>1, <1>3, <1>4 DEF Found
<1>6. PICK c : c = HoldFrom(t)
    OBVIOUS
<1>7. c = Least(S)
    BY <1>2, <1>6 DEF HoldFrom
<1>8. c \in S /\ \A y \in S : c <= y
    <2> HIDE DEF S
    <2> QED BY <1>5, <1>7, LeastFacts
<1>9. c \in Nat /\ c <= d
    BY <1>5, <1>8
<1>10. c = d \/ \E m \in Matches(t) : m[1] = c /\ c < d /\ d < m[2]
    BY <1>1, <1>3, <1>4, <1>8 DEF Found
<1>11. ASSUME NEW m \in Matches(t), m[1] < c, c < m[2] PROVE FALSE
    <2>1. Found(t, m)
        BY <1>4
    <2>2. CASE c = d
        <3>1. m[1] \in S
            BY <2>1, <2>2, <1>11 DEF Found
        <3> QED BY <1>8, <1>9, <1>11, <2>1, <3>1 DEF Found
    <2>3. CASE c # d
        <3>1. PICK n \in Matches(t) : n[1] = c /\ c < d /\ d < n[2]
            BY <1>10, <2>3
        <3>2. Apart(m, n) /\ Found(t, n)
            BY <3>1, MatchesFacts
        <3> QED BY <1>9, <1>11, <2>1, <3>1, <3>2 DEF Apart, Found
    <2> QED BY <2>2, <2>3
<1>12. Settled(t, c, d)
    BY <1>1, <1>3, <1>9, <1>10, <1>11 DEF Settled
<1> QED BY <1>6, <1>12

-----------------------------------------------------------------------------
(* A text and a part of it: where the scans agree.                         *)

\* As far as no key runs on beyond x, the keys of T are those of x.
KeysAgree(T, x, s) == Longest(T, s) <= Len(x) /\ Longest(T, s) = Longest(x, s)

\* A pseudonym that ends in a window at the beginning is the one found there.
LEMMA WindowStart ==
    ASSUME NEW T, NEW x, Window(T, 0, x), NEW s \in 0..Len(x), Longest(T, s) <= Len(x)
    PROVE  Longest(T, s) = Longest(x, s)
<1>1. Len(x) \in Nat /\ s \in Nat /\ x \in Text
    BY LenProperties DEF Window, Text
<1>2. 0 + s = s /\ 0 + Len(x) = Len(x)
    BY <1>1
<1>3. Longest(T, 0 + s) <= 0 + Len(x)
    BY <1>2
<1>4. Longest(T, 0 + s) = 0 + Longest(x, s)
    BY <1>3, WindowLongest
<1>5. Longest(x, s) \in Nat
    <2>1. Onward(x, s)
        BY <1>1, NextFacts
    <2> QED BY <2>1 DEF Onward
<1> QED BY <1>2, <1>4, <1>5

\* Before the start of a pseudonym that could go on the same pseudonyms are found.
LEMMA HeadLongest ==
    ASSUME NEW T, NEW x, Window(T, 0, x), NEW s \in 0..Len(x), s < SuffixPrefix(x)
    PROVE  KeysAgree(T, x, s)
<1>1. T \in Text /\ x \in Text /\ Len(T) \in Nat /\ Len(x) \in Nat /\ Len(x) <= Len(T) /\ s \in Nat
    BY LenProperties DEF Window, Text
<1>2. s \in 0..Len(T)
    BY <1>1
<1>3. PICK e : e = Longest(T, s)
    OBVIOUS
<1>4. Ends(T, s, e)
    BY <1>1, <1>2, <1>3, LongestFacts
<1>5. e \in s..Len(T)
    BY <1>4 DEF Ends
<1>6. ASSUME e > Len(x) PROVE FALSE
    <2>1. PICK k \in Keys : k = SubSeq(T, s + 1, e)
        <3>1. e > s
            BY <1>1, <1>5, <1>6
        <3>2. SubSeq(T, s + 1, e) \in Keys
            BY <1>4, <3>1 DEF Ends
        <3> QED BY <3>2
    <2>2. PICK n \in Nat : n = Len(x) - s
        BY <1>1
    <2>3. Len(k) = e - s /\ \A i \in 1..(e - s) : k[i] = T[s + i]
        BY <1>1, <1>5, <2>1, CutFacts DEF Text
    <2>4. k \in Text
        BY KeysAssumption DEF Text
    <2>5. e - s \in Nat /\ n < e - s
        BY <1>1, <1>5, <1>6, <2>2
    <2>6. SubSeq(k, 0 + 1, n) \in Text /\ Len(SubSeq(k, 0 + 1, n)) = n - 0
          /\ \A i \in 1..(n - 0) : SubSeq(k, 0 + 1, n)[i] = k[0 + i]
        BY <2>3, <2>4, <2>5, CutFacts DEF Text
    <2>7. SubSeq(x, s + 1, Len(x)) \in Text /\ Len(SubSeq(x, s + 1, Len(x))) = Len(x) - s
          /\ \A i \in 1..(Len(x) - s) : SubSeq(x, s + 1, Len(x))[i] = x[s + i]
        BY <1>1, CutFacts DEF Text
    <2>8. SubSeq(k, 1, n) = SubSeq(x, s + 1, Len(x))
        <3>1. PICK a : a = SubSeq(k, 0 + 1, n)
            OBVIOUS
        <3>2. PICK b : b = SubSeq(x, s + 1, Len(x))
            OBVIOUS
        <3>3. a \in Text /\ b \in Text /\ Len(a) = n /\ Len(b) = n
            BY <2>2, <2>6, <2>7, <3>1, <3>2
        <3>4. ASSUME NEW i \in 1..n PROVE a[i] = b[i]
            <4>1. a[i] = k[i]
                BY <2>2, <2>6, <3>1
            <4>2. b[i] = x[s + i]
                BY <2>2, <2>7, <3>2
            <4>3. k[i] = T[s + i]
                BY <2>3, <2>5
            <4>4. x[s + i] = T[0 + (s + i)] /\ s + i \in Nat
                BY <1>1, <2>2 DEF Window
            <4> QED BY <1>1, <4>1, <4>2, <4>3, <4>4
        <3>5. a = b
            BY <3>3, <3>4, SeqEqual DEF Text
        <3> QED BY <3>1, <3>2, <3>5
    <2>9. Len(k) > Len(x) - s /\ SubSeq(k, 1, Len(x) - s) = SubSeq(x, s + 1, Len(x))
        BY <2>2, <2>3, <2>5, <2>8
    <2> QED BY <1>1, <2>9, SuffixFacts
<1>7. e <= Len(x)
    BY <1>1, <1>5, <1>6
<1> QED BY <1>3, <1>7, WindowStart DEF KeysAgree

\* From c on the keys of T are those of R.
Shifted(T, c, R, s) ==
    /\ Longest(T, c + s) = c + Longest(R, s) /\ c + s \in 0..Len(T) /\ Longest(R, s) \in s..Len(R)
    /\ Longest(R, s) \in Nat /\ s \in Nat /\ c \in Nat /\ (c + s = Len(T)) = (s = Len(R))

\* R is what is left of T after c symbols.
Rest(T, c, R) == Window(T, c, R) /\ c + Len(R) = Len(T) /\ Len(R) \in Nat /\ Len(T) \in Nat /\ c \in 0..Len(T)

\* From the cut on the same pseudonyms are found in the rest.
LEMMA TailLongest ==
    ASSUME NEW T, NEW c, NEW R, Rest(T, c, R), NEW s \in 0..Len(R)
    PROVE  Shifted(T, c, R, s)
<1>1. T \in Text /\ R \in Text /\ c \in Nat /\ s \in Nat /\ c + Len(R) = Len(T) /\ Len(R) \in Nat
        /\ Len(T) \in Nat
    BY DEF Window, Rest
<1>2. c + s \in 0..Len(T)
    BY <1>1
<1>3. Longest(T, c + s) <= Len(T)
    <2>1. Onward(T, c + s)
        BY <1>1, <1>2, NextFacts
    <2> QED BY <1>1, <2>1 DEF Onward
<1>4. Longest(T, c + s) = c + Longest(R, s)
    <2>1. Longest(T, c + s) <= c + Len(R)
        BY <1>1, <1>3
    <2> QED BY <2>1, WindowLongest DEF Rest
<1>5. Onward(R, s)
    BY <1>1, NextFacts
<1>6. (c + s = Len(T)) = (s = Len(R))
    BY <1>1
<1> QED BY <1>1, <1>2, <1>4, <1>5, <1>6 DEF Shifted, Onward

\* The matches of R, as matches of T.
Later(G, c) == {<<m[1] + c, m[2] + c>> : m \in G}

\* From the cut on the same matches are found in the rest.
LEMMA TailScan ==
    ASSUME NEW T, NEW c, NEW R, Rest(T, c, R), NEW g, Scan(g, T), NEW h, Scan(h, R)
    PROVE  \A s \in 0..Len(R) : g[c + s] = Later(h[s], c)
<1> DEFINE D == {s \in 0..Len(R) : g[c + s] = Later(h[s], c)}
<1>1. Len(R) \in Nat
    BY DEF Rest
<1>2. ASSUME NEW s \in 0..Len(R), \A r \in (s + 1)..Len(R) : r \in D PROVE s \in D
    <2>1. Shifted(T, c, R, s)
        BY TailLongest
    <2>2. PICK e \in Nat : e = Longest(R, s)
        BY <2>1 DEF Shifted
    <2>3. PICK u \in 0..Len(T) : u = c + s
        BY <2>1 DEF Shifted
    <2>4. s \in Nat /\ c \in Nat /\ e \in s..Len(R) /\ Longest(T, u) = c + e /\ (u = Len(T)) = (s = Len(R))
        BY <2>1, <2>2, <2>3 DEF Shifted
    <2>5. g[u] = IF u = Len(T) THEN {} ELSE IF c + e > u THEN {<<u, c + e>>} \cup g[c + e] ELSE g[u + 1]
        BY <2>4 DEF Scan
    <2>6. h[s] = IF s = Len(R) THEN {} ELSE IF e > s THEN {<<s, e>>} \cup h[e] ELSE h[s + 1]
        BY <2>2 DEF Scan
    <2>7. CASE s = Len(R)
        BY <2>3, <2>4, <2>5, <2>6, <2>7 DEF Later
    <2>8. CASE s # Len(R) /\ e > s
        <3>1. e \in (s + 1)..Len(R)
            BY <1>1, <2>4, <2>8
        <3>2. g[c + e] = Later(h[e], c)
            BY <1>2, <3>1
        <3>3. g[u] = {<<u, c + e>>} \cup g[c + e]
            BY <2>3, <2>4, <2>5, <2>8
        <3>4. h[s] = {<<s, e>>} \cup h[e]
            BY <2>6, <2>8
        <3>5. <<u, c + e>> = <<s + c, e + c>>
            BY <2>3, <2>4
        <3>6. Later({<<s, e>>} \cup h[e], c) = {<<s + c, e + c>>} \cup Later(h[e], c)
            <4>1. PICK x : x = <<s, e>>
                OBVIOUS
            <4>2. x[1] = s /\ x[2] = e
                BY <4>1
            <4>3. Later({x} \cup h[e], c) = {<<x[1] + c, x[2] + c>>} \cup Later(h[e], c)
                BY Zenon DEF Later
            <4> QED BY <4>1, <4>2, <4>3, Zenon
        <3>7. g[u] = Later(h[s], c)
            BY <3>2, <3>3, <3>4, <3>5, <3>6
        <3> QED BY <2>3, <3>7
    <2>9. CASE s # Len(R) /\ ~(e > s)
        <3>1. s + 1 \in (s + 1)..Len(R) /\ u + 1 = c + (s + 1)
            BY <1>1, <2>3, <2>4, <2>9
        <3>2. g[c + (s + 1)] = Later(h[s + 1], c)
            BY <1>2, <3>1
        <3>3. g[u] = g[u + 1] /\ h[s] = h[s + 1]
            BY <2>3, <2>4, <2>5, <2>6, <2>9
        <3> QED BY <2>3, <3>1, <3>2, <3>3
    <2> QED BY <2>7, <2>8, <2>9
<1> HIDE DEF D
<1>3. \A s \in 0..Len(R) : s \in D
    BY <1>1, <1>2, Downward
<1> QED BY <1>3 DEF D

\* A match that is not at the cut is restored in T as it is in R.
LEMMA TailPiece ==
    ASSUME NEW T, NEW c, NEW R, Rest(T, c, R), NEW s \in 0..Len(R), NEW e \in 0..Len(R), s < e
    PROVE  /\ Span(T, <<c + s, c + e>>) = Span(R, <<s, e>>)
           /\ Restorable(T, <<c + s, c + e>>) => Restorable(R, <<s, e>>)
           /\ Restorable(R, <<s, e>>) /\ ~Restorable(T, <<c + s, c + e>>) => s = 0 /\ c > 0 /\ T[c] \in WordLike
           /\ s > 0 => Piece(T, <<c + s, c + e>>) = Piece(R, <<s, e>>)
<1>1. T \in Text /\ R \in Text /\ c \in Nat /\ s \in Nat /\ e \in Nat /\ c + Len(R) = Len(T)
        /\ Len(R) \in Nat /\ Len(T) \in Nat
    BY DEF Window, Rest
<1>2. SubSeq(R, s + 1, e) = SubSeq(T, c + s + 1, c + e)
    <2>1. SpanIn(T, c, R, s, e)
        BY <1>1, WindowSpan DEF Rest
    <2> QED BY <2>1 DEF SpanIn
<1>3. Span(T, <<c + s, c + e>>) = Span(R, <<s, e>>)
    BY <1>1, <1>2 DEF Span
<1>4. \A i \in 1..Len(R) : R[i] = T[c + i]
    BY DEF Rest, Window
<1>5. /\ s > 0 => R[s] = T[c + s]
      /\ e < Len(R) => R[e + 1] = T[c + e + 1]
      /\ (c + e < Len(T)) = (e < Len(R))
      /\ c + s > 0 => s > 0 \/ (s = 0 /\ c > 0 /\ c + s = c)
    <2>1. s > 0 => s \in 1..Len(R)
        BY <1>1
    <2>2. e < Len(R) => e + 1 \in 1..Len(R) /\ c + (e + 1) = c + e + 1
        BY <1>1
    <2> QED BY <1>1, <1>4, <2>1, <2>2
<1>6. Restorable(T, <<c + s, c + e>>) => Restorable(R, <<s, e>>)
    BY <1>1, <1>3, <1>5 DEF Restorable, WordBoundary
<1>7. Restorable(R, <<s, e>>) /\ ~Restorable(T, <<c + s, c + e>>) => s = 0 /\ c > 0 /\ T[c] \in WordLike
    BY <1>1, <1>3, <1>5 DEF Restorable, WordBoundary
<1>8. s > 0 => Piece(T, <<c + s, c + e>>) = Piece(R, <<s, e>>)
    BY <1>1, <1>3, <1>6, <1>7 DEF Piece
<1> QED BY <1>3, <1>6, <1>7, <1>8

\* From the cut on the rest is restored the same, but for a pseudonym that starts in a word
\* at the cut.
LEMMA TailFrom ==
    ASSUME NEW T, NEW c, NEW R, Rest(T, c, R), NEW f, From(f, T), NEW k, From(k, R)
    PROVE  /\ \A s \in 0..Len(R) : s > 0 => f[c + s] = k[s]
           /\ f[c] = k[0] \/ \E e \in 1..Len(R) : /\ e = Longest(R, 0) /\ c > 0 /\ T[c] \in WordLike
                                                  /\ ~Restorable(T, <<c, c + e>>)
<1> DEFINE Same(s) == f[c + s] = k[s]
           Torn(s, e) == e = Longest(R, s) /\ s < e /\ e \in 0..Len(R) /\ c > 0 /\ T[c] \in WordLike
                         /\ ~Restorable(T, <<c + s, c + e>>)
           OK(s) == Same(s) \/ (s = 0 /\ \E e \in 0..Len(R) : Torn(s, e))
           D == {s \in 0..Len(R) : OK(s)}
<1>1. Len(R) \in Nat /\ c \in Nat
    BY DEF Rest
<1>2. ASSUME NEW s \in 0..Len(R), \A r \in (s + 1)..Len(R) : r \in D PROVE s \in D
    <2>1. Shifted(T, c, R, s)
        BY TailLongest
    <2>2. PICK e \in Nat : e = Longest(R, s)
        BY <2>1 DEF Shifted
    <2>3. PICK u \in 0..Len(T) : u = c + s
        BY <2>1 DEF Shifted
    <2>4. s \in Nat /\ c \in Nat /\ e \in s..Len(R) /\ Longest(T, u) = c + e /\ (u = Len(T)) = (s = Len(R))
        BY <2>1, <2>2, <2>3 DEF Shifted
    <2>5. f[u] = IF u = Len(T) THEN <<>> ELSE IF c + e > u THEN Piece(T, <<u, c + e>>) \o f[c + e]
                 ELSE <<<<T[u + 1]>>>> \o f[u + 1]
        BY <2>4 DEF From
    <2>6. k[s] = IF s = Len(R) THEN <<>> ELSE IF e > s THEN Piece(R, <<s, e>>) \o k[e]
                 ELSE <<<<R[s + 1]>>>> \o k[s + 1]
        BY <2>2 DEF From
    <2>7. CASE s = Len(R)
        BY <2>3, <2>4, <2>5, <2>6, <2>7
    <2>8. CASE s # Len(R) /\ e > s
        <3>1. e \in (s + 1)..Len(R) /\ e # 0
            BY <1>1, <2>4, <2>8
        <3>2. f[c + e] = k[e]
            BY <1>2, <3>1
        <3>3. f[u] = Piece(T, <<u, c + e>>) \o f[c + e]
            BY <2>3, <2>4, <2>5, <2>8
        <3>4. k[s] = Piece(R, <<s, e>>) \o k[e]
            BY <2>6, <2>8
        <3>5. e \in 0..Len(R) /\ s < e
            BY <2>4, <2>8
        <3>6. Piece(T, <<u, c + e>>) = Piece(R, <<s, e>>) \/ (s = 0 /\ Torn(s, e))
            <4>1. CASE (Restorable(R, <<s, e>>) => Restorable(T, <<c + s, c + e>>))
                BY <2>3, <3>5, <4>1, TailPiece DEF Piece
            <4>2. CASE ~(Restorable(R, <<s, e>>) => Restorable(T, <<c + s, c + e>>))
                BY <2>2, <3>5, <4>2, TailPiece
            <4> QED BY <4>1, <4>2
        <3>7. Piece(T, <<u, c + e>>) = Piece(R, <<s, e>>) => Same(s)
            BY <2>3, <3>2, <3>3, <3>4
        <3> HIDE DEF Torn, Same
        <3> QED BY <3>5, <3>6, <3>7
    <2>9. CASE s # Len(R) /\ ~(e > s)
        <3>1. s + 1 \in (s + 1)..Len(R) /\ s + 1 \in 1..Len(R) /\ s + 1 # 0 /\ u + 1 = c + (s + 1)
            BY <1>1, <2>3, <2>4, <2>9
        <3>2. f[c + (s + 1)] = k[s + 1]
            BY <1>2, <3>1
        <3>3. R[s + 1] = T[u + 1]
            <4>1. PICK i \in 1..Len(R) : i = s + 1
                BY <3>1
            <4>2. R[i] = T[c + i] /\ c + i = u + 1
                BY <3>1, <4>1 DEF Rest, Window
            <4> QED BY <4>1, <4>2
        <3>6. u # Len(T) /\ ~(c + e > u) /\ s # Len(R) /\ ~(e > s)
            BY <2>3, <2>4, <2>9
        <3>4. f[u] = <<<<T[u + 1]>>>> \o f[u + 1] /\ k[s] = <<<<R[s + 1]>>>> \o k[s + 1]
            BY <2>5, <2>6, <3>6, Zenon
        <3>5. Same(s)
            BY <2>3, <3>1, <3>2, <3>3, <3>4
        <3> HIDE DEF Same, Torn
        <3> QED BY <3>5
    <2> QED BY <2>7, <2>8, <2>9
<1>3. \A s \in 0..Len(R) : s \in D
    <2> HIDE DEF D
    <2> QED BY <1>1, <1>2, Downward
<1>4. c + 0 = c /\ 0 \in 0..Len(R)
    BY <1>1
<1>5. ASSUME NEW e \in 0..Len(R), Torn(0, e)
      PROVE  e \in 1..Len(R) /\ e = Longest(R, 0) /\ c > 0 /\ T[c] \in WordLike /\ ~Restorable(T, <<c, c + e>>)
    BY <1>1, <1>4, <1>5
<1>6. Same(0) \/ \E e \in 0..Len(R) : Torn(0, e)
    <2>1. OK(0)
        BY <1>3, <1>4
    <2> HIDE DEF Same, Torn
    <2> QED BY <2>1
<1>7. \A s \in 0..Len(R) : s > 0 => f[c + s] = k[s]
    <2> SUFFICES ASSUME NEW s \in 0..Len(R), s > 0 PROVE Same(s)
        OBVIOUS
    <2>1. OK(s) /\ s # 0
        BY <1>1, <1>3
    <2> HIDE DEF Same, Torn
    <2> QED BY <2>1
<1>8. Same(0) => f[c] = k[0]
    BY <1>4
<1> HIDE DEF Same, Torn
<1> QED BY <1>5, <1>6, <1>7, <1>8

-----------------------------------------------------------------------------
(* What is kept back: nothing that comes later changes what is settled.    *)

\* Where a pseudonym of several words stands as far as into its second word.
LEMMA SpacedIs ==
    ASSUME NEW T \in Text, NEW s \in Nat, NEW k \in Keys, NEW n \in 1..Len(k), k[n] \notin AddressLike,
           s + n <= Len(T), \A i \in 1..n : k[i] = T[s + i]
    PROVE  Spaced(T, s)
<1>1. k \in Text /\ Len(k) \in Nat /\ Len(T) \in Nat
    BY KeysAssumption, LenProperties DEF Text
<1>2. n \in Nat /\ n <= Len(k) /\ s + n \in Nat /\ s <= s + n /\ s + n - s = n
    BY <1>1
<1>3. PICK a : a = SubSeq(k, 0 + 1, n)
    OBVIOUS
<1>4. PICK b : b = SubSeq(T, s + 1, s + n)
    OBVIOUS
<1>5. a \in Text /\ Len(a) = n /\ \A i \in 1..n : a[i] = k[i]
    <2>1. SubSeq(k, 0 + 1, n) \in Text /\ Len(SubSeq(k, 0 + 1, n)) = n - 0
          /\ \A i \in 1..(n - 0) : SubSeq(k, 0 + 1, n)[i] = k[0 + i]
        BY <1>1, <1>2, CutFacts DEF Text
    <2> QED BY <1>2, <1>3, <2>1
<1>6. b \in Text /\ Len(b) = n /\ \A i \in 1..n : b[i] = T[s + i]
    <2>1. PICK e \in Nat : e = s + n
        BY <1>2
    <2>2. SubSeq(T, s + 1, e) \in Text /\ Len(SubSeq(T, s + 1, e)) = e - s
          /\ \A i \in 1..(e - s) : SubSeq(T, s + 1, e)[i] = T[s + i]
        BY <1>1, <1>2, <2>1, CutFacts DEF Text
    <2>3. e - s = n /\ b = SubSeq(T, s + 1, e)
        BY <1>2, <1>4, <2>1
    <2> QED BY <2>2, <2>3
<1>7. a = b
    <2>1. \A i \in 1..n : a[i] = b[i]
        BY <1>5, <1>6
    <2> QED BY <1>2, <1>5, <1>6, <2>1, SeqEqual DEF Text
<1>8. SubSeq(T, s + 1, s + n) = SubSeq(k, 1, n)
    BY <1>3, <1>4, <1>7
<1> QED BY <1>8 DEF Spaced

\* A word that goes on at s until a key of several words begins.
WordOn(T, c, s) == s \in c..Len(T) /\ Spaced(T, s) /\ \A i \in (c + 1)..s : T[i] \in AddressLike

\* A cut inside of a word is for a pseudonym of several words that begins later in that word.
LEMMA CutWord ==
    ASSUME NEW T, NEW x, Window(T, 0, x), NEW c, NEW d, Settled(x, c, d), c > 0, T[c] \in AddressLike
    PROVE  \E s : WordOn(T, c, s)
<1>1. /\ T \in Text /\ x \in Text /\ Len(T) \in Nat /\ Len(x) \in Nat /\ Len(x) <= Len(T)
      /\ c \in Nat /\ d \in Nat /\ c <= d /\ d <= Len(x) /\ \A i \in 1..Len(x) : x[i] = T[i]
    <2>1. T \in Text /\ x \in Text /\ 0 + Len(x) <= Len(T) /\ \A i \in 1..Len(x) : x[i] = T[0 + i]
        BY DEF Window
    <2>2. Len(T) \in Nat /\ Len(x) \in Nat
        BY <2>1, LenProperties DEF Text
    <2>3. c \in 0..Len(x) /\ d \in 0..Len(x) /\ c <= d
        BY DEF Settled
    <2> QED BY <2>1, <2>2, <2>3
<1>2. PICK r \in Nat : r = LastRun(x) /\ r <= Len(x) /\ (r > 0 => x[r] \notin AddressLike) /\ d <= r
    BY <1>1, RunFacts DEF Settled
<1>3. c < r
    BY <1>1, <1>2
<1>4. x[r] = T[r] /\ T[r] \notin AddressLike
    BY <1>1, <1>2, <1>3
<1>5. PICK p \in Nat : p = SuffixPrefix(x) /\ d <= p /\ p <= Len(x)
    BY <1>1, SuffixFacts DEF Settled
<1>6. p < r => Spaced(T, p)
    <2> SUFFICES ASSUME p < r PROVE Spaced(T, p)
        OBVIOUS
    <2>1. PICK k \in Keys : Len(k) > Len(x) - p /\ SubSeq(k, 1, Len(x) - p) = SubSeq(x, p + 1, Len(x))
        <3>1. SuffixPrefix(x) # Len(x)
            BY <1>2, <1>5
        <3>2. \E k \in Keys : /\ Len(k) > Len(x) - SuffixPrefix(x)
                  /\ SubSeq(k, 1, Len(x) - SuffixPrefix(x)) = SubSeq(x, SuffixPrefix(x) + 1, Len(x))
            BY <1>1, <3>1, SuffixFacts
        <3> QED BY <1>5, <3>2
    <2>2. k \in Text /\ Len(k) \in Nat
        BY KeysAssumption, LenProperties DEF Text
    <2>3. PICK l \in Nat : l = Len(x) - p /\ l < Len(k)
        BY <1>1, <1>5, <2>1, <2>2
    <2>4. \A i \in 1..l : SubSeq(k, 0 + 1, l)[i] = k[i]
        <3>1. \A i \in 1..(l - 0) : SubSeq(k, 0 + 1, l)[i] = k[0 + i]
            BY <2>2, <2>3, CutFacts DEF Text
        <3> QED BY <2>3, <3>1
    <2>5. \A i \in 1..l : SubSeq(x, p + 1, Len(x))[i] = x[p + i]
        <3>1. \A i \in 1..(Len(x) - p) : SubSeq(x, p + 1, Len(x))[i] = x[p + i]
            BY <1>1, <1>5, CutFacts DEF Text
        <3> QED BY <2>3, <3>1
    <2>6. \A i \in 1..l : k[i] = T[p + i]
        <3> SUFFICES ASSUME NEW i \in 1..l PROVE k[i] = T[p + i]
            OBVIOUS
        <3>1. SubSeq(k, 0 + 1, l) = SubSeq(x, p + 1, Len(x))
            BY <2>1, <2>3
        <3>2. p + i \in 1..Len(x)
            BY <1>1, <1>5, <2>3
        <3> QED BY <1>1, <2>4, <2>5, <3>1, <3>2
    <2>7. PICK n \in Nat : n = r - p
        BY <1>2, <1>5
    <2>8. n \in 1..Len(k) /\ n \in 1..l /\ p + n = r /\ p + n <= Len(T)
        BY <1>1, <1>2, <1>5, <2>2, <2>3, <2>7, SMTT(20)
    <2>9. k[n] \notin AddressLike
        BY <1>4, <2>6, <2>8
    <2>10. \A i \in 1..n : k[i] = T[p + i]
        BY <2>3, <2>6, <2>8
    <2> QED BY <1>1, <2>8, <2>9, <2>10, SpacedIs
<1>7. CASE c = d
    <2>1. p = c
        BY <1>2, <1>3, <1>5, <1>7 DEF Settled
    <2>2. Spaced(T, c) /\ c \in c..Len(T) /\ \A i \in (c + 1)..c : T[i] \in AddressLike
        BY <1>1, <1>3, <1>6, <2>1
    <2> QED BY <2>2 DEF WordOn
<1>8. CASE c # d
    <2>1. PICK m \in Matches(x) : m[1] = c /\ d < m[2]
        BY <1>8 DEF Settled
    <2>2. Found(x, m)
        BY <1>1, MatchesFacts
    <2>3. PICK e \in Nat : e = m[2] /\ e <= Len(x) /\ SubSeq(x, c + 1, e) \in Keys /\ d < e /\ c < e
        BY <1>1, <2>1, <2>2 DEF Found
    <2>4. PICK k \in Keys : k = SubSeq(x, c + 1, e)
        BY <2>3
    <2>5. Len(k) = e - c /\ \A i \in 1..(e - c) : k[i] = x[c + i]
        BY <1>1, <2>3, <2>4, CutFacts DEF Text
    <2>6. ASSUME NEW q \in Nat, c < q, q <= d, T[q] \notin AddressLike PROVE Spaced(T, c)
        <3>1. PICK n \in Nat : n = q - c
            BY <1>1, <2>6
        <3>2. n \in 1..Len(k) /\ n <= e - c /\ c + n = q /\ c + n <= Len(T) /\ q \in 1..Len(x)
            <4>1. n <= e - c /\ c + n = q /\ 1 <= n /\ q <= Len(x) /\ 1 <= q
                BY <1>1, <2>3, <2>6, <3>1
            <4>2. e - c \in Nat
                BY <1>1, <2>3
            <4> QED BY <1>1, <2>5, <4>1, <4>2
        <3>3. \A i \in 1..n : k[i] = T[c + i]
            <4> SUFFICES ASSUME NEW i \in 1..n PROVE k[i] = T[c + i]
                OBVIOUS
            <4>1. i \in 1..(e - c) /\ c + i \in 1..Len(x)
                BY <1>1, <2>3, <3>2, SMTT(20)
            <4> QED BY <1>1, <2>5, <4>1
        <3>4. k[n] \notin AddressLike
            <4>1. n \in 1..n
                BY <3>2
            <4> QED BY <2>6, <3>2, <3>3, <4>1
        <3> QED BY <1>1, <3>2, <3>3, <3>4, SpacedIs
    <2>7. CASE Spaced(T, c)
        <3>1. c \in c..Len(T) /\ \A i \in (c + 1)..c : T[i] \in AddressLike
            BY <1>1
        <3> QED BY <2>7, <3>1 DEF WordOn
    <2>8. CASE ~Spaced(T, c)
        <3>1. \A i \in (c + 1)..d : T[i] \in AddressLike
            BY <1>1, <2>6, <2>8
        <3>2. d # r
            BY <1>1, <1>3, <1>4, <3>1
        <3>3. d = p /\ p < r
            BY <1>1, <1>2, <1>5, <3>2 DEF Settled
        <3>4. Spaced(T, d) /\ d \in c..Len(T)
            BY <1>1, <1>6, <3>3
        <3> QED BY <3>1, <3>4 DEF WordOn
    <2> QED BY <2>7, <2>8
<1> QED BY <1>7, <1>8

\* A tear at the cut is one that is excused.
LEMMA TornIsGlued ==
    ASSUME NEW T, NEW x, Window(T, 0, x), NEW c, NEW d, Settled(x, c, d), c > 0,
           NEW m \in Matches(T), m[1] <= c, c <= m[2], ~Restorable(T, m)
    PROVE  Glued(T)
<1>1. T \in Text /\ Len(T) \in Nat /\ c \in Nat /\ m[1] \in Nat /\ m[2] \in Nat /\ m[2] <= Len(T)
    <2>1. T \in Text
        BY DEF Window
    <2>2. Found(T, m)
        BY <2>1, MatchesFacts
    <2>3. c \in 0..Len(x) /\ Len(x) \in Nat
        BY LenProperties DEF Settled, Window, Text
    <2> QED BY <2>1, <2>2, <2>3, LenProperties DEF Found, Text
<1>2. DOMAIN T = 1..Len(T)
    BY <1>1, LenProperties DEF Text
<1>3. CASE \E i \in DOMAIN T : m[1] <= i /\ i <= m[2] + 1 /\ T[i] \notin AddressLike
    BY <1>3 DEF Glued
<1>4. CASE \A i \in DOMAIN T : m[1] <= i /\ i <= m[2] + 1 => T[i] \in AddressLike
    <2>1. c \in DOMAIN T /\ m[1] <= c /\ c <= m[2] + 1
        BY <1>1, <1>2
    <2>2. T[c] \in AddressLike
        BY <1>4, <2>1
    <2>3. PICK s : WordOn(T, c, s)
        BY <2>2, CutWord
    <2>4. s \in m[1]..Len(T)
        BY <1>1, <2>3 DEF WordOn
    <2>5. ASSUME NEW i \in (m[1] + 1)..s PROVE T[i] \in AddressLike
        <3>1. CASE i <= c
            <4>1. i \in DOMAIN T /\ m[1] <= i /\ i <= m[2] + 1
                BY <1>1, <1>2, <3>1
            <4> QED BY <1>4, <4>1
        <3>2. CASE i > c
            BY <1>1, <2>3, <2>4, <3>2 DEF WordOn
        <3> QED BY <1>1, <2>4, <3>1, <3>2
    <2>6. Spaced(T, s)
        BY <2>3 DEF WordOn
    <2> QED BY <2>4, <2>5, <2>6 DEF Glued
<1> QED BY <1>3, <1>4

\* A match before the cut is restored alike, unless it ends there.
LEMMA HeadPiece ==
    ASSUME NEW T, NEW P, Window(T, 0, P), NEW s \in 0..Len(P), NEW e \in 0..Len(P), s < e
    PROVE  \/ Piece(T, <<s, e>>) = Piece(P, <<s, e>>)
           \/ e = Len(P) /\ ~Restorable(T, <<s, e>>)
<1>1. /\ T \in Text /\ P \in Text /\ Len(P) \in Nat /\ Len(T) \in Nat /\ Len(P) <= Len(T) /\ s \in Nat
             /\ e \in Nat
      /\ \A i \in 1..Len(P) : P[i] = T[i] /\ s <= e /\ e <= Len(P)
    <2>1. T \in Text /\ P \in Text /\ 0 + Len(P) <= Len(T) /\ \A i \in 1..Len(P) : P[i] = T[0 + i]
        BY DEF Window
    <2>2. Len(T) \in Nat /\ Len(P) \in Nat
        BY <2>1, LenProperties DEF Text
    <2> QED BY <2>1, <2>2
<1>2. SubSeq(P, s + 1, e) = SubSeq(T, s + 1, e)
    <2>1. SpanIn(T, 0, P, s, e)
        <3>1. s <= e /\ e <= Len(P)
            BY <1>1
        <3> QED BY <1>1, <3>1, WindowSpan
    <2>2. 0 + s + 1 = s + 1 /\ 0 + e = e
        BY <1>1
    <2> QED BY <2>1, <2>2 DEF SpanIn
<1>3. Span(T, <<s, e>>) = Span(P, <<s, e>>)
    BY <1>2 DEF Span
<1>4. s > 0 => P[s] = T[s]
    BY <1>1
<1>5. e < Len(P) => P[e + 1] = T[e + 1] /\ e < Len(T)
    BY <1>1
<1>6. Restorable(T, <<s, e>>) => Restorable(P, <<s, e>>)
    BY <1>1, <1>3, <1>4, <1>5 DEF Restorable, WordBoundary
<1>7. e # Len(P) => (Restorable(P, <<s, e>>) => Restorable(T, <<s, e>>))
    <2>1. e # Len(P) => e < Len(P) /\ e < Len(T)
        BY <1>1
    <2> QED BY <1>1, <1>3, <1>4, <1>5, <2>1 DEF Restorable, WordBoundary
<1> QED BY <1>3, <1>6, <1>7 DEF Piece

\* From s on, what T becomes is what the settled part P becomes and then the rest.
JoinsAt(T, f, k, g, c, s) == (f[s] = k[s] \o f[c] \/ Glued(T)) /\ g[c] \subseteq g[s]

\* Before the cut the first half restores what the whole does.
LEMMA HeadFrom ==
    ASSUME NEW T, NEW x, Window(T, 0, x), NEW c, NEW d, Settled(x, c, d),
           NEW P, Window(T, 0, P), Len(P) = c,
           NEW f, From(f, T), NEW k, From(k, P),
           NEW g, Scan(g, T), Matches(T) = g[0], NEW h, Scan(h, x), Matches(x) = h[0]
    PROVE  JoinsAt(T, f, k, g, c, 0)
<1> DEFINE Ready(s) == (\A m \in h[s] : ~(m[1] < c /\ c < m[2])) /\ g[s] \subseteq g[0]
           D == {s \in 0..c : Ready(s) => JoinsAt(T, f, k, g, c, s)}
<1>1. /\ T \in Text /\ x \in Text /\ P \in Text /\ Len(T) \in Nat /\ Len(x) \in Nat /\ c \in Nat
      /\ c <= Len(x) /\ Len(x) <= Len(T) /\ \A i \in 1..c : P[i] = T[i]
    <2>1. T \in Text /\ x \in Text /\ P \in Text /\ 0 + Len(x) <= Len(T) /\ \A i \in 1..Len(P) : P[i] = T[0 + i]
        BY DEF Window
    <2>2. Len(T) \in Nat /\ Len(x) \in Nat /\ c \in 0..Len(x)
        BY <2>1, LenProperties DEF Text, Settled
    <2> QED BY <2>1, <2>2
<1>2. \A s \in 0..c : f[s] \in Seq(Bit) /\ k[s] \in Seq(Bit)
    <2>1. f \in [0..Len(T) -> Seq(Bit)] /\ k \in [0..c -> Seq(Bit)]
        BY DEF From
    <2>2. \A s \in 0..c : s \in 0..Len(T)
        BY <1>1
    <2> QED BY <2>1, <2>2
<1>3. ASSUME NEW s \in 0..c, \A r \in (s + 1)..c : r \in D, Ready(s) PROVE JoinsAt(T, f, k, g, c, s)
    <2>1. CASE s = c
        <3>1. k[s] = <<>>
            BY <1>1, <2>1 DEF From
        <3>2. <<>> \o f[c] = f[c]
            BY <1>1, <1>2, <2>1, ConcatEmptySeq
        <3> QED BY <2>1, <3>1, <3>2 DEF JoinsAt
    <2>2. CASE s # c
        <3>1. s \in Nat /\ s < c /\ s \in 0..Len(T) /\ s \in 0..Len(x) /\ s \in 0..Len(P)
                /\ s # Len(T) /\ s # Len(x)
              /\ s # Len(P) /\ s < SuffixPrefix(x)
            <4>1. c <= d /\ d <= SuffixPrefix(x) /\ SuffixPrefix(x) \in 0..Len(x) /\ d \in Nat
                BY <1>1, SuffixFacts DEF Settled
            <4> QED BY <1>1, <2>2, <4>1
        <3>2. KeysAgree(T, x, s)
            BY <3>1, HeadLongest
        <3>3. PICK e \in Nat : e = Longest(T, s) /\ e = Longest(x, s) /\ s <= e /\ e <= Len(x)
            <4>1. Onward(T, s)
                BY <1>1, <3>1, NextFacts
            <4> QED BY <3>2, <4>1 DEF Onward, KeysAgree
        <3>4. f[s] = IF e > s THEN Piece(T, <<s, e>>) \o f[e] ELSE <<<<T[s + 1]>>>> \o f[s + 1]
            BY <3>1, <3>3 DEF From
        <3>5. g[s] = IF e > s THEN {<<s, e>>} \cup g[e] ELSE g[s + 1]
            BY <3>1, <3>3 DEF Scan
        <3>6. h[s] = IF e > s THEN {<<s, e>>} \cup h[e] ELSE h[s + 1]
            BY <3>1, <3>3 DEF Scan
        <3>7. CASE e > s
            <4>1. <<s, e>> \in h[s] /\ <<s, e>> \in g[s] /\ h[e] \subseteq h[s] /\ g[e] \subseteq g[s]
                BY <3>5, <3>6, <3>7
            <4>2. e <= c
                <5>1. PICK m : m = <<s, e>>
                    OBVIOUS
                <5>2. ~(m[1] < c /\ c < m[2]) /\ m[1] = s /\ m[2] = e
                    BY <1>3, <4>1, <5>1
                <5> QED BY <1>1, <3>1, <3>3, <5>2
            <4>3. Ready(e) /\ e \in (s + 1)..c /\ e \in 0..c /\ e \in 0..Len(P)
                BY <1>1, <1>3, <3>1, <3>3, <3>7, <4>1, <4>2
            <4>4. JoinsAt(T, f, k, g, c, e)
                BY <1>3, <4>3
            <4>5. Longest(P, s) = e
                BY <1>1, <3>1, <3>3, <4>2, WindowStart
            <4>6. k[s] = Piece(P, <<s, e>>) \o k[e]
                BY <3>1, <3>7, <4>5 DEF From
            <4>7. Piece(T, <<s, e>>) = Piece(P, <<s, e>>) \/ (e = Len(P) /\ ~Restorable(T, <<s, e>>))
                BY <3>1, <3>7, <4>3, HeadPiece
            <4>8. CASE e = c /\ ~Restorable(T, <<s, e>>)
                <5>1. PICK m : m = <<s, e>>
                    OBVIOUS
                <5>2. m \in Matches(T) /\ ~Restorable(T, m) /\ m[1] = s /\ m[2] = e
                    BY <1>3, <4>1, <4>8, <5>1
                <5>3. m[1] <= c /\ c <= m[2] /\ c > 0
                    BY <1>1, <3>1, <4>8, <5>2
                <5>4. Glued(T)
                    BY <5>2, <5>3, TornIsGlued
                <5> QED BY <4>1, <4>4, <5>4 DEF JoinsAt
            <4>9. CASE Piece(T, <<s, e>>) = Piece(P, <<s, e>>) /\ f[e] = k[e] \o f[c]
                <5>1. PICK a \in Seq(Bit) : a = Piece(P, <<s, e>>)
                    BY <1>1, <3>1, <3>3, <4>2, PieceType
                <5>2. f[e] \in Seq(Bit) /\ k[e] \in Seq(Bit) /\ f[c] \in Seq(Bit)
                    BY <1>1, <1>2, <4>3
                <5>3. a \o (k[e] \o f[c]) = (a \o k[e]) \o f[c]
                    <6>1. PICK b \in Seq(Bit) : b = k[e]
                        BY <5>2
                    <6>2. PICK z \in Seq(Bit) : z = f[c]
                        BY <5>2
                    <6>3. (a \o b) \o z = a \o (b \o z)
                        BY ConcatAssociative
                    <6> QED BY <6>1, <6>2, <6>3
                <5>4. f[s] = a \o (k[e] \o f[c]) /\ k[s] = a \o k[e]
                    BY <3>4, <3>7, <4>6, <4>9, <5>1
                <5>5. f[s] = k[s] \o f[c]
                    BY <5>3, <5>4
                <5> QED BY <4>1, <4>4, <5>5 DEF JoinsAt
            <4>10. CASE Glued(T)
                BY <4>1, <4>4, <4>10 DEF JoinsAt
            <4> QED BY <4>4, <4>7, <4>8, <4>9, <4>10 DEF JoinsAt
        <3>8. CASE ~(e > s)
            <4>1. e = s /\ s + 1 \in (s + 1)..c /\ s + 1 \in 0..c /\ s + 1 \in 1..c
                BY <1>1, <3>1, <3>3, <3>8
            <4>2. g[s] = g[s + 1] /\ h[s] = h[s + 1]
                BY <3>5, <3>6, <3>8
            <4>3. Ready(s + 1)
                BY <1>3, <4>2
            <4>4. JoinsAt(T, f, k, g, c, s + 1)
                BY <1>3, <4>1, <4>3
            <4>5. Longest(P, s) = s
                <5>1. Longest(T, s) <= Len(P)
                    BY <1>1, <3>1, <3>3, <4>1
                <5> QED BY <3>1, <3>3, <4>1, <5>1, WindowStart
            <4>6. k[s] = <<<<P[s + 1]>>>> \o k[s + 1] /\ P[s + 1] = T[s + 1]
                <5>1. ~(s > s)
                    BY <3>1
                <5> QED BY <1>1, <3>1, <4>1, <4>5, <5>1 DEF From
            <4>7. CASE f[s + 1] = k[s + 1] \o f[c]
                <5>1. PICK a \in Seq(Bit) : a = <<<<T[s + 1]>>>>
                    BY <1>1, <3>1, LetterType
                <5>2. f[s + 1] \in Seq(Bit) /\ k[s + 1] \in Seq(Bit) /\ f[c] \in Seq(Bit)
                    BY <1>1, <1>2, <4>1
                <5>3. a \o (k[s + 1] \o f[c]) = (a \o k[s + 1]) \o f[c]
                    <6>1. PICK b \in Seq(Bit) : b = k[s + 1]
                        BY <5>2
                    <6>2. PICK z \in Seq(Bit) : z = f[c]
                        BY <5>2
                    <6>3. (a \o b) \o z = a \o (b \o z)
                        BY ConcatAssociative
                    <6> QED BY <6>1, <6>2, <6>3
                <5>4. f[s] = a \o (k[s + 1] \o f[c]) /\ k[s] = a \o k[s + 1]
                    BY <3>4, <3>8, <4>6, <4>7, <5>1
                <5>5. f[s] = k[s] \o f[c]
                    BY <5>3, <5>4
                <5> QED BY <4>2, <4>4, <5>5 DEF JoinsAt
            <4>8. CASE Glued(T)
                BY <4>2, <4>4, <4>8 DEF JoinsAt
            <4> QED BY <4>4, <4>7, <4>8 DEF JoinsAt
        <3> QED BY <3>7, <3>8
    <2> QED BY <2>1, <2>2
<1>4. \A s \in 0..c : s \in D
    <2> HIDE DEF Ready
    <2>1. ASSUME NEW s \in 0..c, \A r \in (s + 1)..c : r \in D PROVE s \in D
        <3> SUFFICES ASSUME Ready(s) PROVE JoinsAt(T, f, k, g, c, s)
            OBVIOUS
        <3> HIDE DEF D
        <3> QED BY <1>3, <2>1
    <2> HIDE DEF D
    <2> QED BY <1>1, <2>1, Downward
<1>5. Ready(0) /\ 0 \in 0..c
    BY <1>1 DEF Settled
<1> QED BY <1>4, <1>5

\* A tear in the rest is one of the whole.
LEMMA GluedLater ==
    ASSUME NEW T, NEW c, NEW R, Rest(T, c, R), NEW g, Scan(g, T), Matches(T) = g[0], g[c] \subseteq g[0], Glued(R)
    PROVE  Glued(T)
<1>1. T \in Text /\ R \in Text /\ c \in Nat /\ c + Len(R) = Len(T) /\ Len(R) \in Nat /\ Len(T) \in Nat
      /\ \A i \in 1..Len(R) : R[i] = T[c + i]
    BY DEF Window, Rest
<1>2. PICK h : Scan(h, R) /\ Matches(R) = h[0]
    BY <1>1, MatchesIs
<1>3. PICK m \in Matches(R) :
          /\ ~Restorable(R, m)
          /\ \/ \E i \in DOMAIN R : m[1] <= i /\ i <= m[2] + 1 /\ R[i] \notin AddressLike
             \/ \E s \in m[1]..Len(R) : Spaced(R, s) /\ \A i \in (m[1] + 1)..s : R[i] \in AddressLike
    BY DEF Glued
<1>4. Found(R, m)
    BY <1>1, MatchesFacts
<1>5. PICK s \in Nat : s = m[1]
    BY <1>4 DEF Found
<1>6. PICK e \in Nat : e = m[2]
    BY <1>4 DEF Found
<1>7. m = <<s, e>> /\ s < e /\ e <= Len(R)
    BY <1>4, <1>5, <1>6 DEF Found
<1>8. PICK n : n = <<c + s, c + e>>
    OBVIOUS
<1>9. n[1] = c + s /\ n[2] = c + e
    BY <1>8
<1>10. n \in Matches(T)
    <2>1. 0 \in 0..Len(R) /\ c + 0 = c
        BY <1>1
    <2>2. g[c] = Later(h[0], c)
        BY <1>2, <2>1, TailScan
    <2>3. <<m[1] + c, m[2] + c>> \in Later(h[0], c)
        BY <1>2 DEF Later
    <2>4. <<m[1] + c, m[2] + c>> = n
        BY <1>1, <1>5, <1>6, <1>8
    <2> QED BY <2>2, <2>3, <2>4
<1>11. ~Restorable(T, n)
    <2>1. s \in 0..Len(R) /\ e \in 0..Len(R)
        BY <1>1, <1>7
    <2>2. Restorable(T, <<c + s, c + e>>) => Restorable(R, <<s, e>>)
        BY <1>7, <2>1, TailPiece
    <2> QED BY <1>3, <1>7, <1>8, <2>2
<1>12. DOMAIN R = 1..Len(R) /\ DOMAIN T = 1..Len(T)
    BY <1>1, LenProperties DEF Text
<1>13. ASSUME NEW i \in DOMAIN R, s <= i, i <= e + 1, R[i] \notin AddressLike PROVE Glued(T)
    <2>1. c + i \in DOMAIN T /\ n[1] <= c + i /\ c + i <= n[2] + 1 /\ T[c + i] = R[i]
        BY <1>1, <1>9, <1>12, <1>13
    <2> QED BY <1>10, <1>11, <1>13, <2>1 DEF Glued
<1>14. ASSUME NEW u \in s..Len(R), Spaced(R, u), \A i \in (s + 1)..u : R[i] \in AddressLike PROVE Glued(T)
    <2>1. PICK v \in Nat : v = c + u /\ u \in Nat
        BY <1>1
    <2>2. Spaced(T, v)
        <3>0. PICK k \in Keys : \E l \in 1..Len(k) :
                  k[l] \notin AddressLike /\ u + l <= Len(R) /\ SubSeq(R, u + 1, u + l) = SubSeq(k, 1, l)
            BY <1>14 DEF Spaced
        <3>1. PICK l \in 1..Len(k) :
                  k[l] \notin AddressLike /\ u + l <= Len(R) /\ SubSeq(R, u + 1, u + l) = SubSeq(k, 1, l)
            BY <3>0
        <3>2. l \in Nat /\ u + l \in Nat /\ u <= u + l /\ v + l <= Len(T)
            <4>1. Len(k) \in Nat
                BY KeysAssumption, LenProperties
            <4>2. l \in Nat
                BY <4>1
            <4> QED BY <1>1, <2>1, <3>1, <4>2
        <3>3. SpanIn(T, c, R, u, u + l)
            BY <2>1, <3>1, <3>2, WindowSpan DEF Rest
        <3>4. SubSeq(T, v + 1, v + l) = SubSeq(k, 1, l)
            <4>1. c + u + 1 = v + 1 /\ c + (u + l) = v + l
                BY <1>1, <2>1, <3>2
            <4> QED BY <3>1, <3>3, <4>1 DEF SpanIn
        <3> QED BY <3>1, <3>2, <3>4 DEF Spaced
    <2>3. v \in n[1]..Len(T)
        BY <1>1, <1>9, <2>1
    <2>4. ASSUME NEW i \in (n[1] + 1)..v PROVE T[i] \in AddressLike
        <3>1. i - c \in (s + 1)..u /\ i - c \in 1..Len(R) /\ c + (i - c) = i
            BY <1>1, <1>9, <2>1
        <3> QED BY <1>1, <1>14, <3>1
    <2> QED BY <1>10, <1>11, <2>2, <2>3, <2>4 DEF Glued
<1> QED BY <1>3, <1>5, <1>6, <1>13, <1>14

\* A text whose first symbols are settled may be restored in two pieces.
Severed(T, P, R) ==
    /\ Unmasked(T) = Unmasked(P) \o Unmasked(R) \/ Glued(T)
    /\ Glued(R) => Glued(T)

\* However a text goes on, what HoldFrom lets go of it and the rest restore as the whole does.
LEMMA CutAnywhere ==
    ASSUME NEW T, NEW x, Window(T, 0, x), NEW P, Window(T, 0, P), Len(P) = HoldFrom(x),
           NEW R, Rest(T, HoldFrom(x), R)
    PROVE  Severed(T, P, R)
<1>1. T \in Text /\ x \in Text /\ P \in Text /\ R \in Text
    BY DEF Window, Rest
<1>2. PICK c : c = HoldFrom(x)
    OBVIOUS
<1>3. PICK d : Settled(x, c, d)
    BY <1>1, <1>2, HoldFacts
<1>4. PICK f : From(f, T) /\ Unmasked(T) = f[0]
    BY <1>1, UnmaskedIs
<1>5. PICK k : From(k, P) /\ Unmasked(P) = k[0]
    BY <1>1, UnmaskedIs
<1>6. PICK r : From(r, R) /\ Unmasked(R) = r[0]
    BY <1>1, UnmaskedIs
<1>7. PICK g : Scan(g, T) /\ Matches(T) = g[0]
    BY <1>1, MatchesIs
<1>8. PICK h : Scan(h, x) /\ Matches(x) = h[0]
    BY <1>1, MatchesIs
<1>9. JoinsAt(T, f, k, g, c, 0)
    BY <1>2, <1>3, <1>4, <1>5, <1>7, <1>8, HeadFrom
<1>10. Rest(T, c, R)
    BY <1>2
<1>11. Glued(R) => Glued(T)
    BY <1>7, <1>9, <1>10, GluedLater DEF JoinsAt
<1>12. f[c] = r[0] \/ Glued(T)
    <2>1. CASE f[c] = r[0]
        BY <2>1
    <2>2. CASE f[c] # r[0]
        <3>1. PICK e \in 1..Len(R) : e = Longest(R, 0) /\ c > 0 /\ T[c] \in WordLike
                /\ ~Restorable(T, <<c, c + e>>)
            BY <1>4, <1>6, <1>10, <2>2, TailFrom
        <3>2. Len(R) \in Nat /\ c \in Nat
            BY <1>10 DEF Rest, Window
        <3>3. PICK q : Scan(q, R)
            BY <1>1, MatchesIs
        <3>4. <<0, e>> \in q[0] /\ 0 \in 0..Len(R)
            <4>1. 0 \in 0..Len(R) /\ 0 # Len(R) /\ e > 0
                BY <3>1, <3>2
            <4>2. q[0] = {<<0, e>>} \cup q[e]
                BY <3>1, <3>3, <4>1 DEF Scan
            <4> QED BY <4>1, <4>2
        <3>5. PICK m : m = <<c, c + e>>
            OBVIOUS
        <3>6. m[1] = c /\ m[2] = c + e /\ c <= m[2] /\ m[1] <= c
            BY <3>1, <3>2, <3>5
        <3>7. m \in Matches(T)
            <4>1. c + 0 = c
                BY <3>2
            <4>2. g[c] = Later(q[0], c)
                BY <1>7, <1>10, <3>3, <3>4, <4>1, TailScan
            <4>3. PICK y : y = <<0, e>>
                OBVIOUS
            <4>4. <<y[1] + c, y[2] + c>> \in Later(q[0], c)
                BY <3>4, <4>3 DEF Later
            <4>5. <<y[1] + c, y[2] + c>> = m
                BY <3>1, <3>2, <3>5, <4>3
            <4> QED BY <1>7, <1>9, <4>2, <4>4, <4>5 DEF JoinsAt
        <3>8. ~Restorable(T, m) /\ c > 0
            BY <3>1, <3>5
        <3> QED BY <1>3, <3>6, <3>7, <3>8, TornIsGlued
    <2> QED BY <2>1, <2>2
<1> QED BY <1>4, <1>5, <1>6, <1>9, <1>11, <1>12 DEF JoinsAt, Severed

-----------------------------------------------------------------------------
(* Put the pseudonyms back and a restored text is the text that came.      *)

Stripped(q) == IF Len(q) = 1 THEN q ELSE Tail(q)
Strips(o) == [p \in DOMAIN o |-> Stripped(o[p])]

\* The pieces without their marks, one by one.
LEMMA StripsFacts ==
    /\ \A q \in Bit : Stripped(q) \in Seq(Letters)
    /\ \A o \in Seq(Bit) : /\ Strips(o) \in Seq(Seq(Letters)) /\ Len(Strips(o)) = Len(o)
                           /\ \A i \in 1..Len(o) : Strips(o)[i] = Stripped(o[i])
    /\ \A a, b \in Seq(Bit) : Strips(a \o b) = Strips(a) \o Strips(b)
<1>1. ASSUME NEW q \in Bit PROVE Stripped(q) \in Seq(Letters)
    BY HeadTailProperties DEF Stripped, Bit
<1>2. ASSUME NEW o \in Seq(Bit)
      PROVE  /\ Strips(o) \in Seq(Seq(Letters)) /\ Len(Strips(o)) = Len(o)
             /\ \A i \in 1..Len(o) : Strips(o)[i] = Stripped(o[i])
    <2>1. Len(o) \in Nat /\ DOMAIN o = 1..Len(o) /\ \A i \in 1..Len(o) : o[i] \in Bit
        BY LenProperties, ElementOfSeq
    <2>2. Strips(o) = [i \in 1..Len(o) |-> Stripped(o[i])]
        BY <2>1 DEF Strips
    <2>3. Strips(o) \in [1..Len(o) -> Seq(Letters)]
        BY <1>1, <2>1, <2>2
    <2>4. Strips(o) \in Seq(Seq(Letters))
        BY <2>1, <2>3, SeqDef
    <2>5. Len(Strips(o)) \in Nat /\ 1..Len(Strips(o)) = 1..Len(o)
        BY <2>3, <2>4, LenProperties
    <2>6. Len(Strips(o)) = Len(o)
        BY <2>1, <2>5
    <2> QED BY <2>2, <2>4, <2>6
<1>3. ASSUME NEW a \in Seq(Bit), NEW b \in Seq(Bit) PROVE Strips(a \o b) = Strips(a) \o Strips(b)
    <2>1. PICK c \in Seq(Bit) : c = a \o b
        BY ConcatProperties
    <2>2. Len(c) = Len(a) + Len(b)
            /\ \A i \in 1..(Len(a) + Len(b)) : c[i] = IF i <= Len(a) THEN a[i] ELSE b[i - Len(a)]
        BY <2>1, ConcatProperties
    <2>3. PICK x \in Seq(Seq(Letters)) : x = Strips(a)
        BY <1>2
    <2>4. PICK y \in Seq(Seq(Letters)) : y = Strips(b)
        BY <1>2
    <2>5. PICK z \in Seq(Seq(Letters)) : z = Strips(c)
        BY <1>2
    <2>6. Len(x) = Len(a) /\ Len(y) = Len(b) /\ Len(z) = Len(a) + Len(b) /\ Len(a) \in Nat /\ Len(b) \in Nat
        BY <1>2, <2>2, <2>3, <2>4, <2>5, LenProperties
    <2>7. PICK w \in Seq(Seq(Letters)) : w = x \o y
        BY ConcatProperties
    <2>8. Len(w) = Len(a) + Len(b)
            /\ \A i \in 1..(Len(a) + Len(b)) : w[i] = IF i <= Len(a) THEN x[i] ELSE y[i - Len(a)]
        <3>1. Len(x \o y) = Len(x) + Len(y)
              /\ \A i \in 1..(Len(x) + Len(y)) : (x \o y)[i] = IF i <= Len(x) THEN x[i] ELSE y[i - Len(x)]
            BY ConcatProperties
        <3>2. Len(w) = Len(x) + Len(y)
              /\ \A i \in 1..(Len(x) + Len(y)) : w[i] = IF i <= Len(x) THEN x[i] ELSE y[i - Len(x)]
            BY <2>7, <3>1, Zenon
        <3> QED BY <2>6, <3>2, Zenon
    <2>9. ASSUME NEW i \in 1..(Len(a) + Len(b)) PROVE z[i] = w[i]
        <3>1. z[i] = Stripped(c[i])
            BY <1>2, <2>2, <2>5
        <3>2. CASE i <= Len(a)
            <4>1. i \in 1..Len(a)
                BY <2>6, <3>2
            <4> QED BY <1>2, <2>2, <2>3, <2>8, <3>1, <3>2, <4>1
        <3>3. CASE ~(i <= Len(a))
            <4>1. i - Len(a) \in 1..Len(b)
                BY <2>6, <3>3
            <4> QED BY <1>2, <2>2, <2>4, <2>8, <3>1, <3>3, <4>1
        <3> QED BY <3>2, <3>3
    <2>10. z = w
        BY <2>6, <2>8, <2>9, SeqEqual
    <2> QED BY <2>1, <2>3, <2>4, <2>5, <2>7, <2>10
<1> QED BY <1>1, <1>2, <1>3

LEMMA FlatOne == ASSUME NEW S, NEW q \in Seq(S) PROVE Flat(<<q>>) = q
<1>1. <<>> \in Seq(Seq(S)) /\ Append(<<>>, q) = <<q>>
    BY EmptySeq
<1>2. Flat(Append(<<>>, q)) = Flat(<<>>) \o q
    BY <1>1, FlatAppend
<1>3. Flat(<<>>) = <<>>
    BY FlatFacts
<1> QED BY <1>1, <1>2, <1>3, ConcatEmptySeq

LEMMA RemaskedIs == \A o : Remasked(o) = Flat(Strips(o))
BY DEF Remasked, Strips, Stripped

\* Masking again what was restored goes through a concatenation.
LEMMA RemaskedFacts ==
    /\ Remasked(<<>>) = <<>>
    /\ \A o \in Seq(Bit) : Remasked(o) \in Seq(Letters)
    /\ \A a, b \in Seq(Bit) : Remasked(a \o b) = Remasked(a) \o Remasked(b)
    /\ \A q \in Bit : Remasked(<<q>>) = Stripped(q)
<1>1. Remasked(<<>>) = <<>>
    <2>1. PICK o \in Seq(Bit) : o = <<>> /\ Len(o) = 0
        BY EmptySeq
    <2>2. Strips(o) \in Seq(Seq(Letters)) /\ Len(Strips(o)) = 0
        BY <2>1, StripsFacts
    <2>3. Strips(o) = <<>>
        BY <2>2, EmptySeq
    <2> QED BY <2>1, <2>3, RemaskedIs, FlatFacts
<1>2. ASSUME NEW o \in Seq(Bit) PROVE Remasked(o) \in Seq(Letters)
    BY StripsFacts, RemaskedIs, FlatFacts
<1>3. ASSUME NEW a \in Seq(Bit), NEW b \in Seq(Bit) PROVE Remasked(a \o b) = Remasked(a) \o Remasked(b)
    <2>1. Strips(a \o b) = Strips(a) \o Strips(b) /\ Strips(a) \in Seq(Seq(Letters))
            /\ Strips(b) \in Seq(Seq(Letters))
        BY StripsFacts
    <2>2. Flat(Strips(a) \o Strips(b)) = Flat(Strips(a)) \o Flat(Strips(b))
        BY <2>1, FlatFacts
    <2>3. Remasked(a \o b) = Flat(Strips(a \o b)) /\ Remasked(a) = Flat(Strips(a))
            /\ Remasked(b) = Flat(Strips(b))
        BY RemaskedIs
    <2> QED BY <2>1, <2>2, <2>3, Zenon
<1>4. ASSUME NEW q \in Bit PROVE Remasked(<<q>>) = Stripped(q)
    <2>1. Strips(<<q>>) = <<Stripped(q)>>
        BY DEF Strips
    <2>2. Flat(<<Stripped(q)>>) = Stripped(q)
        <3>1. Stripped(q) \in Seq(Letters)
            BY StripsFacts
        <3> QED BY <3>1, FlatOne
    <2> QED BY <2>1, <2>2, RemaskedIs
<1> QED BY <1>1, <1>2, <1>3, <1>4

LEMMA RemaskedLetter == ASSUME NEW e \in Letters PROVE Remasked(<<<<e>>>>) = <<e>>
<1>1. <<e>> \in Bit /\ Len(<<e>>) = 1
    BY BitFacts
<1> QED BY <1>1, RemaskedFacts DEF Stripped

\* Text that was written as it came is masked to itself,
LEMMA RemaskedLiteral == \A u \in Text : Remasked(Literal(u)) = u
<1> DEFINE T == {u \in Text : Remasked(Literal(u)) = u}
<1>1. <<>> \in T
    <2>1. <<>> \in Text /\ Literal(<<>>) = <<>>
        BY EmptySeq DEF Literal, Text
    <2> QED BY <2>1, RemaskedFacts
<1>2. ASSUME NEW u \in Seq(Symbols), NEW e \in Symbols, u \in T PROVE Append(u, e) \in T
    <2>1. PICK v \in Text : v = Append(u, e)
        BY AppendProperties DEF Text
    <2>2. Len(v) = Len(u) + 1 /\ Len(u) \in Nat /\ v[Len(u) + 1] = e /\ \A i \in 1..Len(u) : v[i] = u[i]
        BY <2>1, AppendProperties, LenProperties
    <2>3. PICK a \in Seq(Bit) : a = Literal(u)
        BY LiteralType DEF Text
    <2>4. PICK b \in Seq(Bit) : b = Literal(v)
        BY LiteralType
    <2>5. Len(a) = Len(u) /\ Len(b) = Len(u) + 1 /\ (\A i \in 1..Len(u) : a[i] = <<u[i]>>)
          /\ \A i \in 1..(Len(u) + 1) : b[i] = <<v[i]>>
        BY <2>2, <2>3, <2>4, LiteralType DEF Text
    <2>6. PICK q \in Bit : q = <<e>>
        BY BitFacts DEF Letters
    <2>7. b = Append(a, q)
        <3>1. PICK c \in Seq(Bit) : c = Append(a, q)
            BY AppendProperties
        <3>2. Len(c) = Len(a) + 1 /\ c[Len(a) + 1] = q /\ \A i \in 1..Len(a) : c[i] = a[i]
            BY <3>1, AppendProperties
        <3>3. ASSUME NEW i \in 1..Len(b) PROVE b[i] = c[i]
            <4>1. CASE i \in 1..Len(u)
                BY <2>2, <2>5, <3>2, <4>1
            <4>2. CASE i = Len(u) + 1
                BY <2>2, <2>5, <2>6, <3>2, <4>2
            <4> QED BY <2>2, <2>5, <4>1, <4>2
        <3>4. b = c
            BY <2>2, <2>5, <3>2, <3>3, SeqEqual
        <3> QED BY <3>1, <3>4
    <2>8. b = a \o <<q>> /\ <<q>> \in Seq(Bit)
        BY <2>7, AppendIsConcat
    <2>9. Remasked(b) = Remasked(a) \o Remasked(<<q>>)
        BY <2>8, RemaskedFacts
    <2>10. Remasked(<<q>>) = <<e>> /\ Remasked(a) = u
        BY <1>2, <2>3, <2>6, RemaskedLetter DEF Letters
    <2>11. Remasked(b) = v
        BY <2>1, <2>9, <2>10, AppendIsConcat
    <2> QED BY <2>1, <2>4, <2>11
<1>3. Seq(Symbols) \subseteq T
    <2> HIDE DEF T
    <2> QED BY <1>1, <1>2, ListInduction
<1> QED BY <1>3 DEF Text

\* and a restored pseudonym to the pseudonym.
LEMMA RemaskedPiece ==
    ASSUME NEW t \in Text, NEW s \in Nat, NEW e \in Nat, s < e, e <= Len(t)
    PROVE  Remasked(Piece(t, <<s, e>>)) = SubSeq(t, s + 1, e)
<1>1. PICK u : u = SubSeq(t, s + 1, e)
    OBVIOUS
<1>2. u \in Text /\ Len(u) = e - s /\ Span(t, <<s, e>>) = u
    <2>1. s <= e
        OBVIOUS
    <2> QED BY <1>1, <2>1, CutFacts DEF Text, Span
<1>3. Remasked(<<Original(u)>>) = u
    <2>1. Original(u) \in Bit /\ Len(Original(u)) # 1 /\ Tail(Original(u)) = u
        <3>1. PICK o : o = Original(u)
            OBVIOUS
        <3>2. o \in Bit /\ Len(o) = Len(u) + 1 /\ Tail(o) = u
            BY <1>2, <3>1, BitFacts, Zenon
        <3>3. Len(o) # 1
            BY <1>2, <3>2
        <3> QED BY <3>1, <3>2, <3>3
    <2> QED BY <2>1, RemaskedFacts DEF Stripped
<1> QED BY <1>1, <1>2, <1>3, RemaskedLiteral DEF Piece

\* Two adjoining parts of a list make one.
LEMMA CutJoin ==
    ASSUME NEW S, NEW t \in Seq(S), NEW s \in Nat, NEW e \in Nat, NEW n \in Nat, s <= e, e <= n, n <= Len(t)
    PROVE  SubSeq(t, s + 1, e) \o SubSeq(t, e + 1, n) = SubSeq(t, s + 1, n)
<1>1. PICK a : a = SubSeq(t, s + 1, e)
    OBVIOUS
<1>2. PICK b : b = SubSeq(t, e + 1, n)
    OBVIOUS
<1>3. PICK c : c = SubSeq(t, s + 1, n)
    OBVIOUS
<1>4. a \in Seq(S) /\ Len(a) = e - s /\ \A i \in 1..(e - s) : a[i] = t[s + i]
    BY <1>1, CutFacts, LenProperties
<1>5. b \in Seq(S) /\ Len(b) = n - e /\ \A i \in 1..(n - e) : b[i] = t[e + i]
    BY <1>2, CutFacts, LenProperties
<1>6. s <= n /\ n \in Nat
    OBVIOUS
<1>7. c \in Seq(S) /\ Len(c) = n - s /\ \A i \in 1..(n - s) : c[i] = t[s + i]
    BY <1>3, <1>6, CutFacts, LenProperties
<1>8. PICK d \in Seq(S) : d = a \o b
    BY <1>4, <1>5, ConcatProperties
<1>9. Len(d) = Len(a) + Len(b) /\ \A i \in 1..(Len(a) + Len(b)) : d[i] = IF i <= Len(a) THEN a[i] ELSE b[i - Len(a)]
    BY <1>4, <1>5, <1>8, ConcatProperties
<1>10. Len(d) = n - s /\ Len(c) = n - s
    BY <1>4, <1>5, <1>7, <1>9
<1>11. ASSUME NEW i \in 1..Len(c) PROVE d[i] = c[i]
    <2>1. CASE i <= e - s
        BY <1>4, <1>5, <1>7, <1>9, <1>10, <2>1
    <2>2. CASE ~(i <= e - s)
        <3>1. i - (e - s) \in 1..(n - e) /\ e + (i - (e - s)) = s + i /\ i \in 1..(n - s)
                /\ i \in 1..(Len(a) + Len(b))
            BY <1>4, <1>5, <1>10, <2>2
        <3>2. d[i] = b[i - (e - s)]
            BY <1>4, <1>9, <2>2, <3>1
        <3> QED BY <1>5, <1>7, <3>1, <3>2
    <2> QED BY <2>1, <2>2
<1>12. d = c
    BY <1>7, <1>10, <1>11, SeqEqual
<1> QED BY <1>1, <1>2, <1>3, <1>8, <1>12

Joint(t, s, e, n) == SubSeq(t, s + 1, e) \o SubSeq(t, e + 1, n) = SubSeq(t, s + 1, n)

LEMMA TextJoint ==
    /\ \A t \in Text : \A s, e, n \in Nat : s <= e /\ e <= n /\ n <= Len(t) => Joint(t, s, e, n)
    /\ \A t \in Text : \A s \in Nat : s + 1 <= Len(t) => SubSeq(t, s + 1, s + 1) = <<t[s + 1]>>
    /\ \A t \in Text : SubSeq(t, 1, Len(t)) = t
<1>1. ASSUME NEW t \in Text, NEW s \in Nat, NEW e \in Nat, NEW n \in Nat, s <= e, e <= n, n <= Len(t)
      PROVE  Joint(t, s, e, n)
    BY <1>1, CutJoin DEF Text, Joint
<1>2. ASSUME NEW t \in Text, NEW s \in Nat, s + 1 <= Len(t) PROVE SubSeq(t, s + 1, s + 1) = <<t[s + 1]>>
    <2>1. PICK u : u = SubSeq(t, s + 1, s + 1)
        OBVIOUS
    <2>2. u \in Text /\ Len(u) = (s + 1) - s /\ \A i \in 1..((s + 1) - s) : u[i] = t[s + i]
        <3>1. s + 1 \in Nat /\ s <= s + 1
            OBVIOUS
        <3> QED BY <1>2, <2>1, <3>1, CutFacts DEF Text
    <2>3. Len(u) = 1 /\ u[1] = t[s + 1]
        BY <2>2
    <2>4. u = <<u[1]>>
        BY <2>2, <2>3 DEF Text
    <2> QED BY <2>1, <2>3, <2>4
<1>3. ASSUME NEW t \in Text PROVE SubSeq(t, 1, Len(t)) = t
    <2>1. PICK u : u = SubSeq(t, 0 + 1, Len(t))
        OBVIOUS
    <2>2. Len(t) \in Nat
        BY LenProperties DEF Text
    <2>3. u \in Text /\ Len(u) = Len(t) - 0 /\ \A i \in 1..(Len(t) - 0) : u[i] = t[0 + i]
        BY <2>1, <2>2, CutFacts DEF Text
    <2>4. Len(u) = Len(t) /\ \A i \in 1..Len(t) : u[i] = t[i]
        BY <2>2, <2>3
    <2>5. u = t
        BY <2>3, <2>4, SeqEqual DEF Text
    <2> QED BY <2>1, <2>5
<1> QED BY <1>1, <1>2, <1>3

\* Restoring changes nothing but the pseudonyms: masked again it is the text.
LEMMA UnmaskedFacts ==
    ASSUME NEW t \in Text
    PROVE  Unmasked(t) \in Seq(Bit) /\ Remasked(Unmasked(t)) = t /\ (t = <<>> => Unmasked(t) = <<>>)
<1>1. PICK f : From(f, t) /\ Unmasked(t) = f[0]
    BY UnmaskedIs
<1>2. PICK N \in Nat : N = Len(t)
    BY LenProperties DEF Text
<1>3. \A s \in 0..N : f[s] \in Seq(Bit)
    BY <1>1, <1>2 DEF From
<1> DEFINE D == {s \in 0..N : Remasked(f[s]) = SubSeq(t, s + 1, N)}
<1>4. ASSUME NEW s \in 0..N, \A r \in (s + 1)..N : r \in D PROVE s \in D
    <2>1. CASE s = N
        <3>1. f[s] = <<>>
            BY <1>1, <1>2, <2>1 DEF From
        <3>2. SubSeq(t, s + 1, N) = <<>>
            <4>1. SubSeq(t, s + 1, N) \in Text /\ Len(SubSeq(t, s + 1, N)) = N - s
                BY <1>2, <2>1, CutFacts DEF Text
            <4>2. N - s = 0
                BY <2>1
            <4> QED BY <4>1, <4>2, EmptySeq DEF Text
        <3> QED BY <3>1, <3>2, RemaskedFacts
    <2>2. CASE s # N
        <3>1. Onward(t, s)
            BY <1>2, NextFacts
        <3>2. PICK e \in Nat : e = Longest(t, s) /\ s <= e /\ e <= N /\ s \in Nat /\ s < N
            BY <1>2, <2>2, <3>1 DEF Onward
        <3>3. f[s] = IF e > s THEN Piece(t, <<s, e>>) \o f[e] ELSE <<<<t[s + 1]>>>> \o f[s + 1]
            BY <1>1, <1>2, <2>2, <3>2 DEF From
        <3>4. CASE e > s
            <4>1. e \in (s + 1)..N /\ e \in 0..N /\ s < e
                BY <3>2, <3>4
            <4>2. PICK a \in Seq(Bit) : a = Piece(t, <<s, e>>)
                BY <1>2, <3>2, PieceType
            <4>3. PICK b \in Seq(Bit) : b = f[e]
                BY <1>3, <4>1
            <4>4. Remasked(a) = SubSeq(t, s + 1, e)
                BY <1>2, <3>2, <4>1, <4>2, RemaskedPiece
            <4>5. Remasked(b) = SubSeq(t, e + 1, N)
                BY <1>4, <4>1, <4>3
            <4>6. Remasked(a \o b) = Remasked(a) \o Remasked(b)
                BY RemaskedFacts
            <4>7. SubSeq(t, s + 1, e) \o SubSeq(t, e + 1, N) = SubSeq(t, s + 1, N)
                <5>1. s \in Nat /\ e \in Nat /\ N \in Nat /\ s <= e /\ e <= N /\ N <= Len(t)
                    BY <1>2, <3>2
                <5>2. Joint(t, s, e, N)
                    BY <5>1, TextJoint, Zenon
                <5> QED BY <5>2 DEF Joint
            <4>8. f[s] = a \o b
                BY <3>3, <3>4, <4>2, <4>3
            <4> QED BY <4>4, <4>5, <4>6, <4>7, <4>8
        <3>5. CASE ~(e > s)
            <4>1. s + 1 \in (s + 1)..N /\ s + 1 \in 0..N /\ s + 1 \in Nat /\ s <= s + 1 /\ s + 1 <= N
                BY <3>2
            <4>2. PICK a \in Seq(Bit) : a = <<<<t[s + 1]>>>> /\ t[s + 1] \in Symbols
                BY <1>2, <2>2, LetterType
            <4>3. PICK b \in Seq(Bit) : b = f[s + 1]
                BY <1>3, <4>1
            <4>4. Remasked(a) = <<t[s + 1]>>
                BY <4>2, RemaskedLetter DEF Letters
            <4>5. <<t[s + 1]>> = SubSeq(t, s + 1, s + 1)
                BY <1>2, <4>1, TextJoint
            <4>6. Remasked(b) = SubSeq(t, s + 1 + 1, N)
                BY <1>4, <4>1, <4>3
            <4>7. Remasked(a \o b) = Remasked(a) \o Remasked(b)
                BY RemaskedFacts
            <4>8. SubSeq(t, s + 1, s + 1) \o SubSeq(t, s + 1 + 1, N) = SubSeq(t, s + 1, N)
                BY <1>2, <3>2, <4>1, TextJoint DEF Joint
            <4>9. f[s] = a \o b
                BY <3>3, <3>5, <4>2, <4>3
            <4> QED BY <4>4, <4>5, <4>6, <4>7, <4>8, <4>9
        <3> QED BY <3>4, <3>5
    <2> QED BY <2>1, <2>2
<1>5. \A s \in 0..N : s \in D
    <2> HIDE DEF D
    <2> QED BY <1>4, Downward
<1>6. Remasked(f[0]) = SubSeq(t, 0 + 1, N)
    BY <1>5
<1>7. SubSeq(t, 0 + 1, N) = t
    <2>1. SubSeq(t, 1, N) = t
        BY <1>2, TextJoint
    <2> QED BY <2>1
<1>8. t = <<>> => f[0] = <<>>
    <2> SUFFICES ASSUME t = <<>> PROVE f[0] = <<>>
        OBVIOUS
    <2>1. N = 0
        BY <1>2
    <2> QED BY <1>1, <1>2, <2>1 DEF From
<1> QED BY <1>1, <1>3, <1>6, <1>7, <1>8

-----------------------------------------------------------------------------
(* A text that comes in pieces: what has been made of it and what is kept. *)

Assoc(a, b, c) == (a \o b) \o c = a \o (b \o c)

\* Texts and what is written are lists.
LEMMA Joining ==
    /\ \A a, b, c \in Seq(Letters) : Assoc(a, b, c)
    /\ \A a, b, c \in Seq(Bit) : Assoc(a, b, c)
    /\ \A a, b, c \in Text : Assoc(a, b, c)
    /\ \A a, b \in Text : a \o b \in Text
    /\ \A a, b \in Seq(Bit) : a \o b \in Seq(Bit)
    /\ \A a \in Text : a \in Seq(Letters) /\ a \o <<>> = a /\ <<>> \o a = a
    /\ \A a \in Seq(Bit) : a \o <<>> = a /\ <<>> \o a = a
    /\ <<>> \in Text /\ <<>> \in Seq(Bit)
<1>1. ASSUME NEW S, NEW a \in Seq(S), NEW b \in Seq(S), NEW c \in Seq(S) PROVE Assoc(a, b, c)
    BY ConcatAssociative DEF Assoc
<1>2. ASSUME NEW S, NEW a \in Seq(S), NEW b \in Seq(S)
      PROVE  a \o b \in Seq(S) /\ a \o <<>> = a /\ <<>> \o a = a
    BY ConcatProperties, ConcatEmptySeq
<1>3. \A a \in Text : a \in Seq(Letters)
    BY BitFacts
<1>4. \A a, b, c \in Text : Assoc(a, b, c)
    BY <1>1 DEF Text
<1>5. \A a, b \in Text : a \o b \in Text /\ a \o <<>> = a /\ <<>> \o a = a
    BY <1>2 DEF Text
<1>6. <<>> \in Text /\ <<>> \in Seq(Bit)
    BY EmptySeq DEF Text
<1> QED BY <1>1, <1>2, <1>3, <1>4, <1>5, <1>6

\* Whatever comes after, the text t will be restored as o and what becomes of kept.
Foresees(t, o, kept, z) ==
    /\ Unmasked(t \o z) = o \o Unmasked(kept \o z) \/ Glued(t \o z)
    /\ Glued(kept \o z) => Glued(t \o z)

Follows(t, o, kept) ==
    /\ t \in Text /\ o \in Seq(Bit) /\ kept \in Text /\ Remasked(o) \o kept = t
    /\ \A z \in Text : Foresees(t, o, kept, z)

Complete(t, o) ==
    /\ t \in Text /\ o \in Seq(Bit) /\ Remasked(o) = t
    /\ Glued(t) \/ o = Unmasked(t)

\* At the beginning nothing has come and nothing is written.
LEMMA FollowsNothing == Follows(<<>>, <<>>, <<>>) /\ Complete(<<>>, <<>>)
<1>1. <<>> \in Text /\ <<>> \in Seq(Bit) /\ <<>> \o <<>> = <<>> /\ Remasked(<<>>) = <<>>
        /\ Unmasked(<<>>) = <<>>
    BY Joining, RemaskedFacts, UnmaskedFacts
<1>2. ASSUME NEW z \in Text PROVE Foresees(<<>>, <<>>, <<>>, z)
    <2>1. <<>> \o z = z
        BY Joining
    <2>2. <<>> \o Unmasked(z) = Unmasked(z)
        BY Joining, UnmaskedFacts
    <2> QED BY <2>1, <2>2 DEF Foresees
<1> QED BY <1>1, <1>2 DEF Follows, Complete

\* More text comes and is kept back.
LEMMA FollowsMore ==
    ASSUME NEW t, NEW o, NEW kept, Follows(t, o, kept), NEW u \in Text
    PROVE  Follows(t \o u, o, kept \o u)
<1>1. t \in Text /\ o \in Seq(Bit) /\ kept \in Text /\ Remasked(o) \o kept = t
    BY DEF Follows
<1>2. t \o u \in Text /\ kept \o u \in Text
    BY <1>1, Joining
<1>3. Remasked(o) \o (kept \o u) = t \o u
    <2>1. Remasked(o) \in Seq(Letters) /\ kept \in Seq(Letters) /\ u \in Seq(Letters)
        BY <1>1, RemaskedFacts, Joining
    <2>2. Assoc(Remasked(o), kept, u)
        BY <2>1, Joining
    <2> QED BY <1>1, <2>2 DEF Assoc
<1>4. ASSUME NEW z \in Text PROVE Foresees(t \o u, o, kept \o u, z)
    <2>1. u \o z \in Text
        BY Joining
    <2>2. Foresees(t, o, kept, u \o z)
        BY <2>1 DEF Follows
    <2>3. Assoc(t, u, z) /\ Assoc(kept, u, z)
        BY <1>1, Joining
    <2> QED BY <2>2, <2>3 DEF Foresees, Assoc
<1> QED BY <1>1, <1>2, <1>3, <1>4 DEF Follows

\* The text in two, at a place that need not be kept back.
Halves(text, P, K) ==
    /\ P \in Text /\ K \in Text /\ P \o K = text /\ Len(P) = HoldFrom(text)
    /\ P = SubSeq(text, 1, HoldFrom(text)) /\ K = SubSeq(text, HoldFrom(text) + 1, Len(text))

LEMMA HalvesIs ==
    ASSUME NEW text \in Text
    PROVE  Halves(text, SubSeq(text, 1, HoldFrom(text)), SubSeq(text, HoldFrom(text) + 1, Len(text)))
<1>1. PICK c : c = HoldFrom(text)
    OBVIOUS
<1>2. c \in 0..Len(text) /\ Len(text) \in Nat
    <2>1. \E d : Settled(text, c, d)
        BY <1>1, HoldFacts
    <2> QED BY <2>1, LenProperties DEF Settled, Text
<1>3. 0 \in Nat /\ c \in Nat /\ Len(text) \in Nat /\ 0 <= c /\ c <= Len(text) /\ Len(text) <= Len(text)
    BY <1>2
<1>4. PICK P : P = SubSeq(text, 1, c)
    OBVIOUS
<1>5. PICK K : K = SubSeq(text, c + 1, Len(text))
    OBVIOUS
<1>6. Joint(text, 0, c, Len(text)) /\ SubSeq(text, 1, Len(text)) = text
    BY <1>3, TextJoint, Zenon
<1>7. P \o K = text
    <2>1. 0 + 1 = 1
        OBVIOUS
    <2> QED BY <1>4, <1>5, <1>6, <2>1 DEF Joint
<1>8. P \in Text /\ Len(P) = c
    <2>1. SubSeq(text, 0 + 1, c) \in Text /\ Len(SubSeq(text, 0 + 1, c)) = c - 0
        BY <1>3, CutFacts DEF Text
    <2> QED BY <1>3, <1>4, <2>1
<1>9. K \in Text
    BY <1>3, <1>5, CutFacts DEF Text
<1> QED BY <1>1, <1>4, <1>5, <1>7, <1>8, <1>9 DEF Halves

\* What HoldFrom lets go is restored and written.
LEMMA FollowsCut ==
    ASSUME NEW t, NEW o, NEW text, Follows(t, o, text), NEW P, NEW K, Halves(text, P, K)
    PROVE  Follows(t, o \o Unmasked(P), K)
<1>1. t \in Text /\ o \in Seq(Bit) /\ text \in Text /\ Remasked(o) \o text = t
    BY DEF Follows
<1>2. P \in Text /\ K \in Text /\ P \o K = text /\ Len(P) = HoldFrom(text)
    BY DEF Halves
<1>3. Unmasked(P) \in Seq(Bit) /\ Remasked(Unmasked(P)) = P
    BY <1>2, UnmaskedFacts
<1>4. o \o Unmasked(P) \in Seq(Bit)
    BY <1>1, <1>3, Joining
<1>5. Remasked(o \o Unmasked(P)) \o K = t
    <2>1. Remasked(o \o Unmasked(P)) = Remasked(o) \o P
        BY <1>1, <1>3, RemaskedFacts
    <2>2. Remasked(o) \in Seq(Letters) /\ P \in Seq(Letters) /\ K \in Seq(Letters)
        BY <1>1, <1>2, RemaskedFacts, Joining
    <2>3. Assoc(Remasked(o), P, K)
        BY <2>2, Joining
    <2> QED BY <1>1, <1>2, <2>1, <2>3 DEF Assoc
<1>6. ASSUME NEW z \in Text PROVE Foresees(t, o \o Unmasked(P), K, z)
    <2>1. PICK R \in Text : R = K \o z
        BY <1>2, Joining
    <2>2. PICK T \in Text : T = text \o z
        BY <1>1, Joining
    <2>3. T = P \o R
        <3>1. Assoc(P, K, z)
            BY <1>2, Joining
        <3> QED BY <1>2, <2>1, <2>2, <3>1 DEF Assoc
    <2>4. Window(T, 0, text) /\ Window(T, 0, P) /\ Window(T, Len(P), R)
        <3>1. Window(text \o z, 0, text)
            BY <1>1, Windows
        <3>2. Window(P \o R, 0, P) /\ Window(P \o R, Len(P), R)
            BY <1>2, Windows
        <3> QED BY <2>2, <2>3, <3>1, <3>2
    <2>5. Rest(T, HoldFrom(text), R)
        <3>1. Len(T) = Len(P) + Len(R) /\ Len(P) \in Nat /\ Len(R) \in Nat /\ Len(T) \in Nat
            BY <1>2, <2>3, ConcatProperties, LenProperties DEF Text
        <3>2. Len(P) \in 0..Len(T)
            BY <3>1
        <3> QED BY <1>2, <2>4, <3>1, <3>2 DEF Rest
    <2>6. Severed(T, P, R)
        BY <1>2, <2>4, <2>5, CutAnywhere
    <2>7. Foresees(t, o, text, z)
        BY DEF Follows
    <2>8. Glued(R) => Glued(t \o z)
        BY <2>2, <2>6, <2>7 DEF Severed, Foresees
    <2>9. CASE Unmasked(t \o z) = o \o Unmasked(T) /\ Unmasked(T) = Unmasked(P) \o Unmasked(R)
        <3>1. Unmasked(R) \in Seq(Bit)
            BY UnmaskedFacts
        <3>2. Assoc(o, Unmasked(P), Unmasked(R))
            BY <1>1, <1>3, <3>1, Joining
        <3>3. Unmasked(t \o z) = (o \o Unmasked(P)) \o Unmasked(R)
            BY <2>9, <3>2 DEF Assoc
        <3> QED BY <2>1, <2>8, <3>3 DEF Foresees
    <2>10. CASE Glued(t \o z)
        BY <2>10 DEF Foresees
    <2> QED BY <2>2, <2>6, <2>7, <2>9, <2>10 DEF Severed, Foresees
<1> QED BY <1>1, <1>2, <1>4, <1>5, <1>6 DEF Follows

\* When all that is kept back is restored and written, the text is whole.
LEMMA FollowsEnd ==
    ASSUME NEW t, NEW o, NEW kept, Follows(t, o, kept)
    PROVE  Complete(t, o \o Unmasked(kept)) /\ (kept = <<>> => Complete(t, o))
<1>1. t \in Text /\ o \in Seq(Bit) /\ kept \in Text /\ Remasked(o) \o kept = t
    BY DEF Follows
<1>2. Unmasked(kept) \in Seq(Bit) /\ Remasked(Unmasked(kept)) = kept
    BY <1>1, UnmaskedFacts
<1>3. o \o Unmasked(kept) \in Seq(Bit) /\ Remasked(o \o Unmasked(kept)) = t
    <2>1. PICK u \in Seq(Bit) : u = Unmasked(kept)
        BY <1>2
    <2>2. o \o u \in Seq(Bit) /\ Remasked(o \o u) = Remasked(o) \o Remasked(u)
        BY <1>1, Joining, RemaskedFacts
    <2> QED BY <1>1, <1>2, <2>1, <2>2
<1>4. Foresees(t, o, kept, <<>>) /\ t \o <<>> = t /\ kept \o <<>> = kept
    <2>1. <<>> \in Text
        BY Joining
    <2> QED BY <1>1, <2>1, Joining DEF Follows
<1>5. Complete(t, o \o Unmasked(kept))
    BY <1>1, <1>3, <1>4 DEF Complete, Foresees
<1>6. kept = <<>> => o \o Unmasked(kept) = o
    <2> SUFFICES ASSUME kept = <<>> PROVE o \o Unmasked(kept) = o
        OBVIOUS
    <2>1. Unmasked(kept) = <<>>
        BY <1>1, UnmaskedFacts
    <2> QED BY <1>1, <2>1, Joining
<1> QED BY <1>5, <1>6

-----------------------------------------------------------------------------
(* Streams: what has come before a frame, and what the frames say together.*)

Outs == [event : {"message_start", "start", "delta", "stop", "message_stop", "ping", "error"},
         index : Nat, kind : {"text", "tool", "thinking", "future", "none"}, text : Seq(Bit)]

Before(a, p) == {<<a[q].event, a[q].index>> : q \in 1..(p - 1)}
Logged(a) == Before(a, Len(a) + 1)

\* What has come of a stream, with one frame more.
LEMMA LoggedAppend ==
    ASSUME NEW X, NEW a \in Seq(X), NEW f \in X
    PROVE  /\ Logged(Append(a, f)) = Logged(a) \cup {<<f.event, f.index>>}
           /\ \A p \in 1..(Len(a) + 1) : Before(Append(a, f), p) = Before(a, p)
<1>1. PICK b \in Seq(X) : b = Append(a, f)
    BY AppendProperties
<1>2. Len(b) = Len(a) + 1 /\ Len(a) \in Nat /\ b[Len(a) + 1] = f /\ \A i \in 1..Len(a) : b[i] = a[i]
    BY <1>1, AppendProperties, LenProperties
<1>3. \A p \in 1..(Len(a) + 1) : Before(b, p) = Before(a, p)
    <2>1. ASSUME NEW p \in 1..(Len(a) + 1), NEW q \in 1..(p - 1) PROVE b[q] = a[q]
        <3>1. q \in 1..Len(a)
            BY <1>2
        <3> QED BY <1>2, <3>1
    <2> QED BY <2>1 DEF Before
<1>4. Logged(b) = Logged(a) \cup {<<f.event, f.index>>}
    <2>1. PICK n \in Nat : n = Len(a)
        BY <1>2
    <2>2. 1..(n + 1 + 1 - 1) = 1..(n + 1) /\ 1..(n + 1) = (1..n) \cup {n + 1} /\ 1..(n + 1 - 1) = 1..n
        BY <2>1
    <2>3. Logged(b) = {<<b[q].event, b[q].index>> : q \in 1..(n + 1)}
        BY <1>2, <2>1, <2>2 DEF Logged, Before
    <2>4. Logged(a) = {<<a[q].event, a[q].index>> : q \in 1..n}
        BY <2>1, <2>2 DEF Logged, Before
    <2>5. Logged(b) = {<<b[q].event, b[q].index>> : q \in 1..n} \cup {<<b[n + 1].event, b[n + 1].index>>}
        BY <2>2, <2>3, Zenon
    <2>6. {<<b[q].event, b[q].index>> : q \in 1..n} = Logged(a)
        BY <1>2, <2>1, <2>4
    <2> QED BY <1>2, <2>1, <2>5, <2>6
<1> QED BY <1>1, <1>3, <1>4

\* What a function makes of each element, in a list.
Over(h, a) == [p \in DOMAIN a |-> h[a[p]]]

OverIs(X, S, h) ==
    /\ \A a \in Seq(X) : Over(h, a) \in Seq(Seq(S)) /\ Flat(Over(h, a)) \in Seq(S)
    /\ Flat(Over(h, <<>>)) = <<>>
    /\ \A a \in Seq(X), f \in X : Flat(Over(h, Append(a, f))) = Flat(Over(h, a)) \o h[f]

LEMMA OverAppend == ASSUME NEW X, NEW S, NEW h \in [X -> Seq(S)] PROVE OverIs(X, S, h)
<1>1. ASSUME NEW a \in Seq(X)
      PROVE  /\ Over(h, a) \in Seq(Seq(S)) /\ Len(Over(h, a)) = Len(a)
             /\ \A i \in 1..Len(a) : Over(h, a)[i] = h[a[i]]
    <2>1. Len(a) \in Nat /\ DOMAIN a = 1..Len(a) /\ \A i \in 1..Len(a) : a[i] \in X
        BY LenProperties, ElementOfSeq
    <2>2. Over(h, a) = [i \in 1..Len(a) |-> h[a[i]]]
        BY <2>1 DEF Over
    <2>3. Over(h, a) \in [1..Len(a) -> Seq(S)]
        BY <2>1, <2>2
    <2>4. Over(h, a) \in Seq(Seq(S))
        <3>1. PICK B : B = Seq(S)
            OBVIOUS
        <3>2. PICK N \in Nat : N = Len(a)
            BY <2>1
        <3>3. Over(h, a) \in [1..N -> B]
            BY <2>3, <3>1, <3>2
        <3>4. Over(h, a) \in Seq(B)
            BY <3>3, SeqDef
        <3> QED BY <3>1, <3>4
    <2>5. Len(Over(h, a)) \in Nat /\ 1..Len(Over(h, a)) = 1..Len(a)
        BY <2>3, <2>4, LenProperties
    <2>6. Len(Over(h, a)) = Len(a)
        BY <2>1, <2>5
    <2> QED BY <2>2, <2>4, <2>6
<1>2. Flat(Over(h, <<>>)) = <<>>
    <2>1. PICK a \in Seq(X) : a = <<>> /\ Len(a) = 0
        BY EmptySeq
    <2>2. Over(h, a) \in Seq(Seq(S)) /\ Len(Over(h, a)) = 0
        BY <1>1, <2>1
    <2>3. Over(h, a) = <<>>
        BY <2>2, EmptySeq
    <2> QED BY <2>1, <2>3, FlatFacts
<1>3. ASSUME NEW a \in Seq(X), NEW f \in X PROVE Flat(Over(h, Append(a, f))) = Flat(Over(h, a)) \o h[f]
    <2>1. PICK b \in Seq(X) : b = Append(a, f)
        BY AppendProperties
    <2>2. Len(b) = Len(a) + 1 /\ Len(a) \in Nat /\ b[Len(a) + 1] = f /\ \A i \in 1..Len(a) : b[i] = a[i]
        BY <2>1, AppendProperties, LenProperties
    <2>3. PICK x \in Seq(Seq(S)) : x = Over(h, a)
        BY <1>1
    <2>4. PICK y \in Seq(Seq(S)) : y = Over(h, b)
        BY <1>1
    <2>5. PICK e \in Seq(S) : e = h[f]
        OBVIOUS
    <2>6. Len(x) = Len(a) /\ (\A i \in 1..Len(a) : x[i] = h[a[i]]) /\ Len(y) = Len(b)
            /\ \A i \in 1..Len(b) : y[i] = h[b[i]]
        BY <1>1, <2>3, <2>4
    <2>7. PICK z \in Seq(Seq(S)) : z = Append(x, e)
        BY AppendProperties
    <2>8. Len(z) = Len(x) + 1 /\ z[Len(x) + 1] = e /\ \A i \in 1..Len(x) : z[i] = x[i]
        BY <2>7, AppendProperties
    <2>9. ASSUME NEW i \in 1..Len(y) PROVE y[i] = z[i]
        <3>1. CASE i \in 1..Len(a)
            BY <2>2, <2>6, <2>8, <3>1
        <3>2. CASE i = Len(a) + 1
            BY <2>2, <2>5, <2>6, <2>8, <3>2
        <3> QED BY <2>2, <2>6, <3>1, <3>2
    <2>10. y = z
        BY <2>2, <2>6, <2>8, <2>9, SeqEqual
    <2>11. Flat(z) = Flat(x) \o e
        BY <2>7, FlatAppend
    <2> QED BY <2>1, <2>3, <2>4, <2>5, <2>10, <2>11
<1>4. \A a \in Seq(X) : Flat(Over(h, a)) \in Seq(S)
    BY <1>1, FlatFacts
<1> QED BY <1>1, <1>2, <1>3, <1>4 DEF OverIs

\* The frames that belong to the text of their block; K holds the kinds of the blocks.
Told(K, f) == f.event \in {"start", "delta"} /\ f.kind \in {"text", "tool"} /\ K[f.index] = f.kind

Share(K, f, i) == IF f.index = i /\ Told(K, f) THEN f.text ELSE <<>>
Shares(X, K, i) == [f \in X |-> Share(K, f, i)]
Says(X, K, a, i) == Flat(Over(Shares(X, K, i), a))

Outline(K, plain, f) ==
    IF Told(K, f) THEN IF f.event = "delta" THEN <<>> ELSE <<[f EXCEPT !.text = <<>>]>>
    ELSE <<IF plain THEN [f EXCEPT !.text = Literal(@)] ELSE f>>
Outlines(X, K, plain) == [f \in X |-> Outline(K, plain, f)]
Shows(X, K, plain, a) == Flat(Over(Outlines(X, K, plain), a))

LEMMA ShareTypes ==
    ASSUME NEW K, NEW i
    PROVE  Shares(Frames, K, i) \in [Frames -> Seq(Symbols)] /\ Shares(Outs, K, i) \in [Outs -> Seq(Bit)]
<1>1. <<>> \in Seq(Symbols) /\ <<>> \in Seq(Bit)
    BY EmptySeq
<1>2. \A f \in Frames : f.text \in Seq(Symbols)
    BY DEF Frames
<1>3. \A f \in Outs : f.text \in Seq(Bit)
    BY DEF Outs
<1> QED BY <1>1, <1>2, <1>3 DEF Shares, Share

\* A frame with another text.
WithText(f, text) == [f EXCEPT !.text = text]

\* A frame with other text is the frame in all but the text.
LEMMA WithTextFacts ==
    /\ \A f \in Frames, x \in Seq(Bit) : /\ WithText(f, x) \in Outs /\ WithText(f, x).event = f.event
           /\ WithText(f, x).index = f.index /\ WithText(f, x).kind = f.kind /\ WithText(f, x).text = x
           /\ WithText(WithText(f, x), <<>>) = WithText(f, <<>>)
    /\ \A f \in Outs, x \in Seq(Bit) : WithText(f, x) \in Outs
    /\ \A f \in Frames : f.text \in Text /\ f.index \in Nat
           /\ WithText(f, Literal(f.text)) = [f EXCEPT !.text = Literal(@)]
<1>1. ASSUME NEW f \in Frames, NEW x \in Seq(Bit)
      PROVE  /\ WithText(f, x) \in Outs /\ WithText(f, x).event = f.event
             /\ WithText(f, x).index = f.index /\ WithText(f, x).kind = f.kind /\ WithText(f, x).text = x
             /\ WithText(WithText(f, x), <<>>) = WithText(f, <<>>)
    BY DEF Frames, Outs, WithText
<1>2. ASSUME NEW f \in Outs, NEW x \in Seq(Bit) PROVE WithText(f, x) \in Outs
    BY DEF Outs, WithText
<1>3. ASSUME NEW f \in Frames
      PROVE  f.text \in Text /\ f.index \in Nat /\ WithText(f, Literal(f.text)) = [f EXCEPT !.text = Literal(@)]
    BY DEF Frames, WithText, Text
<1> QED BY <1>1, <1>2, <1>3

LEMMA OutlineTypes ==
    ASSUME NEW K
    PROVE  Outlines(Frames, K, TRUE) \in [Frames -> Seq(Outs)]
             /\ Outlines(Outs, K, FALSE) \in [Outs -> Seq(Outs)]
<1>1. ASSUME NEW g \in Outs PROVE <<g>> \in Seq(Outs)
    OBVIOUS
<1>2. <<>> \in Seq(Outs) /\ <<>> \in Seq(Bit)
    BY EmptySeq
<1>3. ASSUME NEW f \in Frames PROVE Outline(K, TRUE, f) \in Seq(Outs)
    <2>1. WithText(f, <<>>) \in Outs
        BY <1>2, WithTextFacts
    <2>2. WithText(f, Literal(f.text)) \in Outs
        BY WithTextFacts, LiteralType
    <2>3. Outline(K, TRUE, f) \in {<<>>, <<WithText(f, <<>>)>>, <<WithText(f, Literal(f.text))>>}
        BY WithTextFacts DEF Outline, WithText
    <2> QED BY <1>1, <1>2, <2>1, <2>2, <2>3
<1>4. ASSUME NEW f \in Outs PROVE Outline(K, FALSE, f) \in Seq(Outs)
    <2>1. WithText(f, <<>>) \in Outs
        BY <1>2, WithTextFacts
    <2>2. Outline(K, FALSE, f) \in {<<>>, <<WithText(f, <<>>)>>, <<f>>}
        BY DEF Outline, WithText
    <2> QED BY <1>1, <1>2, <2>1, <2>2
<1> QED BY <1>3, <1>4 DEF Outlines

\* The text of a block, with one frame more.
LEMMA SaysAppend ==
    ASSUME NEW K, NEW i
    PROVE  /\ Says(Frames, K, <<>>, i) = <<>> /\ Says(Outs, K, <<>>, i) = <<>>
           /\ \A a \in Seq(Frames), f \in Frames : Says(Frames, K, Append(a, f), i) = Says(Frames, K, a, i) \o Share(K, f, i)
           /\ \A a \in Seq(Outs), f \in Outs : Says(Outs, K, Append(a, f), i) = Says(Outs, K, a, i) \o Share(K, f, i)
           /\ \A a \in Seq(Frames) : Says(Frames, K, a, i) \in Text
           /\ \A a \in Seq(Outs) : Says(Outs, K, a, i) \in Seq(Bit)
<1>1. PICK h \in [Frames -> Seq(Symbols)] : h = Shares(Frames, K, i)
    BY ShareTypes
<1>2. PICK g \in [Outs -> Seq(Bit)] : g = Shares(Outs, K, i)
    BY ShareTypes
<1>3. \A a : Says(Frames, K, a, i) = Flat(Over(h, a)) /\ Says(Outs, K, a, i) = Flat(Over(g, a))
    BY <1>1, <1>2 DEF Says
<1>4. (\A f \in Frames : h[f] = Share(K, f, i)) /\ (\A f \in Outs : g[f] = Share(K, f, i))
    BY <1>1, <1>2 DEF Shares
<1>5. /\ \A a \in Seq(Frames) : Flat(Over(h, a)) \in Seq(Symbols)
      /\ Flat(Over(h, <<>>)) = <<>>
      /\ \A a \in Seq(Frames), f \in Frames : Flat(Over(h, Append(a, f))) = Flat(Over(h, a)) \o h[f]
    <2>1. OverIs(Frames, Symbols, h)
        BY OverAppend
    <2> QED BY <2>1, Zenon DEF OverIs
<1>6. /\ \A a \in Seq(Outs) : Flat(Over(g, a)) \in Seq(Bit)
      /\ Flat(Over(g, <<>>)) = <<>>
      /\ \A a \in Seq(Outs), f \in Outs : Flat(Over(g, Append(a, f))) = Flat(Over(g, a)) \o g[f]
    <2>1. OverIs(Outs, Bit, g)
        BY OverAppend
    <2> QED BY <2>1, Zenon DEF OverIs
<1>7. ASSUME NEW a \in Seq(Frames), NEW f \in Frames
      PROVE  Says(Frames, K, Append(a, f), i) = Says(Frames, K, a, i) \o Share(K, f, i)
    BY <1>3, <1>4, <1>5
<1>8. ASSUME NEW a \in Seq(Outs), NEW f \in Outs
      PROVE  Says(Outs, K, Append(a, f), i) = Says(Outs, K, a, i) \o Share(K, f, i)
    BY <1>3, <1>4, <1>6
<1>9. (\A a \in Seq(Frames) : Says(Frames, K, a, i) \in Text)
        /\ \A a \in Seq(Outs) : Says(Outs, K, a, i) \in Seq(Bit)
    BY <1>3, <1>5, <1>6 DEF Text
<1>10. Says(Frames, K, <<>>, i) = <<>> /\ Says(Outs, K, <<>>, i) = <<>>
    BY <1>3, <1>5, <1>6
<1> QED BY <1>7, <1>8, <1>9, <1>10

\* The outline of a stream, with one frame more.
LEMMA ShowsAppend ==
    ASSUME NEW K
    PROVE  /\ Shows(Frames, K, TRUE, <<>>) = <<>> /\ Shows(Outs, K, FALSE, <<>>) = <<>>
           /\ \A a \in Seq(Frames), f \in Frames :
                  Shows(Frames, K, TRUE, Append(a, f)) = Shows(Frames, K, TRUE, a) \o Outline(K, TRUE, f)
           /\ \A a \in Seq(Outs), f \in Outs :
                  Shows(Outs, K, FALSE, Append(a, f)) = Shows(Outs, K, FALSE, a) \o Outline(K, FALSE, f)
           /\ \A a \in Seq(Outs) : Shows(Outs, K, FALSE, a) \in Seq(Outs)
<1>1. PICK h \in [Frames -> Seq(Outs)] : h = Outlines(Frames, K, TRUE)
    BY OutlineTypes
<1>2. PICK g \in [Outs -> Seq(Outs)] : g = Outlines(Outs, K, FALSE)
    BY OutlineTypes
<1>3. \A a : Shows(Frames, K, TRUE, a) = Flat(Over(h, a)) /\ Shows(Outs, K, FALSE, a) = Flat(Over(g, a))
    BY <1>1, <1>2 DEF Shows
<1>4. (\A f \in Frames : h[f] = Outline(K, TRUE, f)) /\ (\A f \in Outs : g[f] = Outline(K, FALSE, f))
    BY <1>1, <1>2 DEF Outlines
<1>5. /\ Flat(Over(h, <<>>)) = <<>>
      /\ \A a \in Seq(Frames), f \in Frames : Flat(Over(h, Append(a, f))) = Flat(Over(h, a)) \o h[f]
    <2>1. OverIs(Frames, Outs, h)
        BY OverAppend
    <2> QED BY <2>1, Zenon DEF OverIs
<1>6. /\ \A a \in Seq(Outs) : Flat(Over(g, a)) \in Seq(Outs)
      /\ Flat(Over(g, <<>>)) = <<>>
      /\ \A a \in Seq(Outs), f \in Outs : Flat(Over(g, Append(a, f))) = Flat(Over(g, a)) \o g[f]
    <2>1. OverIs(Outs, Outs, g)
        BY OverAppend
    <2> QED BY <2>1, Zenon DEF OverIs
<1>7. ASSUME NEW a \in Seq(Frames), NEW f \in Frames
      PROVE  Shows(Frames, K, TRUE, Append(a, f)) = Shows(Frames, K, TRUE, a) \o Outline(K, TRUE, f)
    BY <1>3, <1>4, <1>5
<1>8. ASSUME NEW a \in Seq(Outs), NEW f \in Outs
      PROVE  Shows(Outs, K, FALSE, Append(a, f)) = Shows(Outs, K, FALSE, a) \o Outline(K, FALSE, f)
    <2>1. Flat(Over(g, Append(a, f))) = Flat(Over(g, a)) \o g[f]
        BY <1>6
    <2>2. g[f] = Outline(K, FALSE, f)
        BY <1>4
    <2> QED BY <1>3, <2>1, <2>2, Zenon
<1>9. \A a \in Seq(Outs) : Shows(Outs, K, FALSE, a) \in Seq(Outs)
    BY <1>3, <1>6
<1>10. Shows(Frames, K, TRUE, <<>>) = <<>> /\ Shows(Outs, K, FALSE, <<>>) = <<>>
    BY <1>3, <1>5, <1>6
<1> QED BY <1>7, <1>8, <1>9, <1>10

-----------------------------------------------------------------------------
(* The order of the frames.                                                *)

Ongoing(L, i) == <<"start", i>> \in L /\ <<"stop", i>> \notin L

\* f may come after the frames in L.
May(K, L, f) ==
    /\ f.event = "message_start" => <<"message_start", 0>> \notin L
    /\ f.event = "start" => <<"message_start", 0>> \in L /\ <<"start", f.index>> \notin L
    /\ f.event \in {"delta", "stop"} => Ongoing(L, f.index)
    /\ f.event = "delta" => Fits(K[f.index], f.kind)
    /\ f.event = "message_stop" => <<"message_start", 0>> \in L /\ \A i \in Nat : ~Ongoing(L, i)
    /\ f.event # "error"
    /\ <<"message_stop", 0>> \notin L

Ordered(K, a) == \A p \in 1..Len(a) : May(K, Before(a, p), a[p])

\* A frame that may come leaves the stream in order.
LEMMA OrderedAppend ==
    ASSUME NEW X, NEW a \in Seq(X), NEW f \in X, NEW K, Ordered(K, a), May(K, Logged(a), f)
    PROVE  Ordered(K, Append(a, f))
<1>1. PICK b \in Seq(X) : b = Append(a, f)
    BY AppendProperties
<1>2. Len(b) = Len(a) + 1 /\ Len(a) \in Nat /\ b[Len(a) + 1] = f /\ \A i \in 1..Len(a) : b[i] = a[i]
    BY <1>1, AppendProperties, LenProperties
<1>3. \A p \in 1..(Len(a) + 1) : Before(b, p) = Before(a, p)
    BY <1>1, LoggedAppend
<1>4. ASSUME NEW p \in 1..Len(b) PROVE May(K, Before(b, p), b[p])
    <2>1. CASE p \in 1..Len(a)
        <3>1. Before(b, p) = Before(a, p) /\ b[p] = a[p]
            BY <1>2, <1>3, <2>1
        <3>2. May(K, Before(a, p), a[p])
            BY <2>1 DEF Ordered
        <3> QED BY <3>1, <3>2
    <2>2. CASE p = Len(a) + 1
        <3>1. Before(b, p) = Logged(a) /\ b[p] = f
            BY <1>2, <1>3, <2>2 DEF Logged
        <3> QED BY <3>1
    <2> QED BY <1>2, <2>1, <2>2
<1> QED BY <1>1, <1>4 DEF Ordered

SameMarks(L, M) ==
    \A e \in {"message_start", "start", "stop", "message_stop"} : \A i \in Nat : (<<e, i>> \in L) = (<<e, i>> \in M)

\* Whether a frame may come depends on the marks before it alone.
LEMMA MayMarks ==
    ASSUME NEW K, NEW L, NEW M, SameMarks(L, M), NEW f, f.index \in Nat, May(K, L, f),
           NEW g, g.event = f.event, g.index = f.index, g.kind = f.kind
    PROVE  May(K, M, g)
<1>1. \A i \in Nat : Ongoing(L, i) = Ongoing(M, i)
    BY DEF SameMarks, Ongoing
<1>2. (<<"message_start", 0>> \in L) = (<<"message_start", 0>> \in M)
      /\ (<<"message_stop", 0>> \in L) = (<<"message_stop", 0>> \in M)
      /\ (<<"start", f.index>> \in L) = (<<"start", f.index>> \in M)
    BY DEF SameMarks
<1> QED BY <1>1, <1>2 DEF May

\* What has been written is what has come, but for the texts of the blocks.
Mirrors(K, a, out) ==
    /\ out \in Seq(Outs) /\ SameMarks(Logged(a), Logged(out)) /\ Ordered(K, out)
    /\ \A p \in 1..Len(out) : out[p].event = "start" => K[out[p].index] = out[p].kind
    /\ Shows(Outs, K, FALSE, out) = Shows(Frames, K, TRUE, a)

\* A frame that is written with its text changed is mirrored.
LEMMA MirrorFrame ==
    ASSUME NEW K, NEW a \in Seq(Frames), NEW out, Mirrors(K, a, out), NEW f \in Frames, NEW x \in Seq(Bit),
           May(K, Logged(a), f), f.event = "start" => K[f.index] = f.kind, Told(K, f) \/ x = Literal(f.text)
    PROVE  Mirrors(K, Append(a, f), Append(out, WithText(f, x)))
<1>1. PICK g \in Outs : /\ g = WithText(f, x) /\ g.event = f.event /\ g.index = f.index /\ g.kind = f.kind
                        /\ WithText(g, <<>>) = WithText(f, <<>>)
    BY WithTextFacts
<1>2. out \in Seq(Outs) /\ f.index \in Nat
    BY WithTextFacts DEF Mirrors
<1>3. PICK o \in Seq(Outs) : o = Append(out, g)
    BY <1>2, AppendProperties
<1>4. Len(o) = Len(out) + 1 /\ Len(out) \in Nat /\ o[Len(out) + 1] = g /\ \A i \in 1..Len(out) : o[i] = out[i]
    BY <1>2, <1>3, AppendProperties, LenProperties
<1>5. SameMarks(Logged(Append(a, f)), Logged(o))
    <2>1. Logged(Append(a, f)) = Logged(a) \cup {<<f.event, f.index>>}
        BY LoggedAppend
    <2>2. Logged(o) = Logged(out) \cup {<<f.event, f.index>>}
        BY <1>1, <1>2, <1>3, LoggedAppend
    <2> QED BY <2>1, <2>2 DEF Mirrors, SameMarks
<1>6. Ordered(K, o)
    <2>1. May(K, Logged(out), g)
        BY <1>1, <1>2, MayMarks DEF Mirrors
    <2> QED BY <1>2, <1>3, <2>1, OrderedAppend DEF Mirrors
<1>7. ASSUME NEW p \in 1..Len(o), o[p].event = "start" PROVE K[o[p].index] = o[p].kind
    <2>1. CASE p \in 1..Len(out)
        BY <1>4, <1>7, <2>1 DEF Mirrors
    <2>2. CASE p = Len(out) + 1
        BY <1>1, <1>4, <1>7, <2>2
    <2> QED BY <1>4, <2>1, <2>2
<1>8. Shows(Outs, K, FALSE, o) = Shows(Frames, K, TRUE, Append(a, f))
    <2>1. Told(K, g) = Told(K, f)
        BY <1>1 DEF Told
    <2>2. Outline(K, FALSE, g) = Outline(K, TRUE, f)
        <3>1. CASE Told(K, f)
            BY <1>1, <2>1, <3>1 DEF Outline, WithText
        <3>2. CASE ~Told(K, f)
            <4>1. g = [f EXCEPT !.text = Literal(@)]
                BY <1>1, <3>2, WithTextFacts
            <4> QED BY <2>1, <3>2, <4>1 DEF Outline
        <3> QED BY <3>1, <3>2
    <2>3. Shows(Outs, K, FALSE, o) = Shows(Outs, K, FALSE, out) \o Outline(K, FALSE, g)
        BY <1>2, <1>3, ShowsAppend
    <2>4. Shows(Frames, K, TRUE, Append(a, f)) = Shows(Frames, K, TRUE, a) \o Outline(K, TRUE, f)
        BY ShowsAppend
    <2> QED BY <2>2, <2>3, <2>4 DEF Mirrors
<1> QED BY <1>1, <1>3, <1>5, <1>6, <1>7, <1>8 DEF Mirrors

\* A delta that is written on its own before the end of a block does not show in the outline.
LEMMA MirrorFlush ==
    ASSUME NEW K, NEW a \in Seq(Frames), NEW out, Mirrors(K, a, out), NEW i \in Nat, NEW x \in Seq(Bit),
           Ongoing(Logged(a), i), K[i] \in {"text", "tool"}, <<"message_stop", 0>> \notin Logged(a)
    PROVE  Frame("delta", i, K[i], x) \in Outs /\ Mirrors(K, a, Append(out, Frame("delta", i, K[i], x)))
<1>1. PICK g \in Outs : g = Frame("delta", i, K[i], x) /\ g.event = "delta" /\ g.index = i /\ g.kind = K[i]
    <2>1. PICK k : k = K[i]
        OBVIOUS
    <2>2. PICK g : g = [event |-> "delta", index |-> i, kind |-> k, text |-> x]
        OBVIOUS
    <2>3. g \in Outs /\ g.event = "delta" /\ g.index = i /\ g.kind = k
        BY <2>1, <2>2 DEF Outs
    <2>4. g = Frame("delta", i, K[i], x)
        BY <2>1, <2>2 DEF Frame
    <2> QED BY <2>1, <2>3, <2>4
<1>2. out \in Seq(Outs)
    BY DEF Mirrors
<1>3. PICK o \in Seq(Outs) : o = Append(out, g)
    BY <1>2, AppendProperties
<1>4. Len(o) = Len(out) + 1 /\ Len(out) \in Nat /\ o[Len(out) + 1] = g /\ \A j \in 1..Len(out) : o[j] = out[j]
    BY <1>2, <1>3, AppendProperties, LenProperties
<1>5. SameMarks(Logged(a), Logged(o))
    <2>1. Logged(o) = Logged(out) \cup {<<"delta", i>>}
        BY <1>1, <1>2, <1>3, LoggedAppend
    <2> QED BY <2>1 DEF Mirrors, SameMarks
<1>6. Ordered(K, o)
    <2>1. May(K, Logged(a), g)
        BY <1>1 DEF May, Fits
    <2>2. May(K, Logged(out), g)
        BY <1>1, <2>1, MayMarks DEF Mirrors
    <2> QED BY <1>2, <1>3, <2>2, OrderedAppend DEF Mirrors
<1>7. ASSUME NEW p \in 1..Len(o), o[p].event = "start" PROVE K[o[p].index] = o[p].kind
    <2>1. CASE p \in 1..Len(out)
        BY <1>4, <1>7, <2>1 DEF Mirrors
    <2>2. CASE p = Len(out) + 1
        BY <1>1, <1>4, <1>7, <2>2
    <2> QED BY <1>4, <2>1, <2>2
<1>8. Shows(Outs, K, FALSE, o) = Shows(Frames, K, TRUE, a)
    <2>1. Outline(K, FALSE, g) = <<>>
        BY <1>1 DEF Outline, Told
    <2>2. Shows(Outs, K, FALSE, o) = Shows(Outs, K, FALSE, out) \o Outline(K, FALSE, g)
        BY <1>2, <1>3, ShowsAppend
    <2>3. Shows(Outs, K, FALSE, out) \o <<>> = Shows(Outs, K, FALSE, out)
        BY <1>2, ShowsAppend, ConcatEmptySeq
    <2> QED BY <2>1, <2>2, <2>3 DEF Mirrors
<1> QED BY <1>1, <1>3, <1>5, <1>6, <1>7, <1>8 DEF Mirrors

-----------------------------------------------------------------------------
(* What a frame does to the state of the stream.                           *)

Machine(s, B) ==
    /\ s = [out |-> s.out, tails |-> s.tails, kinds |-> s.kinds, failed |-> s.failed]
    /\ s.out \in Seq(Outs) /\ s.failed \in BOOLEAN
    /\ s.tails \in [DOMAIN s.tails -> Text] /\ DOMAIN s.tails \subseteq 0..B

LEMMA KeptType == ASSUME NEW s, NEW B, Machine(s, B), NEW i PROVE Kept(s, i) \in Text
<1>1. <<>> \in Text
    BY EmptySeq DEF Text
<1> QED BY <1>1 DEF Machine, Kept

\* The state s2 has written g, and keeps back the text of the block i.
Moved(s, s2, g, i, text) ==
    /\ s2.out = Append(s.out, g) /\ s2.failed = s.failed
    /\ \A j : Kept(s2, j) = IF j = i THEN text ELSE Kept(s, j)

\* What a step that writes a frame and keeps text back does to the state.
LEMMA KeepFacts ==
    ASSUME NEW s, NEW B, Machine(s, B), NEW i \in 0..B, NEW text \in Text,
           NEW g \in Outs, NEW k, NEW s2,
           s2 = [out |-> Append(s.out, g), tails |-> Keep(s, i, text), kinds |-> k, failed |-> s.failed]
    PROVE  Machine(s2, B) /\ Moved(s, s2, g, i, text) /\ s2.kinds = k
<1>1. PICK x : x = Keep(s, i, text)
    OBVIOUS
<1>2. s2.out = Append(s.out, g) /\ s2.tails = x /\ s2.kinds = k /\ s2.failed = s.failed
      /\ s2 = [out |-> s2.out, tails |-> s2.tails, kinds |-> s2.kinds, failed |-> s2.failed]
    BY <1>1
<1>3. x = [j \in DOMAIN s.tails \cup {i} |-> IF j = i THEN text ELSE s.tails[j]]
    BY <1>1 DEF Keep
<1>4. x \in [DOMAIN x -> Text] /\ DOMAIN x \subseteq 0..B
    BY <1>3 DEF Machine
<1>5. Append(s.out, g) \in Seq(Outs)
    BY AppendProperties DEF Machine
<1>6. \A j : Kept(s2, j) = IF j = i THEN text ELSE Kept(s, j)
    BY <1>2, <1>3 DEF Kept
<1> QED BY <1>2, <1>4, <1>5, <1>6 DEF Machine, Moved

\* A frame is passed on as it came (write).
LEMMA VerbatimFacts ==
    ASSUME NEW s, NEW B, Machine(s, B), NEW f \in Frames
    PROVE  /\ Machine(Verbatim(s, f), B) /\ Verbatim(s, f).kinds = s.kinds
           /\ Verbatim(s, f).out = Append(s.out, WithText(f, Literal(f.text)))
                  /\ Verbatim(s, f).failed = s.failed
           /\ \A j : Kept(Verbatim(s, f), j) = Kept(s, j)
<1>1. PICK g \in Outs : g = WithText(f, Literal(f.text)) /\ g = [f EXCEPT !.text = Literal(@)]
    BY WithTextFacts, LiteralType
<1>2. PICK s2 : s2 = Verbatim(s, f)
    OBVIOUS
<1>3. s2 = [s EXCEPT !.out = Append(@, g)]
    BY <1>1, <1>2 DEF Verbatim, Emit
<1>4. PICK o, t, k, x : s = [out |-> o, tails |-> t, kinds |-> k, failed |-> x]
    BY DEF Machine
<1>5. s.out = o /\ s.tails = t /\ s.kinds = k /\ s.failed = x
    BY <1>4
<1>6. s2 = [out |-> Append(o, g), tails |-> t, kinds |-> k, failed |-> x]
    BY <1>3, <1>4
<1>7. s2.out = Append(o, g) /\ s2.tails = t /\ s2.kinds = k /\ s2.failed = x
    BY <1>6
<1>8. Append(o, g) \in Seq(Outs)
    BY <1>5, AppendProperties DEF Machine
<1>9. Machine(s2, B)
    BY <1>5, <1>6, <1>7, <1>8 DEF Machine
<1>10. \A j : Kept(s2, j) = Kept(s, j)
    BY <1>5, <1>7 DEF Kept
<1> QED BY <1>1, <1>2, <1>5, <1>7, <1>9, <1>10

\* What was kept back of a block is written in a frame of its own (flushTail).
LEMMA FlushFacts ==
    ASSUME NEW s, NEW B, Machine(s, B), NEW i \in 0..B, NEW k \in {"text", "tool"}, 
           Kept(s, i) # <<>> => s.kinds[i] = k, ~Flush(s, i).failed
    PROVE  /\ Kept(s, i) = <<>> => Flush(s, i) = s
           /\ Kept(s, i) # <<>> =>
                  /\ Machine(Flush(s, i), B) /\ Flush(s, i).kinds = s.kinds
                  /\ Moved(s, Flush(s, i), Frame("delta", i, k, Unmasked(Kept(s, i))), i, <<>>)
<1>1. Kept(s, i) = <<>> => Flush(s, i) = s
    BY DEF Flush
<1>2. ASSUME Kept(s, i) # <<>>
      PROVE  /\ Machine(Flush(s, i), B) /\ Flush(s, i).kinds = s.kinds
             /\ Moved(s, Flush(s, i), Frame("delta", i, k, Unmasked(Kept(s, i))), i, <<>>)
    <2>1. PICK text \in Text : text = Kept(s, i)
        BY KeptType
    <2>2. PICK g : g = Frame("delta", i, k, Unmasked(text))
        OBVIOUS
    <2>3. g \in Outs
        <3>1. PICK u \in Seq(Bit) : u = Unmasked(text)
            BY UnmaskedFacts
        <3>2. g = [event |-> "delta", index |-> i, kind |-> k, text |-> u]
            BY <2>2, <3>1 DEF Frame
        <3> QED BY <3>2 DEF Outs
    <2>4. PICK o, t, n, x : s = [out |-> o, tails |-> t, kinds |-> n, failed |-> x]
        BY DEF Machine
    <2>5. s.out = o /\ s.tails = t /\ s.kinds = n /\ s.failed = x
        BY <2>4
    <2>6. PICK y : y = Keep(s, i, <<>>)
        OBVIOUS
    <2>7. CASE s.kinds[i] = "tool" /\ Broken \cap ToSet(text) # {}
        <3>1. Flush(s, i) = [s EXCEPT !.failed = TRUE]
            BY <1>2, <2>1, <2>7 DEF Flush
        <3>2. Flush(s, i).failed = TRUE
            BY <2>4, <3>1
        <3> QED BY <3>2
    <2>8. CASE ~(s.kinds[i] = "tool" /\ Broken \cap ToSet(text) # {})
        <3>1. Flush(s, i) = Emit([s EXCEPT !.tails = y], Frame("delta", i, s.kinds[i], Unmasked(text)))
            BY <1>2, <2>1, <2>6, <2>8 DEF Flush
        <3>2. Frame("delta", i, s.kinds[i], Unmasked(text)) = g
            BY <1>2, <2>2
        <3>3. Flush(s, i) = Emit([s EXCEPT !.tails = y], g)
            BY <3>1, <3>2
        <3>4. [s EXCEPT !.tails = y] = [out |-> o, tails |-> y, kinds |-> n, failed |-> x]
            BY <2>4
        <3>5. Flush(s, i) = [out |-> Append(o, g), tails |-> y, kinds |-> n, failed |-> x]
            BY <3>3, <3>4 DEF Emit
        <3>6. Flush(s, i) = [out |-> Append(s.out, g), tails |-> Keep(s, i, <<>>), kinds |-> n, failed |-> s.failed]
            BY <2>5, <2>6, <3>5
        <3>7. <<>> \in Text
            BY Joining
        <3>8. Machine(Flush(s, i), B) /\ Moved(s, Flush(s, i), g, i, <<>>) /\ Flush(s, i).kinds = n
            BY <2>3, <3>6, <3>7, KeepFacts
        <3> QED BY <2>1, <2>2, <2>5, <3>8
    <2> QED BY <2>7, <2>8
<1> QED BY <1>1, <1>2

\* At the end of a message nothing is kept back any more.
LEMMA FlushAllFacts ==
    ASSUME NEW s, NEW B \in Nat, Machine(s, B), \A i \in Nat : Kept(s, i) = <<>>
    PROVE  FlushAll(s) = s
<1> DEFINE blocks == DOMAIN s.tails
           made(u, i) == IF i = 0 THEN s ELSE Flush(u[Greatest({j \in {0} \cup blocks : j < i})], i)
           Is(u) == u = [i \in {0} \cup blocks |-> made(u, i)]
           U == CHOOSE u : Is(u)
<1>1. blocks \subseteq 0..B /\ {0} \cup blocks \subseteq 0..B /\ {0} \cup blocks \subseteq Nat
    BY DEF Machine
<1>2. \A i \in blocks : Flush(s, i) = s
    BY <1>1 DEF Flush
<1>3. \A i \in {0} \cup blocks : i # 0 =>
          Greatest({j \in {0} \cup blocks : j < i}) \in {0} \cup blocks
            /\ Greatest({j \in {0} \cup blocks : j < i}) < i
    <2>1. ASSUME NEW i \in {0} \cup blocks, i # 0
          PROVE  Greatest({j \in {0} \cup blocks : j < i}) \in {0} \cup blocks
                 /\ Greatest({j \in {0} \cup blocks : j < i}) < i
        <3>1. PICK S : S = {j \in {0} \cup blocks : j < i}
            OBVIOUS
        <3>2. S \subseteq 0..B
            BY <1>1, <3>1
        <3>3. 0 \in S
            <4>1. i \in 0..B
                BY <1>1
            <4> QED BY <2>1, <3>1, <4>1
        <3>4. Greatest(S) \in S
            BY <3>2, <3>3, GreatestFacts
        <3>5. Greatest(S) \in {0} \cup blocks /\ Greatest(S) < i
            BY <3>1, <3>4
        <3> QED BY <3>1, <3>5
    <2> QED BY <2>1
<1>4. Is([i \in {0} \cup blocks |-> s])
    <2>1. PICK c : c = [i \in {0} \cup blocks |-> s]
        OBVIOUS
    <2>2. ASSUME NEW i \in {0} \cup blocks PROVE made(c, i) = s
        <3>1. CASE i = 0
            BY <3>1
        <3>2. CASE i # 0
            <4>1. PICK m : m = Greatest({j \in {0} \cup blocks : j < i})
                OBVIOUS
            <4>2. m \in {0} \cup blocks
                BY <1>3, <3>2, <4>1
            <4>3. c[m] = s
                BY <2>1, <4>2
            <4>4. Flush(s, i) = s
                BY <1>2, <3>2
            <4> QED BY <3>2, <4>1, <4>3, <4>4
        <3> QED BY <3>1, <3>2
    <2> QED BY <2>1, <2>2
<1>5. Is(U)
    <2> HIDE DEF Is
    <2> QED BY <1>4
<1>6. \A i \in {0} \cup blocks : U[i] = made(U, i)
    <2> HIDE DEF U, made
    <2> QED BY <1>5
<1>7. ASSUME NEW i \in {0} \cup blocks PROVE U[i] = s
    <2> SUFFICES ASSUME U[i] # s PROVE FALSE
        OBVIOUS
    <2> DEFINE T == {j \in {0} \cup blocks : U[j] # s}
    <2>1. T \subseteq Nat /\ T # {}
        <3>1. i \in T
            <4> HIDE DEF U
            <4> QED OBVIOUS
        <3>2. T \subseteq {0} \cup blocks
            <4> HIDE DEF U
            <4> QED OBVIOUS
        <3> HIDE DEF T
        <3> QED BY <1>1, <3>1, <3>2
    <2>2. PICK l \in T : \A y \in T : l <= y
        <3> HIDE DEF T
        <3> QED BY <2>1, MinExists
    <2>3. U[l] = made(U, l) /\ l \in {0} \cup blocks /\ U[l] # s
        <3> HIDE DEF U, made
        <3> QED BY <1>6, <2>2
    <2>4. l # 0
        <3> HIDE DEF U
        <3> QED BY <2>3
    <2>5. PICK m : m = Greatest({j \in {0} \cup blocks : j < l})
        OBVIOUS
    <2>6. m \in {0} \cup blocks /\ m < l
        BY <1>3, <2>3, <2>4, <2>5
    <2>7. U[m] = s
        <3> HIDE DEF U
        <3>1. m \notin T
            <4>1. m \in Nat /\ l \in Nat
                BY <1>1, <2>3, <2>6
            <4> HIDE DEF T
            <4> QED BY <2>2, <2>6, <4>1
        <3> QED BY <2>6, <3>1
    <2>8. U[l] = Flush(U[m], l)
        <3> HIDE DEF U
        <3> QED BY <2>3, <2>4, <2>5
    <2>9. Flush(s, l) = s
        BY <1>2, <2>3, <2>4
    <2> HIDE DEF U, T, made
    <2> QED BY <2>3, <2>7, <2>8, <2>9
<1>8. FlushAll(s) = U[Greatest({0} \cup blocks)]
    BY DEF FlushAll
<1>9. Greatest({0} \cup blocks) \in {0} \cup blocks
    <2>1. PICK S : S = {0} \cup blocks
        OBVIOUS
    <2>2. S \subseteq 0..B /\ S # {}
        BY <1>1, <2>1
    <2>3. Greatest(S) \in S
        BY <2>2, GreatestFacts
    <2> QED BY <2>1, <2>3
<1> HIDE DEF U
<1> QED BY <1>7, <1>8, <1>9

-----------------------------------------------------------------------------
(* What a frame that is written adds to its block.                         *)

KindsWith(kinds, i, kind) == [j \in DOMAIN kinds \cup {i} |-> IF j = i THEN kind ELSE kinds[j]]

\* Of the text that is to be restored x comes out, and k is kept back.
Advances(text, x, k) ==
    \/ x = <<>> /\ k = text
    \/ \E P : Halves(text, P, k) /\ x = Unmasked(P)

\* A part of what is kept back is restored and written, or nothing.
LEMMA FollowsAdvance ==
    ASSUME NEW t, NEW o, NEW text, Follows(t, o, text), NEW x, NEW k, Advances(text, x, k)
    PROVE  Follows(t, o \o x, k)
<1>1. CASE x = <<>> /\ k = text
    <2>1. o \in Seq(Bit)
        BY DEF Follows
    <2>2. o \o <<>> = o
        BY <2>1, Joining
    <2> QED BY <1>1, <2>2
<1>2. CASE \E P : Halves(text, P, k) /\ x = Unmasked(P)
    BY <1>2, FollowsCut
<1> QED BY <1>1, <1>2 DEF Advances

\* The state s2 has written f.
Writes(B, s, s2, f) ==
    /\ Machine(s2, B)
    /\ \E x \in Seq(Bit), k \in Text :
           /\ Moved(s, s2, WithText(f, x), f.index, k)
           /\ \/ x = Literal(f.text) /\ k = Kept(s, f.index) /\ ~(f.event = "start" /\ f.kind = "text")
                 /\ ~(f.event = "delta" /\ f.kind \in {"text", "tool"} /\ s.kinds[f.index] = f.kind)
              \/ Advances(Kept(s, f.index) \o f.text, x, k) /\ f.event \in {"start", "delta"}
                     /\ f.kind \in {"text", "tool"}
                 /\ (f.event = "delta" => s.kinds[f.index] = f.kind)

\* A frame whose text is none of a block is written as it came.
LEMMA VerbatimWrites ==
    ASSUME NEW s, NEW B, Machine(s, B), NEW f \in Frames, f.index \in 0..B, ~(f.event = "start" /\ f.kind = "text"),
           ~(f.event = "delta" /\ f.kind \in {"text", "tool"} /\ s.kinds[f.index] = f.kind)
    PROVE  Writes(B, s, Verbatim(s, f), f) /\ Verbatim(s, f).kinds = s.kinds
<1>1. PICK s2 : s2 = Verbatim(s, f)
    OBVIOUS
<1>2. PICK x \in Seq(Bit) : x = Literal(f.text)
    BY WithTextFacts, LiteralType
<1>3. PICK k \in Text : k = Kept(s, f.index)
    BY KeptType
<1>4. /\ Machine(s2, B) /\ s2.kinds = s.kinds
      /\ s2.out = Append(s.out, WithText(f, x)) /\ s2.failed = s.failed
      /\ \A j : Kept(s2, j) = Kept(s, j)
    BY <1>1, <1>2, VerbatimFacts
<1>5. Moved(s, s2, WithText(f, x), f.index, k)
    BY <1>3, <1>4 DEF Moved
<1> QED BY <1>1, <1>2, <1>3, <1>4, <1>5 DEF Writes

\* The start of a block (contentBlockStart).
LEMMA StartFacts ==
    ASSUME NEW s, NEW B, Machine(s, B), NEW f \in Frames, f.index \in 0..B, f.event = "start", Kept(s, f.index) = <<>>
    PROVE  Writes(B, s, Start(s, f), f) /\ Start(s, f).kinds = KindsWith(s.kinds, f.index, f.kind)
<1>1. PICK o, t, n, e : s = [out |-> o, tails |-> t, kinds |-> n, failed |-> e]
    BY DEF Machine
<1>2. s.out = o /\ s.tails = t /\ s.kinds = n /\ s.failed = e
    BY <1>1
<1>3. PICK m : m = KindsWith(n, f.index, f.kind)
    OBVIOUS
<1>4. PICK known : known = [out |-> o, tails |-> t, kinds |-> m, failed |-> e]
    OBVIOUS
<1>5. known.out = o /\ known.tails = t /\ known.kinds = m /\ known.failed = e
    BY <1>4
<1>6. [s EXCEPT !.kinds = [j \in DOMAIN @ \cup {f.index} |-> IF j = f.index THEN f.kind ELSE @[j]]] = known
    <2>1. [s EXCEPT !.kinds = [j \in DOMAIN @ \cup {f.index} |-> IF j = f.index THEN f.kind ELSE @[j]]]
              = [out |-> o, tails |-> t,
                 kinds |-> [j \in DOMAIN n \cup {f.index} |-> IF j = f.index THEN f.kind ELSE n[j]], failed |-> e]
        BY <1>1
    <2> QED BY <1>3, <1>4, <2>1 DEF KindsWith
<1>7. CASE f.kind # "text"
    <2>1. Start(s, f) = Verbatim(known, f)
        BY <1>6, <1>7 DEF Start
    <2>2. Machine(known, B) /\ \A j : Kept(known, j) = Kept(s, j)
        BY <1>2, <1>4, <1>5 DEF Machine, Kept
    <2>3. Writes(B, known, Verbatim(known, f), f) /\ Verbatim(known, f).kinds = m
        BY <1>5, <1>7, <2>2, VerbatimWrites
    <2>4. Writes(B, s, Verbatim(known, f), f)
        <3>1. PICK s2 : s2 = Verbatim(known, f)
            OBVIOUS
        <3>2. \A g, i, k : Moved(known, s2, g, i, k) => Moved(s, s2, g, i, k)
            BY <1>2, <1>5, <2>2 DEF Moved
        <3> QED BY <2>2, <2>3, <3>1, <3>2 DEF Writes
    <2> QED BY <1>2, <1>3, <2>1, <2>3, <2>4
<1>8. CASE f.kind = "text"
    <2>1. PICK text \in Text : text = f.text
        BY WithTextFacts
    <2>2. PICK P, K : P = SubSeq(text, 1, HoldFrom(text)) /\ K = SubSeq(text, HoldFrom(text) + 1, Len(text))
        OBVIOUS
    <2>3. Halves(text, P, K)
        BY <2>2, HalvesIs
    <2>4. P \in Text /\ K \in Text
        BY <2>3 DEF Halves
    <2>5. PICK x \in Seq(Bit) : x = Unmasked(P)
        BY <2>4, UnmaskedFacts
    <2>6. PICK y : y = Keep(s, f.index, K)
        OBVIOUS
    <2>7. Start(s, f) = Emit([known EXCEPT !.tails = y], WithText(f, x))
        BY <1>6, <1>8, <2>1, <2>2, <2>5, <2>6 DEF Start, WithText
    <2>8. PICK g \in Outs : g = WithText(f, x)
        BY WithTextFacts
    <2>9. [known EXCEPT !.tails = y] = [out |-> o, tails |-> y, kinds |-> m, failed |-> e]
        BY <1>4
    <2>10. Start(s, f) = [out |-> Append(o, g), tails |-> y, kinds |-> m, failed |-> e]
        BY <2>7, <2>8, <2>9 DEF Emit
    <2>11. Start(s, f) = [out |-> Append(s.out, g), tails |-> Keep(s, f.index, K), kinds |-> m, failed |-> s.failed]
        BY <1>2, <2>6, <2>10
    <2>12. Machine(Start(s, f), B) /\ Moved(s, Start(s, f), g, f.index, K) /\ Start(s, f).kinds = m
        BY <2>4, <2>11, KeepFacts
    <2>13. Advances(Kept(s, f.index) \o f.text, x, K)
        <3>1. Kept(s, f.index) \o f.text = text
            BY <2>1, Joining
        <3> QED BY <2>3, <2>5, <3>1 DEF Advances
    <2> QED BY <1>2, <1>3, <1>8, <2>4, <2>8, <2>12, <2>13 DEF Writes
<1> QED BY <1>7, <1>8

\* A delta of a block (contentBlockDelta).
LEMMA DeltaFacts ==
    ASSUME NEW s, NEW B, Machine(s, B), NEW f \in Frames, f.index \in 0..B, f.event = "delta"
    PROVE  Writes(B, s, Delta(s, f), f) /\ Delta(s, f).kinds = s.kinds
<1>1. CASE f.kind \notin {"text", "tool"} \/ s.kinds[f.index] # f.kind
    <2>1. Delta(s, f) = Verbatim(s, f)
        BY <1>1 DEF Delta
    <2> QED BY <1>1, <2>1, VerbatimWrites
<1>2. CASE f.kind \in {"text", "tool"} /\ s.kinds[f.index] = f.kind
    <2>1. PICK text \in Text : text = Kept(s, f.index) \o f.text
        BY KeptType, WithTextFacts, Joining
    <2>2. PICK cut : cut = IF f.kind = "tool" THEN 0 ELSE HoldFrom(text)
        OBVIOUS
    <2>3. PICK P, K : P = SubSeq(text, 1, cut) /\ K = SubSeq(text, cut + 1, Len(text))
        OBVIOUS
    <2>4. P \in Text /\ K \in Text /\ Advances(text, Unmasked(P), K)
        <3>1. CASE f.kind = "tool"
            <4>1. Len(text) \in Nat /\ SubSeq(text, 1, Len(text)) = text
                BY TextJoint, LenProperties DEF Text
            <4>2. SubSeq(text, 0 + 1, 0) \in Text /\ Len(SubSeq(text, 0 + 1, 0)) = 0 - 0
                BY <4>1, CutFacts DEF Text
            <4>3. cut = 0 /\ 0 + 1 = 1 /\ 0 - 0 = 0
                BY <2>2, <3>1
            <4>4. P = <<>> /\ K = text
                <5>1. P \in Seq(Symbols) /\ Len(P) = 0
                    BY <2>3, <4>2, <4>3 DEF Text
                <5>2. P = <<>>
                    BY <5>1, EmptySeq
                <5> QED BY <2>3, <4>1, <4>3, <5>2
            <4>5. Unmasked(P) = <<>> /\ <<>> \in Text
                BY <4>4, Joining, UnmaskedFacts
            <4> QED BY <4>4, <4>5 DEF Advances
        <3>2. CASE f.kind # "tool"
            <4>1. Halves(text, P, K)
                BY <2>2, <2>3, <3>2, HalvesIs
            <4> QED BY <4>1 DEF Advances, Halves
        <3> QED BY <3>1, <3>2
    <2>5. PICK x \in Seq(Bit) : x = Unmasked(P)
        BY <2>4, UnmaskedFacts
    <2>6. PICK y : y = Keep(s, f.index, K)
        OBVIOUS
    <2>7. Delta(s, f) = Emit([s EXCEPT !.tails = y], WithText(f, x))
        BY <1>2, <2>1, <2>2, <2>3, <2>5, <2>6 DEF Delta, WithText
    <2>8. PICK g \in Outs : g = WithText(f, x)
        BY WithTextFacts
    <2>9. PICK o, t, n, e : s = [out |-> o, tails |-> t, kinds |-> n, failed |-> e]
        BY DEF Machine
    <2>10. s.out = o /\ s.tails = t /\ s.kinds = n /\ s.failed = e
        BY <2>9
    <2>11. [s EXCEPT !.tails = y] = [out |-> o, tails |-> y, kinds |-> n, failed |-> e]
        BY <2>9
    <2>12. Delta(s, f) = [out |-> Append(o, g), tails |-> y, kinds |-> n, failed |-> e]
        BY <2>7, <2>8, <2>11 DEF Emit
    <2>13. Delta(s, f) = [out |-> Append(s.out, g), tails |-> Keep(s, f.index, K), kinds |-> n, failed |-> s.failed]
        BY <2>6, <2>10, <2>12
    <2>14. Machine(Delta(s, f), B) /\ Moved(s, Delta(s, f), g, f.index, K) /\ Delta(s, f).kinds = n
        BY <2>4, <2>13, KeepFacts
    <2> QED BY <1>2, <2>1, <2>4, <2>5, <2>8, <2>10, <2>14 DEF Writes
<1> QED BY <1>1, <1>2

-----------------------------------------------------------------------------
(* The state of the stream after the frames in a; nothing more will be     *)
(* written of the blocks in Ended.                                         *)

BlockSound(K, a, s, Ended, i) ==
    LET t == Says(Frames, K, a, i)
        o == Says(Outs, K, s.out, i)
    IN  /\ i \in Ended => Kept(s, i) = <<>> /\ Complete(t, o)
        /\ i \notin Ended => Follows(t, o, Kept(s, i))
        /\ Kept(s, i) # <<>> => <<"start", i>> \in Logged(a) /\ K[i] \in {"text", "tool"}

Sound(K, B, a, s, Ended) ==
    /\ a \in Seq(Frames) /\ Machine(s, B) /\ Mirrors(K, a, s.out)
    /\ \A i \in Nat : <<"start", i>> \in Logged(a) => i \in DOMAIN s.kinds /\ s.kinds[i] = K[i]
    /\ \A i \in Ended : <<"start", i>> \in Logged(a)
    /\ \A i \in Nat : BlockSound(K, a, s, Ended, i)

\* The frame f may come next.
Coming(K, B, a, f) ==
    /\ f \in Frames /\ f.index \in 0..B /\ May(K, Logged(a), f)
    /\ f.event = "start" => f.kind = K[f.index]
    /\ f.event = "start" /\ f.kind = "tool" => f.text = <<>>
    /\ ~OfBlock(f) => f.index = 0

\* A frame that is written leaves what is written sound.
LEMMA WritesSound ==
    ASSUME NEW K, NEW B \in Nat, NEW a, NEW s, NEW Ended, Sound(K, B, a, s, Ended), NEW f, Coming(K, B, a, f),
           f.event = "start" => f.index \notin Ended, f.event = "delta" => f.index \notin Ended,
           NEW s2, Writes(B, s, s2, f),
           s2.kinds = IF f.event = "start" THEN KindsWith(s.kinds, f.index, f.kind) ELSE s.kinds
    PROVE  Sound(K, B, Append(a, f), s2, Ended)
<1>1. /\ a \in Seq(Frames) /\ f \in Frames /\ f.index \in 0..B /\ f.index \in Nat /\ May(K, Logged(a), f)
      /\ Mirrors(K, a, s.out) /\ Machine(s, B) /\ Machine(s2, B) /\ s.out \in Seq(Outs)
    <2>1. a \in Seq(Frames) /\ Mirrors(K, a, s.out) /\ Machine(s, B)
        BY DEF Sound
    <2>2. s.out \in Seq(Outs)
        BY <2>1 DEF Mirrors
    <2>3. f \in Frames /\ f.index \in 0..B /\ May(K, Logged(a), f)
        BY DEF Coming
    <2>4. f.index \in Nat
        BY <2>3
    <2>5. Machine(s2, B)
        BY DEF Writes
    <2> QED BY <2>1, <2>2, <2>3, <2>4, <2>5
<1>2. PICK x \in Seq(Bit), k \in Text :
           /\ Moved(s, s2, WithText(f, x), f.index, k)
           /\ \/ x = Literal(f.text) /\ k = Kept(s, f.index) /\ ~(f.event = "start" /\ f.kind = "text")
                 /\ ~(f.event = "delta" /\ f.kind \in {"text", "tool"} /\ s.kinds[f.index] = f.kind)
              \/ Advances(Kept(s, f.index) \o f.text, x, k) /\ f.event \in {"start", "delta"}
                     /\ f.kind \in {"text", "tool"}
                 /\ (f.event = "delta" => s.kinds[f.index] = f.kind)
    BY DEF Writes
<1>3. PICK g \in Outs : g = WithText(f, x) /\ g.event = f.event /\ g.index = f.index
        /\ g.kind = f.kind /\ g.text = x
    BY <1>1, WithTextFacts
<1>4. s2.out = Append(s.out, g) /\ \A j : Kept(s2, j) = IF j = f.index THEN k ELSE Kept(s, j)
    BY <1>2, <1>3 DEF Moved
<1>5. f.event = "delta" => s.kinds[f.index] = K[f.index]
    BY <1>1 DEF Sound, May, Ongoing
<1>6. f.event = "start" => K[f.index] = f.kind
    BY DEF Coming
<1>7. Told(K, f) => Advances(Kept(s, f.index) \o f.text, x, k)
    <2> SUFFICES ASSUME Told(K, f) PROVE Advances(Kept(s, f.index) \o f.text, x, k)
        OBVIOUS
    <2>1. CASE f.event = "start" /\ f.kind = "tool" /\ x = Literal(f.text) /\ k = Kept(s, f.index)
        <3>1. f.text = <<>> /\ Literal(<<>>) = <<>>
            BY <2>1, EmptySeq DEF Coming, Literal
        <3>2. Kept(s, f.index) \o <<>> = Kept(s, f.index)
            BY <1>1, KeptType, Joining
        <3> QED BY <2>1, <3>1, <3>2 DEF Advances
    <2> QED BY <1>2, <1>5, <2>1 DEF Told
<1>8. ~Told(K, f) => x = Literal(f.text) /\ k = Kept(s, f.index)
    BY <1>2, <1>5, <1>6 DEF Told
<1>9. Mirrors(K, Append(a, f), s2.out)
    BY <1>1, <1>3, <1>4, <1>6, <1>8, MirrorFrame
<1>10. Logged(Append(a, f)) = Logged(a) \cup {<<f.event, f.index>>} /\ Append(a, f) \in Seq(Frames)
    BY <1>1, LoggedAppend, AppendProperties
<1>11. ASSUME NEW i \in Nat, <<"start", i>> \in Logged(Append(a, f))
       PROVE  i \in DOMAIN s2.kinds /\ s2.kinds[i] = K[i]
    <2>1. CASE f.event = "start"
        <3>1. s2.kinds = KindsWith(s.kinds, f.index, f.kind)
            BY <2>1
        <3>2. CASE i = f.index
            BY <1>6, <2>1, <3>1, <3>2 DEF KindsWith
        <3>3. CASE i # f.index
            <4>1. <<"start", i>> \in Logged(a)
                BY <1>10, <1>11, <3>3
            <4>2. i \in DOMAIN s.kinds /\ s.kinds[i] = K[i]
                BY <4>1 DEF Sound
            <4> QED BY <3>1, <3>3, <4>2 DEF KindsWith
        <3> QED BY <3>2, <3>3
    <2>2. CASE f.event # "start"
        BY <1>10, <1>11, <2>2 DEF Sound
    <2> QED BY <2>1, <2>2
<1>12. \A i \in Ended : <<"start", i>> \in Logged(Append(a, f))
    BY <1>10 DEF Sound
<1>13. ASSUME NEW i \in Nat PROVE BlockSound(K, Append(a, f), s2, Ended, i)
    <2>1. PICK t, o, u, v : /\ t = Says(Frames, K, a, i) /\ o = Says(Outs, K, s.out, i)
                            /\ u = Says(Frames, K, Append(a, f), i) /\ v = Says(Outs, K, s2.out, i)
        OBVIOUS
    <2>2. u = t \o Share(K, f, i) /\ v = o \o Share(K, g, i) /\ t \in Text /\ o \in Seq(Bit)
        BY <1>1, <1>3, <1>4, <2>1, SaysAppend
    <2>3. /\ i \in Ended => Kept(s, i) = <<>> /\ Complete(t, o)
          /\ i \notin Ended => Follows(t, o, Kept(s, i))
          /\ Kept(s, i) # <<>> => <<"start", i>> \in Logged(a) /\ K[i] \in {"text", "tool"}
        BY <2>1 DEF Sound, BlockSound
    <2>4. Told(K, g) = Told(K, f)
        BY <1>3 DEF Told
    <2>5. CASE i = f.index /\ Told(K, f)
        <3>1. Share(K, f, i) = f.text /\ Share(K, g, i) = x
            BY <1>3, <2>4, <2>5 DEF Share
        <3>2. i \notin Ended /\ K[i] \in {"text", "tool"}
            BY <2>5 DEF Told
        <3>3. Kept(s2, i) = k /\ f.text \in Text
            BY <1>1, <1>4, <2>5, WithTextFacts
        <3>4. Follows(t \o f.text, o, Kept(s, i) \o f.text)
            BY <2>3, <3>2, <3>3, FollowsMore
        <3>5. Advances(Kept(s, i) \o f.text, x, k)
            BY <1>7, <2>5
        <3>6. Follows(u, v, k)
            BY <2>2, <3>1, <3>4, <3>5, FollowsAdvance
        <3>7. <<"start", i>> \in Logged(Append(a, f))
            BY <1>1, <1>10, <2>5 DEF Told, May, Ongoing
        <3> QED BY <2>1, <3>2, <3>3, <3>6, <3>7 DEF BlockSound
    <2>6. CASE ~(i = f.index /\ Told(K, f))
        <3>1. Share(K, f, i) = <<>> /\ Share(K, g, i) = <<>>
            BY <1>3, <2>4, <2>6 DEF Share
        <3>2. u = t /\ v = o
            BY <2>2, <3>1, Joining
        <3>3. Kept(s2, i) = Kept(s, i)
            BY <1>4, <1>8, <2>6
        <3>4. <<"start", i>> \in Logged(a) => <<"start", i>> \in Logged(Append(a, f))
            BY <1>10
        <3> QED BY <2>1, <2>3, <3>2, <3>3, <3>4 DEF BlockSound
    <2> QED BY <2>5, <2>6
<1> QED BY <1>1, <1>9, <1>10, <1>11, <1>12, <1>13 DEF Sound

\* The end of a block: what was kept back comes out.
LEMMA FlushSound ==
    ASSUME NEW K, NEW B \in Nat, NEW a, NEW s, NEW Ended, Sound(K, B, a, s, Ended), NEW i \in 0..B, i \notin Ended,
           Ongoing(Logged(a), i), <<"message_stop", 0>> \notin Logged(a), ~Flush(s, i).failed
    PROVE  Sound(K, B, a, Flush(s, i), Ended \cup {i}) /\ Kept(Flush(s, i), i) = <<>>
<1>1. /\ a \in Seq(Frames) /\ Machine(s, B) /\ Mirrors(K, a, s.out) /\ s.out \in Seq(Outs) /\ i \in Nat
      /\ <<"start", i>> \in Logged(a)
    <2>1. a \in Seq(Frames) /\ Mirrors(K, a, s.out) /\ Machine(s, B)
        BY DEF Sound
    <2>2. s.out \in Seq(Outs)
        BY <2>1 DEF Mirrors
    <2>3. <<"start", i>> \in Logged(a)
        BY DEF Ongoing
    <2> QED BY <2>1, <2>2, <2>3
<1>2. i \in DOMAIN s.kinds /\ s.kinds[i] = K[i]
    BY <1>1 DEF Sound
<1>3. /\ Follows(Says(Frames, K, a, i), Says(Outs, K, s.out, i), Kept(s, i))
      /\ Kept(s, i) # <<>> => K[i] \in {"text", "tool"}
    BY <1>1 DEF Sound, BlockSound
<1>4. CASE Kept(s, i) = <<>>
    <2>1. Flush(s, i) = s
        BY <1>4 DEF Flush
    <2>2. Complete(Says(Frames, K, a, i), Says(Outs, K, s.out, i))
        BY <1>3, <1>4, FollowsEnd
    <2>3. \A j \in Nat : BlockSound(K, a, s, Ended \cup {i}, j)
        <3>1. ASSUME NEW j \in Nat PROVE BlockSound(K, a, s, Ended \cup {i}, j)
            <4>1. BlockSound(K, a, s, Ended, j)
                BY DEF Sound
            <4>2. CASE j = i
                BY <1>4, <2>2, <4>2 DEF BlockSound
            <4>3. CASE j # i
                BY <4>1, <4>3 DEF BlockSound
            <4> QED BY <4>2, <4>3
        <3> QED BY <3>1
    <2> QED BY <1>1, <1>4, <2>1, <2>3 DEF Sound
<1>5. CASE Kept(s, i) # <<>>
    <2>1. PICK kind \in {"text", "tool"} : kind = K[i]
        BY <1>3, <1>5
    <2>2. PICK k \in Text : k = Kept(s, i)
        BY <1>1, KeptType
    <2>3. PICK x \in Seq(Bit) : x = Unmasked(k)
        BY UnmaskedFacts
    <2>4. PICK g \in Outs : g = Frame("delta", i, kind, x) /\ Mirrors(K, a, Append(s.out, g))
        BY <1>1, <2>1, MirrorFlush
    <2>5. PICK s2 : s2 = Flush(s, i)
        OBVIOUS
    <2>6. Machine(s2, B) /\ s2.kinds = s.kinds /\ Moved(s, s2, g, i, <<>>)
        BY <1>1, <1>2, <1>5, <2>1, <2>2, <2>3, <2>4, <2>5, FlushFacts
    <2>7. s2.out = Append(s.out, g) /\ \A j : Kept(s2, j) = IF j = i THEN <<>> ELSE Kept(s, j)
        BY <2>6 DEF Moved
    <2>8. g.event = "delta" /\ g.index = i /\ g.kind = K[i] /\ g.text = x /\ Told(K, g)
        BY <2>1, <2>4 DEF Frame, Told
    <2>9. ASSUME NEW j \in Nat PROVE BlockSound(K, a, s2, Ended \cup {i}, j)
        <3>1. BlockSound(K, a, s, Ended, j)
            BY DEF Sound
        <3>2. PICK o, v : o = Says(Outs, K, s.out, j) /\ v = Says(Outs, K, s2.out, j)
            OBVIOUS
        <3>3. v = o \o Share(K, g, j) /\ o \in Seq(Bit)
            <4>1. s2.out = Append(s.out, g) /\ s.out \in Seq(Outs) /\ g \in Outs
                BY <1>1, <2>7
            <4> QED BY <3>2, <4>1, SaysAppend
        <3>4. CASE j = i
            <4>1. Share(K, g, j) = Unmasked(Kept(s, i))
                BY <2>2, <2>3, <2>8, <3>4 DEF Share
            <4>2. Complete(Says(Frames, K, a, i), v)
                BY <1>3, <3>2, <3>3, <3>4, <4>1, FollowsEnd
            <4>3. Kept(s2, i) = <<>>
                BY <2>7
            <4> QED BY <3>2, <3>4, <4>2, <4>3 DEF BlockSound
        <3>5. CASE j # i
            <4>1. v = o
                BY <2>8, <3>3, <3>5, Joining DEF Share
            <4>2. Kept(s2, j) = Kept(s, j)
                BY <2>7, <3>5
            <4> QED BY <3>1, <3>2, <3>5, <4>1, <4>2 DEF BlockSound
        <3> QED BY <3>4, <3>5
    <2>10. Mirrors(K, a, s2.out)
        BY <2>4, <2>7
    <2>11. \A j \in Nat : <<"start", j>> \in Logged(a) => j \in DOMAIN s2.kinds /\ s2.kinds[j] = K[j]
        BY <2>6 DEF Sound
    <2>12. \A j \in Ended \cup {i} : <<"start", j>> \in Logged(a)
        BY <1>1 DEF Sound
    <2>13. Sound(K, B, a, s2, Ended \cup {i})
        BY <1>1, <2>6, <2>9, <2>10, <2>11, <2>12 DEF Sound
    <2>14. Kept(s2, i) = <<>>
        BY <2>7
    <2> QED BY <2>5, <2>13, <2>14
<1> QED BY <1>4, <1>5

Stopped(a) == {i \in Nat : <<"stop", i>> \in Logged(a)}

\* Each frame the stream takes leaves what is written sound.
LEMMA StepSound ==
    ASSUME NEW K, NEW B \in Nat, NEW a, NEW s, Sound(K, B, a, s, Stopped(a)), NEW f, Coming(K, B, a, f),
           ~s.failed, ~TakeFrame(s, f).failed
    PROVE  Sound(K, B, Append(a, f), TakeFrame(s, f), Stopped(Append(a, f)))
<1>1. /\ a \in Seq(Frames) /\ f \in Frames /\ f.index \in 0..B /\ f.index \in Nat /\ May(K, Logged(a), f)
      /\ Machine(s, B) /\ Mirrors(K, a, s.out)
    BY DEF Sound, Coming
<1>2. Logged(Append(a, f)) = Logged(a) \cup {<<f.event, f.index>>}
    BY <1>1, LoggedAppend
<1>3. f.event # "stop" => Stopped(Append(a, f)) = Stopped(a)
    BY <1>2 DEF Stopped
<1>4. f.event = "start" => f.index \notin Stopped(a)
    BY <1>1 DEF May, Sound
<1>5. f.event = "delta" => f.index \notin Stopped(a)
    BY <1>1 DEF May, Ongoing, Stopped
<1>6. CASE f.event = "start"
    <2>1. TakeFrame(s, f) = Start(s, f)
        BY <1>6 DEF TakeFrame
    <2>2. Kept(s, f.index) = <<>>
        <3>1. <<"start", f.index>> \notin Logged(a)
            BY <1>1, <1>6 DEF May
        <3> QED BY <1>1, <3>1 DEF Sound, BlockSound
    <2>3. Writes(B, s, Start(s, f), f) /\ Start(s, f).kinds = KindsWith(s.kinds, f.index, f.kind)
        BY <1>1, <1>6, <2>2, StartFacts
    <2> QED BY <1>3, <1>4, <1>6, <2>1, <2>3, WritesSound
<1>7. CASE f.event = "delta"
    <2>1. TakeFrame(s, f) = Delta(s, f)
        BY <1>7 DEF TakeFrame
    <2>2. Writes(B, s, Delta(s, f), f) /\ Delta(s, f).kinds = s.kinds
        BY <1>1, <1>7, DeltaFacts
    <2> QED BY <1>3, <1>5, <1>7, <2>1, <2>2, WritesSound
<1>8. CASE f.event = "stop"
    <2>1. PICK s1 : s1 = Flush(s, f.index)
        OBVIOUS
    <2>2. TakeFrame(s, f) = Verbatim(s1, f)
        BY <1>8, <2>1 DEF TakeFrame
    <2>3. Ongoing(Logged(a), f.index) /\ <<"message_stop", 0>> \notin Logged(a)
        BY <1>1, <1>8 DEF May
    <2>4. f.index \notin Stopped(a)
        BY <2>3 DEF Stopped, Ongoing
    <2>5. ~s1.failed
        <3>1. \A u : Verbatim(u, f).failed = u.failed \/ ~Machine(u, B)
            BY <1>1, VerbatimFacts
        <3>2. CASE Machine(s1, B)
            BY <2>2, <3>1, <3>2
        <3>3. CASE s1.failed = TRUE /\ ~Machine(s1, B)
            BY <2>2, <3>3 DEF Verbatim, Emit
        <3> QED BY <2>1, <2>2, <3>2, <3>3
    <2>6. Sound(K, B, a, s1, Stopped(a) \cup {f.index})
        BY <1>1, <2>1, <2>3, <2>4, <2>5, FlushSound
    <2>7. Machine(s1, B)
        BY <2>6 DEF Sound
    <2>8. Writes(B, s1, Verbatim(s1, f), f) /\ Verbatim(s1, f).kinds = s1.kinds
        BY <1>1, <1>8, <2>7, VerbatimWrites
    <2>9. Sound(K, B, Append(a, f), Verbatim(s1, f), Stopped(a) \cup {f.index})
        BY <1>8, <2>6, <2>8, WritesSound
    <2>10. Stopped(Append(a, f)) = Stopped(a) \cup {f.index}
        BY <1>1, <1>2, <1>8 DEF Stopped
    <2> QED BY <2>2, <2>9, <2>10
<1>9. CASE f.event = "message_stop"
    <2>1. \A i \in Nat : Kept(s, i) = <<>>
        BY <1>1, <1>9 DEF May, Ongoing, Sound, BlockSound, Stopped
    <2>2. FlushAll(s) = s
        BY <1>1, <2>1, FlushAllFacts
    <2>3. TakeFrame(s, f) = Verbatim(s, f)
        BY <1>9, <2>2 DEF TakeFrame
    <2>4. Writes(B, s, Verbatim(s, f), f) /\ Verbatim(s, f).kinds = s.kinds
        BY <1>1, <1>9, VerbatimWrites
    <2> QED BY <1>3, <1>9, <2>3, <2>4, WritesSound
<1>10. CASE f.event \notin {"start", "delta", "stop", "message_stop"}
    <2>1. TakeFrame(s, f) = Verbatim(s, f)
        BY <1>10 DEF TakeFrame
    <2>2. Writes(B, s, Verbatim(s, f), f) /\ Verbatim(s, f).kinds = s.kinds
        BY <1>1, <1>10, VerbatimWrites
    <2> QED BY <1>3, <1>10, <2>1, <2>2, WritesSound
<1> QED BY <1>6, <1>7, <1>8, <1>9, <1>10

-----------------------------------------------------------------------------
(* The stream as a whole.                                                  *)

Fresh == [out |-> <<>>, tails |-> <<>>, kinds |-> <<>>, failed |-> FALSE]

\* The states the stream goes through.
Through(g, a) == g[0] = Fresh /\ \A p \in 1..Len(a) : g[p] = TakeFrame(g[p - 1], a[p])

\* The restored stream is what a pass over its frames makes of it.
LEMMA StreamIs ==
    ASSUME NEW a, Len(a) \in Nat
    PROVE  \E g : Through(g, a) /\ RestoredStream(a) = g[Len(a)]
<1> DEFINE N == Len(a)
           Is(g, m) == g = [p \in 0..m |-> IF p = 0 THEN Fresh ELSE TakeFrame(g[p - 1], a[p])]
           U == {m \in Nat : \E g : Is(g, m)}
           G == CHOOSE g : Is(g, N)
<1>1. 0 \in U
    <2>1. Is([p \in 0..0 |-> Fresh], 0)
        OBVIOUS
    <2> QED BY <2>1
<1>2. ASSUME NEW m \in Nat, m \in U PROVE m + 1 \in U
    <2>1. PICK g : Is(g, m)
        BY <1>2
    <2>2. PICK h : h = [p \in 0..(m + 1) |-> IF p = m + 1 THEN TakeFrame(g[m], a[m + 1]) ELSE g[p]]
        OBVIOUS
    <2>3. ASSUME NEW p \in 0..(m + 1) PROVE h[p] = IF p = 0 THEN Fresh ELSE TakeFrame(h[p - 1], a[p])
        <3>1. CASE p = m + 1
            <4>1. p # 0 /\ p - 1 = m /\ m \in 0..(m + 1) /\ m # m + 1
                BY <3>1
            <4>2. h[m] = g[m]
                BY <2>2, <4>1
            <4>3. h[p] = TakeFrame(g[m], a[m + 1])
                BY <2>2, <3>1
            <4> QED BY <3>1, <4>1, <4>2, <4>3
        <3>2. CASE p # m + 1
            <4>1. p \in 0..m /\ h[p] = g[p]
                BY <2>2, <3>2
            <4>2. g[p] = IF p = 0 THEN Fresh ELSE TakeFrame(g[p - 1], a[p])
                BY <2>1, <4>1
            <4>3. p # 0 => p - 1 \in 0..(m + 1) /\ p - 1 # m + 1
                BY <4>1
            <4>4. p # 0 => h[p - 1] = g[p - 1]
                BY <2>2, <4>3
            <4> QED BY <4>1, <4>2, <4>4
        <3> QED BY <3>1, <3>2
    <2>4. Is(h, m + 1)
        BY <2>2, <2>3
    <2> HIDE DEF Is
    <2> QED BY <2>4
<1>3. N \in U
    <2> HIDE DEF U
    <2> QED BY <1>1, <1>2, NumberInduction
<1>4. Is(G, N)
    <2>1. \E g : Is(g, N)
        <3> HIDE DEF Is
        <3> QED BY <1>3
    <2> HIDE DEF Is
    <2> QED BY <2>1
<1>5. RestoredStream(a) = G[N]
    BY DEF RestoredStream, Fresh
<1>6. G[0] = Fresh
    <2> HIDE DEF G
    <2> QED BY <1>4
<1>7. \A p \in 1..N : G[p] = TakeFrame(G[p - 1], a[p])
    <2>1. \A p \in 1..N : p \in 0..N /\ p # 0
        OBVIOUS
    <2> HIDE DEF G
    <2> QED BY <1>4, <2>1
<1> HIDE DEF G
<1> QED BY <1>5, <1>6, <1>7 DEF Through

\* The first frames.
First(a, p) == SubSeq(a, 1, p)

\* The first frames of a stream.
LEMMA FirstFacts ==
    ASSUME NEW a \in Seq(Frames)
    PROVE  /\ Len(a) \in Nat /\ First(a, 0) = <<>> /\ First(a, Len(a)) = a
           /\ \A p \in 1..Len(a) : First(a, p) = Append(First(a, p - 1), a[p]) /\ a[p] \in Frames
           /\ \A p \in 0..Len(a) : First(a, p) \in Seq(Frames) /\ Logged(First(a, p)) = Before(a, p + 1)
<1>1. Len(a) \in Nat /\ \A p \in 1..Len(a) : a[p] \in Frames
    BY LenProperties, ElementOfSeq
<1>2. ASSUME NEW p \in 0..Len(a)
      PROVE  First(a, p) \in Seq(Frames) /\ Len(First(a, p)) = p /\ \A i \in 1..p : First(a, p)[i] = a[i]
    <2>1. /\ SubSeq(a, 0 + 1, p) \in Seq(Frames) /\ Len(SubSeq(a, 0 + 1, p)) = p - 0
          /\ \A i \in 1..(p - 0) : SubSeq(a, 0 + 1, p)[i] = a[0 + i]
        BY <1>1, CutFacts
    <2>2. 0 + 1 = 1 /\ p - 0 = p /\ \A i \in 1..p : 0 + i = i
        OBVIOUS
    <2>3. SubSeq(a, 0 + 1, p) = First(a, p)
        BY <2>2 DEF First
    <2> QED BY <2>1, <2>2, <2>3
<1>3. First(a, 0) = <<>>
    <2>1. First(a, 0) \in Seq(Frames) /\ Len(First(a, 0)) = 0
        BY <1>1, <1>2
    <2> QED BY <2>1, EmptySeq
<1>4. First(a, Len(a)) = a
    <2>1. PICK b \in Seq(Frames) : b = First(a, Len(a))
        BY <1>1, <1>2
    <2>2. Len(b) = Len(a) /\ \A i \in 1..Len(b) : b[i] = a[i]
        BY <1>1, <1>2, <2>1
    <2>3. b = a
        BY <2>2, SeqEqual
    <2> QED BY <2>1, <2>3
<1>5. ASSUME NEW p \in 1..Len(a) PROVE First(a, p) = Append(First(a, p - 1), a[p])
    <2>1. p \in 0..Len(a) /\ p - 1 \in 0..Len(a) /\ a[p] \in Frames /\ p \in Nat
        BY <1>1
    <2>2. PICK b \in Seq(Frames) : b = First(a, p)
        BY <1>2, <2>1
    <2>3. PICK c \in Seq(Frames) : c = First(a, p - 1)
        BY <1>2, <2>1
    <2>4. PICK d \in Seq(Frames) : d = Append(c, a[p])
        BY <2>1, AppendProperties
    <2>5. Len(b) = p /\ (\A i \in 1..p : b[i] = a[i]) /\ Len(c) = p - 1 /\ \A i \in 1..(p - 1) : c[i] = a[i]
        BY <1>2, <2>1, <2>2, <2>3
    <2>6. Len(d) = Len(c) + 1 /\ d[Len(c) + 1] = a[p] /\ \A i \in 1..Len(c) : d[i] = c[i]
        BY <2>1, <2>4, AppendProperties
    <2>7. Len(d) = p /\ p - 1 + 1 = p /\ d[p] = a[p] /\ \A i \in 1..(p - 1) : d[i] = a[i]
        BY <2>1, <2>5, <2>6
    <2>8. ASSUME NEW i \in 1..Len(b) PROVE b[i] = d[i]
        <3>1. i = p \/ i \in 1..(p - 1)
            BY <2>1, <2>5
        <3> QED BY <2>5, <2>7, <3>1
    <2>9. b = d
        BY <2>5, <2>7, <2>8, SeqEqual
    <2> QED BY <2>2, <2>3, <2>4, <2>9
<1>6. ASSUME NEW p \in 0..Len(a) PROVE Logged(First(a, p)) = Before(a, p + 1)
    <2>1. p + 1 - 1 = p
        OBVIOUS
    <2>2. Logged(First(a, p)) = {<<First(a, p)[q].event, First(a, p)[q].index>> : q \in 1..p}
        <3>1. PICK b : b = First(a, p)
            OBVIOUS
        <3>2. Len(b) = p
            BY <1>2, <3>1
        <3>3. Logged(b) = Before(b, p + 1)
            BY <3>2 DEF Logged
        <3>4. 1..(p + 1 - 1) = 1..p
            BY <2>1
        <3>5. Before(b, p + 1) = {<<b[q].event, b[q].index>> : q \in 1..p}
            BY <3>4 DEF Before
        <3> QED BY <3>1, <3>3, <3>5
    <2>3. Before(a, p + 1) = {<<a[q].event, a[q].index>> : q \in 1..p}
        BY <2>1 DEF Before
    <2> QED BY <1>2, <2>2, <2>3
<1> QED BY <1>1, <1>2, <1>3, <1>4, <1>5, <1>6

\* An error is final.
LEMMA NeverFailed ==
    ASSUME NEW a \in Seq(Frames), NEW g, Through(g, a), ~g[Len(a)].failed, NEW p \in 0..Len(a)
    PROVE  ~g[p].failed
<1> DEFINE N == Len(a)
           T == {q \in 0..N : ~g[q].failed}
<1>1. N \in Nat
    BY LenProperties
<1>2. ASSUME NEW q \in 0..N, \A r \in (q + 1)..N : r \in T PROVE q \in T
    <2>1. CASE q = N
        BY <2>1
    <2>2. CASE q # N
        <3>1. q + 1 \in 1..N /\ q + 1 \in (q + 1)..N /\ q + 1 - 1 = q
            BY <1>1, <2>2
        <3>2. q + 1 \in T
            BY <1>2, <3>1
        <3>3. g[q + 1] = TakeFrame(g[q], a[q + 1])
            BY <3>1 DEF Through
        <3>4. g[q].failed => g[q + 1] = g[q]
            BY <3>3 DEF TakeFrame
        <3> QED BY <3>2, <3>4
    <2> QED BY <2>1, <2>2
<1>3. \A q \in 0..N : q \in T
    <2> HIDE DEF T, N
    <2> QED BY <1>1, <1>2, Downward
<1> QED BY <1>3

\* Before the first frame everything is sound.
LEMMA FreshSound == ASSUME NEW K, NEW B \in Nat PROVE Sound(K, B, <<>>, Fresh, Stopped(<<>>))
<1>1. <<>> \in Seq(Frames) /\ <<>> \in Seq(Outs) /\ Len(<<>>) = 0
    BY EmptySeq
<1>2. Logged(<<>>) = {}
    BY <1>1 DEF Logged, Before
<1>3. Fresh.out = <<>> /\ Fresh.tails = <<>> /\ Fresh.kinds = <<>> /\ Fresh.failed = FALSE
    BY DEF Fresh
<1>4. Machine(Fresh, B)
    <2>1. DOMAIN <<>> = {} /\ <<>> \in [DOMAIN <<>> -> Text]
        OBVIOUS
    <2>2. Fresh = [out |-> Fresh.out, tails |-> Fresh.tails, kinds |-> Fresh.kinds, failed |-> Fresh.failed]
        BY DEF Fresh
    <2> QED BY <1>1, <1>3, <2>1, <2>2 DEF Machine
<1>5. \A i : Kept(Fresh, i) = <<>>
    BY <1>3 DEF Kept
<1>6. Mirrors(K, <<>>, <<>>)
    <2>1. 1..Len(<<>>) = {}
        BY <1>1
    <2>2. Ordered(K, <<>>) /\ \A p \in 1..Len(<<>>) : <<>>[p].event = "start" => K[<<>>[p].index] = <<>>[p].kind
        BY <2>1, Zenon DEF Ordered
    <2>3. SameMarks(Logged(<<>>), Logged(<<>>))
        BY DEF SameMarks
    <2> QED BY <1>1, <2>2, <2>3, ShowsAppend DEF Mirrors
<1>7. Stopped(<<>>) = {}
    BY <1>2 DEF Stopped
<1>8. \A i \in Nat : BlockSound(K, <<>>, Fresh, {}, i)
    BY <1>3, <1>5, SaysAppend, FollowsNothing DEF BlockSound
<1> QED BY <1>1, <1>2, <1>3, <1>4, <1>6, <1>7, <1>8 DEF Sound

\* A stream that comes through without an error is sound at its end.
LEMMA StreamSound ==
    ASSUME NEW K, NEW B \in Nat, NEW a \in Seq(Frames), ~RestoredStream(a).failed,
           \A p \in 1..Len(a) : Coming(K, B, First(a, p - 1), a[p])
    PROVE  Sound(K, B, a, RestoredStream(a), Stopped(a))
<1> DEFINE N == Len(a)
<1>1. N \in Nat
    BY LenProperties
<1>2. PICK g : Through(g, a) /\ RestoredStream(a) = g[N]
    BY <1>1, StreamIs
<1>3. \A p \in 0..N : ~g[p].failed
    BY <1>2, NeverFailed
<1> DEFINE T == {p \in Nat : p <= N => Sound(K, B, First(a, p), g[p], Stopped(First(a, p)))}
<1>4. 0 \in T
    <2>1. First(a, 0) = <<>> /\ g[0] = Fresh
        BY <1>2, FirstFacts DEF Through
    <2>2. Sound(K, B, First(a, 0), g[0], Stopped(First(a, 0)))
        BY <2>1, FreshSound
    <2> QED BY <2>2
<1>5. ASSUME NEW p \in Nat, p \in T PROVE p + 1 \in T
    <2> SUFFICES ASSUME p + 1 <= N PROVE Sound(K, B, First(a, p + 1), g[p + 1], Stopped(First(a, p + 1)))
        OBVIOUS
    <2>1. p \in 0..N /\ p + 1 \in 0..N /\ p + 1 \in 1..N /\ p + 1 - 1 = p /\ p <= N
        BY <1>1
    <2>2. Sound(K, B, First(a, p), g[p], Stopped(First(a, p)))
        BY <1>5, <2>1
    <2>3. PICK f : f = a[p + 1]
        OBVIOUS
    <2>4. g[p + 1] = TakeFrame(g[p], f)
        BY <1>2, <2>1, <2>3 DEF Through
    <2>5. First(a, p + 1) = Append(First(a, p), f)
        BY <2>1, <2>3, FirstFacts
    <2>6. Coming(K, B, First(a, p), f)
        BY <2>1, <2>3
    <2>7. ~g[p].failed /\ ~g[p + 1].failed
        BY <1>3, <2>1
    <2>8. Sound(K, B, Append(First(a, p), f), TakeFrame(g[p], f), Stopped(Append(First(a, p), f)))
        BY <2>2, <2>4, <2>6, <2>7, StepSound
    <2> QED BY <2>4, <2>5, <2>8
<1>6. N \in T
    <2> HIDE DEF T, N
    <2> QED BY <1>1, <1>4, <1>5, NumberInduction
<1>7. First(a, N) = a
    BY FirstFacts
<1> QED BY <1>1, <1>2, <1>6, <1>7

-----------------------------------------------------------------------------
(* An admitted stream comes out whole.                                     *)

LEMMA EarlierIs == \A a, p, e, i : Earlier(a, p, e, i) <=> <<e, i>> \in Before(a, p)
<1>1. ASSUME NEW a, NEW p, NEW e, NEW i, Earlier(a, p, e, i) PROVE <<e, i>> \in Before(a, p)
    <2>1. PICK q \in 1..(p - 1) : a[q].event = e /\ a[q].index = i
        BY <1>1 DEF Earlier
    <2> QED BY <2>1 DEF Before
<1>2. ASSUME NEW a, NEW p, NEW e, NEW i, <<e, i>> \in Before(a, p) PROVE Earlier(a, p, e, i)
    <2>1. PICK q \in 1..(p - 1) : <<e, i>> = <<a[q].event, a[q].index>>
        BY <1>2 DEF Before
    <2>2. a[q].event = e /\ a[q].index = i
        BY <2>1
    <2> QED BY <2>2 DEF Earlier
<1> QED BY <1>1, <1>2

\* K holds the kinds of the blocks that are started.
Kinds(K, a) == \A p \in 1..Len(a) : a[p].event = "start" => KindOf(a, a[p].index) = K[a[p].index]

\* The streams an upstream sends are those in order that have come to their end.
LEMMA AdmittedIs ==
    ASSUME NEW X, NEW a \in Seq(X), \A f \in X : f.index \in Nat, NEW K, Kinds(K, a)
    PROVE  Admitted(a) = (Ordered(K, a) /\ \E p \in DOMAIN a : a[p].event = "message_stop")
<1> DEFINE fits(p) ==
            LET f == a[p] IN
            /\ f.event = "message_start" => ~Earlier(a, p, "message_start", 0)
            /\ f.event = "start" => Earlier(a, p, "message_start", 0) /\ ~Earlier(a, p, "start", f.index)
            /\ f.event \in {"delta", "stop"} => OpenBlock(a, p, f.index)
            /\ f.event = "delta" => Fits(KindOf(a, f.index), f.kind)
            /\ f.event = "message_stop" =>
                   /\ Earlier(a, p, "message_start", 0)
                   /\ \A q \in 1 .. p - 1 : a[q].event = "start" => ~OpenBlock(a, p, a[q].index)
            /\ f.event # "error"
<1>1. Len(a) \in Nat /\ DOMAIN a = 1..Len(a) /\ \A p \in 1..Len(a) : a[p].index \in Nat
    BY LenProperties, ElementOfSeq
<1>2. ASSUME NEW p \in 1..Len(a)
      PROVE  (fits(p) /\ ~Earlier(a, p, "message_stop", 0)) = May(K, Before(a, p), a[p])
    <2>1. PICK L : L = Before(a, p)
        OBVIOUS
    <2>2. PICK f : f = a[p] /\ f.index \in Nat
        BY <1>1
    <2>3. \A e, i : Earlier(a, p, e, i) <=> <<e, i>> \in L
        BY <2>1, EarlierIs
    <2>4. \A i : OpenBlock(a, p, i) <=> Ongoing(L, i)
        BY <2>3 DEF OpenBlock, Ongoing
    <2>5. (\A q \in 1 .. p - 1 : a[q].event = "start" => ~OpenBlock(a, p, a[q].index)) = (\A i \in Nat : ~Ongoing(L, i))
        <3>1. ASSUME NEW i \in Nat, Ongoing(L, i)
              PROVE  \E q \in 1..(p - 1) : a[q].event = "start" /\ OpenBlock(a, p, a[q].index)
            <4>1. Earlier(a, p, "start", i)
                BY <2>3, <3>1 DEF Ongoing
            <4>2. PICK q \in 1..(p - 1) : a[q].event = "start" /\ a[q].index = i
                BY <4>1 DEF Earlier
            <4> QED BY <2>4, <3>1, <4>2
        <3>2. ASSUME NEW q \in 1..(p - 1), a[q].event = "start", OpenBlock(a, p, a[q].index)
              PROVE  \E i \in Nat : Ongoing(L, i)
            <4>1. q \in 1..Len(a)
                BY <1>1
            <4> QED BY <1>1, <2>4, <3>2, <4>1
        <3> QED BY <3>1, <3>2
    <2>6. f.event = "delta" /\ Ongoing(L, f.index) => KindOf(a, f.index) = K[f.index]
        <3> SUFFICES ASSUME Ongoing(L, f.index) PROVE KindOf(a, f.index) = K[f.index]
            OBVIOUS
        <3>1. Earlier(a, p, "start", f.index)
            BY <2>3 DEF Ongoing
        <3>2. PICK q \in 1..(p - 1) : a[q].event = "start" /\ a[q].index = f.index
            BY <3>1 DEF Earlier
        <3>3. q \in 1..Len(a)
            BY <1>1
        <3> QED BY <3>2, <3>3 DEF Kinds
    <2> QED BY <2>1, <2>2, <2>3, <2>4, <2>5, <2>6 DEF May
<1>3. Admitted(a) = ((\E p \in DOMAIN a : a[p].event = "message_stop")
                     /\ \A p \in DOMAIN a : fits(p) /\ ~Earlier(a, p, "message_stop", 0))
    BY DEF Admitted
<1>4. (\A p \in DOMAIN a : fits(p) /\ ~Earlier(a, p, "message_stop", 0)) = Ordered(K, a)
    <2> HIDE DEF fits
    <2> QED BY <1>1, <1>2 DEF Ordered
<1> HIDE DEF fits
<1> QED BY <1>3, <1>4

\* The router rewrites the frames of the texts.
Same(K, a) == \A p \in 1..Len(a) : Rewritten(a, a[p]) = Told(K, a[p])

\* In a stream in order the kind of a block is that of its start.
LEMMA SameIs ==
    ASSUME NEW X, NEW a \in Seq(X), NEW K, Kinds(K, a), Ordered(K, a) PROVE Same(K, a)
<1>1. Len(a) \in Nat
    BY LenProperties
<1>2. ASSUME NEW p \in 1..Len(a), a[p].event \in {"start", "delta"} PROVE KindOf(a, a[p].index) = K[a[p].index]
    <2>1. CASE a[p].event = "start"
        BY <2>1 DEF Kinds
    <2>2. CASE a[p].event = "delta"
        <3>1. Ongoing(Before(a, p), a[p].index)
            BY <2>2 DEF Ordered, May
        <3>2. Earlier(a, p, "start", a[p].index)
            BY <3>1, EarlierIs DEF Ongoing
        <3>3. PICK q \in 1..(p - 1) : a[q].event = "start" /\ a[q].index = a[p].index
            BY <3>2 DEF Earlier
        <3>4. q \in 1..Len(a)
            BY <1>1
        <3> QED BY <3>3, <3>4 DEF Kinds
    <2> QED BY <1>2, <2>1, <2>2
<1> QED BY <1>2 DEF Same, Rewritten, Told

\* The text and the outline of a stream, block by block.
LEMMA SayingIs ==
    ASSUME NEW X, NEW a \in Seq(X), NEW K, Same(K, a)
    PROVE  /\ \A i : TextOf(a, i) = Says(X, K, a, i)
           /\ \A plain \in BOOLEAN : Skeleton(a, plain) = Shows(X, K, plain, a)
<1>1. DOMAIN a = 1..Len(a) /\ \A p \in 1..Len(a) : a[p] \in X
    BY LenProperties, ElementOfSeq
<1>2. ASSUME NEW i PROVE TextOf(a, i) = Says(X, K, a, i)
    <2>1. PICK u : u = [p \in DOMAIN a |-> IF a[p].index = i /\ Rewritten(a, a[p]) THEN a[p].text ELSE <<>>]
        OBVIOUS
    <2>2. PICK v : v = Over(Shares(X, K, i), a)
        OBVIOUS
    <2>3. ASSUME NEW p \in DOMAIN a PROVE u[p] = Shares(X, K, i)[a[p]]
        <3>1. p \in 1..Len(a) /\ a[p] \in X
            BY <1>1
        <3>2. Rewritten(a, a[p]) = Told(K, a[p])
            BY <3>1 DEF Same
        <3>3. Shares(X, K, i)[a[p]] = Share(K, a[p], i)
            BY <3>1 DEF Shares
        <3>4. u[p] = IF a[p].index = i /\ Rewritten(a, a[p]) THEN a[p].text ELSE <<>>
            BY <2>1
        <3> QED BY <3>2, <3>3, <3>4 DEF Share
    <2>4. u = v
        BY <2>1, <2>2, <2>3 DEF Over
    <2> QED BY <2>1, <2>2, <2>4 DEF TextOf, Says
<1>3. ASSUME NEW plain \in BOOLEAN PROVE Skeleton(a, plain) = Shows(X, K, plain, a)
    <2> DEFINE outline(f) == IF Rewritten(a, f)
                             THEN IF f.event = "delta" THEN <<>> ELSE <<[f EXCEPT !.text = <<>>]>>
                             ELSE <<IF plain THEN [f EXCEPT !.text = Literal(@)] ELSE f>>
    <2>1. PICK u : u = [p \in DOMAIN a |-> outline(a[p])]
        OBVIOUS
    <2>2. PICK v : v = Over(Outlines(X, K, plain), a)
        OBVIOUS
    <2>3. ASSUME NEW p \in DOMAIN a PROVE u[p] = Outlines(X, K, plain)[a[p]]
        <3>1. p \in 1..Len(a) /\ a[p] \in X
            BY <1>1
        <3>2. Rewritten(a, a[p]) = Told(K, a[p])
            BY <3>1 DEF Same
        <3>3. Outlines(X, K, plain)[a[p]] = Outline(K, plain, a[p])
            BY <3>1 DEF Outlines
        <3>4. u[p] = outline(a[p])
            <4> HIDE DEF outline
            <4> QED BY <2>1
        <3>5. outline(a[p]) = Outline(K, plain, a[p])
            BY <3>2, Zenon DEF Outline
        <3> HIDE DEF outline
        <3> QED BY <3>3, <3>4, <3>5
    <2>4. u = v
        <3> HIDE DEF outline
        <3> QED BY <2>1, <2>2, <2>3 DEF Over
    <2>5. Skeleton(a, plain) = Flat(u)
        BY <2>1, Zenon DEF Skeleton
    <2> QED BY <2>2, <2>4, <2>5 DEF Shows
<1> QED BY <1>2, <1>3

\* Indexes have a bound.
LEMMA Bounded == \A a \in Seq(Frames) : \E B \in Nat : \A p \in 1..Len(a) : a[p].index \in 0..B
<1> DEFINE T == {a \in Seq(Frames) : \E B \in Nat : \A p \in 1..Len(a) : a[p].index \in 0..B}
<1>1. <<>> \in T
    <2>1. <<>> \in Seq(Frames) /\ Len(<<>>) = 0
        BY EmptySeq
    <2>2. \A p \in 1..Len(<<>>) : <<>>[p].index \in 0..0
        <3>1. 1..Len(<<>>) = {}
            BY <2>1
        <3> QED BY <3>1, Zenon
    <2>3. 0 \in Nat
        OBVIOUS
    <2> QED BY <2>1, <2>2, <2>3
<1>2. ASSUME NEW a \in Seq(Frames), NEW f \in Frames, a \in T PROVE Append(a, f) \in T
    <2>1. PICK B \in Nat : \A p \in 1..Len(a) : a[p].index \in 0..B
        BY <1>2
    <2>2. PICK b \in Seq(Frames) : b = Append(a, f)
        BY AppendProperties
    <2>3. Len(b) = Len(a) + 1 /\ Len(a) \in Nat /\ b[Len(a) + 1] = f /\ \A i \in 1..Len(a) : b[i] = a[i]
        BY <2>2, AppendProperties, LenProperties
    <2>4. PICK n \in Nat : n = f.index
        BY WithTextFacts
    <2>5. ASSUME NEW p \in 1..Len(b) PROVE b[p].index \in 0..(B + n)
        <3>1. CASE p = Len(a) + 1
            BY <2>3, <2>4, <3>1
        <3>2. CASE p # Len(a) + 1
            <4>1. p \in 1..Len(a) /\ b[p] = a[p]
                BY <2>3, <3>2
            <4> QED BY <2>1, <4>1
        <3> QED BY <3>1, <3>2
    <2>6. B + n \in Nat
        OBVIOUS
    <2> QED BY <2>2, <2>5, <2>6
<1>3. Seq(Frames) \subseteq T
    <2> HIDE DEF T
    <2> QED BY <1>1, <1>2, ListInduction
<1> QED BY <1>3

\* What comes out of a stream restored without an error is the whole of it.
LEMMA ComesOutWhole ==
    ASSUME NEW a \in Bodies, Admitted(a), ~RestoredStream(a).failed
    PROVE  Faithful(a, RestoredStream(a).out)
<1> DEFINE N == Len(a)
<1>1. /\ a \in Seq(Frames) /\ N \in Nat /\ DOMAIN a = 1..N
      /\ \A p \in 1..N : /\ a[p] \in Frames /\ a[p].index \in Nat
                         /\ (a[p].index = 0) = ~OfBlock(a[p])
                         /\ a[p].event = "start" /\ a[p].kind = "tool" => a[p].text = <<>>
    <2>1. a \in Seq(Frames)
        BY BodiesAssumption
    <2>2. N \in Nat /\ DOMAIN a = 1..N /\ \A p \in 1..N : a[p] \in Frames
        BY <2>1, LenProperties, ElementOfSeq
    <2>3. \A p \in 1..N : a[p].index \in Nat
        BY <2>2, WithTextFacts
    <2>4. \A p \in 1..N : (a[p].index = 0) = ~OfBlock(a[p])
              /\ (a[p].event = "start" /\ a[p].kind = "tool" => a[p].text = <<>>)
        BY <2>2, BodiesAssumption
    <2> QED BY <2>1, <2>2, <2>3, <2>4
<1>2. PICK K : K = [i \in Nat |-> KindOf(a, i)]
    OBVIOUS
<1>3. Kinds(K, a)
    BY <1>1, <1>2 DEF Kinds
<1>4. \A f \in Frames : f.index \in Nat
    BY WithTextFacts
<1>5. Ordered(K, a) /\ \E p \in DOMAIN a : a[p].event = "message_stop"
    BY <1>1, <1>3, <1>4, AdmittedIs
<1>6. PICK B \in Nat : \A p \in 1..N : a[p].index \in 0..B
    BY <1>1, Bounded
<1>7. ASSUME NEW p \in 1..N, a[p].event = "start" PROVE a[p].kind = K[a[p].index]
    <2>1. PICK i \in Nat : i = a[p].index
        BY <1>1
    <2>2. PICK q : q = CHOOSE x \in DOMAIN a : a[x].event = "start" /\ a[x].index = i
        OBVIOUS
    <2>3. q \in 1..N /\ a[q].event = "start" /\ a[q].index = i
        BY <1>1, <1>7, <2>1, <2>2
    <2>4. ASSUME NEW x \in 1..N, NEW y \in 1..N, x < y, a[x].event = "start", a[y].event = "start",
                 a[x].index = i, a[y].index = i
          PROVE  FALSE
        <3>1. x \in 1..(y - 1)
            BY <1>1, <2>4
        <3>2. <<"start", i>> \in Before(a, y)
            BY <2>4, <3>1 DEF Before
        <3>3. May(K, Before(a, y), a[y])
            BY <1>5 DEF Ordered
        <3> QED BY <2>4, <3>2, <3>3 DEF May
    <2>5. p = q
        <3>1. ~(p < q) /\ ~(q < p)
            BY <1>7, <2>1, <2>3, <2>4
        <3> QED BY <1>1, <2>3, <3>1
    <2> QED BY <1>2, <2>1, <2>2, <2>5 DEF KindOf
<1>8. ASSUME NEW p \in 1..N PROVE Coming(K, B, First(a, p - 1), a[p])
    <2>1. p - 1 \in 0..N /\ p - 1 + 1 = p
        BY <1>1
    <2>2. Logged(First(a, p - 1)) = Before(a, p)
        BY <1>1, <2>1, FirstFacts
    <2>3. May(K, Logged(First(a, p - 1)), a[p])
        BY <1>5, <2>2 DEF Ordered
    <2>4. PICK f \in Frames : f = a[p]
        BY <1>1
    <2>5. f.index \in 0..B /\ (f.event = "start" => f.kind = K[f.index])
        BY <1>6, <1>7, <2>4
    <2>6. (f.event = "start" /\ f.kind = "tool" => f.text = <<>>) /\ (~OfBlock(f) => f.index = 0)
        BY <1>1, <2>4
    <2> QED BY <2>3, <2>4, <2>5, <2>6 DEF Coming
<1>9. PICK s : s = RestoredStream(a)
    OBVIOUS
<1>10. Sound(K, B, a, s, Stopped(a))
    BY <1>1, <1>8, <1>9, StreamSound
<1>11. PICK out \in Seq(Outs) : out = s.out /\ Mirrors(K, a, out)
    BY <1>10 DEF Sound, Mirrors
<1>12. Kinds(K, out)
    <2>1. ASSUME NEW p \in 1..Len(out), out[p].event = "start" PROVE KindOf(out, out[p].index) = K[out[p].index]
        <3>1. PICK i : i = out[p].index
            OBVIOUS
        <3>2. PICK q : q = CHOOSE x \in DOMAIN out : out[x].event = "start" /\ out[x].index = i
            OBVIOUS
        <3>3. DOMAIN out = 1..Len(out)
            BY LenProperties
        <3>4. q \in 1..Len(out) /\ out[q].event = "start" /\ out[q].index = i
            BY <2>1, <3>1, <3>2, <3>3
        <3>5. K[i] = out[q].kind
            BY <1>11, <3>4 DEF Mirrors
        <3> QED BY <3>1, <3>2, <3>5 DEF KindOf
    <2> QED BY <2>1 DEF Kinds
<1>13. Ordered(K, out)
    BY <1>11 DEF Mirrors
<1>14. PICK e \in 1..N : a[e].event = "message_stop" /\ a[e].index = 0
    BY <1>1, <1>5 DEF OfBlock
<1>15. Admitted(out)
    <2>1. \E p \in DOMAIN out : out[p].event = "message_stop"
        <3>1. e \in 1..(Len(a) + 1 - 1)
            BY <1>1
        <3>2. <<"message_stop", 0>> \in Logged(a)
            BY <1>14, <3>1 DEF Logged, Before
        <3>3. <<"message_stop", 0>> \in Logged(out)
            BY <1>11, <3>2 DEF Mirrors, SameMarks
        <3>4. PICK p \in 1..(Len(out) + 1 - 1) : out[p].event = "message_stop"
            BY <3>3 DEF Logged, Before
        <3>5. DOMAIN out = 1..Len(out) /\ Len(out) \in Nat
            BY LenProperties
        <3> QED BY <3>4, <3>5
    <2>2. \A f \in Outs : f.index \in Nat
        BY DEF Outs
    <2> QED BY <1>12, <1>13, <2>1, <2>2, AdmittedIs
<1>16. Same(K, a) /\ Same(K, out)
    BY <1>1, <1>3, <1>5, <1>12, <1>13, SameIs
<1>17. Skeleton(out, FALSE) = Skeleton(a, TRUE)
    <2>1. Skeleton(out, FALSE) = Shows(Outs, K, FALSE, out)
        BY <1>16, SayingIs
    <2>2. Skeleton(a, TRUE) = Shows(Frames, K, TRUE, a)
        BY <1>1, <1>16, SayingIs
    <2> QED BY <1>11, <2>1, <2>2 DEF Mirrors
\* message_stop is the last frame, and every block has ended before it.
<1>18. \A i \in Nat : ~Ongoing(Logged(a), i)
    <2>1. May(K, Before(a, e), a[e])
        BY <1>5 DEF Ordered
    <2>2. \A i \in Nat : ~Ongoing(Before(a, e), i)
        BY <1>14, <2>1 DEF May
    <2>3. e = N
        <3> SUFFICES ASSUME e # N PROVE FALSE
            OBVIOUS
        <3>1. e + 1 \in 1..N /\ e \in 1..(e + 1 - 1)
            <4>1. N \in Nat
                BY <1>1
            <4> HIDE DEF N
            <4> QED BY <4>1
        <3>2. <<"message_stop", 0>> \in Before(a, e + 1)
            BY <1>14, <3>1 DEF Before
        <3>3. May(K, Before(a, e + 1), a[e + 1])
            BY <1>5, <3>1 DEF Ordered
        <3> QED BY <3>2, <3>3 DEF May
    <2>4. Logged(a) = Before(a, e) \cup {<<"message_stop", 0>>}
        <3>1. e - 1 \in 0..N /\ e - 1 + 1 = e /\ e \in 1..N
            BY <1>1
        <3>2. First(a, e) = a /\ First(a, e) = Append(First(a, e - 1), a[e]) /\ First(a, e - 1) \in Seq(Frames)
              /\ Logged(First(a, e - 1)) = Before(a, e)
            BY <1>1, <2>3, <3>1, FirstFacts
        <3>3. Logged(Append(First(a, e - 1), a[e])) = Logged(First(a, e - 1)) \cup {<<a[e].event, a[e].index>>}
            BY <1>1, <3>1, <3>2, LoggedAppend
        <3> QED BY <1>14, <3>2, <3>3
    <2> QED BY <2>2, <2>4 DEF Ongoing
<1>19. ASSUME NEW i \in Nat PROVE Complete(TextOf(a, i), TextOf(out, i))
    <2>1. TextOf(a, i) = Says(Frames, K, a, i) /\ TextOf(out, i) = Says(Outs, K, out, i)
        BY <1>1, <1>16, SayingIs
    <2>2. BlockSound(K, a, s, Stopped(a), i)
        BY <1>10 DEF Sound
    <2>3. CASE i \in Stopped(a)
        BY <1>11, <2>1, <2>2, <2>3 DEF BlockSound
    <2>4. CASE i \notin Stopped(a)
        <3>1. <<"start", i>> \notin Logged(a)
            BY <1>18, <2>4 DEF Stopped, Ongoing
        <3>2. Kept(s, i) = <<>>
            BY <2>2, <3>1 DEF BlockSound
        <3> QED BY <1>11, <2>1, <2>2, <2>4, <3>2, FollowsEnd DEF BlockSound
    <2> QED BY <2>3, <2>4
<1>20. ASSUME NEW i \in {a[p].index : p \in DOMAIN a}
       PROVE  LET text == TextOf(a, i) IN
              Remasked(TextOf(out, i)) = text /\ (Glued(text) \/ TextOf(out, i) = Unmasked(text))
    <2>1. i \in Nat
        BY <1>1
    <2> QED BY <1>19, <2>1 DEF Complete
<1> QED BY <1>9, <1>11, <1>15, <1>17, <1>20 DEF Faithful

\* Of no stream the text comes out torn.
LEMMA NeverTorn == "torn" \notin Outcomes
<1>1. ASSUME NEW a \in Bodies PROVE Outcome(a) # "torn"
    <2>1. CASE ~Admitted(a) \/ RestoredStream(a).failed
        BY <2>1 DEF Outcome
    <2>2. CASE Admitted(a) /\ ~RestoredStream(a).failed
        BY <2>2, ComesOutWhole DEF Outcome
    <2> QED BY <2>1, <2>2
<1> QED BY <1>1 DEF Outcomes

-----------------------------------------------------------------------------
(* Proofs about Exchange, for any pool, any limit, any number of frames and*)
(* anything restoring may come to.  ReleasedWhole is not inductive: it says*)
(* nothing of an answer that is not yet written.  ExchangeInv follows it   *)
(* from the dictionary the request was masked with to the reply.           *)

\* The dictionary of the member that is tried.
Dictionary == IF member \in masks THEN member ELSE 0

\* handleLocal came back with an answer.
Got == pc = "returned" /\ ~failed /\ ~rejected

ShapeInv ==
    /\ stream \in BOOLEAN /\ failed \in BOOLEAN /\ rejected \in BOOLEAN /\ reply \in {"answer", "refusal"}
    /\ frames \in Seq({"useful", "other", "stop"}) /\ taken \in 0..Len(frames) /\ taken <= Limit

\* A member's exchange is there from its Prepare on, on the direct route already before begin.
PreparedInv ==
    (pc = "begin" /\ route = "direct") \/ pc \in {"send", "head", "status", "read", "check"} \/ Got
        => dictionary = Dictionary

ReplyInv ==
    /\ pc = "check" \/ Got => E!Whole
    /\ pc \in {"commit", "write"} /\ reply = "answer" => E!Whole /\ restored = Dictionary
    /\ pc \notin {"stop", "stopping", "done"} => delivered = "nothing"
    /\ delivered \in {"answer", "part"} => E!Whole /\ restored = Dictionary

ExchangeInv == ShapeInv /\ PreparedInv /\ ReplyInv

LEMMA ExchangeStarts == E!Init => ExchangeInv
<1> SUFFICES ASSUME E!Init PROVE ExchangeInv
    OBVIOUS
<1>1. frames = <<>> /\ Len(frames) = 0 /\ frames \in Seq({"useful", "other", "stop"}) /\ Limit \in Nat
    BY ExchangeBoundsAssumption DEF E!Init
<1>2. /\ pc = "receive" /\ stream \in BOOLEAN /\ failed = FALSE /\ rejected = FALSE /\ taken = 0
      /\ delivered = "nothing" /\ reply = "answer"
    BY DEF E!Init
<1>3. 0 \in 0..Len(frames) /\ 0 <= Limit
    BY <1>1
<1>4. ShapeInv
    BY <1>1, <1>2, <1>3 DEF ShapeInv
<1> QED BY <1>2, <1>4 DEF ExchangeInv, PreparedInv, ReplyInv, Got

\* What the handler has and gives is as it was: only the timers, the client or the body moved.
LEMMA NothingGiven ==
    ASSUME ExchangeInv,
           UNCHANGED <<route, stream, masks, pc, member, dictionary, frames, ending, taken, failed, rejected,
                       restored, reply, delivered>>
    PROVE  ExchangeInv'
BY DEF ExchangeInv, ShapeInv, PreparedInv, ReplyInv, Dictionary, Got, E!Whole

\* The handler goes on to a place where it has no answer to give.
LEMMA NoAnswer ==
    ASSUME ExchangeInv, ShapeInv', pc \notin {"stop", "stopping", "done"}, delivered' = "nothing",
           \/ pc' \in {"receive", "prepare", "reject"}
           \/ pc' = "returned" /\ (failed' \/ rejected')
           \/ pc' = "begin" /\ route' # "direct"
    PROVE  ExchangeInv'
BY DEF ExchangeInv, PreparedInv, ReplyInv, Got

LEMMA BeforeStep == ASSUME ExchangeInv, E!Before PROVE ExchangeInv'
<1> USE DEF ExchangeInv, ShapeInv, PreparedInv, ReplyInv, Dictionary, Got
<1>1. CASE E!Receive
    BY <1>1, NoAnswer DEF E!Receive, E!Goes, E!request, E!exchange, E!upstream, E!attempt, E!out
<1>2. CASE E!Begin
    BY <1>2 DEF E!Begin, E!Goes, E!request, E!exchange, E!upstream, E!attempt, E!out, E!Whole
<1>3. CASE E!Prepare
    <2>1. UNCHANGED <<route, stream, masks, member, frames, ending, taken, restored, reply, delivered>> /\ failed' = FALSE
        BY <1>3 DEF E!Prepare, E!request, E!upstream, E!out
    <2>2. delivered = "nothing"
        BY <1>3 DEF E!Prepare
    <2>3. \/ rejected' = FALSE /\ dictionary' = Dictionary /\ pc' \in {"begin", "send"}
          \/ rejected' = TRUE /\ pc' \in {"reject", "returned"}
        BY <1>3 DEF E!Prepare, E!Prepared, E!Goes
    <2> QED BY <2>1, <2>2, <2>3
<1> QED BY <1>1, <1>2, <1>3 DEF E!Before

\* The next member is prepared, or the attempt has failed.
LEMMA FailedAttempt ==
    ASSUME ExchangeInv, E!AttemptFails, pc \notin {"stop", "stopping", "done"},
           UNCHANGED <<stream, frames, ending, taken, reply, delivered>>
    PROVE  ExchangeInv'
<1>1. \/ pc' \in {"reject", "prepare"}
      \/ pc' = "returned" /\ failed' = TRUE
    BY DEF E!AttemptFails, E!Goes
<1>2. failed' \in BOOLEAN /\ rejected' \in BOOLEAN
    BY DEF E!AttemptFails, ExchangeInv, ShapeInv, E!attempt
<1>3. ShapeInv' /\ delivered' = "nothing"
    BY <1>2 DEF ExchangeInv, ShapeInv, ReplyInv
<1> QED BY <1>1, <1>3, NoAnswer

\* The head of an answer comes, or none.
LEMMA HeadStep == ASSUME ExchangeInv, E!SendFails \/ E!Answers \/ E!Headers \/ E!Status PROVE ExchangeInv'
<1>1. CASE E!SendFails
    BY <1>1, FailedAttempt DEF E!SendFails, E!request, E!upstream, E!out
<1>2. CASE E!Answers
    <2>1. frames' = <<>> /\ Len(frames') = 0 /\ taken' = 0
            /\ frames' \in Seq({"useful", "other", "stop"}) /\ Limit \in Nat
        BY <1>2, ExchangeBoundsAssumption DEF E!Answers
    <2>2. pc = "send" /\ pc' = "head"
            /\ UNCHANGED <<route, stream, masks, member, dictionary, failed, rejected, reply, delivered>>
        BY <1>2 DEF E!Answers, E!Goes, E!request, E!exchange, E!attempt, E!out
    <2> QED BY <2>1, <2>2 DEF ExchangeInv, ShapeInv, PreparedInv, ReplyInv, Dictionary, Got
<1>3. CASE E!Headers
    BY <1>3 DEF E!Headers, E!Goes, E!request, E!exchange, E!attempt, E!out, ExchangeInv, ShapeInv, PreparedInv,
                ReplyInv, Dictionary, Got
<1>4. CASE E!Status
    <2>1. pc = "status" /\ UNCHANGED <<route, stream, masks, dictionary, frames, ending, taken, restored, delivered>>
        BY <1>4 DEF E!Status, E!request, E!out
    <2>2. CASE E!AttemptFails /\ UNCHANGED reply
        BY <2>1, <2>2, FailedAttempt
    <2>3. CASE /\ UNCHANGED <<member, failed, rejected>>
               /\ (pc' = "read" /\ UNCHANGED reply) \/ (pc' = "commit" /\ reply' = "refusal")
        BY <2>1, <2>3 DEF ExchangeInv, ShapeInv, PreparedInv, ReplyInv, Dictionary, Got
    <2> QED BY <1>4, <2>2, <2>3 DEF E!Status, E!Goes, E!attempt
<1> QED BY <1>1, <1>2, <1>3, <1>4

\* An answer is taken whole: up to its stop, or to the end of what was sent.
LEMMA ReadWhole ==
    ASSUME ExchangeInv, pc = "read", NEW n, E!ReadDone(n), n \in 0..Len(frames), n <= Limit,
           IF stream THEN n > 0 /\ frames[n] = "stop" ELSE ending = "eof" /\ n = Len(frames),
           UNCHANGED <<route, stream, masks, member, dictionary, rejected, reply, delivered>>
    PROVE  ExchangeInv'
<1>1. taken' = n /\ UNCHANGED <<frames, ending, failed>> /\ pc' \in {"check", "returned"}
    BY DEF E!ReadDone, E!Goes
<1> QED BY <1>1 DEF ExchangeInv, ShapeInv, PreparedInv, ReplyInv, Dictionary, Got, E!Whole

\* An answer that breaks off, or does not fit, is given up.
LEMMA ReadNothing ==
    ASSUME ExchangeInv, pc = "read", E!ReadBroken, UNCHANGED <<stream, rejected, reply, delivered>>
    PROVE  ExchangeInv'
<1>1. frames' = <<>> /\ Len(frames') = 0 /\ taken' = 0 /\ frames' \in Seq({"useful", "other", "stop"})
        /\ Limit \in Nat
    BY ExchangeBoundsAssumption DEF E!ReadBroken
<1>2. (pc' = "reject" /\ failed' = failed) \/ (pc' = "returned" /\ failed' = TRUE)
    BY DEF E!ReadBroken, E!Goes
<1>3. 0 \in 0..Len(frames') /\ 0 <= Limit
    BY <1>1
<1>4. failed' \in BOOLEAN
    BY <1>2 DEF ExchangeInv, ShapeInv
<1>5. ShapeInv'
    BY <1>1, <1>3, <1>4 DEF ExchangeInv, ShapeInv
<1>6. delivered' = "nothing"
    BY DEF ExchangeInv, ReplyInv
<1> QED BY <1>2, <1>5, <1>6, NoAnswer

LEMMA ReadStep == ASSUME ExchangeInv, E!UpstreamSends \/ E!ReadFrame \/ E!ReadEnds PROVE ExchangeInv'
<1>0. Limit \in Nat /\ Len(frames) \in Nat /\ ShapeInv
    BY ExchangeBoundsAssumption DEF ExchangeInv, ShapeInv
<1>1. CASE E!UpstreamSends
    <2>1. pc = "read" /\ UNCHANGED <<route, stream, masks, pc, member, dictionary, taken, failed, rejected, reply, delivered>>
        BY <1>1 DEF E!UpstreamSends, E!request, E!exchange, E!attempt, E!out
    <2>2. frames' \in Seq({"useful", "other", "stop"}) /\ Len(frames') >= Len(frames)
        BY <1>0, <1>1 DEF E!UpstreamSends, ShapeInv
    <2> QED BY <1>0, <2>1, <2>2 DEF ExchangeInv, ShapeInv, PreparedInv, ReplyInv, Dictionary, Got
<1>2. CASE E!ReadFrame
    <2>1. pc = "read" /\ taken < Len(frames)
            /\ UNCHANGED <<route, stream, masks, member, dictionary, rejected, reply, delivered>>
        BY <1>2 DEF E!ReadFrame, E!request, E!exchange, E!out
    <2>2. CASE life.expired \/ taken = Limit
        <3>1. E!ReadBroken
            <4>1. ~(E!Terminal /\ ~life.expired /\ taken < Limit)
                BY <1>0, <2>2
            <4> QED BY <1>2, <2>2, <4>1 DEF E!ReadFrame
        <3> QED BY <2>1, <3>1, ReadNothing
    <2>3. CASE E!Terminal /\ ~life.expired /\ taken < Limit
        <3>1. E!ReadDone(taken + 1)
            BY <1>2, <2>3 DEF E!ReadFrame
        <3>2. taken + 1 \in 0..Len(frames) /\ taken + 1 <= Limit /\ taken + 1 > 0
            BY <1>0, <2>1, <2>3 DEF ShapeInv
        <3>3. stream /\ frames[taken + 1] = "stop"
            BY <2>3 DEF E!Terminal, E!Gives
        <3> QED BY <2>1, <3>1, <3>2, <3>3, ReadWhole
    <2>4. CASE ~(life.expired \/ taken = Limit) /\ ~(E!Terminal /\ ~life.expired /\ taken < Limit)
        <3>1. taken' = taken + 1 /\ UNCHANGED <<pc, frames, ending, failed>>
            BY <1>2, <2>4 DEF E!ReadFrame
        <3>2. taken' \in 0..Len(frames) /\ taken' <= Limit
            BY <1>0, <2>1, <2>4, <3>1 DEF ShapeInv
        <3> QED BY <1>0, <2>1, <3>1, <3>2 DEF ExchangeInv, ShapeInv, PreparedInv, ReplyInv, Dictionary, Got
    <2> QED BY <2>2, <2>3, <2>4
<1>3. CASE E!ReadEnds
    <2>1. pc = "read" /\ UNCHANGED <<route, stream, masks, member, dictionary, rejected, reply, delivered>>
        BY <1>3 DEF E!ReadEnds, E!request, E!exchange, E!out
    <2>2. CASE E!EndsWell /\ E!ReadDone(taken)
        <3>1. taken \in 0..Len(frames) /\ taken <= Limit /\ ~stream /\ ending = "eof" /\ taken = Len(frames)
            BY <1>0, <2>2 DEF ShapeInv, E!EndsWell
        <3> QED BY <2>1, <2>2, <3>1, ReadWhole
    <2>3. CASE E!ReadBroken
        BY <2>1, <2>3, ReadNothing
    <2> QED BY <1>3, <2>2, <2>3 DEF E!ReadEnds
<1> QED BY <1>1, <1>2, <1>3

LEMMA AfterStep == ASSUME ExchangeInv, E!Returned \/ E!After PROVE ExchangeInv'
<1> USE DEF ExchangeInv, ShapeInv, PreparedInv, ReplyInv, Dictionary, Got, E!Whole
<1>1. CASE E!Returned
    BY <1>1 DEF E!Returned, E!Goes, E!request, E!exchange, E!upstream, E!attempt, E!out
<1>2. CASE E!Check
    BY <1>2 DEF E!Check, E!Goes, E!request, E!exchange, E!upstream, E!attempt
<1>3. CASE E!Commit
    BY <1>3 DEF E!Commit, E!Goes, E!request, E!exchange, E!upstream, E!attempt, E!out
<1>4. CASE E!Write
    <2>1. pc = "write" /\ pc' = "stop" /\ (delivered' \in {"answer", "part"} => reply # "refusal")
        BY <1>4 DEF E!Write, E!Goes
    <2>2. UNCHANGED <<route, stream, masks, member, dictionary, frames, ending, taken, failed, rejected, restored, reply>>
        BY <1>4 DEF E!Write, E!request, E!exchange, E!upstream, E!attempt
    <2> QED BY <2>1, <2>2
<1>5. CASE E!Reject
    BY <1>5 DEF E!Reject, E!Goes, E!request, E!exchange, E!upstream, E!attempt
<1>6. CASE E!Stop
    BY <1>6 DEF E!Stop, E!Goes, E!request, E!exchange, E!upstream, E!attempt, E!out
<1>7. CASE E!Stopping
    BY <1>7 DEF E!Stopping, E!Goes, E!request, E!attempt, E!out
<1> QED BY <1>1, <1>2, <1>3, <1>4, <1>5, <1>6, <1>7 DEF E!After

LEMMA ExchangeStep == ASSUME ExchangeInv, [E!Next]_(E!vars) PROVE ExchangeInv'
<1>1. CASE E!Aborts
    BY <1>1, NothingGiven DEF E!Aborts, E!TimerFires, E!ContextFires, E!Abort, E!AbortEnds, E!request, E!exchange,
                              E!upstream, E!attempt, E!out
<1>2. CASE E!ClientLeaves \/ UNCHANGED E!vars
    BY <1>2, NothingGiven DEF E!ClientLeaves, E!vars, E!request, E!exchange, E!upstream, E!attempt, E!out
<1> QED BY <1>1, <1>2, BeforeStep, HeadStep, ReadStep, AfterStep DEF E!Next, E!Reading, E!Outside

(* Whatever member failed before, whatever timer fired, and whenever the   *)
(* client left: what the client gets of an answer is whole, within the     *)
(* limit and restored with the dictionary of the member that gave it       *)
(* (readProtectedBody, serveProtectedLocal, commit).                       *)
THEOREM AnswersReleasedWhole == ExchangeSpec => []ReleasedWhole
<1>1. ExchangeInv => ReleasedWhole
    BY DEF ExchangeInv, ShapeInv, ReplyInv, Dictionary, ReleasedWhole, E!ReleasedWhole
<1>2. ExchangeInv /\ [E!Next]_(E!vars) => ExchangeInv'
    BY ExchangeStep
<1> QED BY ExchangeStarts, <1>1, <1>2, PTL DEF ExchangeSpec, E!Spec

\* What is released came through the check, which refuses, or gives what
\* restoring came to.
OutcomeInv == outcome # "torn"

\* An outcome is one a stream has, or none.
LEMMA OutcomeStep == ASSUME OutcomeInv, [E!Next]_(E!vars) PROVE OutcomeInv'
<1> USE DEF OutcomeInv
<1>1. CASE E!Check
    <2>1. UNCHANGED outcome \/ outcome' \in E!Results
        BY <1>1 DEF E!Check
    <2>2. "torn" \notin E!Results
        BY NeverTorn DEF E!Results
    <2> QED BY <2>1, <2>2
<1>2. CASE E!Before \/ E!SendFails
    BY <1>2 DEF E!Before, E!Receive, E!Begin, E!Prepare, E!SendFails, E!out
<1>3. CASE E!Reading
    BY <1>3 DEF E!Reading, E!Headers, E!Status, E!ReadFrame, E!ReadEnds, E!Returned, E!out
<1>4. CASE E!Commit \/ E!Write \/ E!Reject \/ E!Stop \/ E!Stopping
    BY <1>4 DEF E!Commit, E!Write, E!Reject, E!Stop, E!Stopping, E!out
<1>5. CASE E!Aborts \/ E!Outside
    BY <1>5 DEF E!Aborts, E!TimerFires, E!ContextFires, E!Abort, E!AbortEnds, E!Outside, E!Answers, E!UpstreamSends,
                E!ClientLeaves, E!out
<1>6. CASE UNCHANGED E!vars
    BY <1>6 DEF E!vars, E!out
<1> QED BY <1>1, <1>2, <1>3, <1>4, <1>5, <1>6 DEF E!Next, E!After

(* Whatever the pseudonyms are, whatever stream an upstream sends and      *)
(* however it cuts its texts into deltas: of the answers that are released *)
(* each block's text is what the whole text would have been restored to,   *)
(* unless a pseudonym in it is part of a longer word in the way Glued says,*)
(* and the rest of the stream is as it was (NewStreamUnmasker, holdFrom).  *)
THEOREM RestoresWhole == ExchangeSpec => []RestoredAsWhole
<1>1. E!Init => OutcomeInv
    BY DEF E!Init, OutcomeInv
<1>2. OutcomeInv => RestoredAsWhole
    BY DEF OutcomeInv, RestoredAsWhole, E!RestoredAsWhole
<1>3. OutcomeInv /\ [E!Next]_(E!vars) => OutcomeInv'
    BY OutcomeStep
<1> QED BY <1>1, <1>2, <1>3, PTL DEF ExchangeSpec, E!Spec
=============================================================================
