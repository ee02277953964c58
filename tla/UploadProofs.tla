---------------------------- MODULE UploadProofs ----------------------------
(***************************************************************************)
(* What is proved of chunked uploads, for every size of the file, any        *)
(* number of sessions, chunks of any length in any order, every TTL and      *)
(* bound: the bookkeeping of ranges (UploadServer) and the protocol of the   *)
(* app that resumes (UploadApp).                                             *)
(***************************************************************************)
EXTENDS UploadApp, SequenceTheorems, FiniteSetTheorems, WellFoundedInduction, TLAPS

(* Numbers: a set of them has a least one, and what passes from each number
   to its successor holds of all.                                          *)
LEMMA Smallest ==
    ASSUME NEW T \in SUBSET Nat, T # {}
    PROVE  \E x \in T : \A y \in T : x <= y
<1>1. OpToRel(<, Nat) = {e \in Nat \X Nat : e[1] < e[2]}  BY DEF OpToRel
<1>2. PICK x \in T : \A y \in T : <<y, x>> \notin OpToRel(<, Nat)
  BY NatLessThanWellFounded, WFMin
<1>3. ASSUME NEW y \in T PROVE x <= y
  <2>1. x \in Nat /\ y \in Nat  OBVIOUS
  <2>2. ~(y < x)  BY <1>1, <1>2, <2>1
  <2> QED  BY <2>1, <2>2
<1> QED  BY <1>3

LEMMA UpTo ==
    ASSUME NEW n \in Nat, NEW T, 0 \in T, \A i \in 1..n : i - 1 \in T => i \in T
    PROVE  \A i \in 0..n : i \in T
<1> SUFFICES ASSUME NEW i \in 0..n, i \notin T PROVE FALSE  OBVIOUS
<1> DEFINE U == {j \in 0..n : j \notin T}
<1>1. PICK x \in U : \A y \in U : x <= y
  <2>1. U \in SUBSET Nat /\ U # {}  OBVIOUS
  <2> HIDE DEF U
  <2> QED  BY <2>1, Smallest
<1>2. x \in 1..n /\ x - 1 \in 0..n /\ x - 1 \notin U  BY <1>1
<1> QED  BY <1>1, <1>2

(* A loop of n rounds over values of S has a run, f[i] being the value after
   i rounds.                                                               *)
RunOf(f, n, start, F) == f[0] = start /\ \A i \in 1..n : f[i] = F[<<f[i - 1], i>>]

LEMMA LoopRuns ==
    ASSUME NEW n \in Nat, NEW S, NEW start \in S, NEW F \in [S \X (1..n) -> S]
    PROVE  \E f \in [0..n -> S] : RunOf(f, n, start, F)
<1> DEFINE Run(k, f) == f[0] = start /\ \A i \in 1..k : f[i] = F[<<f[i - 1], i>>]
           T == {k \in 0..n : \E f \in [0..k -> S] : Run(k, f)}
<1>1. 0 \in T
  <2> DEFINE f == [i \in 0..0 |-> start]
  <2>1. f \in [0..0 -> S] /\ Run(0, f)  OBVIOUS
  <2> HIDE DEF f, Run
  <2> QED  BY <2>1
<1>2. ASSUME NEW k \in 1..n, k - 1 \in T PROVE k \in T
  <2>1. PICK f \in [0..(k - 1) -> S] : Run(k - 1, f)  BY <1>2
  <2> DEFINE g == [i \in 0..k |-> IF i = k THEN F[<<f[k - 1], k>>] ELSE f[i]]
  <2>2. f[k - 1] \in S /\ <<f[k - 1], k>> \in S \X (1..n)  BY <1>2
  <2>3. g \in [0..k -> S]  BY <2>2
  <2>4. g[0] = start /\ g[k] = F[<<g[k - 1], k>>]
    <3>1. 0 \in 0..k /\ 0 # k /\ k - 1 \in 0..k /\ k - 1 # k /\ k \in 0..k  OBVIOUS
    <3>2. g[0] = f[0] /\ g[k - 1] = f[k - 1]  BY <3>1
    <3>3. g[k] = F[<<f[k - 1], k>>]  BY <3>1
    <3> QED  BY <2>1, <3>2, <3>3
  <2>5. \A i \in 1..(k - 1) : g[i] = F[<<g[i - 1], i>>]
    <3> SUFFICES ASSUME NEW i \in 1..(k - 1) PROVE g[i] = F[<<g[i - 1], i>>]  OBVIOUS
    <3>1. g[i] = f[i] /\ g[i - 1] = f[i - 1]  BY <1>2
    <3> QED  BY <2>1, <3>1
  <2> HIDE DEF g
  <2>6. \A i \in 1..k : i = k \/ i \in 1..(k - 1)  OBVIOUS
  <2>7. Run(k, g)  BY <2>4, <2>5, <2>6
  <2> QED  BY <2>3, <2>7
<1> HIDE DEF T
<1>3. n \in T  BY <1>1, <1>2, UpTo
<1> QED  BY <1>3 DEF T, RunOf

-----------------------------------------------------------------------------
(* Ranges.                                                                 *)
Ranges == [off : Nat, len : Nat \ {0}]
Has(r, b) == r.off <= b /\ b < r.off + r.len
InFirst(rs, n, b) == \E i \in 1..n : Has(rs[i], b)
Ordered(rs) == \A i \in 2..Len(rs) : rs[i - 1].off <= rs[i].off
Apart(rs) == \A i \in 1..(Len(rs) - 1) : rs[i].off + rs[i].len < rs[i + 1].off

LEMMA CoveredIs ==
    ASSUME NEW rs \in Seq(Ranges)
    PROVE  Covered(rs) = {b \in Nat : InFirst(rs, Len(rs), b)}
<1>1. ASSUME NEW r \in Ranges PROVE r.off..(r.off + r.len - 1) = {b \in Nat : Has(r, b)}
  BY DEF Ranges, Has
<1>2. \A i \in 1..Len(rs) : rs[i] \in Ranges  OBVIOUS
<1>3. ToSet(rs) = {rs[i] : i \in 1..Len(rs)}  BY DEF ToSet
<1>4. ASSUME NEW b, b \in Covered(rs) PROVE b \in Nat /\ InFirst(rs, Len(rs), b)
  <2>1. PICK r \in ToSet(rs) : b \in r.off..(r.off + r.len - 1)  BY <1>4 DEF Covered
  <2>2. PICK i \in 1..Len(rs) : r = rs[i]  BY <1>3, <2>1
  <2>3. b \in Nat /\ Has(rs[i], b)  BY <1>1, <1>2, <2>1, <2>2
  <2> QED  BY <2>3 DEF InFirst
<1>5. ASSUME NEW b \in Nat, InFirst(rs, Len(rs), b) PROVE b \in Covered(rs)
  <2>1. PICK i \in 1..Len(rs) : Has(rs[i], b)  BY <1>5 DEF InFirst
  <2>2. b \in rs[i].off..(rs[i].off + rs[i].len - 1)  BY <1>1, <1>2, <2>1
  <2>3. rs[i] \in ToSet(rs)  BY <1>3
  <2> QED  BY <2>2, <2>3 DEF Covered
<1> QED  BY <1>4, <1>5

(* sort.Slice after an append to a list in order: some order of the elements
   has no decreasing offset, the one that puts the new one in its place.   *)
LEMMA InPlace ==
    ASSUME NEW rs \in Seq(Ranges), Ordered(rs), NEW r \in Ranges
    PROVE  LET t == Append(rs, r) IN \E q \in [1..Len(t) -> 1..Len(t)] : Sorts(q, t)
<1> DEFINE n == Len(rs)
           t == Append(rs, r)
           After == {i \in 1..(n + 1) : i = n + 1 \/ rs[i].off > r.off}
<1>1. n \in Nat /\ Len(t) = n + 1 /\ t[n + 1] = r /\ \A i \in 1..n : t[i] = rs[i]
  BY AppendProperties
<1>2. r.off \in Nat /\ \A i \in 1..n : rs[i].off \in Nat
  <2>1. \A i \in 1..n : rs[i] \in Ranges  OBVIOUS
  <2> QED  BY <2>1 DEF Ranges
<1>3. PICK p \in After : \A y \in After : p <= y
  <2>1. After \in SUBSET Nat /\ n + 1 \in After  OBVIOUS
  <2> HIDE DEF After
  <2> QED  BY <2>1, Smallest
<1>4. \A i \in 1..n : i < p => rs[i].off <= r.off  BY <1>2, <1>3
<1>5. p <= n => r.off <= rs[p].off  BY <1>2, <1>3
<1> DEFINE q == [i \in 1..(n + 1) |-> IF i < p THEN i ELSE IF i = p THEN n + 1 ELSE i - 1]
<1>6. p \in 1..(n + 1)  BY <1>3
<1> HIDE DEF After, n, t
<1>7. q \in [1..(n + 1) -> 1..(n + 1)]  BY <1>1, <1>6
<1>8. ASSUME NEW i \in 2..(n + 1) PROVE t[q[i - 1]].off <= t[q[i]].off
  <2>0. \A j \in 2..n : rs[j - 1].off <= rs[j].off  BY DEF Ordered, n
  <2>1. CASE i < p
    <3>1. q[i - 1] = i - 1 /\ q[i] = i /\ i \in 2..n /\ i - 1 \in 1..n  BY <1>1, <1>6, <2>1
    <3> QED  BY <1>1, <2>0, <3>1
  <2>2. CASE i = p
    <3>1. q[i - 1] = i - 1 /\ q[i] = n + 1 /\ i - 1 \in 1..n /\ i - 1 < p  BY <1>1, <1>6, <2>2
    <3> QED  BY <1>1, <1>4, <3>1
  <2>3. CASE i = p + 1
    <3>1. q[i - 1] = n + 1 /\ q[i] = p /\ p \in 1..n  BY <1>1, <1>6, <2>3
    <3> QED  BY <1>1, <1>5, <3>1
  <2>4. CASE i > p + 1
    <3>1. q[i - 1] = i - 2 /\ q[i] = i - 1 /\ i - 1 \in 2..n /\ i - 2 \in 1..n  BY <1>1, <1>6, <2>4
    <3>2. rs[(i - 1) - 1].off <= rs[i - 1].off /\ (i - 1) - 1 = i - 2  BY <2>0, <3>1
    <3> QED  BY <1>1, <3>1, <3>2
  <2> QED  BY <1>1, <1>6, <2>1, <2>2, <2>3, <2>4
<1>9. {q[i] : i \in 1..(n + 1)} = 1..(n + 1)
  <2>1. ASSUME NEW j \in 1..(n + 1) PROVE \E i \in 1..(n + 1) : q[i] = j
    <3>1. CASE j < p  BY <1>1, <1>6, <3>1
    <3>2. CASE j = n + 1  BY <1>1, <1>6, <3>2
    <3>3. CASE j >= p /\ j # n + 1
      <4>1. j + 1 \in 1..(n + 1) /\ q[j + 1] = j  BY <1>1, <1>6, <3>3
      <4> QED  BY <4>1
    <3> QED  BY <1>1, <1>6, <3>1, <3>2, <3>3
  <2> HIDE DEF q
  <2> QED  BY <1>7, <2>1
<1> HIDE DEF q
<1>10. Sorts(q, t)  BY <1>1, <1>8, <1>9 DEF Sorts
<1> QED  BY <1>1, <1>7, <1>10 DEF t

LEMMA SortedAfterAppend ==
    ASSUME NEW rs \in Seq(Ranges), Ordered(rs), NEW r \in Ranges
    PROVE  LET t == Append(rs, r)
               s == ByOffset(t)
           IN  /\ s \in Seq(Ranges) /\ Len(s) = Len(rs) + 1 /\ Ordered(s)
               /\ \A b : InFirst(s, Len(s), b) <=> InFirst(rs, Len(rs), b) \/ Has(r, b)
<1> DEFINE t == Append(rs, r)
           N == 1..Len(t)
           q == CHOOSE z \in [N -> N] : Sorts(z, t)
           s == [i \in N |-> t[q[i]]]
<1>1. /\ t \in Seq(Ranges) /\ Len(t) = Len(rs) + 1 /\ t[Len(rs) + 1] = r
      /\ \A i \in 1..Len(rs) : t[i] = rs[i]
  BY AppendProperties
<1>2. q \in [N -> N] /\ Sorts(q, t)
  <2>1. \E z \in [N -> N] : Sorts(z, t)  BY InPlace
  <2> QED  BY <2>1
<1>3. ByOffset(t) = s  BY DEF ByOffset
<1> HIDE DEF t, q
<1>4. s \in Seq(Ranges) /\ Len(s) = Len(t)
  <2>1. \A i \in N : t[i] \in Ranges  BY <1>1
  <2>2. Len(t) \in Nat /\ s \in [1..Len(t) -> Ranges]  BY <1>1, <1>2, <2>1
  <2> HIDE DEF s
  <2> QED  BY <2>2
<1>5. Ordered(s)
  <2>1. \A i \in 2..Len(t) : i \in N /\ i - 1 \in N  BY <1>1
  <2> QED  BY <1>2, <1>4, <2>1 DEF Ordered, Sorts
<1>6. ASSUME NEW b PROVE InFirst(s, Len(s), b) <=> InFirst(t, Len(t), b)
  <2>1. ASSUME NEW i \in N, Has(s[i], b) PROVE \E j \in N : Has(t[j], b)  BY <1>2, <2>1
  <2>2. ASSUME NEW j \in N, Has(t[j], b) PROVE \E i \in N : Has(s[i], b)
    <3>1. PICK i \in N : q[i] = j  BY <1>2 DEF Sorts
    <3> QED  BY <2>2, <3>1
  <2> HIDE DEF s
  <2> QED  BY <1>4, <2>1, <2>2 DEF InFirst
<1>7. ASSUME NEW b PROVE InFirst(t, Len(t), b) <=> InFirst(rs, Len(rs), b) \/ Has(r, b)
  <2>1. \A i \in 1..Len(t) : i \in 1..Len(rs) \/ i = Len(rs) + 1  BY <1>1
  <2>2. Len(rs) + 1 \in 1..Len(t) /\ \A i \in 1..Len(rs) : i \in 1..Len(t)  BY <1>1
  <2> QED  BY <1>1, <2>1, <2>2 DEF InFirst
<1> HIDE DEF s
<1> QED  BY <1>1, <1>3, <1>4, <1>5, <1>6, <1>7 DEF t

-----------------------------------------------------------------------------
(* The loop of addRange.  After i rounds the merged list is apart, covers
   what the first i ranges cover, and ends in a range that begins no later
   than the i-th.                                                          *)
Merged(s, i, m) ==
    /\ m \in Seq(Ranges) /\ Apart(m)
    /\ i > 0 => Len(m) > 0 /\ m[Len(m)].off <= s[i].off
    /\ \A b \in Nat : InFirst(m, Len(m), b) <=> InFirst(s, i, b)

LEMMA Lengthened ==
    ASSUME NEW m \in Seq(Ranges), Len(m) > 0, NEW e \in Nat \ {0}
    PROVE  LET n == Len(m)
               x == [m EXCEPT ![n].len = e]
           IN  /\ x \in Seq(Ranges) /\ Len(x) = n
               /\ x[n].off = m[n].off /\ x[n].len = e
               /\ \A k \in 1..n : k # n => x[k] = m[k]
<1>1. PICK n \in Nat : n = Len(m)  OBVIOUS
<1>2. PICK l \in Ranges : l = m[n]  BY <1>1
<1> DEFINE y == [l EXCEPT !.len = e]
           x == [m EXCEPT ![n] = y]
<1>3. y \in Ranges /\ y.off = l.off /\ y.len = e  BY DEF Ranges
<1>4. [m EXCEPT ![n].len = e] = x  BY <1>2
<1> HIDE DEF y
<1>5. n \in 1..n /\ DOMAIN m = 1..n  BY <1>1
<1>6. \A k \in 1..n : x[k] = IF k = n THEN y ELSE m[k]  BY <1>5
<1>7. x \in Seq(Ranges) /\ Len(x) = n  BY <1>1, <1>3, <1>5
<1> HIDE DEF x
<1> QED  BY <1>1, <1>2, <1>3, <1>4, <1>5, <1>6, <1>7

LEMMA MergeRound ==
    ASSUME NEW s \in Seq(Ranges), Ordered(s), NEW i \in 1..Len(s), NEW m, Merged(s, i - 1, m)
    PROVE  Merged(s, i, Merge(m, s[i]))
<1> DEFINE r == s[i]
           n == Len(m)
           l == m[n]
<1>1. m \in Seq(Ranges) /\ n \in Nat /\ Apart(m) /\ r \in Ranges  BY DEF Merged
<1>2. \A k \in 1..n : m[k] \in Ranges  BY <1>1
<1>3. r.off \in Nat /\ r.len \in Nat /\ r.len > 0  BY <1>1 DEF Ranges
<1>4. ASSUME NEW b \in Nat PROVE InFirst(s, i, b) <=> InFirst(m, n, b) \/ Has(r, b)
  <2>1. InFirst(m, n, b) <=> InFirst(s, i - 1, b)  BY DEF Merged
  <2>2. \A k \in 1..i : k = i \/ k \in 1..(i - 1)  OBVIOUS
  <2>3. i \in 1..i /\ \A k \in 1..(i - 1) : k \in 1..i  OBVIOUS
  <2> QED  BY <2>1, <2>2, <2>3 DEF InFirst
<1>5. CASE n > 0 /\ r.off <= l.off + l.len
  <2>1. l \in Ranges /\ l.off \in Nat /\ l.len \in Nat /\ l.len > 0
    <3>1. n \in 1..n  BY <1>1, <1>5
    <3>2. l \in Ranges  BY <1>2, <3>1
    <3> QED  BY <3>2 DEF Ranges
  <2>2. l.off <= r.off
    <3>1. CASE i = 1
      <4>1. ~InFirst(m, n, l.off)
        <5>1. ~InFirst(s, i - 1, l.off)  BY <3>1 DEF InFirst
        <5> QED  BY <2>1, <5>1 DEF Merged
      <4>2. Has(m[n], l.off) /\ n \in 1..n  BY <1>1, <1>5, <2>1 DEF Has
      <4> QED  BY <4>1, <4>2 DEF InFirst
    <3>2. CASE i > 1
      <4>1. i - 1 \in 1..Len(s) /\ i \in 2..Len(s) /\ i - 1 > 0  BY <3>2
      <4>2. l.off <= s[i - 1].off /\ s[i - 1].off <= r.off  BY <4>1 DEF Merged, Ordered
      <4>3. s[i - 1] \in Ranges  BY <4>1
      <4>4. s[i - 1].off \in Nat  BY <4>3 DEF Ranges
      <4> HIDE DEF r, l
      <4> QED  BY <1>3, <2>1, <4>2, <4>4
    <3> QED  BY <3>1, <3>2
  <2> DEFINE end == IF r.off + r.len > l.off + l.len THEN r.off + r.len - l.off ELSE l.len
             x == [m EXCEPT ![n].len = end]
  <2>3. Merge(m, r) = x
    <3>1. m # <<>> /\ Last(m) = l  BY <1>1, <1>5 DEF Last
    <3> QED  BY <1>5, <3>1 DEF Merge
  <2> HIDE DEF r, l
  <2>4. end \in Nat /\ end > 0  BY <1>3, <2>1, <2>2
  <2>5. \A b \in Nat : l.off <= b /\ b < l.off + end <=> Has(l, b) \/ Has(r, b)
    <3> SUFFICES ASSUME NEW b \in Nat
                 PROVE  l.off <= b /\ b < l.off + end <=> Has(l, b) \/ Has(r, b)
      OBVIOUS
    <3>1. end = IF r.off + r.len > l.off + l.len THEN r.off + r.len - l.off ELSE l.len  OBVIOUS
    <3> HIDE DEF end
    <3>2. r.off <= l.off + l.len  BY <1>5
    <3>3. l.off <= b /\ b < l.off + end <=>
             (l.off <= b /\ b < l.off + l.len) \/ (r.off <= b /\ b < r.off + r.len)
      <4>1. CASE r.off + r.len > l.off + l.len
        <5>1. l.off + end = r.off + r.len  BY <1>3, <2>1, <3>1, <4>1
        <5> QED  BY <1>3, <2>1, <2>2, <3>2, <4>1, <5>1
      <4>2. CASE ~(r.off + r.len > l.off + l.len)
        <5>1. end = l.len  BY <3>1, <4>2
        <5> QED  BY <1>3, <2>1, <2>2, <3>2, <4>2, <5>1
      <4> QED  BY <4>1, <4>2
    <3> QED  BY <3>3 DEF Has
  <2> HIDE DEF end
  <2>6. n \in 1..n  BY <1>1, <1>5
  <2>7. /\ x \in Seq(Ranges) /\ Len(x) = n
        /\ x[n].off = l.off /\ x[n].len = end
        /\ \A k \in 1..n : k # n => x[k] = m[k]
    BY <1>1, <1>5, <2>4, Lengthened DEF l
  <2> HIDE DEF x
  <2>8. Apart(x)
    <3>1. ASSUME NEW k \in 1..(n - 1) PROVE x[k].off + x[k].len < x[k + 1].off
      <4>1. k \in 1..n /\ k # n /\ k + 1 \in 1..n  BY <1>1
      <4>2. m[k].off + m[k].len < m[k + 1].off  BY <1>1 DEF Apart
      <4>3. x[k] = m[k] /\ x[k + 1].off = m[k + 1].off
        <5>1. CASE k + 1 = n  BY <2>7, <4>1, <5>1 DEF l
        <5>2. CASE k + 1 # n  BY <2>7, <4>1, <5>2
        <5> QED  BY <5>1, <5>2
      <4> QED  BY <4>2, <4>3
    <3> QED  BY <2>7, <3>1 DEF Apart
  <2>9. ASSUME NEW b \in Nat PROVE InFirst(x, n, b) <=> InFirst(m, n, b) \/ Has(r, b)
    <3>1. Has(x[n], b) <=> Has(m[n], b) \/ Has(r, b)
      <4>1. Has(x[n], b) <=> l.off <= b /\ b < l.off + end  BY <2>7 DEF Has
      <4> QED  BY <2>5, <4>1 DEF l
    <3>2. \A k \in 1..n : k # n => (Has(x[k], b) <=> Has(m[k], b))  BY <2>7
    <3>3. ASSUME NEW k \in 1..n, Has(x[k], b) PROVE InFirst(m, n, b) \/ Has(r, b)
      BY <3>1, <3>2, <3>3 DEF InFirst
    <3>4. ASSUME NEW k \in 1..n, Has(m[k], b) PROVE InFirst(x, n, b)
      BY <3>1, <3>2, <3>4 DEF InFirst
    <3>5. Has(r, b) => InFirst(x, n, b)  BY <2>6, <3>1 DEF InFirst
    <3>6. InFirst(x, n, b) => InFirst(m, n, b) \/ Has(r, b)  BY <3>3 DEF InFirst
    <3>7. InFirst(m, n, b) => InFirst(x, n, b)  BY <3>4 DEF InFirst
    <3> QED  BY <3>5, <3>6, <3>7
  <2>10. /\ Len(x) > 0 /\ x[Len(x)].off <= r.off
         /\ \A b \in Nat : InFirst(x, Len(x), b) <=> InFirst(s, i, b)
    BY <1>4, <1>5, <2>2, <2>7, <2>9
  <2> QED  BY <2>3, <2>7, <2>8, <2>10 DEF Merged, r
<1>6. CASE ~(n > 0 /\ r.off <= l.off + l.len)
  <2> DEFINE x == Append(m, r)
  <2>1. Merge(m, r) = x
    <3>1. CASE n = 0  BY <1>1, <3>1 DEF Merge
    <3>2. CASE n > 0
      <4>1. m # <<>> /\ Last(m) = l  BY <1>1, <3>2 DEF Last
      <4> QED  BY <1>6, <3>2, <4>1 DEF Merge
    <3> QED  BY <1>1, <3>1, <3>2
  <2>2. x \in Seq(Ranges) /\ Len(x) = n + 1 /\ x[n + 1] = r /\ \A k \in 1..n : x[k] = m[k]
    BY <1>1, AppendProperties
  <2> HIDE DEF x
  <2>3. Apart(x)
    <3>1. ASSUME NEW k \in 1..n PROVE x[k].off + x[k].len < x[k + 1].off
      <4>1. CASE k = n
        <5>1. l \in Ranges  BY <1>2, <4>1
        <5>2. l.off + l.len < r.off  BY <1>3, <1>6, <4>1, <5>1 DEF Ranges
        <5> QED  BY <2>2, <4>1, <5>2
      <4>2. CASE k # n
        <5>1. k \in 1..(n - 1) /\ k + 1 \in 1..n  BY <1>1, <4>2
        <5>2. m[k].off + m[k].len < m[k + 1].off  BY <1>1, <5>1 DEF Apart
        <5> QED  BY <2>2, <5>1, <5>2
      <4> QED  BY <4>1, <4>2
    <3> QED  BY <1>1, <2>2, <3>1 DEF Apart
  <2>4. ASSUME NEW b \in Nat PROVE InFirst(x, n + 1, b) <=> InFirst(m, n, b) \/ Has(r, b)
    <3>1. \A k \in 1..(n + 1) : k = n + 1 \/ k \in 1..n  BY <1>1
    <3>2. n + 1 \in 1..(n + 1) /\ \A k \in 1..n : k \in 1..(n + 1)  BY <1>1
    <3> QED  BY <2>2, <3>1, <3>2 DEF InFirst
  <2> QED  BY <1>1, <1>3, <1>4, <2>1, <2>2, <2>3, <2>4 DEF Merged
<1> QED  BY <1>5, <1>6

LEMMA MergeType ==
    ASSUME NEW m \in Seq(Ranges), NEW r \in Ranges
    PROVE  Merge(m, r) \in Seq(Ranges)
<1>1. CASE m # <<>> /\ r.off <= Last(m).off + Last(m).len
  <2>1. Len(m) \in Nat /\ Len(m) > 0 /\ Last(m) = m[Len(m)]  BY <1>1 DEF Last
  <2>2. PICK l \in Ranges : l = m[Len(m)]  BY <2>1
  <2> DEFINE e == IF r.off + r.len > l.off + l.len THEN r.off + r.len - l.off ELSE l.len
  <2>3. e \in Nat \ {0}  BY DEF Ranges
  <2>4. Merge(m, r) = [m EXCEPT ![Len(m)].len = e]  BY <1>1, <2>1, <2>2 DEF Merge
  <2> HIDE DEF e
  <2> QED  BY <2>1, <2>3, <2>4, Lengthened
<1>2. CASE ~(m # <<>> /\ r.off <= Last(m).off + Last(m).len)
  <2>1. Merge(m, r) = Append(m, r)  BY <1>2 DEF Merge
  <2> QED  BY <2>1, AppendProperties
<1> QED  BY <1>1, <1>2

(* addRange keeps the list apart and adds the bytes of the chunk, no others. *)
LEMMA AddRange ==
    ASSUME NEW rs \in Seq(Ranges), Apart(rs), NEW off \in Nat, NEW len \in Nat \ {0}
    PROVE  LET out == addRange(rs, off, len)
           IN  /\ out \in Seq(Ranges) /\ Apart(out)
               /\ Covered(out) = Covered(rs) \cup off..(off + len - 1)
<1> DEFINE r == [off |-> off, len |-> len]
           s == ByOffset(Append(rs, r))
<1>1. r \in Ranges /\ \A b \in Nat : Has(r, b) <=> b \in off..(off + len - 1)  BY DEF Ranges, Has
<1>2. Ordered(rs)
  <2> SUFFICES ASSUME NEW i \in 2..Len(rs) PROVE rs[i - 1].off <= rs[i].off  BY DEF Ordered
  <2>1. i - 1 \in 1..Len(rs) /\ i \in 1..Len(rs) /\ i - 1 \in 1..(Len(rs) - 1)  OBVIOUS
  <2>2. rs[i - 1].off + rs[i - 1].len < rs[(i - 1) + 1].off  BY <2>1 DEF Apart
  <2>3. rs[i - 1] \in Ranges /\ rs[i] \in Ranges /\ (i - 1) + 1 = i  BY <2>1
  <2>4. rs[i - 1].off \in Nat /\ rs[i - 1].len \in Nat /\ rs[i].off \in Nat  BY <2>3 DEF Ranges
  <2> QED  BY <2>2, <2>3, <2>4
<1>3. /\ s \in Seq(Ranges) /\ Ordered(s)
      /\ \A b : InFirst(s, Len(s), b) <=> InFirst(rs, Len(rs), b) \/ Has(r, b)
  BY <1>1, <1>2, SortedAfterAppend
<1>n. PICK n \in Nat : n = Len(s)  BY <1>3
<1>0. n \in Nat  BY <1>n
<1> DEFINE P(f) == f = [i \in 0..n |-> IF i = 0 THEN <<>> ELSE Merge(f[i - 1], s[i])]
           f0 == CHOOSE f : P(f)
<1>4. addRange(rs, off, len) = f0[n]  BY <1>n DEF addRange
<1> HIDE DEF s
<1>5. \E f : P(f)
  <2> DEFINE F == [p \in Seq(Ranges) \X (1..n) |-> Merge(p[1], s[p[2]])]
  <2>1. F \in [Seq(Ranges) \X (1..n) -> Seq(Ranges)]
    <3>1. \A i \in 1..n : s[i] \in Ranges  BY <1>3, <1>n
    <3>2. ASSUME NEW p \in Seq(Ranges) \X (1..n) PROVE Merge(p[1], s[p[2]]) \in Seq(Ranges)
      BY <3>1, MergeType
    <3> QED  BY <3>2
  <2>2. <<>> \in Seq(Ranges)  OBVIOUS
  <2> HIDE DEF F
  <2>3. PICK f \in [0..n -> Seq(Ranges)] : RunOf(f, n, <<>>, F)
    BY <1>0, <2>1, <2>2, LoopRuns
  <2>4. ASSUME NEW i \in 0..n
        PROVE  f[i] = IF i = 0 THEN <<>> ELSE Merge(f[i - 1], s[i])
    <3>1. CASE i = 0  BY <2>3, <3>1 DEF RunOf
    <3>2. CASE i # 0
      <4>1. i \in 1..n /\ i - 1 \in 0..n  BY <3>2
      <4>2. f[i - 1] \in Seq(Ranges)  BY <4>1
      <4>3. <<f[i - 1], i>> \in Seq(Ranges) \X (1..n)  BY <4>1, <4>2
      <4>4. F[<<f[i - 1], i>>] = Merge(f[i - 1], s[i])  BY <4>3 DEF F
      <4> QED  BY <2>3, <3>2, <4>1, <4>4 DEF RunOf
    <3> QED  BY <3>1, <3>2
  <2>5. f = [i \in 0..n |-> f[i]]  OBVIOUS
  <2>6. P(f)  BY <2>4, <2>5
  <2> HIDE DEF P
  <2> QED  BY <2>6
<1>6. P(f0)
  <2> HIDE DEF P
  <2> QED  BY <1>5
<1> HIDE DEF f0
<1>7. f0[0] = <<>> /\ \A i \in 1..n : f0[i] = Merge(f0[i - 1], s[i])  BY <1>3, <1>6
<1> HIDE DEF P
<1>8. Merged(s, n, f0[n])
  <2> DEFINE T == {i \in 0..n : Merged(s, i, f0[i])}
  <2>1. 0 \in T
    <3>1. <<>> \in Seq(Ranges) /\ Len(<<>>) = 0  OBVIOUS
    <3>2. Merged(s, 0, <<>>)  BY <3>1 DEF Merged, Apart, InFirst
    <3> QED  BY <1>3, <1>7, <3>2
  <2>2. ASSUME NEW i \in 1..n, i - 1 \in T PROVE i \in T
    <3>1. Merged(s, i - 1, f0[i - 1])  BY <2>2
    <3>2. Merged(s, i, Merge(f0[i - 1], s[i]))  BY <1>3, <1>n, <3>1, MergeRound
    <3> QED  BY <1>7, <3>2
  <2> HIDE DEF T
  <2>3. \A i \in 1..n : i - 1 \in T => i \in T  BY <2>2
  <2>4. \A i \in 0..n : i \in T  BY <1>0, <2>1, <2>3, UpTo
  <2>5. n \in T  BY <1>0, <2>4
  <2> QED  BY <2>5 DEF T
<1> DEFINE out == f0[n]
<1>9. out \in Seq(Ranges) /\ Apart(out)  BY <1>8 DEF Merged
<1>10. \A b \in Nat : InFirst(out, Len(out), b) <=> InFirst(rs, Len(rs), b) \/ Has(r, b)
  BY <1>3, <1>n, <1>8 DEF Merged
<1>11. \A b \in off..(off + len - 1) : b \in Nat  OBVIOUS
<1> HIDE DEF r
<1>12. Covered(out) = Covered(rs) \cup off..(off + len - 1)
  <2>1. Covered(out) = {b \in Nat : InFirst(out, Len(out), b)}  BY <1>9, CoveredIs
  <2>2. Covered(rs) = {b \in Nat : InFirst(rs, Len(rs), b)}  BY CoveredIs
  <2> QED  BY <1>1, <1>10, <1>11, <2>1, <2>2
<1> QED  BY <1>4, <1>9, <1>12

(* The sum of the lengths of ranges apart is the number of bytes in them.  *)
LEMMA SumIsCount ==
    ASSUME NEW rs \in Seq(Ranges), Apart(rs)
    PROVE  /\ IsFiniteSet(Covered(rs)) /\ sumRanges(rs) \in Nat
           /\ sumRanges(rs) = Cardinality(Covered(rs))
<1>n. PICK n \in Nat : n = Len(rs)  OBVIOUS
<1>0. n \in Nat  BY <1>n
<1> DEFINE P(f) == f = [i \in 0..n |-> IF i = 0 THEN 0 ELSE f[i - 1] + rs[i].len]
           f0 == CHOOSE f : P(f)
<1>1. sumRanges(rs) = f0[n]  BY <1>n DEF sumRanges
<1>2. \A i \in 1..n : rs[i].off \in Nat /\ rs[i].len \in Nat /\ rs[i].len > 0
  <2>1. \A i \in 1..n : rs[i] \in Ranges  BY <1>n
  <2> QED  BY <2>1 DEF Ranges
<1>3. \E f : P(f)
  <2> DEFINE F == [p \in Nat \X (1..n) |-> p[1] + rs[p[2]].len]
  <2>1. F \in [Nat \X (1..n) -> Nat]  BY <1>2
  <2> HIDE DEF F
  <2>2. PICK f \in [0..n -> Nat] : RunOf(f, n, 0, F)
    <3>1. 0 \in Nat  OBVIOUS
    <3> QED  BY <1>0, <2>1, <3>1, LoopRuns
  <2>3. ASSUME NEW i \in 0..n PROVE f[i] = IF i = 0 THEN 0 ELSE f[i - 1] + rs[i].len
    <3>1. CASE i = 0  BY <2>2, <3>1 DEF RunOf
    <3>2. CASE i # 0
      <4>1. i \in 1..n /\ i - 1 \in 0..n  BY <1>2, <3>2
      <4>2. <<f[i - 1], i>> \in Nat \X (1..n)  BY <4>1
      <4>3. F[<<f[i - 1], i>>] = f[i - 1] + rs[i].len  BY <4>2 DEF F
      <4> QED  BY <2>2, <3>2, <4>1, <4>3 DEF RunOf
    <3> QED  BY <3>1, <3>2
  <2>4. f = [i \in 0..n |-> f[i]]  OBVIOUS
  <2>5. P(f)  BY <2>3, <2>4
  <2> HIDE DEF P
  <2> QED  BY <2>5
<1>4. P(f0)
  <2> HIDE DEF P
  <2> QED  BY <1>3
<1> HIDE DEF f0
<1>5. f0[0] = 0 /\ \A i \in 1..n : f0[i] = f0[i - 1] + rs[i].len  BY <1>2, <1>4
<1> HIDE DEF P
<1> DEFINE First(i) == {b \in Nat : InFirst(rs, i, b)}
           Good(i) == /\ IsFiniteSet(First(i)) /\ f0[i] \in Nat
                      /\ f0[i] = Cardinality(First(i))
                      /\ i > 0 => \A b \in First(i) : b < rs[i].off + rs[i].len
           T == {i \in 0..n : Good(i)}
<1>6. 0 \in T
  <2>1. First(0) = {}  BY DEF InFirst
  <2> HIDE DEF First
  <2>2. IsFiniteSet({}) /\ Cardinality({}) = 0  BY FS_EmptySet
  <2>3. IsFiniteSet(First(0)) /\ f0[0] \in Nat /\ f0[0] = Cardinality(First(0))
    <3>1. f0[0] = 0  BY <1>5
    <3>2. IsFiniteSet(First(0)) /\ Cardinality(First(0)) = 0  BY <2>1, <2>2
    <3> QED  BY <3>1, <3>2
  <2>4. Good(0)  BY <2>3
  <2> HIDE DEF Good
  <2> QED  BY <1>n, <2>4
<1>7. ASSUME NEW i \in 1..n, i - 1 \in T PROVE i \in T
  <2> DEFINE span == rs[i].off..(rs[i].off + rs[i].len - 1)
  <2>1. Good(i - 1)  BY <1>7
  <2>2. rs[i].off \in Nat /\ rs[i].len \in Nat /\ rs[i].len > 0  BY <1>2
  <2>3. First(i) = First(i - 1) \cup span
    <3>1. \A b \in Nat : b \in span <=> Has(rs[i], b)  BY <2>2 DEF Has
    <3>2. \A b \in span : b \in Nat  BY <2>2
    <3>3. \A k \in 1..i : k = i \/ k \in 1..(i - 1)  OBVIOUS
    <3>4. i \in 1..i /\ \A k \in 1..(i - 1) : k \in 1..i  OBVIOUS
    <3>5. \A b \in Nat : InFirst(rs, i, b) <=> InFirst(rs, i - 1, b) \/ Has(rs[i], b)
      BY <3>3, <3>4 DEF InFirst
    <3> HIDE DEF span
    <3> QED  BY <3>1, <3>2, <3>5
  <2>4. \A b \in First(i - 1) : b < rs[i].off
    <3>1. CASE i = 1
      <4>1. First(i - 1) = {}  BY <3>1 DEF InFirst
      <4> QED  BY <4>1
    <3>2. CASE i > 1
      <4>1. i - 1 \in 1..(Len(rs) - 1) /\ i - 1 > 0 /\ (i - 1) + 1 = i /\ i - 1 \in 1..n  BY <1>n, <3>2
      <4>2. rs[i - 1].off + rs[i - 1].len < rs[i].off  BY <4>1 DEF Apart
      <4>3. \A b \in First(i - 1) : b < rs[i - 1].off + rs[i - 1].len /\ b \in Nat  BY <2>1, <4>1
      <4>4. rs[i - 1].off \in Nat /\ rs[i - 1].len \in Nat  BY <1>2, <4>1
      <4> QED  BY <2>2, <4>2, <4>3, <4>4
    <3> QED  BY <3>1, <3>2
  <2>5. First(i - 1) \cap span = {}  BY <2>2, <2>4
  <2>6. IsFiniteSet(span) /\ Cardinality(span) = rs[i].len
    <3>1. PICK lo \in Int : lo = rs[i].off  BY <2>2
    <3>2. PICK hi \in Int : hi = rs[i].off + rs[i].len - 1  BY <2>2
    <3>3. ~(lo > hi) /\ hi - lo + 1 = rs[i].len  BY <2>2, <3>1, <3>2
    <3>4. IsFiniteSet(lo..hi) /\ Cardinality(lo..hi) = hi - lo + 1  BY <3>3, FS_Interval
    <3> QED  BY <3>1, <3>2, <3>3, <3>4
  <2>7. IsFiniteSet(First(i))
        /\ Cardinality(First(i)) = Cardinality(First(i - 1)) + Cardinality(span) - Cardinality({})
    <3>1. IsFiniteSet(First(i - 1))  BY <2>1
    <3>2. IsFiniteSet(span)  BY <2>6
    <3> HIDE DEF First, span
    <3>3. /\ IsFiniteSet(First(i - 1) \cup span)
          /\ Cardinality(First(i - 1) \cup span) =
                Cardinality(First(i - 1)) + Cardinality(span) - Cardinality(First(i - 1) \cap span)
      BY <3>1, <3>2, FS_Union
    <3> QED  BY <2>3, <2>5, <3>3
  <2>8. Cardinality({}) = 0  BY FS_EmptySet
  <2>9. f0[i] = f0[i - 1] + rs[i].len  BY <1>5
  <2>10. \A b \in First(i) : b < rs[i].off + rs[i].len
    <3>1. \A b \in span : b < rs[i].off + rs[i].len  BY <2>2
    <3>2. \A b \in First(i - 1) : b \in Nat  OBVIOUS
    <3> HIDE DEF First, span
    <3> QED  BY <2>2, <2>3, <2>4, <3>1, <3>2
  <2> HIDE DEF First, span
  <2>11. f0[i] \in Nat /\ f0[i] = Cardinality(First(i))  BY <2>1, <2>2, <2>6, <2>7, <2>8, <2>9
  <2>12. Good(i)  BY <2>7, <2>10, <2>11
  <2> HIDE DEF Good
  <2> QED  BY <1>n, <2>12
<1> HIDE DEF T
<1>8. n \in T
  <2>1. \A i \in 1..n : i - 1 \in T => i \in T  BY <1>7
  <2>2. \A i \in 0..n : i \in T  BY <1>0, <1>6, <2>1, UpTo
  <2> QED  BY <1>0, <2>2
<1>9. Covered(rs) = First(n)  BY <1>n, CoveredIs
<1> HIDE DEF First
<1> QED  BY <1>1, <1>8, <1>9 DEF T

-----------------------------------------------------------------------------
(* A session: what its sidecar c, data file f, directory time m and operation
   o under way have to do with each other at time t, given out or not.     *)
Whole == [Bytes -> Sources]
Files == [Bytes -> Sources \cup {Hole}]
Whos == {"api", "app", "stray"}
Sidecars == [ranges : Seq(Ranges), received : Nat, updated : Nat]
Ops == [kind : {"init", "complete"}, who : Whos]
         \cup [kind : {"chunk"}, who : Whos, off : Nat, len : Nat \ {0}]

Solid(f, bs) == \A b \in bs : f[b] # Hole

Counted(c) ==
    /\ Apart(c.ranges) /\ Covered(c.ranges) \subseteq Bytes
    /\ c.received = Cardinality(Covered(c.ranges))

Session(c, f, m, o, t, given) ==
    /\ c \in Sidecars \cup {None} /\ f \in Files \cup {None}
    /\ m \in Nat \cup {None} /\ o \in Ops \cup {None}
    /\ m # None => m <= t
    /\ c # None => Counted(c) /\ m # None /\ m <= c.updated /\ c.updated <= t
    /\ c # None /\ f # None => Solid(f, Covered(c.ranges))
    /\ o # None /\ o.kind = "init" => c = None
    /\ o # None /\ o.kind = "chunk" =>
          /\ c # None /\ f # None /\ o.off + o.len <= Size
          /\ Solid(f, o.off..(o.off + o.len - 1))
    /\ ~given => c = None /\ f = None /\ o = None

SessionOf(s) == Session(sidecar[s], staged[s], made[s], op[s], now, s \in used)

(* The destination has had nothing, or the last whole file.                *)
Destination ==
    /\ dest = None \/ dest \in Whole
    /\ \A s \in Sids : op[s] # None /\ op[s].kind = "complete" => dest \in Whole

Shapes ==
    /\ sidecar = [s \in Sids |-> sidecar[s]] /\ staged = [s \in Sids |-> staged[s]]
    /\ made = [s \in Sids |-> made[s]] /\ op = [s \in Sids |-> op[s]]

ServerInv ==
    /\ now \in Nat /\ used \subseteq Sids /\ Shapes
    /\ \A s \in Sids : SessionOf(s)
    /\ Destination

LEMMA SizeType == Size \in Nat /\ Size > 0  BY UploadAssumptions

(* WriteAt fills the bytes of the chunk and keeps the others.              *)
Filled(f, off, len, from) ==
    [b \in Bytes |-> IF b \in off..(off + len - 1) THEN from ELSE f[b]]

LEMMA WriteFills ==
    ASSUME NEW f \in Files, NEW off \in Nat, NEW len \in Nat, off + len <= Size,
           NEW from \in Sources, NEW bs \in SUBSET Bytes, Solid(f, bs)
    PROVE  LET g == Filled(f, off, len, from)
           IN  g \in Files /\ g # None /\ Solid(g, bs) /\ Solid(g, off..(off + len - 1))
<1> DEFINE g == Filled(f, off, len, from)
<1>1. from # Hole /\ None \notin Files  BY UploadAssumptions DEF Files, Bytes
<1>2. \A b \in Bytes : f[b] \in Sources \cup {Hole}  BY DEF Files
<1>3. g \in Files  BY <1>2 DEF Files, Filled
<1>4. \A b \in off..(off + len - 1) : b \in Bytes  BY SizeType DEF Bytes
<1>5. Solid(g, off..(off + len - 1))  BY <1>1, <1>4 DEF Solid, Filled
<1>6. Solid(g, bs)  BY <1>1 DEF Solid, Filled
<1> QED  BY <1>1, <1>3, <1>5, <1>6, Zenon

LEMMA ChunkWritten ==
    ASSUME NEW c, NEW f, NEW m, NEW t, NEW given, Session(c, f, m, None, t, given),
           c # None, f # None, NEW off \in Nat, NEW len \in Nat, off + len <= Size,
           NEW from \in Sources
    PROVE  LET g == Filled(f, off, len, from)
           IN  /\ g # None /\ Session(c, g, m, None, t, given)
               /\ Solid(g, off..(off + len - 1))
<1> DEFINE g == Filled(f, off, len, from)
<1>1. /\ c \in Sidecars /\ Covered(c.ranges) \in SUBSET Bytes /\ f \in Files
      /\ Solid(f, Covered(c.ranges)) /\ given
  BY DEF Session, Counted
<1>2. g \in Files /\ g # None /\ Solid(g, Covered(c.ranges)) /\ Solid(g, off..(off + len - 1))
  BY <1>1, WriteFills
<1> HIDE DEF g
<1>3. Session(c, g, m, None, t, given)  BY <1>1, <1>2 DEF Session
<1> QED  BY <1>2, <1>3 DEF g

LEMMA ChunkStarts ==
    ASSUME NEW c, NEW f, NEW m, NEW t, NEW given, Session(c, f, m, None, t, given),
           c # None, f # None, NEW off \in Nat, NEW len \in Nat \ {0}, off + len <= Size,
           Solid(f, off..(off + len - 1)), NEW who \in Whos
    PROVE  LET o == [kind |-> "chunk", who |-> who, off |-> off, len |-> len]
           IN  Session(c, f, m, o, t, given)
<1> DEFINE o == [kind |-> "chunk", who |-> who, off |-> off, len |-> len]
<1>1. o \in Ops /\ o.kind = "chunk" /\ o.off = off /\ o.len = len  BY DEF Ops
<1> HIDE DEF o
<1>2. Session(c, f, m, o, t, given)  BY <1>1 DEF Session
<1> QED  BY <1>2 DEF o

LEMMA ChunkEnds ==
    ASSUME NEW c, NEW f, NEW m, NEW o, NEW t \in Nat, NEW given, Session(c, f, m, o, t, given),
           o # None, o.kind = "chunk"
    PROVE  LET rs == addRange(c.ranges, o.off, o.len)
           IN  /\ Session([ranges |-> rs, received |-> sumRanges(rs), updated |-> t],
                          f, m, None, t, given)
               /\ Covered(rs) = Covered(c.ranges) \cup o.off..(o.off + o.len - 1)
<1> DEFINE rs == addRange(c.ranges, o.off, o.len)
           d == [ranges |-> rs, received |-> sumRanges(rs), updated |-> t]
<1>1. /\ c \in Sidecars /\ c # None /\ f \in Files /\ f # None /\ m \in Nat /\ m <= t /\ m # None
      /\ o.off + o.len <= Size /\ given
      /\ Solid(f, o.off..(o.off + o.len - 1)) /\ Solid(f, Covered(c.ranges))
      /\ Apart(c.ranges) /\ Covered(c.ranges) \subseteq Bytes
  BY DEF Session, Counted
<1>2. o.off \in Nat /\ o.len \in Nat \ {0}  BY DEF Session, Ops
<1>3. c.ranges \in Seq(Ranges)  BY <1>1 DEF Sidecars
<1>4. /\ rs \in Seq(Ranges) /\ Apart(rs)
      /\ Covered(rs) = Covered(c.ranges) \cup o.off..(o.off + o.len - 1)
  BY <1>1, <1>2, <1>3, AddRange
<1> HIDE DEF rs
<1>5. sumRanges(rs) \in Nat /\ sumRanges(rs) = Cardinality(Covered(rs))  BY <1>4, SumIsCount
<1>6. d \in Sidecars /\ d.ranges = rs /\ d.received = sumRanges(rs) /\ d.updated = t
  BY <1>4, <1>5 DEF Sidecars
<1> HIDE DEF d
<1>7. Covered(rs) \subseteq Bytes
  <2>1. \A b \in o.off..(o.off + o.len - 1) : b \in Bytes  BY <1>1, <1>2, SizeType DEF Bytes
  <2> QED  BY <1>1, <1>4, <2>1
<1>8. Counted(d)  BY <1>4, <1>5, <1>6, <1>7 DEF Counted
<1>9. Solid(f, Covered(rs))  BY <1>1, <1>4 DEF Solid
<1>10. Session(d, f, m, None, t, given)  BY <1>1, <1>6, <1>8, <1>9 DEF Session
<1> QED  BY <1>4, <1>10 DEF rs, d

(* A session of which every byte is counted has a whole data file.         *)
LEMMA FullIsWhole ==
    ASSUME NEW c, NEW f, NEW m, NEW t, NEW given, Session(c, f, m, None, t, given),
           c # None, f # None, c.received = Size
    PROVE  f \in Whole
<1>1. /\ f \in Files /\ Covered(c.ranges) \subseteq Bytes /\ Solid(f, Covered(c.ranges))
      /\ Size = Cardinality(Covered(c.ranges))
  BY DEF Session, Counted
<1>2. IsFiniteSet(Bytes) /\ Cardinality(Bytes) = Size
  <2>1. 0 \in Int /\ Size - 1 \in Int /\ ~(0 > Size - 1) /\ Size - 1 - 0 + 1 = Size  BY SizeType
  <2> QED  BY <2>1, FS_Interval DEF Bytes
<1>3. Covered(c.ranges) = Bytes  BY <1>1, <1>2, FS_Subset
<1>4. \A b \in Bytes : f[b] \in Sources  BY <1>1, <1>3 DEF Solid, Files
<1> QED  BY <1>1, <1>4 DEF Files, Whole

-----------------------------------------------------------------------------
(* What a step may do to the server, whoever calls it.                     *)
Relabelled == \A s \in Sids : op'[s] = op[s] \/ (op[s] # None /\ op'[s] = [op[s] EXCEPT !.who = "stray"])

ServerOp ==
    \/ ClockMoves
    \/ Crash /\ now' = now
    \/ now' = now /\ \E who \in Whos : InitUpload(who)
    \/ now' = now /\ \E s \in Sids :
          \/ InitUploadSaves(s) \/ WriteChunkSaves(s) \/ CompleteUploadRemoves(s) \/ ReapStale(s)
          \/ \E who \in Whos : CompleteUpload(s, who)
          \/ \E off \in Int, len \in Nat, from \in Sources, who \in Whos :
                WriteChunk(s, off, len, from, who) \/ WriteChunkFails(s, off, len, from, who)
    \/ /\ UNCHANGED <<now, sidecar, staged, made, dest, used>>
       /\ op' = [s \in Sids |-> op'[s]] /\ Relabelled

(* A step that concerns one session only.                                  *)
Alters(s, c, f, m, o) ==
    /\ sidecar' = [sidecar EXCEPT ![s] = c] /\ staged' = [staged EXCEPT ![s] = f]
    /\ made' = [made EXCEPT ![s] = m] /\ op' = [op EXCEPT ![s] = o]

LEMMA OneSession ==
    ASSUME ServerInv, now' = now, NEW s \in Sids, NEW c, NEW f, NEW m, NEW o, Alters(s, c, f, m, o),
           used' = used \/ used' = used \cup {s}, Session(c, f, m, o, now, s \in used')
    PROVE  /\ Shapes' /\ now' \in Nat /\ used' \subseteq Sids
           /\ \A x \in Sids : SessionOf(x)'
           /\ sidecar'[s] = c /\ staged'[s] = f /\ made'[s] = m /\ op'[s] = o
           /\ \A x \in Sids : x # s => /\ sidecar'[x] = sidecar[x] /\ staged'[x] = staged[x]
                                       /\ made'[x] = made[x] /\ op'[x] = op[x]
<1>1. Shapes /\ now \in Nat /\ used \subseteq Sids  BY DEF ServerInv
<1>2. Shapes'  BY <1>1 DEF Shapes, Alters
<1>3. sidecar'[s] = c /\ staged'[s] = f /\ made'[s] = m /\ op'[s] = o  BY <1>1 DEF Shapes, Alters
<1>4. \A x \in Sids : x # s => /\ sidecar'[x] = sidecar[x] /\ staged'[x] = staged[x]
                               /\ made'[x] = made[x] /\ op'[x] = op[x]
  BY <1>1 DEF Shapes, Alters
<1>5. ASSUME NEW x \in Sids PROVE SessionOf(x)'
  <2>1. CASE x = s  BY <1>3, <2>1 DEF SessionOf
  <2>2. CASE x # s
    <3>1. (x \in used') = (x \in used)  BY <2>2
    <3>2. Session(sidecar[x], staged[x], made[x], op[x], now, x \in used)
      BY DEF ServerInv, SessionOf
    <3>3. Session(sidecar'[x], staged'[x], made'[x], op'[x], now', x \in used')
      BY <1>4, <2>2, <3>1, <3>2
    <3> QED  BY <3>3 DEF SessionOf
  <2> QED  BY <2>1, <2>2
<1> QED  BY <1>1, <1>2, <1>3, <1>4, <1>5

LEMMA DestinationKept ==
    ASSUME Destination, dest' = dest \/ dest' \in Whole,
           \A x \in Sids : op'[x] # None /\ op'[x].kind = "complete" =>
                               dest' \in Whole \/ op'[x] = op[x]
    PROVE  Destination'
<1>1. dest' = None \/ dest' \in Whole  BY DEF Destination
<1>2. ASSUME NEW x \in Sids, op'[x] # None, op'[x].kind = "complete" PROVE dest' \in Whole
  BY <1>2 DEF Destination
<1>3. \A x \in Sids : op'[x] # None /\ op'[x].kind = "complete" => dest' \in Whole  BY <1>2
<1> QED  BY <1>1, <1>3 DEF Destination, Whole, Bytes

LEMMA ServerSame ==
    ASSUME ServerInv, UNCHANGED <<now, sidecar, staged, made, op, dest, used>> PROVE ServerInv'
BY DEF ServerInv, Shapes, SessionOf, Destination

(* The clock.                                                              *)
LEMMA ServerClock == ASSUME ServerInv, ClockMoves PROVE ServerInv'
<1>1. now \in Nat /\ now' = now + 1 /\ UNCHANGED <<sidecar, staged, made, op, dest, used>>
  BY DEF ServerInv, ClockMoves, server
<1>2. ASSUME NEW s \in Sids PROVE SessionOf(s)'
  <2>1. SessionOf(s)  BY DEF ServerInv
  <2>2. /\ sidecar[s] # None => sidecar[s].updated \in Nat
        /\ made[s] # None => made[s] \in Nat
    BY <2>1 DEF SessionOf, Session, Sidecars
  <2> QED  BY <1>1, <2>1, <2>2 DEF SessionOf, Session
<1>3. Shapes' /\ Destination'  BY <1>1 DEF ServerInv, Shapes, Destination
<1> QED  BY <1>1, <1>2, <1>3 DEF ServerInv

(* The end of the process leaves the operations where they are on disk.    *)
LEMMA ServerCrash == ASSUME ServerInv, Crash, now' = now PROVE ServerInv'
<1>1. op' = [s \in Sids |-> None] /\ UNCHANGED <<now, sidecar, staged, made, dest, used>>  BY DEF Crash
<1>2. ASSUME NEW s \in Sids PROVE SessionOf(s)'
  <2>1. op'[s] = None  BY <1>1
  <2>2. SessionOf(s)  BY DEF ServerInv
  <2> QED  BY <1>1, <2>1, <2>2 DEF SessionOf, Session
<1>3. Shapes' /\ Destination'  BY <1>1 DEF ServerInv, Shapes, Destination
<1> QED  BY <1>1, <1>2, <1>3 DEF ServerInv

LEMMA ServerRelabels ==
    ASSUME ServerInv, UNCHANGED <<now, sidecar, staged, made, dest, used>>,
           op' = [s \in Sids |-> op'[s]], Relabelled
    PROVE  ServerInv'
<1>1. ASSUME NEW s \in Sids PROVE SessionOf(s)' /\ (op'[s] # None => op[s] # None /\ op'[s].kind = op[s].kind)
  <2>1. SessionOf(s)  BY DEF ServerInv
  <2>2. CASE op'[s] = op[s]  BY <2>1, <2>2 DEF SessionOf
  <2>3. CASE op[s] # None /\ op'[s] = [op[s] EXCEPT !.who = "stray"]
    <3>1. op[s] \in Ops  BY <2>1, <2>3 DEF SessionOf, Session
    <3>2. op'[s] \in Ops /\ op'[s].kind = op[s].kind  BY <2>3, <3>1 DEF Ops, Whos
    <3>3. op[s].kind = "chunk" => op'[s].off = op[s].off /\ op'[s].len = op[s].len
      BY <2>3, <3>1 DEF Ops
    <3>4. Session(sidecar[s], staged[s], made[s], op'[s], now, s \in used)
      BY <2>1, <2>3, <3>2, <3>3 DEF SessionOf, Session
    <3> QED  BY <2>3, <3>2, <3>4 DEF SessionOf
  <2> QED  BY <2>2, <2>3 DEF Relabelled
<1>2. Shapes'  BY DEF ServerInv, Shapes
<1>3. Destination'
  <2>1. \A s \in Sids : op'[s] # None /\ op'[s].kind = "complete" => dest \in Whole
    BY <1>1 DEF ServerInv, Destination
  <2> QED  BY <2>1 DEF ServerInv, Destination, Whole, Bytes
<1> QED  BY <1>1, <1>2, <1>3 DEF ServerInv

LEMMA NewSidIs == ASSUME used \subseteq Sids, used # Sids PROVE NewSid \in Sids /\ NewSid \notin used
<1>1. \E s \in Sids : s \notin used  OBVIOUS
<1> QED  BY <1>1 DEF NewSid

LEMMA ServerInits == ASSUME ServerInv, now' = now, NEW who \in Whos, InitUpload(who) PROVE ServerInv'
<1> DEFINE s == NewSid
           f == [b \in Bytes |-> Hole]
           o == [kind |-> "init", who |-> who]
<1>1. s \in Sids /\ s \notin used  BY NewSidIs DEF ServerInv, InitUpload
<1>2. Alters(s, None, f, now, o) /\ used' = used \cup {s} /\ dest' = dest
  <2>1. sidecar[s] = None  BY <1>1 DEF ServerInv, SessionOf, Session
  <2> QED  BY <1>1, <2>1 DEF InitUpload, Alters, ServerInv, Shapes
<1> HIDE DEF s
<1>3. Session(None, f, now, o, now, s \in used')
  <2>1. f \in Files  BY DEF Files
  <2>2. o \in Ops /\ o.kind = "init"  BY DEF Ops
  <2> HIDE DEF f, o
  <2> QED  BY <1>2, <2>1, <2>2 DEF Session, ServerInv
<1>4. /\ Shapes' /\ now' \in Nat /\ used' \subseteq Sids /\ \A x \in Sids : SessionOf(x)'
      /\ op'[s] = o /\ \A x \in Sids : x # s => op'[x] = op[x]
  BY <1>1, <1>2, <1>3, OneSession
<1>5. Destination'
  <2>1. o.kind # "complete"  OBVIOUS
  <2> QED  BY <1>2, <1>4, <2>1, DestinationKept DEF ServerInv
<1> QED  BY <1>4, <1>5 DEF ServerInv

LEMMA ServerInitSaves ==
    ASSUME ServerInv, now' = now, NEW s \in Sids, InitUploadSaves(s) PROVE ServerInv'
<1> DEFINE c == IF made[s] = None THEN sidecar[s]
                ELSE [ranges |-> <<>>, received |-> 0, updated |-> now]
<1>1. SessionOf(s) /\ now \in Nat /\ Shapes /\ Destination  BY DEF ServerInv
<1>2. Alters(s, c, staged[s], made[s], None) /\ used' = used /\ dest' = dest
  BY <1>1 DEF InitUploadSaves, Alters, Shapes
<1>3. Session(c, staged[s], made[s], None, now, s \in used)
  <2>1. CASE made[s] = None  BY <1>1, <2>1 DEF SessionOf, Session
  <2>2. CASE made[s] # None
    <3> DEFINE d == [ranges |-> <<>>, received |-> 0, updated |-> now]
    <3>1. d \in Sidecars /\ d.ranges = <<>> /\ d.received = 0 /\ d.updated = now
      BY <1>1 DEF Sidecars
    <3>2. Covered(<<>>) = {}
      <4>1. <<>> \in Seq(Ranges) /\ Len(<<>>) = 0  OBVIOUS
      <4>2. \A b \in Nat : ~InFirst(<<>>, 0, b)  BY DEF InFirst
      <4> QED  BY <4>1, <4>2, CoveredIs
    <3>3. Cardinality({}) = 0  BY FS_EmptySet
    <3>4. Apart(<<>>)  BY DEF Apart
    <3> HIDE DEF d
    <3>5. Counted(d) /\ Covered(d.ranges) = {}  BY <3>1, <3>2, <3>3, <3>4 DEF Counted
    <3>6. s \in used /\ made[s] \in Nat /\ made[s] <= now
      BY <1>1, <2>2 DEF SessionOf, Session, InitUploadSaves
    <3>7. Session(d, staged[s], made[s], None, now, s \in used)
      BY <1>1, <2>2, <3>1, <3>5, <3>6 DEF SessionOf, Session, Solid
    <3> QED  BY <2>2, <3>7 DEF d
  <2> QED  BY <2>1, <2>2
<1> HIDE DEF c
<1>4. /\ Shapes' /\ now' \in Nat /\ used' \subseteq Sids /\ \A x \in Sids : SessionOf(x)'
      /\ op'[s] = None /\ \A x \in Sids : x # s => op'[x] = op[x]
  BY <1>2, <1>3, OneSession
<1>5. Destination'  BY <1>1, <1>2, <1>4, DestinationKept
<1> QED  BY <1>4, <1>5 DEF ServerInv

LEMMA ServerWrites ==
    ASSUME ServerInv, now' = now, NEW s \in Sids, NEW off \in Int, NEW len \in Nat,
           NEW from \in Sources, NEW who \in Whos,
           WriteChunk(s, off, len, from, who) \/ WriteChunkFails(s, off, len, from, who)
    PROVE  /\ ServerInv' /\ dest' = dest
           /\ \A x \in Sids : (staged[x] # None => staged'[x] # None)
<1>1. SessionOf(s) /\ now \in Nat /\ Shapes /\ Destination  BY DEF ServerInv
<1> DEFINE Put(n) == Filled(staged[s], off, n, from)
           o == [kind |-> "chunk", who |-> who, off |-> off, len |-> len]
           Ready == op[s] = None /\ sidecar[s] # None /\ staged[s] # None /\ off \in Nat /\ off + len <= Size
<1>2. ASSUME Ready, NEW n \in 0..len, NEW p, p = None \/ (p = o /\ n = len /\ len > 0),
             Alters(s, sidecar[s], Put(n), made[s], p), used' = used, dest' = dest
      PROVE  ServerInv' /\ \A x \in Sids : (staged[x] # None => staged'[x] # None)
  <2>1. Session(sidecar[s], staged[s], made[s], None, now, s \in used)
    BY <1>1, <1>2 DEF SessionOf
  <2>2. n \in Nat /\ off \in Nat /\ off + n <= Size  BY <1>2, SizeType
  <2>3. Put(n) # None /\ Session(sidecar[s], Put(n), made[s], p, now, s \in used)
    <3>1. /\ Put(n) # None /\ Session(sidecar[s], Put(n), made[s], None, now, s \in used)
          /\ Solid(Put(n), off..(off + n - 1))
      <4>1. sidecar[s] # None /\ staged[s] # None  BY <1>2
      <4> QED  BY <2>1, <2>2, <4>1, ChunkWritten
    <3>2. CASE p = None  BY <3>1, <3>2
    <3>3. CASE p = o /\ n = len /\ len > 0
      <4> HIDE DEF Put
      <4>1. len \in Nat \ {0} /\ sidecar[s] # None /\ off + len <= Size  BY <1>2, <3>3
      <4>2. Session(sidecar[s], Put(n), made[s], o, now, s \in used)
        BY <2>2, <3>1, <3>3, <4>1, ChunkStarts
      <4> QED  BY <3>1, <3>3, <4>2
    <3> QED  BY <1>2, <3>2, <3>3
  <2>4. p # None => p.kind # "complete"  BY <1>2
  <2> HIDE DEF Put, o
  <2>5. /\ Shapes' /\ now' \in Nat /\ used' \subseteq Sids /\ \A x \in Sids : SessionOf(x)'
        /\ op'[s] = p /\ staged'[s] = Put(n)
        /\ \A x \in Sids : x # s => op'[x] = op[x] /\ staged'[x] = staged[x]
    BY <1>2, <2>3, OneSession
  <2>6. Destination'  BY <1>1, <1>2, <2>4, <2>5, DestinationKept
  <2> QED  BY <2>3, <2>5, <2>6 DEF ServerInv
<1>3. CASE UNCHANGED <<sidecar, staged, made, op, dest, used>>  BY <1>3, ServerSame
<1>4. CASE WriteChunk(s, off, len, from, who)
  <2>1. \/ UNCHANGED <<sidecar, staged, made, op, dest, used>>
        \/ /\ Ready /\ len > 0
           /\ staged' = Written(s, off, len, from) /\ op' = [op EXCEPT ![s] = o]
           /\ UNCHANGED <<sidecar, made, dest, used>>
    BY <1>4 DEF WriteChunk
  <2>2. CASE /\ Ready /\ len > 0
             /\ staged' = Written(s, off, len, from) /\ op' = [op EXCEPT ![s] = o]
             /\ UNCHANGED <<sidecar, made, dest, used>>
    <3>1. Alters(s, sidecar[s], Put(len), made[s], o)
      BY <1>1, <2>2 DEF Alters, Shapes, Written, Filled
    <3>2. len \in 0..len  OBVIOUS
    <3> HIDE DEF Put, o
    <3> QED  BY <1>2, <2>2, <3>1, <3>2
  <2> QED  BY <1>3, <2>1, <2>2
<1>5. CASE WriteChunkFails(s, off, len, from, who)
  <2>1. Ready  BY <1>5 DEF WriteChunkFails
  <2>2. PICK n \in 0..len : staged' = Written(s, off, n, from)  BY <1>5 DEF WriteChunkFails
  <2>3. Alters(s, sidecar[s], Put(n), made[s], None) /\ used' = used /\ dest' = dest
    BY <1>1, <1>5, <2>1, <2>2 DEF WriteChunkFails, Alters, Shapes, Written, Filled
  <2> HIDE DEF Put, o
  <2> QED  BY <1>2, <2>1, <2>2, <2>3
<1> QED  BY <1>4, <1>5

LEMMA ServerChunkSaves ==
    ASSUME ServerInv, now' = now, NEW s \in Sids, WriteChunkSaves(s) PROVE ServerInv'
<1> DEFINE rs == addRange(sidecar[s].ranges, op[s].off, op[s].len)
           d == [ranges |-> rs, received |-> sumRanges(rs), updated |-> now]
<1>1. SessionOf(s) /\ now \in Nat /\ Shapes /\ Destination  BY DEF ServerInv
<1>2. Alters(s, d, staged[s], made[s], None) /\ used' = used /\ dest' = dest
  BY <1>1 DEF WriteChunkSaves, Received, Alters, Shapes
<1>3. Session(d, staged[s], made[s], None, now, s \in used)
  BY <1>1, ChunkEnds DEF SessionOf, WriteChunkSaves
<1> HIDE DEF d
<1>4. /\ Shapes' /\ now' \in Nat /\ used' \subseteq Sids /\ \A x \in Sids : SessionOf(x)'
      /\ op'[s] = None /\ \A x \in Sids : x # s => op'[x] = op[x]
  BY <1>2, <1>3, OneSession
<1>5. Destination'  BY <1>1, <1>2, <1>4, DestinationKept
<1> QED  BY <1>4, <1>5 DEF ServerInv

LEMMA ServerCompletes ==
    ASSUME ServerInv, now' = now, NEW s \in Sids, NEW who \in Whos, CompleteUpload(s, who)
    PROVE  /\ ServerInv' /\ (dest' = dest \/ dest' \in Whole)
           /\ \A x \in Sids : staged[x] # None /\ staged'[x] = None =>
                                  dest' = staged[x] /\ sidecar[x].received = Size
<1> DEFINE o == [kind |-> "complete", who |-> who]
           Moves == /\ op[s] = None /\ sidecar[s] # None /\ sidecar[s].received = Size /\ staged[s] # None
                    /\ dest' = staged[s] /\ staged' = [staged EXCEPT ![s] = None]
                    /\ op' = [op EXCEPT ![s] = o] /\ UNCHANGED <<sidecar, made, used>>
<1>1. SessionOf(s) /\ now \in Nat /\ Shapes /\ Destination  BY DEF ServerInv
<1>2. UNCHANGED <<sidecar, staged, made, op, dest, used>> \/ Moves  BY DEF CompleteUpload
<1>3. CASE UNCHANGED <<sidecar, staged, made, op, dest, used>>  BY <1>3, ServerSame
<1>4. CASE Moves
  <2>1. Session(sidecar[s], staged[s], made[s], None, now, s \in used)  BY <1>1, <1>4 DEF SessionOf
  <2>2. dest' \in Whole  BY <1>4, <2>1, FullIsWhole
  <2>3. Alters(s, sidecar[s], None, made[s], o)  BY <1>1, <1>4 DEF Alters, Shapes
  <2>4. Session(sidecar[s], None, made[s], o, now, s \in used)
    <3>1. o \in Ops /\ o.kind = "complete"  BY DEF Ops
    <3> HIDE DEF o
    <3> QED  BY <1>4, <2>1, <3>1 DEF Session
  <2>5. /\ Shapes' /\ now' \in Nat /\ used' \subseteq Sids /\ \A x \in Sids : SessionOf(x)'
        /\ \A x \in Sids : x # s => op'[x] = op[x] /\ staged'[x] = staged[x]
    BY <1>4, <2>3, <2>4, OneSession
  <2>6. Destination'  BY <1>1, <2>2, DestinationKept
  <2> QED  BY <1>4, <2>2, <2>5, <2>6 DEF ServerInv
<1> QED  BY <1>2, <1>3, <1>4

LEMMA ServerRemoves ==
    ASSUME ServerInv, now' = now, NEW s \in Sids, CompleteUploadRemoves(s) PROVE ServerInv'
<1>1. SessionOf(s) /\ now \in Nat /\ Shapes /\ Destination  BY DEF ServerInv
<1>2. Alters(s, None, staged[s], None, None) /\ used' = used /\ dest' = dest
  BY <1>1 DEF CompleteUploadRemoves, Alters, Shapes
<1>3. Session(None, staged[s], None, None, now, s \in used)  BY <1>1 DEF SessionOf, Session
<1>4. /\ Shapes' /\ now' \in Nat /\ used' \subseteq Sids /\ \A x \in Sids : SessionOf(x)'
      /\ op'[s] = None /\ \A x \in Sids : x # s => op'[x] = op[x]
  BY <1>2, <1>3, OneSession
<1>5. Destination'  BY <1>1, <1>2, <1>4, DestinationKept
<1> QED  BY <1>4, <1>5 DEF ServerInv

LEMMA ServerReaps ==
    ASSUME ServerInv, now' = now, NEW s \in Sids, ReapStale(s)
    PROVE  /\ ServerInv' /\ dest' = dest
           /\ sidecar[s] = None \/ (op[s] = None /\ now - sidecar[s].updated >= TTL)
           /\ now - made[s] >= TTL
           /\ \A x \in Sids : x # s => staged'[x] = staged[x]
<1>1. SessionOf(s) /\ now \in Nat /\ Shapes /\ Destination  BY DEF ServerInv
<1>2. Alters(s, None, None, None, op[s]) /\ used' = used /\ dest' = dest
  BY <1>1 DEF ReapStale, Alters, Shapes
<1>3. /\ op[s] = None \/ op[s].kind = "init"
      /\ sessionLastActivity(s) <= now - TTL
  BY DEF ReapStale
<1>4. Session(None, None, None, op[s], now, s \in used)
  BY <1>1, <1>3 DEF SessionOf, Session
<1>5. /\ Shapes' /\ now' \in Nat /\ used' \subseteq Sids /\ \A x \in Sids : SessionOf(x)'
      /\ op'[s] = op[s] /\ \A x \in Sids : x # s => op'[x] = op[x] /\ staged'[x] = staged[x]
  BY <1>2, <1>4, OneSession
<1>6. Destination'  BY <1>1, <1>2, <1>5, DestinationKept
<1>7. TTL \in Nat  BY UploadAssumptions
<1>8. made[s] \in Nat  BY <1>1 DEF SessionOf, Session, ReapStale
<1>9. CASE sidecar[s] = None
  BY <1>1, <1>2, <1>3, <1>5, <1>6, <1>7, <1>8, <1>9 DEF ServerInv, sessionLastActivity
<1>10. CASE sidecar[s] # None
  <2>1. sidecar[s].updated \in Nat /\ made[s] <= sidecar[s].updated /\ op[s] = None
    BY <1>1, <1>3, <1>10 DEF SessionOf, Session, Sidecars
  <2>2. sidecar[s].updated <= now - TTL  BY <1>3, <1>10 DEF sessionLastActivity
  <2>3. now - sidecar[s].updated >= TTL /\ now - made[s] >= TTL  BY <1>1, <1>7, <1>8, <2>1, <2>2
  <2> QED  BY <1>2, <1>5, <1>6, <2>1, <2>3 DEF ServerInv
<1> QED  BY <1>9, <1>10

-----------------------------------------------------------------------------
(* A step that takes the data of a session away has one of the two reasons. *)
Leaves(s) ==
    staged[s] # None /\ staged'[s] = None =>
        \/ dest' = staged[s] /\ sidecar[s].received = Size
        \/ /\ \/ sidecar[s] = None
              \/ op[s] = None /\ now - sidecar[s].updated >= TTL
           /\ now - made[s] >= TTL

LEMMA ServerStepHolds ==
    ASSUME ServerInv, ServerOp
    PROVE  /\ ServerInv' /\ (dest' = dest \/ dest' \in Whole)
           /\ \A s \in Sids : Leaves(s)
<1>1. CASE ClockMoves
  <2>1. UNCHANGED <<staged, dest>>  BY <1>1 DEF ClockMoves, server
  <2> QED  BY <1>1, <2>1, ServerClock DEF Leaves
<1>2. CASE Crash /\ now' = now
  <2>1. UNCHANGED <<staged, dest>>  BY <1>2 DEF Crash
  <2> QED  BY <1>2, <2>1, ServerCrash DEF Leaves
<1>3. ASSUME now' = now, NEW who \in Whos, InitUpload(who)
      PROVE  /\ ServerInv' /\ (dest' = dest \/ dest' \in Whole)
             /\ \A s \in Sids : Leaves(s)
  <2>1. used \subseteq Sids /\ Shapes  BY DEF ServerInv
  <2>2. NewSid \in Sids /\ NewSid \notin used  BY <1>3, <2>1, NewSidIs DEF InitUpload
  <2>3. staged[NewSid] = None  BY <2>2 DEF ServerInv, SessionOf, Session
  <2>4. dest' = dest /\ \A s \in Sids : s # NewSid => staged'[s] = staged[s]
    BY <1>3, <2>1, <2>2 DEF InitUpload, Shapes
  <2>5. ServerInv'  BY <1>3, ServerInits
  <2> QED  BY <2>3, <2>4, <2>5 DEF Leaves
<1>4. ASSUME now' = now, NEW s \in Sids,
             InitUploadSaves(s) \/ WriteChunkSaves(s) \/ CompleteUploadRemoves(s)
      PROVE  /\ ServerInv' /\ (dest' = dest \/ dest' \in Whole)
             /\ \A x \in Sids : Leaves(x)
  <2>1. UNCHANGED <<staged, dest>>
    BY <1>4 DEF InitUploadSaves, WriteChunkSaves, CompleteUploadRemoves
  <2>2. ServerInv'  BY <1>4, ServerInitSaves, ServerChunkSaves, ServerRemoves
  <2> QED  BY <2>1, <2>2 DEF Leaves
<1>5. ASSUME now' = now, NEW s \in Sids, ReapStale(s)
      PROVE  /\ ServerInv' /\ (dest' = dest \/ dest' \in Whole)
             /\ \A x \in Sids : Leaves(x)
  BY <1>5, ServerReaps DEF Leaves
<1>6. ASSUME now' = now, NEW s \in Sids, NEW who \in Whos, CompleteUpload(s, who)
      PROVE  /\ ServerInv' /\ (dest' = dest \/ dest' \in Whole)
             /\ \A x \in Sids : Leaves(x)
  BY <1>6, ServerCompletes DEF Leaves
<1>7. ASSUME now' = now, NEW s \in Sids, NEW off \in Int, NEW len \in Nat, NEW from \in Sources,
             NEW who \in Whos,
             WriteChunk(s, off, len, from, who) \/ WriteChunkFails(s, off, len, from, who)
      PROVE  /\ ServerInv' /\ (dest' = dest \/ dest' \in Whole)
             /\ \A x \in Sids : Leaves(x)
  <2>1. ServerInv' /\ dest' = dest /\ \A x \in Sids : (staged[x] # None => staged'[x] # None)
    BY <1>7, ServerWrites
  <2> QED  BY <2>1 DEF Leaves
<1>8. CASE /\ UNCHANGED <<now, sidecar, staged, made, dest, used>>
           /\ op' = [s \in Sids |-> op'[s]] /\ Relabelled
  <2>1. ServerInv'  BY <1>8, ServerRelabels
  <2> QED  BY <1>8, <2>1 DEF Leaves
<1> QED  BY <1>1, <1>2, <1>3, <1>4, <1>5, <1>6, <1>7, <1>8 DEF ServerOp

LEMMA ServerStarts == ServerInit => ServerInv
<1> SUFFICES ASSUME ServerInit PROVE ServerInv  OBVIOUS
<1>1. \A s \in Sids : sidecar[s] = None /\ staged[s] = None /\ made[s] = None /\ op[s] = None
  BY DEF ServerInit
<1>2. \A s \in Sids : SessionOf(s)  BY <1>1 DEF SessionOf, Session, ServerInit
<1>3. Shapes  BY DEF Shapes, ServerInit
<1> QED  BY <1>1, <1>2, <1>3 DEF ServerInv, ServerInit, Destination

LEMMA InvCounts == ServerInv => ReceivedIsCoverage
<1> SUFFICES ASSUME ServerInv, NEW s \in Sids, sidecar[s] # None
             PROVE  LET rs == sidecar[s].ranges
                    IN  /\ \A i \in 1..(Len(rs) - 1) : rs[i].off + rs[i].len < rs[i + 1].off
                        /\ Covered(rs) \subseteq Bytes
                        /\ sidecar[s].received = Cardinality(Covered(rs))
                        /\ staged[s] # None => \A b \in Covered(rs) : staged[s][b] # Hole
  BY DEF ReceivedIsCoverage
<1>1. SessionOf(s)  BY DEF ServerInv
<1>2. Counted(sidecar[s]) /\ (staged[s] # None => Solid(staged[s], Covered(sidecar[s].ranges)))
  BY <1>1 DEF SessionOf, Session
<1> QED  BY <1>2 DEF Counted, Apart, Solid

LEMMA ApiStep == ASSUME ServerInv, [ApiNext]_serverVars PROVE ServerInv' /\ \A s \in Sids : Leaves(s)
<1>1. CASE UNCHANGED serverVars
  <2>1. UNCHANGED <<now, sidecar, staged, made, op, dest, used>>  BY <1>1 DEF serverVars, server
  <2> QED  BY <2>1, ServerSame DEF Leaves
<1>2. CASE ApiNext
  <2>1. ServerOp
    <3>1. CASE ClockMoves  BY <3>1 DEF ServerOp
    <3>2. CASE Fault(Crash)  BY <3>2 DEF Fault, ServerOp
    <3>3. CASE Call(InitUpload("api"))
      <4>1. "api" \in Whos  BY DEF Whos
      <4> QED  BY <3>3, <4>1 DEF Call, ServerOp
    <3>4. ASSUME NEW s \in Sids, Call(CompleteUpload(s, "api")) PROVE ServerOp
      <4>1. "api" \in Whos  BY DEF Whos
      <4> QED  BY <3>4, <4>1 DEF Call, ServerOp
    <3>5. ASSUME NEW s \in Sids, Saves(s) \/ Reap(s) PROVE ServerOp
      BY <3>5 DEF Saves, Reap, ServerOp
    <3>6. ASSUME NEW s \in Sids, NEW off \in -1..Size, NEW len \in 0..2, NEW from \in Sources,
                 \/ Call(WriteChunk(s, off, len, from, "api"))
                 \/ Fault(WriteChunkFails(s, off, len, from, "api"))
          PROVE  ServerOp
      <4>1. "api" \in Whos /\ off \in Int /\ len \in Nat  BY SizeType DEF Whos
      <4>2. now' = now /\ (WriteChunk(s, off, len, from, "api") \/ WriteChunkFails(s, off, len, from, "api"))
        BY <3>6 DEF Call, Fault
      <4> QED  BY <4>1, <4>2 DEF ServerOp
    <3> QED  BY <1>2, <3>1, <3>2, <3>3, <3>4, <3>5, <3>6 DEF ApiNext
  <2> QED  BY <2>1, ServerStepHolds
<1> QED  BY <1>1, <1>2

(* ReceivedBytes is what was received, for any caller of the routes: chunks
   of any place and length, overlapping, repeated, cut short by a full disk
   or by the end of the process between the data and the sidecar.          *)
THEOREM ReceivedIsTrue == ApiSpec => []ReceivedIsCoverage
<1>1. ServerInv /\ [ApiNext]_serverVars => ServerInv'  BY ApiStep
<1> QED  BY <1>1, ServerStarts, InvCounts, PTL DEF ApiSpec

(* The reaper and CompleteUpload are all that empties a staging directory,
   and the reaper never does so to a session somebody used within TTL or is
   writing to.                                                             *)
THEOREM StagedStaysInFlight == ApiSpec => InFlightIsKept
<1>1. ServerInv /\ [ApiNext]_serverVars => ServerInv'  BY ApiStep
<1>2. ServerInv /\ [ApiNext]_serverVars
        => [\A s \in Sids : (staged[s] # None /\ staged'[s] = None) =>
              \/ dest' = staged[s] /\ sidecar[s].received = Size
              \/ /\ \/ sidecar[s] = None
                    \/ op[s] = None /\ now - sidecar[s].updated >= TTL
                 /\ now - made[s] >= TTL]_serverVars
  BY ApiStep DEF Leaves
<1> QED  BY <1>1, <1>2, ServerStarts, PTL DEF ApiSpec, InFlightIsKept

-----------------------------------------------------------------------------
(* The app.  Its request, and what the server is told to do by one.        *)
Reqs == [kind : {"init", "chunk", "complete"}, sid : Sids \cup {None}, off : Nat,
         src : Sources, st : {"sent", "served", "lost"}]
Addressed(r) == r \in Reqs /\ (r.kind # "init" => r.sid \in Sids)
Marks == [sid : Sids \cup {None}, off : Nat]

PhoneTypes ==
    /\ work \in {"none", "enqueued", "running", "succeeded", "failed", "cancelled"}
    /\ work \in Active => src \in Sources
    /\ app \in [at : {"idle", "send", "wait", "done"}, sid : Sids \cup {None}, off : Nat]
    /\ store \in Marks /\ disk \in Marks
    /\ stray # None => Addressed(stray)
    /\ app.at # "idle" => work = "running"
    /\ app.at = "send" => app.sid \in Sids

(* The worker waits for its request, and the request for the operation that
   serves it or for the answer.                                            *)
Pending ==
    /\ app.at = "wait" /\ Addressed(req)
    /\ req.kind # "init" => req.sid = app.sid
    /\ req.kind = "chunk" => req.off = app.off

Answered ==
    answer # None =>
        /\ Pending /\ req.st = "served"
        /\ req.kind = "init" /\ answer.code = 200 => answer.n \in Sids
        /\ answer.code = 409 => req.kind = "complete"
        /\ answer.code = 409 /\ answer.n # Unread => answer.n \in Nat
        /\ req.kind = "complete" /\ answer.code = 200 => dest \in Whole

OfApp(s) == op[s] # None /\ op[s].who = "app"
ServedBy(s) ==
    /\ Pending /\ req.st = "served" /\ req.kind = op[s].kind /\ answer = None
    /\ req.kind # "init" => s = req.sid
    /\ req.kind = "chunk" => op[s].off = req.off
Serving ==
    /\ \A s \in Sids : OfApp(s) => ServedBy(s)
    /\ \A s, t \in Sids : OfApp(s) /\ OfApp(t) => s = t

AppInv ==
    /\ PhoneTypes /\ (req # None => Pending) /\ Answered /\ Serving
    /\ app.at = "done" => dest \in Whole

LEMMA AppStarts == ServerInit /\ PhoneInit => AppInv
BY DEF ServerInit, PhoneInit, AppInv, PhoneTypes, Answered, Serving, OfApp, Marks, Idle, NoStore, Active

(* What it does to the server that a request is served.                    *)
Taken(r, who, s) ==
    /\ answer' = answer /\ op[s] = None
    /\ op'[s].kind = r.kind /\ op'[s].who = who
    /\ r.kind = "init" => s \notin used
    /\ r.kind # "init" => s = r.sid
    /\ r.kind = "chunk" => sidecar[s] # None /\ op'[s].off = r.off /\ op'[s].len = 1
    /\ \A x \in Sids \ {s} : op'[x] = op[x]
Refused(r, who) ==
    /\ op' = op
    /\ who # "app" => answer' = answer
    /\ who = "app" => \/ answer'.code \in {400, 404, 507}
                      \/ r.kind = "complete" /\ answer'.code = 409 /\ answer'.n = Unread

LEMMA ServeOutcome ==
    ASSUME ServerInv, NEW r, Addressed(r), NEW who \in Whos, Serve(r, who)
    PROVE  /\ UNCHANGED sidecar /\ (used' = used \/ (\E s \in Sids : used' = used \cup {s}))
           /\ Refused(r, who) \/ \E s \in Sids : Taken(r, who, s)
<1>1. Shapes /\ used \subseteq Sids /\ \A s \in Sids : SessionOf(s)  BY DEF ServerInv
<1>2. r.off \in Nat  BY DEF Addressed, Reqs
<1>3. CASE r.kind = "init" /\ InitUpload(who)
  <2>1. NewSid \in Sids /\ NewSid \notin used  BY <1>1, <1>3, NewSidIs DEF InitUpload
  <2>2. op[NewSid] = None  BY <1>1, <2>1 DEF SessionOf, Session
  <2> DEFINE o == [kind |-> "init", who |-> who]
  <2>3. op'[NewSid] = o /\ \A x \in Sids \ {NewSid} : op'[x] = op[x]
    BY <1>1, <1>3, <2>1 DEF InitUpload, Shapes
  <2> QED  BY <1>3, <2>1, <2>2, <2>3 DEF InitUpload, Taken
<1>4. CASE r.kind = "chunk" /\ WriteChunk(r.sid, r.off, 1, r.src, who)
  <2>1. r.sid \in Sids  BY <1>4 DEF Addressed
  <2> DEFINE o == [kind |-> "chunk", who |-> who, off |-> r.off, len |-> 1]
  <2>2. /\ UNCHANGED <<sidecar, used>> /\ op[r.sid] = None
        /\ \/ op' = op /\ (Answer(who, 404, 0) \/ Answer(who, 400, 0))
           \/ sidecar[r.sid] # None /\ answer' = answer /\ op' = [op EXCEPT ![r.sid] = o]
    BY <1>4 DEF WriteChunk
  <2>3. CASE op' = op /\ (Answer(who, 404, 0) \/ Answer(who, 400, 0))
    <3>1. Refused(r, who)  BY <2>3 DEF Answer, Refused
    <3> QED  BY <2>2, <3>1
  <2>4. CASE sidecar[r.sid] # None /\ answer' = answer /\ op' = [op EXCEPT ![r.sid] = o]
    <3>1. op'[r.sid] = o /\ \A x \in Sids \ {r.sid} : op'[x] = op[x]  BY <1>1, <2>1, <2>4 DEF Shapes
    <3>2. Taken(r, who, r.sid)  BY <1>4, <2>2, <2>4, <3>1 DEF Taken
    <3> QED  BY <2>1, <2>2, <3>2
  <2> QED  BY <2>2, <2>3, <2>4
<1>5. CASE r.kind = "complete" /\ CompleteUpload(r.sid, who)
  <2>1. r.sid \in Sids  BY <1>5 DEF Addressed
  <2> DEFINE o == [kind |-> "complete", who |-> who]
  <2>2. /\ UNCHANGED <<sidecar, used>> /\ op[r.sid] = None
        /\ \/ op' = op /\ (Answer(who, 404, 0) \/ Answer(who, 409, Unread))
           \/ answer' = answer /\ op' = [op EXCEPT ![r.sid] = o]
    BY <1>5 DEF CompleteUpload
  <2>3. CASE op' = op /\ (Answer(who, 404, 0) \/ Answer(who, 409, Unread))
    <3>1. Refused(r, who)  BY <1>5, <2>3 DEF Answer, Refused
    <3> QED  BY <2>2, <3>1
  <2>4. CASE answer' = answer /\ op' = [op EXCEPT ![r.sid] = o]
    <3>1. op'[r.sid] = o /\ \A x \in Sids \ {r.sid} : op'[x] = op[x]  BY <1>1, <2>1, <2>4 DEF Shapes
    <3>2. Taken(r, who, r.sid)  BY <1>5, <2>2, <2>4, <3>1 DEF Taken
    <3> QED  BY <2>1, <2>2, <3>2
  <2> QED  BY <2>2, <2>3, <2>4
<1> QED  BY <1>3, <1>4, <1>5 DEF Serve

(* What it does that an operation ends.                                    *)
Ended(s) ==
    /\ op[s] # None /\ op'[s] = None /\ \A x \in Sids \ {s} : op'[x] = op[x]
    /\ op[s].who # "app" => answer' = answer
    /\ op[s].who = "app" => /\ answer'.code \in {200, 404}
                            /\ op[s].kind = "init" /\ answer'.code = 200 => answer'.n = s

LEMMA SavesOutcome == ASSUME ServerInv, NEW s \in Sids, Saves(s) PROVE Ended(s) /\ used' = used /\ dest' = dest
<1>1. op = [x \in Sids |-> op[x]]  BY DEF ServerInv, Shapes
<1>2. op[s] # None /\ op' = [op EXCEPT ![s] = None] /\ UNCHANGED <<used, dest>>
  BY DEF Saves, InitUploadSaves, WriteChunkSaves, CompleteUploadRemoves
<1>3. op'[s] = None /\ \A x \in Sids \ {s} : op'[x] = op[x]  BY <1>1, <1>2
<1>4. CASE InitUploadSaves(s)
  <2>1. Answer(op[s].who, 404, 0) \/ Answer(op[s].who, 200, s)  BY <1>4 DEF InitUploadSaves
  <2> QED  BY <1>2, <1>3, <2>1 DEF Answer, Ended
<1>5. CASE WriteChunkSaves(s)
  <2>1. op[s].kind = "chunk"  BY <1>5 DEF WriteChunkSaves
  <2>2. PICK rs : Answer(op[s].who, 200, Received(s, rs))  BY <1>5 DEF WriteChunkSaves
  <2> QED  BY <1>2, <1>3, <2>1, <2>2 DEF Answer, Ended
<1>6. CASE CompleteUploadRemoves(s)
  <2>1. op[s].kind = "complete" /\ Answer(op[s].who, 200, 0)  BY <1>6 DEF CompleteUploadRemoves
  <2> QED  BY <1>2, <1>3, <2>1 DEF Answer, Ended
<1> QED  BY <1>2, <1>4, <1>5, <1>6 DEF Saves

-----------------------------------------------------------------------------
(* Every step of the protocol is, for the server, one of its operations.   *)
Still == UNCHANGED <<now, sidecar, staged, made, op, dest, used>>

LEMMA StillIsOp == ASSUME ServerInv, Still PROVE ServerOp
<1>1. op' = [s \in Sids |-> op'[s]]  BY DEF ServerInv, Shapes, Still
<1> QED  BY <1>1 DEF Still, Relabelled, ServerOp

LEMMA AbandonIsOp ==
    ASSUME ServerInv, Abandon, UNCHANGED <<now, sidecar, staged, made, dest, used>> PROVE ServerOp
<1>1. op' = [s \in Sids |-> IF op[s] # None /\ op[s].who = "app"
                            THEN [op[s] EXCEPT !.who = "stray"] ELSE op[s]]
  BY DEF Abandon
<1>2. op' = [s \in Sids |-> op'[s]] /\ Relabelled  BY <1>1 DEF Relabelled
<1> QED  BY <1>2 DEF ServerOp

LEMMA ServeIsOp ==
    ASSUME NEW r, Addressed(r), NEW who \in Whos, Serve(r, who), now' = now PROVE ServerOp
<1>1. r.off \in Int /\ 1 \in Nat /\ r.src \in Sources /\ (r.kind # "init" => r.sid \in Sids)
  BY DEF Addressed, Reqs
<1>2. CASE InitUpload(who)  BY <1>2 DEF ServerOp
<1>3. CASE r.kind = "chunk" /\ WriteChunk(r.sid, r.off, 1, r.src, who)
  <2>1. r.sid \in Sids  BY <1>1, <1>3
  <2> QED  BY <1>1, <1>3, <2>1 DEF ServerOp
<1>4. CASE r.kind = "complete" /\ CompleteUpload(r.sid, who)
  <2>1. r.sid \in Sids  BY <1>1, <1>4
  <2> QED  BY <1>4, <2>1 DEF ServerOp
<1> QED  BY <1>2, <1>3, <1>4 DEF Serve

LEMMA UploadIsOp == ASSUME ServerInv, AppInv, [UploadNext]_uploadVars PROVE ServerOp
<1> USE DEF serverVars, server, phone, uploadVars
<1>1. CASE UNCHANGED uploadVars  BY <1>1, StillIsOp DEF Still
<1>2. CASE \E f \in Sources : StartUpload(f)  BY <1>2, StillIsOp DEF Still, StartUpload
<1>3. CASE ServeRequest
  <2>1. Addressed(req) /\ "app" \in Whos  BY <1>3 DEF ServeRequest, AppInv, Pending, Whos
  <2> QED  BY <1>3, <2>1, ServeIsOp DEF ServeRequest
<1>4. CASE ServeStatus  BY <1>4, StillIsOp DEF Still, ServeStatus, SessionStatus
<1>5. CASE \E s \in Sids : Saves(s) /\ UNCHANGED phone  BY <1>5 DEF Saves, ServerOp
<1>6. CASE WorkBegins \/ Send \/ WorkSucceeds
  BY <1>6, StillIsOp DEF Still, WorkBegins, Send, WorkSucceeds
<1>7. CASE Receive  BY <1>7, StillIsOp DEF Still, Receive
<1>8. CASE ServerGone \/ GiveUp  BY <1>8, AbandonIsOp DEF ServerGone, GiveUp, RequestFails
<1>9. CASE SourceLost \/ SourceEndsEarly \/ Flush \/ SweepFinds \/ SweepClears
  BY <1>9, StillIsOp DEF Still, SourceLost, SourceEndsEarly, Flush, SweepFinds, SweepClears
<1>10. CASE Cancel \/ PhoneDies  BY <1>10, AbandonIsOp DEF Cancel, PhoneDies
<1>11. CASE ServeStray
  <2>1. Addressed(stray) /\ "stray" \in Whos  BY <1>11 DEF ServeStray, AppInv, PhoneTypes, Whos
  <2> QED  BY <1>11, <2>1, ServeIsOp DEF ServeStray
<1>12. CASE ServeFails
  <2>1. Addressed(req) /\ "app" \in Whos  BY <1>12 DEF ServeFails, AppInv, Pending, Whos
  <2>2. req.sid \in Sids /\ req.off \in Int /\ 1 \in Nat /\ req.src \in Sources
    BY <1>12, <2>1 DEF ServeFails, Addressed, Reqs
  <2>3. now' = now /\ WriteChunkFails(req.sid, req.off, 1, req.src, "app")
    BY <1>12 DEF ServeFails, Fault
  <2> QED  BY <2>1, <2>2, <2>3 DEF ServerOp
<1>13. CASE ServerDies  BY <1>13 DEF ServerDies, Fault, ServerOp
<1>14. CASE ClockMoves /\ UNCHANGED phone  BY <1>14 DEF ServerOp
<1>15. CASE \E s \in Sids : Reap(s) /\ UNCHANGED phone  BY <1>15 DEF Reap, ServerOp
<1> QED  BY <1>1, <1>2, <1>3, <1>4, <1>5, <1>6, <1>7, <1>8, <1>9, <1>10, <1>11, <1>12, <1>13, <1>14, <1>15
         DEF UploadNext, ServerStep, WorkerStep

-----------------------------------------------------------------------------
(* AppInv, step by step.  First what it takes in a few common situations.  *)
Free == req = None /\ answer = None /\ \A s \in Sids : ~OfApp(s)

LEMMA NotWaiting == ASSUME AppInv, app.at # "wait" PROVE Free
BY DEF AppInv, Free, Answered, Serving, ServedBy, Pending

LEMMA FreeHolds ==
    ASSUME Free', PhoneTypes', app'.at = "done" => dest' \in Whole PROVE AppInv'
<1>1. Answered' /\ Serving'  BY DEF Free, Answered, Serving
<1>2. (req # None => Pending)'  BY DEF Free
<1>3. (app.at = "done" => dest \in Whole)'  BY DEF Whole, Bytes
<1> QED  BY <1>1, <1>2, <1>3 DEF AppInv

LEMMA AppKept ==
    ASSUME AppInv, PhoneTypes', UNCHANGED <<app, req, answer, op>>, dest' = dest \/ dest' \in Whole
    PROVE  AppInv'
<1>1. (req # None => Pending)' /\ Serving'
  BY DEF AppInv, Pending, Addressed, Reqs, Serving, OfApp, ServedBy
<1>2. Answered'  BY DEF AppInv, Answered, Pending, Addressed, Reqs, Whole, Bytes, Unread
<1>3. (app.at = "done" => dest \in Whole)'  BY DEF AppInv, Whole, Bytes
<1> QED  BY <1>1, <1>2, <1>3 DEF AppInv

LEMMA Fresh ==
    ASSUME Free, UNCHANGED <<answer, op>>, PhoneTypes', Pending' PROVE AppInv'
<1>1. Answered' /\ Serving'  BY DEF Free, Answered, Serving, OfApp
<1>2. (app.at = "done" => dest \in Whole)'  BY DEF Pending
<1> QED  BY <1>1, <1>2 DEF AppInv

(* The worker's own steps.                                                 *)
LEMMA AppStartUpload == ASSUME AppInv, NEW f \in Sources, StartUpload(f) PROVE AppInv'
<1>1. UNCHANGED <<app, req, answer, op, dest>>  BY DEF StartUpload, serverVars, server
<1>2. PhoneTypes'
  BY <1>1 DEF StartUpload, AppInv, PhoneTypes, Active, Marks, Addressed, Reqs
<1> QED  BY <1>1, <1>2, AppKept

LEMMA AppFlush == ASSUME AppInv, Flush \/ SweepFinds \/ SweepClears PROVE AppInv'
<1>1. UNCHANGED <<app, req, answer, op, dest>>  BY DEF Flush, SweepFinds, SweepClears, serverVars, server
<1>2. PhoneTypes'
  BY <1>1 DEF Flush, SweepFinds, SweepClears, AppInv, PhoneTypes, Active, Marks, Addressed, Reqs, NoStore
<1> QED  BY <1>1, <1>2, AppKept

LEMMA AppWorkBegins == ASSUME AppInv, WorkBegins PROVE AppInv'
<1>1. Free  BY NotWaiting DEF WorkBegins, AppInv, PhoneTypes
<1>2. /\ UNCHANGED <<answer, op, dest, src, store, disk, stray>>
      /\ work' = "running" /\ src \in Sources
  BY DEF WorkBegins, serverVars, server, AppInv, PhoneTypes, Active
<1>3. CASE store.sid # None
  <2>1. app' = [at |-> "send", sid |-> store.sid, off |-> store.off] /\ req' = req  BY <1>3 DEF WorkBegins
  <2>2. store.sid \in Sids /\ store.off \in Nat  BY <1>3 DEF AppInv, PhoneTypes, Marks
  <2>3. PhoneTypes'  BY <1>2, <2>1, <2>2 DEF AppInv, PhoneTypes, Active, Marks, Addressed, Reqs
  <2>4. Free'  BY <1>1, <1>2, <2>1 DEF Free, OfApp
  <2> QED  BY <2>1, <2>3, <2>4, FreeHolds
<1>4. CASE store.sid = None
  <2>1. app' = [at |-> "wait", sid |-> None, off |-> 0]  BY <1>4 DEF WorkBegins, Idle
  <2>2. req' = [kind |-> "init", sid |-> None, off |-> 0, src |-> src, st |-> "sent"]
    BY <1>4 DEF WorkBegins, Request
  <2>3. PhoneTypes'  BY <1>2, <2>1 DEF AppInv, PhoneTypes, Active, Marks, Addressed, Reqs
  <2>4. Pending'  BY <1>2, <2>1, <2>2 DEF Pending, Addressed, Reqs
  <2> QED  BY <1>1, <1>2, <2>3, <2>4, Fresh
<1> QED  BY <1>3, <1>4

LEMMA AppSend == ASSUME AppInv, Send \/ SourceEndsEarly PROVE AppInv'
<1>1. Free  BY NotWaiting DEF Send, SourceEndsEarly
<1>2. /\ UNCHANGED <<answer, op, src, store, disk, stray, work>>
      /\ work = "running" /\ src \in Sources /\ app.at = "send"
  BY DEF Send, SourceEndsEarly, serverVars, server, AppInv, PhoneTypes, Active
<1>3. app.sid \in Sids /\ app.off \in Nat /\ app' = [at |-> "wait", sid |-> app.sid, off |-> app.off]
  BY <1>2 DEF Send, SourceEndsEarly, AppInv, PhoneTypes
<1>4. \/ req' = [kind |-> "chunk", sid |-> app.sid, off |-> app.off, src |-> src, st |-> "sent"]
      \/ req' = [kind |-> "complete", sid |-> app.sid, off |-> 0, src |-> src, st |-> "sent"]
  BY DEF Send, SourceEndsEarly, Request
<1>5. PhoneTypes'  BY <1>2, <1>3 DEF AppInv, PhoneTypes, Active, Marks, Addressed, Reqs
<1>6. Pending'  BY <1>2, <1>3, <1>4 DEF Pending, Addressed, Reqs
<1> QED  BY <1>1, <1>2, <1>5, <1>6, Fresh

LEMMA AppEnds == ASSUME AppInv, WorkSucceeds \/ SourceLost PROVE AppInv'
<1>1. Free  BY NotWaiting DEF WorkSucceeds, SourceLost
<1>2. /\ UNCHANGED <<answer, op, src, store, disk, stray, req>>
      /\ work' \in {"succeeded", "failed"} /\ app' = [at |-> "idle", sid |-> None, off |-> 0]
  BY DEF WorkSucceeds, SourceLost, serverVars, server, Idle
<1>3. PhoneTypes'  BY <1>2 DEF AppInv, PhoneTypes, Active, Marks, Addressed, Reqs
<1>4. Free'  BY <1>1, <1>2 DEF Free, OfApp
<1> QED  BY <1>2, <1>3, <1>4, FreeHolds

LEMMA AppReceive == ASSUME AppInv, Receive PROVE AppInv'
<1>1. /\ req' = None /\ answer' = None /\ UNCHANGED <<op, dest, src, stray, disk>>
      /\ answer # None /\ Pending
      /\ answer.code = 409 => answer.n \in Nat
  BY DEF Receive, AppInv, Answered
<1>2. Free'  BY <1>1 DEF Free, OfApp, AppInv, Serving, ServedBy
<1>3. /\ work = "running" /\ src \in Sources /\ app.off \in Nat /\ app.sid \in Sids \cup {None}
      /\ store \in Marks /\ disk \in Marks
      /\ stray # None => Addressed(stray)
      /\ req.kind # "init" => app.sid \in Sids
  BY <1>1 DEF AppInv, PhoneTypes, Pending, Active, Addressed
<1>4. app \in [at : {"idle", "send", "wait", "done"}, sid : Sids \cup {None}, off : Nat]
  BY DEF AppInv, PhoneTypes
<1>5. (stray # None => Addressed(stray))' /\ disk' \in Marks  BY <1>1, <1>3 DEF Addressed, Reqs
<1>6. ASSUME NEW w \in {"enqueued", "failed"}, work' = w, app' = Idle, store' \in Marks PROVE PhoneTypes'
  BY <1>1, <1>3, <1>5, <1>6 DEF PhoneTypes, Idle, Active, Marks
<1>7. CASE /\ req.kind = "init" /\ answer.code = 200 /\ saveSession(answer.n)
           /\ app' = [at |-> "send", sid |-> answer.n, off |-> 0] /\ work' = work
  <2>1. answer.n \in Sids  BY <1>1, <1>7 DEF AppInv, Answered
  <2>2. store' \in Marks  BY <1>7, <2>1 DEF saveSession, Marks
  <2>3. PhoneTypes'  BY <1>1, <1>3, <1>5, <1>7, <2>1, <2>2 DEF PhoneTypes, Active, Marks
  <2> QED  BY <1>2, <1>7, <2>3, FreeHolds
<1>8. CASE req.kind = "init" /\ Retry /\ store' = store
  BY <1>2, <1>3, <1>6, <1>8, FreeHolds DEF Retry, Idle
<1>9. CASE /\ req.kind = "chunk" /\ app' = [app EXCEPT !.at = "send", !.off = Accepted]
           /\ saveProgress(Accepted) /\ work' = work
  <2>1. app' = [at |-> "send", sid |-> app.sid, off |-> app.off + 1]  BY <1>4, <1>9 DEF Accepted
  <2>2. store' \in Marks  BY <1>3, <1>9 DEF saveProgress, Marks, Accepted
  <2>3. PhoneTypes'  BY <1>1, <1>3, <1>5, <1>9, <2>1, <2>2 DEF PhoneTypes, Active, Marks
  <2> QED  BY <1>2, <2>1, <2>3, FreeHolds
<1>10. CASE /\ req.kind = "complete" /\ Done(answer.code)
            /\ app' = [app EXCEPT !.at = "done"] /\ store' = NoStore /\ work' = work
  <2>1. app' = [at |-> "done", sid |-> app.sid, off |-> app.off]  BY <1>4, <1>10
  <2>2. store' \in Marks  BY <1>10 DEF NoStore, Marks
  <2>3. dest \in Whole  BY <1>1, <1>10 DEF AppInv, Answered, Done
  <2>4. PhoneTypes'  BY <1>1, <1>3, <1>5, <1>10, <2>1, <2>2 DEF PhoneTypes, Active, Marks
  <2> QED  BY <1>1, <1>2, <2>3, <2>4, FreeHolds
<1>11. CASE \/ answer.code = 409 /\ Interrupted(answer.n)
            \/ Interrupted(app.off)
  <2>1. PICK n \in Nat : saveProgress(n) /\ Retry  BY <1>1, <1>3, <1>11 DEF Interrupted
  <2>2. store' \in Marks  BY <1>3, <2>1 DEF saveProgress, Marks
  <2> QED  BY <1>2, <1>6, <2>1, <2>2, FreeHolds DEF Retry, Idle
<1>12. CASE work' = "failed" /\ app' = Idle /\ store' = store
  BY <1>2, <1>3, <1>6, <1>12, FreeHolds DEF Idle
<1> QED  BY <1>7, <1>8, <1>9, <1>10, <1>11, <1>12 DEF Receive

(* The end of a request that gets no answer.                               *)
LEMMA AppAbandon == ASSUME ServerInv, AppInv, ServerGone \/ GiveUp \/ Cancel \/ PhoneDies PROVE AppInv'
<1>1. Abandon /\ app' = Idle /\ UNCHANGED <<src, disk>>
  BY DEF ServerGone, GiveUp, RequestFails, Interrupted, Retry, Cancel, PhoneDies
<1>2. Free'
  <2>1. ASSUME NEW s \in Sids PROVE ~OfApp(s)'
    <3>1. CASE OfApp(s)
      <4>1. op'[s] = [op[s] EXCEPT !.who = "stray"]  BY <1>1, <3>1 DEF Abandon, OfApp
      <4>2. op[s] \in Ops  BY <3>1 DEF OfApp, ServerInv, SessionOf, Session
      <4>3. op'[s].who = "stray"  BY <4>1, <4>2 DEF Ops
      <4> QED  BY <4>3 DEF OfApp
    <3>2. CASE ~OfApp(s)  BY <1>1, <3>2 DEF Abandon, OfApp
    <3> QED  BY <3>1, <3>2
  <2> QED  BY <1>1, <2>1 DEF Free, Abandon
<1>3. (stray # None => Addressed(stray))'
  <2>1. req # None => Addressed(req)  BY DEF AppInv, Pending
  <2>2. stray' = stray \/ (req # None /\ stray' = req)  BY <1>1 DEF Abandon
  <2> QED  BY <2>1, <2>2 DEF AppInv, PhoneTypes, Addressed, Reqs
<1>4. store' \in Marks /\ disk' \in Marks
  <2>1. store \in Marks /\ disk \in Marks /\ app.off \in Nat  BY DEF AppInv, PhoneTypes
  <2>2. store' = store \/ store' = disk \/ store' = [store EXCEPT !.off = app.off]
    BY DEF ServerGone, GiveUp, RequestFails, Interrupted, saveProgress, Cancel, PhoneDies
  <2> QED  BY <1>1, <2>1, <2>2 DEF Marks
<1>5. /\ work' \in {"none", "enqueued", "running", "succeeded", "failed", "cancelled"}
      /\ work' \in Active => work \in Active
  <2>1. ServerGone \/ GiveUp => work = "running" /\ work' = "enqueued"
    <3>1. req # None => work = "running"  BY DEF AppInv, Pending, PhoneTypes
    <3> QED  BY <3>1 DEF ServerGone, GiveUp, RequestFails, Interrupted, Retry
  <2>2. work \in {"none", "enqueued", "running", "succeeded", "failed", "cancelled"}
    BY DEF AppInv, PhoneTypes
  <2>3. CASE ServerGone \/ GiveUp  BY <2>1, <2>3 DEF Active
  <2>4. CASE Cancel  BY <2>4 DEF Cancel, Active
  <2>5. CASE PhoneDies  BY <2>2, <2>5 DEF PhoneDies, Active
  <2> QED  BY <2>3, <2>4, <2>5
<1>6. PhoneTypes'
  <2>1. (work \in Active => src \in Sources)'  BY <1>1, <1>5 DEF AppInv, PhoneTypes, Active
  <2> QED  BY <1>1, <1>3, <1>4, <1>5, <2>1 DEF PhoneTypes, Idle, Marks
<1> QED  BY <1>1, <1>2, <1>6, FreeHolds DEF Idle

(* The steps of the server.                                                *)
LEMMA AppServerOnly ==
    ASSUME ServerInv, AppInv, UNCHANGED <<phone, answer, op>>, dest' = dest \/ dest' \in Whole
    PROVE  AppInv'
<1>1. UNCHANGED <<app, req, answer, op>>  BY DEF phone
<1>2. PhoneTypes'  BY DEF phone, AppInv, PhoneTypes, Active, Marks, Addressed, Reqs
<1> QED  BY <1>1, <1>2, AppKept

LEMMA AppServeStatus == ASSUME ServerInv, AppInv, ServeStatus PROVE AppInv'
<1>1. /\ answer # None /\ answer.code = 409 /\ UNCHANGED <<op, dest>> /\ UNCHANGED phone
      /\ answer' = [code |-> 409, n |-> IF sidecar[req.sid] = None THEN 0 ELSE sidecar[req.sid].received]
  BY DEF ServeStatus, SessionStatus, Answer
<1>2. Pending /\ req.st = "served" /\ req.kind = "complete" /\ req.sid \in Sids
  BY <1>1 DEF AppInv, Answered, Pending, Addressed
<1>3. answer'.code = 409 /\ answer'.n \in Nat
  <2>1. sidecar[req.sid] # None => sidecar[req.sid].received \in Nat
    BY <1>2 DEF ServerInv, SessionOf, Session, Sidecars
  <2> QED  BY <1>1, <2>1
<1>4. Pending'  BY <1>1, <1>2 DEF phone, Pending, Addressed, Reqs
<1>5. Answered'  BY <1>1, <1>2, <1>3, <1>4 DEF phone, Answered
<1>6. Serving'
  <2>1. \A s \in Sids : ~OfApp(s)  BY <1>1 DEF AppInv, Serving, ServedBy
  <2> QED  BY <1>1, <2>1 DEF Serving, OfApp
<1>7. PhoneTypes'  BY <1>1 DEF phone, AppInv, PhoneTypes, Active, Marks, Addressed, Reqs
<1>8. (app.at = "done" => dest \in Whole)'  BY <1>1 DEF phone, AppInv, Whole, Bytes
<1> QED  BY <1>4, <1>5, <1>6, <1>7, <1>8 DEF AppInv

LEMMA AppServerDies == ASSUME AppInv, ServerDies PROVE AppInv'
<1>1. /\ op' = [s \in Sids |-> None] /\ answer' = None /\ dest' = dest
      /\ stray' = None /\ UNCHANGED <<work, src, app, store, disk>>
      /\ req' = IF req # None THEN [req EXCEPT !.st = "lost"] ELSE None
  BY DEF ServerDies, Fault, Crash
<1>2. PhoneTypes'  BY <1>1 DEF AppInv, PhoneTypes, Active, Marks
<1>3. Answered' /\ Serving'  BY <1>1 DEF Answered, Serving, OfApp
<1>4. (req # None => Pending)'
  <2>1. CASE req = None  BY <1>1, <2>1
  <2>2. CASE req # None
    <3>1. Pending  BY <2>2 DEF AppInv
    <3>2. req' = [kind |-> req.kind, sid |-> req.sid, off |-> req.off, src |-> req.src, st |-> "lost"]
      BY <1>1, <2>2, <3>1 DEF Pending, Addressed, Reqs
    <3> QED  BY <1>1, <3>1, <3>2 DEF Pending, Addressed, Reqs
  <2> QED  BY <2>1, <2>2
<1>5. (app.at = "done" => dest \in Whole)'  BY <1>1 DEF AppInv, Whole, Bytes
<1> QED  BY <1>2, <1>3, <1>4, <1>5 DEF AppInv

LEMMA AppServes ==
    ASSUME ServerInv, AppInv, req # None, req.st = "sent", req' = [req EXCEPT !.st = "served"],
           UNCHANGED <<work, src, app, stray, store, disk>>, dest' = dest \/ dest' \in Whole,
           Refused(req, "app") \/ (\E s \in Sids : Taken(req, "app", s))
    PROVE  AppInv'
<1>1. Pending  BY DEF AppInv
<1>2. req' = [kind |-> req.kind, sid |-> req.sid, off |-> req.off, src |-> req.src, st |-> "served"]
  BY <1>1 DEF Pending, Addressed, Reqs
<1>3. Pending' /\ req'.st = "served" /\ req'.kind = req.kind /\ req'.sid = req.sid /\ req'.off = req.off
  BY <1>1, <1>2 DEF Pending, Addressed, Reqs
<1>4. answer = None /\ \A s \in Sids : ~OfApp(s)  BY DEF AppInv, Answered, Serving, ServedBy
<1>5. PhoneTypes'  BY DEF AppInv, PhoneTypes, Active, Marks, Addressed, Reqs
<1>6. (app.at = "done" => dest \in Whole)'  BY DEF AppInv, Whole, Bytes
<1>7. CASE Refused(req, "app")
  <2>1. Serving'  BY <1>4, <1>7 DEF Refused, Serving, OfApp
  <2>2. Answered'  BY <1>3, <1>7 DEF Refused, Answered, Unread
  <2> QED  BY <1>3, <1>5, <1>6, <2>1, <2>2 DEF AppInv
<1>8. ASSUME NEW s \in Sids, Taken(req, "app", s) PROVE AppInv'
  <2>1. Answered'  BY <1>4, <1>8 DEF Taken, Answered
  <2>2. \A x \in Sids : OfApp(x)' => x = s  BY <1>4, <1>8 DEF Taken, OfApp
  <2>3. ServedBy(s)'  BY <1>3, <1>4, <1>8 DEF Taken, ServedBy
  <2>4. Serving'  BY <2>2, <2>3 DEF Serving
  <2> QED  BY <1>3, <1>5, <1>6, <2>1, <2>4 DEF AppInv
<1> QED  BY <1>7, <1>8

LEMMA AppServesStray ==
    ASSUME ServerInv, AppInv, stray # None, stray' = None,
           UNCHANGED <<work, src, app, req, store, disk>>, dest' = dest \/ dest' \in Whole,
           Refused(stray, "stray") \/ (\E s \in Sids : Taken(stray, "stray", s))
    PROVE  AppInv'
<1>1. PhoneTypes'  BY DEF AppInv, PhoneTypes, Active, Marks
<1>2. (req # None => Pending)'  BY DEF AppInv, Pending, Addressed, Reqs
<1>3. (app.at = "done" => dest \in Whole)'  BY DEF AppInv, Whole, Bytes
<1>4. answer' = answer  BY DEF Refused, Taken
<1>5. Answered'  BY <1>4 DEF AppInv, Answered, Pending, Addressed, Reqs, Whole, Bytes, Unread
<1>6. \A x \in Sids : OfApp(x)' => op'[x] = op[x] /\ OfApp(x)
  <2>1. CASE Refused(stray, "stray")  BY <2>1 DEF Refused, OfApp
  <2>2. ASSUME NEW s \in Sids, Taken(stray, "stray", s) PROVE \A x \in Sids : OfApp(x)' => op'[x] = op[x] /\ OfApp(x)
    BY <2>2 DEF Taken, OfApp
  <2> QED  BY <2>1, <2>2
<1>7. Serving'  BY <1>4, <1>6 DEF AppInv, Serving, ServedBy, Pending, Addressed, Reqs
<1> QED  BY <1>1, <1>2, <1>3, <1>5, <1>7 DEF AppInv

LEMMA AppSaves ==
    ASSUME ServerInv, AppInv, NEW s \in Sids, Ended(s), dest' = dest, UNCHANGED phone
    PROVE  AppInv'
<1>1. PhoneTypes'  BY DEF phone, AppInv, PhoneTypes, Active, Marks, Addressed, Reqs
<1>2. (req # None => Pending)'  BY DEF phone, AppInv, Pending, Addressed, Reqs
<1>3. (app.at = "done" => dest \in Whole)'  BY DEF phone, AppInv, Whole, Bytes
<1>4. \A x \in Sids : OfApp(x)' => x # s /\ op'[x] = op[x] /\ OfApp(x)  BY DEF Ended, OfApp
<1>5. CASE op[s].who = "app"
  <2>1. OfApp(s)  BY <1>5 DEF Ended, OfApp
  <2>2. ServedBy(s) /\ \A x \in Sids : OfApp(x) => x = s  BY <2>1 DEF AppInv, Serving
  <2>3. Serving'  BY <1>4, <2>2 DEF Serving
  <2>4. Pending' /\ req' = req  BY <2>2 DEF phone, ServedBy, Pending, Addressed, Reqs
  <2>5. op[s].kind = "complete" => dest' \in Whole  BY <2>1 DEF OfApp, ServerInv, Destination
  <2>6. Answered'  BY <1>5, <2>2, <2>4, <2>5 DEF ServedBy, Ended, Answered, Whole, Bytes
  <2> QED  BY <1>1, <1>2, <1>3, <2>3, <2>6 DEF AppInv
<1>6. CASE op[s].who # "app"
  <2>1. answer' = answer  BY <1>6 DEF Ended
  <2>2. Answered'  BY <2>1 DEF phone, AppInv, Answered, Pending, Addressed, Reqs, Whole, Bytes, Unread
  <2>3. Serving'  BY <1>4, <2>1 DEF phone, AppInv, Serving, ServedBy, Pending, Addressed, Reqs
  <2> QED  BY <1>1, <1>2, <1>3, <2>2, <2>3 DEF AppInv
<1> QED  BY <1>5, <1>6

UploadInv == ServerInv /\ AppInv

LEMMA UploadStep ==
    ASSUME UploadInv, [UploadNext]_uploadVars
    PROVE  /\ UploadInv' /\ (dest' = dest \/ dest' \in Whole)
           /\ \A s \in Sids : Leaves(s)
<1>1. ServerInv /\ AppInv  BY DEF UploadInv
<1>2. ServerInv' /\ (dest' = dest \/ dest' \in Whole) /\ \A s \in Sids : Leaves(s)
  BY <1>1, UploadIsOp, ServerStepHolds
<1>3. AppInv'
  <2>1. CASE UNCHANGED uploadVars
    <3>1. UNCHANGED <<phone, answer, op>>  BY <2>1 DEF uploadVars, serverVars, server
    <3> QED  BY <1>1, <1>2, <3>1, AppServerOnly
  <2>2. CASE \E f \in Sources : StartUpload(f)  BY <1>1, <2>2, AppStartUpload
  <2>3. CASE ServeRequest
    <3>1. /\ req # None /\ req.st = "sent" /\ req' = [req EXCEPT !.st = "served"]
          /\ UNCHANGED <<work, src, app, stray, store, disk>> /\ Serve(req, "app")
      BY <2>3 DEF ServeRequest
    <3>2. Addressed(req) /\ "app" \in Whos  BY <1>1, <3>1 DEF AppInv, Pending, Whos
    <3>3. Refused(req, "app") \/ (\E s \in Sids : Taken(req, "app", s))
      BY <1>1, <3>1, <3>2, ServeOutcome
    <3> QED  BY <1>1, <1>2, <3>1, <3>3, AppServes
  <2>4. CASE ServeStatus  BY <1>1, <2>4, AppServeStatus
  <2>5. CASE \E s \in Sids : Saves(s) /\ UNCHANGED phone  BY <1>1, <2>5, SavesOutcome, AppSaves
  <2>6. CASE WorkBegins  BY <1>1, <2>6, AppWorkBegins
  <2>7. CASE Receive  BY <1>1, <2>7, AppReceive
  <2>8. CASE Send \/ SourceEndsEarly  BY <1>1, <2>8, AppSend
  <2>9. CASE WorkSucceeds \/ SourceLost  BY <1>1, <2>9, AppEnds
  <2>10. CASE ServerGone \/ GiveUp \/ Cancel \/ PhoneDies  BY <1>1, <2>10, AppAbandon
  <2>11. CASE Flush \/ SweepFinds \/ SweepClears  BY <1>1, <2>11, AppFlush
  <2>12. CASE ServeStray
    <3>1. /\ stray # None /\ stray' = None
          /\ UNCHANGED <<work, src, app, req, store, disk>> /\ Serve(stray, "stray")
      BY <2>12 DEF ServeStray
    <3>2. Addressed(stray) /\ "stray" \in Whos  BY <1>1, <3>1 DEF AppInv, PhoneTypes, Whos
    <3>3. Refused(stray, "stray") \/ (\E s \in Sids : Taken(stray, "stray", s))
      BY <1>1, <3>1, <3>2, ServeOutcome
    <3> QED  BY <1>1, <1>2, <3>1, <3>3, AppServesStray
  <2>13. CASE ServeFails
    <3>1. /\ req # None /\ req.st = "sent" /\ req' = [req EXCEPT !.st = "served"]
          /\ UNCHANGED <<work, src, app, stray, store, disk>>
          /\ op' = op /\ answer' = [code |-> 507, n |-> 0]
      BY <2>13 DEF ServeFails, Fault, WriteChunkFails, Answer
    <3>2. Refused(req, "app")  BY <3>1 DEF Refused
    <3> QED  BY <1>1, <1>2, <3>1, <3>2, AppServes
  <2>14. CASE ServerDies  BY <1>1, <2>14, AppServerDies
  <2>15. CASE ClockMoves /\ UNCHANGED phone
    <3>1. UNCHANGED <<phone, answer, op>>  BY <2>15 DEF ClockMoves, server
    <3> QED  BY <1>1, <1>2, <3>1, AppServerOnly
  <2>16. CASE \E s \in Sids : Reap(s) /\ UNCHANGED phone
    <3>1. UNCHANGED <<phone, answer, op>>  BY <2>16 DEF Reap, ReapStale
    <3> QED  BY <1>1, <1>2, <3>1, AppServerOnly
  <2> QED  BY <2>1, <2>2, <2>3, <2>4, <2>5, <2>6, <2>7, <2>8, <2>9, <2>10, <2>11, <2>12, <2>13, <2>14,
              <2>15, <2>16 DEF UploadNext, ServerStep, WorkerStep
<1> QED  BY <1>2, <1>3 DEF UploadInv

LEMMA UploadStarts == ServerInit /\ PhoneInit => UploadInv
BY ServerStarts, AppStarts DEF UploadInv

(* The success the user sees: only WorkSucceeds shows one, and only over a
   whole file; another step may only take it back.                         *)
LEMMA ToldInTime ==
    ASSUME UploadInv, [UploadNext]_uploadVars
    PROVE  \/ (work' = "succeeded") = (work = "succeeded")
           \/ work' # "succeeded" /\ dest' = dest
           \/ dest \in Whole /\ work' = "succeeded" /\ dest' = dest
<1>1. CASE UNCHANGED work  BY <1>1
<1>2. CASE \E f \in Sources : StartUpload(f)  BY <1>2 DEF StartUpload, serverVars, server
<1>3. CASE WorkSucceeds  BY <1>3 DEF WorkSucceeds, serverVars, server, UploadInv, AppInv
<1>4. CASE WorkBegins \/ SourceLost  BY <1>4 DEF WorkBegins, SourceLost, serverVars, server
<1>5. CASE Receive  BY <1>5 DEF Receive, Retry, Interrupted
<1>6. CASE ServerGone \/ GiveUp
  BY <1>6 DEF ServerGone, GiveUp, RequestFails, Retry, Interrupted
<1>7. CASE Cancel \/ PhoneDies  BY <1>7 DEF Cancel, PhoneDies
<1> QED  BY <1>1, <1>2, <1>3, <1>4, <1>5, <1>6, <1>7
         DEF UploadNext, ServerStep, WorkerStep, uploadVars, phone, ServeRequest, ServeStatus, Send,
             SourceEndsEarly, Flush, SweepFinds, SweepClears, ServeStray, ServeFails, ServerDies

(* Sessions, chunks, retries, crashes on both sides, late requests, the reaper
   and the sweeps together implement an upload that happens at once.       *)
THEOREM UploadsAreAtomic == UploadSpec => UploadIsAtomic
<1>1. ServerInit /\ PhoneInit => Atomic!Init  BY DEF ServerInit, PhoneInit, Atomic!Init
<1>2. UploadInv /\ [UploadNext]_uploadVars
        => [Atomic!Publish \/ Atomic!Report \/ Atomic!Restart]_<<dest, work = "succeeded">>
  <2> SUFFICES ASSUME UploadInv, [UploadNext]_uploadVars
               PROVE  [Atomic!Publish \/ Atomic!Report \/ Atomic!Restart]_<<dest, work = "succeeded">>
    OBVIOUS
  <2>1. dest' = dest \/ dest' \in Whole  BY UploadStep
  <2>2. CASE (work' = "succeeded") = (work = "succeeded")
    BY <2>1, <2>2 DEF Atomic!Publish, Whole
  <2>3. CASE work' # "succeeded" /\ dest' = dest  BY <2>3 DEF Atomic!Restart
  <2>4. CASE dest \in Whole /\ work' = "succeeded" /\ dest' = dest  BY <2>4 DEF Atomic!Report, Whole
  <2> QED  BY <2>2, <2>3, <2>4, ToldInTime
<1>3. UploadInv /\ [UploadNext]_uploadVars => UploadInv'  BY UploadStep
<1> QED  BY <1>1, <1>2, <1>3, UploadStarts, PTL DEF UploadSpec, UploadIsAtomic, Atomic!Spec

-----------------------------------------------------------------------------
(* How far a session has come, and who speaks of it.  Of a session that was
   begun, the sidecar only grows or goes; the app fills each from the start. *)
Begun(s) == s \in used /\ ~(op[s] # None /\ op[s].kind = "init")
Within(s, off) ==
    s # None => Begun(s) /\ (sidecar[s] # None => off <= sidecar[s].received)

Contiguous(s) ==
    /\ sidecar[s] # None => Covered(sidecar[s].ranges) = 0..(sidecar[s].received - 1)
    /\ op[s] # None /\ op[s].kind = "chunk" => op[s].len = 1 /\ op[s].off <= sidecar[s].received

References ==
    /\ Within(store.sid, store.off) /\ Within(disk.sid, disk.off) /\ Within(app.sid, app.off)
    /\ app.sid # None => store.sid \in {None, app.sid}
    /\ req # None /\ req.kind # "init" => Within(req.sid, req.off)
    /\ stray # None /\ stray.kind # "init" => Within(stray.sid, stray.off)

Replies ==
    answer # None =>
        /\ req.kind = "init" /\ answer.code = 200 => Within(answer.n, 0)
        /\ req.kind = "chunk" /\ answer.code = 200 => Within(req.sid, req.off + 1)
        /\ answer.code = 409 => Within(req.sid, 0)
        /\ answer.code = 409 /\ answer.n # Unread => Within(req.sid, answer.n)

ResumeInv == (\A s \in Sids : Contiguous(s)) /\ References /\ Replies

(* What the sessions may do meanwhile.                                     *)
Onward(s) ==
    Begun(s) => /\ Begun(s)'
                /\ sidecar'[s] # None => sidecar[s] # None /\ sidecar[s].received <= sidecar'[s].received
Forward == \A s \in Sids : Onward(s) /\ Contiguous(s)'

(* Within, after the step, for a session and an offset of any time.        *)
After(s, off) ==
    s # None =>
        /\ s \in used' /\ ~(op'[s] # None /\ op'[s].kind = "init")
        /\ sidecar'[s] # None => off <= sidecar'[s].received

LEMMA WithinStays ==
    ASSUME ServerInv, ServerInv', Forward, NEW s \in Sids \cup {None}, NEW off \in Int, Within(s, off)
    PROVE  After(s, off)
<1>1. CASE s = None  BY <1>1 DEF After
<1>2. CASE s # None
  <2>1. s \in Sids /\ Onward(s)  BY <1>2 DEF Forward
  <2>2. sidecar[s] # None => sidecar[s].received \in Nat
    BY <2>1 DEF ServerInv, SessionOf, Session, Sidecars
  <2>3. sidecar'[s] # None => sidecar'[s].received \in Nat
    BY <2>1 DEF ServerInv, SessionOf, Session, Sidecars
  <2> QED  BY <1>2, <2>1, <2>2, <2>3 DEF Within, Onward, Begun, After
<1> QED  BY <1>1, <1>2

LEMMA FromZero ==
    ASSUME ServerInv', NEW s \in Sids \cup {None}, NEW off \in Int, After(s, off) PROVE After(s, 0)
<1>1. s # None => (sidecar'[s] # None => sidecar'[s].received \in Nat)
  BY DEF ServerInv, SessionOf, Session, Sidecars
<1> QED  BY <1>1 DEF After

(* Steps that leave sidecars and kinds of operations, or take them away.   *)
LEMMA Forwards ==
    ASSUME ServerInv, \A s \in Sids : Contiguous(s), used \subseteq used',
           \A s \in Sids :
               /\ sidecar'[s] = sidecar[s] \/ sidecar'[s] = None
               /\ \/ op'[s] = op[s] /\ (op[s] # None /\ op[s].kind = "chunk" => sidecar'[s] = sidecar[s])
                  \/ op'[s] = None
                  \/ /\ sidecar'[s] = sidecar[s] /\ op[s] # None /\ op'[s].kind = op[s].kind
                     /\ op[s].kind = "chunk" => op'[s].off = op[s].off /\ op'[s].len = op[s].len
    PROVE  Forward
<1> SUFFICES ASSUME NEW s \in Sids PROVE Onward(s) /\ Contiguous(s)'  BY DEF Forward
<1>1. Contiguous(s)  OBVIOUS
<1>2. Contiguous(s)'  BY <1>1 DEF Contiguous
<1>3. sidecar[s] # None => sidecar[s].received \in Nat
  BY DEF ServerInv, SessionOf, Session, Sidecars
<1>4. Onward(s)  BY <1>3 DEF Onward, Begun
<1> QED  BY <1>2, <1>4

LEMMA ForwardStill ==
    ASSUME ServerInv, \A s \in Sids : Contiguous(s), UNCHANGED <<sidecar, op, used>> PROVE Forward
BY Forwards

LEMMA ForwardAbandon ==
    ASSUME ServerInv, \A s \in Sids : Contiguous(s), Abandon, UNCHANGED <<sidecar, used>> PROVE Forward
<1>1. ASSUME NEW s \in Sids
      PROVE  \/ op'[s] = op[s]
             \/ /\ op[s] # None /\ op'[s].kind = op[s].kind
                /\ op[s].kind = "chunk" => op'[s].off = op[s].off /\ op'[s].len = op[s].len
  <2>1. CASE op[s] # None /\ op[s].who = "app"
    <3>1. op'[s] = [op[s] EXCEPT !.who = "stray"]  BY <2>1 DEF Abandon
    <3>2. op[s] \in Ops  BY <2>1 DEF ServerInv, SessionOf, Session
    <3> QED  BY <2>1, <3>1, <3>2 DEF Ops
  <2>2. CASE ~(op[s] # None /\ op[s].who = "app")  BY <2>2 DEF Abandon
  <2> QED  BY <2>1, <2>2
<1> QED  BY <1>1, Forwards

LEMMA ForwardDies ==
    ASSUME ServerInv, \A s \in Sids : Contiguous(s), Crash PROVE Forward
BY Forwards DEF Crash

LEMMA ForwardReap ==
    ASSUME ServerInv, \A s \in Sids : Contiguous(s), NEW r \in Sids, ReapStale(r) PROVE Forward
<1>1. sidecar = [s \in Sids |-> sidecar[s]]  BY DEF ServerInv, Shapes
<1>2. \A s \in Sids : sidecar'[s] = IF s = r THEN None ELSE sidecar[s]  BY <1>1 DEF ReapStale
<1>3. op' = op /\ used' = used /\ (op[r] # None => op[r].kind = "init")  BY DEF ReapStale
<1> QED  BY <1>2, <1>3, Forwards

(* A request that is served: the new operation is within its session.      *)
LEMMA ForwardServe ==
    ASSUME ServerInv, \A s \in Sids : Contiguous(s), NEW r, Addressed(r), NEW who \in Whos,
           Serve(r, who), r.kind # "init" => Within(r.sid, r.off)
    PROVE  Forward
<1>1. /\ UNCHANGED sidecar /\ used \subseteq used'
      /\ Refused(r, who) \/ \E s \in Sids : Taken(r, who, s)
  BY ServeOutcome
<1>2. CASE Refused(r, who)  BY <1>1, <1>2, Forwards DEF Refused
<1>3. ASSUME NEW t \in Sids, Taken(r, who, t) PROVE Forward
  <2> SUFFICES ASSUME NEW s \in Sids PROVE Onward(s) /\ Contiguous(s)'  BY DEF Forward
  <2>1. sidecar[s] # None => sidecar[s].received \in Nat
    BY DEF ServerInv, SessionOf, Session, Sidecars
  <2>2. CASE s # t
    <3>1. op'[s] = op[s]  BY <1>3, <2>2 DEF Taken
    <3> QED  BY <1>1, <2>1, <3>1 DEF Onward, Begun, Contiguous
  <2>3. CASE s = t
    <3>1. Onward(s)  BY <1>1, <1>3, <2>1, <2>3 DEF Onward, Begun, Taken
    <3>2. r.kind = "chunk" => op'[s].len = 1 /\ op'[s].off <= sidecar[s].received
      <4>1. r.kind = "chunk" => r.sid = s /\ r.sid # None  BY <1>3, <2>3, UploadAssumptions DEF Taken
      <4> QED  BY <1>3, <2>3, <4>1 DEF Taken, Within
    <3>3. Contiguous(s)'  BY <1>1, <1>3, <2>3, <3>2 DEF Contiguous, Taken
    <3> QED  BY <3>1, <3>3
  <2> QED  BY <2>2, <2>3
<1> QED  BY <1>1, <1>2, <1>3

(* The end of a chunk: the sidecar reaches at least to its end.            *)
LEMMA ForwardChunk ==
    ASSUME ServerInv, ServerInv', \A s \in Sids : Contiguous(s), NEW t \in Sids, WriteChunkSaves(t)
    PROVE  /\ Forward
           /\ sidecar'[t] # None => op[t].off + 1 <= sidecar'[t].received
<1> DEFINE rs == addRange(sidecar[t].ranges, op[t].off, op[t].len)
           d == [ranges |-> rs, received |-> sumRanges(rs), updated |-> now]
<1>1. Shapes /\ now \in Nat /\ SessionOf(t) /\ op[t] # None /\ op[t].kind = "chunk" /\ Contiguous(t)
  BY DEF ServerInv, WriteChunkSaves
<1>2. /\ sidecar' = [sidecar EXCEPT ![t] = d] /\ op' = [op EXCEPT ![t] = None] /\ used' = used
  BY DEF WriteChunkSaves, Received
<1>3. /\ Session(d, staged[t], made[t], None, now, t \in used)
      /\ Covered(rs) = Covered(sidecar[t].ranges) \cup op[t].off..(op[t].off + op[t].len - 1)
  BY <1>1, ChunkEnds DEF SessionOf
<1>4. sidecar[t] \in Sidecars /\ sidecar[t] # None /\ op[t] \in Ops /\ t \in used
  BY <1>1 DEF SessionOf, Session
<1>5. sidecar[t].received \in Nat /\ op[t].off \in Nat /\ op[t].len = 1 /\ op[t].off <= sidecar[t].received
  BY <1>1, <1>4 DEF Sidecars, Ops, Contiguous
<1>6. d.ranges = rs  OBVIOUS
<1> HIDE DEF rs
<1>7. sidecar'[t] = d /\ op'[t] = None /\ \A s \in Sids \ {t} : sidecar'[s] = sidecar[s] /\ op'[s] = op[s]
  BY <1>1, <1>2 DEF Shapes
<1> HIDE DEF d
<1>8. \E n \in Nat : n >= sidecar[t].received /\ n >= op[t].off + 1 /\ Covered(rs) = 0..(n - 1)
  <2>1. Covered(sidecar[t].ranges) = 0..(sidecar[t].received - 1)  BY <1>1, <1>4 DEF Contiguous
  <2>2. Covered(rs) = 0..(sidecar[t].received - 1) \cup {op[t].off}
    <3>1. op[t].off..(op[t].off + op[t].len - 1) = {op[t].off}  BY <1>5
    <3> QED  BY <1>3, <2>1, <3>1
  <2>3. CASE op[t].off < sidecar[t].received
    <3>1. Covered(rs) = 0..(sidecar[t].received - 1)  BY <1>5, <2>2, <2>3
    <3> QED  BY <1>5, <2>3, <3>1
  <2>4. CASE op[t].off = sidecar[t].received
    <3>1. Covered(rs) = 0..((sidecar[t].received + 1) - 1)  BY <1>5, <2>2, <2>4
    <3>2. sidecar[t].received + 1 \in Nat  BY <1>5
    <3> QED  BY <1>5, <2>4, <3>1, <3>2
  <2> QED  BY <1>5, <2>3, <2>4
<1>9. d # None => d.received = Cardinality(Covered(rs)) /\ d.received \in Nat
  BY <1>3, <1>6 DEF Session, Counted, Sidecars
<1>10. \A n \in Nat : Cardinality(0..(n - 1)) = n
  <2> SUFFICES ASSUME NEW n \in Nat PROVE Cardinality(0..(n - 1)) = n  OBVIOUS
  <2>1. 0 \in Int /\ n - 1 \in Int /\ (IF 0 > n - 1 THEN 0 ELSE n - 1 - 0 + 1) = n  OBVIOUS
  <2> QED  BY <2>1, FS_Interval
<1>11. d # None => /\ Covered(d.ranges) = 0..(d.received - 1) /\ d.received >= sidecar[t].received
                   /\ d.received >= op[t].off + 1
  BY <1>6, <1>8, <1>9, <1>10
<1>12. Forward
  <2> SUFFICES ASSUME NEW s \in Sids PROVE Onward(s) /\ Contiguous(s)'  BY DEF Forward
  <2>1. CASE s = t
    BY <1>2, <1>4, <1>5, <1>7, <1>9, <1>11, <2>1 DEF Onward, Begun, Contiguous
  <2>2. CASE s # t
    <3>1. sidecar[s] # None => sidecar[s].received \in Nat
      BY DEF ServerInv, SessionOf, Session, Sidecars
    <3> QED  BY <1>2, <1>7, <2>2, <3>1 DEF Onward, Begun, Contiguous
  <2> QED  BY <2>1, <2>2
<1> QED  BY <1>5, <1>7, <1>9, <1>11, <1>12

(* The end of an initiation: the session has begun.                        *)
LEMMA ForwardInit ==
    ASSUME ServerInv, ServerInv', \A s \in Sids : Contiguous(s), NEW t \in Sids, InitUploadSaves(t)
    PROVE  Forward /\ After(t, 0)
<1> DEFINE d == [ranges |-> <<>>, received |-> 0, updated |-> now]
<1>1. Shapes /\ SessionOf(t) /\ op[t] # None /\ op[t].kind = "init"  BY DEF ServerInv, InitUploadSaves
<1>2. op' = [op EXCEPT ![t] = None] /\ used' = used
      /\ (sidecar' = sidecar \/ sidecar' = [sidecar EXCEPT ![t] = d])
  BY DEF InitUploadSaves
<1>3. sidecar[t] = None /\ t \in used  BY <1>1 DEF SessionOf, Session
<1>4. op'[t] = None /\ \A s \in Sids \ {t} : sidecar'[s] = sidecar[s] /\ op'[s] = op[s]
  BY <1>1, <1>2 DEF Shapes
<1>5. sidecar'[t] = None \/ sidecar'[t] = d  BY <1>1, <1>2, <1>3 DEF Shapes
<1>6. Covered(d.ranges) = 0..(d.received - 1) /\ d.received = 0
  <2>1. Covered(<<>>) = {}  BY DEF Covered, ToSet
  <2>2. 0..(0 - 1) = {}  OBVIOUS
  <2> QED  BY <2>1, <2>2
<1> HIDE DEF d
<1>7. After(t, 0)  BY <1>2, <1>3, <1>4, <1>5, <1>6 DEF After
<1>8. Forward
  <2> SUFFICES ASSUME NEW s \in Sids PROVE Onward(s) /\ Contiguous(s)'  BY DEF Forward
  <2>1. CASE s = t  BY <1>1, <1>4, <1>5, <1>6, <2>1 DEF Onward, Begun, Contiguous
  <2>2. CASE s # t
    <3>1. sidecar[s] # None => sidecar[s].received \in Nat
      BY DEF ServerInv, SessionOf, Session, Sidecars
    <3> QED  BY <1>2, <1>4, <2>2, <3>1 DEF Onward, Begun, Contiguous
  <2> QED  BY <2>1, <2>2
<1> QED  BY <1>7, <1>8

LEMMA ForwardRemoves ==
    ASSUME ServerInv, \A s \in Sids : Contiguous(s), NEW t \in Sids, CompleteUploadRemoves(t) PROVE Forward
<1>1. Shapes /\ used' = used  BY DEF ServerInv, CompleteUploadRemoves
<1>2. op'[t] = None /\ sidecar'[t] = None /\ \A s \in Sids \ {t} : sidecar'[s] = sidecar[s] /\ op'[s] = op[s]
  BY <1>1 DEF CompleteUploadRemoves, Shapes
<1> QED  BY <1>1, <1>2, Forwards

(* What the app remembers stays within its session whatever the server does. *)
LEMMA RefsAfter ==
    ASSUME ServerInv, ServerInv', AppInv, ResumeInv, Forward
    PROVE  /\ After(store.sid, store.off) /\ After(disk.sid, disk.off) /\ After(app.sid, app.off)
           /\ req # None /\ req.kind # "init" => After(req.sid, req.off)
           /\ stray # None /\ stray.kind # "init" => After(stray.sid, stray.off)
<1>1. /\ store.sid \in Sids \cup {None} /\ store.off \in Int /\ disk.sid \in Sids \cup {None}
      /\ disk.off \in Int /\ app.sid \in Sids \cup {None} /\ app.off \in Int
  BY DEF AppInv, PhoneTypes, Marks
<1>2. After(store.sid, store.off) /\ After(disk.sid, disk.off) /\ After(app.sid, app.off)
  BY <1>1, WithinStays DEF ResumeInv, References
<1>3. ASSUME req # None, req.kind # "init" PROVE After(req.sid, req.off)
  <2>1. req.sid \in Sids \cup {None} /\ req.off \in Int
    BY <1>3 DEF AppInv, Pending, Addressed, Reqs
  <2> QED  BY <1>3, <2>1, WithinStays DEF ResumeInv, References
<1>4. ASSUME stray # None, stray.kind # "init" PROVE After(stray.sid, stray.off)
  <2>1. stray.sid \in Sids \cup {None} /\ stray.off \in Int
    BY <1>4 DEF AppInv, PhoneTypes, Addressed, Reqs
  <2> QED  BY <1>4, <2>1, WithinStays DEF ResumeInv, References
<1> QED  BY <1>2, <1>3, <1>4

LEMMA RepliesAfter ==
    ASSUME ServerInv, ServerInv', AppInv, ResumeInv, Forward, answer # None
    PROVE  /\ req.kind = "init" /\ answer.code = 200 => After(answer.n, 0)
           /\ req.kind = "chunk" /\ answer.code = 200 => After(req.sid, req.off + 1)
           /\ answer.code = 409 => After(req.sid, 0)
           /\ answer.code = 409 /\ answer.n # Unread => After(req.sid, answer.n)
<1>1. /\ req.sid \in Sids \cup {None} /\ req.off + 1 \in Int /\ 0 \in Int
      /\ req.kind = "init" /\ answer.code = 200 => answer.n \in Sids \cup {None}
      /\ answer.code = 409 /\ answer.n # Unread => answer.n \in Int
  BY DEF AppInv, Answered, Pending, Addressed, Reqs
<1>2. /\ req.kind = "init" /\ answer.code = 200 => Within(answer.n, 0)
      /\ req.kind = "chunk" /\ answer.code = 200 => Within(req.sid, req.off + 1)
      /\ answer.code = 409 => Within(req.sid, 0)
      /\ answer.code = 409 /\ answer.n # Unread => Within(req.sid, answer.n)
  BY DEF ResumeInv, Replies
<1> QED  BY <1>1, <1>2, WithinStays

LEMMA ResumeHolds ==
    ASSUME Forward,
           After(store'.sid, store'.off), After(disk'.sid, disk'.off), After(app'.sid, app'.off),
           app'.sid # None => store'.sid \in {None, app'.sid},
           req' # None /\ req'.kind # "init" => After(req'.sid, req'.off),
           stray' # None /\ stray'.kind # "init" => After(stray'.sid, stray'.off),
           answer' # None =>
               /\ req'.kind = "init" /\ answer'.code = 200 => After(answer'.n, 0)
               /\ req'.kind = "chunk" /\ answer'.code = 200 => After(req'.sid, req'.off + 1)
               /\ answer'.code = 409 => After(req'.sid, 0)
               /\ answer'.code = 409 /\ answer'.n # Unread => After(req'.sid, answer'.n)
    PROVE  ResumeInv'
<1>1. References'  BY DEF References, Within, Begun, After
<1>2. Replies'  BY DEF Replies, Within, Begun, After, Unread
<1> QED  BY <1>1, <1>2 DEF ResumeInv, Forward

(* ResumeInv, step by step: first the phone's steps.                       *)
Ready == ServerInv /\ ServerInv' /\ AppInv /\ ResumeInv

LEMMA NoneAfter == ASSUME NEW off PROVE After(None, off)
BY DEF After

LEMMA ResumeQuiet ==
    ASSUME Ready, Still, answer' = answer,
           (\E f \in Sources : StartUpload(f)) \/ Flush \/ SweepFinds \/ SweepClears
    PROVE  ResumeInv'
<1>1. Forward  BY ForwardStill DEF Ready, Still, ResumeInv
<1>2. UNCHANGED <<app, req, stray>>  BY DEF StartUpload, Flush, SweepFinds, SweepClears
<1>3. (store' = store \/ store' = NoStore) /\ (disk' = disk \/ disk' = store)
  BY DEF StartUpload, Flush, SweepFinds, SweepClears
<1>4. /\ After(store.sid, store.off) /\ After(disk.sid, disk.off) /\ After(app.sid, app.off)
      /\ req # None /\ req.kind # "init" => After(req.sid, req.off)
      /\ stray # None /\ stray.kind # "init" => After(stray.sid, stray.off)
  BY <1>1, RefsAfter DEF Ready
<1>5. answer # None =>
               /\ req.kind = "init" /\ answer.code = 200 => After(answer.n, 0)
               /\ req.kind = "chunk" /\ answer.code = 200 => After(req.sid, req.off + 1)
               /\ answer.code = 409 => After(req.sid, 0)
               /\ answer.code = 409 /\ answer.n # Unread => After(req.sid, answer.n)
  BY <1>1, RepliesAfter DEF Ready
<1>6. NoStore.sid = None /\ After(NoStore.sid, NoStore.off)  BY NoneAfter DEF NoStore
<1>7. app.sid # None => store'.sid \in {None, app.sid}
  BY <1>3, <1>6 DEF Ready, ResumeInv, References
<1> QED  BY <1>1, <1>2, <1>3, <1>4, <1>5, <1>6, <1>7, ResumeHolds

(* The worker is not waiting: there is no answer.                          *)
LEMMA ResumeFresh ==
    ASSUME Ready, Still, WorkBegins \/ Send \/ SourceEndsEarly \/ WorkSucceeds \/ SourceLost
    PROVE  ResumeInv'
<1>1. Forward  BY ForwardStill DEF Ready, Still, ResumeInv
<1>2. /\ After(store.sid, store.off) /\ After(disk.sid, disk.off) /\ After(app.sid, app.off)
      /\ stray # None /\ stray.kind # "init" => After(stray.sid, stray.off)
  BY <1>1, RefsAfter DEF Ready
<1>3. UNCHANGED <<store, disk, stray, answer>>
  BY DEF WorkBegins, Send, SourceEndsEarly, WorkSucceeds, SourceLost, serverVars, server
<1>4. app.at # "wait"
  BY DEF Ready, AppInv, PhoneTypes, WorkBegins, Send, SourceEndsEarly, WorkSucceeds, SourceLost
<1>5. req = None /\ answer = None  BY <1>4, NotWaiting DEF Ready, Free
<1>6. app \in [at : {"idle", "send", "wait", "done"}, sid : Sids \cup {None}, off : Nat]
  BY DEF Ready, AppInv, PhoneTypes
<1>7. After(app.sid, 0)  BY <1>2, <1>6, FromZero DEF Ready
<1>8. CASE WorkBegins
  <2>1. CASE store.sid # None
    <3>1. app' = [at |-> "send", sid |-> store.sid, off |-> store.off] /\ req' = req
      BY <1>8, <2>1 DEF WorkBegins
    <3>2. app'.sid = store.sid /\ app'.off = store.off  BY <3>1
    <3> QED  BY <1>1, <1>2, <1>3, <1>5, <3>1, <3>2, ResumeHolds
  <2>2. CASE store.sid = None
    <3>1. app'.sid = None /\ req'.kind = "init"  BY <1>8, <2>2 DEF WorkBegins, Idle, Request
    <3>2. After(app'.sid, app'.off)  BY <3>1, NoneAfter
    <3> QED  BY <1>1, <1>2, <1>3, <1>5, <3>1, <3>2, ResumeHolds
  <2> QED  BY <2>1, <2>2
<1>9. CASE Send \/ SourceEndsEarly
  <2>1. app'.sid = app.sid /\ app'.off = app.off  BY <1>6, <1>9 DEF Send, SourceEndsEarly
  <2>2. req'.sid = app.sid /\ req'.off \in {0, app.off}  BY <1>9 DEF Send, SourceEndsEarly, Request
  <2>3. After(req'.sid, req'.off)  BY <1>2, <1>7, <2>2
  <2>4. app.sid # None => store.sid \in {None, app.sid}  BY DEF Ready, ResumeInv, References
  <2> QED  BY <1>1, <1>2, <1>3, <1>5, <2>1, <2>3, <2>4, ResumeHolds
<1>10. CASE WorkSucceeds \/ SourceLost
  <2>1. app'.sid = None /\ req' = req  BY <1>10 DEF WorkSucceeds, SourceLost, Idle
  <2>2. After(app'.sid, app'.off)  BY <2>1, NoneAfter
  <2> QED  BY <1>1, <1>2, <1>3, <1>5, <2>1, <2>2, ResumeHolds
<1> QED  BY <1>8, <1>9, <1>10

LEMMA ResumeAbandon ==
    ASSUME Ready, ServerGone \/ GiveUp \/ Cancel \/ PhoneDies PROVE ResumeInv'
<1>1. Abandon /\ app' = Idle /\ req' = None /\ answer' = None /\ UNCHANGED <<disk, sidecar, used>>
  BY DEF ServerGone, GiveUp, RequestFails, Interrupted, Retry, Cancel, PhoneDies, Abandon
<1>2. Forward  BY <1>1, ForwardAbandon DEF Ready, ResumeInv
<1>3. /\ After(store.sid, store.off) /\ After(disk.sid, disk.off) /\ After(app.sid, app.off)
      /\ req # None /\ req.kind # "init" => After(req.sid, req.off)
      /\ stray # None /\ stray.kind # "init" => After(stray.sid, stray.off)
  BY <1>2, RefsAfter DEF Ready
<1>4. app'.sid = None /\ After(app'.sid, app'.off)
  <2>1. app'.sid = None  BY <1>1 DEF Idle
  <2> QED  BY <2>1, NoneAfter
<1>5. stray' # None /\ stray'.kind # "init" => After(stray'.sid, stray'.off)
  BY <1>1, <1>3 DEF Abandon
<1>6. After(store'.sid, store'.off)
  <2>1. CASE store' = store \/ store' = disk  BY <1>3, <2>1
  <2>2. CASE req # None /\ req.kind # "init" /\ store' = [store EXCEPT !.off = app.off]
    <3>1. store \in Marks  BY DEF Ready, AppInv, PhoneTypes
    <3>2. store'.sid = store.sid /\ store'.off = app.off  BY <2>2, <3>1 DEF Marks
    <3>3. app.sid # None
      BY <2>2, UploadAssumptions DEF Ready, AppInv, Pending, Addressed
    <3>4. store.sid \in {None, app.sid}  BY <3>3 DEF Ready, ResumeInv, References
    <3> QED  BY <1>3, <3>2, <3>4, NoneAfter
  <2> QED  BY <2>1, <2>2
           DEF ServerGone, GiveUp, RequestFails, Interrupted, saveProgress, Cancel, PhoneDies
<1> QED  BY <1>1, <1>2, <1>3, <1>4, <1>5, <1>6, ResumeHolds

LEMMA ResumeReceive == ASSUME Ready, Still, Receive PROVE ResumeInv'
<1>1. Forward  BY ForwardStill DEF Ready, Still, ResumeInv
<1>2. /\ After(store.sid, store.off) /\ After(disk.sid, disk.off) /\ After(app.sid, app.off)
      /\ stray # None /\ stray.kind # "init" => After(stray.sid, stray.off)
  BY <1>1, RefsAfter DEF Ready
<1>3. req' = None /\ answer' = None /\ UNCHANGED <<disk, stray>> /\ answer # None  BY DEF Receive
<1>4. /\ req.kind = "init" /\ answer.code = 200 => After(answer.n, 0)
      /\ req.kind = "chunk" /\ answer.code = 200 => After(req.sid, req.off + 1)
      /\ answer.code = 409 /\ answer.n # Unread => After(req.sid, answer.n)
  BY <1>1, <1>3, RepliesAfter DEF Ready
<1>5. Pending /\ store \in Marks
      /\ app \in [at : {"idle", "send", "wait", "done"}, sid : Sids \cup {None}, off : Nat]
  BY <1>3 DEF Ready, AppInv, Answered, PhoneTypes
<1>6. app.sid # None => store.sid \in {None, app.sid}  BY DEF Ready, ResumeInv, References
<1>7. req.kind # "init" => app.sid = req.sid /\ app.sid # None
  BY <1>5, UploadAssumptions DEF Pending, Addressed
<1>8. ASSUME app' = Idle, After(store'.sid, store'.off) PROVE ResumeInv'
  <2>1. app'.sid = None  BY <1>8 DEF Idle
  <2>2. After(app'.sid, app'.off)  BY <2>1, NoneAfter
  <2> QED  BY <1>1, <1>2, <1>3, <1>8, <2>1, <2>2, ResumeHolds
<1>9. ASSUME NEW n, req.kind # "init", saveProgress(n), After(app.sid, n)
      PROVE  After(store'.sid, store'.off) /\ store'.sid = store.sid
  <2>1. store'.sid = store.sid /\ store'.off = n  BY <1>5, <1>9 DEF saveProgress, Marks
  <2> QED  BY <1>6, <1>7, <1>9, <2>1, NoneAfter
<1>10. CASE /\ req.kind = "init" /\ answer.code = 200 /\ saveSession(answer.n)
            /\ app' = [at |-> "send", sid |-> answer.n, off |-> 0]
  <2>1. /\ store'.sid = answer.n /\ store'.off = 0 /\ app'.sid = answer.n /\ app'.off = 0
    BY <1>10 DEF saveSession
  <2> QED  BY <1>1, <1>2, <1>3, <1>4, <1>10, <2>1, ResumeHolds
<1>11. CASE Retry /\ store' = store  BY <1>2, <1>8, <1>11 DEF Retry
<1>12. CASE /\ req.kind = "chunk" /\ answer.code = 200
            /\ app' = [app EXCEPT !.at = "send", !.off = Accepted] /\ saveProgress(Accepted)
  <2>1. app'.sid = app.sid /\ app'.off = app.off + 1  BY <1>5, <1>12 DEF Accepted
  <2>2. After(app.sid, app.off + 1)  BY <1>4, <1>5, <1>12 DEF Pending
  <2>3. After(store'.sid, store'.off) /\ store'.sid = store.sid  BY <1>9, <1>12, <2>2 DEF Accepted
  <2> QED  BY <1>1, <1>2, <1>3, <1>6, <2>1, <2>2, <2>3, ResumeHolds
<1>13. CASE app' = [app EXCEPT !.at = "done"] /\ store' = NoStore
  <2>1. app'.sid = app.sid /\ app'.off = app.off /\ store'.sid = None  BY <1>5, <1>13 DEF NoStore
  <2>2. After(store'.sid, store'.off)  BY <2>1, NoneAfter
  <2> QED  BY <1>1, <1>2, <1>3, <2>1, <2>2, ResumeHolds
<1>14. CASE req.kind = "complete" /\ answer.code = 409 /\ Interrupted(answer.n)
  <2>1. After(app.sid, answer.n)  BY <1>4, <1>7, <1>14 DEF Receive
  <2> QED  BY <1>8, <1>9, <1>14, <2>1 DEF Interrupted, Retry
<1>15. CASE req.kind # "init" /\ Interrupted(app.off)
  BY <1>2, <1>8, <1>9, <1>15 DEF Interrupted, Retry
<1>16. CASE app' = Idle /\ store' = store  BY <1>2, <1>8, <1>16
<1> QED  BY <1>10, <1>11, <1>12, <1>13, <1>14, <1>15, <1>16 DEF Receive

(* And the server's.                                                       *)
LEMMA ResumeServer ==
    ASSUME Ready, Forward, UNCHANGED <<store, disk, app>>, req' = req, answer' = answer,
           stray' \in {stray, None}
    PROVE  ResumeInv'
<1>1. /\ After(store.sid, store.off) /\ After(disk.sid, disk.off) /\ After(app.sid, app.off)
      /\ req # None /\ req.kind # "init" => After(req.sid, req.off)
      /\ stray # None /\ stray.kind # "init" => After(stray.sid, stray.off)
  BY RefsAfter DEF Ready
<1>2. answer # None =>
               /\ req.kind = "init" /\ answer.code = 200 => After(answer.n, 0)
               /\ req.kind = "chunk" /\ answer.code = 200 => After(req.sid, req.off + 1)
               /\ answer.code = 409 => After(req.sid, 0)
               /\ answer.code = 409 /\ answer.n # Unread => After(req.sid, answer.n)
  BY RepliesAfter DEF Ready
<1>3. app.sid # None => store.sid \in {None, app.sid}  BY DEF Ready, ResumeInv, References
<1> QED  BY <1>1, <1>2, <1>3, ResumeHolds

LEMMA ResumeServeStatus == ASSUME Ready, ServeStatus PROVE ResumeInv'
<1>1. /\ answer # None /\ answer.code = 409 /\ UNCHANGED <<sidecar, op, used>> /\ UNCHANGED phone
      /\ answer' = [code |-> 409, n |-> IF sidecar[req.sid] = None THEN 0 ELSE sidecar[req.sid].received]
  BY DEF ServeStatus, SessionStatus, Answer
<1>2. Forward  BY <1>1, ForwardStill DEF Ready, ResumeInv
<1>3. /\ After(store.sid, store.off) /\ After(disk.sid, disk.off) /\ After(app.sid, app.off)
      /\ req # None /\ req.kind # "init" => After(req.sid, req.off)
      /\ stray # None /\ stray.kind # "init" => After(stray.sid, stray.off)
  BY <1>2, RefsAfter DEF Ready
<1>4. After(req.sid, 0)  BY <1>1, <1>2, RepliesAfter DEF Ready
<1>5. req.kind = "complete" /\ req.sid \in Sids
  BY <1>1 DEF Ready, AppInv, Answered, Pending, Addressed
<1>6. sidecar[req.sid] # None => sidecar[req.sid].received \in Nat
  BY <1>5 DEF Ready, ServerInv, SessionOf, Session, Sidecars
<1>7. answer'.code = 409 /\ After(req.sid, answer'.n)
  BY <1>1, <1>4, <1>6 DEF After
<1>8. app.sid # None => store.sid \in {None, app.sid}  BY DEF Ready, ResumeInv, References
<1> QED  BY <1>1, <1>2, <1>3, <1>4, <1>5, <1>7, <1>8, ResumeHolds DEF phone

LEMMA ResumeServes ==
    ASSUME Ready, Forward, req # None, req.st = "sent", req' = [req EXCEPT !.st = "served"],
           UNCHANGED <<app, stray, store, disk>>,
           Refused(req, "app") \/ (\E s \in Sids : Taken(req, "app", s))
    PROVE  ResumeInv'
<1>1. /\ After(store.sid, store.off) /\ After(disk.sid, disk.off) /\ After(app.sid, app.off)
      /\ req # None /\ req.kind # "init" => After(req.sid, req.off)
      /\ stray # None /\ stray.kind # "init" => After(stray.sid, stray.off)
  BY RefsAfter DEF Ready
<1>2. Addressed(req)  BY DEF Ready, AppInv, Pending
<1>3. req'.kind = req.kind /\ req'.sid = req.sid /\ req'.off = req.off  BY <1>2 DEF Addressed, Reqs
<1>4. app.sid # None => store.sid \in {None, app.sid}  BY DEF Ready, ResumeInv, References
<1>5. answer = None  BY DEF Ready, AppInv, Answered
<1>6. answer' = None \/ answer'.code \in {400, 404, 507}
        \/ (req.kind = "complete" /\ answer'.code = 409 /\ answer'.n = Unread)
  BY <1>5 DEF Refused, Taken
<1>7. req.kind = "complete" => After(req.sid, 0)
  <2>1. req.sid \in Sids \cup {None} /\ req.off \in Int  BY <1>2 DEF Addressed, Reqs
  <2> QED  BY <1>1, <2>1, FromZero DEF Ready
<1> QED  BY <1>1, <1>3, <1>4, <1>6, <1>7, ResumeHolds

LEMMA ResumeServerDies == ASSUME Ready, ServerDies PROVE ResumeInv'
<1>1. /\ Crash /\ answer' = None /\ stray' = None /\ UNCHANGED <<app, store, disk>>
      /\ req' = IF req # None THEN [req EXCEPT !.st = "lost"] ELSE None
  BY DEF ServerDies, Fault, Crash
<1>2. Forward  BY <1>1, ForwardDies DEF Ready, ResumeInv
<1>3. /\ After(store.sid, store.off) /\ After(disk.sid, disk.off) /\ After(app.sid, app.off)
      /\ req # None /\ req.kind # "init" => After(req.sid, req.off)
  BY <1>2, RefsAfter DEF Ready
<1>4. app.sid # None => store.sid \in {None, app.sid}  BY DEF Ready, ResumeInv, References
<1>5. req' # None /\ req'.kind # "init" => After(req'.sid, req'.off)
  <2>1. CASE req = None  BY <1>1, <2>1
  <2>2. CASE req # None
    <3>1. req \in Reqs  BY <2>2 DEF Ready, AppInv, Pending, Addressed
    <3>2. req'.kind = req.kind /\ req'.sid = req.sid /\ req'.off = req.off
      BY <1>1, <2>2, <3>1 DEF Reqs
    <3> QED  BY <1>3, <2>2, <3>2
  <2> QED  BY <2>1, <2>2
<1> QED  BY <1>1, <1>2, <1>3, <1>4, <1>5, ResumeHolds

LEMMA ResumeSaves == ASSUME Ready, NEW s \in Sids, Saves(s), UNCHANGED phone PROVE ResumeInv'
<1>1. Ended(s)  BY SavesOutcome DEF Ready
<1>2. /\ Forward
      /\ op[s].kind = "init" => After(s, 0)
      /\ op[s].kind = "chunk" => After(s, op[s].off + 1)
  <2>1. CASE InitUploadSaves(s)
    <3>1. Forward /\ After(s, 0)  BY <2>1, ForwardInit DEF Ready, ResumeInv
    <3> QED  BY <2>1, <3>1 DEF InitUploadSaves
  <2>2. CASE WriteChunkSaves(s)
    <3>1. Forward /\ (sidecar'[s] # None => op[s].off + 1 <= sidecar'[s].received)
      BY <2>2, ForwardChunk DEF Ready, ResumeInv
    <3>2. op[s].kind = "chunk" /\ op'[s] = None /\ used' = used
      BY <1>1, <2>2 DEF WriteChunkSaves, Ended
    <3>3. s \in used  BY <1>1 DEF Ended, Ready, ServerInv, SessionOf, Session
    <3> QED  BY <3>1, <3>2, <3>3 DEF After
  <2>3. CASE CompleteUploadRemoves(s)
    <3>1. Forward  BY <2>3, ForwardRemoves DEF Ready, ResumeInv
    <3> QED  BY <2>3, <3>1 DEF CompleteUploadRemoves
  <2> QED  BY <2>1, <2>2, <2>3 DEF Saves
<1>3. CASE op[s].who # "app"
  BY <1>1, <1>2, <1>3, ResumeServer DEF Ended, phone
<1>4. CASE op[s].who = "app"
  <2>1. ServedBy(s)  BY <1>1, <1>4 DEF Ended, Ready, AppInv, Serving, OfApp
  <2>2. /\ After(store.sid, store.off) /\ After(disk.sid, disk.off) /\ After(app.sid, app.off)
        /\ req # None /\ req.kind # "init" => After(req.sid, req.off)
        /\ stray # None /\ stray.kind # "init" => After(stray.sid, stray.off)
    BY <1>2, RefsAfter DEF Ready
  <2>3. app.sid # None => store.sid \in {None, app.sid}  BY DEF Ready, ResumeInv, References
  <2>4. answer'.code \in {200, 404} /\ (op[s].kind = "init" /\ answer'.code = 200 => answer'.n = s)
    BY <1>1, <1>4 DEF Ended
  <2>5. /\ req.kind = op[s].kind /\ (req.kind # "init" => s = req.sid)
        /\ req.kind = "chunk" => op[s].off = req.off
    BY <2>1 DEF ServedBy
  <2>6. /\ req.kind = "init" /\ answer'.code = 200 => After(answer'.n, 0)
        /\ req.kind = "chunk" => After(req.sid, req.off + 1)
    BY <1>2, <2>4, <2>5
  <2>7. UNCHANGED <<store, disk, app, req, stray>>  BY DEF phone
  <2> QED  BY <1>2, <2>2, <2>3, <2>4, <2>6, <2>7, ResumeHolds
<1> QED  BY <1>3, <1>4

LEMMA ResumeStep ==
    ASSUME UploadInv, ResumeInv, [UploadNext]_uploadVars PROVE ResumeInv'
<1>1. Ready  BY UploadStep DEF UploadInv, Ready
<1>2. CASE UNCHANGED uploadVars
  <2>1. UNCHANGED <<sidecar, op, used, store, disk, app, req, answer, stray>>
    BY <1>2 DEF uploadVars, serverVars, server, phone
  <2>2. Forward  BY <1>1, <2>1, ForwardStill DEF Ready, ResumeInv
  <2> QED  BY <1>1, <2>1, <2>2, ResumeServer
<1>3. CASE (\E f \in Sources : StartUpload(f)) \/ Flush \/ SweepFinds \/ SweepClears
  <2>1. Still /\ answer' = answer
    BY <1>3 DEF StartUpload, Flush, SweepFinds, SweepClears, Still, serverVars, server
  <2> QED  BY <1>1, <1>3, <2>1, ResumeQuiet
<1>4. CASE WorkBegins \/ Send \/ SourceEndsEarly \/ WorkSucceeds \/ SourceLost
  <2>1. Still
    BY <1>4 DEF WorkBegins, Send, SourceEndsEarly, WorkSucceeds, SourceLost, Still, serverVars, server
  <2> QED  BY <1>1, <1>4, <2>1, ResumeFresh
<1>5. CASE Receive
  <2>1. Still  BY <1>5 DEF Receive, Still
  <2> QED  BY <1>1, <1>5, <2>1, ResumeReceive
<1>6. CASE ServerGone \/ GiveUp \/ Cancel \/ PhoneDies  BY <1>1, <1>6, ResumeAbandon
<1>7. CASE ServeRequest
  <2>1. /\ req # None /\ req.st = "sent" /\ req' = [req EXCEPT !.st = "served"]
        /\ UNCHANGED <<app, stray, store, disk>> /\ Serve(req, "app")
    BY <1>7 DEF ServeRequest
  <2>2. Addressed(req) /\ "app" \in Whos  BY <1>1, <2>1 DEF Ready, AppInv, Pending, Whos
  <2>3. Refused(req, "app") \/ (\E s \in Sids : Taken(req, "app", s))
    BY <1>1, <2>1, <2>2, ServeOutcome DEF Ready
  <2>4. req.kind # "init" => Within(req.sid, req.off)  BY <1>1, <2>1 DEF Ready, ResumeInv, References
  <2>5. Forward  BY <1>1, <2>1, <2>2, <2>4, ForwardServe DEF Ready, ResumeInv
  <2> QED  BY <1>1, <2>1, <2>3, <2>5, ResumeServes
<1>8. CASE ServeStray
  <2>1. /\ stray # None /\ stray' = None /\ UNCHANGED <<app, req, store, disk>> /\ Serve(stray, "stray")
    BY <1>8 DEF ServeStray
  <2>2. Addressed(stray) /\ "stray" \in Whos  BY <1>1, <2>1 DEF Ready, AppInv, PhoneTypes, Whos
  <2>3. answer' = answer
    <3>1. Refused(stray, "stray") \/ (\E s \in Sids : Taken(stray, "stray", s))
      BY <1>1, <2>1, <2>2, ServeOutcome DEF Ready
    <3> QED  BY <3>1 DEF Refused, Taken
  <2>4. stray.kind # "init" => Within(stray.sid, stray.off)
    BY <1>1, <2>1 DEF Ready, ResumeInv, References
  <2>5. Forward  BY <1>1, <2>1, <2>2, <2>4, ForwardServe DEF Ready, ResumeInv
  <2> QED  BY <1>1, <2>1, <2>3, <2>5, ResumeServer
<1>9. CASE ServeFails
  <2>1. /\ req # None /\ req.st = "sent" /\ req' = [req EXCEPT !.st = "served"]
        /\ UNCHANGED <<app, stray, store, disk, sidecar, op, used>>
        /\ answer' = [code |-> 507, n |-> 0]
    BY <1>9 DEF ServeFails, Fault, WriteChunkFails, Answer
  <2>2. Refused(req, "app")  BY <2>1 DEF Refused
  <2>3. Forward  BY <1>1, <2>1, ForwardStill DEF Ready, ResumeInv
  <2> QED  BY <1>1, <2>1, <2>2, <2>3, ResumeServes
<1>10. CASE ServeStatus  BY <1>1, <1>10, ResumeServeStatus
<1>11. CASE \E s \in Sids : Saves(s) /\ UNCHANGED phone  BY <1>1, <1>11, ResumeSaves
<1>12. CASE ServerDies  BY <1>1, <1>12, ResumeServerDies
<1>13. CASE ClockMoves /\ UNCHANGED phone
  <2>1. UNCHANGED <<sidecar, op, used, store, disk, app, req, answer, stray>>
    BY <1>13 DEF ClockMoves, server, phone
  <2>2. Forward  BY <1>1, <2>1, ForwardStill DEF Ready, ResumeInv
  <2> QED  BY <1>1, <2>1, <2>2, ResumeServer
<1>14. ASSUME NEW s \in Sids, Reap(s), UNCHANGED phone PROVE ResumeInv'
  <2>1. UNCHANGED <<store, disk, app, req, answer, stray>> /\ ReapStale(s)
    BY <1>14 DEF Reap, ReapStale, phone
  <2>2. Forward  BY <1>1, <2>1, ForwardReap DEF Ready, ResumeInv
  <2> QED  BY <1>1, <2>1, <2>2, ResumeServer
<1> QED  BY <1>2, <1>3, <1>4, <1>5, <1>6, <1>7, <1>8, <1>9, <1>10, <1>11, <1>12, <1>13, <1>14
         DEF UploadNext, ServerStep, WorkerStep

LEMMA ResumeStarts == ServerInit /\ PhoneInit => ResumeInv
<1> SUFFICES ASSUME ServerInit, PhoneInit PROVE ResumeInv  OBVIOUS
<1>1. \A s \in Sids : sidecar[s] = None /\ op[s] = None  BY DEF ServerInit
<1>2. \A s \in Sids : Contiguous(s)  BY <1>1 DEF Contiguous
<1>3. References  BY DEF References, Within, PhoneInit, NoStore, Idle
<1> QED  BY <1>2, <1>3 DEF ResumeInv, Replies, ServerInit

(* The offset the app resumes from, in memory and on the flash, is one the
   server has saved all bytes before, whatever is late, lost or repeated.  *)
THEOREM ResumeIsSafe == UploadSpec => []ResumePointIsSaved
<1> DEFINE Inv == UploadInv /\ ResumeInv
<1>1. ServerInit /\ PhoneInit => Inv  BY UploadStarts, ResumeStarts
<1>2. Inv /\ [UploadNext]_uploadVars => Inv'  BY UploadStep, ResumeStep
<1>3. Inv => ResumePointIsSaved
  <2> SUFFICES ASSUME Inv, NEW m \in {store, disk}, m.sid # None, sidecar[m.sid] # None
               PROVE  0..(m.off - 1) \subseteq Covered(sidecar[m.sid].ranges)
    BY DEF ResumePointIsSaved
  <2>1. m.sid \in Sids /\ m.off \in Nat  BY DEF UploadInv, AppInv, PhoneTypes, Marks
  <2>2. m.off <= sidecar[m.sid].received  BY DEF ResumeInv, References, Within
  <2>3. sidecar[m.sid].received \in Nat  BY <2>1 DEF UploadInv, ServerInv, SessionOf, Session, Sidecars
  <2>4. Covered(sidecar[m.sid].ranges) = 0..(sidecar[m.sid].received - 1)
    BY <2>1 DEF ResumeInv, Contiguous
  <2> QED  BY <2>1, <2>2, <2>3, <2>4
<1> QED  BY <1>1, <1>2, <1>3, PTL DEF UploadSpec

(* With the app as the caller too, retries and late requests included,
   received_bytes is the number of bytes the session really has.           *)
THEOREM ReceivedIsTrueForApp == UploadSpec => []ReceivedIsCoverage
<1>1. UploadInv /\ [UploadNext]_uploadVars => UploadInv'  BY UploadStep
<1>2. UploadInv => ReceivedIsCoverage  BY InvCounts DEF UploadInv
<1> QED  BY <1>1, <1>2, UploadStarts, PTL DEF UploadSpec

(* And the data of the app's session leaves the staging area only for the
   destination, or once nothing was saved for it during TTL.               *)
THEOREM StagedStaysForApp == UploadSpec => InFlightIsKept
<1>1. UploadInv /\ [UploadNext]_uploadVars => UploadInv'  BY UploadStep
<1>2. UploadInv /\ [UploadNext]_uploadVars
        => [\A s \in Sids : (staged[s] # None /\ staged'[s] = None) =>
              \/ dest' = staged[s] /\ sidecar[s].received = Size
              \/ /\ \/ sidecar[s] = None
                    \/ op[s] = None /\ now - sidecar[s].updated >= TTL
                 /\ now - made[s] >= TTL]_serverVars
  BY UploadStep DEF Leaves
<1> QED  BY <1>1, <1>2, UploadStarts, PTL DEF UploadSpec, InFlightIsKept
=============================================================================
