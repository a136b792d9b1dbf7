-------------------------- MODULE LoginThrottleProofs --------------------------
(***************************************************************************)
(* Proofs about LoginThrottle, for any emails, addresses and attempts, any *)
(* limits and window, and any size of the table.  What the limiter keeps   *)
(* of a key is compared with the reference: the deque may still hold       *)
(* failures that have expired, but they are its oldest, and what follows   *)
(* them is the window exactly.                                             *)
(***************************************************************************)
EXTENDS LoginThrottle, SequenceTheorems, FiniteSetTheorems, WellFoundedInduction, TLAPS

(* Any set of naturals that is not empty has a least element. *)
LEMMA Least ==
    ASSUME NEW T \in SUBSET Nat, T # {}
    PROVE  \E n \in T : \A m \in T : n <= m
<1>1. PICK n \in T : \A m \in T : <<m, n>> \notin OpToRel(<, Nat)
  BY NatLessThanWellFounded, WFMin
<1>2. \A m \in T : ~(m < n)
  BY <1>1 DEF OpToRel
<1> QED
  BY <1>2

(* A part of a sequence, which may be empty. *)
LEMMA Slice ==
    ASSUME NEW S, NEW s \in Seq(S), NEW m \in 1..Len(s) + 1, NEW n \in m - 1..Len(s)
    PROVE  /\ SubSeq(s, m, n) \in Seq(S) /\ Len(SubSeq(s, m, n)) = n - (m - 1)
           /\ \A i \in 1..n - (m - 1) : SubSeq(s, m, n)[i] = s[(m - 1) + i]
<1> DEFINE part == SubSeq(s, m, n)
<1>0. Len(s) \in Nat /\ m \in Int /\ n \in Int
  BY LenProperties
<1>1. \A i \in m..n : s[i] \in S
  BY <1>0, ElementOfSeq
<1>2. /\ part \in Seq(S) /\ Len(part) = IF m <= n THEN n - m + 1 ELSE 0
      /\ \A i \in 1..n - m + 1 : part[i] = s[m + i - 1]
  BY <1>0, <1>1, SubSeqProperties
<1> HIDE DEF part
<1>3. Len(part) = n - (m - 1)
  <2>1. CASE m <= n
    BY <1>0, <1>2, <2>1
  <2>2. CASE ~(m <= n)
    BY <1>0, <1>2, <2>2
  <2> QED
    BY <2>1, <2>2
<1>4. ASSUME NEW i \in 1..n - (m - 1)
      PROVE  part[i] = s[(m - 1) + i]
  <2>1. i \in 1..n - m + 1 /\ m + i - 1 = (m - 1) + i
    BY <1>0
  <2>2. part[i] = s[m + i - 1]
    BY <1>2, <2>1
  <2> QED
    BY <2>1, <2>2
<1> QED
  BY <1>2, <1>3, <1>4 DEF part

-----------------------------------------------------------------------------
(* The deque of a key *)

Times == 0..MaxTime

LEMMA FreshFacts ==
    ASSUME NEW times \in Seq(Times), NEW now \in Times
    PROVE  LET fresh == Fresh(times, now)
               c == Len(times) - Len(fresh)
           IN  /\ fresh \in Seq(Times) /\ c \in 0..Len(times)
               /\ \A i \in 1..Len(fresh) : fresh[i] = times[c + i]
               /\ \A i \in 1..c : ~Within(times[i], now)
               /\ Len(fresh) > 0 => Within(times[c + 1], now)
<1> DEFINE T == {n \in 1..Len(times) + 1 : n <= Len(times) => Within(times[n], now)}
           f == FirstFresh(times, now)
<1>0. Len(times) \in Nat /\ \A i \in 1..Len(times) : times[i] \in Times
  BY LenProperties, ElementOfSeq
<1>1. T \in SUBSET Nat /\ Len(times) + 1 \in T
  BY <1>0
<1>2. PICK n \in T : \A m \in T : n <= m
  BY <1>1, Least
<1>3. \A i \in 1..n - 1 : ~Within(times[i], now)
  BY <1>0, <1>2
<1>4. \E m \in 1..Len(times) + 1 :
         /\ \A i \in 1..m - 1 : ~Within(times[i], now)
         /\ m <= Len(times) => Within(times[m], now)
  BY <1>2, <1>3
<1>5. /\ f \in 1..Len(times) + 1
      /\ \A i \in 1..f - 1 : ~Within(times[i], now)
      /\ f <= Len(times) => Within(times[f], now)
  BY <1>4 DEF FirstFresh
<1> HIDE DEF f, T
<1>6. Fresh(times, now) = SubSeq(times, f, Len(times))
  BY DEF Fresh, f
<1>7. /\ SubSeq(times, f, Len(times)) \in Seq(Times)
      /\ Len(SubSeq(times, f, Len(times))) = IF f <= Len(times) THEN Len(times) - f + 1 ELSE 0
      /\ \A i \in 1..Len(times) - f + 1 : SubSeq(times, f, Len(times))[i] = times[f + i - 1]
  BY <1>0, <1>5, SubSeqProperties
<1> DEFINE fresh == Fresh(times, now)
<1>8. fresh \in Seq(Times) /\ Len(fresh) = Len(times) - f + 1
  BY <1>0, <1>5, <1>6, <1>7
<1>9. \A i \in 1..Len(fresh) : fresh[i] = times[f - 1 + i]
  BY <1>0, <1>5, <1>6, <1>7, <1>8
<1>10. Len(times) - Len(fresh) = f - 1 /\ f - 1 \in 0..Len(times)
  BY <1>0, <1>5, <1>8
<1>11. Len(fresh) > 0 => Within(times[(f - 1) + 1], now)
  BY <1>0, <1>5, <1>8
<1> HIDE DEF fresh
<1>12. /\ fresh \in Seq(Times) /\ Len(times) - Len(fresh) \in 0..Len(times)
       /\ \A i \in 1..Len(fresh) : fresh[i] = times[Len(times) - Len(fresh) + i]
       /\ \A i \in 1..Len(times) - Len(fresh) : ~Within(times[i], now)
       /\ Len(fresh) > 0 => Within(times[Len(times) - Len(fresh) + 1], now)
  BY <1>5, <1>8, <1>9, <1>10, <1>11
<1> QED
  BY <1>12 DEF fresh

(* The deque of a key holds what the reference holds, behind failures that *)
(* have expired.                                                           *)
Mirrors(times, window, now) ==
    LET c == Len(times) - Len(window)
    IN  /\ c \in Nat
        /\ \A i \in 1..Len(window) : /\ times[c + i] = window[i]
                                     /\ Within(window[i], now)
        /\ \A i \in 1..c : ~Within(times[i], now)

(* Pruning leaves the window, however late it comes. *)
LEMMA FreshIsWindow ==
    ASSUME NEW times \in Seq(Times), NEW window \in Seq(Times), NEW now \in Times,
           Mirrors(times, window, now)
    PROVE  Fresh(times, now) = window
<1> DEFINE fresh == Fresh(times, now)
           b == Len(times) - Len(fresh)
           c == Len(times) - Len(window)
<1>0. Len(times) \in Nat /\ Len(window) \in Nat /\ fresh \in Seq(Times) /\ Len(fresh) \in Nat
  BY LenProperties, FreshFacts
<1>1. /\ b \in 0..Len(times) /\ \A i \in 1..Len(fresh) : fresh[i] = times[b + i]
      /\ \A i \in 1..b : ~Within(times[i], now)
      /\ Len(fresh) > 0 => Within(times[b + 1], now)
  BY FreshFacts
<1>2. /\ c \in Nat /\ \A i \in 1..Len(window) : times[c + i] = window[i] /\ Within(window[i], now)
      /\ \A i \in 1..c : ~Within(times[i], now)
  BY DEF Mirrors
<1> HIDE DEF fresh
<1>3. ~(b < c)
  BY <1>0, <1>1, <1>2
<1>4. ~(c < b)
  BY <1>0, <1>1, <1>2
<1>5. Len(fresh) = Len(window) /\ b = c
  BY <1>0, <1>3, <1>4
<1>6. \A i \in 1..Len(fresh) : fresh[i] = window[i]
  BY <1>1, <1>2, <1>5
<1>7. fresh = window
  BY <1>0, <1>5, <1>6, SeqEqual
<1> QED
  BY <1>7 DEF fresh

(* A failure recorded now is within the window. *)
LEMMA WindowAppend ==
    ASSUME NEW window \in Seq(Times), NEW now \in Times,
           \A i \in 1..Len(window) : Within(window[i], now)
    PROVE  /\ Append(window, now) \in Seq(Times)
           /\ Mirrors(Append(window, now), Append(window, now), now)
<1>1. /\ Append(window, now) \in Seq(Times) /\ Len(window) \in Nat
      /\ Len(Append(window, now)) = Len(window) + 1
      /\ \A i \in 1..Len(window) : Append(window, now)[i] = window[i]
      /\ Append(window, now)[Len(window) + 1] = now
  BY AppendProperties, LenProperties
<1>2. Within(now, now)
  BY ThrottleAssumption DEF Within, Times
<1> QED
  BY <1>1, <1>2 DEF Mirrors

Sorted(times) ==
    \A i, j \in DOMAIN times : i < j => times[i] <= times[j]

(* The failures that expire by the next tick are the oldest of a window,   *)
(* so that what is left is the window at the next tick.                    *)
LEMMA WindowMoves ==
    ASSUME NEW times \in Seq(Times), NEW window \in Seq(Times), NEW now \in Times,
           now + 1 \in Times, Sorted(times), Mirrors(times, window, now),
           \A i \in 1..Len(times) : times[i] <= now
    PROVE  LET gone == {i \in DOMAIN window : (now + 1) - window[i] >= Window}
               left == SubSeq(window, Cardinality(gone) + 1, Len(window))
           IN  /\ left \in Seq(Times) /\ Mirrors(times, left, now + 1)
               /\ Len(left) <= Len(window)
<1> DEFINE gone == {i \in DOMAIN window : (now + 1) - window[i] >= Window}
           c == Len(times) - Len(window)
           T == {n \in 1..Len(window) + 1 : n <= Len(window) => n \notin gone}
<1>0. /\ Len(times) \in Nat /\ Len(window) \in Nat
      /\ DOMAIN window = 1..Len(window) /\ DOMAIN times = 1..Len(times)
      /\ \A i \in 1..Len(window) : window[i] \in Times
      /\ \A i \in 1..Len(times) : times[i] \in Times
  BY LenProperties, ElementOfSeq
<1>1. /\ c \in Nat /\ \A i \in 1..Len(window) : times[c + i] = window[i]
      /\ \A i \in 1..c : ~Within(times[i], now)
  BY DEF Mirrors
<1>2. Len(window) + 1 \in T /\ T \in SUBSET Nat
  BY <1>0
<1>3. PICK n \in T : \A m \in T : n <= m
  BY <1>2, Least
<1>4. \A i \in 1..Len(window) : i \in gone <=> i < n
  <2>1. \A i \in 1..n - 1 : i \in gone
    BY <1>0, <1>3
  <2>2. ASSUME NEW i \in 1..Len(window), i >= n
        PROVE  i \notin gone
    <3>1. n \in 1..Len(window) /\ n \notin gone
      BY <1>0, <1>3, <2>2
    <3>2. window[n] <= window[i]
      <4>1. c + n \in DOMAIN times /\ c + i \in DOMAIN times /\ c + n <= c + i
        BY <1>0, <1>1, <2>2, <3>1
      <4>2. times[c + n] = window[n] /\ times[c + i] = window[i] /\ window[n] \in Times
        BY <1>0, <1>1, <3>1
      <4>3. CASE i = n
        BY <4>2, <4>3 DEF Times
      <4>4. CASE i # n
        <5>1. c + n < c + i
          BY <1>0, <1>1, <2>2, <3>1, <4>4
        <5> QED
          BY <4>1, <4>2, <5>1 DEF Sorted
      <4> QED
        BY <4>3, <4>4
    <3>3. window[n] \in Times /\ window[i] \in Times /\ (now + 1) - window[n] < Window
      BY <1>0, <2>2, <3>1, ThrottleAssumption DEF Times
    <3> QED
      BY <3>2, <3>3, ThrottleAssumption, SMTT(30) DEF Times
  <2> QED
    BY <1>0, <1>3, <2>1, <2>2
<1>5. gone = 1..n - 1
  BY <1>0, <1>3, <1>4
<1> HIDE DEF gone
<1>6. Cardinality(gone) + 1 = n /\ n \in 1..Len(window) + 1
  <2>1. n \in 1..Len(window) + 1
    BY <1>3
  <2>2. Cardinality(1..n - 1) = n - 1
    BY <1>0, <2>1, FS_Interval
  <2> QED
    BY <1>0, <1>5, <2>1, <2>2
<1> DEFINE left == SubSeq(window, n, Len(window))
<1>7. /\ left \in Seq(Times) /\ Len(left) = IF n <= Len(window) THEN Len(window) - n + 1 ELSE 0
      /\ \A i \in 1..Len(window) - n + 1 : left[i] = window[n + i - 1]
  BY <1>0, <1>6, SubSeqProperties
<1> HIDE DEF left, T
<1>8. Len(times) - Len(left) = c + n - 1 /\ Len(left) = Len(window) - n + 1
  <2>1. n \in 1..Len(window) + 1
    BY <1>6
  <2>2. Len(left) = Len(window) - n + 1
    BY <1>0, <1>7, <2>1
  <2> QED
    BY <1>0, <2>1, <2>2
<1>9. ASSUME NEW i \in 1..Len(left)
      PROVE  times[(c + n - 1) + i] = left[i] /\ Within(left[i], now + 1)
  <2>1. n + i - 1 \in 1..Len(window) /\ ~(n + i - 1 < n) /\ left[i] = window[n + i - 1]
    BY <1>0, <1>6, <1>7, <1>8
  <2>2. times[c + (n + i - 1)] = left[i]
    BY <1>1, <2>1
  <2>3. (now + 1) - left[i] < Window /\ left[i] \in Times
    BY <1>0, <1>4, <2>1, ThrottleAssumption DEF Times, gone
  <2> QED
    BY <1>0, <1>1, <1>6, <2>2, <2>3, ThrottleAssumption DEF Within, Times
<1>10. ASSUME NEW i \in 1..c + n - 1
       PROVE  ~Within(times[i], now + 1)
  <2>1. i \in 1..Len(times) /\ times[i] \in Times
    BY <1>0, <1>1, <1>6
  <2>2. CASE i <= c
    BY <1>1, <2>1, <2>2, ThrottleAssumption DEF Within, Times
  <2>3. CASE i > c
    <3>1. i - c \in 1..Len(window) /\ i - c < n /\ times[i] = window[i - c]
      BY <1>0, <1>1, <1>6, <2>3
    <3>2. (now + 1) - times[i] >= Window
      BY <1>0, <1>4, <3>1 DEF gone
    <3> QED
      BY <2>1, <3>2, ThrottleAssumption DEF Within, Times
  <2> QED
    BY <1>1, <1>6, <2>1, <2>2, <2>3
<1>11. Mirrors(times, left, now + 1)
  BY <1>1, <1>6, <1>8, <1>9, <1>10 DEF Mirrors
<1>12. /\ SubSeq(window, Cardinality(gone) + 1, Len(window)) = left
       /\ Len(left) <= Len(window)
  BY <1>0, <1>6, <1>8 DEF left
<1> QED
  BY <1>7, <1>11, <1>12 DEF gone

-----------------------------------------------------------------------------
(* The table *)

Listed(keys, k) == \E i \in DOMAIN keys : keys[i] = k

Distinct(keys) == \A i, j \in DOMAIN keys : keys[i] = keys[j] => i = j

LEMMA WithoutKey ==
    ASSUME NEW keys \in Seq(Keys), Distinct(keys), NEW k
    PROVE  /\ Without(keys, k) \in Seq(Keys) /\ Distinct(Without(keys, k))
           /\ ~Listed(Without(keys, k), k)
           /\ \A l \in Keys \ {k} : Listed(keys, l) => Listed(Without(keys, k), l)
<1>0. /\ Len(keys) \in Nat /\ DOMAIN keys = 1..Len(keys)
      /\ \A i \in 1..Len(keys) : keys[i] \in Keys
  BY LenProperties, ElementOfSeq
<1>1. CASE ~Listed(keys, k)
  BY <1>1 DEF Without, Listed
<1>2. CASE Listed(keys, k)
  <2> DEFINE p == CHOOSE i \in DOMAIN keys : keys[i] = k
             rest == RemoveAt(keys, p)
             left == SubSeq(keys, 1, p - 1)
             right == SubSeq(keys, p + 1, Len(keys))
  <2>1. p \in 1..Len(keys) /\ keys[p] = k
    BY <1>0, <1>2 DEF Listed
  <2>2. Without(keys, k) = rest
    BY <1>2 DEF Without, Listed
  <2> HIDE DEF p
  <2>3. /\ left \in Seq(Keys) /\ Len(left) = p - 1
        /\ \A i \in 1..p - 1 : left[i] = keys[i]
    <3>1. 1 \in 1..Len(keys) + 1 /\ p - 1 \in 1 - 1..Len(keys)
      BY <1>0, <2>1
    <3>2. /\ left \in Seq(Keys) /\ Len(left) = (p - 1) - (1 - 1)
          /\ \A i \in 1..(p - 1) - (1 - 1) : left[i] = keys[(1 - 1) + i]
      BY <3>1, Slice
    <3>3. (p - 1) - (1 - 1) = p - 1 /\ \A i \in 1..p - 1 : (1 - 1) + i = i
      BY <2>1
    <3> HIDE DEF left
    <3> QED
      BY <3>2, <3>3
  <2>4. /\ right \in Seq(Keys) /\ Len(right) = Len(keys) - p
        /\ \A i \in 1..Len(keys) - p : right[i] = keys[p + i]
    <3>1. p + 1 \in 1..Len(keys) + 1 /\ Len(keys) \in (p + 1) - 1..Len(keys)
      BY <1>0, <2>1
    <3>2. /\ right \in Seq(Keys) /\ Len(right) = Len(keys) - ((p + 1) - 1)
          /\ \A i \in 1..Len(keys) - ((p + 1) - 1) : right[i] = keys[((p + 1) - 1) + i]
      BY <3>1, Slice
    <3>3. (p + 1) - 1 = p
      BY <2>1
    <3> HIDE DEF right
    <3> QED
      BY <3>2, <3>3
  <2>5. rest = left \o right
    BY DEF RemoveAt
  <2> HIDE DEF left, right, rest
  <2>6. /\ rest \in Seq(Keys) /\ Len(rest) = Len(keys) - 1
        /\ \A i \in 1..Len(keys) - 1 : rest[i] = IF i < p THEN keys[i] ELSE keys[i + 1]
    <3>1. /\ left \o right \in Seq(Keys) /\ Len(left \o right) = Len(left) + Len(right)
          /\ \A i \in 1..Len(left) + Len(right) : (left \o right)[i] =
                IF i <= Len(left) THEN left[i] ELSE right[i - Len(left)]
      BY <2>3, <2>4, ConcatProperties
    <3>2. Len(left) + Len(right) = Len(keys) - 1
      BY <1>0, <2>1, <2>3, <2>4
    <3>3. ASSUME NEW i \in 1..Len(keys) - 1
          PROVE  rest[i] = IF i < p THEN keys[i] ELSE keys[i + 1]
      <4>1. CASE i < p
        BY <1>0, <2>1, <2>3, <2>5, <3>1, <3>2, <4>1
      <4>2. CASE ~(i < p)
        <5>1. i - (p - 1) \in 1..Len(keys) - p /\ p + (i - (p - 1)) = i + 1
          BY <1>0, <2>1, <4>2
        <5>2. rest[i] = right[i - (p - 1)]
          BY <1>0, <2>1, <2>3, <2>5, <3>1, <3>2, <4>2
        <5> QED
          BY <2>4, <4>2, <5>1, <5>2
      <4> QED
        BY <4>1, <4>2
    <3> QED
      BY <2>5, <3>1, <3>2, <3>3
  <2>7. DOMAIN rest = 1..Len(keys) - 1
    BY <2>6, LenProperties
  <2>8. ~Listed(rest, k)
    BY <1>0, <2>1, <2>6, <2>7 DEF Listed, Distinct
  <2>9. Distinct(rest)
    <3>1. SUFFICES ASSUME NEW i \in 1..Len(keys) - 1, NEW j \in 1..Len(keys) - 1,
                          rest[i] = rest[j]
                   PROVE  i = j
      BY <2>7 DEF Distinct
    <3> DEFINE at(n) == IF n < p THEN n ELSE n + 1
    <3>2. at(i) \in 1..Len(keys) /\ at(j) \in 1..Len(keys) /\ keys[at(i)] = keys[at(j)]
      BY <1>0, <2>6, <3>1
    <3>3. at(i) = at(j)
      BY <1>0, <3>2 DEF Distinct
    <3> QED
      BY <1>0, <2>1, <3>3
  <2>10. ASSUME NEW l \in Keys \ {k}, Listed(keys, l)
         PROVE  Listed(rest, l)
    <3>1. PICK j \in 1..Len(keys) : keys[j] = l
      BY <1>0, <2>10 DEF Listed
    <3>2. j # p
      BY <2>1, <2>10, <3>1
    <3>3. CASE j < p
      BY <1>0, <2>1, <2>6, <2>7, <3>1, <3>3 DEF Listed
    <3>4. CASE j > p
      <4>1. j - 1 \in 1..Len(keys) - 1 /\ ~(j - 1 < p) /\ (j - 1) + 1 = j
        BY <1>0, <2>1, <3>4
      <4>2. rest[j - 1] = l
        BY <2>6, <3>1, <4>1
      <4> QED
        BY <2>7, <4>1, <4>2 DEF Listed
    <3> QED
      BY <1>0, <2>1, <3>2, <3>3, <3>4
  <2> QED
    BY <2>2, <2>6, <2>8, <2>9, <2>10
<1> QED
  BY <1>1, <1>2

LEMMA AppendKey ==
    ASSUME NEW keys \in Seq(Keys), Distinct(keys), NEW k \in Keys, ~Listed(keys, k)
    PROVE  /\ Append(keys, k) \in Seq(Keys) /\ Distinct(Append(keys, k))
           /\ Listed(Append(keys, k), k)
           /\ \A l \in Keys : Listed(keys, l) => Listed(Append(keys, k), l)
<1> DEFINE more == Append(keys, k)
<1>1. /\ more \in Seq(Keys) /\ Len(more) = Len(keys) + 1 /\ Len(keys) \in Nat
      /\ \A i \in 1..Len(keys) : more[i] = keys[i]
      /\ more[Len(keys) + 1] = k
      /\ DOMAIN keys = 1..Len(keys) /\ DOMAIN more = 1..Len(more)
  BY AppendProperties, LenProperties
<1> HIDE DEF more
<1>2. Listed(more, k) /\ \A l \in Keys : Listed(keys, l) => Listed(more, l)
  BY <1>1 DEF Listed
<1>3. ASSUME NEW i \in 1..Len(keys) + 1, NEW j \in 1..Len(keys) + 1, more[i] = more[j]
      PROVE  i = j
  BY <1>1, <1>3 DEF Listed, Distinct
<1>4. Distinct(more)
  BY <1>1, <1>3 DEF Distinct
<1> QED
  BY <1>1, <1>2, <1>4 DEF more

(* What TypeOK says of the table. *)
TableOK(t) ==
    /\ t.order \in Seq(Keys) /\ Distinct(t.order)
    /\ t.failures \in [Keys -> Seq(Times)]
    /\ \A k \in Keys : t.failures[k] # <<>> => Listed(t.order, k)

(* Pruning a key leaves its window in a table that lists it. *)
LEMMA PrunedTable ==
    ASSUME NEW t, TableOK(t), NEW k \in Keys, NEW window \in Seq(Times), NEW now \in Times,
           Mirrors(t.failures[k], window, now)
    PROVE  /\ TableOK(Pruned(t, k, now)) /\ Listed(Pruned(t, k, now).order, k)
           /\ Pruned(t, k, now).failures = [t.failures EXCEPT ![k] = window]
<1> DEFINE u == Pruned(t, k, now)
<1>1. t.failures[k] \in Seq(Times) /\ Fresh(t.failures[k], now) = window
  BY FreshIsWindow DEF TableOK
<1>2. /\ u.order = IF window = <<>> THEN Append(Without(t.order, k), k) ELSE t.order
      /\ u.failures = [t.failures EXCEPT ![k] = window]
  BY <1>1 DEF Pruned
<1> HIDE DEF u
<1>3. /\ u.failures \in [Keys -> Seq(Times)] /\ u.failures[k] = window
      /\ \A l \in Keys \ {k} : u.failures[l] = t.failures[l]
  BY <1>2 DEF TableOK
<1>4. CASE window = <<>>
  <2>1. /\ Without(t.order, k) \in Seq(Keys) /\ Distinct(Without(t.order, k))
        /\ ~Listed(Without(t.order, k), k)
        /\ \A l \in Keys \ {k} : Listed(t.order, l) => Listed(Without(t.order, k), l)
    BY WithoutKey DEF TableOK
  <2>2. /\ u.order \in Seq(Keys) /\ Distinct(u.order) /\ Listed(u.order, k)
        /\ \A l \in Keys \ {k} : Listed(t.order, l) => Listed(u.order, l)
    BY <1>2, <1>4, <2>1, AppendKey
  <2> QED
    BY <1>2, <1>3, <1>4, <2>2 DEF TableOK, u
<1>5. CASE window # <<>>
  <2>1. t.failures[k] # <<>>
    <3>1. Len(window) \in Nat /\ Len(window) # 0
      BY <1>5, EmptySeq, LenProperties
    <3>2. Len(t.failures[k]) - Len(window) \in Nat /\ Len(t.failures[k]) \in Nat
      BY <1>1, LenProperties DEF Mirrors
    <3> QED
      BY <3>1, <3>2
  <2>2. u.order = t.order /\ Listed(u.order, k)
    BY <1>2, <1>5, <2>1 DEF TableOK
  <2> QED
    BY <1>2, <1>3, <2>2 DEF TableOK, u
<1> QED
  BY <1>4, <1>5

LEMMA RecordedTable ==
    ASSUME NEW t, TableOK(t), NEW k \in Keys, NEW window \in Seq(Times), NEW now \in Times,
           Mirrors(t.failures[k], window, now)
    PROVE  /\ TableOK(Recorded(t, k, now))
           /\ Recorded(t, k, now).failures[k] = Append(window, now)
           /\ \A l \in Keys \ {k} : Recorded(t, k, now).failures[l] = t.failures[l]
<1> DEFINE p == Pruned(t, k, now)
           u == Recorded(t, k, now)
<1>1. /\ TableOK(p) /\ Listed(p.order, k)
      /\ p.failures = [t.failures EXCEPT ![k] = window]
  BY PrunedTable
<1>2. /\ u.order = p.order
      /\ u.failures = [p.failures EXCEPT ![k] = Append(p.failures[k], now)]
  BY DEF Recorded, Pruned
<1>3. Append(window, now) \in Seq(Times)
  BY AppendProperties
<1> HIDE DEF p, u
<1>4. p.failures[k] = window /\ p.failures \in [Keys -> Seq(Times)]
  BY <1>1 DEF TableOK
<1>5. /\ u.failures[k] = Append(window, now)
      /\ \A l \in Keys \ {k} : u.failures[l] = t.failures[l]
  BY <1>1, <1>2, <1>4
<1>6. TableOK(u)
  <2>1. u.failures \in [Keys -> Seq(Times)]
    BY <1>2, <1>3, <1>4
  <2>2. \A l \in Keys \ {k} : u.failures[l] = p.failures[l]
    BY <1>2, <1>4
  <2> QED
    BY <1>1, <1>2, <2>1, <2>2 DEF TableOK
<1> QED
  BY <1>5, <1>6 DEF u

LEMMA EvictedTable ==
    ASSUME NEW t, TableOK(t)
    PROVE  /\ TableOK(Evicted(t))
           /\ Gone(t) # {} => Len(Evicted(t).order) = MaxKeys
           /\ Len(Evicted(t).order) <= MaxKeys
<1> DEFINE e == Excess(t)
           n == Len(t.order)
           o == SubSeq(t.order, e + 1, n)
<1>0. /\ n \in Nat /\ DOMAIN t.order = 1..n /\ \A i \in 1..n : t.order[i] \in Keys
      /\ MaxKeys \in Nat
  BY LenProperties, ElementOfSeq, ThrottleAssumption DEF TableOK
<1>1. e \in 0..n /\ (e # 0 => n - e = MaxKeys) /\ n - e <= MaxKeys
  BY <1>0 DEF Excess
<1> HIDE DEF e
<1>2. /\ o \in Seq(Keys) /\ Len(o) = n - e
      /\ \A i \in 1..n - e : o[i] = t.order[e + i]
  <2>1. /\ o \in Seq(Keys) /\ Len(o) = (IF e + 1 <= n THEN n - (e + 1) + 1 ELSE 0)
        /\ \A i \in 1..n - (e + 1) + 1 : o[i] = t.order[(e + 1) + i - 1]
    BY <1>0, <1>1, SubSeqProperties
  <2> QED
    BY <1>0, <1>1, <2>1
<1>3. Evicted(t).order = o /\ Evicted(t).failures =
          [k \in Keys |-> IF k \in Gone(t) THEN <<>> ELSE t.failures[k]]
  BY DEF Evicted, e
<1> HIDE DEF o
<1>4. DOMAIN o = 1..n - e
  BY <1>2, LenProperties
<1>5. Distinct(o)
  <2>1. SUFFICES ASSUME NEW i \in 1..n - e, NEW j \in 1..n - e, o[i] = o[j]
                 PROVE  i = j
    BY <1>4 DEF Distinct
  <2>2. e + i \in 1..n /\ e + j \in 1..n /\ t.order[e + i] = t.order[e + j]
    <3>1. e + i \in 1..n /\ e + j \in 1..n
      BY <1>0, <1>1, <2>1
    <3>2. o[i] = t.order[e + i] /\ o[j] = t.order[e + j]
      BY <1>2
    <3> QED
      BY <2>1, <3>1, <3>2
  <2>3. e + i = e + j
    BY <1>0, <2>2 DEF TableOK, Distinct
  <2> QED
    BY <1>1, <2>3
<1>6. ASSUME NEW k \in Keys, k \notin Gone(t), t.failures[k] # <<>>
      PROVE  Listed(o, k)
  <2>1. PICK i \in 1..n : t.order[i] = k
    BY <1>0, <1>6 DEF TableOK, Listed
  <2>2. ~(i <= e)
    BY <1>1, <1>6, <2>1 DEF Gone, e
  <2>3. i - e \in 1..n - e /\ o[i - e] = k
    BY <1>0, <1>1, <1>2, <2>1, <2>2
  <2> QED
    BY <1>4, <2>3 DEF Listed
<1>7. TableOK(Evicted(t))
  <2>1. Evicted(t).failures \in [Keys -> Seq(Times)]
    BY <1>3, EmptySeq DEF TableOK
  <2> QED
    BY <1>2, <1>3, <1>5, <1>6, <2>1 DEF TableOK
<1>8. Gone(t) # {} => e # 0
  BY <1>1 DEF Gone, e
<1> QED
  BY <1>1, <1>2, <1>3, <1>7, <1>8

-----------------------------------------------------------------------------
(* The inductive invariant *)

KeyOK(times, window, now) ==
    /\ Mirrors(times, window, now) /\ Sorted(times)
    /\ \A i \in 1..Len(times) : times[i] <= now

IInv == TypeOK /\ \A k \in Keys : KeyOK(failures[k], recent[k], clock)

LEMMA KeyPruned ==
    ASSUME NEW times \in Seq(Times), NEW window \in Seq(Times), NEW now \in Times,
           KeyOK(times, window, now)
    PROVE  KeyOK(window, window, now)
<1> DEFINE c == Len(times) - Len(window)
<1>0. /\ Len(times) \in Nat /\ Len(window) \in Nat
      /\ DOMAIN times = 1..Len(times) /\ DOMAIN window = 1..Len(window)
  BY LenProperties
<1>1. c \in Nat /\ \A i \in 1..Len(window) : times[c + i] = window[i] /\ Within(window[i], now)
  BY DEF KeyOK, Mirrors
<1> HIDE DEF c
<1>2. \A i \in 1..Len(window) : c + i \in 1..Len(times)
  BY <1>0, <1>1 DEF c
<1>3. Mirrors(window, window, now)
  BY <1>0, <1>1 DEF Mirrors
<1>4. \A i \in 1..Len(window) : window[i] <= now
  BY <1>1, <1>2 DEF KeyOK
<1>5. Sorted(window)
  <2>1. SUFFICES ASSUME NEW i \in 1..Len(window), NEW j \in 1..Len(window), i < j
                 PROVE  window[i] <= window[j]
    BY <1>0 DEF Sorted
  <2>2. c + i < c + j /\ c + i \in DOMAIN times /\ c + j \in DOMAIN times
    BY <1>0, <1>1, <1>2, <2>1
  <2>3. times[c + i] <= times[c + j]
    BY <2>2 DEF KeyOK, Sorted
  <2> QED
    BY <1>1, <2>3
<1> QED
  BY <1>3, <1>4, <1>5 DEF KeyOK

LEMMA KeyRecorded ==
    ASSUME NEW times \in Seq(Times), NEW window \in Seq(Times), NEW now \in Times,
           KeyOK(times, window, now)
    PROVE  /\ Append(window, now) \in Seq(Times)
           /\ KeyOK(Append(window, now), Append(window, now), now)
<1> DEFINE more == Append(window, now)
<1>1. KeyOK(window, window, now)
  BY KeyPruned
<1>2. /\ more \in Seq(Times) /\ Len(more) = Len(window) + 1 /\ Len(window) \in Nat
      /\ \A i \in 1..Len(window) : more[i] = window[i]
      /\ more[Len(window) + 1] = now
      /\ DOMAIN window = 1..Len(window) /\ DOMAIN more = 1..Len(more)
  BY AppendProperties, LenProperties
<1>3. Mirrors(more, more, now)
  <2>1. \A i \in 1..Len(window) : Within(window[i], now)
    BY <1>1 DEF KeyOK, Mirrors
  <2> QED
    BY <2>1, WindowAppend
<1> HIDE DEF more
<1>4. \A i \in 1..Len(more) : more[i] <= now
  BY <1>1, <1>2 DEF KeyOK, Times
<1>5. ASSUME NEW i \in 1..Len(window) + 1, NEW j \in 1..Len(window) + 1, i < j
      PROVE  more[i] <= more[j]
  <2>1. i \in 1..Len(window)
    BY <1>2, <1>5
  <2>2. CASE j \in 1..Len(window)
    BY <1>1, <1>2, <1>5, <2>1, <2>2 DEF KeyOK, Sorted
  <2>3. CASE j = Len(window) + 1
    BY <1>2, <1>4, <2>1, <2>3
  <2> QED
    BY <1>2, <1>5, <2>2, <2>3
<1>6. Sorted(more)
  BY <1>2, <1>5 DEF Sorted
<1> QED
  BY <1>2, <1>3, <1>4, <1>6 DEF KeyOK, more

LEMMA KeyForgotten ==
    ASSUME NEW now \in Times
    PROVE  <<>> \in Seq(Times) /\ KeyOK(<<>>, <<>>, now)
<1>1. <<>> \in Seq(Times) /\ Len(<<>>) = 0
  BY EmptySeq
<1>2. DOMAIN <<>> = 1..0
  BY <1>1, LenProperties
<1> QED
  BY <1>1, <1>2 DEF KeyOK, Mirrors, Sorted

LEMMA KeyMoves ==
    ASSUME NEW times \in Seq(Times), NEW window \in Seq(Times), NEW now \in Times,
           now + 1 \in Times, KeyOK(times, window, now)
    PROVE  LET gone == {i \in DOMAIN window : (now + 1) - window[i] >= Window}
               left == SubSeq(window, Cardinality(gone) + 1, Len(window))
           IN  /\ left \in Seq(Times) /\ KeyOK(times, left, now + 1)
               /\ Len(left) <= Len(window)
<1> DEFINE gone == {i \in DOMAIN window : (now + 1) - window[i] >= Window}
           left == SubSeq(window, Cardinality(gone) + 1, Len(window))
<1>1. left \in Seq(Times) /\ Mirrors(times, left, now + 1) /\ Len(left) <= Len(window)
  BY WindowMoves DEF KeyOK
<1> HIDE DEF left
<1>2. \A i \in 1..Len(times) : times[i] \in Times /\ times[i] <= now
  BY ElementOfSeq DEF KeyOK
<1>3. KeyOK(times, left, now + 1)
  BY <1>1, <1>2 DEF KeyOK, Times
<1> QED
  BY <1>1, <1>3 DEF left

Accepted ==
    [pc : {"login", "failed", "succeeded"},
     account : {"account"} \X Accounts, address : {"address"} \X Addresses]

(* TypeOK, with the table as one value. *)
LEMMA Parts ==
    TypeOK <=> /\ TableOK(Table) /\ \A k \in Keys : Sorted(failures[k])
               /\ attempt \in [Attempts -> {NoAttempt} \cup Accepted]
               /\ clock \in Times /\ recent \in [Keys -> Seq(Times)]
BY DEF TypeOK, TableOK, Table, Sorted, Distinct, Listed, Times, Accepted

LEMMA KeyFacts ==
    /\ \A e \in Emails : AccountKey(e) \in {"account"} \X Accounts
    /\ \A x \in Addresses : AddressKey(x) \in {"address"} \X Addresses
    /\ \A a \in {"account"} \X Accounts : a \in Keys /\ a[1] = "account"
    /\ \A a \in {"address"} \X Addresses : a \in Keys /\ a[1] = "address"
    /\ \A a \in {"account"} \X Accounts : \A b \in {"address"} \X Addresses : a # b
BY DEF AccountKey, AddressKey, Accounts, Keys

(* What a step that only changes the table leaves. *)
LEMMA TableSuffices ==
    ASSUME IInv, NEW t, TableOK(t), Becomes(t), UNCHANGED clock,
           recent' \in [Keys -> Seq(Times)],
           attempt' \in [Attempts -> {NoAttempt} \cup Accepted],
           \A k \in Keys : KeyOK(t.failures[k], recent'[k], clock)
    PROVE  IInv'
<1>1. TableOK(Table)'
  BY DEF Becomes, Table, TableOK
<1>2. \A k \in Keys : KeyOK(failures[k], recent[k], clock)'
  BY DEF Becomes
<1>3. \A k \in Keys : Sorted(failures[k])'
  BY <1>2 DEF KeyOK
<1>4. clock' \in Times
  BY Parts DEF IInv
<1>5. TypeOK'
  BY <1>1, <1>3, <1>4 DEF TypeOK, TableOK, Table, Sorted, Distinct, Listed, Times, Accepted
<1> QED
  BY <1>2, <1>5 DEF IInv

(* The table after a check, and what it answers. *)
LEMMA CheckFacts ==
    ASSUME IInv, NEW e \in Emails, NEW x \in Addresses
    PROVE  LET account == AccountKey(e)
               address == AddressKey(x)
               t == Pruned(Pruned(Table, account, clock), address, clock)
           IN  /\ TableOK(t) /\ account \in Keys /\ address \in Keys /\ account # address
               /\ t.failures = [failures EXCEPT ![account] = recent[account],
                                                ![address] = recent[address]]
<1> DEFINE account == AccountKey(e)
           address == AddressKey(x)
           p == Pruned(Table, account, clock)
           t == Pruned(p, address, clock)
<1>0. /\ account \in Keys /\ address \in Keys /\ account # address
      /\ TableOK(Table) /\ clock \in Times /\ recent \in [Keys -> Seq(Times)]
      /\ \A k \in Keys : recent[k] \in Seq(Times) /\ Mirrors(failures[k], recent[k], clock)
      /\ Table.failures = failures /\ failures \in [Keys -> Seq(Times)]
  BY KeyFacts, Parts DEF IInv, KeyOK, Table, TableOK
<1> HIDE DEF account, address, p, t
<1>1. TableOK(p) /\ p.failures = [failures EXCEPT ![account] = recent[account]]
  <2>1. /\ TableOK(Table) /\ account \in Keys /\ clock \in Times
        /\ recent[account] \in Seq(Times)
        /\ Mirrors(Table.failures[account], recent[account], clock)
    BY <1>0
  <2>2. /\ TableOK(Pruned(Table, account, clock))
        /\ Pruned(Table, account, clock).failures
              = [Table.failures EXCEPT ![account] = recent[account]]
    BY <2>1, PrunedTable
  <2> QED
    BY <1>0, <2>2 DEF p
<1>2. p.failures[address] = failures[address]
  BY <1>0, <1>1
<1>3. TableOK(t) /\ t.failures = [p.failures EXCEPT ![address] = recent[address]]
  <2>1. /\ TableOK(p) /\ address \in Keys /\ clock \in Times
        /\ recent[address] \in Seq(Times)
        /\ Mirrors(p.failures[address], recent[address], clock)
    BY <1>0, <1>1, <1>2
  <2>2. /\ TableOK(Pruned(p, address, clock))
        /\ Pruned(p, address, clock).failures
              = [p.failures EXCEPT ![address] = recent[address]]
    BY <2>1, PrunedTable
  <2> QED
    BY <2>2 DEF t
<1>4. t.failures = [failures EXCEPT ![account] = recent[account],
                                    ![address] = recent[address]]
  BY <1>1, <1>3
<1> QED
  BY <1>0, <1>3, <1>4 DEF account, address, p, t

(* The table after a failure. *)
LEMMA FailureFacts ==
    ASSUME IInv, NEW account \in Keys, NEW address \in Keys, account # address
    PROVE  LET t == Recorded(Recorded(Table, account, clock), address, clock)
           IN  /\ TableOK(t)
               /\ \A k \in {account, address} : t.failures[k] = Append(recent[k], clock)
               /\ \A k \in Keys \ {account, address} : t.failures[k] = failures[k]
<1> DEFINE p == Recorded(Table, account, clock)
           t == Recorded(p, address, clock)
<1>0. /\ TableOK(Table) /\ clock \in Times
      /\ \A k \in Keys : recent[k] \in Seq(Times) /\ Mirrors(failures[k], recent[k], clock)
      /\ Table.failures = failures
  BY Parts DEF IInv, KeyOK, Table
<1> HIDE DEF p, t
<1>1. /\ TableOK(p) /\ p.failures[account] = Append(recent[account], clock)
      /\ \A k \in Keys \ {account} : p.failures[k] = failures[k]
  <2>1. /\ TableOK(Table) /\ account \in Keys /\ clock \in Times
        /\ recent[account] \in Seq(Times)
        /\ Mirrors(Table.failures[account], recent[account], clock)
    BY <1>0
  <2>2. /\ TableOK(Recorded(Table, account, clock))
        /\ Recorded(Table, account, clock).failures[account] = Append(recent[account], clock)
        /\ \A k \in Keys \ {account} :
              Recorded(Table, account, clock).failures[k] = Table.failures[k]
    BY <2>1, RecordedTable
  <2> QED
    BY <1>0, <2>2 DEF p
<1>2. p.failures[address] = failures[address]
  BY <1>1
<1>3. /\ TableOK(t) /\ t.failures[address] = Append(recent[address], clock)
      /\ \A k \in Keys \ {address} : t.failures[k] = p.failures[k]
  <2>1. /\ TableOK(p) /\ address \in Keys /\ clock \in Times
        /\ recent[address] \in Seq(Times)
        /\ Mirrors(p.failures[address], recent[address], clock)
    BY <1>0, <1>1, <1>2
  <2>2. /\ TableOK(Recorded(p, address, clock))
        /\ Recorded(p, address, clock).failures[address] = Append(recent[address], clock)
        /\ \A k \in Keys \ {address} : Recorded(p, address, clock).failures[k] = p.failures[k]
    BY <2>1, RecordedTable
  <2> QED
    BY <2>2 DEF t
<1>4. /\ \A k \in {account, address} : t.failures[k] = Append(recent[k], clock)
      /\ \A k \in Keys \ {account, address} : t.failures[k] = failures[k]
  BY <1>1, <1>3
<1> QED
  BY <1>3, <1>4 DEF p, t

LEMMA CheckStep ==
    ASSUME IInv, NEW a \in Attempts, NEW e \in Emails, NEW x \in Addresses, Check(a, e, x)
    PROVE  IInv'
<1> DEFINE account == AccountKey(e)
           address == AddressKey(x)
           t == Pruned(Pruned(Table, account, clock), address, clock)
<1>0. /\ TableOK(t)
      /\ t.failures = [failures EXCEPT ![account] = recent[account],
                                       ![address] = recent[address]]
  BY CheckFacts
<1>1. /\ Becomes(t) /\ UNCHANGED <<clock, recent>>
      /\ attempt' \in {attempt, [attempt EXCEPT ![a] =
             [pc |-> "login", account |-> account, address |-> address]]}
  BY DEF Check
<1>2. /\ attempt \in [Attempts -> {NoAttempt} \cup Accepted] /\ clock \in Times
      /\ recent \in [Keys -> Seq(Times)] /\ failures \in [Keys -> Seq(Times)]
      /\ \A k \in Keys : KeyOK(failures[k], recent[k], clock)
  BY Parts DEF IInv, TableOK, Table
<1>3. account \in {"account"} \X Accounts /\ address \in {"address"} \X Addresses
  BY KeyFacts
<1> HIDE DEF account, address, t
<1>4. attempt' \in [Attempts -> {NoAttempt} \cup Accepted]
  BY <1>1, <1>2, <1>3 DEF Accepted
<1>5. ASSUME NEW k \in Keys
      PROVE  KeyOK(t.failures[k], recent'[k], clock)
  <2>1. t.failures[k] \in {failures[k], recent[k]}
    BY <1>0, <1>2
  <2> QED
    BY <1>1, <1>2, <2>1, KeyPruned
<1> QED
  BY <1>0, <1>1, <1>2, <1>4, <1>5, TableSuffices

LEMMA FailureStep ==
    ASSUME IInv, NEW a \in Attempts, RecordFailure(a)
    PROVE  IInv'
<1> DEFINE account == attempt[a].account
           address == attempt[a].address
           t == Recorded(Recorded(Table, account, clock), address, clock)
           u == Evicted(t)
<1>0. /\ attempt[a].pc = "failed" /\ Becomes(u) /\ UNCHANGED clock
      /\ recent' = [k \in Keys |->
             IF k \in Gone(t) THEN <<>>
             ELSE IF k \in {account, address} THEN Append(recent[k], clock)
             ELSE recent[k]]
      /\ attempt' = [attempt EXCEPT ![a] = NoAttempt]
  BY DEF RecordFailure
<1>1. /\ attempt \in [Attempts -> {NoAttempt} \cup Accepted] /\ clock \in Times
      /\ recent \in [Keys -> Seq(Times)] /\ failures \in [Keys -> Seq(Times)]
      /\ \A k \in Keys : KeyOK(failures[k], recent[k], clock)
  BY Parts DEF IInv, TableOK, Table
<1>2. account \in Keys /\ address \in Keys /\ account # address
  <2>1. attempt[a] \in Accepted
    BY <1>0, <1>1 DEF NoAttempt
  <2> QED
    BY <2>1, KeyFacts DEF Accepted
<1>3. /\ TableOK(t)
      /\ \A k \in {account, address} : t.failures[k] = Append(recent[k], clock)
      /\ \A k \in Keys \ {account, address} : t.failures[k] = failures[k]
  BY <1>2, FailureFacts
<1>4. u.failures = [k \in Keys |-> IF k \in Gone(t) THEN <<>> ELSE t.failures[k]]
  BY DEF Evicted
<1>5. TableOK(u)
  BY <1>3, EvictedTable
<1> HIDE DEF account, address, t, u
<1>6. ASSUME NEW k \in Keys
      PROVE  recent'[k] \in Seq(Times) /\ KeyOK(u.failures[k], recent'[k], clock)
  <2>1. CASE k \in Gone(t)
    BY <1>0, <1>1, <1>4, <2>1, KeyForgotten
  <2>2. CASE k \notin Gone(t) /\ k \in {account, address}
    <3>1. /\ u.failures[k] = Append(recent[k], clock)
          /\ recent'[k] = Append(recent[k], clock)
      BY <1>0, <1>1, <1>2, <1>3, <1>4, <2>2
    <3> QED
      BY <1>1, <3>1, KeyRecorded
  <2>3. CASE k \notin Gone(t) /\ k \notin {account, address}
    BY <1>0, <1>1, <1>3, <1>4, <2>3
  <2> QED
    BY <2>1, <2>2, <2>3
<1>7. attempt' \in [Attempts -> {NoAttempt} \cup Accepted]
  BY <1>0, <1>1
<1>8. recent' \in [Keys -> Seq(Times)]
  BY <1>0, <1>6
<1> QED
  BY <1>0, <1>5, <1>6, <1>7, <1>8, TableSuffices

LEMMA SuccessStep ==
    ASSUME IInv, NEW a \in Attempts, RecordSuccess(a)
    PROVE  IInv'
<1> DEFINE account == attempt[a].account
           t == Forgiven(Table, account, attempt[a].address)
<1>0. /\ attempt[a].pc = "succeeded" /\ Becomes(t) /\ UNCHANGED clock
      /\ recent' = [recent EXCEPT ![account] = <<>>]
      /\ attempt' = [attempt EXCEPT ![a] = NoAttempt]
  BY DEF RecordSuccess
<1>1. /\ attempt \in [Attempts -> {NoAttempt} \cup Accepted] /\ clock \in Times
      /\ recent \in [Keys -> Seq(Times)] /\ failures \in [Keys -> Seq(Times)]
      /\ \A k \in Keys : KeyOK(failures[k], recent[k], clock)
      /\ order \in Seq(Keys) /\ Distinct(order)
      /\ \A k \in Keys : failures[k] # <<>> => Listed(order, k)
  BY Parts DEF IInv, TableOK, Table
<1>2. /\ t.order = Without(order, account)
      /\ t.failures = [failures EXCEPT ![account] = <<>>]
  BY DEF Forgiven, Table
<1> HIDE DEF account, t
<1>3. <<>> \in Seq(Times) /\ KeyOK(<<>>, <<>>, clock)
  BY <1>1, KeyForgotten
<1>4. \A k \in Keys : t.failures[k] = IF k = account THEN <<>> ELSE failures[k]
  BY <1>1, <1>2
<1>5. TableOK(t)
  <2>1. /\ t.order \in Seq(Keys) /\ Distinct(t.order)
        /\ \A l \in Keys \ {account} : Listed(order, l) => Listed(t.order, l)
    BY <1>1, <1>2, WithoutKey
  <2>2. t.failures \in [Keys -> Seq(Times)]
    BY <1>1, <1>2, <1>3
  <2> QED
    BY <1>1, <1>4, <2>1, <2>2 DEF TableOK
<1>6. \A k \in Keys : KeyOK(t.failures[k], recent'[k], clock)
  BY <1>0, <1>1, <1>3, <1>4
<1>7. recent' \in [Keys -> Seq(Times)] /\ attempt' \in [Attempts -> {NoAttempt} \cup Accepted]
  BY <1>0, <1>1, <1>3
<1> QED
  BY <1>0, <1>5, <1>6, <1>7, TableSuffices

LEMMA TickStep ==
    ASSUME IInv, Tick
    PROVE  IInv'
<1>0. /\ clock < MaxTime /\ clock' = clock + 1 /\ UNCHANGED <<table, attempt>>
      /\ recent' = [k \in Keys |->
             SubSeq(recent[k], Cardinality(Expired(k, clock + 1)) + 1, Len(recent[k]))]
  BY DEF Tick
<1>1. /\ attempt \in [Attempts -> {NoAttempt} \cup Accepted] /\ clock \in Times
      /\ recent \in [Keys -> Seq(Times)] /\ failures \in [Keys -> Seq(Times)]
      /\ \A k \in Keys : KeyOK(failures[k], recent[k], clock)
  BY Parts DEF IInv, TableOK, Table
<1>2. clock + 1 \in Times
  BY <1>0, <1>1, ThrottleAssumption DEF Times
<1>3. ASSUME NEW k \in Keys
      PROVE  recent'[k] \in Seq(Times) /\ KeyOK(failures[k], recent'[k], clock + 1)
  <2>1. failures[k] \in Seq(Times) /\ recent[k] \in Seq(Times)
    BY <1>1
  <2>2. recent'[k] = SubSeq(recent[k], Cardinality(Expired(k, clock + 1)) + 1, Len(recent[k]))
    BY <1>0
  <2>3. LET gone == {i \in DOMAIN recent[k] : (clock + 1) - recent[k][i] >= Window}
            left == SubSeq(recent[k], Cardinality(gone) + 1, Len(recent[k]))
        IN  /\ left \in Seq(Times) /\ KeyOK(failures[k], left, clock + 1)
    BY <1>1, <1>2, <2>1, KeyMoves
  <2> QED
    BY <2>2, <2>3 DEF Expired
<1>4. recent' \in [Keys -> Seq(Times)]
  BY <1>0, <1>3
<1>5. \A k \in Keys : KeyOK(failures[k], recent[k], clock)'
  BY <1>0, <1>3 DEF table
<1> QED
  BY <1>0, <1>1, <1>2, <1>4, <1>5 DEF IInv, TypeOK, table, Times

LEMMA AttemptStep ==
    ASSUME IInv, UNCHANGED <<table, clock, recent>>,
           attempt' \in [Attempts -> {NoAttempt} \cup Accepted]
    PROVE  IInv'
<1>1. order' = order /\ failures' = failures /\ clock' = clock /\ recent' = recent
  BY DEF table
<1>2. TypeOK'
  BY <1>1 DEF IInv, TypeOK, Accepted
<1> QED
  BY <1>1, <1>2 DEF IInv

LEMMA NextIInv ==
    IInv /\ [Next]_vars => IInv'
<1>0. SUFFICES ASSUME IInv, [Next]_vars
               PROVE  IInv'
  OBVIOUS
<1>1. attempt \in [Attempts -> {NoAttempt} \cup Accepted]
  BY <1>0, Parts DEF IInv
<1>2. CASE UNCHANGED vars
  BY <1>0, <1>1, <1>2, AttemptStep DEF vars
<1>3. ASSUME NEW a \in Attempts, Login(a)
      PROVE  IInv'
  <2>1. PICK outcome \in {"failed", "succeeded"} :
            /\ attempt[a].pc = "login" /\ attempt' = [attempt EXCEPT ![a].pc = outcome]
            /\ UNCHANGED <<table, clock, recent>>
    BY <1>3 DEF Login
  <2>2. attempt[a] \in Accepted
    BY <1>1, <2>1 DEF NoAttempt
  <2>3. attempt' \in [Attempts -> {NoAttempt} \cup Accepted]
    BY <1>1, <2>1, <2>2 DEF Accepted
  <2> QED
    BY <1>0, <2>1, <2>3, AttemptStep
<1>4. ASSUME NEW a \in Attempts, Abandon(a)
      PROVE  IInv'
  BY <1>0, <1>1, <1>4, AttemptStep DEF Abandon
<1> QED
  BY <1>0, <1>2, <1>3, <1>4, CheckStep, FailureStep, SuccessStep, TickStep DEF Next

LEMMA InitIInv == Init => IInv
<1> SUFFICES ASSUME Init
             PROVE  IInv
  OBVIOUS
<1>1. 0 \in Times /\ clock = 0
  BY ThrottleAssumption DEF Init, Times
<1>2. <<>> \in Seq(Times) /\ KeyOK(<<>>, <<>>, 0)
  BY <1>1, KeyForgotten
<1>3. order \in Seq(Keys) /\ DOMAIN order = {}
  BY EmptySeq DEF Init
<1>4. \A k \in Keys : failures[k] = <<>> /\ recent[k] = <<>>
  BY DEF Init
<1>5. /\ failures \in [Keys -> Seq(Times)] /\ recent \in [Keys -> Seq(Times)]
      /\ attempt \in [Attempts -> {NoAttempt} \cup Accepted]
  BY <1>2 DEF Init
<1>6. \A k \in Keys : Sorted(failures[k])
  BY <1>2, <1>4 DEF KeyOK
<1>7. TableOK(Table)
  BY <1>3, <1>4, <1>5 DEF TableOK, Table, Distinct
<1>8. TypeOK
  BY <1>1, <1>5, <1>6, <1>7, Parts
<1> QED
  BY <1>1, <1>2, <1>4, <1>8 DEF IInv

LEMMA Inductive == Spec => []IInv
BY InitIInv, NextIInv, PTL DEF Spec

(* The table lists each key once, and keeps failures of listed keys only,  *)
(* in the order of their times, whatever is pruned, recorded, evicted or   *)
(* forgotten in whichever order.                                           *)
THEOREM ThrottleTyped == Spec => []TypeOK
<1>1. IInv => TypeOK
  BY DEF IInv
<1> QED
  BY <1>1, Inductive, PTL

-----------------------------------------------------------------------------
(* The verdict *)

LEMMA Verdict ==
    ASSUME IInv, NEW a \in Attempts, NEW e \in Emails, NEW x \in Addresses, Check(a, e, x)
    PROVE  LET account == AccountKey(e)
               address == AddressKey(x)
               below == /\ Len(recent[account]) < AccountLimit
                        /\ Len(recent[address]) < AddressLimit
           IN  /\ account \in Keys /\ address \in Keys
               /\ attempt[a] = NoAttempt
               /\ attempt' = IF below THEN [attempt EXCEPT ![a] =
                                  [pc |-> "login", account |-> account, address |-> address]]
                             ELSE attempt
               /\ attempt'[a].pc = "login" <=> below
<1> DEFINE account == AccountKey(e)
           address == AddressKey(x)
           t == Pruned(Pruned(Table, account, clock), address, clock)
<1>0. /\ account \in Keys /\ address \in Keys /\ account # address
      /\ t.failures = [failures EXCEPT ![account] = recent[account],
                                       ![address] = recent[address]]
  BY CheckFacts
<1>1. /\ attempt \in [Attempts -> {NoAttempt} \cup Accepted] /\ failures \in [Keys -> Seq(Times)]
  BY Parts DEF IInv, TableOK, Table
<1>2. /\ attempt[a].pc = "idle"
      /\ attempt' = IF BelowLimits(t, account, address)
                    THEN [attempt EXCEPT ![a] =
                             [pc |-> "login", account |-> account, address |-> address]]
                    ELSE attempt
  BY DEF Check
<1> HIDE DEF account, address, t
<1>3. t.failures[account] = recent[account] /\ t.failures[address] = recent[address]
  BY <1>0, <1>1
<1>4. BelowLimits(t, account, address) <=>
         Len(recent[account]) < AccountLimit /\ Len(recent[address]) < AddressLimit
  BY <1>3 DEF BelowLimits
<1>5. attempt[a] = NoAttempt
  BY <1>1, <1>2 DEF Accepted
<1>6. attempt'[a].pc = "login" <=> BelowLimits(t, account, address)
  BY <1>1, <1>2
<1> QED
  BY <1>0, <1>2, <1>4, <1>5, <1>6 DEF account, address

(* Whatever was pruned lazily, inserted again or evicted before, an        *)
(* attempt gets to the AuthService exactly when its account and its        *)
(* address have each failed less often than allowed in the window that     *)
(* ends with it.                                                           *)
THEOREM VerdictsAreRight == Spec => VerdictIsRight
<1> DEFINE Right ==
      \A a \in Attempts, e \in Emails, x \in Addresses :
         Check(a, e, x) =>
           (attempt'[a].pc = "login" <=>
               /\ RecentFailures(AccountKey(e)) < AccountLimit
               /\ RecentFailures(AddressKey(x)) < AddressLimit)
<1>1. IInv => Right
  BY Verdict DEF RecentFailures
<1> HIDE DEF Right
<1>2. IInv /\ [Next]_vars => [Right]_vars
  BY <1>1
<1>3. Spec => [][Right]_vars
  BY <1>2, Inductive, PTL DEF Spec
<1> QED
  BY <1>3 DEF VerdictIsRight, Right

-----------------------------------------------------------------------------
(* Attempts that overrun the limit *)

Limit(k) == IF k[1] = "account" THEN AccountLimit ELSE AddressLimit

WithinOverrun(k) ==
    Len(recent[k]) + Cardinality(Awaiting(k)) <= Limit(k) + Cardinality(Attempts) - 1

LEMMA AwaitingFacts ==
    ASSUME NEW k
    PROVE  /\ IsFiniteSet(Awaiting(k)) /\ Cardinality(Awaiting(k)) \in Nat
           /\ Cardinality(Attempts) \in Nat
           /\ Cardinality(Awaiting(k)) <= Cardinality(Attempts)
<1>1. Awaiting(k) \in SUBSET Attempts /\ IsFiniteSet(Attempts)
  BY ThrottleAssumption DEF Awaiting
<1> QED
  BY <1>1, FS_Subset, FS_CardinalityType

LEMMA AwaitingFactsPrime ==
    ASSUME NEW k
    PROVE  /\ IsFiniteSet(Awaiting(k)') /\ Cardinality(Awaiting(k)') \in Nat
           /\ Cardinality(Awaiting(k)') <= Cardinality(Attempts)
<1>1. Awaiting(k)' \in SUBSET Attempts /\ IsFiniteSet(Attempts)
  BY ThrottleAssumption DEF Awaiting
<1> QED
  BY <1>1, FS_Subset, FS_CardinalityType

(* A step after which fewer failures count and no attempt has come to      *)
(* await the outcome.                                                      *)
LEMMA OverrunEases ==
    ASSUME NEW k \in Keys, recent[k] \in Seq(Times), recent'[k] \in Seq(Times),
           WithinOverrun(k),
           Len(recent'[k]) <= Len(recent[k]), Awaiting(k)' \subseteq Awaiting(k)
    PROVE  WithinOverrun(k)'
<1>1. Cardinality(Awaiting(k)') <= Cardinality(Awaiting(k))
  BY AwaitingFacts, FS_Subset
<1>2. /\ Len(recent[k]) \in Nat /\ Len(recent'[k]) \in Nat
      /\ Limit(k) \in Nat
  BY LenProperties, ThrottleAssumption DEF Limit
<1> QED
  BY <1>1, <1>2, AwaitingFacts, AwaitingFactsPrime DEF WithinOverrun

LEMMA CheckOverrun ==
    ASSUME IInv, NEW a \in Attempts, NEW e \in Emails, NEW x \in Addresses, Check(a, e, x),
           NEW k \in Keys, WithinOverrun(k)
    PROVE  WithinOverrun(k)'
<1> DEFINE account == AccountKey(e)
           address == AddressKey(x)
           below == /\ Len(recent[account]) < AccountLimit
                    /\ Len(recent[address]) < AddressLimit
<1>0. /\ account \in {"account"} \X Accounts /\ address \in {"address"} \X Addresses
      /\ account[1] = "account" /\ address[1] = "address"
  BY KeyFacts
<1>1. /\ attempt[a] = NoAttempt
      /\ attempt' = IF below THEN [attempt EXCEPT ![a] =
                         [pc |-> "login", account |-> account, address |-> address]]
                    ELSE attempt
  BY Verdict
<1>2. UNCHANGED recent
  BY DEF Check
<1>3. /\ attempt \in [Attempts -> {NoAttempt} \cup Accepted]
      /\ recent[k] \in Seq(Times) /\ Len(recent[k]) \in Nat
  BY Parts, LenProperties DEF IInv
<1> HIDE DEF account, address
<1>4. CASE below /\ k \in {account, address}
  <2>1. Len(recent[k]) + 1 <= Limit(k)
    BY <1>0, <1>3, <1>4, ThrottleAssumption DEF Limit
  <2>2. Limit(k) \in Nat
    BY ThrottleAssumption DEF Limit
  <2> QED
    BY <1>2, <1>3, <2>1, <2>2, AwaitingFacts, AwaitingFactsPrime DEF WithinOverrun
<1>5. CASE ~(below /\ k \in {account, address})
  <2>1. Awaiting(k)' \subseteq Awaiting(k)
    BY <1>1, <1>3, <1>5 DEF Awaiting
  <2> QED
    BY <1>2, <1>3, <2>1, OverrunEases
<1> QED
  BY <1>4, <1>5

LEMMA FailureOverrun ==
    ASSUME IInv, NEW a \in Attempts, RecordFailure(a), NEW k \in Keys, WithinOverrun(k)
    PROVE  WithinOverrun(k)'
<1> DEFINE account == attempt[a].account
           address == attempt[a].address
<1>1. /\ attempt[a].pc = "failed" /\ attempt' = [attempt EXCEPT ![a] = NoAttempt]
      /\ \/ recent'[k] = <<>> \/ recent'[k] = recent[k]
         \/ k \in {account, address} /\ recent'[k] = Append(recent[k], clock)
  BY DEF RecordFailure
<1>2. /\ attempt \in [Attempts -> {NoAttempt} \cup Accepted] /\ clock \in Times
      /\ recent[k] \in Seq(Times) /\ Len(recent[k]) \in Nat
      /\ <<>> \in Seq(Times) /\ Len(<<>>) = 0
  BY Parts, LenProperties, EmptySeq DEF IInv
<1>3. Awaiting(k)' \subseteq Awaiting(k) \ {a}
  BY <1>1, <1>2 DEF Awaiting, NoAttempt
<1>4. CASE recent'[k] = <<>> \/ recent'[k] = recent[k]
  <2>1. recent'[k] \in Seq(Times) /\ Len(recent'[k]) <= Len(recent[k])
    <3>1. CASE recent'[k] = <<>>
      BY <1>2, <3>1
    <3>2. CASE recent'[k] = recent[k]
      BY <1>2, <3>2
    <3> QED
      BY <1>4, <3>1, <3>2
  <2> QED
    BY <1>2, <1>3, <2>1, OverrunEases
<1>5. CASE k \in {account, address} /\ recent'[k] = Append(recent[k], clock)
  <2>1. Len(recent'[k]) = Len(recent[k]) + 1
    BY <1>2, <1>5, AppendProperties
  <2>2. a \in Awaiting(k)
    BY <1>1, <1>5 DEF Awaiting
  <2>3. Cardinality(Awaiting(k) \ {a}) = Cardinality(Awaiting(k)) - 1
        /\ IsFiniteSet(Awaiting(k) \ {a})
    BY <2>2, AwaitingFacts, FS_RemoveElement
  <2>4. Cardinality(Awaiting(k)') <= Cardinality(Awaiting(k) \ {a})
    BY <1>3, <2>3, FS_Subset
  <2>5. Limit(k) \in Nat
    BY ThrottleAssumption DEF Limit
  <2> QED
    BY <1>2, <2>1, <2>3, <2>4, <2>5, AwaitingFacts, AwaitingFactsPrime DEF WithinOverrun
<1> QED
  BY <1>1, <1>4, <1>5

(* The check and the record are apart, but the attempts that pass between  *)
(* them exceed a limit by no more than fit in flight together.  It is      *)
(* inductive beside IInv: an attempt that passes the check has seen a      *)
(* window below the limit, and what it may add to it is itself.            *)
THEOREM OverrunIsBounded == Spec => []OverrunBounded
<1>0. OverrunBounded <=> \A k \in Keys : WithinOverrun(k)
  BY DEF OverrunBounded, WithinOverrun, RecentFailures, Limit
<1>1. Init => \A k \in Keys : WithinOverrun(k)
  <2>1. SUFFICES ASSUME Init, NEW k \in Keys
                 PROVE  WithinOverrun(k)
    OBVIOUS
  <2>2. recent[k] = <<>> /\ Len(<<>>) = 0 /\ Awaiting(k) = {}
    BY <2>1, EmptySeq DEF Init, Awaiting, NoAttempt
  <2>3. Limit(k) \in Nat \ {0} /\ Cardinality({}) = 0
    BY ThrottleAssumption, FS_EmptySet DEF Limit
  <2> QED
    BY <2>2, <2>3, AwaitingFacts DEF WithinOverrun
<1>2. ASSUME IInv, IInv', [Next]_vars, NEW k \in Keys, WithinOverrun(k)
      PROVE  WithinOverrun(k)'
  <2>0. /\ attempt \in [Attempts -> {NoAttempt} \cup Accepted] /\ clock \in Times
        /\ recent[k] \in Seq(Times) /\ recent'[k] \in Seq(Times) /\ Len(recent[k]) \in Nat
        /\ failures[k] \in Seq(Times) /\ KeyOK(failures[k], recent[k], clock)
    BY <1>2, Parts, LenProperties DEF IInv, TypeOK, TableOK, Table, Times
  <2>1. ASSUME UNCHANGED recent, Awaiting(k)' \subseteq Awaiting(k)
        PROVE  WithinOverrun(k)'
    BY <1>2, <2>0, <2>1, OverrunEases
  <2>2. CASE UNCHANGED vars
    BY <2>1, <2>2 DEF vars, Awaiting
  <2>3. ASSUME NEW a \in Attempts, Login(a) \/ Abandon(a)
        PROVE  WithinOverrun(k)'
    <3>0. PICK outcome : /\ attempt[a].pc = "login"
                         /\ \/ attempt' = [attempt EXCEPT ![a].pc = outcome]
                            \/ attempt' = [attempt EXCEPT ![a] = NoAttempt]
      BY <2>3 DEF Login, Abandon
    <3>1. Awaiting(k)' \subseteq Awaiting(k)
      <4>1. attempt[a] \in Accepted
        BY <2>0, <3>0 DEF NoAttempt
      <4>2. /\ \A b \in Attempts \ {a} : attempt'[b] = attempt[b]
            /\ \/ attempt'[a].account = attempt[a].account /\ attempt'[a].address = attempt[a].address
               \/ attempt'[a] = NoAttempt
        BY <2>0, <3>0, <4>1 DEF Accepted
      <4> QED
        BY <3>0, <4>2 DEF Awaiting, NoAttempt
    <3> QED
      BY <2>1, <2>3, <3>1 DEF Login, Abandon
  <2>4. ASSUME NEW a \in Attempts, RecordSuccess(a)
        PROVE  WithinOverrun(k)'
    <3>1. Awaiting(k)' \subseteq Awaiting(k)
      BY <2>0, <2>4 DEF Awaiting, RecordSuccess, NoAttempt
    <3>2. recent'[k] \in {<<>>, recent[k]} /\ Len(<<>>) = 0
      BY <1>2, <2>4, EmptySeq DEF RecordSuccess, IInv, TypeOK
    <3>3. Len(recent'[k]) <= Len(recent[k])
      BY <2>0, <3>2
    <3> QED
      BY <1>2, <2>0, <3>1, <3>3, OverrunEases
  <2>5. CASE Tick
    <3>1. Awaiting(k)' \subseteq Awaiting(k)
      BY <2>5 DEF Awaiting, Tick, table
    <3>2. /\ clock + 1 \in Times
          /\ recent'[k] = SubSeq(recent[k], Cardinality(Expired(k, clock + 1)) + 1,
                                 Len(recent[k]))
      BY <2>0, <2>5, ThrottleAssumption, SMTT(30) DEF Tick, Times
    <3>3. LET gone == {i \in DOMAIN recent[k] : (clock + 1) - recent[k][i] >= Window}
          IN  Len(SubSeq(recent[k], Cardinality(gone) + 1, Len(recent[k]))) <= Len(recent[k])
      BY <2>0, <3>2, KeyMoves
    <3>4. Len(recent'[k]) <= Len(recent[k])
      BY <3>2, <3>3 DEF Expired
    <3> QED
      BY <1>2, <2>0, <3>1, <3>4, OverrunEases
  <2> QED
    BY <1>2, <2>2, <2>3, <2>4, <2>5, CheckOverrun, FailureOverrun DEF Next
<1> DEFINE Bounded == \A k \in Keys : WithinOverrun(k)
<1>3. IInv /\ IInv' /\ Bounded /\ [Next]_vars => Bounded'
  BY <1>2
<1>4. Init => Bounded
  BY <1>1
<1>5. Bounded => OverrunBounded
  BY <1>0
<1> HIDE DEF Bounded
<1>6. Spec => []Bounded
  BY <1>3, <1>4, Inductive, PTL DEF Spec
<1> QED
  BY <1>5, <1>6, PTL

-----------------------------------------------------------------------------
(* Failures that count are not forgotten *)

(* A deque that begins with the window forgets nothing that counts. *)
LEMMA WindowKeeps ==
    ASSUME NEW k, failures[k] \in Seq(Times), NEW window \in Seq(Times),
           NEW now \in Times, Mirrors(failures[k], window, now), clock' = now,
           \A i \in 1..Len(window) : i \in DOMAIN failures'[k] /\ failures'[k][i] = window[i]
    PROVE  ~Forgets(k)
<1> DEFINE times == failures[k]
           c == Len(times) - Len(window)
<1>0. SUFFICES ASSUME NEW i \in DOMAIN times, Within(times[i], now)
               PROVE  \E j \in DOMAIN failures'[k] : failures'[k][j] = times[i]
  BY DEF Forgets
<1>1. Len(times) \in Nat /\ Len(window) \in Nat /\ DOMAIN times = 1..Len(times)
  BY LenProperties
<1>2. /\ c \in Nat /\ \A n \in 1..Len(window) : times[c + n] = window[n]
      /\ \A n \in 1..c : ~Within(times[n], now)
  BY DEF Mirrors
<1> HIDE DEF times
<1>3. i - c \in 1..Len(window) /\ c + (i - c) = i
  <2>1. c + Len(window) = Len(times) /\ i \in 1..Len(times)
    BY <1>0, <1>1
  <2>2. i \notin 1..c
    BY <1>0, <1>2
  <2> HIDE DEF c
  <2> QED
    BY <1>1, <1>2, <2>1, <2>2
<1>4. times[i] = window[i - c]
  BY <1>2, <1>3
<1> QED
  BY <1>3, <1>4

LEMMA CheckKeeps ==
    ASSUME IInv, NEW a \in Attempts, NEW e \in Emails, NEW x \in Addresses, Check(a, e, x),
           NEW k \in Keys
    PROVE  ~Forgets(k)
<1> DEFINE account == AccountKey(e)
           address == AddressKey(x)
           t == Pruned(Pruned(Table, account, clock), address, clock)
<1>0. t.failures = [failures EXCEPT ![account] = recent[account],
                                    ![address] = recent[address]]
  BY CheckFacts
<1>1. failures' = t.failures /\ clock' = clock
  BY DEF Check, Becomes
<1>2. /\ failures \in [Keys -> Seq(Times)] /\ clock \in Times /\ recent[k] \in Seq(Times)
      /\ failures[k] \in Seq(Times) /\ Mirrors(failures[k], recent[k], clock)
  BY Parts DEF IInv, TableOK, Table, KeyOK
<1> HIDE DEF account, address, t
<1>3. CASE failures'[k] = failures[k]
  BY <1>3 DEF Forgets
<1>4. CASE failures'[k] = recent[k]
  BY <1>1, <1>2, <1>4, WindowKeeps, LenProperties
<1> QED
  BY <1>0, <1>1, <1>2, <1>3, <1>4

LEMMA FailureKeeps ==
    ASSUME IInv, NEW a \in Attempts, RecordFailure(a), NEW k \in Keys, Forgets(k)
    PROVE  Len(order') = MaxKeys
<1> DEFINE account == attempt[a].account
           address == attempt[a].address
           t == Recorded(Recorded(Table, account, clock), address, clock)
<1>0. attempt[a].pc = "failed" /\ Becomes(Evicted(t)) /\ clock' = clock
  BY DEF RecordFailure
<1>1. /\ attempt \in [Attempts -> {NoAttempt} \cup Accepted] /\ clock \in Times
      /\ recent[k] \in Seq(Times) /\ failures[k] \in Seq(Times)
      /\ Mirrors(failures[k], recent[k], clock)
  BY Parts DEF IInv, TableOK, Table, KeyOK
<1>2. account \in Keys /\ address \in Keys /\ account # address
  <2>1. attempt[a] \in Accepted
    BY <1>0, <1>1 DEF NoAttempt
  <2> QED
    BY <2>1, KeyFacts DEF Accepted
<1>3. /\ TableOK(t)
      /\ \A l \in {account, address} : t.failures[l] = Append(recent[l], clock)
      /\ \A l \in Keys \ {account, address} : t.failures[l] = failures[l]
  BY <1>2, FailureFacts
<1>4. /\ order' = Evicted(t).order
      /\ failures' = [l \in Keys |-> IF l \in Gone(t) THEN <<>> ELSE t.failures[l]]
  BY <1>0 DEF Evicted, Becomes
<1>5. Gone(t) # {} => Len(Evicted(t).order) = MaxKeys
  BY <1>3, EvictedTable
<1> HIDE DEF account, address, t
<1>6. CASE k \in Gone(t)
  BY <1>4, <1>5, <1>6
<1>7. CASE k \notin Gone(t) /\ k \in {account, address}
  <2>1. failures'[k] = Append(recent[k], clock)
    BY <1>3, <1>4, <1>7
  <2>2. /\ DOMAIN Append(recent[k], clock) = 1..Len(recent[k]) + 1
        /\ \A i \in 1..Len(recent[k]) : Append(recent[k], clock)[i] = recent[k][i]
        /\ Len(recent[k]) \in Nat
    BY <1>1, AppendProperties, LenProperties
  <2>3. \A i \in 1..Len(recent[k]) :
            i \in DOMAIN failures'[k] /\ failures'[k][i] = recent[k][i]
    BY <2>1, <2>2
  <2>4. ~Forgets(k)
    BY <1>0, <1>1, <2>3, WindowKeeps
  <2> QED
    BY <2>4
<1>8. CASE k \notin Gone(t) /\ k \notin {account, address}
  <2>1. failures'[k] = failures[k]
    BY <1>3, <1>4, <1>8
  <2> QED
    BY <2>1 DEF Forgets
<1> QED
  BY <1>6, <1>7, <1>8

(* "Clear the successful account while retaining address-wide abuse        *)
(* pressure": a failure that still counts is lost only to a login of its   *)
(* account, or to an eviction that leaves the table full.                  *)
THEOREM CountedFailuresKept == Spec => FailuresKept
<1> DEFINE Kept ==
      \A k \in Keys : Forgets(k) =>
         \/ \E a \in Attempts : RecordSuccess(a) /\ attempt[a].account = k
         \/ Len(order') = MaxKeys
<1>1. ASSUME IInv, [Next]_vars, NEW k \in Keys, Forgets(k)
      PROVE  \/ \E a \in Attempts : RecordSuccess(a) /\ attempt[a].account = k
             \/ Len(order') = MaxKeys
  <2>1. failures'[k] # failures[k]
    BY <1>1 DEF Forgets
  <2>2. ASSUME NEW a \in Attempts, RecordSuccess(a)
        PROVE  attempt[a].account = k
    <3>1. failures' = [failures EXCEPT ![attempt[a].account] = <<>>]
      BY <2>2 DEF RecordSuccess, Becomes, Forgiven, Table
    <3> QED
      BY <2>1, <3>1, <1>1 DEF IInv, TypeOK
  <2>3. CASE \E a \in Attempts : Login(a) \/ Abandon(a)
    BY <2>1, <2>3 DEF Login, Abandon, table
  <2>4. CASE Tick \/ UNCHANGED vars
    BY <2>1, <2>4 DEF Tick, table, vars
  <2> QED
    BY <1>1, <2>2, <2>3, <2>4, CheckKeeps, FailureKeeps DEF Next
<1>2. IInv /\ [Next]_vars => Kept
  BY <1>1
<1> HIDE DEF Kept
<1>3. IInv /\ [Next]_vars => [Kept]_vars
  BY <1>2
<1>4. Spec => [][Kept]_vars
  BY <1>3, Inductive, PTL DEF Spec
<1> QED
  BY <1>4 DEF FailuresKept, Kept

-----------------------------------------------------------------------------
(* Keys that have failures *)

Failing == {k \in Keys : failures[k] # <<>>}

(* They are listed, so that there are no more of them than the list has.   *)
LEMMA ListedAreCounted ==
    ASSUME NEW keys \in Seq(Keys), NEW T \in SUBSET Keys, \A k \in T : Listed(keys, k)
    PROVE  IsFiniteSet(T) /\ Cardinality(T) \in Nat /\ Cardinality(T) <= Len(keys)
<1> DEFINE n == Len(keys)
           image == {keys[i] : i \in 1..n}
<1>1. n \in Nat /\ DOMAIN keys = 1..n /\ keys = [i \in 1..n |-> keys[i]]
  BY LenProperties
<1>2. keys \in Surjection(1..n, image)
  BY <1>1 DEF Surjection
<1>3. IsFiniteSet(1..n) /\ Cardinality(1..n) = n
  BY <1>1, FS_Interval
<1>4. IsFiniteSet(image) /\ Cardinality(image) <= n
  BY <1>2, <1>3, FS_Surjection
<1>5. T \in SUBSET image
  BY <1>1 DEF Listed
<1>6. IsFiniteSet(T) /\ Cardinality(T) <= Cardinality(image)
  BY <1>4, <1>5, FS_Subset
<1> QED
  BY <1>1, <1>4, <1>6, FS_CardinalityType

(* A step that gives no other key a failure. *)
LEMMA FewerFail ==
    ASSUME IInv, FailuresBounded, Failing' \subseteq Failing
    PROVE  FailuresBounded'
<1>1. order \in Seq(Keys) /\ \A k \in Failing : Listed(order, k)
  BY Parts DEF IInv, TableOK, Table, Failing
<1>2. IsFiniteSet(Failing) /\ Cardinality(Failing) \in Nat
  BY <1>1, ListedAreCounted DEF Failing
<1>3. Cardinality(Failing') <= Cardinality(Failing) /\ IsFiniteSet(Failing')
  BY <1>2, FS_Subset
<1>4. Cardinality(Failing') \in Nat
  BY <1>3, FS_CardinalityType
<1>5. Cardinality(Failing) <= MaxKeys /\ MaxKeys \in Nat
  BY ThrottleAssumption DEF FailuresBounded, Failing
<1>6. Cardinality(Failing') <= MaxKeys
  BY <1>2, <1>3, <1>4, <1>5
<1> QED
  BY <1>6 DEF FailuresBounded, Failing

(* A check leaves a key what the window has of it: an empty deque remains  *)
(* one.                                                                    *)
LEMMA CheckFewer ==
    ASSUME IInv, NEW a \in Attempts, NEW e \in Emails, NEW x \in Addresses, Check(a, e, x)
    PROVE  Failing' \subseteq Failing
<1> DEFINE account == AccountKey(e)
           address == AddressKey(x)
<1>1. failures' = [failures EXCEPT ![account] = recent[account],
                                   ![address] = recent[address]]
  BY CheckFacts DEF Check, Becomes
<1>2. /\ failures \in [Keys -> Seq(Times)]
      /\ \A k \in Keys : /\ failures[k] \in Seq(Times) /\ recent[k] \in Seq(Times)
                         /\ Mirrors(failures[k], recent[k], clock)
  BY Parts DEF IInv, TableOK, Table, KeyOK
<1> HIDE DEF account, address
<1>3. ASSUME NEW k \in Keys, failures[k] = <<>>
      PROVE  failures'[k] = <<>>
  <2>1. Len(recent[k]) \in Nat /\ Len(failures[k]) = 0
    BY <1>2, <1>3, LenProperties
  <2>2. Len(failures[k]) - Len(recent[k]) \in Nat
    BY <1>2 DEF Mirrors
  <2>3. Len(recent[k]) = 0
    BY <2>1, <2>2
  <2>4. recent[k] = <<>>
    BY <1>2, <2>3, EmptySeq
  <2> QED
    BY <1>1, <1>2, <1>3, <2>4
<1> QED
  BY <1>3 DEF Failing

(* A recorded failure evicts until the list is short enough. *)
LEMMA FailureFits ==
    ASSUME IInv, IInv', NEW a \in Attempts, RecordFailure(a)
    PROVE  FailuresBounded'
<1> DEFINE t == Recorded(Recorded(Table, attempt[a].account, clock),
                         attempt[a].address, clock)
<1>1. order' = Evicted(t).order
  BY DEF RecordFailure, Becomes
<1>2. attempt[a].pc = "failed" /\ attempt \in [Attempts -> {NoAttempt} \cup Accepted]
  BY Parts DEF IInv, RecordFailure
<1>3. attempt[a] \in Accepted
  BY <1>2 DEF NoAttempt
<1>4. /\ attempt[a].account \in Keys /\ attempt[a].address \in Keys
      /\ attempt[a].account # attempt[a].address
  BY <1>3, KeyFacts DEF Accepted
<1>5. TableOK(t)
  BY <1>4, FailureFacts
<1>6. Len(Evicted(t).order) <= MaxKeys
  BY <1>5, EvictedTable
<1>7. order' \in Seq(Keys) /\ \A k \in Failing' : Listed(order', k)
  BY DEF IInv, TypeOK, Listed, Failing
<1>8. /\ Cardinality(Failing') \in Nat /\ Cardinality(Failing') <= Len(order')
      /\ Len(order') \in Nat
  BY <1>7, ListedAreCounted, LenProperties DEF Failing
<1>9. Cardinality(Failing') <= MaxKeys
  BY <1>1, <1>6, <1>8, ThrottleAssumption
<1> QED
  BY <1>9 DEF FailuresBounded, Failing

(* "Bounded state": whatever attempts are made, no more than MaxKeys keys  *)
(* ever have failures.                                                     *)
THEOREM FailuresStayBounded == Spec => []FailuresBounded
<1>1. Init => FailuresBounded
  <2>1. Init => Failing = {}
    BY DEF Init, Failing
  <2>2. FailuresBounded <=> Cardinality(Failing) <= MaxKeys
    BY DEF FailuresBounded, Failing
  <2>3. Cardinality({}) <= MaxKeys
    BY FS_EmptySet, ThrottleAssumption
  <2> QED
    BY <2>1, <2>2, <2>3
<1>2. IInv /\ IInv' /\ FailuresBounded /\ [Next]_vars => FailuresBounded'
  <2>1. SUFFICES ASSUME IInv, IInv', FailuresBounded, [Next]_vars
                 PROVE  FailuresBounded'
    OBVIOUS
  <2>2. CASE UNCHANGED failures
    BY <2>1, <2>2, FewerFail DEF Failing
  <2>3. ASSUME NEW a \in Attempts, RecordSuccess(a)
        PROVE  Failing' \subseteq Failing
    <3>1. failures' = [failures EXCEPT ![attempt[a].account] = <<>>]
      BY <2>3 DEF RecordSuccess, Becomes, Forgiven, Table
    <3> QED
      BY <2>1, <3>1 DEF Failing, IInv, TypeOK
  <2> QED
    BY <2>1, <2>2, <2>3, FewerFail, CheckFewer, FailureFits
       DEF Next, Login, Abandon, Tick, table, vars
<1> QED
  BY <1>1, <1>2, Inductive, PTL DEF Spec

=============================================================================
