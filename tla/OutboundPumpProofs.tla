------------------------ MODULE OutboundPumpProofs ------------------------
(***************************************************************************)
(* Proofs about OutboundPump, for every set of handles and every length of *)
(* a buffer, a chunk, the socketpair and the application's output: its     *)
(* type invariant, the order of a session's bytes and that none is lost    *)
(* behind the application's back.                                          *)
(***************************************************************************)
EXTENDS OutboundPump, SequenceTheorems, TLAPS

---------------------------------------------------------------------------
(* Sequences of bytes.  Only the bytes above e, written after register(),  *)
(* are under the ordering promise.                                         *)

\* The late bytes of s ascend.
Ascending(e, s) ==
    \A i, j \in DOMAIN s : e < s[i] /\ e < s[j] /\ i < j => s[i] < s[j]

\* The late bytes of s were all written before those of t.
Ahead(e, s, t) ==
    \A x \in Range(s), y \in Range(t) : e < x /\ e < y => x < y

\* No byte of s is late, or above m.
UpTo(m, s) == \A x \in Range(s) : x <= m

\* An empty sequence has no bytes.
LEMMA RangeEmpty == Range(<<>>) = {}
  BY DEF Range

\* The bytes of a concatenation are those of its parts.
LEMMA CatFacts ==
  ASSUME NEW S, NEW s \in Seq(S), NEW t \in Seq(S)
  PROVE  /\ s \o t \in Seq(S)
         /\ Range(s \o t) = Range(s) \cup Range(t)
         /\ Range(s) \subseteq S
  <1>1. /\ s \o t \in Seq(S)
        /\ Len(s \o t) = Len(s) + Len(t)
        /\ \A i \in 1..Len(s) + Len(t) :
              (s \o t)[i] = IF i <= Len(s) THEN s[i] ELSE t[i - Len(s)]
    BY ConcatProperties
  <1>2. Len(s) \in Nat /\ Len(t) \in Nat /\ DOMAIN s = 1..Len(s) /\ DOMAIN t = 1..Len(t)
    BY LenProperties
  <1>3. DOMAIN (s \o t) = 1..Len(s) + Len(t)
    BY <1>1, LenProperties
  <1>4. ASSUME NEW x \in Range(s) PROVE x \in Range(s \o t) /\ x \in S
    <2>1. PICK i \in 1..Len(s) : x = s[i]
      BY <1>2 DEF Range
    <2>2. i \in 1..Len(s) + Len(t) /\ (s \o t)[i] = s[i]
      BY <1>1, <1>2
    <2> QED
      BY <2>1, <2>2, <1>3, <1>2 DEF Range
  <1>5. ASSUME NEW x \in Range(t) PROVE x \in Range(s \o t)
    <2>1. PICK i \in 1..Len(t) : x = t[i]
      BY <1>2 DEF Range
    <2>2. i + Len(s) \in 1..Len(s) + Len(t) /\ (s \o t)[i + Len(s)] = t[i]
      BY <1>1, <1>2
    <2> QED
      BY <2>1, <2>2, <1>3 DEF Range
  <1>6. ASSUME NEW x \in Range(s \o t) PROVE x \in Range(s) \cup Range(t)
    <2>1. PICK i \in 1..Len(s) + Len(t) : x = (s \o t)[i]
      BY <1>3 DEF Range
    <2>2. CASE i <= Len(s)
      <3>1. i \in 1..Len(s) /\ x = s[i]
        BY <2>1, <2>2, <1>1, <1>2
      <3> QED
        BY <3>1, <1>2 DEF Range
    <2>3. CASE ~(i <= Len(s))
      <3>1. i - Len(s) \in 1..Len(t) /\ x = t[i - Len(s)]
        BY <2>1, <2>3, <1>1, <1>2
      <3> QED
        BY <3>1, <1>2 DEF Range
    <2> QED
      BY <2>2, <2>3
  <1> QED
    BY <1>1, <1>4, <1>5, <1>6

\* Putting behind s what was written after it keeps the order.
LEMMA AscendingCat ==
  ASSUME NEW S, NEW s \in Seq(S), NEW t \in Seq(S), NEW e,
         Ascending(e, s), Ascending(e, t), Ahead(e, s, t)
  PROVE  Ascending(e, s \o t)
  <1>1. /\ Len(s \o t) = Len(s) + Len(t)
        /\ \A i \in 1..Len(s) + Len(t) :
              (s \o t)[i] = IF i <= Len(s) THEN s[i] ELSE t[i - Len(s)]
    BY ConcatProperties
  <1>2. Len(s) \in Nat /\ Len(t) \in Nat /\ DOMAIN s = 1..Len(s) /\ DOMAIN t = 1..Len(t)
    BY LenProperties
  <1>3. DOMAIN (s \o t) = 1..Len(s) + Len(t)
    BY <1>1, LenProperties, ConcatProperties
  <1> DEFINE c == s \o t
  <1> SUFFICES ASSUME NEW i \in 1..Len(s) + Len(t), NEW j \in 1..Len(s) + Len(t),
                      e < c[i], e < c[j], i < j
               PROVE  c[i] < c[j]
    BY <1>3 DEF Ascending
  <1> HIDE DEF c
  <1>4. CASE j <= Len(s)
    <2>1. i \in 1..Len(s) /\ j \in 1..Len(s) /\ c[i] = s[i] /\ c[j] = s[j]
      BY <1>1, <1>2, <1>4 DEF c
    <2> QED
      BY <2>1, <1>2 DEF Ascending
  <1>5. CASE i <= Len(s) /\ ~(j <= Len(s))
    <2>1. /\ i \in 1..Len(s) /\ j - Len(s) \in 1..Len(t)
          /\ c[i] = s[i] /\ c[j] = t[j - Len(s)]
      BY <1>1, <1>2, <1>5 DEF c
    <2>2. s[i] \in Range(s) /\ t[j - Len(s)] \in Range(t)
      BY <2>1, <1>2 DEF Range
    <2> QED
      BY <2>1, <2>2 DEF Ahead
  <1>6. CASE ~(i <= Len(s))
    <2>1. /\ i - Len(s) \in 1..Len(t) /\ j - Len(s) \in 1..Len(t)
          /\ i - Len(s) < j - Len(s)
          /\ c[i] = t[i - Len(s)] /\ c[j] = t[j - Len(s)]
      BY <1>1, <1>2, <1>6 DEF c
    <2> QED
      BY <2>1, <1>2 DEF Ascending
  <1> QED
    BY <1>4, <1>5, <1>6, <1>2

\* What recv or a chunk takes off the front of s, and what it leaves.
LEMMA CutFacts ==
  ASSUME NEW S, NEW s \in Seq(S), NEW n \in 0..Len(s)
  PROVE  /\ SubSeq(s, 1, n) \in Seq(S)
         /\ SubSeq(s, n + 1, Len(s)) \in Seq(S)
         /\ Len(SubSeq(s, 1, n)) = n
         /\ Len(SubSeq(s, n + 1, Len(s))) = Len(s) - n
         /\ \A i \in 1..n : SubSeq(s, 1, n)[i] = s[i]
         /\ \A i \in 1..Len(s) - n : SubSeq(s, n + 1, Len(s))[i] = s[n + i]
  <1>1. Len(s) \in Nat /\ \A i \in 1..Len(s) : s[i] \in S
    BY LenProperties
  <1>2. n \in Nat /\ n <= Len(s)
    BY <1>1
  <1>3. /\ \A i \in 1..n : s[i] \in S
        /\ \A i \in (n + 1)..Len(s) : s[i] \in S
    BY <1>1, <1>2
  <1> DEFINE a == SubSeq(s, 1, n)
             b == SubSeq(s, n + 1, Len(s))
  <1>4. /\ a \in Seq(S) /\ Len(a) = IF 1 <= n THEN n - 1 + 1 ELSE 0
        /\ \A i \in 1..n - 1 + 1 : a[i] = s[1 + i - 1]
    BY <1>1, <1>2, <1>3, SubSeqProperties
  <1>5. n + 1 \in Int /\ Len(s) \in Int
    BY <1>1, <1>2
  <1>6. /\ b \in Seq(S) /\ Len(b) = IF n + 1 <= Len(s) THEN Len(s) - (n + 1) + 1 ELSE 0
        /\ \A i \in 1..Len(s) - (n + 1) + 1 : b[i] = s[n + 1 + i - 1]
    BY <1>3, <1>5, SubSeqProperties
  <1> HIDE DEF a, b
  <1>7. Len(a) = n /\ \A i \in 1..n : a[i] = s[i]
    BY <1>2, <1>4
  <1>8. Len(b) = Len(s) - n /\ \A i \in 1..Len(s) - n : b[i] = s[n + i]
    BY <1>1, <1>2, <1>6
  <1> QED
    BY <1>4, <1>6, <1>7, <1>8 DEF a, b

\* Cutting loses no byte and keeps the order on both sides of the cut.
LEMMA CutOrder ==
  ASSUME NEW S, NEW s \in Seq(S), NEW n \in 0..Len(s), NEW e
  PROVE  LET a == SubSeq(s, 1, n)
             b == SubSeq(s, n + 1, Len(s))
         IN  /\ Range(s) = Range(a) \cup Range(b)
             /\ Ascending(e, s) => /\ Ascending(e, a) /\ Ascending(e, b)
                                   /\ Ahead(e, a, b)
  <1> DEFINE a == SubSeq(s, 1, n)
             b == SubSeq(s, n + 1, Len(s))
  <1>1. /\ a \in Seq(S) /\ b \in Seq(S) /\ Len(a) = n /\ Len(b) = Len(s) - n
        /\ \A i \in 1..n : a[i] = s[i]
        /\ \A i \in 1..Len(s) - n : b[i] = s[n + i]
    BY CutFacts
  <1> HIDE DEF a, b
  <1>2. /\ Len(s) \in Nat /\ n \in Nat /\ n <= Len(s)
        /\ DOMAIN s = 1..Len(s) /\ DOMAIN a = 1..n /\ DOMAIN b = 1..Len(s) - n
    BY <1>1, LenProperties
  <1>3. ASSUME NEW x \in Range(a) PROVE \E i \in 1..n : x = s[i]
    BY <1>1, <1>2 DEF Range
  <1>4. ASSUME NEW x \in Range(b) PROVE \E i \in n + 1..Len(s) : x = s[i]
    <2>1. PICK i \in 1..Len(s) - n : x = b[i]
      BY <1>2 DEF Range
    <2>2. n + i \in n + 1..Len(s) /\ x = s[n + i]
      BY <2>1, <1>1, <1>2
    <2> QED
      BY <2>2
  <1>5. ASSUME NEW x \in Range(s) PROVE x \in Range(a) \cup Range(b)
    <2>1. PICK i \in 1..Len(s) : x = s[i]
      BY <1>2 DEF Range
    <2>2. CASE i <= n
      <3>1. i \in 1..n /\ x = a[i]
        BY <2>1, <2>2, <1>1, <1>2
      <3> QED
        BY <3>1, <1>2 DEF Range
    <2>3. CASE ~(i <= n)
      <3>1. i - n \in 1..Len(s) - n /\ n + (i - n) = i
        BY <2>3, <1>2
      <3>2. x = b[i - n]
        BY <3>1, <2>1, <1>1
      <3> QED
        BY <3>1, <3>2, <1>2 DEF Range
    <2> QED
      BY <2>2, <2>3
  <1>6. Range(a) \subseteq Range(s)
    <2>1. \A i \in 1..n : s[i] \in Range(s)
      BY <1>2 DEF Range
    <2> QED
      BY <1>3, <2>1
  <1>7. Range(b) \subseteq Range(s)
    <2>1. \A i \in n + 1..Len(s) : s[i] \in Range(s)
      BY <1>2 DEF Range
    <2> QED
      BY <1>4, <2>1
  <1>8. ASSUME Ascending(e, s)
        PROVE  Ascending(e, a) /\ Ascending(e, b) /\ Ahead(e, a, b)
    <2>1. \A i, j \in 1..Len(s) : e < s[i] /\ e < s[j] /\ i < j => s[i] < s[j]
      BY <1>8, <1>2 DEF Ascending
    <2>2. Ascending(e, a)
      BY <2>1, <1>1, <1>2 DEF Ascending
    <2>3. Ascending(e, b)
      <3> SUFFICES ASSUME NEW i \in 1..Len(s) - n, NEW j \in 1..Len(s) - n,
                          e < b[i], e < b[j], i < j
                   PROVE  b[i] < b[j]
        BY <1>2 DEF Ascending
      <3>1. n + i \in 1..Len(s) /\ n + j \in 1..Len(s) /\ n + i < n + j
        BY <1>2
      <3>2. b[i] = s[n + i] /\ b[j] = s[n + j]
        BY <1>1
      <3> QED
        BY <3>1, <3>2, <2>1
    <2>4. Ahead(e, a, b)
      <3> SUFFICES ASSUME NEW x \in Range(a), NEW y \in Range(b), e < x, e < y
                   PROVE  x < y
        BY DEF Ahead
      <3>1. PICK i \in 1..n : x = s[i]
        BY <1>3
      <3>2. PICK j \in n + 1..Len(s) : y = s[j]
        BY <1>4
      <3>3. i \in 1..Len(s) /\ j \in 1..Len(s) /\ i < j
        BY <1>2
      <3> QED
        BY <3>1, <3>2, <3>3, <2>1
    <2> QED
      BY <2>2, <2>3, <2>4
  <1> QED
    BY <1>5, <1>6, <1>7, <1>8 DEF a, b

\* One byte more at the end of the socketpair.
LEMMA AppendFacts ==
  ASSUME NEW S, NEW s \in Seq(S), NEW b \in S
  PROVE  /\ Append(s, b) \in Seq(S) /\ Len(Append(s, b)) = Len(s) + 1
         /\ \A x : x \in Range(Append(s, b)) <=> x \in Range(s) \/ x = b
  <1>1. /\ Append(s, b) \in Seq(S) /\ Len(Append(s, b)) = Len(s) + 1
        /\ \A i \in 1..Len(s) : Append(s, b)[i] = s[i]
        /\ Append(s, b)[Len(s) + 1] = b
    BY AppendProperties
  <1>2. Len(s) \in Nat /\ DOMAIN s = 1..Len(s) /\ DOMAIN Append(s, b) = 1..Len(s) + 1
    BY <1>1, LenProperties
  <1>3. Range(s) \subseteq Range(Append(s, b))
    <2>1. \A i \in 1..Len(s) : i \in 1..Len(s) + 1
      BY <1>2
    <2> QED
      BY <1>1, <1>2, <2>1 DEF Range
  <1>4. b \in Range(Append(s, b))
    <2>1. Len(s) + 1 \in 1..Len(s) + 1
      BY <1>2
    <2> QED
      BY <1>1, <1>2, <2>1 DEF Range
  <1>5. ASSUME NEW x \in Range(Append(s, b)) PROVE x \in Range(s) \cup {b}
    <2>1. PICK i \in 1..Len(s) + 1 : x = Append(s, b)[i]
      BY <1>2 DEF Range
    <2>2. i \in 1..Len(s) \/ i = Len(s) + 1
      BY <1>2
    <2> QED
      BY <2>1, <2>2, <1>1, <1>2 DEF Range
  <1> QED
    BY <1>1, <1>3, <1>4, <1>5

\* A byte above all others may follow them.
LEMMA AscendingAppend ==
  ASSUME NEW S, NEW s \in Seq(S), NEW b \in S, NEW e, Ascending(e, s),
         \A x \in Range(s) : x < b
  PROVE  Ascending(e, Append(s, b))
  <1>1. /\ Append(s, b) \in Seq(S) /\ Len(Append(s, b)) = Len(s) + 1
        /\ \A i \in 1..Len(s) : Append(s, b)[i] = s[i]
        /\ Append(s, b)[Len(s) + 1] = b
    BY AppendProperties
  <1>2. Len(s) \in Nat /\ DOMAIN s = 1..Len(s) /\ DOMAIN Append(s, b) = 1..Len(s) + 1
    BY <1>1, LenProperties
  <1> DEFINE c == Append(s, b)
  <1> SUFFICES ASSUME NEW i \in 1..Len(s) + 1, NEW j \in 1..Len(s) + 1,
                      e < c[i], e < c[j], i < j
               PROVE  c[i] < c[j]
    BY <1>2 DEF Ascending
  <1> HIDE DEF c
  <1>3. i \in 1..Len(s) /\ c[i] = s[i] /\ s[i] \in Range(s)
    BY <1>1, <1>2 DEF c, Range
  <1>4. CASE j \in 1..Len(s)
    BY <1>1, <1>2, <1>3, <1>4 DEF c, Ascending
  <1>5. CASE j = Len(s) + 1
    BY <1>1, <1>3, <1>5 DEF c
  <1> QED
    BY <1>2, <1>4, <1>5

\* The buffer of an interposed write: the n bytes after the first m.
LEMMA NewFacts ==
  ASSUME NEW m \in Nat, NEW n \in Nat, NEW k \in Nat, m + n <= k, NEW e
  PROVE  LET s == [i \in 1..n |-> m + i]
         IN  /\ s \in Seq(1..k) /\ Ascending(e, s)
             /\ Range(s) = m + 1..m + n
  <1> DEFINE s == [i \in 1..n |-> m + i]
  <1>1. s \in [1..n -> 1..k]
    OBVIOUS
  <1>2. s \in Seq(1..k)
    BY <1>1, SeqDef
  <1>3. Ascending(e, s)
    BY DEF Ascending
  <1>4. Range(s) \subseteq m + 1..m + n
    BY DEF Range
  <1>5. ASSUME NEW x \in m + 1..m + n PROVE x \in Range(s)
    <2>1. x - m \in 1..n /\ x = s[x - m]
      OBVIOUS
    <2> QED
      BY <2>1 DEF Range
  <1> QED
    BY <1>2, <1>3, <1>4, <1>5

---------------------------------------------------------------------------
(* The stages of a session: on the wire (w), in the pump's hand (p), in    *)
(* the hand of the application's thread (a), in the socketpair (q) and in  *)
(* the buffer of a write that waits for its turn (d).                      *)

\* Each stage ascends, and each is ahead of the ones behind it.
OrderOf(e, w, p, a, q, d) ==
    /\ Ascending(e, w) /\ Ascending(e, p) /\ Ascending(e, a)
    /\ Ascending(e, q) /\ Ascending(e, d)
    /\ Ahead(e, w, p) /\ Ahead(e, w, a) /\ Ahead(e, w, q) /\ Ahead(e, w, d)
    /\ Ahead(e, p, a) /\ Ahead(e, p, q) /\ Ahead(e, p, d)
    /\ Ahead(e, a, q) /\ Ahead(e, a, d)
    /\ Ahead(e, q, d)

\* The bytes of all stages.
BytesOf(w, p, a, q, d) ==
    Range(w) \cup Range(p) \cup Range(a) \cup Range(q) \cup Range(d)

\* An empty stage is in order with every other.
LEMMA NothingAhead ==
  ASSUME NEW e, NEW s
  PROVE  Ascending(e, <<>>) /\ Ahead(e, <<>>, s) /\ Ahead(e, s, <<>>)
  BY RangeEmpty DEF Ascending, Ahead

\* Stages that are in order make a session that is in order.
LEMMA WholeOrder ==
  ASSUME NEW S, NEW e, NEW w \in Seq(S), NEW p \in Seq(S), NEW a \in Seq(S),
         NEW q \in Seq(S), NEW d \in Seq(S), OrderOf(e, w, p, a, q, d)
  PROVE  /\ Ascending(e, w \o p \o a \o q \o d)
         /\ Range(w \o p \o a \o q \o d) = BytesOf(w, p, a, q, d)
  <1>1. /\ w \o p \in Seq(S) /\ Range(w \o p) = Range(w) \cup Range(p)
        /\ Ascending(e, w \o p)
    BY CatFacts, AscendingCat DEF OrderOf
  <1> DEFINE x == w \o p
  <1>2. x \in Seq(S) /\ Range(x) = Range(w) \cup Range(p) /\ Ascending(e, x)
    BY <1>1
  <1> HIDE DEF x
  <1>3. Ahead(e, x, a)
    BY <1>2 DEF OrderOf, Ahead
  <1> DEFINE y == x \o a
  <1>4. y \in Seq(S) /\ Range(y) = Range(w) \cup Range(p) \cup Range(a) /\ Ascending(e, y)
    BY <1>2, <1>3, CatFacts, AscendingCat DEF OrderOf
  <1> HIDE DEF y
  <1>5. Ahead(e, y, q)
    BY <1>4 DEF OrderOf, Ahead
  <1> DEFINE z == y \o q
  <1>6. /\ z \in Seq(S) /\ Range(z) = Range(w) \cup Range(p) \cup Range(a) \cup Range(q)
        /\ Ascending(e, z)
    BY <1>4, <1>5, CatFacts, AscendingCat DEF OrderOf
  <1> HIDE DEF z
  <1>7. Ahead(e, z, d)
    BY <1>6 DEF OrderOf, Ahead
  <1>8. Range(z \o d) = BytesOf(w, p, a, q, d) /\ Ascending(e, z \o d)
    BY <1>6, <1>7, CatFacts, AscendingCat DEF OrderOf, BytesOf
  <1> QED
    BY <1>8 DEF x, y, z

\* Bytes that are dropped are in nobody's way.
LEMMA Dropped ==
  ASSUME NEW e, NEW w, NEW p, NEW a, NEW q, NEW d, OrderOf(e, w, p, a, q, d)
  PROVE  /\ OrderOf(e, w, <<>>, a, q, d)
         /\ OrderOf(e, w, p, <<>>, q, d)
         /\ OrderOf(e, w, p, a, <<>>, d)
         /\ OrderOf(e, w, p, a, q, <<>>)
  BY NothingAhead DEF OrderOf

\* Nor are bytes that are not late.
LEMMA NotLate ==
  ASSUME NEW e \in Nat, NEW s \in Seq(Nat), UpTo(e, s)
  PROVE  /\ Ascending(e, s)
         /\ \A t : Ahead(e, s, t) /\ Ahead(e, t, s)
  <1>1. \A x \in Range(s) : x \in Nat /\ ~(e < x)
    BY CatFacts DEF UpTo
  <1>2. \A i \in DOMAIN s : s[i] \in Range(s)
    BY DEF Range
  <1> QED
    BY <1>1, <1>2 DEF Ascending, Ahead

\* Stages without late bytes are in order, whatever they hold.
LEMMA NoneLate ==
  ASSUME NEW e \in Nat, NEW w \in Seq(Nat), NEW p \in Seq(Nat), NEW a \in Seq(Nat),
         NEW q \in Seq(Nat), NEW d \in Seq(Nat),
         UpTo(e, w), UpTo(e, p), UpTo(e, a), UpTo(e, q), UpTo(e, d)
  PROVE  OrderOf(e, w, p, a, q, d)
  BY NotLate DEF OrderOf

\* s is cut into c and the rest r.
Cuts(e, s, c, r) ==
    /\ Range(s) = Range(c) \cup Range(r)
    /\ Ascending(e, s) => Ascending(e, c) /\ Ascending(e, r) /\ Ahead(e, c, r)

\* recv by the pump, whose hand is empty.
LEMMA PumpTakes ==
  ASSUME NEW e, NEW w, NEW a, NEW q, NEW d, NEW c, NEW r,
         OrderOf(e, w, <<>>, a, q, d), Cuts(e, q, c, r), Ahead(e, c, a)
  PROVE  OrderOf(e, w, c, a, r, d)
  BY DEF OrderOf, Cuts, Ahead

\* recv by the thread of the application, when both hands are empty.
LEMMA AppTakes ==
  ASSUME NEW e, NEW w, NEW q, NEW d, NEW c, NEW r,
         OrderOf(e, w, <<>>, <<>>, q, d), Cuts(e, q, c, r)
  PROVE  OrderOf(e, w, <<>>, c, r, d)
  BY DEF OrderOf, Cuts, Ahead

\* A chunk from the pump's hand goes on the wire.
LEMMA PumpSends ==
  ASSUME NEW S, NEW e, NEW w \in Seq(S), NEW p, NEW a, NEW q, NEW d,
         NEW c \in Seq(S), NEW r,
         OrderOf(e, w, p, a, q, d), Cuts(e, p, c, r)
  PROVE  OrderOf(e, w \o c, r, a, q, d)
  <1>1. Range(w \o c) = Range(w) \cup Range(c)
    BY CatFacts
  <1>2. Ahead(e, w, c)
    BY DEF OrderOf, Cuts, Ahead
  <1>3. Ascending(e, w \o c)
    BY <1>2, AscendingCat DEF OrderOf, Cuts
  <1> QED
    BY <1>1, <1>3 DEF OrderOf, Cuts, Ahead

\* A chunk from the application's hand does, past nothing the pump still holds.
LEMMA AppSends ==
  ASSUME NEW S, NEW e, NEW w \in Seq(S), NEW p, NEW a, NEW q, NEW d,
         NEW c \in Seq(S), NEW r,
         OrderOf(e, w, p, a, q, d), Cuts(e, a, c, r), Ahead(e, c, p)
  PROVE  OrderOf(e, w \o c, p, r, q, d)
  <1>1. Range(w \o c) = Range(w) \cup Range(c)
    BY CatFacts
  <1>2. Ahead(e, w, c)
    BY DEF OrderOf, Cuts, Ahead
  <1>3. Ascending(e, w \o c)
    BY <1>2, AscendingCat DEF OrderOf, Cuts
  <1> QED
    BY <1>1, <1>3 DEF OrderOf, Cuts, Ahead

\* An interposed write takes up its own buffer, past nothing in the socketpair.
LEMMA OwnTurn ==
  ASSUME NEW e, NEW w, NEW p, NEW q, NEW d,
         OrderOf(e, w, p, <<>>, q, d), Ahead(e, d, q)
  PROVE  OrderOf(e, w, p, d, q, <<>>)
  BY NothingAhead DEF OrderOf

\* New bytes come last: one more in the socketpair, or a buffer.
LEMMA NewestLast ==
  ASSUME NEW e, NEW m \in Nat,
         NEW w \in Seq(Nat), NEW p \in Seq(Nat), NEW a \in Seq(Nat), NEW q \in Seq(Nat),
         UpTo(m, w), UpTo(m, p), UpTo(m, a), UpTo(m, q),
         OrderOf(e, w, p, a, q, <<>>)
  PROVE  /\ OrderOf(e, w, p, a, Append(q, m + 1), <<>>)
         /\ \A d : Ascending(e, d) /\ (\A x \in Range(d) : x \in Nat /\ m < x)
                      => OrderOf(e, w, p, a, q, d)
  <1>1. /\ \A x \in Range(w) : x \in Nat /\ x < m + 1
        /\ \A x \in Range(p) : x \in Nat /\ x < m + 1
        /\ \A x \in Range(a) : x \in Nat /\ x < m + 1
        /\ \A x \in Range(q) : x \in Nat /\ x < m + 1
    BY CatFacts DEF UpTo
  <1>2. OrderOf(e, w, p, a, Append(q, m + 1), <<>>)
    <2> DEFINE b == m + 1
    <2>0. b \in Nat /\ (\A x \in Range(q) : x < b) /\ Ascending(e, q)
      BY <1>1 DEF OrderOf
    <2> HIDE DEF b
    <2>1. \A x : x \in Range(Append(q, b)) <=> x \in Range(q) \/ x = b
      BY <2>0, AppendFacts, Zenon
    <2>2. Ascending(e, Append(q, b))
      BY <2>0, AscendingAppend, Zenon
    <2> QED
      BY <1>1, <2>1, <2>2, NothingAhead DEF OrderOf, Ahead, b
  <1>3. ASSUME NEW d, Ascending(e, d), \A x \in Range(d) : x \in Nat /\ m < x
        PROVE  OrderOf(e, w, p, a, q, d)
    <2>1. Ahead(e, w, d) /\ Ahead(e, p, d) /\ Ahead(e, a, d) /\ Ahead(e, q, d)
      BY <1>1, <1>3 DEF Ahead
    <2> QED
      BY <1>3, <2>1 DEF OrderOf
  <1> QED
    BY <1>2, <1>3

---------------------------------------------------------------------------
(* The inductive invariant.                                                *)

\* A handle behind its gate is not registered, and nothing written so far is
\* under the promise; a handle that is being written to is open.
Gates ==
    \A h \in Handle :
        /\ early[h] <= made[h]
        /\ gate[h] # "none" => ~entry[h] /\ early[h] = made[h]
        /\ fd[h] = "open" => (entry[h] <=> gate[h] = "none")
        /\ pc[h] # "idle" => fd[h] = "open"

\* Whoever drains a handle holds its serializer, and nobody else does.
Serializers ==
    \A h \in Handle :
        /\ serial[h] \in {"free", h, Pump}
        /\ serial[h] = Pump <=> cur = h /\ pc[Pump] \in {"drain", "send"}
        /\ pc[h] \in {"drain", "send"} => serial[h] = h
        /\ serial[h] = h => pc[h] \in {"drain", "send", "own"}

\* A hand holds bytes only inside client.send.
EmptyHands ==
    /\ hand[Pump] # <<>> => pc[Pump] = "send"
    /\ \A h \in Handle : hand[h] # <<>> => pc[h] \in {"send", "own"}

\* poll overwrites no handle that was still to be flushed.
Rested == pc[Pump] \in {"snap", "poll"} => ready = {}

Control == TypeOK /\ Rested /\ Gates /\ Serializers /\ EmptyHands

\* A thread that does not hold the serializer sends nothing the promise covers,
\* and one that does sends its buffer only once the socketpair is empty.
OwnBuffer(h) ==
    pc[h] = "own" =>
        /\ serial[h] # h => UpTo(early[h], hand[h]) /\ UpTo(early[h], data[h])
        /\ serial[h] = h => pipe[h] = <<>>
        /\ Range(data[h]) \subseteq Range(wire[h]) \cup Range(hand[h])

\* No byte is sent that the application did not write.
Written(h) ==
    /\ UpTo(made[h], wire[h]) /\ UpTo(made[h], Under(h, Pump))
    /\ UpTo(made[h], hand[h]) /\ UpTo(made[h], pipe[h]) /\ UpTo(made[h], data[h])

Ordered(h) ==
    OrderOf(early[h], wire[h], Under(h, Pump), hand[h], pipe[h], Waiting(h))

\* LossNeedsFailure, said of the stages.
Accounted(h) ==
    fd[h] # "closed" /\ ~failed[h] =>
        \A b \in Byte : early[h] < b /\ b <= made[h] =>
            b \in BytesOf(wire[h], Under(h, Pump), hand[h], pipe[h], Waiting(h))

\* AckedOnWire.
Acked(h) ==
    \A b \in acked[h] :
        /\ b \in Range(wire[h])
        /\ early[h] < b => \A x \in Range(pipe[h]) : b < x

Stages(h) == OwnBuffer(h) /\ Written(h) /\ Ordered(h) /\ Accounted(h) /\ Acked(h)

IInv == Control /\ \A h \in Handle : Stages(h)

---------------------------------------------------------------------------
(* Types.                                                                  *)

\* What a thread's recv and send_chunk take and leave.
LEMMA TakenFacts ==
  ASSUME TypeOK, OutboundAssumption
  PROVE  /\ \A h \in Handle :
               /\ Received(h) \in 0..Len(pipe[h]) /\ Received(h) <= BufLen
               /\ SubSeq(pipe[h], 1, Received(h)) \in Seq(Byte)
               /\ Len(SubSeq(pipe[h], 1, Received(h))) = Received(h)
               /\ LeftIn(h) \in Seq(Byte) /\ Len(LeftIn(h)) <= Len(pipe[h])
         /\ \A t \in Thread :
               /\ Len(Chunk(t)) \in 0..Len(hand[t])
               /\ Chunk(t) = SubSeq(hand[t], 1, Len(Chunk(t)))
               /\ Chunk(t) \in Seq(Byte) /\ AfterChunk(t) \in Seq(Byte)
               /\ Len(AfterChunk(t)) <= Len(hand[t])
  <1>1. ASSUME NEW h \in Handle
        PROVE  /\ Received(h) \in 0..Len(pipe[h]) /\ Received(h) <= BufLen
               /\ SubSeq(pipe[h], 1, Received(h)) \in Seq(Byte)
               /\ Len(SubSeq(pipe[h], 1, Received(h))) = Received(h)
               /\ LeftIn(h) \in Seq(Byte) /\ Len(LeftIn(h)) <= Len(pipe[h])
    <2>1. pipe[h] \in Seq(Byte) /\ Len(pipe[h]) \in Nat /\ BufLen \in Nat
      BY LenProperties DEF TypeOK, OutboundAssumption
    <2>2. Received(h) \in 0..Len(pipe[h]) /\ Received(h) <= BufLen
      BY <2>1 DEF Received, LesserOf
    <2> DEFINE n == Received(h)
    <2> HIDE DEF n
    <2>3. n \in 0..Len(pipe[h])
      BY <2>2 DEF n
    <2>4. /\ SubSeq(pipe[h], 1, n) \in Seq(Byte) /\ Len(SubSeq(pipe[h], 1, n)) = n
          /\ SubSeq(pipe[h], n + 1, Len(pipe[h])) \in Seq(Byte)
          /\ Len(SubSeq(pipe[h], n + 1, Len(pipe[h]))) = Len(pipe[h]) - n
      BY <2>1, <2>3, CutFacts
    <2>5. Len(pipe[h]) - n <= Len(pipe[h])
      BY <2>1, <2>3
    <2> QED
      BY <2>2, <2>4, <2>5 DEF n, LeftIn
  <1>2. ASSUME NEW t \in Thread
        PROVE  /\ Len(Chunk(t)) \in 0..Len(hand[t])
               /\ Chunk(t) = SubSeq(hand[t], 1, Len(Chunk(t)))
               /\ Chunk(t) \in Seq(Byte) /\ AfterChunk(t) \in Seq(Byte)
               /\ Len(AfterChunk(t)) <= Len(hand[t])
    <2>1. hand[t] \in Seq(Byte) /\ Len(hand[t]) \in Nat /\ ChunkLen \in Nat
      BY LenProperties DEF TypeOK, OutboundAssumption
    <2> DEFINE n == LesserOf(Len(hand[t]), ChunkLen)
    <2>2. n \in 0..Len(hand[t])
      BY <2>1 DEF LesserOf
    <2> HIDE DEF n
    <2>3. /\ SubSeq(hand[t], 1, n) \in Seq(Byte) /\ Len(SubSeq(hand[t], 1, n)) = n
          /\ SubSeq(hand[t], n + 1, Len(hand[t])) \in Seq(Byte)
          /\ Len(SubSeq(hand[t], n + 1, Len(hand[t]))) = Len(hand[t]) - n
      BY <2>1, <2>2, CutFacts
    <2>4. Len(hand[t]) - n <= Len(hand[t])
      BY <2>1, <2>2
    <2>5. Chunk(t) = SubSeq(hand[t], 1, n)
      BY DEF n, Chunk
    <2>6. Len(Chunk(t)) = n
      BY <2>3, <2>5
    <2> QED
      BY <2>2, <2>3, <2>4, <2>5, <2>6 DEF AfterChunk
  <1> QED
    BY <1>1, <1>2, Zenon

\* The types hold at the start ...
LEMMA TypeInit ==
  ASSUME Init, OutboundAssumption
  PROVE  TypeOK
  <1>1. <<>> \in Seq(Byte) /\ Len(<<>>) = 0
    BY EmptySeq
  <1>2. 0 <= BufLen /\ 0 <= PipeCap /\ 0 \in 0..MaxBytes
    BY DEF OutboundAssumption
  <1>3. {} \in SUBSET Byte
    OBVIOUS
  <1>4. Pump \notin Handle
    BY DEF OutboundAssumption
  <1>5. /\ pc \in [Thread -> AppPc \cup PumpPc] /\ (\A h \in Handle : pc[h] \in AppPc)
        /\ pc[Pump] \in PumpPc
    BY <1>4 DEF Init, Thread, AppPc, PumpPc
  <1>6. hand \in [Thread -> Seq(Byte)] /\ Len(hand[Pump]) <= BufLen
    BY <1>1, <1>2 DEF Init, Thread
  <1>7. pipe \in [Handle -> Seq(Byte)] /\ \A h \in Handle : Len(pipe[h]) <= PipeCap
    BY <1>1, <1>2 DEF Init
  <1>8. /\ entry \in [Handle -> BOOLEAN] /\ half \in [Handle -> BOOLEAN] /\ up \in BOOLEAN
        /\ failed \in [Handle -> BOOLEAN]
    BY Zenon DEF Init
  <1> QED
    BY <1>1, <1>2, <1>3, <1>5, <1>6, <1>7, <1>8 DEF Init, TypeOK

\* A pass of outbound_loop ends with an empty ready set, so that a new snapshot
\* leaves no handle of an older one in it.
LEMMA RestedStep ==
  ASSUME TypeOK, Rested, [Next]_vars, OutboundAssumption
  PROVE  Rested'
  <1> USE DEF Rested, TypeOK
  <1>0. Pump \in Thread /\ Pump \notin Handle
    BY DEF OutboundAssumption, Thread
  <1>1. ASSUME UNCHANGED ready, pc'[Pump] = pc[Pump] PROVE Rested'
    BY <1>1
  <1>2. ASSUME NEW h \in Handle, Reader(h) \/ App(h) \/ Lookup(h) PROVE Rested'
    BY <1>0, <1>1, <1>2
    DEF Reader, App, Lookup, GateOpens, GateDrained, Register, Bypass, Write, HalfClose,
        CloseRequest, Unregister, CloseFds, loopVars, Goto
  <1>3. ASSUME NEW t \in Thread, Drain(t) PROVE Rested'
    BY <1>0, <1>3, ZenonT(40)
    DEF Drain, Lock, Recv, RecvNothing, SendChunk, SendFails, DrainOn, Return, Goto,
        loopVars, Thread, PumpPc
  <1>4. CASE Loop
    BY <1>0, <1>4
    DEF Loop, Snapshot, PollReady, PollTimeout, HaveClient, NoClient, Flush, PassDone,
        Goto, loopVars
  <1>5. CASE Disconnect \/ UNCHANGED vars
    BY <1>1, <1>5 DEF Disconnect, vars, loopVars
  <1> QED
    BY <1>2, <1>3, <1>4, <1>5 DEF Next

\* ... and every step keeps them.
LEMMA TypeStep ==
  ASSUME TypeOK, Rested, [Next]_vars, OutboundAssumption
  PROVE  TypeOK'
  <1> USE DEF TypeOK, session, loopVars, history
  <1>0. /\ Pump \in Thread /\ Pump \notin Handle
        /\ \A h \in Handle : h \in Thread /\ h # Pump
        /\ <<>> \in Seq(Byte) /\ Len(<<>>) = 0 /\ 0 <= BufLen /\ 0 <= PipeCap
    BY EmptySeq DEF OutboundAssumption, Thread
  <1>t. ASSUME NEW t \in Thread PROVE Target(t) \in Handle /\ (t # Pump => t \in Handle)
    BY DEF Target, Thread
  <1> DEFINE PcOK == /\ pc \in [Thread -> AppPc \cup PumpPc] /\ pc[Pump] \in PumpPc
                     /\ \A g \in Handle : pc[g] \in AppPc
  <1>p. ASSUME NEW t \in Thread, NEW l, Goto(t, l),
               t = Pump => l \in PumpPc, t # Pump => l \in AppPc
        PROVE  PcOK'
    BY <1>0, <1>t, <1>p DEF Goto
  <1>1. ASSUME NEW h \in Handle, GateOpens(h) PROVE TypeOK'
    BY <1>1 DEF GateOpens
  <1>2. ASSUME NEW h \in Handle, GateDrained(h) PROVE TypeOK'
    BY <1>0, <1>2 DEF GateDrained
  <1>3. ASSUME NEW h \in Handle, Register(h) PROVE TypeOK'
    BY <1>3 DEF Register
  <1>4. CASE Disconnect
    BY <1>4 DEF Disconnect
  <1>5. ASSUME NEW h \in Handle, Bypass(h) PROVE TypeOK'
    <2>1. /\ made[h] + 1 \in Byte /\ made[h] + 1 \in 0..MaxBytes
      BY <1>5, SMTT(30) DEF Bypass, MayWrite, Byte, OutboundAssumption
    <2>2. made' \in [Handle -> 0..MaxBytes] /\ early' \in [Handle -> 0..MaxBytes]
      BY <1>5, <2>1 DEF Bypass, CountWritten
    <2>3. /\ Append(pipe[h], made[h] + 1) \in Seq(Byte)
          /\ Len(Append(pipe[h], made[h] + 1)) = Len(pipe[h]) + 1
      BY <2>1, AppendFacts
    <2>4. Len(pipe[h]) + 1 <= PipeCap
      BY <1>5, LenProperties DEF Bypass, OutboundAssumption
    <2>5. pipe' \in [Handle -> Seq(Byte)] /\ \A g \in Handle : Len(pipe'[g]) <= PipeCap
      BY <1>5, <2>3, <2>4 DEF Bypass
    <2> QED
      BY <1>5, <2>2, <2>5 DEF Bypass
  <1>6. ASSUME NEW h \in Handle, Write(h) PROVE TypeOK'
    <2>1. PICK n \in 0..ChunkLen + 1 :
             /\ MayWrite(h, n) /\ data' = [data EXCEPT ![h] = New(h, n)]
             /\ CountWritten(h, n)
      BY <1>6 DEF Write
    <2>2. /\ n \in Nat /\ made[h] \in Nat /\ MaxBytes \in Nat /\ made[h] + n <= MaxBytes
          /\ made[h] + n \in 0..MaxBytes
      BY <2>1, SMTT(30) DEF MayWrite, OutboundAssumption
    <2>3. New(h, n) \in Seq(Byte)
      BY <2>2, NewFacts DEF New, Byte
    <2>4. made' \in [Handle -> 0..MaxBytes] /\ early' \in [Handle -> 0..MaxBytes]
      BY <2>1, <2>2 DEF CountWritten
    <2>5. PcOK'
      BY <1>0, <1>6, <1>p DEF Write, AppPc
    <2> QED
      BY <1>6, <2>1, <2>3, <2>4, <2>5 DEF Write
  <1>7. ASSUME NEW h \in Handle, Lookup(h) PROVE TypeOK'
    <2>1. PcOK'
      BY <1>0, <1>7, <1>p DEF Lookup, AppPc
    <2>2. hand' = hand \/ hand' = [hand EXCEPT ![h] = data[h]]
      BY <1>7 DEF Lookup
    <2>3. hand' \in [Thread -> Seq(Byte)] /\ hand'[Pump] = hand[Pump]
      <3>1. CASE hand' = [hand EXCEPT ![h] = data[h]]
        BY <1>0, <3>1
      <3> QED
        BY <2>2, <3>1
    <2> QED
      BY <1>7, <2>1, <2>3 DEF Lookup
  <1>8. ASSUME NEW h \in Handle, HalfClose(h) \/ CloseRequest(h) PROVE TypeOK'
    BY <1>8 DEF HalfClose, CloseRequest
  <1>9. ASSUME NEW h \in Handle, Unregister(h) PROVE TypeOK'
    BY <1>9 DEF Unregister
  <1>10. ASSUME NEW h \in Handle, CloseFds(h) PROVE TypeOK'
    BY <1>0, <1>10 DEF CloseFds
  <1>12. ASSUME NEW t \in Thread, Lock(t) PROVE TypeOK'
    <2>1. PcOK'
      BY <1>12, <1>p DEF Lock, AppPc, PumpPc
    <2> QED
      BY <1>t, <1>12, <2>1 DEF Lock
  <1>13. ASSUME NEW t \in Thread, Recv(t) PROVE TypeOK'
    <2> DEFINE h == Target(t)
    <2>1. h \in Handle
      BY <1>t
    <2> HIDE DEF h
    <2>2. /\ hand' = [hand EXCEPT ![t] = SubSeq(pipe[h], 1, Received(h))]
          /\ pipe' = [pipe EXCEPT ![h] = LeftIn(h)]
      BY <1>13 DEF Recv, h
    <2>3. hand' \in [Thread -> Seq(Byte)] /\ Len(hand'[Pump]) <= BufLen
      BY <1>0, <2>1, <2>2, TakenFacts
    <2>4. Len(pipe[h]) \in Nat /\ Len(LeftIn(h)) \in Nat /\ PipeCap \in Nat
      BY <2>1, TakenFacts, LenProperties DEF OutboundAssumption
    <2>5. pipe' \in [Handle -> Seq(Byte)] /\ \A g \in Handle : Len(pipe'[g]) <= PipeCap
      <3>1. LeftIn(h) \in Seq(Byte) /\ Len(LeftIn(h)) <= Len(pipe[h])
        BY <2>1, TakenFacts
      <3>2. Len(LeftIn(h)) <= PipeCap
        BY <2>1, <2>4, <3>1
      <3> QED
        BY <2>1, <2>2, <3>1, <3>2
    <2>6. PcOK'
      BY <1>13, <1>p DEF Recv, AppPc, PumpPc
    <2> QED
      BY <1>13, <2>3, <2>5, <2>6 DEF Recv
  <1>14. ASSUME NEW t \in Thread, RecvNothing(t) PROVE TypeOK'
    <2>1. PcOK'
      BY <1>14, <1>p DEF RecvNothing, AppPc, PumpPc
    <2>2. CASE t = Pump
      BY <1>14, <2>1, <2>2 DEF RecvNothing
    <2>3. CASE t # Pump
      <3>1. t \in Handle /\ hand' = [hand EXCEPT ![t] = data[t]]
        BY <1>t, <1>14, <2>3 DEF RecvNothing
      <3>2. hand' \in [Thread -> Seq(Byte)] /\ hand'[Pump] = hand[Pump]
        BY <1>0, <3>1
      <3> QED
        BY <1>14, <2>1, <2>3, <3>2 DEF RecvNothing
    <2> QED
      BY <2>2, <2>3
  <1>15. ASSUME NEW t \in Thread, DrainOn(t) \/ \E ok \in BOOLEAN : Return(t, ok)
         PROVE  /\ PcOK' /\ serial' \in [Handle -> Thread \cup {"free"}]
                /\ data' \in [Handle -> Seq(Byte)] /\ acked' \in [Handle -> SUBSET Byte]
    <2>1. CASE DrainOn(t)
      BY <1>p, <2>1 DEF DrainOn, AppPc, PumpPc
    <2>2. ASSUME NEW ok \in BOOLEAN, Return(t, ok)
          PROVE  /\ PcOK' /\ serial' \in [Handle -> Thread \cup {"free"}]
                 /\ data' \in [Handle -> Seq(Byte)] /\ acked' \in [Handle -> SUBSET Byte]
      <3>1. t \in Handle
        BY <1>t, <2>2 DEF Return, PumpPc
      <3>2. Range(data[t]) \subseteq Byte
        BY <3>1, CatFacts
      <3>3. acked' \in [Handle -> SUBSET Byte]
        BY <2>2, <3>1, <3>2 DEF Return
      <3>4. PcOK'
        BY <1>0, <1>p, <2>2, <3>1 DEF Return, AppPc
      <3> QED
        BY <1>0, <2>2, <3>1, <3>3, <3>4 DEF Return
    <2> QED
      BY <1>15, <2>1, <2>2
  <1>16. ASSUME NEW t \in Thread, SendChunk(t) PROVE TypeOK'
    <2>1. /\ PcOK' /\ serial' \in [Handle -> Thread \cup {"free"}]
          /\ data' \in [Handle -> Seq(Byte)] /\ acked' \in [Handle -> SUBSET Byte]
      BY <1>15, <1>16 DEF SendChunk
    <2>2. hand' \in [Thread -> Seq(Byte)] /\ Len(hand'[Pump]) <= BufLen
      <3>1. /\ AfterChunk(t) \in Seq(Byte) /\ Len(AfterChunk(t)) <= Len(hand[t])
            /\ Len(AfterChunk(t)) \in Nat /\ Len(hand[t]) \in Nat /\ BufLen \in Nat
        BY TakenFacts, LenProperties DEF OutboundAssumption
      <3> QED
        BY <1>0, <1>16, <3>1 DEF SendChunk
    <2>3. wire' \in [Handle -> Seq(Byte)]
      <3> DEFINE h == Target(t)
      <3>1. h \in Handle /\ wire' = [wire EXCEPT ![h] = wire[h] \o Chunk(t)]
        BY <1>t, <1>16 DEF SendChunk
      <3> HIDE DEF h
      <3>2. wire[h] \o Chunk(t) \in Seq(Byte)
        BY <3>1, TakenFacts, CatFacts
      <3> QED
        BY <3>1, <3>2
    <2> QED
      BY <1>16, <2>1, <2>2, <2>3 DEF SendChunk
  <1>17. ASSUME NEW t \in Thread, SendFails(t) PROVE TypeOK'
    <2>1. /\ PcOK' /\ serial' \in [Handle -> Thread \cup {"free"}]
          /\ data' \in [Handle -> Seq(Byte)] /\ acked' \in [Handle -> SUBSET Byte]
      BY <1>15, <1>17 DEF SendFails
    <2>2. /\ hand' \in [Thread -> Seq(Byte)] /\ Len(hand'[Pump]) <= BufLen
          /\ failed' \in [Handle -> BOOLEAN]
      BY <1>0, <1>t, <1>17 DEF SendFails
    <2>3. wire' \in [Handle -> Seq(Byte)]
      <3> DEFINE h == Target(t)
      <3>1. h \in Handle
        BY <1>t
      <3>2. PICK taken \in {<<>>, Chunk(t)} : wire' = [wire EXCEPT ![h] = wire[h] \o taken]
        BY <1>17 DEF SendFails
      <3> HIDE DEF h
      <3>3. wire[h] \o taken \in Seq(Byte)
        BY <1>0, <3>1, TakenFacts, CatFacts
      <3> QED
        BY <3>1, <3>2, <3>3
    <2> QED
      BY <1>17, <2>1, <2>2, <2>3 DEF SendFails
  <1>18. CASE Loop
    <2>1. CASE Flush
      <3>1. PcOK'
        BY <1>0, <1>p, <2>1 DEF Flush, PumpPc
      <3>2. cur' \in Handle /\ ready' \in SUBSET snap
        BY <2>1 DEF Flush
      <3> QED
        BY <2>1, <3>1, <3>2 DEF Flush
    <2>2. ASSUME ~Flush PROVE PcOK'
      BY <1>0, <1>p, <1>18, <2>2
      DEF Loop, Snapshot, PollReady, PollTimeout, HaveClient, NoClient, PassDone, PumpPc
    <2>3. CASE Snapshot /\ ~Flush
      <3>1. ready' \in SUBSET snap'
        BY <2>3 DEF Snapshot, Rested
      <3> QED
        BY <2>2, <2>3, <3>1 DEF Snapshot
    <2>4. CASE (PollReady \/ PollTimeout) /\ ~Flush
      BY <2>2, <2>4 DEF PollReady, PollTimeout
    <2>5. CASE (HaveClient \/ NoClient \/ PassDone) /\ ~Flush
      BY <2>2, <2>5 DEF HaveClient, NoClient, PassDone
    <2> QED
      BY <1>18, <2>1, <2>3, <2>4, <2>5 DEF Loop
  <1>19. CASE UNCHANGED vars
    BY <1>19 DEF vars
  <1> QED
    BY <1>1, <1>2, <1>3, <1>4, <1>5, <1>6, <1>7, <1>8, <1>9, <1>10, <1>12, <1>13, <1>14,
       <1>16, <1>17, <1>18, <1>19
    DEF Next, Reader, App, Drain

---------------------------------------------------------------------------
(* Control: gates, serializers, and when a hand is empty.                  *)

\* The control part of the invariant holds at the start.
LEMMA ControlInit ==
  ASSUME Init, OutboundAssumption
  PROVE  Control
  <1>1. TypeOK
    BY TypeInit
  <1>2. /\ \A h \in Handle : pc[h] = "idle" /\ hand[h] = <<>> /\ h # Pump /\ h # "free"
        /\ pc[Pump] = "snap" /\ hand[Pump] = <<>> /\ Pump # "free"
    BY DEF Init, Thread, OutboundAssumption
  <1>3. Rested /\ EmptyHands
    BY <1>2 DEF Rested, EmptyHands, Init
  <1>4. Gates
    <2>1. /\ \A h \in Handle : entry[h] <=> gate[h] = "none"
          /\ \A h \in Handle : fd[h] = "open" /\ made[h] = 0 /\ early[h] = 0
      BY DEF Init
    <2> QED
      BY <1>2, <2>1 DEF Gates
  <1>5. Serializers
    BY <1>2 DEF Serializers, Init
  <1> QED
    BY <1>1, <1>3, <1>4, <1>5 DEF Control

\* Every step keeps Gates: only close() unregisters a handle, between writes.
LEMMA GatesStep ==
  ASSUME Control, [Next]_vars, OutboundAssumption
  PROVE  Gates'
  <1> USE DEF Gates
  <1>0. /\ Gates /\ Pump \notin Handle /\ \A h \in Handle : h \in Thread
        /\ entry \in [Handle -> BOOLEAN] /\ pc \in [Thread -> AppPc \cup PumpPc]
        /\ gate \in [Handle -> {"gated", "draining", "drained", "none"}]
        /\ fd \in [Handle -> {"open", "shut", "unreg", "closed"}]
        /\ made \in [Handle -> 0..MaxBytes] /\ early \in [Handle -> 0..MaxBytes]
    BY DEF Control, OutboundAssumption, Thread, TypeOK
  <1>1. ASSUME NEW h \in Handle, Reader(h) PROVE Gates'
    BY <1>0, <1>1
    DEF Reader, GateOpens, GateDrained, Register, history
  <1>2. ASSUME NEW h \in Handle, Bypass(h) PROVE Gates'
    BY <1>0, <1>2 DEF Bypass, CountWritten, MayWrite, session
  <1>3. ASSUME NEW h \in Handle, Write(h) PROVE Gates'
    <2>1. PICK n \in Nat : MayWrite(h, n) /\ CountWritten(h, n)
      BY <1>3 DEF Write, OutboundAssumption
    <2>2. UNCHANGED <<gate, entry, fd>> /\ Goto(h, "lookup")
      BY <1>3 DEF Write, session
    <2> QED
      BY <1>0, <2>1, <2>2 DEF CountWritten, MayWrite, Goto
  <1>4. ASSUME NEW h \in Handle, HalfClose(h) \/ CloseRequest(h) \/ CloseFds(h) PROVE Gates'
    BY <1>0, <1>4 DEF HalfClose, CloseRequest, CloseFds, history
  <1>5. ASSUME NEW h \in Handle, Unregister(h) PROVE Gates'
    BY <1>0, <1>5 DEF Unregister, history
  <1>6. ASSUME NEW h \in Handle, Lookup(h) PROVE Gates'
    BY <1>0, <1>6 DEF Lookup, Goto, session, history
  <1>7. ASSUME NEW t \in Thread, Drain(t) PROVE Gates'
    <2>1. UNCHANGED <<gate, entry, fd, made, early>>
      BY <1>7 DEF Drain, Lock, Recv, RecvNothing, SendChunk, SendFails, session, history
    <2>2. \A h \in Handle : pc'[h] # "idle" => pc[h] # "idle"
      BY <1>0, <1>7
      DEF Drain, Lock, Recv, RecvNothing, SendChunk, SendFails, DrainOn, Return, Goto
    <2> QED
      BY <1>0, <2>1, <2>2
  <1>8. CASE Loop
    <2>1. UNCHANGED <<gate, entry, fd, made, early>>
      BY <1>8
      DEF Loop, Snapshot, PollReady, PollTimeout, HaveClient, NoClient, Flush, PassDone,
          session, history
    <2>2. \A h \in Handle : pc'[h] = pc[h]
      BY <1>0, <1>8
      DEF Loop, Snapshot, PollReady, PollTimeout, HaveClient, NoClient, Flush, PassDone,
          Goto
    <2> QED
      BY <1>0, <2>1, <2>2
  <1>9. CASE Disconnect \/ UNCHANGED vars
    BY <1>0, <1>9 DEF Disconnect, vars, session, history
  <1> QED
    BY <1>1, <1>2, <1>3, <1>4, <1>5, <1>6, <1>7, <1>8, <1>9 DEF Next, App

\* Every step keeps the serializers exclusive, and a hand is empty once its send
\* is over.
LEMMA SerializersStep ==
  ASSUME Control, [Next]_vars, OutboundAssumption
  PROVE  Serializers' /\ EmptyHands'
  <1> USE DEF Serializers, EmptyHands
  <1>0. /\ Serializers /\ EmptyHands /\ Pump \notin Handle /\ Pump \in Thread
        /\ Pump # "free" /\ \A h \in Handle : h \in Thread /\ h # Pump /\ h # "free"
        /\ pc \in [Thread -> AppPc \cup PumpPc] /\ hand \in [Thread -> Seq(Byte)]
        /\ serial \in [Handle -> Thread \cup {"free"}] /\ cur \in Handle
        /\ pc[Pump] \in PumpPc
    BY SMTT(30) DEF Control, OutboundAssumption, Thread, TypeOK
  <1>f. ASSUME NEW t \in Thread, NEW r, hand' = [hand EXCEPT ![t] = r]
        PROVE  hand'[t] = r /\ \A u \in Thread : u # t => hand'[u] = hand[u]
    BY <1>0, <1>f
  <1>1. ASSUME UNCHANGED <<serial, pc, cur, hand>> PROVE Serializers' /\ EmptyHands'
    BY <1>0, <1>1
  <1>2. ASSUME NEW h \in Handle, Reader(h) \/ App(h) PROVE Serializers' /\ EmptyHands'
    <2>1. CASE Write(h)
      BY <1>0, <2>1 DEF Write, MayWrite, Goto, loopVars
    <2>2. CASE ~Write(h)
      BY <1>1, <1>2, <2>2
      DEF Reader, App, GateOpens, GateDrained, Register, Bypass, HalfClose,
          CloseRequest, Unregister, CloseFds, loopVars
    <2> QED
      BY <2>1, <2>2
  <1>3. ASSUME NEW h \in Handle, Lookup(h) PROVE Serializers' /\ EmptyHands'
    <2>1. CASE entry[h]
      <3>1. /\ pc[h] = "lookup" /\ pc' = [pc EXCEPT ![h] = "lock"]
            /\ UNCHANGED <<hand, serial, cur>>
        BY <1>3, <2>1 DEF Lookup, Goto, loopVars
      <3>2. pc'[h] = "lock" /\ \A t \in Thread : t # h => pc'[t] = pc[t]
        BY <1>0, <3>1
      <3> QED
        BY <1>0, <3>1, <3>2
    <2>2. CASE ~entry[h]
      BY <1>0, <1>3, <2>2, ZenonT(40) DEF Lookup, Goto, loopVars
    <2> QED
      BY <2>1, <2>2
  <1>4. ASSUME NEW t \in Thread
        PROVE  \/ t = Pump /\ Target(t) = cur
               \/ t # Pump /\ t \in Handle /\ Target(t) = t
    BY <1>0 DEF Thread, Target
  <1>5. ASSUME NEW t \in Thread, Lock(t) PROVE Serializers' /\ EmptyHands'
    BY <1>0, <1>4, <1>5 DEF Lock, SerialFree, Goto, loopVars
  <1>6. ASSUME NEW t \in Thread, Recv(t) PROVE Serializers' /\ EmptyHands'
    BY <1>0, <1>4, <1>6 DEF Recv, Goto, loopVars
  <1>7. ASSUME NEW t \in Thread, RecvNothing(t) PROVE Serializers' /\ EmptyHands'
    <2>1. CASE t = Pump
      <3>1. /\ pc[Pump] = "drain" /\ pc' = [pc EXCEPT ![Pump] = "flush"]
            /\ serial' = [serial EXCEPT ![cur] = "free"] /\ UNCHANGED <<hand, cur>>
        BY <1>7, <2>1 DEF RecvNothing, Goto, loopVars
      <3>2. pc'[Pump] = "flush" /\ \A h \in Handle : pc'[h] = pc[h]
        BY <1>0, <3>1
      <3>3. serial'[cur] = "free" /\ \A h \in Handle : h # cur => serial'[h] = serial[h]
        BY <1>0, <3>1
      <3> QED
        BY <1>0, <3>1, <3>2, <3>3
    <2>2. CASE t # Pump
      BY <1>0, <1>4, <1>7, <2>2, ZenonT(40) DEF RecvNothing, Goto, loopVars
    <2> QED
      BY <2>1, <2>2
  <1>8. ASSUME NEW t \in Thread, NEW r, hand' = [hand EXCEPT ![t] = r], UNCHANGED cur,
               \/ (DrainOn(t) \/ \E ok \in BOOLEAN : Return(t, ok)) /\ r = <<>>
               \/ UNCHANGED <<pc, serial>> /\ pc[t] \in {"send", "own"}
        PROVE  Serializers' /\ EmptyHands'
    <2>1. CASE DrainOn(t) /\ r = <<>>
      BY <1>0, <1>4, <1>8, <2>1 DEF DrainOn, Goto
    <2>2. ASSUME NEW ok \in BOOLEAN, Return(t, ok) /\ r = <<>>
          PROVE  Serializers' /\ EmptyHands'
      <3>1. t \in Handle
        BY <1>0, <1>4, <2>2 DEF Return, PumpPc
      <3> QED
        BY <1>0, <1>8, <2>2, <3>1 DEF Return, Goto
    <2>3. CASE UNCHANGED <<pc, serial>> /\ pc[t] \in {"send", "own"}
      <3>1. t = Pump => pc[t] = "send"
        BY <1>0, <2>3 DEF PumpPc
      <3> QED
        BY <1>0, <1>4, <1>8, <2>3, <3>1
    <2> QED
      BY <1>8, <2>1, <2>2, <2>3
  <1>9. ASSUME NEW t \in Thread, SendChunk(t) PROVE Serializers' /\ EmptyHands'
    <2>1. CASE AfterChunk(t) = <<>>
      BY <1>8, <1>9, <2>1 DEF SendChunk, loopVars
    <2>2. CASE AfterChunk(t) # <<>>
      BY <1>8, <1>9, <2>2 DEF SendChunk, loopVars
    <2> QED
      BY <2>1, <2>2
  <1>10. ASSUME NEW t \in Thread, SendFails(t) PROVE Serializers' /\ EmptyHands'
    BY <1>8, <1>10 DEF SendFails, loopVars
  <1>11. CASE Loop
    <2>1. CASE Flush
      BY <1>0, <2>1 DEF Flush, Goto
    <2>2. CASE ~Flush
      BY <1>0, <1>11, <2>2
      DEF Loop, Snapshot, PollReady, PollTimeout, HaveClient, NoClient, PassDone,
          Goto, loopVars
    <2> QED
      BY <2>1, <2>2
  <1>12. CASE Disconnect \/ UNCHANGED vars
    BY <1>1, <1>12 DEF Disconnect, vars, loopVars
  <1> QED
    BY <1>2, <1>3, <1>5, <1>6, <1>7, <1>9, <1>10, <1>11, <1>12 DEF Next, Drain

\* Every step keeps the control part.
LEMMA ControlStep ==
  ASSUME Control, [Next]_vars, OutboundAssumption
  PROVE  Control'
  BY TypeStep, RestedStep, GatesStep, SerializersStep DEF Control

---------------------------------------------------------------------------
(* The stages.                                                             *)

\* The types of one session, as the lemmas about sequences need them.
LEMMA SessionTypes ==
  ASSUME Control, OutboundAssumption, NEW h \in Handle
  PROVE  /\ h \in Thread /\ h # Pump
         /\ made[h] \in Nat /\ early[h] \in Nat /\ early[h] <= made[h]
         /\ {wire[h], hand[h], pipe[h], data[h], Under(h, Pump), Waiting(h), <<>>}
               \subseteq Seq(Byte)
         /\ Byte \subseteq Nat /\ Under(h, h) = hand[h]
         /\ Under(h, Pump) = IF cur = h THEN hand[Pump] ELSE <<>>
  <1>1. h \in Thread /\ h # Pump /\ Pump \in Thread
    BY DEF OutboundAssumption, Thread
  <1>2. made[h] \in Nat /\ early[h] \in Nat /\ early[h] <= made[h]
    BY DEF Control, TypeOK, Gates
  <1>3. Byte \subseteq Nat
    BY DEF Byte
  <1>4. <<>> \in Seq(Byte)
    BY EmptySeq
  <1>5. /\ wire[h] \in Seq(Byte) /\ hand[h] \in Seq(Byte) /\ pipe[h] \in Seq(Byte)
        /\ data[h] \in Seq(Byte) /\ hand[Pump] \in Seq(Byte)
    BY <1>1 DEF Control, TypeOK
  <1>6. Under(h, h) = hand[h] /\ Under(h, Pump) = IF cur = h THEN hand[Pump] ELSE <<>>
    BY <1>1 DEF Under, Target
  <1>7. Under(h, Pump) \in Seq(Byte) /\ Waiting(h) \in Seq(Byte)
    BY <1>4, <1>5, <1>6 DEF Waiting
  <1> QED
    BY <1>1, <1>2, <1>3, <1>4, <1>5, <1>6, <1>7

\* Bytes are numbers.
LEMMA NatSeq ==
  ASSUME NEW s \in Seq(Byte)
  PROVE  s \in Seq(Nat)
  <1>1. PICK n \in Nat : s \in [1..n -> Byte]
    BY SeqDef
  <1>2. s \in [1..n -> Nat]
    BY <1>1 DEF Byte
  <1> QED
    BY <1>2, SeqDef

\* A bound may be raised.
LEMMA UpToMore ==
  ASSUME NEW m \in Nat, NEW n \in Nat, m <= n, NEW s \in Seq(Byte), UpTo(m, s)
  PROVE  UpTo(n, s)
  <1>1. \A x \in Range(s) : x \in Nat
    BY NatSeq, CatFacts
  <1> QED
    BY <1>1 DEF UpTo

\* A session none of whose stages a step touches.
LEMMA Elsewhere ==
  ASSUME NEW h \in Handle, Stages(h),
         wire'[h] = wire[h], Under(h, Pump)' = Under(h, Pump), hand'[h] = hand[h],
         pipe'[h] = pipe[h], data'[h] = data[h], Waiting(h)' = Waiting(h),
         made'[h] = made[h], early'[h] = early[h], failed'[h] = failed[h],
         acked'[h] = acked[h],
         fd'[h] # "closed" => fd[h] # "closed",
         pc'[h] = "own" => pc[h] = "own" /\ (serial'[h] = h <=> serial[h] = h)
  PROVE  Stages(h)'
  <1>1. OwnBuffer(h)'
    BY DEF Stages, OwnBuffer
  <1>2. Written(h)' /\ Ordered(h)' /\ Acked(h)'
    BY DEF Stages, Written, Ordered, Acked
  <1>3. Accounted(h)'
    BY DEF Stages, Accounted
  <1> QED
    BY <1>1, <1>2, <1>3 DEF Stages

\* At the start every stage is empty.
LEMMA StagesInit ==
  ASSUME Init, OutboundAssumption, NEW h \in Handle
  PROVE  Stages(h)
  <1>1. /\ pc[h] = "idle" /\ hand[h] = <<>> /\ hand[Pump] = <<>> /\ wire[h] = <<>>
        /\ pipe[h] = <<>> /\ data[h] = <<>> /\ made[h] = 0 /\ early[h] = 0 /\ acked[h] = {}
    BY DEF Init, Thread, OutboundAssumption
  <1>2. Under(h, Pump) = <<>> /\ Waiting(h) = <<>>
    BY <1>1 DEF Under, Waiting
  <1>3. \A m : UpTo(m, <<>>)
    BY RangeEmpty DEF UpTo
  <1>4. Ordered(h)
    BY <1>1, <1>2, NothingAhead DEF Ordered, OrderOf
  <1>5. OwnBuffer(h) /\ Written(h) /\ Acked(h)
    BY <1>1, <1>2, <1>3 DEF OwnBuffer, Written, Acked
  <1>6. Accounted(h)
    BY <1>1 DEF Accounted, Byte
  <1> QED
    BY <1>4, <1>5, <1>6 DEF Stages

\* Stages that hold nothing late are in order and owe nothing.
LEMMA AllEarly ==
  ASSUME NEW h \in Handle, Control', OutboundAssumption, Written(h)', early'[h] = made'[h]
  PROVE  Ordered(h)' /\ Accounted(h)'
  <1>1. early'[h] \in Nat /\ early'[h] = made'[h]
    BY DEF Control, TypeOK
  <1>2. /\ wire'[h] \in Seq(Nat) /\ Under(h, Pump)' \in Seq(Nat) /\ hand'[h] \in Seq(Nat)
        /\ pipe'[h] \in Seq(Nat) /\ Waiting(h)' \in Seq(Nat)
    <2>1. /\ wire'[h] \in Seq(Byte) /\ hand'[h] \in Seq(Byte) /\ pipe'[h] \in Seq(Byte)
          /\ data'[h] \in Seq(Byte) /\ hand'[Pump] \in Seq(Byte) /\ <<>> \in Seq(Byte)
      BY EmptySeq DEF Control, TypeOK, Thread
    <2>2. Under(h, Pump)' \in Seq(Byte) /\ Waiting(h)' \in Seq(Byte)
      BY <2>1 DEF Under, Waiting
    <2> QED
      BY <2>1, <2>2, NatSeq
  <1>3. UpTo(made'[h], Waiting(h)')
    BY RangeEmpty DEF Written, Waiting, UpTo
  <1>4. Ordered(h)'
    BY <1>1, <1>2, <1>3, NoneLate DEF Written, Ordered
  <1>5. Accounted(h)'
    BY <1>1 DEF Accounted, Byte
  <1> QED
    BY <1>4, <1>5

\* stdio writes a byte into the socketpair.
LEMMA BypassStages ==
  ASSUME Control, Control', OutboundAssumption, NEW h \in Handle, Stages(h), Bypass(h)
  PROVE  Stages(h)'
  <1> DEFINE m == made[h]
  <1>0. /\ h \in Thread /\ h # Pump /\ m \in Nat /\ early[h] \in Nat /\ early[h] <= m
        /\ wire[h] \in Seq(Byte) /\ hand[h] \in Seq(Byte) /\ pipe[h] \in Seq(Byte)
        /\ data[h] \in Seq(Byte) /\ Under(h, Pump) \in Seq(Byte) /\ Byte \subseteq Nat
    BY SessionTypes
  <1>1. /\ pc[h] = "idle" /\ UNCHANGED <<pc, data, hand, wire, acked, failed, fd, cur, serial>>
        /\ pipe'[h] = Append(pipe[h], m + 1) /\ made'[h] = m + 1
        /\ early'[h] = IF entry[h] THEN early[h] ELSE m + 1
        /\ m + 1 \in Byte
    BY <1>0 DEF Bypass, MayWrite, CountWritten, session, loopVars, Control, TypeOK, Byte,
                OutboundAssumption
  <1>2. Under(h, Pump)' = Under(h, Pump) /\ Waiting(h) = <<>> /\ Waiting(h)' = <<>>
    BY <1>1 DEF Under, Target, Waiting
  <1>3. \A x : x \in Range(pipe'[h]) <=> x \in Range(pipe[h]) \/ x = m + 1
    BY <1>0, <1>1, AppendFacts
  <1>4. Written(h)'
    <2>1. m <= m + 1 /\ m + 1 \in Nat
      BY <1>0
    <2>2. /\ UpTo(m + 1, wire[h]) /\ UpTo(m + 1, hand[h]) /\ UpTo(m + 1, pipe[h])
          /\ UpTo(m + 1, data[h]) /\ UpTo(m + 1, Under(h, Pump))
      BY <1>0, <2>1, UpToMore, SMTT(30) DEF Stages, Written
    <2>3. UpTo(m + 1, pipe'[h])
      BY <1>3, <2>1, <2>2 DEF UpTo
    <2> QED
      BY <1>1, <1>2, <2>2, <2>3 DEF Written
  <1>5. OwnBuffer(h)'
    BY <1>1 DEF OwnBuffer
  <1>6. Acked(h)'
    <2> SUFFICES ASSUME NEW b \in acked[h]
                 PROVE  /\ b \in Range(wire[h])
                        /\ early'[h] < b => \A x \in Range(pipe'[h]) : b < x
      BY <1>1 DEF Acked
    <2>1. b \in Range(wire[h]) /\ b <= m /\ b \in Nat
      BY <1>0, CatFacts DEF Stages, Acked, Written, UpTo
    <2>2. b < m + 1 /\ (early'[h] < b => early[h] < b)
      BY <1>0, <1>1, <2>1
    <2> QED
      BY <1>3, <2>1, <2>2 DEF Stages, Acked
  <1>7. CASE ~entry[h]
    BY <1>1, <1>4, <1>5, <1>6, <1>7, AllEarly DEF Stages
  <1>8. CASE entry[h]
    <2>1. Ordered(h)'
      <3>1. OrderOf(early[h], wire[h], Under(h, Pump), hand[h], pipe[h], <<>>)
        BY <1>2 DEF Stages, Ordered
      <3>2. /\ wire[h] \in Seq(Nat) /\ hand[h] \in Seq(Nat) /\ pipe[h] \in Seq(Nat)
            /\ Under(h, Pump) \in Seq(Nat)
        BY <1>0, NatSeq
      <3>3. OrderOf(early[h], wire[h], Under(h, Pump), hand[h], Append(pipe[h], m + 1), <<>>)
        BY <1>0, <3>1, <3>2, NewestLast DEF Stages, Written
      <3> QED
        BY <1>1, <1>2, <1>8, <3>3 DEF Ordered
    <2>2. Accounted(h)'
      <3> SUFFICES ASSUME fd[h] # "closed" /\ ~failed[h], NEW b \in Byte,
                          early[h] < b, b <= m + 1
                   PROVE  b \in BytesOf(wire[h], Under(h, Pump), hand[h], pipe'[h], <<>>)
        BY <1>1, <1>2, <1>8 DEF Accounted
      <3>1. b <= m \/ b = m + 1
        BY <1>0
      <3> QED
        BY <1>2, <1>3, <3>1 DEF Stages, Accounted, BytesOf
    <2> QED
      BY <1>4, <1>5, <1>6, <2>1, <2>2 DEF Stages
  <1> QED
    BY <1>7, <1>8

\* An interposed write begins.
LEMMA WriteStages ==
  ASSUME Control, Control', OutboundAssumption, NEW h \in Handle, Stages(h), Write(h)
  PROVE  Stages(h)'
  <1> DEFINE m == made[h]
  <1>0. /\ h \in Thread /\ h # Pump /\ m \in Nat /\ early[h] \in Nat /\ early[h] <= m
        /\ wire[h] \in Seq(Byte) /\ hand[h] \in Seq(Byte) /\ pipe[h] \in Seq(Byte)
        /\ data[h] \in Seq(Byte) /\ Under(h, Pump) \in Seq(Byte) /\ Byte \subseteq Nat
    BY SessionTypes
  <1>1. PICK n \in Nat : /\ MayWrite(h, n) /\ data' = [data EXCEPT ![h] = New(h, n)]
                         /\ CountWritten(h, n)
    <2>1. PICK n \in 0..ChunkLen + 1 :
             /\ MayWrite(h, n) /\ data' = [data EXCEPT ![h] = New(h, n)]
             /\ CountWritten(h, n)
      BY Zenon DEF Write
    <2>2. n \in Nat
      OBVIOUS
    <2> QED
      BY <2>1, <2>2
  <1>2. /\ pc[h] = "idle" /\ pc'[h] = "lookup"
        /\ UNCHANGED <<hand, wire, acked, failed, fd, cur, serial, pipe>>
        /\ data'[h] = New(h, n) /\ made'[h] = m + n
        /\ early'[h] = IF entry[h] THEN early[h] ELSE m + n
        /\ m + n <= MaxBytes /\ MaxBytes \in Nat
    BY <1>0, <1>1 DEF Write, Goto, MayWrite, CountWritten, session, loopVars, Control, TypeOK,
                      OutboundAssumption
  <1>3. /\ Under(h, Pump)' = Under(h, Pump) /\ Waiting(h) = <<>>
        /\ Waiting(h)' = data'[h]
    BY <1>2 DEF Under, Target, Waiting
  <1>4. /\ data'[h] \in Seq(Byte) /\ Range(data'[h]) = m + 1..m + n
        /\ \A e : Ascending(e, data'[h])
    <2>1. New(h, n) = [i \in 1..n |-> m + i]
      BY DEF New
    <2> HIDE DEF m
    <2> DEFINE s == [i \in 1..n |-> m + i]
    <2>2. s \in Seq(1..MaxBytes) /\ Range(s) = m + 1..m + n /\ \A e : Ascending(e, s)
      BY <1>0, <1>2, NewFacts
    <2> HIDE DEF s
    <2>3. data'[h] = s
      BY <1>2, <2>1 DEF s
    <2> QED
      BY <2>2, <2>3 DEF Byte
  <1>5. Written(h)'
    <2>1. m <= m + n /\ m + n \in Nat
      BY <1>0
    <2>2. /\ UpTo(m + n, wire[h]) /\ UpTo(m + n, hand[h]) /\ UpTo(m + n, pipe[h])
          /\ UpTo(m + n, Under(h, Pump))
      BY <1>0, <2>1, UpToMore DEF Stages, Written
    <2>3. UpTo(m + n, data'[h])
      BY <1>0, <1>4, <2>1 DEF UpTo
    <2> QED
      BY <1>2, <1>3, <2>2, <2>3 DEF Written
  <1>6. OwnBuffer(h)'
    BY <1>2 DEF OwnBuffer
  <1>7. Acked(h)'
    <2> SUFFICES ASSUME NEW b \in acked[h]
                 PROVE  /\ b \in Range(wire[h])
                        /\ early'[h] < b => \A x \in Range(pipe[h]) : b < x
      BY <1>2 DEF Acked
    <2>1. b \in Range(wire[h]) /\ b <= m /\ b \in Nat
      BY <1>0, CatFacts DEF Stages, Acked, Written, UpTo
    <2>2. early'[h] < b => early[h] < b
      BY <1>0, <1>2, <2>1
    <2> QED
      BY <2>1, <2>2 DEF Stages, Acked
  <1>8. CASE ~entry[h]
    BY <1>2, <1>5, <1>6, <1>7, <1>8, AllEarly DEF Stages
  <1>9. CASE entry[h]
    <2>1. Ordered(h)'
      <3>1. OrderOf(early[h], wire[h], Under(h, Pump), hand[h], pipe[h], <<>>)
        BY <1>3 DEF Stages, Ordered
      <3>2. /\ wire[h] \in Seq(Nat) /\ hand[h] \in Seq(Nat) /\ pipe[h] \in Seq(Nat)
            /\ Under(h, Pump) \in Seq(Nat)
        BY <1>0, NatSeq
      <3>3. \A x \in Range(data'[h]) : x \in Nat /\ m < x
        BY <1>0, <1>4
      <3>4. OrderOf(early[h], wire[h], Under(h, Pump), hand[h], pipe[h], data'[h])
        BY <1>0, <1>4, <3>1, <3>2, <3>3, NewestLast DEF Stages, Written
      <3> QED
        BY <1>2, <1>3, <1>9, <3>4 DEF Ordered
    <2>2. Accounted(h)'
      <3> SUFFICES ASSUME fd[h] # "closed" /\ ~failed[h], NEW b \in Byte,
                          early[h] < b, b <= m + n
                   PROVE  b \in BytesOf(wire[h], Under(h, Pump), hand[h], pipe[h], data'[h])
        BY <1>2, <1>3, <1>9 DEF Accounted
      <3>1. b <= m \/ b \in m + 1..m + n
        BY <1>0
      <3> QED
        BY <1>3, <1>4, <3>1, RangeEmpty DEF Stages, Accounted, BytesOf
    <2> QED
      BY <1>5, <1>6, <1>7, <2>1, <2>2 DEF Stages
  <1> QED
    BY <1>8, <1>9

\* An unregistered handle sends its buffer past the serializer.
LEMMA LookupStages ==
  ASSUME Control, Control', OutboundAssumption, NEW h \in Handle, Stages(h),
         Lookup(h), ~entry[h]
  PROVE  Stages(h)'
  <1>0. h \in Thread /\ h # Pump
    BY SessionTypes
  <1>1. /\ pc[h] = "lookup" /\ pc'[h] = "own" /\ hand'[h] = data[h]
        /\ hand'[Pump] = hand[Pump]
        /\ UNCHANGED <<data, wire, acked, failed, fd, cur, serial, pipe, made, early>>
    BY <1>0 DEF Lookup, Goto, session, loopVars, history, Control, TypeOK, Thread
  <1>2. early[h] = made[h] /\ serial[h] # h
    BY <1>1 DEF Control, Gates, Serializers, TypeOK
  <1>3. Under(h, Pump)' = Under(h, Pump)
    BY <1>1 DEF Under, Target
  <1>4. Written(h)' /\ Acked(h)'
    BY <1>1, <1>3 DEF Stages, Written, Acked
  <1>5. OwnBuffer(h)'
    BY <1>1, <1>2 DEF OwnBuffer, Stages, Written
  <1> QED
    BY <1>1, <1>2, <1>4, <1>5, AllEarly DEF Stages

\* The socketpair is emptied: by the gate, before anything is late, or by close().
LEMMA DropStages ==
  ASSUME Control, Control', OutboundAssumption, NEW h \in Handle, Stages(h),
         GateDrained(h) \/ CloseFds(h)
  PROVE  Stages(h)'
  <1>1. /\ pipe'[h] = <<>>
        /\ UNCHANGED <<data, wire, acked, failed, cur, serial, pc, hand, made, early>>
        /\ fd'[h] = "closed" \/ (early[h] = made[h] /\ fd'[h] = fd[h])
    BY DEF GateDrained, CloseFds, session, loopVars, history, Control, TypeOK, Gates
  <1>2. Under(h, Pump)' = Under(h, Pump) /\ Waiting(h)' = Waiting(h)
    BY <1>1 DEF Under, Target, Waiting
  <1>3. Written(h)' /\ Acked(h)' /\ OwnBuffer(h)'
    BY <1>1, <1>2, RangeEmpty DEF Stages, Written, Acked, OwnBuffer, UpTo
  <1>4. Ordered(h)'
    BY <1>1, <1>2, Dropped DEF Stages, Ordered
  <1>5. Accounted(h)'
    <2>1. CASE fd'[h] = "closed"
      BY <2>1 DEF Accounted
    <2>2. CASE early[h] = made[h] /\ fd'[h] = fd[h]
      BY <1>1, <1>3, <2>2, AllEarly DEF Stages
    <2> QED
      BY <1>1, <2>1, <2>2
  <1> QED
    BY <1>3, <1>4, <1>5 DEF Stages

\* What recv took and what it left make up the socketpair.
LEMMA RecvCuts ==
  ASSUME Control, OutboundAssumption, NEW h \in Handle, NEW e
  PROVE  Cuts(e, pipe[h], SubSeq(pipe[h], 1, Received(h)), LeftIn(h))
  <1> DEFINE n == Received(h)
  <1>1. pipe[h] \in Seq(Byte) /\ n \in 0..Len(pipe[h])
    BY TakenFacts DEF Control, TypeOK
  <1> HIDE DEF n
  <1>2. Cuts(e, pipe[h], SubSeq(pipe[h], 1, n), SubSeq(pipe[h], n + 1, Len(pipe[h])))
    BY <1>1, CutOrder DEF Cuts
  <1> QED
    BY <1>2 DEF n, LeftIn

\* What send_chunk took and what it left make up the data in hand.
LEMMA ChunkCuts ==
  ASSUME Control, OutboundAssumption, NEW t \in Thread, NEW e
  PROVE  Cuts(e, hand[t], Chunk(t), AfterChunk(t))
  <1> DEFINE n == Len(Chunk(t))
  <1>1. /\ hand[t] \in Seq(Byte) /\ n \in 0..Len(hand[t])
        /\ Chunk(t) = SubSeq(hand[t], 1, n)
    BY TakenFacts DEF Control, TypeOK
  <1> HIDE DEF n
  <1>2. Cuts(e, hand[t], SubSeq(hand[t], 1, n), SubSeq(hand[t], n + 1, Len(hand[t])))
    BY <1>1, CutOrder DEF Cuts
  <1> QED
    BY <1>1, <1>2 DEF n, AfterChunk

\* recv by the pump or by the thread of the application.
LEMMA RecvStages ==
  ASSUME Control, Control', OutboundAssumption, NEW t \in Thread, NEW h \in Handle,
         h = Target(t), Stages(h), Recv(t)
  PROVE  Stages(h)'
  <1> DEFINE c == SubSeq(pipe[h], 1, Received(h))
             r == LeftIn(h)
             e == early[h]
  <1>0. /\ h \in Thread /\ h # Pump /\ Pump \in Thread /\ e \in Nat
        /\ hand[h] \in Seq(Nat) /\ Byte \subseteq Nat
        /\ Under(h, Pump) = IF cur = h THEN hand[Pump] ELSE <<>>
    BY SessionTypes, NatSeq DEF Thread
  <1>1. /\ pc[t] = "drain" /\ pc' = [pc EXCEPT ![t] = "send"]
        /\ hand' = [hand EXCEPT ![t] = c] /\ pipe'[h] = r
        /\ UNCHANGED <<data, wire, acked, failed, cur, serial, fd, made, early>>
    BY DEF Recv, Goto, session, loopVars, history, Control, TypeOK
  <1>2. Cuts(e, pipe[h], c, r)
    BY RecvCuts
  <1>3. /\ pc'[t] = "send" /\ hand'[t] = c /\ hand[t] = <<>>
        /\ \A u \in Thread : u # t => pc'[u] = pc[u] /\ hand'[u] = hand[u]
    BY <1>0, <1>1 DEF Control, TypeOK, EmptyHands, Thread
  <1> HIDE DEF c, r, e
  <1>4. Range(pipe[h]) = Range(c) \cup Range(r)
    BY <1>2 DEF Cuts
  <1>5. Acked(h)'
    BY <1>1, <1>4 DEF Stages, Acked
  <1>6. CASE t = Pump
    <2>1. /\ cur = h /\ serial[h] = Pump /\ serial[h] # h
          /\ Under(h, Pump) = <<>> /\ Under(h, Pump)' = c
      BY <1>0, <1>1, <1>3, <1>6 DEF Under, Target, Control, Serializers
    <2>2. hand'[h] = hand[h] /\ pc'[h] = pc[h] /\ Waiting(h)' = Waiting(h)
      BY <1>0, <1>1, <1>3, <1>6 DEF Waiting
    <2>3. Ahead(e, c, hand[h])
      <3>1. CASE hand[h] = <<>>
        BY <3>1, NothingAhead
      <3>2. CASE hand[h] # <<>>
        <4>1. pc[h] = "own"
          BY <2>1, <3>2 DEF Control, EmptyHands, Serializers
        <4>2. UpTo(e, hand[h])
          BY <2>1, <4>1 DEF Stages, OwnBuffer, e
        <4> QED
          BY <1>0, <4>2, NotLate
      <3> QED
        BY <3>1, <3>2
    <2>4. Ordered(h)'
      <3>1. OrderOf(e, wire[h], <<>>, hand[h], pipe[h], Waiting(h))
        BY <2>1 DEF Stages, Ordered, e
      <3>2. OrderOf(e, wire[h], c, hand[h], r, Waiting(h))
        BY <1>2, <2>3, <3>1, PumpTakes
      <3> QED
        BY <1>1, <2>1, <2>2, <3>2 DEF Ordered, e
    <2>5. Written(h)'
      BY <1>1, <1>4, <2>1, <2>2 DEF Stages, Written, UpTo
    <2>6. OwnBuffer(h)'
      BY <1>1, <2>1, <2>2 DEF Stages, OwnBuffer
    <2>7. Accounted(h)'
      BY <1>1, <1>4, <2>1, <2>2, RangeEmpty DEF Stages, Accounted, BytesOf
    <2> QED
      BY <1>5, <2>4, <2>5, <2>6, <2>7 DEF Stages
  <1>7. CASE t # Pump
    <2>1. /\ t = h /\ serial[h] = h /\ hand'[h] = c /\ hand[h] = <<>> /\ pc'[h] = "send"
          /\ pc[h] = "drain"
      BY <1>0, <1>1, <1>3, <1>7 DEF Target, Control, Serializers
    <2>2. Under(h, Pump) = <<>> /\ Under(h, Pump)' = Under(h, Pump)
      <3>1. cur = h => hand[Pump] = <<>>
        BY <1>0, <2>1 DEF Control, Serializers, EmptyHands
      <3>2. hand'[Pump] = hand[Pump]
        BY <1>0, <1>3, <1>7
      <3> QED
        BY <1>0, <1>1, <3>1, <3>2 DEF Under, Target
    <2>3. Waiting(h)' = Waiting(h)
      BY <1>1, <2>1 DEF Waiting
    <2>4. Ordered(h)'
      <3>1. OrderOf(e, wire[h], <<>>, <<>>, pipe[h], Waiting(h))
        BY <2>1, <2>2 DEF Stages, Ordered, e
      <3>2. OrderOf(e, wire[h], <<>>, c, r, Waiting(h))
        BY <1>2, <3>1, AppTakes
      <3> QED
        BY <1>1, <2>1, <2>2, <2>3, <3>2 DEF Ordered, e
    <2>5. Written(h)'
      BY <1>1, <1>4, <2>1, <2>2 DEF Stages, Written, UpTo
    <2>6. OwnBuffer(h)'
      BY <2>1 DEF OwnBuffer
    <2>7. Accounted(h)'
      BY <1>1, <1>4, <2>1, <2>2, <2>3, RangeEmpty DEF Stages, Accounted, BytesOf
    <2> QED
      BY <1>5, <2>4, <2>5, <2>6, <2>7 DEF Stages
  <1> QED
    BY <1>6, <1>7

\* The socketpair is empty: an interposed write takes up its own buffer.
LEMMA OwnStages ==
  ASSUME Control, Control', OutboundAssumption, NEW h \in Handle, Stages(h),
         RecvNothing(h)
  PROVE  Stages(h)'
  <1>0. /\ h \in Thread /\ h # Pump /\ Pump \in Thread
    BY SessionTypes DEF Thread
  <1>1. /\ pc[h] = "drain" /\ pipe[h] = <<>> /\ pc'[h] = "own" /\ hand'[h] = data[h]
        /\ hand'[Pump] = hand[Pump]
        /\ UNCHANGED <<data, wire, acked, failed, cur, serial, fd, made, early, pipe>>
    BY <1>0 DEF RecvNothing, Target, Goto, session, loopVars, history, Control, TypeOK
  <1>2. serial[h] = h /\ hand[h] = <<>>
    BY <1>1 DEF Control, Serializers, EmptyHands
  <1>3. /\ Under(h, Pump)' = Under(h, Pump) /\ Waiting(h) = data[h] /\ Waiting(h)' = <<>>
    BY <1>1 DEF Under, Target, Waiting
  <1>4. Ordered(h)'
    BY <1>1, <1>2, <1>3, OwnTurn, NothingAhead DEF Stages, Ordered
  <1>5. Written(h)' /\ OwnBuffer(h)' /\ Acked(h)'
    BY <1>1, <1>2, <1>3 DEF Stages, Written, OwnBuffer, Acked
  <1>6. Accounted(h)'
    BY <1>1, <1>2, <1>3, RangeEmpty DEF Stages, Accounted, BytesOf
  <1> QED
    BY <1>4, <1>5, <1>6 DEF Stages

\* The two outcomes of send_chunk, as far as bytes go: the chunk is on the wire
\* and the rest in hand, or the hand is empty, the handle marked, and the chunk
\* on the wire or not.
LEMMA SendOutcome ==
  ASSUME Control, OutboundAssumption, NEW t \in Thread, NEW h \in Handle, h = Target(t),
         SendChunk(t) \/ SendFails(t)
  PROVE  /\ pc[t] \in {"send", "own"}
         /\ UNCHANGED <<pipe, cur, fd, made, early>>
         /\ \/ SendChunk(t) /\ wire'[h] = wire[h] \o Chunk(t) /\ hand'[t] = AfterChunk(t)
               /\ UNCHANGED failed
            \/ SendFails(t) /\ wire'[h] = wire[h] \o Chunk(t) /\ hand'[t] = <<>> /\ failed'[h]
            \/ SendFails(t) /\ wire'[h] = wire[h] /\ hand'[t] = <<>> /\ failed'[h]
         /\ \A u \in Thread : u # t => hand'[u] = hand[u]
         /\ \A g \in Handle : g # h => wire'[g] = wire[g] /\ failed'[g] = failed[g]
  <1>1. /\ wire \in [Handle -> Seq(Byte)] /\ hand \in [Thread -> Seq(Byte)]
        /\ failed \in [Handle -> BOOLEAN]
    BY DEF Control, TypeOK
  <1>2. CASE SendChunk(t)
    BY <1>1, <1>2 DEF SendChunk, session, loopVars
  <1>3. CASE SendFails(t)
    <2>1. wire[h] \o <<>> = wire[h]
      BY <1>1, ConcatEmptySeq
    <2>2. PICK taken \in {<<>>} \cup IF up THEN {Chunk(t)} ELSE {} :
             wire' = [wire EXCEPT ![h] = wire[h] \o taken]
      BY <1>3 DEF SendFails
    <2>3. taken = <<>> \/ taken = Chunk(t)
      BY <2>2
    <2>4. /\ hand' = [hand EXCEPT ![t] = <<>>] /\ failed' = [failed EXCEPT ![h] = TRUE]
          /\ UNCHANGED <<pipe, cur, fd, made, early>> /\ pc[t] \in {"send", "own"}
      BY <1>3 DEF SendFails, session, loopVars
    <2> QED
      BY <1>1, <1>3, <2>1, <2>2, <2>3, <2>4
  <1> QED
    BY <1>2, <1>3

\* The pump sends.
LEMMA PumpSendStages ==
  ASSUME Control, Control', OutboundAssumption, NEW h \in Handle, h = cur, Stages(h),
         SendChunk(Pump) \/ SendFails(Pump)
  PROVE  Stages(h)'
  <1> DEFINE c == Chunk(Pump)
             r == AfterChunk(Pump)
             e == early[h]
  <1>0. /\ h \in Thread /\ h # Pump /\ Pump \in Thread /\ Target(Pump) = h
        /\ wire[h] \in Seq(Byte) /\ Under(h, Pump) = hand[Pump] /\ c \in Seq(Byte)
        /\ pc[Pump] # "own"
    BY SessionTypes, TakenFacts DEF Thread, Target, Control, TypeOK, PumpPc
  <1>1. /\ UNCHANGED <<pipe, cur, fd, made, early>>
        /\ \/ wire'[h] = wire[h] \o c /\ hand'[Pump] = r /\ UNCHANGED failed
           \/ wire'[h] = wire[h] \o c /\ hand'[Pump] = <<>> /\ failed'[h]
           \/ wire'[h] = wire[h] /\ hand'[Pump] = <<>> /\ failed'[h]
        /\ hand'[h] = hand[h]
    BY <1>0, SendOutcome
  <1>2. UNCHANGED <<serial, data, acked>> /\ pc'[h] = pc[h]
    BY <1>0 DEF SendChunk, SendFails, DrainOn, Return, Goto, Control, TypeOK
  <1>3. Under(h, Pump)' = hand'[Pump] /\ Waiting(h)' = Waiting(h)
    BY <1>1, <1>2 DEF Under, Target, Waiting
  <1>4. Cuts(e, hand[Pump], c, r)
    BY <1>0, ChunkCuts
  <1>5. Range(wire[h] \o c) = Range(wire[h]) \cup Range(c)
    BY <1>0, CatFacts
  <1> HIDE DEF c, r, e
  <1>6. Range(hand[Pump]) = Range(c) \cup Range(r) /\ Range(wire[h]) \subseteq Range(wire'[h])
    BY <1>1, <1>4, <1>5 DEF Cuts
  <1>7. Ordered(h)'
    <2>1. OrderOf(e, wire[h], hand[Pump], hand[h], pipe[h], Waiting(h))
      BY <1>0 DEF Stages, Ordered, e
    <2>2. OrderOf(e, wire[h] \o c, r, hand[h], pipe[h], Waiting(h))
      BY <1>0, <1>4, <2>1, PumpSends
    <2>3. /\ OrderOf(e, wire[h], <<>>, hand[h], pipe[h], Waiting(h))
          /\ OrderOf(e, wire[h] \o c, <<>>, hand[h], pipe[h], Waiting(h))
      BY <2>1, <2>2, Dropped
    <2> QED
      BY <1>1, <1>2, <1>3, <2>2, <2>3 DEF Ordered, e
  <1>8. Written(h)'
    BY <1>0, <1>1, <1>2, <1>3, <1>5, <1>6, RangeEmpty DEF Stages, Written, UpTo
  <1>9. OwnBuffer(h)' /\ Acked(h)'
    BY <1>1, <1>2, <1>6 DEF Stages, OwnBuffer, Acked
  <1>10. Accounted(h)'
    <2>1. CASE failed'[h]
      BY <2>1 DEF Accounted
    <2>2. CASE wire'[h] = wire[h] \o c /\ hand'[Pump] = r /\ UNCHANGED failed
      BY <1>0, <1>1, <1>3, <1>5, <1>6, <2>2 DEF Stages, Accounted, BytesOf
    <2> QED
      BY <1>1, <2>1, <2>2
  <1> QED
    BY <1>7, <1>8, <1>9, <1>10 DEF Stages

\* The thread of the application sends, and may be done with its write.
LEMMA AppSendStages ==
  ASSUME Control, Control', OutboundAssumption, NEW h \in Handle, Stages(h),
         SendChunk(h) \/ SendFails(h)
  PROVE  Stages(h)'
  <1> DEFINE c == Chunk(h)
             r == AfterChunk(h)
             e == early[h]
  <1>0. /\ h \in Thread /\ h # Pump /\ Pump \in Thread /\ Target(h) = h
        /\ wire[h] \in Seq(Byte) /\ c \in Seq(Byte) /\ hand[h] \in Seq(Nat)
        /\ data[h] \in Seq(Nat) /\ e \in Nat
        /\ Under(h, Pump) = IF cur = h THEN hand[Pump] ELSE <<>>
    BY SessionTypes, TakenFacts, NatSeq DEF Thread, Target, Control, TypeOK
  <1>1. /\ UNCHANGED <<pipe, cur, fd, made, early>> /\ pc[h] \in {"send", "own"}
        /\ \/ /\ SendChunk(h) /\ wire'[h] = wire[h] \o c
              /\ hand'[h] = r /\ UNCHANGED failed
           \/ SendFails(h) /\ wire'[h] = wire[h] \o c /\ hand'[h] = <<>> /\ failed'[h]
           \/ SendFails(h) /\ wire'[h] = wire[h] /\ hand'[h] = <<>> /\ failed'[h]
        /\ hand'[Pump] = hand[Pump]
    BY <1>0, SendOutcome
  <1>2. Under(h, Pump)' = Under(h, Pump)
    BY <1>0, <1>1 DEF Under, Target
  <1>3. Cuts(e, hand[h], c, r)
    BY <1>0, ChunkCuts
  <1>4. Range(wire[h] \o c) = Range(wire[h]) \cup Range(c)
    BY <1>0, CatFacts
  \* The write goes on, drains on, fails or succeeds.
  <1>5. \/ UNCHANGED <<pc, serial, data, acked>> /\ wire'[h] = wire[h] \o c /\ hand'[h] = r
        \/ pc[h] = "send" /\ pc'[h] = "drain" /\ UNCHANGED <<serial, data, acked>>
        \/ pc[h] = "own" /\ pc'[h] = "idle" /\ data'[h] = <<>> /\ acked'[h] = acked[h]
        \/ /\ pc[h] = "own" /\ pc'[h] = "idle" /\ data'[h] = <<>>
           /\ acked'[h] = acked[h] \cup Range(data[h])
           /\ wire'[h] = wire[h] \o c /\ r = <<>>
    <2>1. /\ wire \in [Handle -> Seq(Byte)] /\ hand \in [Thread -> Seq(Byte)]
          /\ pc \in [Thread -> AppPc \cup PumpPc] /\ data \in [Handle -> Seq(Byte)]
          /\ acked \in [Handle -> SUBSET Byte]
      BY DEF Control, TypeOK
    <2>2. CASE SendChunk(h) /\ r # <<>>
      BY <1>0, <2>1, <2>2 DEF SendChunk
    <2>3. ASSUME DrainOn(h)
          PROVE  pc[h] = "send" /\ pc'[h] = "drain" /\ UNCHANGED <<serial, data, acked>>
      BY <1>0, <2>1, <2>3 DEF DrainOn, Goto
    <2>4. ASSUME NEW ok \in BOOLEAN, Return(h, ok)
          PROVE  /\ pc[h] = "own" /\ pc'[h] = "idle" /\ data'[h] = <<>>
                 /\ acked'[h] = IF ok THEN acked[h] \cup Range(data[h]) ELSE acked[h]
      BY <1>0, <2>1, <2>4 DEF Return, Goto
    <2>5. CASE SendChunk(h) /\ r = <<>>
      <3>1. wire'[h] = wire[h] \o c
        BY <1>0, <2>1, <2>5 DEF SendChunk
      <3> QED
        BY <2>3, <2>4, <2>5, <3>1 DEF SendChunk
    <2>6. CASE SendFails(h)
      BY <2>3, <2>4, <2>6 DEF SendFails
    <2> QED
      BY <2>2, <2>5, <2>6
  <1> HIDE DEF c, r, e
  <1>6. Range(hand[h]) = Range(c) \cup Range(r) /\ Range(wire[h]) \subseteq Range(wire'[h])
    BY <1>1, <1>3, <1>4 DEF Cuts
  <1>7. Waiting(h)' = Waiting(h)
    BY <1>1, <1>5 DEF Waiting
  <1>8. Ordered(h)'
    <2>1. OrderOf(e, wire[h], Under(h, Pump), hand[h], pipe[h], Waiting(h))
      BY DEF Stages, Ordered, e
    <2>2. Ahead(e, c, Under(h, Pump))
      <3>1. CASE serial[h] = h
        <4>1. Under(h, Pump) = <<>>
          BY <1>0, <3>1 DEF Control, Serializers, EmptyHands
        <4> QED
          BY <4>1, NothingAhead
      <3>2. CASE serial[h] # h
        <4>1. UpTo(e, hand[h])
          BY <1>1, <3>2 DEF Control, Serializers, Stages, OwnBuffer, e
        <4>2. Ahead(e, hand[h], Under(h, Pump))
          BY <1>0, <4>1, NotLate
        <4> QED
          BY <1>6, <4>2 DEF Ahead
      <3> QED
        BY <3>1, <3>2
    <2>3. OrderOf(e, wire[h] \o c, Under(h, Pump), r, pipe[h], Waiting(h))
      BY <1>0, <1>3, <2>1, <2>2, AppSends
    <2>4. /\ OrderOf(e, wire[h], Under(h, Pump), <<>>, pipe[h], Waiting(h))
          /\ OrderOf(e, wire[h] \o c, Under(h, Pump), <<>>, pipe[h], Waiting(h))
      BY <2>1, <2>3, Dropped
    <2> QED
      BY <1>1, <1>2, <1>7, <2>3, <2>4 DEF Ordered, e
  <1>9. Written(h)'
    <2>1. UpTo(made[h], data'[h])
      BY <1>5, RangeEmpty DEF Stages, Written, UpTo
    <2> QED
      BY <1>1, <1>2, <1>4, <1>6, <2>1, RangeEmpty DEF Stages, Written, UpTo
  <1>10. Accounted(h)'
    <2>1. CASE failed'[h]
      BY <2>1 DEF Accounted
    <2>2. CASE wire'[h] = wire[h] \o c /\ hand'[h] = r /\ UNCHANGED failed
      BY <1>1, <1>2, <1>4, <1>6, <1>7, <2>2 DEF Stages, Accounted, BytesOf
    <2> QED
      BY <1>1, <2>1, <2>2
  <1>11. OwnBuffer(h)'
    <2> SUFFICES ASSUME pc'[h] = "own" PROVE OwnBuffer(h)'
      BY DEF OwnBuffer
    <2>1. /\ pc[h] = "own" /\ UNCHANGED <<serial, data>>
          /\ wire'[h] = wire[h] \o c /\ hand'[h] = r
      BY <1>5
    <2>2. serial[h] # h => UpTo(early[h], r)
      BY <1>6, <2>1 DEF Stages, OwnBuffer, UpTo
    <2>3. Range(data[h]) \subseteq Range(wire'[h]) \cup Range(r)
      BY <1>4, <1>6, <2>1 DEF Stages, OwnBuffer
    <2> QED
      BY <1>1, <2>1, <2>2, <2>3 DEF Stages, OwnBuffer
  <1>12. Acked(h)'
    <2>1. CASE acked'[h] = acked[h]
      BY <1>1, <1>6, <2>1 DEF Stages, Acked
    <2>2. CASE /\ pc[h] = "own" /\ acked'[h] = acked[h] \cup Range(data[h])
               /\ wire'[h] = wire[h] \o c /\ r = <<>>
      <3>1. Range(data[h]) \subseteq Range(wire'[h])
        BY <1>4, <1>6, <2>2, RangeEmpty DEF Stages, OwnBuffer
      <3>2. ASSUME NEW b \in Range(data[h]), e < b
            PROVE  pipe[h] = <<>>
        <4>1. b \in Nat /\ ~(b <= e)
          BY <1>0, <3>2, CatFacts
        <4> QED
          BY <2>2, <4>1 DEF Stages, OwnBuffer, UpTo, e
      <3> SUFFICES ASSUME NEW b \in acked'[h]
                   PROVE  /\ b \in Range(wire'[h])
                          /\ e < b => \A x \in Range(pipe[h]) : b < x
        BY <1>1 DEF Acked, e
      <3>3. CASE b \in acked[h]
        BY <1>6, <3>3 DEF Stages, Acked, e
      <3>4. CASE b \in Range(data[h])
        BY <3>1, <3>2, <3>4, RangeEmpty
      <3> QED
        BY <2>2, <3>3, <3>4
    <2>3. acked' = acked => acked'[h] = acked[h]
      OBVIOUS
    <2> QED
      BY <1>5, <2>1, <2>2, <2>3
  <1> QED
    BY <1>8, <1>9, <1>10, <1>11, <1>12 DEF Stages

\* Every step keeps the stages of every session.
LEMMA StagesStep ==
  ASSUME IInv, [Next]_vars, Control', OutboundAssumption
  PROVE  \A h \in Handle : Stages(h)'
  <1> SUFFICES ASSUME NEW h \in Handle PROVE Stages(h)'
    OBVIOUS
  <1>0. /\ Control /\ Stages(h) /\ h \in Thread /\ h # Pump /\ Pump \in Thread
        /\ Under(h, Pump) = IF cur = h THEN hand[Pump] ELSE <<>>
        /\ \A g \in Handle : g \in Thread /\ g # Pump
    BY SessionTypes DEF IInv, Thread, OutboundAssumption
  <1>t. /\ pc \in [Thread -> AppPc \cup PumpPc] /\ hand \in [Thread -> Seq(Byte)]
        /\ serial \in [Handle -> Thread \cup {"free"}] /\ cur \in Handle
        /\ pipe \in [Handle -> Seq(Byte)] /\ data \in [Handle -> Seq(Byte)]
        /\ made \in [Handle -> 0..MaxBytes] /\ early \in [Handle -> 0..MaxBytes]
        /\ fd \in [Handle -> {"open", "shut", "unreg", "closed"}]
        /\ acked \in [Handle -> SUBSET Byte]
    BY <1>0 DEF Control, TypeOK
  <1>1. ASSUME pc'[h] = pc[h], UNCHANGED <<wire, hand, cur, pipe, data, history>>,
               serial'[h] = h <=> serial[h] = h, fd'[h] # "closed" => fd[h] # "closed"
        PROVE  Stages(h)'
    BY <1>0, <1>1, Elsewhere DEF Under, Target, Waiting, history
  <1>2. ASSUME NEW g \in Handle, g # h, UNCHANGED <<cur, wire, failed>>,
               \A t \in Thread \ {g} : pc'[t] = pc[t] /\ hand'[t] = hand[t],
               \A x \in Handle \ {g} :
                  /\ pipe'[x] = pipe[x] /\ data'[x] = data[x] /\ made'[x] = made[x]
                  /\ early'[x] = early[x] /\ acked'[x] = acked[x]
                  /\ serial'[x] = serial[x] /\ fd'[x] = fd[x]
        PROVE  Stages(h)'
    <2>1. Under(h, Pump)' = Under(h, Pump)
      BY <1>0, <1>2 DEF Under, Target
    <2>2. Waiting(h)' = Waiting(h)
      BY <1>0, <1>2 DEF Waiting
    <2> QED
      BY <1>0, <1>2, <2>1, <2>2, Elsewhere
  <1>3. ASSUME NEW g \in Handle,
               GateOpens(g) \/ Register(g) \/ HalfClose(g) \/ CloseRequest(g) \/ Unregister(g)
        PROVE  Stages(h)'
    BY <1>1, <1>3, <1>t
    DEF GateOpens, Register, HalfClose, CloseRequest, Unregister, loopVars, history
  <1>4. ASSUME NEW g \in Handle, GateDrained(g) \/ CloseFds(g) PROVE Stages(h)'
    <2>1. CASE g = h
      BY <1>0, <1>4, <2>1, DropStages
    <2>2. CASE g # h
      BY <1>2, <1>4, <1>t, <2>2 DEF GateDrained, CloseFds, loopVars, history
    <2> QED
      BY <2>1, <2>2
  <1>5. ASSUME NEW g \in Handle, Bypass(g) PROVE Stages(h)'
    <2>1. CASE g = h
      BY <1>0, <1>5, <2>1, BypassStages
    <2>2. CASE g # h
      BY <1>2, <1>5, <1>t, <2>2 DEF Bypass, CountWritten, session, loopVars
    <2> QED
      BY <2>1, <2>2
  <1>6. ASSUME NEW g \in Handle, Write(g) PROVE Stages(h)'
    <2>1. CASE g = h
      BY <1>0, <1>6, <2>1, WriteStages
    <2>2. CASE g # h
      BY <1>0, <1>2, <1>6, <1>t, <2>2 DEF Write, CountWritten, Goto, session, loopVars
    <2> QED
      BY <2>1, <2>2
  <1>7. ASSUME NEW g \in Handle, Lookup(g) PROVE Stages(h)'
    <2>1. CASE g = h /\ ~entry[g]
      BY <1>0, <1>7, <2>1, LookupStages
    <2>2. CASE g = h /\ entry[g]
      BY <1>0, <1>7, <1>t, <2>2, Elsewhere
      DEF Lookup, Goto, session, loopVars, history, Under, Target, Waiting
    <2>3. CASE g # h
      BY <1>0, <1>2, <1>7, <1>t, <2>3 DEF Lookup, Goto, session, loopVars, history
    <2> QED
      BY <2>1, <2>2, <2>3
  <1>8. ASSUME NEW t \in Thread, Lock(t) PROVE Stages(h)'
    <2>1. CASE t = h
      <3>1. /\ pc[h] = "lock" /\ pc'[h] = "drain"
            /\ UNCHANGED <<wire, hand, cur, pipe, data, history, fd>>
        BY <1>0, <1>8, <1>t, <2>1 DEF Lock, Goto, session, loopVars, history
      <3>2. Waiting(h)' = Waiting(h) /\ Under(h, Pump)' = Under(h, Pump)
        BY <3>1 DEF Waiting, Under, Target
      <3> QED
        BY <1>0, <3>1, <3>2, Elsewhere DEF history
    <2>2. CASE t # h
      <3>1. /\ pc'[h] = pc[h] /\ UNCHANGED <<wire, hand, cur, pipe, data, history, fd>>
            /\ serial' = [serial EXCEPT ![Target(t)] = t] /\ serial[Target(t)] = "free"
        BY <1>0, <1>8, <1>t, <2>2 DEF Lock, Goto, session, loopVars, SerialFree, history
      <3>2. serial'[h] = h <=> serial[h] = h
        BY <1>0, <1>t, <2>2, <3>1 DEF Thread, Target, OutboundAssumption
      <3> QED
        BY <1>1, <3>1, <3>2
    <2> QED
      BY <2>1, <2>2
  <1>9. ASSUME NEW t \in Thread PROVE \/ t = Pump /\ Target(t) = cur
                                      \/ t # Pump /\ t \in Handle /\ Target(t) = t
    BY <1>t DEF Thread, Target
  <1>10. ASSUME NEW t \in Thread, Recv(t) PROVE Stages(h)'
    <2>1. CASE h = Target(t)
      BY <1>0, <1>10, <2>1, RecvStages
    <2>2. CASE h # Target(t) /\ t # Pump
      BY <1>0, <1>2, <1>9, <1>10, <1>t, <2>2 DEF Recv, Goto, session, loopVars, history
    <2>3. CASE h # Target(t) /\ t = Pump
      <3>1. /\ pc'[h] = pc[h] /\ hand'[h] = hand[h] /\ pipe'[h] = pipe[h] /\ cur # h
            /\ UNCHANGED <<wire, cur, data, history, fd, serial>>
        BY <1>0, <1>9, <1>10, <1>t, <2>3 DEF Recv, Goto, session, loopVars, history
      <3> QED
        BY <1>0, <3>1, Elsewhere DEF Under, Target, Waiting, history
    <2> QED
      BY <2>1, <2>2, <2>3
  <1>11. ASSUME NEW t \in Thread, RecvNothing(t) PROVE Stages(h)'
    <2>1. CASE t = h
      BY <1>0, <1>11, <2>1, OwnStages
    <2>2. CASE t # h /\ t # Pump
      BY <1>0, <1>2, <1>9, <1>11, <1>t, <2>2 DEF RecvNothing, Goto, session, loopVars, history
    <2>3. CASE t = Pump
      <3>1. /\ pc'[h] = pc[h] /\ pc[Pump] = "drain"
            /\ serial' = [serial EXCEPT ![cur] = "free"]
            /\ UNCHANGED <<wire, hand, cur, pipe, data, history, fd>>
        BY <1>0, <1>11, <1>t, <2>3 DEF RecvNothing, Goto, session, loopVars, history
      <3>2. serial'[h] = h <=> serial[h] = h
        BY <1>0, <1>t, <3>1 DEF Control, Serializers, OutboundAssumption, Thread
      <3> QED
        BY <1>1, <3>1, <3>2
    <2> QED
      BY <2>1, <2>2, <2>3
  <1>12. ASSUME NEW t \in Thread, SendChunk(t) \/ SendFails(t) PROVE Stages(h)'
    <2>0. /\ UNCHANGED <<pipe, cur, fd, made, early>>
          /\ \A u \in Thread : u # t => hand'[u] = hand[u]
          /\ \A g \in Handle : g # Target(t) => wire'[g] = wire[g] /\ failed'[g] = failed[g]
      <3>1. Target(t) \in Handle
        BY <1>9, <1>t
      <3> QED
        BY <1>0, <1>12, <3>1, SendOutcome
    <2>1. CASE h = Target(t) /\ t = Pump
      BY <1>0, <1>9, <1>12, <2>1, PumpSendStages
    <2>2. CASE h = Target(t) /\ t # Pump
      BY <1>0, <1>9, <1>12, <2>2, AppSendStages
    <2>3. CASE h # Target(t)
      <3>1. /\ pc'[h] = pc[h] /\ serial'[h] = serial[h] /\ data'[h] = data[h]
            /\ acked'[h] = acked[h]
        BY <1>0, <1>9, <1>12, <1>t, <2>3, SMTT(30)
        DEF SendChunk, SendFails, DrainOn, Return, Goto, PumpPc
      <3>2. hand'[h] = hand[h] /\ Under(h, Pump)' = Under(h, Pump)
        BY <1>0, <1>9, <2>0, <2>3 DEF Under, Target
      <3>3. Waiting(h)' = Waiting(h)
        BY <3>1 DEF Waiting
      <3> QED
        BY <1>0, <2>0, <2>3, <3>1, <3>2, <3>3, Elsewhere
    <2> QED
      BY <2>1, <2>2, <2>3
  <1>13. CASE Loop
    <2>1. CASE Flush
      <3>1. /\ pc'[h] = pc[h] /\ hand[Pump] = <<>>
            /\ UNCHANGED <<wire, hand, pipe, data, history, fd, serial>>
        BY <1>0, <1>t, <2>1 DEF Flush, Goto, session, history, Control, EmptyHands
      <3>2. Under(h, Pump)' = Under(h, Pump) /\ Waiting(h)' = Waiting(h)
        BY <1>0, <3>1 DEF Under, Target, Waiting
      <3> QED
        BY <1>0, <3>1, <3>2, Elsewhere DEF history
    <2>2. CASE ~Flush
      BY <1>0, <1>1, <1>13, <1>t, <2>2
      DEF Loop, Snapshot, PollReady, PollTimeout, HaveClient, NoClient, PassDone,
          Goto, session, loopVars, history
    <2> QED
      BY <2>1, <2>2
  <1>14. CASE Disconnect \/ UNCHANGED vars
    BY <1>1, <1>14 DEF Disconnect, vars, session, loopVars, history
  <1> QED
    BY <1>3, <1>4, <1>5, <1>6, <1>7, <1>8, <1>10, <1>11, <1>12, <1>13, <1>14
    DEF Next, Reader, App, Drain

---------------------------------------------------------------------------
(* The theorems.                                                           *)

\* The invariant as a whole holds in every reachable state.
LEMMA Invariance == Spec => []IInv
  <1> USE OutboundAssumption
  <1>1. Init => IInv
    BY ControlInit, StagesInit DEF IInv
  <1>2. IInv /\ [Next]_vars => IInv'
    BY ControlStep, StagesStep DEF IInv
  <1> QED
    BY <1>1, <1>2, PTL DEF Spec

\* Every field keeps its type, no matter how long the writes and how small the
\* socketpair, the buffer and the chunk: in particular drain_locked never holds
\* more than its buffer, and the socketpair never more than it can.
THEOREM OutboundTypes == Spec => []TypeOK
  <1>1. IInv => TypeOK
    BY DEF IInv, Control
  <1> QED
    BY <1>1, Invariance, PTL

\* state.rs 420-424: the bytes of a session are on the wire, in the hands of the
\* two threads, in the socketpair and in the waiting buffer in the order in which
\* the application wrote them, none twice, from registration on.
THEOREM OutboundOrder == Spec => []SessionOrder
  <1>1. IInv => SessionOrder
    <2> SUFFICES ASSUME IInv, NEW h \in Handle
                 PROVE  Ascending(early[h], InFlight(h))
      BY DEF SessionOrder, Ascending
    <2>1. InFlight(h) = wire[h] \o Under(h, Pump) \o hand[h] \o pipe[h] \o Waiting(h)
      BY OutboundAssumption, SessionTypes DEF IInv, InFlight
    <2> QED
      BY <2>1, OutboundAssumption, SessionTypes, WholeOrder DEF IInv, Stages, Ordered
  <1> QED
    BY <1>1, Invariance, PTL

\* state.rs 412-416 and lib.rs 602: a byte is missing only after a failed send or
\* a close, and a write that returned success is with the engine, nothing of the
\* session written before it still in the socketpair.
THEOREM OutboundLoss == Spec => []LossReported
  <1>1. IInv => LossNeedsFailure
    <2> SUFFICES ASSUME IInv, NEW h \in Handle, fd[h] # "closed" /\ ~failed[h],
                        NEW b \in Byte, early[h] < b /\ b <= made[h]
                 PROVE  b \in Range(InFlight(h))
      BY DEF LossNeedsFailure
    <2>1. InFlight(h) = wire[h] \o Under(h, Pump) \o hand[h] \o pipe[h] \o Waiting(h)
      BY OutboundAssumption, SessionTypes DEF IInv, InFlight
    <2>2. Range(InFlight(h)) = BytesOf(wire[h], Under(h, Pump), hand[h], pipe[h], Waiting(h))
      BY <2>1, OutboundAssumption, SessionTypes, WholeOrder DEF IInv, Stages, Ordered
    <2> QED
      BY <2>2 DEF IInv, Stages, Accounted
  <1>2. IInv => AckedOnWire
    <2>1. ASSUME NEW h \in Handle, NEW i \in DOMAIN pipe[h] PROVE pipe[h][i] \in Range(pipe[h])
      BY DEF Range
    <2> QED
      BY <2>1 DEF IInv, Stages, Acked, AckedOnWire
  <1> QED
    BY <1>1, <1>2, Invariance, PTL DEF LossReported
=============================================================================
