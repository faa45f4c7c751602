------------------------- MODULE ConversionsProofs -------------------------
(***************************************************************************)
(* Proofs about Libax25 and Wire, for texts, paths, files and messages of  *)
(* any length and for every size of a callsign, a path, an integer, a      *)
(* chunk and a frame.                                                      *)
(***************************************************************************)
EXTENDS Libax25, Wire, SequenceTheorems, WellFoundedInduction, TLAPS

---------------------------------------------------------------------------
(* Datagrams.                                                              *)

Octets == Seq(0..255)

\* The low byte of an octet is the octet.
LEMMA FromWireSame ==
  ASSUME NEW s \in Octets
  PROVE  FromWire(s) = s
  <1>1. s \in [1..Len(s) -> 0..255] /\ DOMAIN s = 1..Len(s)
    BY LenProperties DEF Octets
  <1>2. \A x \in 0..255 : x % 256 = x
    OBVIOUS
  <1>3. \A i \in 1..Len(s) : s[i] % 256 = s[i]
    BY <1>1, <1>2
  <1>4. s = [i \in 1..Len(s) |-> s[i]]
    BY <1>1
  <1> QED
    BY <1>1, <1>3, <1>4 DEF FromWire

\* A sequence is its first element and the rest.
LEMMA HeadAndTail ==
  ASSUME NEW S, NEW s \in Seq(S), s # <<>>
  PROVE  s = <<s[1]>> \o Tail(s) /\ s[1] \in S /\ Tail(s) \in Seq(S)
  <1>1. Len(s) \in Nat \ {0}
    BY EmptySeq
  <1>2. 1 \in 1..Len(s) /\ Len(s) \in 1..Len(s) /\ 1 + 1 = 2
    BY <1>1
  <1>3. SubSeq(s, 1, Len(s)) = <<s[1]>> \o SubSeq(s, 2, Len(s))
    BY <1>2, SubSeqRecursiveFirst
  <1> QED
    BY <1>2, <1>3, SubSeqFull, TailIsSubSeq, HeadTailProperties, ElementOfSeq

\* The rest of a sequence with one element in front is that sequence.
LEMMA TailOfCons ==
  ASSUME NEW S, NEW s \in Seq(S), NEW x \in S
  PROVE  /\ <<x>> \o s \in Seq(S) /\ <<x>> \o s # <<>>
         /\ Tail(<<x>> \o s) = s /\ Len(<<x>> \o s) = Len(s) + 1
  <1>1. <<x>> \in Seq(S) /\ Len(<<x>>) = 1
    OBVIOUS
  <1> DEFINE c == <<x>> \o s
  <1>2. /\ c \in Seq(S) /\ Len(c) = 1 + Len(s)
        /\ \A i \in 1..1 + Len(s) : c[i] = IF i <= 1 THEN <<x>>[i] ELSE s[i - 1]
    BY <1>1, ConcatProperties
  <1>3. Len(s) \in Nat
    BY LenProperties
  <1> HIDE DEF c
  <1>4. c # <<>>
    BY <1>2, <1>3, EmptySeq
  <1>5. Tail(c) \in Seq(S) /\ Len(Tail(c)) = Len(s) /\ \A i \in 1..Len(s) : Tail(c)[i] = c[i + 1]
    BY <1>2, <1>3, <1>4, HeadTailProperties
  <1>6. \A i \in 1..Len(s) : Tail(c)[i] = s[i]
    BY <1>2, <1>3, <1>5
  <1>7. Tail(c) = s
    BY <1>5, <1>6, SeqEqual
  <1> QED
    BY <1>2, <1>3, <1>4, <1>7 DEF c

\* What is between the two sockets.
SentAs ==
    wcall.op = "sendto" =>
        /\ wcall.app \in Octets /\ wcall.pidincl \in BOOLEAN
        /\ out = IF WithPid(wcall.app, wcall.pidincl) = <<>> THEN Refused
                 ELSE WithPid(wcall.app, wcall.pidincl)

\* Whatever the two sides ask for, the receiver sees the sender's information,
\* and the PID octet exactly if it asked for it.
LEMMA DatagramThrough ==
  ASSUME NEW app \in Octets, NEW sent \in BOOLEAN, NEW pidincl \in BOOLEAN,
         WithPid(app, sent) # <<>>
  PROVE  LET info == IF sent THEN Tail(app) ELSE app
             pid == IF sent THEN app[1] ELSE PidNoL3
             seen == IF pidincl THEN <<pid>> \o info ELSE info
         IN /\ WithoutPid(FromWire(WithPid(app, sent)), pidincl) = seen
            /\ seen \in Octets /\ info \in Octets
            /\ seen = <<>> <=> info = <<>> /\ ~pidincl
  <1> DEFINE info == IF sent THEN Tail(app) ELSE app
             pid == IF sent THEN app[1] ELSE PidNoL3
  <1>1. WithPid(app, sent) = <<pid>> \o info /\ pid \in 0..255 /\ info \in Octets
    <2>1. CASE sent
      <3>1. app # <<>> /\ app \in Seq(0..255)
        BY <2>1 DEF WithPid, Octets
      <3> QED
        BY <2>1, <3>1, HeadAndTail DEF WithPid, Octets
    <2>2. CASE ~sent
      BY <2>2 DEF WithPid, PidNoL3
    <2> QED
      BY <2>1, <2>2
  <1> HIDE DEF info, pid
  <1>2. /\ <<pid>> \o info \in Octets /\ <<pid>> \o info # <<>> /\ Tail(<<pid>> \o info) = info
    BY <1>1, TailOfCons DEF Octets
  <1>3. FromWire(WithPid(app, sent)) = <<pid>> \o info
    BY <1>1, <1>2, FromWireSame
  <1>4. WithoutPid(<<pid>> \o info, pidincl) = IF pidincl THEN <<pid>> \o info ELSE info
    BY <1>2 DEF WithoutPid
  <1> QED
    BY <1>1, <1>2, <1>3, <1>4 DEF info, pid

\* Cutting a sequence off after n elements.
LEMMA CutOff ==
  ASSUME NEW s \in Octets, NEW room \in Nat
  PROVE  SubSeq(s, 1, IF Len(s) <= room THEN Len(s) ELSE room) = <<>> => room = 0 \/ s = <<>>
  <1> DEFINE n == IF Len(s) <= room THEN Len(s) ELSE room
  <1>0. s \in Seq(0..255)
    BY DEF Octets
  <1>1. Len(s) \in Nat /\ n \in Nat /\ n <= Len(s) /\ \A i \in 1..Len(s) : s[i] \in 0..255
    <2>1. Len(s) \in Nat
      BY <1>0, LenProperties
    <2> QED
      BY <1>0, <2>1, ElementOfSeq
  <1>2. Len(SubSeq(s, 1, n)) = IF 1 <= n THEN n - 1 + 1 ELSE 0
    <2> HIDE DEF n
    <2>1. \A i \in 1..n : s[i] \in 0..255
      BY <1>1
    <2> QED
      BY <1>1, <2>1, SubSeqProperties
  <1>3. n = 0 => room = 0 \/ Len(s) = 0
    BY <1>1
  <1>4. Len(s) = 0 => s = <<>>
    BY EmptySeq DEF Octets
  <1> HIDE DEF n
  <1>5. SubSeq(s, 1, n) = <<>> => n = 0
    BY <1>1, <1>2, EmptySeq
  <1> QED
    BY <1>3, <1>4, <1>5 DEF n

UiInv == SentAs /\ UiDelivered

\* A step of the wire keeps the delivery of datagrams.
LEMMA UiStep ==
  ASSUME UiInv, [WireNext]_wireVars
  PROVE  UiInv'
  <1>1. CASE UNCHANGED wireVars
    BY <1>1 DEF UiInv, SentAs, UiDelivered, wireVars
  <1>2. ASSUME NEW pidincl \in BOOLEAN, NEW room \in Rooms, Recvfrom(pidincl, room)
        PROVE  UiInv'
    <2>1. /\ wcall.op = "sendto" /\ wcall.app \in Octets /\ wcall.pidincl \in BOOLEAN /\ room \in Nat
          /\ out = WithPid(wcall.app, wcall.pidincl) /\ out # <<>>
      BY <1>2, WireAssumption DEF Recvfrom, UiInv, SentAs, Refused, WireAssumption
    <2> DEFINE info == IF wcall.pidincl THEN Tail(wcall.app) ELSE wcall.app
               pid == IF wcall.pidincl THEN wcall.app[1] ELSE PidNoL3
               seen == IF pidincl THEN <<pid>> \o info ELSE info
    <2>2. /\ WithoutPid(FromWire(out), pidincl) = seen /\ seen \in Octets
          /\ seen = <<>> <=> info = <<>> /\ ~pidincl
      BY <2>1, DatagramThrough, ZenonT(40)
    <2>3. /\ wcall' = [op |-> "recvfrom", app |-> wcall.app, sent |-> wcall.pidincl,
                       pidincl |-> pidincl, room |-> room]
          /\ out' = SubSeq(seen, 1, IF Len(seen) <= room THEN Len(seen) ELSE room)
      BY <1>2, <2>2 DEF Recvfrom
    <2>4. out' = <<>> => room = 0 \/ (info = <<>> /\ ~pidincl)
      <3> HIDE DEF seen, info
      <3> QED
        BY <2>1, <2>2, <2>3, CutOff
    <2>5. UiDelivered'
      BY <2>3, <2>4 DEF UiDelivered
    <2>6. SentAs'
      BY <2>3 DEF SentAs
    <2> QED
      BY <2>5, <2>6 DEF UiInv
  <1>3. ASSUME NEW app \in Apps, NEW pidincl \in BOOLEAN, Sendto(app, pidincl)
        PROVE  UiInv'
    BY <1>3, WireAssumption DEF Sendto, UiInv, SentAs, UiDelivered, WireAssumption, Octets, ToWire
  <1>4. ASSUME wcall'.op \notin {"sendto", "recvfrom"}
        PROVE  UiInv'
    BY <1>4 DEF UiInv, SentAs, UiDelivered
  <1>5. ASSUME NEW n \in Sizes, NEW c \in {0, 65, 255}, SendtoLarge(n, c) \/ Send(n, c)
        PROVE  UiInv'
    BY <1>4, <1>5 DEF SendtoLarge, Send
  <1>6. ASSUME NEW msg \in Messages, NEW okText \in BOOLEAN, NEW needs \in BOOLEAN, NEW has \in BOOLEAN,
               Reply(msg, okText, needs, has)
        PROVE  UiInv'
    BY <1>4, <1>6 DEF Reply
  <1>7. ASSUME NEW typ \in {"status", "close"}, NEW msg \in Messages, Push(typ, msg)
        PROVE  UiInv'
    BY <1>4, <1>7 DEF Push
  <1> QED
    BY <1>1, <1>2, <1>3, <1>5, <1>6, <1>7 DEF WireNext

\* Every datagram arrives as it was sent, up to the receiver's buffer, for every
\* payload: ax25_dgram_send puts the PID octet in front unless the application
\* did, and ax25_dgram_recv takes it away unless the application wants it.
THEOREM DatagramsDelivered ==
  WireSpec => []UiDelivered
  <1>1. WireInit => UiInv
    BY DEF WireInit, UiInv, SentAs, UiDelivered
  <1>2. UiInv => UiDelivered
    BY DEF UiInv
  <1> QED
    BY <1>1, <1>2, UiStep, PTL DEF WireSpec

---------------------------------------------------------------------------
(* Frames.                                                                 *)

\* A function on 1..n is a sequence of length n.
LEMMA FunctionIsSeq ==
  ASSUME NEW S, NEW n \in Nat, NEW f \in [1..n -> S]
  PROVE  f \in Seq(S) /\ Len(f) = n /\ DOMAIN f = 1..n
  <1>1. f \in Seq(S)
    BY SeqDef
  <1>2. DOMAIN f = 1..Len(f) /\ Len(f) \in Nat
    BY <1>1, LenProperties
  <1> QED
    BY <1>1, <1>2

\* The chunks of n characters: all but the last are full, none is longer, and
\* they add up.
LEMMA ChunksAddUp ==
  ASSUME NEW n \in Nat
  PROVE  /\ Chunks(n) \in Seq(0..MaxSendChunk) /\ Len(Chunks(n)) \in Nat \ {0}
         /\ \A i \in 1..(Len(Chunks(n)) - 1) : Chunks(n)[i] = MaxSendChunk
         /\ (Len(Chunks(n)) - 1) * MaxSendChunk + Chunks(n)[Len(Chunks(n))] = n
         /\ Chunks(n)[Len(Chunks(n))] = 0 => n = 0
  <1> DEFINE M == MaxSendChunk
  <1>0. M \in Nat \ {0}
    BY WireAssumption DEF WireAssumption
  <1>1. CASE n = 0
    <2>1. Chunks(n) = <<0>> /\ Len(<<0>>) = 1 /\ <<0>>[1] = 0 /\ <<0>> \in Seq(0..M)
      BY <1>0, <1>1 DEF Chunks
    <2> QED
      BY <1>0, <1>1, <2>1
  <1>2. CASE n > 0
    <2> DEFINE k == (n + M - 1) \div M
    <2>1. k \in Nat \ {0} /\ (k - 1) * M < n /\ n <= k * M
      BY <1>0, <1>2
    <2> HIDE DEF k, M
    <2>2. \A i \in 1..(k - 1) : i * M <= n
      <3> TAKE i \in 1..(k - 1)
      <3>1. i * M <= (k - 1) * M
        BY <1>0, <2>1
      <3>2. i * M \in Nat /\ (k - 1) * M \in Nat
        BY <1>0, <2>1
      <3> QED
        BY <3>1, <3>2, <2>1
    <2>3. \A i \in 1..(k - 1) : ChunkLen(n, i) = M
      BY <2>2 DEF ChunkLen, M
    <2>4. ChunkLen(n, k) = n - (k - 1) * M
      <3>1. (k - 1) * M = k * M - M /\ k * M \in Nat
        BY <1>0, <2>1
      <3> QED
        BY <1>0, <2>1, <3>1 DEF ChunkLen, M
    <2>5. n - (k - 1) * M \in 1..M
      <3>1. (k - 1) * M = k * M - M /\ k * M \in Nat
        BY <1>0, <2>1
      <3> QED
        BY <1>0, <2>1, <3>1
    <2>6. \A i \in 1..k : ChunkLen(n, i) \in 0..M
      BY <1>0, <2>1, <2>3, <2>4, <2>5
    <2> DEFINE s == [i \in 1..k |-> ChunkLen(n, i)]
    <2>7. Chunks(n) = s
      BY <1>2 DEF Chunks, k, M
    <2>8. s \in [1..k -> 0..M]
      BY <2>6
    <2>9. s[k] = n - (k - 1) * M /\ \A i \in 1..(k - 1) : s[i] = M
      BY <2>1, <2>3, <2>4
    <2> HIDE DEF s
    <2>10. s \in Seq(0..M) /\ Len(s) = k
      BY <2>1, <2>8, FunctionIsSeq
    <2>11. (k - 1) * M + s[k] = n /\ s[k] # 0
      <3>1. (k - 1) * M \in Int
        BY <1>0, <2>1
      <3> QED
        BY <2>5, <2>9, <3>1
    <2> QED
      BY <1>2, <2>1, <2>7, <2>9, <2>10, <2>11 DEF M
  <1> QED
    BY <1>1, <1>2

\* A character takes at most six bytes.
LEMMA JsonBytesBound ==
  ASSUME NEW c \in 0..255
  PROVE  JsonBytes(c) \in 1..6
  BY DEF JsonBytes

\* What the sends leave behind.
LEMMA FramesStep ==
  ASSUME FramesFit, [WireNext]_wireVars
  PROVE  FramesFit'
  <1>0. /\ MaxSendChunk \in Nat \ {0} /\ MaxFrame \in Nat /\ Sizes \subseteq Nat
        /\ SendtoEnvelope + 6 * (MaxSendChunk + 1) <= MaxFrame
    BY WireAssumption DEF WireAssumption
  <1>1. CASE UNCHANGED wireVars
    BY <1>1 DEF FramesFit, wireVars
  <1>2. ASSUME wcall'.op \notin {"send", "large"}
        PROVE  FramesFit'
    BY <1>2 DEF FramesFit
  <1>3. ASSUME NEW n \in Sizes, NEW c \in {0, 65, 255}, Send(n, c)
        PROVE  FramesFit'
    <2>1. wcall' = [op |-> "send", n |-> n, c |-> c] /\ out' = Chunks(n) /\ n \in Nat
      BY <1>0, <1>3 DEF Send
    <2> DEFINE s == Chunks(n)
    <2>a. /\ s \in Seq(0..MaxSendChunk) /\ Len(s) \in Nat \ {0}
          /\ \A i \in 1..(Len(s) - 1) : s[i] = MaxSendChunk
          /\ (Len(s) - 1) * MaxSendChunk + s[Len(s)] = n
          /\ s[Len(s)] = 0 => n = 0
      BY <2>1, ChunksAddUp
    <2>b. out' = s
      BY <2>1
    <2> HIDE DEF s
    <2>2. ASSUME NEW i \in DOMAIN s
          PROVE  Fits(SendEnvelope + s[i] * JsonBytes(c))
      <3>0. i \in 1..Len(s)
        BY <2>a, LenProperties
      <3>1. s[i] \in 0..MaxSendChunk
        <4> DEFINE S == 0..MaxSendChunk
        <4>1. s \in Seq(S)
          BY <2>a
        <4> HIDE DEF S
        <4>2. s[i] \in S
          BY <3>0, <4>1, ElementOfSeq
        <4> QED
          BY <4>2 DEF S
      <3>2. JsonBytes(c) \in 1..6
        BY JsonBytesBound
      <3>3. s[i] * JsonBytes(c) <= MaxSendChunk * 6
        BY <1>0, <3>1, <3>2
      <3>4. s[i] * JsonBytes(c) \in Nat
        BY <1>0, <3>1, <3>2
      <3> QED
        BY <1>0, <3>3, <3>4 DEF Fits, SendEnvelope, SendtoEnvelope
    <2> QED
      BY <2>1, <2>a, <2>b, <2>2 DEF FramesFit
  <1>4. ASSUME NEW n \in Sizes, NEW c \in {0, 65, 255}, SendtoLarge(n, c)
        PROVE  FramesFit'
    <2>1. wcall' = [op |-> "large", n |-> n, c |-> c] /\ n \in Nat
      BY <1>0, <1>4 DEF SendtoLarge
    <2>2. n <= MaxSendChunk => Fits(SendtoEnvelope + JsonBytes(PidNoL3) + n * JsonBytes(c))
      <3>1. JsonBytes(c) \in 1..6 /\ JsonBytes(PidNoL3) \in 1..6
        BY JsonBytesBound DEF PidNoL3
      <3>2. n <= MaxSendChunk => n * JsonBytes(c) <= MaxSendChunk * 6
        BY <1>0, <2>1, <3>1
      <3>3. n * JsonBytes(c) \in Nat
        BY <2>1, <3>1
      <3> QED
        BY <1>0, <3>1, <3>2, <3>3 DEF Fits, SendtoEnvelope
    <2>3. n <= MaxSendChunk => out' = <<n>>
      BY <1>4, <2>2 DEF SendtoLarge
    <2> QED
      BY <1>0, <2>1, <2>3 DEF FramesFit
  <1>5. ASSUME NEW pidincl \in BOOLEAN, NEW room \in Rooms, Recvfrom(pidincl, room)
        PROVE  FramesFit'
    BY <1>2, <1>5 DEF Recvfrom
  <1>6. ASSUME NEW app \in Apps, NEW pidincl \in BOOLEAN, Sendto(app, pidincl)
        PROVE  FramesFit'
    BY <1>2, <1>6 DEF Sendto
  <1>7. ASSUME NEW msg \in Messages, NEW okText \in BOOLEAN, NEW needs \in BOOLEAN, NEW has \in BOOLEAN,
               Reply(msg, okText, needs, has)
        PROVE  FramesFit'
    BY <1>2, <1>7 DEF Reply
  <1>8. ASSUME NEW typ \in {"status", "close"}, NEW msg \in Messages, Push(typ, msg)
        PROVE  FramesFit'
    BY <1>2, <1>8 DEF Push
  <1> QED
    BY <1>1, <1>3, <1>4, <1>5, <1>6, <1>7, <1>8 DEF WireNext

\* A write of any length is cut into frames that fit and add up to it, whatever
\* its octets escape to, and a datagram of up to a chunk is not refused:
\* client.send's MAX_SEND_CHUNK leaves room for six bytes per character.
THEOREM FramesAlwaysFit ==
  WireSpec => []FramesFit
  <1>1. WireInit => FramesFit
    BY DEF WireInit, FramesFit
  <1> QED
    BY <1>1, FramesStep, PTL DEF WireSpec


---------------------------------------------------------------------------
(* Induction.  The least element of a set of numbers gives induction over  *)
(* an interval, for sets instead of formulas, and with it functions        *)
(* defined by recursion over an interval.                                  *)

\* < on the natural numbers, as a relation, is well founded.
LEMMA LessWF ==
  \E R : IsWellFoundedOn(R, Nat) /\ \A x, y \in Nat : x < y => <<x, y>> \in R
  <1> DEFINE R == OpToRel(<, Nat)
  <1>1. IsWellFoundedOn(R, Nat)
    BY NatLessThanWellFounded
  <1>2. \A x, y \in Nat : x < y => <<x, y>> \in R
    BY Zenon DEF OpToRel
  <1> HIDE DEF R
  <1> QED
    BY <1>1, <1>2

\* Every non-empty set of natural numbers has a least element.
LEMMA LeastNat ==
  ASSUME NEW T, T \subseteq Nat, T # {}
  PROVE  \E x \in T : \A y \in T : x <= y
  <1>0. PICK R : IsWellFoundedOn(R, Nat) /\ \A x, y \in Nat : x < y => <<x, y>> \in R
    BY LessWF
  <1>1. IsWellFoundedOn(R, Nat)
    BY <1>0
  <1>3. PICK x \in T : \A y \in T : ~(<<y, x>> \in R)
    BY <1>1, WFMin, Zenon
  <1>4. \A y \in T : ~(y < x)
    BY <1>0, <1>3
  <1> QED
    BY <1>4

\* The Min of FiniteSetsExt is such an element.
LEMMA MinNat ==
  ASSUME NEW T, T \subseteq Nat, T # {}
  PROVE  Min(T) \in T /\ \A y \in T : Min(T) <= y
  <1>1. \E x \in T : \A y \in T : x <= y
    BY LeastNat
  <1> QED
    BY <1>1, Zenon DEF Min

\* Induction over 0..N.
LEMMA IntervalInduction ==
  ASSUME NEW N \in Nat, NEW T, 0 \in T, \A n \in 0..(N - 1) : n \in T => n + 1 \in T
  PROVE  \A n \in 0..N : n \in T
  <1> DEFINE bad == {n \in 0..N : n \notin T}
  <1>1. SUFFICES ASSUME bad # {} PROVE FALSE
    OBVIOUS
  <1>2. PICK x \in bad : \A y \in bad : x <= y
    <2>1. bad \subseteq Nat
      OBVIOUS
    <2> HIDE DEF bad
    <2> QED
      BY <1>1, <2>1, LeastNat
  <1>3. x # 0 /\ x - 1 \in 0..(N - 1) /\ x - 1 \notin bad /\ (x - 1) + 1 = x
    BY <1>2
  <1> QED
    BY <1>2, <1>3

\* The functions on 0..N that start at base and go on with g.
Steps(N, S, base, g) == {f \in [0..N -> S] : f[0] = base /\ \A n \in 1..N : f[n] = g[n][f[n - 1]]}

\* Recursion over 0..N: there is such a function.
LEMMA RecursionExists ==
  ASSUME NEW N \in Nat, NEW S, NEW base \in S, NEW g \in [1..N -> [S -> S]]
  PROVE  Steps(N, S, base, g) # {}
  <1> DEFINE T == {m \in 0..N : Steps(m, S, base, g) # {}}
  <1>1. 0 \in T
    <2>1. [n \in 0..0 |-> base] \in Steps(0, S, base, g)
      BY DEF Steps
    <2> QED
      BY <2>1
  <1>2. ASSUME NEW m \in 0..(N - 1), m \in T
        PROVE  m + 1 \in T
    <2>1. PICK f \in [0..m -> S] : f[0] = base /\ \A n \in 1..m : f[n] = g[n][f[n - 1]]
      BY <1>2 DEF Steps
    <2> DEFINE h == [n \in 0..(m + 1) |-> IF n <= m THEN f[n] ELSE g[m + 1][f[m]]]
    <2>2. g[m + 1] \in [S -> S] /\ f[m] \in S
      BY <2>1
    <2>3. g[m + 1][f[m]] \in S
      BY <2>2
    <2>4. h \in [0..(m + 1) -> S]
      BY <2>1, <2>3
    <2>5. h[0] = base /\ \A n \in 1..(m + 1) : h[n] = g[n][h[n - 1]]
      BY <2>1
    <2>6. h \in Steps(m + 1, S, base, g)
      BY <2>4, <2>5 DEF Steps
    <2> HIDE DEF h
    <2> QED
      BY <2>6
  <1>3. \A m \in 0..(N - 1) : m \in T => m + 1 \in T
    BY <1>2
  <1> HIDE DEF T
  <1>4. \A m \in 0..N : m \in T
    BY <1>1, <1>3, IntervalInduction
  <1> QED
    BY <1>4 DEF T

---------------------------------------------------------------------------
(* Pointers.                                                               *)

\* Where a pointer points.  A table is loaded only while it is empty, when no
\* pointer goes into it; the copy of the environment is never empty again.
Points(p) ==
    \/ p.table = "ports" /\ p.index \in DOMAIN ports /\ ports[p.index].name = p.string
    \/ p.table = "portCall" /\ FirstPort = <<p.string>>
    \/ p.table = "calls" /\ CallOf(calls, p.index) = <<p.string>>
    \/ p.table = "env" /\ envCall = p.string /\ envCall # <<>>

PointersInv == \A p \in handed : Points(p)

\* It implies what the run checks.
LEMMA PointersInvValid ==
  ASSUME PointersInv
  PROVE  PointersValid
  <1> SUFFICES ASSUME NEW p \in handed
               PROVE CASE p.table = "ports" -> p.index \in DOMAIN ports /\ ports[p.index].name = p.string
                       [] p.table = "portCall" -> FirstPort = <<p.string>>
                       [] p.table = "calls" -> CallOf(calls, p.index) = <<p.string>>
                       [] p.table = "env" -> envCall = p.string
    BY DEF PointersValid
  <1>1. Points(p)
    BY DEF PointersInv
  <1> QED
    BY <1>1 DEF Points

\* Nobody's call is found in an empty table, and at most one in any.
LEMMA CallOfShape ==
  ASSUME NEW table, NEW u
  PROVE  /\ CallOf(table, u) = <<>> \/ \E c : CallOf(table, u) = <<c>>
         /\ table = <<>> => CallOf(table, u) = <<>>
  <1> DEFINE mine == {i \in DOMAIN table : table[i].uid = <<u>>}
  <1>1. CallOf(table, u) = IF mine = {} THEN <<>> ELSE <<table[Min(mine)].call>>
    BY DEF CallOf
  <1>2. table = <<>> => mine = {}
    OBVIOUS
  <1> HIDE DEF mine
  <1> QED
    BY <1>1, <1>2

\* Every step keeps every pointer good.
LEMMA PointersStep ==
  ASSUME PointersInv, [Next]_vars
  PROVE  PointersInv'
  <1>1. ASSUME UNCHANGED <<tableVars, handed>>
        PROVE  PointersInv'
    BY <1>1 DEF PointersInv, Points, FirstPort, CallOf, tableVars
  <1>2. CASE UNCHANGED vars
    BY <1>1, <1>2 DEF vars
  <1>3. ASSUME NEW t \in Texts, AtonEntry(t)
        PROVE  PointersInv'
    BY <1>1, <1>3 DEF AtonEntry
  <1>4. ASSUME NEW p \in Paths, Aton(p)
        PROVE  PointersInv'
    BY <1>1, <1>4 DEF Aton
  <1>5. CASE LoadPorts
    <2> SUFFICES ASSUME NEW p \in handed PROVE Points(p)'
      BY <1>5 DEF LoadPorts, PointersInv
    <2>1. Points(p)
      BY DEF PointersInv
    <2>2. UNCHANGED <<calls, envCall>> /\ (ports # <<>> => ports' = ports)
      BY <1>5 DEF LoadPorts, Loaded
    <2>3. CASE ports = <<>>
      <3>1. DOMAIN ports = {} /\ FirstPort = <<>>
        BY <2>3 DEF FirstPort
      <3> QED
        BY <2>1, <2>2, <3>1 DEF Points, CallOf
    <2>4. CASE ports # <<>>
      BY <2>1, <2>2, <2>4 DEF Points, FirstPort, CallOf
    <2> QED
      BY <2>3, <2>4
  <1>6. CASE GetNext
    <2> DEFINE q == Pointer("ports", NextIndex, ports[NextIndex].name)
    <2>1. UNCHANGED tableVars /\ handed' = handed \cup {q} /\ NextIndex \in DOMAIN ports
      BY <1>6 DEF GetNext
    <2>2. q.table = "ports" /\ q.index = NextIndex /\ q.string = ports[NextIndex].name
      BY DEF Pointer
    <2> HIDE DEF q
    <2>3. Points(q)
      BY <2>1, <2>2 DEF Points
    <2>4. \A p \in handed' : Points(p)
      BY <2>1, <2>3 DEF PointersInv
    <2> QED
      BY <2>1, <2>4, ZenonT(40) DEF PointersInv, Points, FirstPort, CallOf, tableVars
  <1>7. ASSUME NEW u \in Uids, GetCall(u)
        PROVE  PointersInv'
    <2>1. UNCHANGED ports
      BY <1>7 DEF GetCall
    <2>2. ASSUME NEW p \in handed PROVE Points(p)'
      <3>1. Points(p)
        BY DEF PointersInv
      <3>2. (calls # <<>> => calls' = calls) /\ (envCall # <<>> => envCall' = envCall)
        BY <1>7 DEF GetCall, LoadCalls, CacheEnv
      <3>3. CallOf(calls, p.index) = <<p.string>> => CallOf(calls', p.index) = <<p.string>>
        BY <3>2, CallOfShape
      <3>4. FirstPort' = FirstPort
        BY <2>1 DEF FirstPort
      <3> QED
        BY <2>1, <3>1, <3>2, <3>3, <3>4 DEF Points
    <2>3. ASSUME NEW q, handed' = handed \cup {q}, Points(q)'
          PROVE  PointersInv'
      BY <2>2, <2>3 DEF PointersInv
    <2>4. CASE env # <<>>
      <3>0. PICK q : q = Pointer("env", 1, envCall')
        OBVIOUS
      <3>1. handed' = handed \cup {q} /\ envCall' # <<>>
        BY <1>7, <2>4, <3>0 DEF GetCall, Answer, CacheEnv
      <3>2. q.table = "env" /\ q.string = envCall'
        BY <3>0 DEF Pointer
      <3>3. Points(q)'
        BY <3>1, <3>2 DEF Points
      <3> QED
        BY <2>3, <3>1, <3>3
    <2>5. CASE env = <<>>
      <3> DEFINE mine == CallOf(calls', u)
      <3>1. IF mine # <<>> THEN Answer("calls", u, mine[1])
            ELSE IF FirstPort # <<>> THEN Answer("portCall", 1, FirstPort[1])
            ELSE UNCHANGED handed
        BY <1>7, <2>5 DEF GetCall
      <3>2. mine # <<>> => mine = <<mine[1]>>
        BY CallOfShape
      <3>3. CASE mine # <<>>
        <4>0. PICK q : q = Pointer("calls", u, mine[1])
          OBVIOUS
        <4>1. handed' = handed \cup {q}
          BY <3>1, <3>3, <4>0 DEF Answer
        <4>2. q.table = "calls" /\ q.index = u /\ q.string = mine[1]
          BY <4>0 DEF Pointer
        <4>3. Points(q)'
          BY <3>2, <3>3, <4>2 DEF Points
        <4> QED
          BY <2>3, <4>1, <4>3
      <3>4. CASE mine = <<>> /\ FirstPort # <<>>
        <4>0. PICK q : q = Pointer("portCall", 1, FirstPort[1])
          OBVIOUS
        <4>1. handed' = handed \cup {q}
          BY <3>1, <3>4, <4>0 DEF Answer
        <4>2. q.table = "portCall" /\ q.string = FirstPort[1]
          BY <4>0 DEF Pointer
        <4>3. FirstPort' = FirstPort /\ FirstPort = <<FirstPort[1]>>
          BY <2>1, <3>4 DEF FirstPort
        <4>4. Points(q)'
          BY <4>2, <4>3 DEF Points
        <4> QED
          BY <2>3, <4>1, <4>4
      <3>5. CASE mine = <<>> /\ FirstPort = <<>>
        BY <2>2, <3>1, <3>5 DEF PointersInv
      <3> QED
        BY <3>3, <3>4, <3>5
    <2> QED
      BY <2>4, <2>5
  <1>8. ASSUME Edit
        PROVE  PointersInv'
    BY <1>1, <1>8 DEF Edit
  <1> QED
    BY <1>2, <1>3, <1>4, <1>5, <1>6, <1>7, <1>8 DEF Next, EditAxports, EditCalls, SetEnv

\* The pointers that ax25_config_get_next and get_call return stay good for the
\* rest of the program: load_ports and load_calls keep a table that is loaded,
\* and the environment's callsign is copied once.
THEOREM PointersStayValid ==
  Spec => []PointersValid
  <1>1. Init => PointersInv
    BY DEF Init, PointersInv
  <1> QED
    BY <1>1, PointersStep, PointersInvValid, PTL DEF Spec


---------------------------------------------------------------------------
(* Texts.                                                                  *)

\* A text is a function on 1..Len to codes.
LEMMA TextIsFunction ==
  ASSUME NEW s \in Text
  PROVE  /\ Len(s) \in Nat /\ DOMAIN s = 1..Len(s)
         /\ \A i \in 1..Len(s) : s[i] \in 0..127
  <1> DEFINE S == 0..127
  <1>1. s \in Seq(S)
    BY DEF Text
  <1> HIDE DEF S
  <1>2. Len(s) \in Nat /\ DOMAIN s = 1..Len(s) /\ \A i \in 1..Len(s) : s[i] \in S
    BY <1>1, LenProperties, ElementOfSeq
  <1> QED
    BY <1>2 DEF S

\* And back.
LEMMA FunctionIsText ==
  ASSUME NEW n \in Nat, NEW s \in [1..n -> 0..127]
  PROVE  s \in Text /\ Len(s) = n /\ DOMAIN s = 1..n
  <1> DEFINE S == 0..127
  <1>1. s \in [1..n -> S]
    OBVIOUS
  <1> HIDE DEF S
  <1>2. s \in Seq(S) /\ Len(s) = n /\ DOMAIN s = 1..n
    BY <1>1, FunctionIsSeq
  <1> QED
    BY <1>2 DEF Text, S

\* Letter case keeps the length.
LEMMA StruprText ==
  ASSUME NEW s \in Text
  PROVE  /\ Strupr(s) \in Text /\ Len(Strupr(s)) = Len(s)
         /\ \A i \in 1..Len(s) : Strupr(s)[i] = ToUpper(s[i])
  <1>1. Len(s) \in Nat /\ DOMAIN s = 1..Len(s) /\ \A i \in 1..Len(s) : s[i] \in 0..127
    BY TextIsFunction
  <1>2. Strupr(s) = [i \in 1..Len(s) |-> ToUpper(s[i])]
    BY <1>1 DEF Strupr
  <1>3. \A i \in 1..Len(s) : ToUpper(s[i]) \in 0..127
    BY <1>1 DEF ToUpper, Lower
  <1> DEFINE u == [i \in 1..Len(s) |-> ToUpper(s[i])]
  <1>4. u \in [1..Len(s) -> 0..127] /\ \A i \in 1..Len(s) : u[i] = ToUpper(s[i])
    BY <1>3
  <1> HIDE DEF u
  <1>5. u \in Text /\ Len(u) = Len(s)
    BY <1>1, <1>4, FunctionIsText
  <1> QED
    BY <1>2, <1>4, <1>5 DEF u

\* A part of a text.
LEMMA TextPart ==
  ASSUME NEW s \in Text, NEW m \in 1..(Len(s) + 1), NEW n \in 0..Len(s)
  PROVE  /\ SubSeq(s, m, n) \in Text
         /\ Len(SubSeq(s, m, n)) = IF m <= n THEN n - m + 1 ELSE 0
         /\ \A i \in 1..(n - m + 1) : SubSeq(s, m, n)[i] = s[m + i - 1]
  <1>1. Len(s) \in Nat /\ \A i \in 1..Len(s) : s[i] \in 0..127
    BY TextIsFunction
  <1>2. m \in Int /\ n \in Int
    BY <1>1
  <1>3. \A i \in m..n : s[i] \in 0..127
    <2>1. \A i \in m..n : i \in 1..Len(s)
      BY <1>1
    <2> QED
      BY <1>1, <2>1
  <1> QED
    BY <1>2, <1>3, SubSeqProperties DEF Text

\* Two texts, one after the other.
LEMMA TextConcat ==
  ASSUME NEW s \in Text, NEW t \in Text
  PROVE  /\ s \o t \in Text /\ Len(s \o t) = Len(s) + Len(t)
         /\ \A i \in 1..(Len(s) + Len(t)) : (s \o t)[i] = IF i <= Len(s) THEN s[i] ELSE t[i - Len(s)]
  <1> DEFINE S == 0..127
  <1>1. s \in Seq(S) /\ t \in Seq(S)
    BY DEF Text
  <1> HIDE DEF S
  <1>2. s \o t \in Seq(S)
    BY <1>1, ConcatProperties
  <1> QED
    BY <1>1, <1>2, ConcatProperties DEF Text, S

\* Where the first character of a kind is.
LEMMA FirstInPlace ==
  ASSUME NEW s \in Text, NEW S, NEW i \in 1..(Len(s) + 1)
  PROVE  /\ FirstIn(S, s, i) \in i..(Len(s) + 1)
         /\ \A k \in i..Len(s) : k < FirstIn(S, s, i) => s[k] \notin S
         /\ FirstIn(S, s, i) <= Len(s) => s[FirstIn(S, s, i)] \in S
  <1>1. Len(s) \in Nat
    BY TextIsFunction
  <1> DEFINE T == {k \in i..Len(s) : s[k] \in S} \cup {Len(s) + 1}
  <1>2. T \subseteq Nat /\ T # {} /\ T \subseteq i..(Len(s) + 1)
    BY <1>1
  <1>3. Min(T) \in T /\ \A y \in T : Min(T) <= y
    <2> HIDE DEF T
    <2> QED
      BY <1>2, MinNat
  <1>4. FirstIn(S, s, i) = Min(T)
    BY DEF FirstIn
  <1> DEFINE f == FirstIn(S, s, i)
  <1>5. f \in T /\ \A y \in T : f <= y
    BY <1>3, <1>4
  <1> HIDE DEF f
  <1>6. f \in i..(Len(s) + 1) /\ (f <= Len(s) => s[f] \in S)
    BY <1>1, <1>5
  <1>7. \A k \in i..Len(s) : k < f => s[k] \notin S
    BY <1>1, <1>5, <1>6
  <1> QED
    BY <1>6, <1>7 DEF f

\* Where the first character of another kind is.
LEMMA FirstNotInPlace ==
  ASSUME NEW s \in Text, NEW S, NEW i \in 1..(Len(s) + 1)
  PROVE  /\ FirstNotIn(S, s, i) \in i..(Len(s) + 1)
         /\ \A k \in i..Len(s) : k < FirstNotIn(S, s, i) => s[k] \in S
         /\ FirstNotIn(S, s, i) <= Len(s) => s[FirstNotIn(S, s, i)] \notin S
  <1>1. Len(s) \in Nat
    BY TextIsFunction
  <1> DEFINE T == {k \in i..Len(s) : s[k] \notin S} \cup {Len(s) + 1}
  <1>2. T \subseteq Nat /\ T # {} /\ T \subseteq i..(Len(s) + 1)
    BY <1>1
  <1>3. Min(T) \in T /\ \A y \in T : Min(T) <= y
    <2> HIDE DEF T
    <2> QED
      BY <1>2, MinNat
  <1>4. FirstNotIn(S, s, i) = Min(T)
    BY DEF FirstNotIn
  <1> DEFINE f == FirstNotIn(S, s, i)
  <1>5. f \in T /\ \A y \in T : f <= y
    BY <1>3, <1>4
  <1> HIDE DEF f
  <1>6. f \in i..(Len(s) + 1) /\ (f <= Len(s) => s[f] \notin S)
    BY <1>1, <1>5
  <1>7. \A k \in i..Len(s) : k < f => s[k] \in S
    BY <1>1, <1>5, <1>6
  <1> QED
    BY <1>6, <1>7 DEF f

\* A "-0" and what follows it is cut off.
LEMMA StripDashZeroText ==
  ASSUME NEW s \in Text
  PROVE  LET r == StripDashZero(s)
         IN /\ r \in Text /\ Len(r) <= Len(s) /\ \A i \in 1..Len(r) : r[i] = s[i]
            /\ \A k \in 1..(Len(r) - 1) : ~(r[k] = Dash /\ r[k + 1] = 48)
            /\ Len(r) < Len(s) => /\ Len(r) + 2 <= Len(s)
                                  /\ s[Len(r) + 1] = Dash /\ s[Len(r) + 2] = 48
  <1>1. Len(s) \in Nat
    BY TextIsFunction
  <1> DEFINE T == {k \in 1..(Len(s) - 1) : s[k] = Dash /\ s[k + 1] = 48} \cup {Len(s) + 1}
             at == Min(T)
             r == SubSeq(s, 1, at - 1)
  <1>2. T \subseteq Nat /\ T # {}
    BY <1>1
  <1>3. at \in T /\ \A y \in T : at <= y
    <2> HIDE DEF T
    <2> QED
      BY <1>2, MinNat
  <1>4. StripDashZero(s) = r
    BY DEF StripDashZero
  <1> HIDE DEF at
  <1>5. at - 1 \in 0..Len(s) /\ 1 \in 1..(Len(s) + 1)
    BY <1>1, <1>3
  <1>6. /\ r \in Text /\ Len(r) = IF 1 <= at - 1 THEN at - 1 - 1 + 1 ELSE 0
        /\ \A i \in 1..(at - 1 - 1 + 1) : r[i] = s[1 + i - 1]
    BY <1>5, TextPart
  <1>7. Len(r) = at - 1 /\ \A i \in 1..(at - 1) : r[i] = s[i]
    BY <1>1, <1>5, <1>6
  <1> HIDE DEF r
  <1>8. \A k \in 1..(Len(r) - 1) : ~(s[k] = Dash /\ s[k + 1] = 48)
    BY <1>1, <1>3, <1>5, <1>7
  <1>9. \A k \in 1..(Len(r) - 1) : r[k] = s[k] /\ r[k + 1] = s[k + 1]
    BY <1>5, <1>7
  <1>10. Len(r) < Len(s) => Len(r) + 2 <= Len(s) /\ s[Len(r) + 1] = Dash /\ s[Len(r) + 2] = 48
    BY <1>1, <1>3, <1>5, <1>7
  <1> QED
    BY <1>1, <1>4, <1>5, <1>6, <1>7, <1>8, <1>9, <1>10


---------------------------------------------------------------------------
(* The tables of ports and callsigns.                                      *)

\* One element more at the end.
LEMMA OneMore ==
  ASSUME NEW S, NEW t \in Seq(S), NEW x \in S
  PROVE  /\ Append(t, x) \in Seq(S) /\ Len(t) \in Nat /\ Len(Append(t, x)) = Len(t) + 1
         /\ \A i \in 1..Len(t) : Append(t, x)[i] = t[i] /\ t[i] \in S
         /\ Append(t, x)[Len(t) + 1] = x
  <1>1. Len(t) \in Nat
    BY LenProperties
  <1> QED
    BY <1>1, AppendProperties, ElementOfSeq

\* A callsign as load_ports keeps it.
KeptCall(c) == EncodeEntry(c) # NoEntry /\ \E s \in Text : c = StripDashZero(Strupr(s))

\* A table of ports: usable callsigns, no name (in upper case) and no callsign twice.
PortTables ==
    {t \in Seq(PortLine) :
        /\ \A i \in 1..Len(t) : KeptCall(t[i].call)
        /\ \A i, j \in 1..Len(t) : i # j => /\ Strupr(t[i].name) # Strupr(t[j].name)
                                            /\ t[i].call # t[j].call}

\* The port that a line makes.
PortFrom(line) == [line EXCEPT !.call = StripDashZero(Strupr(line.call))]

\* It is the line with another callsign.
LEMMA PortFromLine ==
  ASSUME NEW line \in PortLine
  PROVE  /\ PortFrom(line) \in PortLine /\ PortFrom(line).name = line.name
         /\ PortFrom(line).call = StripDashZero(Strupr(line.call))
         /\ line.call \in Text /\ line.name \in Text /\ line.name # <<>>
  <1>1. line.call \in Text /\ line.name \in Text /\ line.name # <<>>
    BY DEF PortLine
  <1>2. StripDashZero(Strupr(line.call)) \in Text
    BY <1>1, StruprText, StripDashZeroText
  <1> QED
    BY <1>1, <1>2 DEF PortFrom, PortLine

\* A line adds its port at the end, or nothing.
LEMMA AddPortKeeps ==
  ASSUME NEW t \in PortTables, NEW line \in PortLine
  PROVE  /\ AddPort(t, line) \in PortTables
         /\ \/ AddPort(t, line) = t
            \/ AddPort(t, line) = Append(t, PortFrom(line))
  <1> DEFINE call == StripDashZero(Strupr(line.call))
             p == PortFrom(line)
  <1>1. AddPort(t, line) = t \/ (/\ AddPort(t, line) = Append(t, p)
                                 /\ EncodeEntry(call) # NoEntry /\ ~Duplicate(t, line.name, call))
    BY DEF AddPort, PortFrom
  <1>2. SUFFICES ASSUME EncodeEntry(call) # NoEntry, ~Duplicate(t, line.name, call)
                 PROVE  Append(t, p) \in PortTables
    BY <1>1
  <1>3. p \in PortLine /\ p.name = line.name /\ p.call = call /\ line.call \in Text
    BY PortFromLine
  <1> HIDE DEF p
  <1>4. KeptCall(p.call)
    BY <1>2, <1>3 DEF KeptCall
  <1>5. /\ t \in Seq(PortLine) /\ \A i \in 1..Len(t) : KeptCall(t[i].call)
        /\ \A i, j \in 1..Len(t) : i # j => /\ Strupr(t[i].name) # Strupr(t[j].name)
                                            /\ t[i].call # t[j].call
    BY DEF PortTables
  <1> DEFINE a == Append(t, p)
  <1>6. /\ a \in Seq(PortLine) /\ Len(t) \in Nat /\ Len(a) = Len(t) + 1
        /\ \A i \in 1..Len(t) : a[i] = t[i]
        /\ a[Len(t) + 1] = p
    BY <1>3, <1>5, OneMore
  <1>7. DOMAIN t = 1..Len(t)
    BY <1>5, LenProperties
  <1>8. \A i \in 1..Len(t) : Strupr(t[i].name) # Strupr(p.name) /\ t[i].call # p.call
    BY <1>2, <1>3, <1>7 DEF Duplicate
  <1> HIDE DEF a
  <1>9. \A i \in 1..Len(a) : i \in 1..Len(t) \/ i = Len(t) + 1
    BY <1>6
  <1>10. \A i \in 1..Len(a) : KeptCall(a[i].call)
    BY <1>4, <1>5, <1>6, <1>9
  <1>11. ASSUME NEW i \in 1..Len(a), NEW j \in 1..Len(a), i # j
         PROVE  Strupr(a[i].name) # Strupr(a[j].name) /\ a[i].call # a[j].call
    <2>1. CASE i \in 1..Len(t) /\ j \in 1..Len(t)
      BY <1>5, <1>6, <1>11, <2>1
    <2>2. CASE i \in 1..Len(t) /\ j = Len(t) + 1
      BY <1>6, <1>8, <2>2
    <2>3. CASE i = Len(t) + 1 /\ j \in 1..Len(t)
      BY <1>6, <1>8, <2>3
    <2> QED
      BY <1>9, <1>11, <2>1, <2>2, <2>3
  <1> QED
    BY <1>6, <1>10, <1>11 DEF PortTables, a

\* load_ports takes the lines one after the other.
LEMMA AxportsRecursion ==
  ASSUME NEW lines \in Seq(PortLine)
  PROVE  \E h \in [0..Len(lines) -> PortTables] :
            /\ h[0] = <<>> /\ \A n \in 1..Len(lines) : h[n] = AddPort(h[n - 1], lines[n])
            /\ ParseAxports(lines) = h[Len(lines)]
  <1> DEFINE N == Len(lines)
             h == CHOOSE f : f = [n \in 0..N |-> IF n = 0 THEN <<>> ELSE AddPort(f[n - 1], lines[n])]
  <1>1. ParseAxports(lines) = h[N]
    BY DEF ParseAxports
  <1>2. N \in Nat /\ \A n \in 1..N : lines[n] \in PortLine
    BY LenProperties, ElementOfSeq
  <1> HIDE DEF N
  <1>3. <<>> \in PortTables
    BY DEF PortTables
  <1> DEFINE g == [n \in 1..N |-> [t \in PortTables |-> AddPort(t, lines[n])]]
  <1>4. g \in [1..N -> [PortTables -> PortTables]]
    BY <1>2, AddPortKeeps
  <1>5. PICK f \in [0..N -> PortTables] : f[0] = <<>> /\ \A n \in 1..N : f[n] = g[n][f[n - 1]]
    <2> HIDE DEF g
    <2>1. Steps(N, PortTables, <<>>, g) # {}
      BY <1>2, <1>3, <1>4, RecursionExists
    <2> QED
      BY <2>1 DEF Steps
  <1>6. \A n \in 1..N : f[n] = AddPort(f[n - 1], lines[n])
    <2> TAKE n \in 1..N
    <2>1. f[n - 1] \in PortTables
      BY <1>2, <1>5
    <2> QED
      BY <1>5, <2>1
  <1>7. f = [n \in 0..N |-> IF n = 0 THEN <<>> ELSE AddPort(f[n - 1], lines[n])]
    <2>1. f = [n \in 0..N |-> f[n]]
      BY <1>5
    <2>2. \A n \in 0..N : f[n] = IF n = 0 THEN <<>> ELSE AddPort(f[n - 1], lines[n])
      BY <1>2, <1>5, <1>6
    <2> QED
      BY <2>1, <2>2, Zenon
  <1>8. h = [n \in 0..N |-> IF n = 0 THEN <<>> ELSE AddPort(h[n - 1], lines[n])]
    BY <1>7, Zenon
  <1> HIDE DEF h
  <1>9. \A n \in 0..N : h[n] = IF n = 0 THEN <<>> ELSE AddPort(h[n - 1], lines[n])
    BY <1>8, Zenon
  <1>10. h[0] = <<>> /\ \A n \in 1..N : h[n] = AddPort(h[n - 1], lines[n])
    BY <1>2, <1>9
  <1> DEFINE T == {n \in 0..N : h[n] = f[n]}
  <1>11. 0 \in T
    BY <1>2, <1>5, <1>10
  <1>12. \A n \in 0..(N - 1) : n \in T => n + 1 \in T
    <2> SUFFICES ASSUME NEW n \in 0..(N - 1), n \in T PROVE n + 1 \in T
      OBVIOUS
    <2>1. n + 1 \in 1..N /\ (n + 1) - 1 = n /\ n + 1 \in 0..N
      BY <1>2
    <2>2. h[n + 1] = AddPort(h[n], lines[n + 1]) /\ f[n + 1] = AddPort(f[n], lines[n + 1])
      BY <1>6, <1>10, <2>1
    <2> QED
      BY <2>1, <2>2
  <1> HIDE DEF T
  <1>13. \A n \in 0..N : n \in T
    BY <1>2, <1>11, <1>12, IntervalInduction
  <1>14. \A n \in 0..N : h[n] = f[n]
    BY <1>13 DEF T
  <1>15. N \in 0..N
    BY <1>2
  <1> QED
    BY <1>1, <1>5, <1>6, <1>14, <1>15 DEF N


\* The files and what was read of them.
TablesInv == file \in Seq(PortLine) /\ ports \in PortTables

\* A file makes a table.
LEMMA ParsedTables ==
  \A f \in Seq(PortLine) : ParseAxports(f) \in PortTables
  <1>1. ASSUME NEW f \in Seq(PortLine) PROVE ParseAxports(f) \in PortTables
    <2>1. Len(f) \in Nat /\ Len(f) \in 0..Len(f)
      BY LenProperties
    <2> QED
      BY <2>1, AxportsRecursion
  <1> QED
    BY <1>1

\* It holds at first: nothing is loaded.
LEMMA TablesInit ==
  ASSUME Init
  PROVE  TablesInv
  <1>1. Files \subseteq Seq(PortLine)
    BY InputsAssumption DEF InputsAssumption
  <1>2. file \in Files \/ file = <<>>
    BY DEF Init
  <1>3. ports \in PortTables
    BY DEF Init, PortTables
  <1>4. <<>> \in Seq(PortLine)
    OBVIOUS
  <1> QED
    BY <1>1, <1>2, <1>3, <1>4 DEF TablesInv

\* Every step keeps the table well formed.
LEMMA TablesStep ==
  ASSUME TablesInv, [Next]_vars
  PROVE  TablesInv'
  <1>0. Files \subseteq Seq(PortLine)
    BY InputsAssumption DEF InputsAssumption
  <1>1. ASSUME UNCHANGED <<file, ports>>
        PROVE  TablesInv'
    BY <1>1 DEF TablesInv
  <1>2. CASE UNCHANGED vars
    BY <1>1, <1>2 DEF vars, outside, tableVars
  <1>3. ASSUME NEW t \in Texts, AtonEntry(t)
        PROVE  TablesInv'
    BY <1>1, <1>3 DEF AtonEntry, outside, tableVars
  <1>4. ASSUME NEW p \in Paths, Aton(p)
        PROVE  TablesInv'
    BY <1>1, <1>4 DEF Aton, outside, tableVars
  <1>5. CASE LoadPorts
    BY <1>5, ParsedTables DEF LoadPorts, Loaded, TablesInv, outside
  <1>6. CASE GetNext
    BY <1>1, <1>6 DEF GetNext, outside, tableVars
  <1>7. ASSUME NEW u \in Uids, GetCall(u)
        PROVE  TablesInv'
    BY <1>1, <1>7 DEF GetCall, outside
  <1>8. ASSUME NEW f \in Files, EditAxports(f)
        PROVE  TablesInv'
    BY <1>0, <1>8 DEF EditAxports, Edit, TablesInv, tableVars
  <1>9. ASSUME NEW f \in CallFiles, EditCalls(f)
        PROVE  TablesInv'
    BY <1>1, <1>9 DEF EditCalls, Edit, tableVars
  <1>10. ASSUME NEW c \in EnvCalls, SetEnv(c)
        PROVE  TablesInv'
    BY <1>1, <1>10 DEF SetEnv, Edit, tableVars
  <1> QED
    BY <1>2, <1>3, <1>4, <1>5, <1>6, <1>7, <1>8, <1>9, <1>10 DEF Next


---------------------------------------------------------------------------
(* Paths.                                                                  *)

\* A part of a sequence.
LEMMA SeqPart ==
  ASSUME NEW S, NEW s \in Seq(S), NEW m \in 1..(Len(s) + 1), NEW n \in 0..Len(s)
  PROVE  /\ SubSeq(s, m, n) \in Seq(S)
         /\ Len(SubSeq(s, m, n)) = IF m <= n THEN n - m + 1 ELSE 0
         /\ \A i \in 1..(n - m + 1) : SubSeq(s, m, n)[i] = s[m + i - 1]
  <1>1. Len(s) \in Nat /\ \A i \in 1..Len(s) : s[i] \in S
    BY LenProperties, ElementOfSeq
  <1>2. m \in Int /\ n \in Int
    BY <1>1
  <1>3. \A i \in m..n : s[i] \in S
    <2>1. \A i \in m..n : i \in 1..Len(s)
      BY <1>1
    <2> QED
      BY <1>1, <2>1
  <1> QED
    BY <1>2, <1>3, SubSeqProperties

\* The path starts after the callsign and its separators, at most MaxDigis long.
LEMMA PathOfShape ==
  ASSUME NEW g \in Seq(Text), Len(g) >= 1
  PROVE  \E from \in 1..Len(g) :
            /\ \A k \in 2..from : Strupr(g[k]) \in Via
            /\ from < Len(g) => Strupr(g[from + 1]) \notin Via
            /\ PathOf(g) \in Seq(Text) /\ Len(PathOf(g)) = LesserOf(MaxDigis, Len(g) - from)
            /\ \A i \in 1..Len(PathOf(g)) : PathOf(g)[i] = g[from + i]
  <1> DEFINE rest == SubSeq(g, 2, Len(g))
             T == {k \in DOMAIN rest : Strupr(rest[k]) \notin Via} \cup {Len(rest) + 1}
             from == Min(T)
             digis == SubSeq(rest, from, Len(rest))
             p == SubSeq(digis, 1, LesserOf(MaxDigis, Len(digis)))
  <1>1. PathOf(g) = p
    BY DEF PathOf
  <1>2. Len(g) \in Nat /\ MaxDigis \in Nat
    BY LenProperties, SizesAssumption DEF SizesAssumption
  <1>3. 2 \in 1..(Len(g) + 1) /\ Len(g) \in 0..Len(g)
    BY <1>2
  <1>4. /\ rest \in Seq(Text) /\ Len(rest) = IF 2 <= Len(g) THEN Len(g) - 2 + 1 ELSE 0
        /\ \A i \in 1..(Len(g) - 2 + 1) : rest[i] = g[2 + i - 1]
    BY <1>3, SeqPart
  <1> HIDE DEF rest
  <1>5. Len(rest) = Len(g) - 1 /\ \A i \in 1..(Len(g) - 1) : rest[i] = g[i + 1]
    <2>1. Len(rest) = Len(g) - 1
      <3> DEFINE m == Len(g)
      <3>1. Len(rest) = (IF 2 <= m THEN m - 2 + 1 ELSE 0) /\ m \in Nat /\ m >= 1
        BY <1>2, <1>4
      <3> HIDE DEF m
      <3>2. Len(rest) = m - 1
        BY <3>1
      <3> QED
        BY <3>2 DEF m
    <2>2. \A i \in 1..(Len(g) - 1) : i \in 1..(Len(g) - 2 + 1) /\ 2 + i - 1 = i + 1
      BY <1>2
    <2> QED
      BY <1>4, <2>1, <2>2
  <1>6. DOMAIN rest = 1..(Len(g) - 1)
    BY <1>4, <1>5, LenProperties
  <1>7. T \subseteq Nat /\ T # {} /\ T \subseteq 1..Len(g)
    BY <1>2, <1>5, <1>6
  <1>8. from \in T /\ \A y \in T : from <= y
    <2> HIDE DEF T
    <2> QED
      BY <1>7, MinNat
  <1> HIDE DEF from
  <1>9. from \in 1..Len(g) /\ (from < Len(g) => Strupr(rest[from]) \notin Via)
    BY <1>2, <1>5, <1>7, <1>8
  <1>10. \A k \in 1..(from - 1) : Strupr(rest[k]) \in Via
    BY <1>2, <1>5, <1>6, <1>8, <1>9, SMTT(30)
  <1>11. from \in 1..(Len(rest) + 1) /\ Len(rest) \in 0..Len(rest)
    BY <1>2, <1>5, <1>9
  <1>12. /\ digis \in Seq(Text) /\ Len(digis) = IF from <= Len(rest) THEN Len(rest) - from + 1 ELSE 0
         /\ \A i \in 1..(Len(rest) - from + 1) : digis[i] = rest[from + i - 1]
    BY <1>4, <1>11, SeqPart
  <1> HIDE DEF digis
  <1>13. Len(digis) = Len(g) - from /\ \A i \in 1..(Len(g) - from) : digis[i] = g[from + i]
    <2>1. Len(digis) = Len(g) - from
      BY <1>2, <1>5, <1>9, <1>12
    <2>2. ASSUME NEW i \in 1..(Len(g) - from)
          PROVE  digis[i] = g[from + i]
      <3>1. i \in 1..(Len(rest) - from + 1) /\ from + i - 1 \in 1..(Len(g) - 1) /\ (from + i - 1) + 1 = from + i
        BY <1>2, <1>5, <1>9
      <3> QED
        BY <1>5, <1>12, <3>1
    <2> QED
      BY <2>1, <2>2
  <1> DEFINE n == LesserOf(MaxDigis, Len(digis))
  <1>14. n \in 0..Len(digis) /\ 1 \in 1..(Len(digis) + 1) /\ n = LesserOf(MaxDigis, Len(g) - from)
    BY <1>2, <1>9, <1>13 DEF LesserOf
  <1>15. p = SubSeq(digis, 1, n)
    OBVIOUS
  <1> HIDE DEF n, p
  <1>16. /\ p \in Seq(Text) /\ Len(p) = IF 1 <= n THEN n - 1 + 1 ELSE 0
         /\ \A i \in 1..(n - 1 + 1) : p[i] = digis[1 + i - 1]
    BY <1>12, <1>14, <1>15, SeqPart
  <1>17. Len(p) = n /\ \A i \in 1..n : p[i] = g[from + i]
    BY <1>2, <1>9, <1>13, <1>14, <1>16
  <1>18. \A k \in 2..from : Strupr(g[k]) \in Via
    <2> TAKE k \in 2..from
    <2>1. k - 1 \in 1..(from - 1) /\ k - 1 \in 1..(Len(g) - 1) /\ (k - 1) + 1 = k
      BY <1>2, <1>9
    <2> QED
      BY <1>5, <1>10, <2>1
  <1>19. from < Len(g) => Strupr(g[from + 1]) \notin Via
    BY <1>2, <1>5, <1>9
  <1> QED
    BY <1>1, <1>9, <1>14, <1>16, <1>17, <1>18, <1>19

\* What the sockaddr and fill_sax's position in it can be.
Entries == {EncodeEntry(t) : t \in Text} \cup {NullAddress}
Saxes == [call : Entries, ndigis : Int, digis : [1..MaxDigis -> Entries]]
Fills == {a \in [n : Nat, state : {"go", "bad", "full"}, sax : Saxes] :
            a.state = "go" => a.n <= MaxDigis}

\* A token keeps it so.
LEMMA PlaceFills ==
  ASSUME NEW a \in Fills, NEW token \in Text
  PROVE  Place(a, token) \in Fills
  <1> DEFINE entry == EncodeEntry(token)
  <1>1. MaxDigis \in Nat
    BY SizesAssumption DEF SizesAssumption
  <1>2. entry \in Entries
    BY DEF Entries
  <1> HIDE DEF entry
  <1>3. /\ a.n \in Nat /\ a.state \in {"go", "bad", "full"} /\ a.sax \in Saxes
        /\ a.state = "go" => a.n <= MaxDigis
    BY DEF Fills
  <1>4. CASE a.state # "go" \/ Separator(a.n, token)
    BY <1>4 DEF Place
  <1>5. CASE ~(a.state # "go" \/ Separator(a.n, token)) /\ entry = NoEntry
    <2>1. Place(a, token) = [a EXCEPT !.state = "bad"]
      BY <1>5 DEF Place, entry
    <2> QED
      BY <2>1 DEF Fills
  <1>6. CASE ~(a.state # "go" \/ Separator(a.n, token)) /\ entry # NoEntry
    <2> DEFINE s == IF a.n = 0 THEN [a.sax EXCEPT !.call = entry]
                    ELSE [a.sax EXCEPT !.digis[a.n] = entry]
               b == IF a.n + 1 > MaxDigis THEN "full" ELSE "go"
    <2>1. Place(a, token) = [n |-> a.n + 1, state |-> b, sax |-> s]
      BY <1>6 DEF Place, entry
    <2>2. s \in Saxes
      BY <1>2, <1>3 DEF Saxes
    <2>3. b \in {"go", "bad", "full"} /\ (b = "go" => a.n + 1 <= MaxDigis)
      BY <1>1, <1>3
    <2> HIDE DEF s, b
    <2> QED
      BY <1>3, <2>1, <2>2, <2>3 DEF Fills
  <1> QED
    BY <1>4, <1>5, <1>6


\* fill_sax before the first token, and what it returns after the last.
Start(s) == [n |-> 0, state |-> "go", sax |-> s]
Outcome(a) ==
    IF a.state = "bad" THEN [ok |-> FALSE, sax |-> a.sax]
    ELSE [ok |-> TRUE, sax |-> [a.sax EXCEPT !.ndigis = Ndigis(a.n)]]

\* fill_sax takes the tokens one after the other; without tokens, an empty one.
LEMMA FillSaxRecursion ==
  ASSUME NEW toks \in Seq(Text), NEW s \in Saxes, NEW g \in Seq(Text),
         g = IF toks = <<>> THEN <<<<>>>> ELSE toks
  PROVE  \E h \in [0..Len(g) -> Fills] :
            /\ h[0] = Start(s) /\ \A n \in 1..Len(g) : h[n] = Place(h[n - 1], g[n])
            /\ FillSax(toks, s) = Outcome(h[Len(g)])
  <1> DEFINE N == Len(g)
             h == CHOOSE f : f = [n \in 0..N |-> IF n = 0 THEN Start(s) ELSE Place(f[n - 1], g[n])]
  <1>1. FillSax(toks, s) = Outcome(h[N])
    BY DEF FillSax, Outcome, Start
  <1>2. N \in Nat /\ \A n \in 1..N : g[n] \in Text
    BY LenProperties, ElementOfSeq
  <1> HIDE DEF N
  <1>3. Start(s) \in Fills
    BY SizesAssumption DEF Fills, Start, SizesAssumption
  <1> DEFINE w == [n \in 1..N |-> [t \in Fills |-> Place(t, g[n])]]
  <1>4. w \in [1..N -> [Fills -> Fills]]
    BY <1>2, PlaceFills
  <1>5. PICK f \in [0..N -> Fills] : f[0] = Start(s) /\ \A n \in 1..N : f[n] = w[n][f[n - 1]]
    <2> HIDE DEF w
    <2>1. Steps(N, Fills, Start(s), w) # {}
      BY <1>2, <1>3, <1>4, RecursionExists
    <2> QED
      BY <2>1 DEF Steps
  <1>6. \A n \in 1..N : f[n] = Place(f[n - 1], g[n])
    <2> TAKE n \in 1..N
    <2>1. f[n - 1] \in Fills
      BY <1>2, <1>5
    <2> QED
      BY <1>5, <2>1
  <1>7. f = [n \in 0..N |-> IF n = 0 THEN Start(s) ELSE Place(f[n - 1], g[n])]
    <2>1. f = [n \in 0..N |-> f[n]]
      BY <1>5
    <2>2. \A n \in 0..N : f[n] = IF n = 0 THEN Start(s) ELSE Place(f[n - 1], g[n])
      BY <1>2, <1>5, <1>6
    <2> QED
      BY <2>1, <2>2, Zenon
  <1>8. h = [n \in 0..N |-> IF n = 0 THEN Start(s) ELSE Place(h[n - 1], g[n])]
    BY <1>7, Zenon
  <1> HIDE DEF h
  <1>9. \A n \in 0..N : h[n] = IF n = 0 THEN Start(s) ELSE Place(h[n - 1], g[n])
    BY <1>8, Zenon
  <1>10. h[0] = Start(s) /\ \A n \in 1..N : h[n] = Place(h[n - 1], g[n])
    BY <1>2, <1>9
  <1> DEFINE T == {n \in 0..N : h[n] = f[n]}
  <1>11. 0 \in T
    BY <1>2, <1>5, <1>10
  <1>12. \A n \in 0..(N - 1) : n \in T => n + 1 \in T
    <2> SUFFICES ASSUME NEW n \in 0..(N - 1), n \in T PROVE n + 1 \in T
      OBVIOUS
    <2>1. n + 1 \in 1..N /\ (n + 1) - 1 = n /\ n + 1 \in 0..N
      BY <1>2
    <2>2. h[n + 1] = Place(h[n], g[n + 1]) /\ f[n + 1] = Place(f[n], g[n + 1])
      BY <1>6, <1>10, <2>1
    <2> QED
      BY <2>1, <2>2
  <1> HIDE DEF T
  <1>13. \A n \in 0..N : n \in T
    BY <1>2, <1>11, <1>12, IntervalInduction
  <1>14. \A n \in 0..N : h[n] = f[n]
    BY <1>13 DEF T
  <1>15. N \in 0..N
    BY <1>2
  <1> QED
    BY <1>1, <1>5, <1>6, <1>14, <1>15 DEF N

\* How many digipeaters the first k tokens place, when the path starts after
\* the token from, and which tokens are looked at.
Placed(from, k) == IF k <= from THEN 0 ELSE LesserOf(MaxDigis, k - from)
Unusable(g, from, i) == (i = 1 \/ i \in (from + 1)..(from + MaxDigis)) /\ EncodeEntry(g[i]) = NoEntry

\* fill_sax after k tokens.
FilledTo(g, from, k, a) ==
    /\ a.state = "bad" <=> \E i \in 1..k : Unusable(g, from, i)
    /\ a.state # "bad" /\ k = 0 => a.n = 0 /\ a.state = "go"
    /\ a.state # "bad" /\ k > 0 =>
          /\ a.n = 1 + Placed(from, k)
          /\ a.state = IF Placed(from, k) = MaxDigis THEN "full" ELSE "go"
          /\ a.sax.call = EncodeEntry(g[1])
          /\ \A i \in 1..Placed(from, k) : a.sax.digis[i] = EncodeEntry(g[from + i])

\* One token more.
LEMMA PlaceStep ==
  ASSUME NEW g \in Seq(Text), NEW from \in 1..Len(g), NEW k \in 0..(Len(g) - 1), NEW a \in Fills,
         \A j \in 2..from : Strupr(g[j]) \in Via,
         from < Len(g) => Strupr(g[from + 1]) \notin Via,
         FilledTo(g, from, k, a)
  PROVE  FilledTo(g, from, k + 1, Place(a, g[k + 1]))
  <1> DEFINE b == Place(a, g[k + 1])
  <1>0. MaxDigis \in Nat /\ MaxDigis >= 1 /\ Len(g) \in Nat /\ from \in Nat /\ k \in Nat
    BY LenProperties, SizesAssumption DEF SizesAssumption
  <1>1. /\ a.n \in Nat /\ a.sax \in Saxes /\ (a.state = "go" => a.n <= MaxDigis)
        /\ a.state \in {"go", "bad", "full"} /\ a = [n |-> a.n, state |-> a.state, sax |-> a.sax]
    BY DEF Fills
  <1>2. \A i : i \in 1..(k + 1) <=> i \in 1..k \/ i = k + 1
    BY <1>0
  <1>3. CASE a.state = "bad"
    <2>1. b = a
      BY <1>3 DEF Place
    <2> QED
      BY <1>2, <1>3, <2>1 DEF FilledTo
  <1>4. CASE a.state # "bad" /\ Unusable(g, from, k + 1) /\ ~Separator(a.n, g[k + 1]) /\ a.state = "go"
    <2>1. b = [a EXCEPT !.state = "bad"]
      BY <1>4 DEF Place, Unusable
    <2>2. b.state = "bad"
      BY <1>1, <2>1
    <2> HIDE DEF b
    <2>3. FilledTo(g, from, k + 1, b)
      BY <1>2, <1>4, <2>2 DEF FilledTo
    <2> QED
      BY <2>3 DEF b
  <1>5. ASSUME a.state # "bad", ~Unusable(g, from, k + 1), NEW c \in Fills, c.state # "bad",
               /\ c.n = 1 + Placed(from, k + 1)
               /\ c.state = IF Placed(from, k + 1) = MaxDigis THEN "full" ELSE "go"
               /\ c.sax.call = EncodeEntry(g[1])
               /\ \A i \in 1..Placed(from, k + 1) : c.sax.digis[i] = EncodeEntry(g[from + i])
        PROVE  FilledTo(g, from, k + 1, c)
    BY <1>0, <1>2, <1>5 DEF FilledTo
  <1>6. k + 1 \in 1..Len(g)
    BY <1>0
  <1>7. b \in Fills
    <2>1. g[k + 1] \in Text
      BY <1>6, ElementOfSeq
    <2> QED
      BY <2>1, PlaceFills
  <1>8. CASE a.state # "bad" /\ k = 0
    <2>1. a.n = 0 /\ a.state = "go" /\ ~Separator(a.n, g[k + 1])
      BY <1>8 DEF FilledTo, Separator
    <2>2. CASE Unusable(g, from, k + 1)
      BY <1>4, <1>8, <2>1, <2>2
    <2>3. CASE ~Unusable(g, from, k + 1)
      <3>1. EncodeEntry(g[1]) # NoEntry
        BY <1>8, <2>3 DEF Unusable
      <3>2. b = [n |-> 1, state |-> IF 1 > MaxDigis THEN "full" ELSE "go",
                 sax |-> [a.sax EXCEPT !.call = EncodeEntry(g[1])]]
        BY <1>8, <2>1, <3>1 DEF Place
      <3>3. b.n = 1 /\ b.state = "go" /\ b.sax.call = EncodeEntry(g[1])
        BY <1>0, <1>1, <3>2 DEF Saxes
      <3>4. Placed(from, k + 1) = 0
        BY <1>0, <1>8 DEF Placed
      <3> HIDE DEF b
      <3>5. FilledTo(g, from, k + 1, b)
        BY <1>0, <1>5, <1>7, <1>8, <2>3, <3>3, <3>4
      <3> QED
        BY <3>5 DEF b
    <2> QED
      BY <2>2, <2>3
  <1>9. ASSUME a.state # "bad", k > 0
        PROVE  /\ a.n = 1 + Placed(from, k)
               /\ a.state = IF Placed(from, k) = MaxDigis THEN "full" ELSE "go"
               /\ a.sax.call = EncodeEntry(g[1])
               /\ \A i \in 1..Placed(from, k) : a.sax.digis[i] = EncodeEntry(g[from + i])
    BY <1>9 DEF FilledTo
  <1>10. CASE a.state # "bad" /\ k > 0 /\ k + 1 <= from
    <2>1. Placed(from, k) = 0 /\ Placed(from, k + 1) = 0 /\ a.n = 1
      BY <1>0, <1>9, <1>10 DEF Placed
    <2>2. Separator(a.n, g[k + 1])
      BY <1>0, <1>10, <2>1 DEF Separator
    <2>3. b = a
      BY <2>2 DEF Place
    <2>4. ~Unusable(g, from, k + 1)
      BY <1>0, <1>10 DEF Unusable
    <2> HIDE DEF b
    <2>5. FilledTo(g, from, k + 1, b)
      BY <1>5, <1>9, <1>10, <2>1, <2>3, <2>4
    <2> QED
      BY <2>5 DEF b
  <1>11. CASE a.state # "bad" /\ k > 0 /\ k >= from + MaxDigis
    <2>1. Placed(from, k) = MaxDigis /\ Placed(from, k + 1) = MaxDigis
      BY <1>0, <1>11 DEF Placed, LesserOf
    <2>2. a.state = "full"
      BY <1>9, <1>11, <2>1
    <2>3. b = a
      BY <2>2 DEF Place
    <2>4. ~Unusable(g, from, k + 1)
      BY <1>0, <1>11 DEF Unusable
    <2> HIDE DEF b
    <2>5. FilledTo(g, from, k + 1, b)
      BY <1>5, <1>9, <1>11, <2>1, <2>3, <2>4
    <2> QED
      BY <2>5 DEF b
  <1>12. CASE a.state # "bad" /\ k > 0 /\ k >= from /\ k < from + MaxDigis
    <2>1. Placed(from, k) = k - from /\ Placed(from, k + 1) = k + 1 - from
      BY <1>0, <1>12 DEF Placed, LesserOf
    <2>2. a.n = 1 + k - from /\ a.state = "go" /\ a.n \in 1..MaxDigis
      BY <1>0, <1>9, <1>12, <2>1
    <2>3. ~Separator(a.n, g[k + 1])
      BY <1>0, <1>12, <2>2 DEF Separator
    <2>4. CASE Unusable(g, from, k + 1)
      BY <1>4, <1>12, <2>2, <2>3, <2>4
    <2>5. CASE ~Unusable(g, from, k + 1)
      <3> DEFINE e == EncodeEntry(g[k + 1])
      <3>1. e # NoEntry
        BY <1>0, <1>12, <2>5 DEF Unusable
      <3>2. b = [n |-> a.n + 1, state |-> IF a.n + 1 > MaxDigis THEN "full" ELSE "go",
                 sax |-> [a.sax EXCEPT !.digis[a.n] = e]]
        <4>1. a.n # 0 /\ a.state = "go" /\ ~Separator(a.n, g[k + 1]) /\ e # NoEntry
          BY <1>0, <2>2, <2>3, <3>1
        <4> QED
          BY <4>1, Zenon DEF Place
      <3> HIDE DEF e
      <3>3. /\ b.n = a.n + 1 /\ b.state = IF a.n + 1 > MaxDigis THEN "full" ELSE "go"
            /\ b.sax.call = a.sax.call
            /\ \A i \in 1..MaxDigis : b.sax.digis[i] = IF i = a.n THEN e ELSE a.sax.digis[i]
        BY <1>0, <1>1, <2>2, <3>2, SMTT(30) DEF Saxes
      <3> HIDE DEF b
      <3>4. b.n = 1 + Placed(from, k + 1)
        BY <1>0, <2>1, <2>2, <3>3
      <3>5. b.state = IF Placed(from, k + 1) = MaxDigis THEN "full" ELSE "go"
        BY <1>0, <1>12, <2>1, <2>2, <3>3
      <3>6. ASSUME NEW i \in 1..Placed(from, k + 1)
            PROVE  b.sax.digis[i] = EncodeEntry(g[from + i])
        <4>1. i \in 1..MaxDigis /\ (i = a.n => from + i = k + 1) /\ (i # a.n => i \in 1..Placed(from, k))
          BY <1>0, <1>12, <2>1, <2>2
        <4> QED
          BY <1>9, <1>12, <3>3, <4>1 DEF e
      <3>7. b.sax.call = EncodeEntry(g[1]) /\ b.state # "bad"
        BY <1>9, <1>12, <3>3
      <3>8. FilledTo(g, from, k + 1, b)
        BY <1>5, <1>7, <1>12, <2>5, <3>4, <3>5, <3>6, <3>7
      <3> QED
        BY <3>8 DEF b
    <2> QED
      BY <2>4, <2>5
  <1>13. k = 0 \/ (k > 0 /\ k + 1 <= from) \/ (k > 0 /\ k >= from + MaxDigis)
          \/ (k > 0 /\ k >= from /\ k < from + MaxDigis)
    BY <1>0
  <1> QED
    BY <1>3, <1>8, <1>10, <1>11, <1>12, <1>13


\* A call and an SSID octet are no failure.
LEMMA EntryNotEmpty ==
  ASSUME NEW s \in Text, NEW n \in 0..Len(s), NEW b
  PROVE  Append(ShiftedCall(s, n), b) # NoEntry
  <1>1. CallLen \in Nat
    BY SizesAssumption DEF SizesAssumption
  <1> DEFINE S == {ShiftedCall(s, n)[i] : i \in 1..CallLen} \cup {b}
  <1>2. ShiftedCall(s, n) \in [1..CallLen -> S]
    BY DEF ShiftedCall
  <1>3. b \in S
    OBVIOUS
  <1> HIDE DEF S
  <1>4. ShiftedCall(s, n) \in Seq(S)
    BY <1>1, <1>2, FunctionIsSeq
  <1> DEFINE a == Append(ShiftedCall(s, n), b)
  <1>5. a \in Seq(S) /\ Len(ShiftedCall(s, n)) \in Nat /\ Len(a) = Len(ShiftedCall(s, n)) + 1
    BY <1>3, <1>4, OneMore
  <1> HIDE DEF a
  <1>6. a # <<>>
    BY <1>5, EmptySeq
  <1> QED
    BY <1>6 DEF a, NoEntry

\* The empty text is a callsign: six blanks.
LEMMA EmptyEncodes ==
  EncodeEntry(<<>>) # NoEntry
  <1>1. <<>> \in Text /\ Len(<<>>) = 0
    BY DEF Text
  <1>2. FirstIn({Dash}, <<>>, 1) = 1
    <2>1. FirstIn({Dash}, <<>>, 1) \in 1..(Len(<<>>) + 1)
      BY <1>1, FirstInPlace
    <2> QED
      BY <1>1, <2>1
  <1>3. CallLen \in Nat
    BY SizesAssumption DEF SizesAssumption
  <1>4. Stem(<<>>) = 0
    BY <1>2, <1>3 DEF Stem, LesserOf
  <1>5. SsidInRange(<<0>>[1]) /\ <<0>> # <<>>
    BY DEF SsidInRange
  <1>6. EncodeEntry(<<>>) = Append(ShiftedCall(<<>>, 0), SsidByte(<<0>>[1]))
    BY <1>1, <1>4, <1>5 DEF EncodeEntry
  <1>7. Append(ShiftedCall(<<>>, 0), SsidByte(<<0>>[1])) # NoEntry
    BY <1>1, EntryNotEmpty
  <1> QED
    BY <1>6, <1>7

\* The outcome o of a call with the tokens g and the path p.
FilledFrom(g, p, o) ==
    /\ o.sax \in Saxes /\ o.ok \in BOOLEAN /\ p \in Seq(Text) /\ Len(p) <= MaxDigis
    /\ o.ok <=> /\ EncodeEntry(g[1]) # NoEntry
                /\ \A i \in 1..Len(p) : EncodeEntry(p[i]) # NoEntry
    /\ o.ok => /\ o.sax.call = EncodeEntry(g[1]) /\ o.sax.ndigis = Len(p)
               /\ \A i \in 1..Len(p) : o.sax.digis[i] = EncodeEntry(p[i])

\* What ax25_aton leaves in a sockaddr, whatever was in it.
LEMMA FillSaxGiven ==
  ASSUME NEW toks \in Seq(Text), NEW s \in Saxes, NEW g \in Seq(Text),
         g = (IF toks = <<>> THEN <<<<>>>> ELSE toks), Len(g) >= 1
  PROVE  FilledFrom(g, PathOf(g), FillSax(toks, s))
  <1> DEFINE N == Len(g)
             path == PathOf(g)
  <1>0. MaxDigis \in Nat /\ MaxDigis >= 1 /\ N \in Nat /\ N >= 1
    BY LenProperties, SizesAssumption DEF SizesAssumption
  <1>1. PICK from \in 1..N :
            /\ \A k \in 2..from : Strupr(g[k]) \in Via
            /\ from < N => Strupr(g[from + 1]) \notin Via
            /\ path \in Seq(Text) /\ Len(path) = LesserOf(MaxDigis, N - from)
            /\ \A i \in 1..Len(path) : path[i] = g[from + i]
    BY PathOfShape
  <1>2. PICK h \in [0..N -> Fills] :
            /\ h[0] = Start(s) /\ \A n \in 1..N : h[n] = Place(h[n - 1], g[n])
            /\ FillSax(toks, s) = Outcome(h[N])
    BY FillSaxRecursion
  <1> HIDE DEF path
  <1> DEFINE T == {n \in 0..N : FilledTo(g, from, n, h[n])}
  <1>3. 0 \in T
    <2>1. h[0].state = "go" /\ h[0].n = 0
      BY <1>2 DEF Start
    <2>2. FilledTo(g, from, 0, h[0])
      BY <2>1 DEF FilledTo
    <2> QED
      BY <1>0, <2>2
  <1>4. ASSUME NEW n \in 0..(N - 1), n \in T
        PROVE  n + 1 \in T
    <2>1. n + 1 \in 1..N /\ (n + 1) - 1 = n /\ n + 1 \in 0..N /\ n \in 0..N
      BY <1>0
    <2>2. h[n] \in Fills /\ h[n + 1] = Place(h[n], g[n + 1]) /\ FilledTo(g, from, n, h[n])
      BY <1>2, <1>4, <2>1
    <2>3. FilledTo(g, from, n + 1, Place(h[n], g[n + 1]))
      BY <1>1, <2>2, PlaceStep
    <2> QED
      BY <2>1, <2>2, <2>3
  <1>5. FilledTo(g, from, N, h[N])
    <2>1. \A n \in 0..(N - 1) : n \in T => n + 1 \in T
      BY <1>4
    <2> HIDE DEF T
    <2>2. \A n \in 0..N : n \in T
      BY <1>0, <1>3, <2>1, IntervalInduction
    <2>3. N \in T
      BY <1>0, <2>2
    <2> QED
      BY <2>3 DEF T
  <1> DEFINE a == h[N]
             o == FillSax(toks, s)
  <1>6. a \in Fills /\ FilledTo(g, from, N, a) /\ o = Outcome(a)
    BY <1>0, <1>2, <1>5
  <1> HIDE DEF a, o
  <1>7. a.n \in Nat /\ a.sax \in Saxes
    BY <1>6 DEF Fills
  <1>8. o.sax \in Saxes /\ o.ok \in BOOLEAN /\ (o.ok <=> a.state # "bad")
    BY <1>6, <1>7, SMTT(30) DEF Outcome, Saxes, Ndigis
  <1>9. o.ok => o.sax.ndigis = a.n - 1 /\ o.sax.call = a.sax.call /\ o.sax.digis = a.sax.digis
    BY <1>6, <1>7, <1>8 DEF Outcome, Saxes, Ndigis
  <1>10. Placed(from, N) = Len(path) /\ Len(path) \in Nat /\ Len(path) <= MaxDigis
         /\ from + Len(path) <= N /\ (Len(path) < MaxDigis => from + Len(path) = N)
    <2>1. Len(path) = LesserOf(MaxDigis, N - from) /\ from \in 1..N
      BY <1>1
    <2> HIDE DEF N
    <2> QED
      BY <1>0, <2>1 DEF Placed, LesserOf
  <1>11. (\E i \in 1..N : Unusable(g, from, i))
         <=> EncodeEntry(g[1]) = NoEntry \/ \E i \in 1..Len(path) : EncodeEntry(path[i]) = NoEntry
    <2>1. ASSUME NEW i \in 1..N, Unusable(g, from, i), i # 1
          PROVE  \E j \in 1..Len(path) : EncodeEntry(path[j]) = NoEntry
      <3>1. i - from \in 1..Len(path) /\ from + (i - from) = i
        BY <1>0, <1>10, <2>1 DEF Unusable
      <3>2. path[i - from] = g[i]
        BY <1>1, <3>1
      <3> QED
        BY <2>1, <3>1, <3>2 DEF Unusable
    <2>2. ASSUME NEW j \in 1..Len(path), EncodeEntry(path[j]) = NoEntry
          PROVE  Unusable(g, from, from + j) /\ from + j \in 1..N
      BY <1>0, <1>1, <1>10, <2>2 DEF Unusable
    <2>3. EncodeEntry(g[1]) = NoEntry <=> Unusable(g, from, 1)
      <3>1. Unusable(g, from, 1) => EncodeEntry(g[1]) = NoEntry
        BY DEF Unusable
      <3>2. EncodeEntry(g[1]) = NoEntry => Unusable(g, from, 1)
        BY DEF Unusable
      <3> QED
        BY <3>1, <3>2
    <2>4. 1 \in 1..N
      BY <1>0
    <2> QED
      BY <2>1, <2>2, <2>3, <2>4
  <1>12. a.state = "bad" <=> \E i \in 1..N : Unusable(g, from, i)
    BY <1>6 DEF FilledTo
  <1>13. o.ok => /\ o.sax.call = EncodeEntry(g[1]) /\ o.sax.ndigis = Len(path)
                 /\ \A i \in 1..Len(path) : o.sax.digis[i] = EncodeEntry(path[i])
    <2> SUFFICES ASSUME o.ok
                 PROVE  /\ o.sax.call = EncodeEntry(g[1]) /\ o.sax.ndigis = Len(path)
                        /\ \A i \in 1..Len(path) : o.sax.digis[i] = EncodeEntry(path[i])
      OBVIOUS
    <2>1. /\ a.n = 1 + Placed(from, N) /\ a.sax.call = EncodeEntry(g[1])
          /\ \A i \in 1..Placed(from, N) : a.sax.digis[i] = EncodeEntry(g[from + i])
      BY <1>0, <1>6, <1>8 DEF FilledTo
    <2>2. \A i \in 1..Len(path) : a.sax.digis[i] = EncodeEntry(path[i])
      BY <1>1, <1>10, <2>1
    <2>3. a.n - 1 = Len(path)
      BY <1>10, <2>1
    <2> QED
      BY <1>9, <2>1, <2>2, <2>3
  <1>14. o.ok <=> /\ EncodeEntry(g[1]) # NoEntry
                  /\ \A i \in 1..Len(path) : EncodeEntry(path[i]) # NoEntry
    BY <1>8, <1>11, <1>12
  <1> QED
    BY <1>1, <1>8, <1>10, <1>13, <1>14 DEF FilledFrom, o, path

\* The interposer reads the digipeaters of such a sockaddr as the path's.
LEMMA DigipeatersRead ==
  ASSUME NEW x \in Saxes, NEW path \in Seq(Text), Len(path) <= MaxDigis, x.ndigis = Len(path),
         \A i \in 1..Len(path) : x.digis[i] = EncodeEntry(path[i]), NEW fit \in 0..MaxDigis
  PROVE  ReadDigipeaters(x, fit)
           = Without(<<>>, [i \in 1..LesserOf(fit, Len(path)) |-> Printed(path[i])])
  <1> DEFINE n == Len(path)
             count == Min({n, fit, MaxDigis})
             m == LesserOf(fit, n)
  <1>1. n \in Nat /\ n <= MaxDigis /\ MaxDigis \in Nat /\ fit \in Nat /\ fit <= MaxDigis
    BY LenProperties, SizesAssumption DEF SizesAssumption
  <1>2. (IF x.ndigis > 0 THEN x.ndigis ELSE 0) = n
    BY <1>1
  <1>3. ReadDigipeaters(x, fit) = Without(<<>>, [i \in 1..count |-> Decode(x.digis[i])])
    BY <1>2 DEF ReadDigipeaters
  <1>4. count \in {n, fit, MaxDigis} /\ count <= n /\ count <= fit
    <2> DEFINE T == {n, fit, MaxDigis}
    <2>1. T \subseteq Nat /\ T # {}
      BY <1>1
    <2>2. n \in T /\ fit \in T
      OBVIOUS
    <2>3. Min(T) \in T /\ \A y \in T : Min(T) <= y
      <3> HIDE DEF T
      <3> QED
        BY <2>1, MinNat
    <2> QED
      BY <2>2, <2>3
  <1> HIDE DEF count, n
  <1>5. count = m
    BY <1>1, <1>4 DEF LesserOf
  <1>6. \A i \in 1..m : Decode(x.digis[i]) = Printed(path[i])
    <2>1. \A i \in 1..m : i \in 1..n
      BY <1>1 DEF LesserOf
    <2> QED
      BY <2>1 DEF Decode, Printed, n
  <1>7. [i \in 1..m |-> Decode(x.digis[i])] = [i \in 1..m |-> Printed(path[i])]
    BY <1>6, Zenon
  <1>8. Without(<<>>, [i \in 1..m |-> Decode(x.digis[i])]) = Without(<<>>, [i \in 1..m |-> Printed(path[i])])
    BY <1>7, Zenon
  <1> QED
    BY <1>3, <1>5, <1>8 DEF n

\* Without a token there is no path.
LEMMA EmptyPath ==
  PathOf(<<>>) = <<>> /\ PathOf(<<<<>>>>) = <<>>
  <1>1. ASSUME NEW p \in Seq(Text), Len(p) = 0 PROVE p = <<>>
    BY <1>1, EmptySeq
  <1>2. <<<<>>>> \in Seq(Text) /\ Len(<<<<>>>>) = 1
    BY DEF Text
  <1>3. MaxDigis \in Nat
    BY SizesAssumption DEF SizesAssumption
  <1>4. PathOf(<<<<>>>>) \in Seq(Text) /\ Len(PathOf(<<<<>>>>)) = 0
    <2> DEFINE g == <<<<>>>>
    <2>1. g \in Seq(Text) /\ Len(g) = 1 /\ Len(g) >= 1
      BY <1>2
    <2> HIDE DEF g
    <2>2. PICK from \in 1..Len(g) : PathOf(g) \in Seq(Text) /\ Len(PathOf(g)) = LesserOf(MaxDigis, Len(g) - from)
      BY <2>1, PathOfShape
    <2>3. from = 1 /\ LesserOf(MaxDigis, 0) = 0
      BY <1>3, <2>1 DEF LesserOf
    <2> QED
      BY <2>1, <2>2, <2>3 DEF g
  <1>5. PathOf(<<>>) = <<>>
    <2> DEFINE rest == SubSeq(<<>>, 2, 0)
               T == {k \in DOMAIN rest : Strupr(rest[k]) \notin Via} \cup {Len(rest) + 1}
    <2>1. rest = <<>> /\ Len(<<>>) = 0 /\ DOMAIN <<>> = {}
      OBVIOUS
    <2>2. T = {1}
      BY <2>1
    <2>3. Min(T) = 1
      <3>1. Min(T) \in T
        BY <2>2, MinNat
      <3> QED
        BY <2>2, <3>1
    <2>4. PathOf(<<>>) = SubSeq(SubSeq(rest, Min(T), Len(rest)), 1,
                                LesserOf(MaxDigis, Len(SubSeq(rest, Min(T), Len(rest)))))
      BY <2>1 DEF PathOf
    <2> HIDE DEF T
    <2>5. SubSeq(rest, Min(T), Len(rest)) = <<>>
      BY <2>1, <2>3
    <2>6. LesserOf(MaxDigis, Len(<<>>)) = 0
      BY <1>3, <2>1 DEF LesserOf
    <2>7. SubSeq(<<>>, 1, 0) = <<>>
      OBVIOUS
    <2> DEFINE d == SubSeq(rest, Min(T), Len(rest))
    <2>8. PathOf(<<>>) = SubSeq(d, 1, LesserOf(MaxDigis, Len(d))) /\ d = <<>>
      BY <2>4, <2>5
    <2> HIDE DEF d
    <2> QED
      BY <2>6, <2>7, <2>8
  <1> QED
    BY <1>1, <1>4, <1>5

\* One call of ax25_aton.
LEMMA AtonPath ==
  ASSUME NEW toks \in Seq(Text), NEW s \in Saxes
  PROVE  LET o == FillSax(toks, s)
             path == PathOf(toks)
         IN /\ o.sax \in Saxes
            /\ o.ok <=> /\ toks # <<>> => EncodeEntry(toks[1]) # NoEntry
                        /\ \A i \in DOMAIN path : EncodeEntry(path[i]) # NoEntry
            /\ o.ok =>
                 /\ toks # <<>> => ReadCall(o.sax) = Printed(toks[1])
                 /\ \A fit \in 0..MaxDigis :
                       ReadDigipeaters(o.sax, fit)
                         = Without(<<>>, [i \in 1..LesserOf(fit, Len(path)) |-> Printed(path[i])])
  <1> DEFINE g == IF toks = <<>> THEN <<<<>>>> ELSE toks
             path == PathOf(toks)
             o == FillSax(toks, s)
  <1>1. g \in Seq(Text) /\ Len(g) >= 1 /\ (toks # <<>> => g = toks) /\ (toks = <<>> => g[1] = <<>>)
    <2>1. CASE toks = <<>>
      BY <2>1 DEF Text
    <2>2. CASE toks # <<>>
      BY <2>2, EmptySeq, LenProperties
    <2> QED
      BY <2>1, <2>2
  <1>2. PathOf(g) = path
    BY EmptyPath
  <1>3. g = IF toks = <<>> THEN <<<<>>>> ELSE toks
    OBVIOUS
  <1> HIDE DEF g
  <1>4. /\ o.sax \in Saxes /\ o.ok \in BOOLEAN /\ path \in Seq(Text) /\ Len(path) <= MaxDigis
        /\ o.ok <=> /\ EncodeEntry(g[1]) # NoEntry
                    /\ \A i \in 1..Len(path) : EncodeEntry(path[i]) # NoEntry
        /\ o.ok => /\ o.sax.call = EncodeEntry(g[1]) /\ o.sax.ndigis = Len(path)
                   /\ \A i \in 1..Len(path) : o.sax.digis[i] = EncodeEntry(path[i])
    <2>1. FilledFrom(g, PathOf(g), o)
      BY <1>1, <1>3, FillSaxGiven
    <2>2. FilledFrom(g, path, o)
      BY <1>2, <2>1
    <2> QED
      BY <2>2 DEF FilledFrom
  <1> HIDE DEF o, path
  <1>5. DOMAIN path = 1..Len(path)
    BY <1>4, LenProperties
  <1>6. EncodeEntry(g[1]) # NoEntry <=> (toks # <<>> => EncodeEntry(toks[1]) # NoEntry)
    BY <1>1, EmptyEncodes
  <1>7. o.ok => (toks # <<>> => ReadCall(o.sax) = Printed(toks[1]))
    BY <1>1, <1>4 DEF ReadCall, Decode, Printed
  <1>8. ASSUME o.ok, NEW fit \in 0..MaxDigis
        PROVE  ReadDigipeaters(o.sax, fit)
                 = Without(<<>>, [i \in 1..LesserOf(fit, Len(path)) |-> Printed(path[i])])
    BY <1>4, <1>8, DigipeatersRead
  <1> QED
    BY <1>4, <1>5, <1>6, <1>7, <1>8 DEF o, path

PathInv == sax \in Saxes /\ PathKept

\* The calls of ax25_aton keep the path.
LEMMA PathStep ==
  ASSUME PathInv, [Next]_vars
  PROVE  PathInv'
  <1>1. ASSUME UNCHANGED <<tokens, sax, filled, atons>>
        PROVE  PathInv'
    BY <1>1 DEF PathInv, PathKept
  <1>2. ASSUME NEW p \in Paths, Aton(p)
        PROVE  PathInv'
    <2>1. tokens' = p /\ filled' = FillSax(p, sax).ok /\ sax' = FillSax(p, sax).sax
      BY <1>2 DEF Aton
    <2>2. p \in Seq(Text) /\ sax \in Saxes
      BY InputsAssumption DEF InputsAssumption, PathInv
    <2>3. sax' \in Saxes
      BY <2>1, <2>2, AtonPath
    <2>4. PathKept'
      BY <2>1, <2>2, AtonPath DEF PathKept
    <2> QED
      BY <2>3, <2>4 DEF PathInv
  <1>3. CASE UNCHANGED vars
    BY <1>1, <1>3 DEF vars, addressVars
  <1>4. ASSUME NEW t \in Texts, AtonEntry(t)
        PROVE  PathInv'
    BY <1>1, <1>4 DEF AtonEntry
  <1>5. CASE LoadPorts \/ GetNext
    BY <1>1, <1>5 DEF LoadPorts, GetNext, addressVars
  <1>6. ASSUME NEW u \in Uids, GetCall(u)
        PROVE  PathInv'
    BY <1>1, <1>6 DEF GetCall, addressVars
  <1>7. ASSUME Edit
        PROVE  PathInv'
    BY <1>1, <1>7 DEF Edit, addressVars
  <1> QED
    BY <1>2, <1>3, <1>4, <1>5, <1>6, <1>7 DEF Next, EditAxports, EditCalls, SetEnv

\* After every ax25_aton and ax25_aton_arglist that succeeds the interposer reads
\* the callsign and the digipeaters the caller wrote, for paths of any length and
\* whatever earlier calls left in the sockaddr, and a call fails exactly for an
\* unusable callsign among the ones it looks at.
THEOREM PathAlwaysKept ==
  Spec => []PathKept
  <1>1. Init => PathInv
    <2>1. EmptySax \in Saxes
      BY SizesAssumption DEF EmptySax, Saxes, Entries, SizesAssumption
    <2> QED
      BY <2>1 DEF Init, PathInv, PathKept
  <1>2. PathInv => PathKept
    BY DEF PathInv
  <1> QED
    BY <1>1, <1>2, PathStep, PTL DEF Spec


---------------------------------------------------------------------------
(* Walks over the ports.                                                   *)

\* A port is found by its name, unless the name reads as an earlier callsign.
LEMMA NameFound ==
  ASSUME ports \in PortTables, ~Ambiguous, NEW m \in 1..Len(ports)
  PROVE  FindIndex(ports[m].name) = m
  <1> DEFINE q == ports[m].name
             match == {i \in DOMAIN ports : \/ Strupr(ports[i].name) = Strupr(q)
                                            \/ IsSameCall(ports[i].call, q)}
             T == match \cup {IF match = {} THEN 0 ELSE Len(ports)}
  <1>1. /\ Len(ports) \in Nat /\ DOMAIN ports = 1..Len(ports)
        /\ \A i, j \in 1..Len(ports) : i # j => Strupr(ports[i].name) # Strupr(ports[j].name)
    BY LenProperties DEF PortTables
  <1>2. m \in match
    BY <1>1
  <1>3. ASSUME NEW i \in match PROVE i >= m
    <2>1. i \in 1..Len(ports) /\ (Strupr(ports[i].name) = Strupr(q) \/ IsSameCall(ports[i].call, q))
      BY <1>1
    <2>2. Strupr(ports[i].name) = Strupr(q) => i = m
      BY <1>1, <2>1
    <2>3. IsSameCall(ports[i].call, q) => ~(i < m)
      BY <1>1, <2>1 DEF Ambiguous
    <2> QED
      BY <1>1, <2>1, <2>2, <2>3
  <1>4. T \subseteq Nat /\ T # {} /\ m \in T /\ \A i \in T : i >= m
    <2>1. match \subseteq Nat /\ match # {}
      BY <1>1, <1>2
    <2>2. m \in Nat /\ Len(ports) >= m
      BY <1>1
    <2> HIDE DEF match
    <2> QED
      BY <1>1, <1>2, <1>3, <2>1, <2>2
  <1>5. FindIndex(q) = Min(T)
    BY DEF FindIndex
  <1> HIDE DEF T, q
  <1>6. Min(T) \in T /\ \A y \in T : Min(T) <= y
    BY <1>4, MinNat
  <1>7. Min(T) \in Nat /\ m \in Nat /\ Min(T) >= m /\ Min(T) <= m
    BY <1>1, <1>4, <1>6
  <1>8. FindIndex(q) = m
    BY <1>5, <1>7
  <1> QED
    BY <1>8 DEF q

\* A walk has visited the first ports.
WalkInv ==
    /\ walk \in Seq(Text) /\ (walk # <<>> => ports # <<>>)
    /\ ~Ambiguous => /\ Len(walk) <= Len(ports)
                     /\ \A i \in 1..Len(walk) : walk[i] = ports[i].name

\* Where the walk goes on.
LEMMA WalkNext ==
  ASSUME ports \in PortTables, WalkInv, ~Ambiguous
  PROVE  NextIndex = Len(walk) + 1
  <1>1. Len(walk) \in Nat /\ Len(ports) \in Nat
    BY LenProperties DEF WalkInv, PortTables
  <1>2. CASE walk = <<>>
    BY <1>2 DEF NextIndex
  <1>3. CASE walk # <<>>
    <2> DEFINE m == Len(walk)
    <2>1. m \in 1..Len(walk) /\ m \in 1..Len(ports)
      BY <1>1, <1>3, EmptySeq DEF WalkInv
    <2>2. Last(walk) = ports[m].name
      BY <2>1 DEF Last, WalkInv
    <2>3. FindIndex(Last(walk)) = m
      <3> HIDE DEF m
      <3> QED
        BY <2>1, <2>2, NameFound
    <2> QED
      BY <1>1, <1>3, <2>1, <2>3 DEF NextIndex
  <1> QED
    BY <1>2, <1>3

\* Every step keeps the walk in order.
LEMMA WalkStep ==
  ASSUME TablesInv, WalkInv, [Next]_vars
  PROVE  WalkInv'
  <1>0. ports \in PortTables
    BY DEF TablesInv
  <1>1. ASSUME UNCHANGED <<walk, ports>>
        PROVE  WalkInv'
    BY <1>1 DEF WalkInv, Ambiguous
  <1>2. CASE UNCHANGED vars
    BY <1>1, <1>2 DEF vars, tableVars
  <1>3. ASSUME NEW t \in Texts, AtonEntry(t)
        PROVE  WalkInv'
    BY <1>1, <1>3 DEF AtonEntry, tableVars
  <1>4. ASSUME NEW p \in Paths, Aton(p)
        PROVE  WalkInv'
    BY <1>1, <1>4 DEF Aton, tableVars
  <1>5. CASE LoadPorts
    <2>1. CASE ports # <<>>
      BY <1>1, <1>5, <2>1 DEF LoadPorts, Loaded
    <2>2. CASE ports = <<>>
      <3>1. walk' = <<>>
        BY <1>5, <2>2 DEF LoadPorts, WalkInv
      <3>2. ports' \in PortTables
        BY <1>5, <2>2, ParsedTables DEF LoadPorts, Loaded, TablesInv
      <3>3. Len(ports') \in Nat
        BY <3>2, LenProperties DEF PortTables
      <3>4. <<>> \in Seq(Text) /\ Len(<<>>) = 0
        OBVIOUS
      <3> QED
        BY <3>1, <3>3, <3>4 DEF WalkInv
    <2> QED
      BY <2>1, <2>2
  <1>6. CASE GetNext
    <2> DEFINE x == ports[NextIndex].name
    <2>1. walk' = Append(walk, x) /\ ports' = ports /\ NextIndex \in DOMAIN ports
      BY <1>6 DEF GetNext, tableVars
    <2>2. Len(ports) \in Nat /\ DOMAIN ports = 1..Len(ports) /\ \A i \in 1..Len(ports) : ports[i] \in PortLine
      BY <1>0, LenProperties, ElementOfSeq DEF PortTables
    <2>3. x \in Text
      BY <2>1, <2>2 DEF PortLine
    <2>4. /\ Append(walk, x) \in Seq(Text) /\ Len(walk) \in Nat /\ Len(Append(walk, x)) = Len(walk) + 1
          /\ \A i \in 1..Len(walk) : Append(walk, x)[i] = walk[i]
          /\ Append(walk, x)[Len(walk) + 1] = x
      <3> HIDE DEF x
      <3> QED
        BY <2>3, OneMore DEF WalkInv
    <2>5. ports # <<>>
      BY <2>1, <2>2
    <2>6. ASSUME ~Ambiguous
          PROVE  /\ Len(walk') <= Len(ports)
                 /\ \A i \in 1..Len(walk') : walk'[i] = ports[i].name
      <3>1. NextIndex = Len(walk) + 1
        BY <1>0, <2>6, WalkNext
      <3>2. Len(walk') = Len(walk) + 1 /\ Len(walk) + 1 <= Len(ports)
        BY <2>1, <2>2, <2>4, <3>1
      <3>3. \A i \in 1..Len(walk) : walk'[i] = ports[i].name
        BY <2>1, <2>4, <2>6 DEF WalkInv
      <3>4. walk'[Len(walk) + 1] = ports[Len(walk) + 1].name
        BY <2>1, <2>4, <3>1
      <3> QED
        BY <2>4, <3>2, <3>3, <3>4
    <2>7. Ambiguous' <=> Ambiguous
      BY <2>1 DEF Ambiguous
    <2>8. walk' \in Seq(Text)
      BY <2>1, <2>4
    <2> HIDE DEF x
    <2> QED
      BY <2>1, <2>5, <2>6, <2>7, <2>8 DEF WalkInv
  <1>7. ASSUME NEW u \in Uids, GetCall(u)
        PROVE  WalkInv'
    BY <1>1, <1>7 DEF GetCall
  <1>8. ASSUME Edit
        PROVE  WalkInv'
    BY <1>1, <1>8 DEF Edit, tableVars
  <1> QED
    BY <1>2, <1>3, <1>4, <1>5, <1>6, <1>7, <1>8 DEF Next, EditAxports, EditCalls, SetEnv

\* What a walk shows of the ports.
LEMMA WalkVisits ==
  ASSUME TablesInv, WalkInv
  PROVE  WalkVisitsAll
  <1> SUFFICES ASSUME ~Ambiguous
               PROVE  /\ Len(walk) <= Len(ports)
                      /\ NextIndex \notin DOMAIN ports => Len(walk) = Len(ports)
                      /\ \A i \in DOMAIN walk : /\ walk[i] = ports[i].name
                                                /\ GetField(walk[i]) = <<ports[i]>>
                                                /\ GetName(walk[i]) = walk[i]
    BY DEF WalkVisitsAll
  <1>1. /\ ports \in PortTables /\ Len(ports) \in Nat /\ DOMAIN ports = 1..Len(ports)
        /\ Len(walk) \in Nat /\ DOMAIN walk = 1..Len(walk)
    BY LenProperties DEF TablesInv, PortTables, WalkInv
  <1>2. Len(walk) <= Len(ports) /\ \A i \in 1..Len(walk) : walk[i] = ports[i].name
    BY DEF WalkInv
  <1>3. NextIndex = Len(walk) + 1
    BY <1>1, WalkNext
  <1>4. ASSUME NEW i \in 1..Len(walk)
        PROVE  GetField(walk[i]) = <<ports[i]>> /\ GetName(walk[i]) = walk[i]
    <2>1. i \in 1..Len(ports) /\ walk[i] = ports[i].name
      BY <1>1, <1>2
    <2>2. FindIndex(walk[i]) = i /\ i # 0
      BY <1>1, <2>1, NameFound
    <2> QED
      BY <1>1, <2>1, <2>2 DEF GetField, GetName
  <1>5. NextIndex \notin DOMAIN ports => Len(walk) = Len(ports)
    <2> DEFINE w == Len(walk)
               p == Len(ports)
    <2>1. w \in Nat /\ p \in Nat /\ w <= p /\ NextIndex = w + 1 /\ DOMAIN ports = 1..p
      BY <1>1, <1>2, <1>3
    <2> HIDE DEF w, p
    <2>2. w + 1 \notin 1..p => w = p
      BY <2>1
    <2> QED
      BY <2>1, <2>2 DEF w, p
  <1> QED
    BY <1>1, <1>2, <1>4, <1>5


---------------------------------------------------------------------------
(* Numbers and blanks.                                                     *)

\* The value of digits, one after the other.
LEMMA ValueRecursion ==
  ASSUME NEW d \in Seq(Digit)
  PROVE  \E h \in [0..Len(d) -> Nat] :
            /\ h[0] = 0 /\ \A n \in 1..Len(d) : h[n] = 10 * h[n - 1] + (d[n] - 48)
            /\ Value(d) = h[Len(d)]
  <1> DEFINE N == Len(d)
             h == CHOOSE f : f = [n \in 0..N |-> IF n = 0 THEN 0 ELSE 10 * f[n - 1] + (d[n] - 48)]
  <1>1. Value(d) = h[N]
    BY DEF Value
  <1>2. N \in Nat /\ \A n \in 1..N : d[n] \in Digit
    BY LenProperties, ElementOfSeq
  <1> HIDE DEF N
  <1>3. 0 \in Nat
    OBVIOUS
  <1> DEFINE g == [n \in 1..N |-> [t \in Nat |-> 10 * t + (d[n] - 48)]]
  <1>4. g \in [1..N -> [Nat -> Nat]]
    BY <1>2, SMTT(30) DEF Digit
  <1>5. PICK f \in [0..N -> Nat] : f[0] = 0 /\ \A n \in 1..N : f[n] = g[n][f[n - 1]]
    <2> HIDE DEF g
    <2>1. Steps(N, Nat, 0, g) # {}
      BY <1>2, <1>3, <1>4, RecursionExists
    <2> QED
      BY <2>1 DEF Steps
  <1>6. \A n \in 1..N : f[n] = 10 * f[n - 1] + (d[n] - 48)
    <2> TAKE n \in 1..N
    <2>1. f[n - 1] \in Nat
      BY <1>2, <1>5
    <2> QED
      BY <1>5, <2>1
  <1>7. f = [n \in 0..N |-> IF n = 0 THEN 0 ELSE 10 * f[n - 1] + (d[n] - 48)]
    <2>1. f = [n \in 0..N |-> f[n]]
      BY <1>5
    <2>2. \A n \in 0..N : f[n] = IF n = 0 THEN 0 ELSE 10 * f[n - 1] + (d[n] - 48)
      BY <1>2, <1>5, <1>6
    <2> QED
      BY <2>1, <2>2, Zenon
  <1>8. h = [n \in 0..N |-> IF n = 0 THEN 0 ELSE 10 * h[n - 1] + (d[n] - 48)]
    BY <1>7, Zenon
  <1> HIDE DEF h
  <1>9. \A n \in 0..N : h[n] = IF n = 0 THEN 0 ELSE 10 * h[n - 1] + (d[n] - 48)
    BY <1>8, Zenon
  <1>10. h[0] = 0 /\ \A n \in 1..N : h[n] = 10 * h[n - 1] + (d[n] - 48)
    BY <1>2, <1>9
  <1> DEFINE T == {n \in 0..N : h[n] = f[n]}
  <1>11. 0 \in T
    BY <1>2, <1>5, <1>10
  <1>12. \A n \in 0..(N - 1) : n \in T => n + 1 \in T
    <2> SUFFICES ASSUME NEW n \in 0..(N - 1), n \in T PROVE n + 1 \in T
      OBVIOUS
    <2>1. n + 1 \in 1..N /\ (n + 1) - 1 = n /\ n + 1 \in 0..N
      BY <1>2
    <2>2. h[n + 1] = 10 * h[n] + (d[n + 1] - 48) /\ f[n + 1] = 10 * f[n] + (d[n + 1] - 48)
      BY <1>6, <1>10, <2>1
    <2> QED
      BY <2>1, <2>2
  <1> HIDE DEF T
  <1>13. \A n \in 0..N : n \in T
    BY <1>2, <1>11, <1>12, IntervalInduction
  <1>14. \A n \in 0..N : h[n] = f[n]
    BY <1>13 DEF T
  <1>15. N \in 0..N
    BY <1>2
  <1> QED
    BY <1>1, <1>5, <1>6, <1>14, <1>15 DEF N

\* The elements of s other than x, as far as n.
Keeps(h, x, s) ==
    h[0] = <<>> /\ \A n \in 1..Len(s) : h[n] = (IF s[n] = x THEN h[n - 1] ELSE Append(h[n - 1], s[n]))

\* The elements that are kept, one after the other.
LEMMA WithoutRecursion ==
  ASSUME NEW E, NEW s \in Seq(E), NEW x
  PROVE  \E h \in [0..Len(s) -> Seq(E)] : Keeps(h, x, s) /\ Without(x, s) = h[Len(s)]
  <1> DEFINE N == Len(s)
             h == CHOOSE f : f = [n \in 0..N |-> IF n = 0 THEN <<>> ELSE (IF s[n] = x THEN f[n - 1] ELSE Append(f[n - 1], s[n]))]
  <1>1. Without(x, s) = h[N]
    BY DEF Without
  <1>2. N \in Nat /\ \A n \in 1..N : s[n] \in E
    BY LenProperties, ElementOfSeq
  <1> HIDE DEF N
  <1>3. <<>> \in Seq(E)
    OBVIOUS
  <1> DEFINE g == [n \in 1..N |-> [t \in Seq(E) |-> (IF s[n] = x THEN t ELSE Append(t, s[n]))]]
  <1>4. g \in [1..N -> [Seq(E) -> Seq(E)]]
    BY <1>2, AppendProperties
  <1>5. PICK f \in [0..N -> Seq(E)] : f[0] = <<>> /\ \A n \in 1..N : f[n] = g[n][f[n - 1]]
    <2> HIDE DEF g
    <2>1. Steps(N, Seq(E), <<>>, g) # {}
      BY <1>2, <1>3, <1>4, RecursionExists
    <2> QED
      BY <2>1 DEF Steps
  <1>6. \A n \in 1..N : f[n] = (IF s[n] = x THEN f[n - 1] ELSE Append(f[n - 1], s[n]))
    <2> TAKE n \in 1..N
    <2>1. f[n - 1] \in Seq(E)
      BY <1>2, <1>5
    <2> QED
      BY <1>5, <2>1
  <1>7. f = [n \in 0..N |-> IF n = 0 THEN <<>> ELSE (IF s[n] = x THEN f[n - 1] ELSE Append(f[n - 1], s[n]))]
    <2>1. f = [n \in 0..N |-> f[n]]
      BY <1>5
    <2>a. \A n \in 0..N : n = 0 \/ (n # 0 /\ n \in 1..N)
      BY <1>2
    <2>2. \A n \in 0..N : f[n] = IF n = 0 THEN <<>> ELSE (IF s[n] = x THEN f[n - 1] ELSE Append(f[n - 1], s[n]))
      BY <1>5, <1>6, <2>a, Zenon
    <2> QED
      BY <2>1, <2>2, Zenon
  <1>8. h = [n \in 0..N |-> IF n = 0 THEN <<>> ELSE (IF s[n] = x THEN h[n - 1] ELSE Append(h[n - 1], s[n]))]
    BY <1>7, Zenon
  <1> HIDE DEF h
  <1>9. \A n \in 0..N : h[n] = IF n = 0 THEN <<>> ELSE (IF s[n] = x THEN h[n - 1] ELSE Append(h[n - 1], s[n]))
    BY <1>8, Zenon
  <1>10. h[0] = <<>> /\ \A n \in 1..N : h[n] = (IF s[n] = x THEN h[n - 1] ELSE Append(h[n - 1], s[n]))
    BY <1>2, <1>9
  <1> DEFINE T == {n \in 0..N : h[n] = f[n]}
  <1>11. 0 \in T
    BY <1>2, <1>5, <1>10
  <1>12. \A n \in 0..(N - 1) : n \in T => n + 1 \in T
    <2> SUFFICES ASSUME NEW n \in 0..(N - 1), n \in T PROVE n + 1 \in T
      OBVIOUS
    <2>1. n + 1 \in 1..N /\ (n + 1) - 1 = n /\ n + 1 \in 0..N
      BY <1>2
    <2>2. h[n + 1] = (IF s[n + 1] = x THEN h[n] ELSE Append(h[n], s[n + 1])) /\ f[n + 1] = (IF s[n + 1] = x THEN f[n] ELSE Append(f[n], s[n + 1]))
      BY <1>6, <1>10, <2>1
    <2> QED
      BY <2>1, <2>2
  <1> HIDE DEF T
  <1>13. \A n \in 0..N : n \in T
    BY <1>2, <1>11, <1>12, IntervalInduction
  <1>14. \A n \in 0..N : h[n] = f[n]
    BY <1>13 DEF T
  <1>15. N \in 0..N
    BY <1>2
  <1> QED
    BY <1>1, <1>5, <1>6, <1>14, <1>15 DEF N, Keeps

\* A digit more.
LEMMA DigitMore ==
  ASSUME NEW a \in Nat, NEW b \in 48..57
  PROVE  LET m == 10 * a + (b - 48)
         IN /\ m \in Nat /\ m >= 10 * a /\ (a = 0 => m = b - 48) /\ (b # 48 => m >= 1)
            /\ (a >= 1 => m >= 10) /\ (a >= 10 => m >= 100)
  OBVIOUS

\* Values of digits.
LEMMA ValueFacts ==
  ASSUME NEW d \in Seq(Digit)
  PROVE  /\ Value(d) \in Nat
         /\ Len(d) = 1 => Value(d) = d[1] - 48
         /\ Len(d) = 2 => Value(d) = 10 * (d[1] - 48) + (d[2] - 48)
         /\ Len(d) >= 1 /\ d[1] # 48 => Value(d) >= 1
         /\ Len(d) >= 3 /\ d[1] # 48 => Value(d) >= 100
  <1> DEFINE N == Len(d)
  <1>1. N \in Nat /\ \A n \in 1..N : d[n] \in 48..57
    BY LenProperties, ElementOfSeq DEF Digit
  <1>2. PICK h \in [0..N -> Nat] :
           /\ h[0] = 0 /\ \A n \in 1..N : h[n] = 10 * h[n - 1] + (d[n] - 48)
           /\ Value(d) = h[N]
    BY ValueRecursion
  <1> HIDE DEF N
  <1>3. \A n \in 0..N : h[n] \in Nat
    BY <1>2
  <1>a. ASSUME NEW n \in 1..N
        PROVE  /\ h[n] = 10 * h[n - 1] + (d[n] - 48) /\ h[n - 1] \in Nat /\ d[n] \in 48..57
               /\ n - 1 \in 0..N /\ n \in Nat
    BY <1>1, <1>2
  <1>4. N >= 1 => h[1] = d[1] - 48
    <2> SUFFICES ASSUME N >= 1 PROVE h[1] = d[1] - 48
      OBVIOUS
    <2>1. 1 \in 1..N /\ 1 - 1 = 0
      BY <1>1
    <2>2. h[1] = 10 * h[0] + (d[1] - 48) /\ h[0] = 0 /\ d[1] \in 48..57
      BY <1>a, <1>2, <2>1
    <2> QED
      BY <2>2, DigitMore
  <1>5. N >= 2 => h[2] = 10 * (d[1] - 48) + (d[2] - 48)
    <2> SUFFICES ASSUME N >= 2 PROVE h[2] = 10 * (d[1] - 48) + (d[2] - 48)
      OBVIOUS
    <2>1. 2 \in 1..N /\ 2 - 1 = 1
      BY <1>1
    <2>2. h[2] = 10 * h[1] + (d[2] - 48)
      BY <1>2, <2>1
    <2> QED
      BY <1>1, <1>4, <2>2
  <1>6. ASSUME N >= 1, d[1] # 48
        PROVE  \A n \in 1..N : h[n] >= 1
    <2> DEFINE T == {n \in 0..N : n >= 1 => h[n] >= 1}
    <2>1. 0 \in T
      BY <1>1
    <2>2. \A n \in 0..(N - 1) : n \in T => n + 1 \in T
      <3> SUFFICES ASSUME NEW n \in 0..(N - 1), n \in T PROVE n + 1 \in T
        OBVIOUS
      <3>1. n + 1 \in 1..N /\ (n + 1) - 1 = n /\ n + 1 \in 0..N /\ n \in 0..N
        BY <1>1
      <3>2. h[n + 1] = 10 * h[n] + (d[n + 1] - 48) /\ h[n] \in Nat /\ d[n + 1] \in 48..57
        BY <1>1, <1>2, <1>3, <3>1
      <3>3. CASE n = 0
        <4>1. h[n + 1] >= 1
          BY <1>6, <3>2, <3>3, DigitMore
        <4> QED
          BY <3>1, <4>1
      <3>4. CASE n >= 1
        <4>1. h[n] >= 1
          BY <3>4
        <4>2. h[n + 1] >= 10
          BY <3>2, <4>1, DigitMore
        <4>3. h[n + 1] >= 1
          BY <1>3, <3>1, <4>2
        <4> QED
          BY <3>1, <4>3
      <3> QED
        BY <3>1, <3>3, <3>4
    <2> HIDE DEF T
    <2>3. \A n \in 0..N : n \in T
      BY <1>1, <2>1, <2>2, IntervalInduction
    <2> QED
      BY <1>1, <2>3 DEF T
  <1>7. ASSUME N >= 3, d[1] # 48
        PROVE  h[N] >= 100
    <2>1. N \in 1..N /\ N - 1 \in 1..N /\ N - 2 \in 1..N /\ (N - 1) - 1 = N - 2
      BY <1>1, <1>7
    <2>2. h[N] = 10 * h[N - 1] + (d[N] - 48) /\ h[N - 1] = 10 * h[N - 2] + (d[N - 1] - 48)
      BY <1>2, <2>1
    <2>3. h[N - 2] >= 1 /\ h[N - 2] \in Nat
      BY <1>1, <1>3, <1>6, <1>7, <2>1
    <2>4. d[N] \in 48..57 /\ d[N - 1] \in 48..57
      BY <1>1, <2>1
    <2>5. h[N - 1] >= 10 /\ h[N - 1] \in Nat
      BY <2>2, <2>3, <2>4, DigitMore, ZenonT(40)
    <2> QED
      BY <2>2, <2>4, <2>5, DigitMore
  <1>8. Value(d) = h[N] /\ N \in 0..N
    BY <1>1, <1>2
  <1>9. N >= 1 /\ d[1] # 48 => Value(d) >= 1
    BY <1>1, <1>6, <1>8
  <1>10. Value(d) \in Nat
    BY <1>3, <1>8
  <1>11. N = 1 => Value(d) = d[1] - 48
    BY <1>4, <1>8
  <1>12. N = 2 => Value(d) = 10 * (d[1] - 48) + (d[2] - 48)
    BY <1>5, <1>8
  <1>13. N >= 3 /\ d[1] # 48 => Value(d) >= 100
    BY <1>7, <1>8
  <1> QED
    BY <1>9, <1>10, <1>11, <1>12, <1>13 DEF N

\* Digits without a leading zero are the decimal form of their value.
LEMMA DecimalOfValue ==
  ASSUME NEW d \in Seq(Digit), d # <<>>, d[1] # 48, Value(d) <= 15
  PROVE  Value(d) \in 1..15 /\ d = Decimal(Value(d))
  <1>1. Len(d) \in Nat \ {0} /\ \A n \in 1..Len(d) : d[n] \in 48..57
    BY EmptySeq, LenProperties, ElementOfSeq DEF Digit
  <1>2. Value(d) \in 1..15 /\ (Len(d) = 1 \/ Len(d) = 2)
    <2> DEFINE v == Value(d)
               n == Len(d)
    <2>1. v \in Nat /\ v <= 15 /\ n \in Nat /\ n >= 1 /\ v >= 1 /\ ~(n >= 3)
      <3>1. v \in Nat /\ v <= 15 /\ n \in Nat /\ n >= 1
        BY <1>1, ValueFacts
      <3>2. v >= 1 /\ (n >= 3 => v >= 100)
        BY <3>1, ValueFacts
      <3> HIDE DEF v, n
      <3> QED
        BY <3>1, <3>2
    <2> HIDE DEF v, n
    <2>2. v \in 1..15 /\ (n = 1 \/ n = 2)
      BY <2>1
    <2> QED
      BY <2>2 DEF v, n
  <1>3. CASE Len(d) = 1
    <2>1. d = <<d[1]>> /\ d[1] \in 48..57 /\ Value(d) = d[1] - 48
      BY <1>1, <1>3, ValueFacts
    <2>2. Decimal(Value(d)) = <<48 + Value(d)>> /\ 48 + Value(d) = d[1]
      BY <2>1 DEF Decimal
    <2> QED
      BY <1>2, <2>1, <2>2
  <1>4. CASE Len(d) = 2
    <2>1. d = <<d[1], d[2]>> /\ d[1] \in 48..57 /\ d[2] \in 48..57
          /\ Value(d) = 10 * (d[1] - 48) + (d[2] - 48)
      BY <1>1, <1>4, ValueFacts
    <2>2. d[1] = 49 /\ Value(d) \div 10 = 1 /\ Value(d) % 10 = d[2] - 48 /\ ~(Value(d) < 10)
      <3>1. \A a \in 49..57, b \in 48..57 :
               10 * (a - 48) + (b - 48) <= 15 => a = 49
        OBVIOUS
      <3>2. \A b \in 48..57 : LET v == 10 * (49 - 48) + (b - 48)
                              IN v \div 10 = 1 /\ v % 10 = b - 48 /\ ~(v < 10)
        OBVIOUS
      <3>3. d[1] \in 49..57
        BY <2>1
      <3>4. d[1] = 49
        BY <2>1, <3>1, <3>3
      <3> QED
        BY <2>1, <3>2, <3>4
    <2>3. Decimal(Value(d)) = <<49, d[2]>>
      <3>1. Decimal(Value(d)) = <<48 + (Value(d) \div 10), 48 + (Value(d) % 10)>>
        BY <2>2 DEF Decimal
      <3>2. 48 + (Value(d) \div 10) = 49 /\ 48 + (Value(d) % 10) = d[2]
        BY <2>1, <2>2
      <3> QED
        BY <3>1, <3>2
    <2> QED
      BY <1>2, <2>1, <2>2, <2>3
  <1> QED
    BY <1>2, <1>3, <1>4

\* The decimal form of an SSID is digits with that value.
LEMMA ValueOfDecimal ==
  ASSUME NEW v \in 0..15
  PROVE  /\ Decimal(v) \in Seq(Digit) /\ Decimal(v) # <<>> /\ Decimal(v) \in Text
         /\ Value(Decimal(v)) = v
  <1>1. CASE v < 10
    <2>1. Decimal(v) = <<48 + v>>
      BY <1>1 DEF Decimal
    <2>2. Decimal(v) \in Seq(Digit) /\ Len(Decimal(v)) = 1 /\ Decimal(v)[1] = 48 + v /\ Decimal(v) \in Text
      BY <1>1, <2>1 DEF Digit, Text
    <2>3. Value(Decimal(v)) = (48 + v) - 48
      BY <2>2, ValueFacts
    <2> QED
      BY <2>1, <2>2, <2>3
  <1>2. CASE v >= 10
    <2>1. Decimal(v) = <<49, 38 + v>>
      BY <1>2 DEF Decimal
    <2>2. /\ Decimal(v) \in Seq(Digit) /\ Len(Decimal(v)) = 2 /\ Decimal(v) \in Text
          /\ Decimal(v)[1] = 49 /\ Decimal(v)[2] = 38 + v
      BY <1>2, <2>1 DEF Digit, Text
    <2>3. Value(Decimal(v)) = 10 * (49 - 48) + ((38 + v) - 48)
      BY <2>2, ValueFacts
    <2> QED
      BY <1>2, <2>1, <2>2, <2>3
  <1> QED
    BY <1>1, <1>2

\* Trailing blanks are dropped, and nothing else.
LEMMA WithoutTrailing ==
  ASSUME NEW U \in Text, NEW s \in Text, Len(U) <= Len(s), NEW x \in 0..127,
         \A i \in 1..Len(U) : U[i] # x,
         \A i \in 1..Len(s) : s[i] = IF i <= Len(U) THEN U[i] ELSE x
  PROVE  Without(x, s) = U
  <1>0. PICK L \in Nat : Len(U) <= L /\ Len(s) = L /\ \A i \in 1..L : s[i] = IF i <= Len(U) THEN U[i] ELSE x
    BY TextIsFunction
  <1>1. Len(U) \in Nat
    BY TextIsFunction
  <1>2. PICK h \in [0..Len(s) -> Seq(0..127)] :
          /\ h[0] = <<>>
          /\ \A n \in 1..Len(s) : h[n] = (IF s[n] = x THEN h[n - 1] ELSE Append(h[n - 1], s[n]))
          /\ Without(x, s) = h[Len(s)]
    <2> DEFINE S == 0..127
    <2>1. s \in Seq(S)
      BY DEF Text
    <2> HIDE DEF S
    <2>2. \E h \in [0..Len(s) -> Seq(S)] : Keeps(h, x, s) /\ Without(x, s) = h[Len(s)]
      BY <2>1, WithoutRecursion
    <2> QED
      BY <2>2 DEF S, Keeps
  <1> DEFINE T == {n \in 0..L : /\ Len(h[n]) = LesserOf(n, Len(U))
                                /\ \A i \in 1..LesserOf(n, Len(U)) : h[n][i] = U[i]}
  <1>3. 0 \in T
    <2>1. Len(h[0]) = 0
      BY <1>2
    <2>2. LesserOf(0, Len(U)) = 0
      BY <1>1 DEF LesserOf
    <2> QED
      BY <2>1, <2>2
  <1>4. ASSUME NEW n \in 0..(L - 1), n \in T
        PROVE  n + 1 \in T
    <2>1. n + 1 \in 1..L /\ (n + 1) - 1 = n /\ n + 1 \in 0..L /\ n \in 0..L
      OBVIOUS
    <2>2. h[n] \in Seq(0..127) /\ h[n + 1] = IF s[n + 1] = x THEN h[n] ELSE Append(h[n], s[n + 1])
      BY <1>0, <1>2, <2>1
    <2>3. Len(h[n]) = LesserOf(n, Len(U)) /\ \A i \in 1..LesserOf(n, Len(U)) : h[n][i] = U[i]
      BY <1>4
    <2>4. CASE n + 1 <= Len(U)
      <3>1. s[n + 1] = U[n + 1] /\ s[n + 1] # x /\ s[n + 1] \in 0..127
        <4>1. n + 1 \in 1..Len(U)
          BY <1>1, <2>1, <2>4
        <4> QED
          BY <1>0, <2>1, <2>4, <4>1, TextIsFunction
      <3>2. LesserOf(n, Len(U)) = n /\ LesserOf(n + 1, Len(U)) = n + 1
        BY <1>1, <2>4 DEF LesserOf
      <3> DEFINE S == 0..127
                 a == h[n]
                 b == Append(a, s[n + 1])
      <3>3. a \in Seq(S) /\ s[n + 1] \in S
        BY <2>2, <3>1
      <3> HIDE DEF S
      <3>4. /\ Len(a) \in Nat /\ Len(b) = Len(a) + 1 /\ b[Len(a) + 1] = s[n + 1]
            /\ \A i \in 1..Len(a) : b[i] = a[i]
        BY <3>3, OneMore
      <3>5. h[n + 1] = b /\ Len(a) = n
        BY <2>2, <2>3, <3>1, <3>2
      <3> HIDE DEF a, b
      <3>6. Len(b) = n + 1 /\ \A i \in 1..(n + 1) : b[i] = U[i]
        <4>1. \A i \in 1..n : b[i] = U[i]
          BY <2>3, <3>2, <3>4, <3>5 DEF a
        <4>2. b[n + 1] = U[n + 1]
          BY <3>1, <3>4, <3>5
        <4> QED
          BY <3>4, <3>5, <4>1, <4>2
      <3> QED
        BY <2>1, <3>2, <3>5, <3>6
    <2>5. CASE ~(n + 1 <= Len(U))
      <3>1. s[n + 1] = x
        BY <1>0, <2>1, <2>5
      <3>2. h[n + 1] = h[n]
        BY <2>2, <3>1
      <3>3. LesserOf(n + 1, Len(U)) = LesserOf(n, Len(U))
        BY <1>1, <2>5 DEF LesserOf
      <3> QED
        BY <2>1, <2>3, <3>2, <3>3
    <2> QED
      BY <2>4, <2>5
  <1>5. \A n \in 0..(L - 1) : n \in T => n + 1 \in T
    BY <1>4
  <1> HIDE DEF T
  <1>6. L \in T
    <2>1. \A n \in 0..L : n \in T
      BY <1>3, <1>5, IntervalInduction
    <2> QED
      BY <2>1
  <1>7. LesserOf(L, Len(U)) = Len(U)
    BY <1>0, <1>1 DEF LesserOf
  <1>8. h[L] \in Seq(0..127) /\ Len(h[L]) = Len(U) /\ \A i \in 1..Len(U) : h[L][i] = U[i]
    BY <1>0, <1>2, <1>6, <1>7 DEF T
  <1>9. h[L] = U
    BY <1>8, SeqEqual DEF Text
  <1> QED
    BY <1>0, <1>2, <1>9


---------------------------------------------------------------------------
(* Addresses: a stem of upper-case letters and digits, and an SSID.        *)

Stems == {u \in Text : Len(u) <= CallLen /\ \A i \in 1..Len(u) : u[i] \in Upper \cup Digit}
Addr(u, v) == [i \in 1..(CallLen + 1) |-> IF i <= Len(u) THEN 2 * u[i] ELSE IF i <= CallLen THEN 2 * Space ELSE 2 * v]
Written(u, v) == u \o (IF v = 0 THEN <<>> ELSE <<Dash>> \o Decimal(v))

\* A stem's characters.
LEMMA StemFacts ==
  ASSUME NEW u \in Stems
  PROVE  /\ u \in Text /\ Len(u) \in Nat /\ Len(u) <= CallLen /\ CallLen \in Nat /\ CallLen >= 1
         /\ \A i \in 1..Len(u) : u[i] \in 48..90 /\ u[i] \in Upper \cup Digit /\ u[i] # Space /\ u[i] # Dash
                                 /\ ToUpper(u[i]) = u[i]
  <1>1. u \in Text /\ Len(u) <= CallLen /\ \A i \in 1..Len(u) : u[i] \in Upper \cup Digit
    BY DEF Stems
  <1>2. \A c \in Upper \cup Digit : c \in 48..90 /\ c # Space /\ c # Dash /\ ToUpper(c) = c
    BY DEF Upper, Digit, Space, Dash, ToUpper, Lower
  <1> QED
    BY <1>1, <1>2, TextIsFunction, SizesAssumption DEF SizesAssumption

\* The two parts of an address.
LEMMA AddrParts ==
  ASSUME NEW u \in Stems, NEW v \in 0..15
  PROVE  LET a == Addr(u, v)
         IN /\ a # NoEntry
            /\ \A i \in 1..CallLen : /\ a[i] \div 2 = IF i <= Len(u) THEN u[i] ELSE Space
                                     /\ CharAt(a, i) = IF i <= Len(u) THEN u[i] ELSE Space
            /\ a[CallLen + 1] = 2 * v /\ Ssid(a) = v
  <1> DEFINE a == Addr(u, v)
  <1>1. /\ u \in Text /\ Len(u) \in Nat /\ Len(u) <= CallLen /\ CallLen \in Nat /\ CallLen >= 1
        /\ \A i \in 1..Len(u) : u[i] \in 48..90
    BY StemFacts
  <1>2. DOMAIN a = 1..(CallLen + 1)
    BY DEF Addr
  <1>3. a # NoEntry
    BY <1>1, <1>2 DEF NoEntry
  <1>4. ASSUME NEW i \in 1..CallLen
        PROVE  LET c == IF i <= Len(u) THEN u[i] ELSE Space
               IN a[i] = 2 * c /\ c \in 32..90
    BY <1>1 DEF Addr, Space
  <1>5. \A c \in 32..90 : (2 * c) \div 2 = c /\ ((2 * c) \div 2) % 128 = c
    OBVIOUS
  <1>6. a[CallLen + 1] = 2 * v
    BY <1>1 DEF Addr
  <1>7. ((2 * v) \div 2) % 16 = v
    OBVIOUS
  <1> HIDE DEF a
  <1>8. Ssid(a) = v
    BY <1>6, <1>7 DEF Ssid
  <1>9. ASSUME NEW i \in 1..CallLen
        PROVE  /\ a[i] \div 2 = IF i <= Len(u) THEN u[i] ELSE Space
               /\ CharAt(a, i) = IF i <= Len(u) THEN u[i] ELSE Space
    <2> DEFINE c == IF i <= Len(u) THEN u[i] ELSE Space
    <2>1. a[i] = 2 * c /\ c \in 32..90
      BY <1>4
    <2> HIDE DEF c
    <2>2. a[i] \div 2 = c /\ (a[i] \div 2) % 128 = c
      BY <1>5, <2>1
    <2> QED
      BY <2>2 DEF CharAt, c
  <1> QED
    BY <1>3, <1>6, <1>8, <1>9 DEF a

\* ax25_ntoa writes the stem and the SSID.
LEMMA DecodeAddr ==
  ASSUME NEW u \in Stems, NEW v \in 0..15
  PROVE  DecodeEntry(Addr(u, v)) = Written(u, v)
  <1> DEFINE a == Addr(u, v)
             s == [i \in 1..CallLen |-> CharAt(a, i)]
  <1>1. /\ Ssid(a) = v
        /\ \A i \in 1..CallLen : CharAt(a, i) = IF i <= Len(u) THEN u[i] ELSE Space
    BY AddrParts
  <1>2. /\ u \in Text /\ Len(u) \in Nat /\ Len(u) <= CallLen /\ CallLen \in Nat
        /\ \A i \in 1..Len(u) : u[i] \in 48..90 /\ u[i] # Space
    BY StemFacts
  <1>3. DecodeEntry(a) = Without(Space, s) \o (IF v = 0 THEN <<>> ELSE <<Dash>> \o Decimal(v))
    BY <1>1 DEF DecodeEntry
  <1> HIDE DEF a
  <1>4. s \in [1..CallLen -> 0..127] /\ \A i \in 1..CallLen : s[i] = IF i <= Len(u) THEN u[i] ELSE Space
    <2>1. ASSUME NEW i \in 1..CallLen PROVE CharAt(a, i) \in 0..127
      <3>1. CASE i <= Len(u)
        <4>1. i \in 1..Len(u)
          BY <1>2, <3>1
        <4>2. CharAt(a, i) \in 48..90
          BY <1>1, <1>2, <3>1, <4>1
        <4> QED
          BY <4>2
      <3>2. CASE ~(i <= Len(u))
        BY <1>1, <3>2 DEF Space
      <3> QED
        BY <3>1, <3>2
    <2> QED
      BY <1>1, <2>1
  <1> HIDE DEF s
  <1>5. s \in Text /\ Len(s) = CallLen
    BY <1>2, <1>4, FunctionIsText
  <1>6. Space \in 0..127
    BY DEF Space
  <1>7. Without(Space, s) = u
    <2> DEFINE x == Space
    <2>1. /\ x \in 0..127 /\ \A i \in 1..Len(u) : u[i] # x
          /\ \A i \in 1..CallLen : s[i] = IF i <= Len(u) THEN u[i] ELSE x
      BY <1>2, <1>4, <1>6
    <2> HIDE DEF x
    <2>2. Without(x, s) = u
      BY <1>2, <1>5, <2>1, WithoutTrailing
    <2> QED
      BY <2>2 DEF x
  <1> QED
    BY <1>3, <1>7 DEF Written, a

\* Addresses are the same only for the same stem and SSID.
LEMMA AddrSame ==
  ASSUME NEW u \in Stems, NEW w \in Stems, NEW v \in 0..15, NEW z \in 0..15
  PROVE  CmpEntry(Addr(u, v), Addr(w, z)) = 0 <=> u = w /\ v = z
  <1> DEFINE a == Addr(u, v)
             b == Addr(w, z)
  <1>1. /\ Ssid(a) = v /\ Ssid(b) = z
        /\ \A i \in 1..CallLen : a[i] \div 2 = IF i <= Len(u) THEN u[i] ELSE Space
        /\ \A i \in 1..CallLen : b[i] \div 2 = IF i <= Len(w) THEN w[i] ELSE Space
    BY AddrParts
  <1> HIDE DEF a, b
  <1>2. CmpEntry(a, b) = 0 <=> v = z /\ \A i \in 1..CallLen : a[i] \div 2 = b[i] \div 2
    BY <1>1 DEF CmpEntry
  <1>3. /\ u \in Text /\ Len(u) \in Nat /\ Len(u) <= CallLen /\ CallLen \in Nat
        /\ \A i \in 1..Len(u) : u[i] # Space
        /\ w \in Text /\ Len(w) \in Nat /\ Len(w) <= CallLen
        /\ \A i \in 1..Len(w) : w[i] # Space
    BY StemFacts
  <1>4. u = w => \A i \in 1..CallLen : a[i] \div 2 = b[i] \div 2
    BY <1>1
  <1>5. ASSUME \A i \in 1..CallLen : a[i] \div 2 = b[i] \div 2
        PROVE  u = w
    <2>1. ~(Len(u) < Len(w))
      <3> SUFFICES ASSUME Len(u) < Len(w) PROVE FALSE
        OBVIOUS
      <3>1. Len(u) + 1 \in 1..CallLen /\ Len(u) + 1 \in 1..Len(w) /\ ~(Len(u) + 1 <= Len(u))
        BY <1>3
      <3> QED
        BY <1>1, <1>3, <1>5, <3>1
    <2>2. ~(Len(w) < Len(u))
      <3> SUFFICES ASSUME Len(w) < Len(u) PROVE FALSE
        OBVIOUS
      <3>1. Len(w) + 1 \in 1..CallLen /\ Len(w) + 1 \in 1..Len(u) /\ ~(Len(w) + 1 <= Len(w))
        BY <1>3
      <3> QED
        BY <1>1, <1>3, <1>5, <3>1
    <2>3. Len(u) = Len(w)
      BY <1>3, <2>1, <2>2
    <2>4. \A i \in 1..Len(u) : u[i] = w[i]
      BY <1>1, <1>3, <1>5, <2>3
    <2> QED
      BY <1>3, <2>3, <2>4, SeqEqual DEF Text
  <1> QED
    BY <1>2, <1>4, <1>5 DEF a, b

\* A text up to its first dash, and after it.
LEMMA BaseParts ==
  ASSUME NEW s \in Text
  PROVE  LET dash == FirstIn({Dash}, s, 1)
         IN /\ dash \in 1..(Len(s) + 1) /\ (HasDash(s) <=> dash <= Len(s))
            /\ dash <= Len(s) => s[dash] = Dash
            /\ Base(s) \in Text /\ Len(Base(s)) = dash - 1
            /\ \A i \in 1..(dash - 1) : Base(s)[i] = s[i] /\ s[i] # Dash
            /\ dash <= Len(s) => /\ SsidText(s) \in Text /\ Len(SsidText(s)) = Len(s) - dash
                                 /\ \A i \in 1..(Len(s) - dash) : SsidText(s)[i] = s[dash + i]
  <1> DEFINE dash == FirstIn({Dash}, s, 1)
  <1>1. Len(s) \in Nat /\ DOMAIN s = 1..Len(s)
    BY TextIsFunction
  <1>2. /\ dash \in 1..(Len(s) + 1)
        /\ \A k \in 1..Len(s) : k < dash => s[k] \notin {Dash}
        /\ dash <= Len(s) => s[dash] \in {Dash}
    <2>1. 1 \in 1..(Len(s) + 1)
      BY <1>1
    <2> QED
      BY <2>1, FirstInPlace
  <1>3. Base(s) = SubSeq(s, 1, dash - 1) /\ SsidText(s) = SubSeq(s, dash + 1, Len(s))
    BY DEF Base, SsidText
  <1> HIDE DEF dash
  <1>4. HasDash(s) <=> dash <= Len(s)
    <2>1. HasDash(s) <=> \E i \in 1..Len(s) : s[i] = Dash
      BY <1>1 DEF HasDash, ToSet
    <2>2. dash \in Nat
      BY <1>1, <1>2
    <2>3. dash <= Len(s) => dash \in 1..Len(s) /\ s[dash] = Dash
      BY <1>1, <1>2
    <2>4. ASSUME NEW i \in 1..Len(s), s[i] = Dash PROVE dash <= Len(s)
      BY <1>1, <1>2, <2>2, <2>4
    <2> QED
      BY <2>1, <2>3, <2>4
  <1>5. 1 \in 1..(Len(s) + 1) /\ dash - 1 \in 0..Len(s)
    BY <1>1, <1>2
  <1>6. /\ Base(s) \in Text /\ Len(Base(s)) = IF 1 <= dash - 1 THEN dash - 1 - 1 + 1 ELSE 0
        /\ \A i \in 1..(dash - 1 - 1 + 1) : Base(s)[i] = s[1 + i - 1]
    BY <1>3, <1>5, TextPart
  <1>7. Len(Base(s)) = dash - 1 /\ \A i \in 1..(dash - 1) : Base(s)[i] = s[i] /\ s[i] # Dash
    <2>1. dash \in Nat /\ dash >= 1
      BY <1>1, <1>2
    <2>2. Len(Base(s)) = dash - 1
      BY <1>6, <2>1
    <2>3. ASSUME NEW i \in 1..(dash - 1)
          PROVE  Base(s)[i] = s[i] /\ s[i] # Dash
      <3>1. i \in 1..(dash - 1 - 1 + 1) /\ 1 + i - 1 = i /\ i \in 1..Len(s) /\ i < dash
        BY <1>1, <1>2
      <3> QED
        BY <1>2, <1>6, <3>1
    <2> QED
      BY <2>2, <2>3
  <1>8. ASSUME dash <= Len(s)
        PROVE  /\ SsidText(s) \in Text /\ Len(SsidText(s)) = Len(s) - dash
               /\ \A i \in 1..(Len(s) - dash) : SsidText(s)[i] = s[dash + i]
    <2>1. dash + 1 \in 1..(Len(s) + 1) /\ Len(s) \in 0..Len(s) /\ dash \in Nat
      BY <1>1, <1>2, <1>8
    <2>2. /\ SsidText(s) \in Text
          /\ Len(SsidText(s)) = IF dash + 1 <= Len(s) THEN Len(s) - (dash + 1) + 1 ELSE 0
          /\ \A i \in 1..(Len(s) - (dash + 1) + 1) : SsidText(s)[i] = s[dash + 1 + i - 1]
      BY <1>3, <2>1, TextPart
    <2>3. Len(SsidText(s)) = Len(s) - dash
      <3> DEFINE n == Len(s)
      <3>1. /\ Len(SsidText(s)) = (IF dash + 1 <= n THEN n - (dash + 1) + 1 ELSE 0)
            /\ n \in Nat /\ dash \in Nat /\ dash <= n
        BY <1>1, <1>8, <2>1, <2>2
      <3> HIDE DEF n
      <3>2. Len(SsidText(s)) = n - dash
        BY <3>1
      <3> QED
        BY <3>2 DEF n
    <2>4. \A i \in 1..(Len(s) - dash) : i \in 1..(Len(s) - (dash + 1) + 1) /\ dash + 1 + i - 1 = dash + i
      BY <1>1, <2>1
    <2> QED
      BY <2>2, <2>3, <2>4
  <1> QED
    BY <1>2, <1>4, <1>6, <1>7, <1>8 DEF dash


\* Shifted characters and the SSID octet are such an address.
LEMMA ShiftedIsAddr ==
  ASSUME NEW s \in Text, NEW u \in Text, Len(u) <= Len(s), Len(u) <= CallLen,
         \A i \in 1..Len(u) : u[i] = ToUpper(s[i]), NEW v \in 0..15
  PROVE  Append(ShiftedCall(s, Len(u)), SsidByte(v)) = Addr(u, v)
  <1> DEFINE n == Len(u)
             c == ShiftedCall(s, n)
             b == SsidByte(v)
             a == Addr(u, v)
  <1>1. n \in Nat /\ n <= CallLen /\ CallLen \in Nat /\ \A i \in 1..n : u[i] \in 0..127
    BY TextIsFunction, SizesAssumption DEF SizesAssumption
  <1>2. \A i \in 1..CallLen : c[i] = IF i <= n THEN 2 * u[i] ELSE 2 * Space
    <2> TAKE i \in 1..CallLen
    <2>1. i <= n => i \in 1..n
      BY <1>1
    <2>2. c[i] = 2 * (IF i <= n THEN ToUpper(s[i]) ELSE Space)
      BY DEF ShiftedCall
    <2> QED
      BY <2>1, <2>2
  <1>3. b = 2 * v
    BY DEF SsidByte
  <1>4. /\ DOMAIN a = 1..(CallLen + 1) /\ a[CallLen + 1] = 2 * v
        /\ \A i \in 1..CallLen : a[i] = IF i <= n THEN 2 * u[i] ELSE 2 * Space
    BY <1>1 DEF Addr
  <1>5. DOMAIN c = 1..CallLen /\ c = [i \in 1..CallLen |-> c[i]]
    BY DEF ShiftedCall
  <1>6. a = [i \in 1..(CallLen + 1) |-> a[i]]
    BY DEF Addr
  <1> HIDE DEF a, b, c, n
  <1>7. \A i \in 1..CallLen : c[i] \in Nat /\ a[i] = c[i]
    <2> TAKE i \in 1..CallLen
    <2>1. CASE i <= n
      <3>1. u[i] \in 0..127
        BY <1>1, <2>1
      <3>2. 2 * u[i] \in Nat
        <4>1. \A x \in 0..127 : 2 * x \in Nat
          OBVIOUS
        <4> QED
          BY <3>1, <4>1
      <3>3. c[i] = 2 * u[i] /\ a[i] = 2 * u[i]
        BY <1>2, <1>4, <2>1
      <3> QED
        BY <3>2, <3>3
    <2>2. CASE ~(i <= n)
      BY <1>2, <1>4, <2>2 DEF Space
    <2> QED
      BY <2>1, <2>2
  <1>8. \A i \in 1..(CallLen + 1) : i \in 1..CallLen \/ i = CallLen + 1
    BY <1>1
  <1>9. c \in [1..CallLen -> Nat] /\ b \in Nat
    BY <1>3, <1>5, <1>7
  <1>10. a \in [1..(CallLen + 1) -> Nat]
    <2>1. \A i \in 1..(CallLen + 1) : a[i] \in Nat
      <3>1. 2 * v \in Nat
        OBVIOUS
      <3> QED
        BY <1>4, <1>7, <1>8, <3>1
    <2> QED
      BY <1>6, <2>1
  <1>11. c \in Seq(Nat) /\ Len(c) = CallLen /\ a \in Seq(Nat) /\ Len(a) = CallLen + 1
    <2>1. CallLen + 1 \in Nat
      BY <1>1
    <2> QED
      BY <1>1, <1>9, <1>10, <2>1, FunctionIsSeq
  <1> DEFINE e == Append(c, b)
  <1>12. /\ e \in Seq(Nat) /\ Len(e) = CallLen + 1 /\ e[CallLen + 1] = b
         /\ \A i \in 1..CallLen : e[i] = c[i]
    BY <1>9, <1>11, OneMore
  <1> HIDE DEF e
  <1>13. \A i \in 1..(CallLen + 1) : e[i] = a[i]
    BY <1>3, <1>4, <1>7, <1>8, <1>12
  <1>14. e = a
    BY <1>11, <1>12, <1>13, SeqEqual
  <1> QED
    BY <1>14 DEF a, b, c, e, n

\* What ax25_aton_entry takes, and the address it makes of it.
LEMMA EncodeShape ==
  ASSUME NEW s \in Text
  PROVE  LET n == Stem(s)
             ssid == IF n = Len(s) THEN <<0>> ELSE ScanInt(SubSeq(s, n + 2, Len(s)))
             u == Strupr(SubSeq(s, 1, n))
         IN /\ n \in 0..Len(s) /\ n <= CallLen /\ u \in Text /\ Len(u) = n
            /\ (\A i \in 1..n : s[i] \in Alnum) => u \in Stems
            /\ EncodeEntry(s) = IF /\ \A i \in 1..n : s[i] \in Alnum
                                   /\ ssid # <<>> /\ SsidInRange(ssid[1])
                                THEN Addr(u, ssid[1]) ELSE NoEntry
  <1> DEFINE dash == FirstIn({Dash}, s, 1)
             n == Stem(s)
             ssid == IF n = Len(s) THEN <<0>> ELSE ScanInt(SubSeq(s, n + 2, Len(s)))
             p == SubSeq(s, 1, n)
             u == Strupr(p)
             ok == (\A i \in 1..n : s[i] \in Alnum) /\ ssid # <<>> /\ SsidInRange(ssid[1])
  <1>1. Len(s) \in Nat /\ CallLen \in Nat /\ dash \in 1..(Len(s) + 1)
    BY TextIsFunction, BaseParts, SizesAssumption DEF SizesAssumption
  <1>2. n \in 0..Len(s) /\ n <= CallLen
    <2> HIDE DEF dash
    <2>1. n = LesserOf(CallLen, dash - 1)
      BY DEF Stem, dash
    <2> HIDE DEF n
    <2> QED
      BY <1>1, <2>1 DEF LesserOf
  <1>3. EncodeEntry(s) = IF ok THEN Append(ShiftedCall(s, n), SsidByte(ssid[1])) ELSE NoEntry
    BY DEF EncodeEntry
  <1> HIDE DEF n, ssid, dash
  <1>4. /\ p \in Text /\ Len(p) = IF 1 <= n THEN n - 1 + 1 ELSE 0
        /\ \A i \in 1..(n - 1 + 1) : p[i] = s[1 + i - 1]
    BY <1>1, <1>2, TextPart
  <1>5. p \in Text /\ Len(p) = n /\ \A i \in 1..n : p[i] = s[i]
    BY <1>1, <1>2, <1>4
  <1> HIDE DEF p
  <1>6. u \in Text /\ Len(u) = n /\ \A i \in 1..n : u[i] = ToUpper(s[i])
    BY <1>5, StruprText
  <1> HIDE DEF u
  <1>7. ok => Append(ShiftedCall(s, n), SsidByte(ssid[1])) = Addr(u, ssid[1])
    <2> SUFFICES ASSUME ok PROVE Append(ShiftedCall(s, n), SsidByte(ssid[1])) = Addr(u, ssid[1])
      OBVIOUS
    <2>1. ssid[1] \in 0..15
      BY DEF SsidInRange
    <2>2. Len(u) <= Len(s) /\ Len(u) <= CallLen /\ \A i \in 1..Len(u) : u[i] = ToUpper(s[i])
      BY <1>1, <1>2, <1>6
    <2> QED
      BY <1>6, <2>1, <2>2, ShiftedIsAddr
  <1>8. ASSUME \A i \in 1..n : s[i] \in Alnum PROVE u \in Stems
    <2>1. \A x \in Alnum : ToUpper(x) \in Upper \cup Digit
      BY DEF Alnum, ToUpper, Upper, Lower, Digit
    <2>2. \A i \in 1..Len(u) : u[i] \in Upper \cup Digit
      BY <1>6, <1>8, <2>1
    <2> QED
      BY <1>2, <1>6, <2>2 DEF Stems
  <1>9. EncodeEntry(s) = IF ok THEN Addr(u, ssid[1]) ELSE NoEntry
    BY <1>3, <1>7
  <1> QED
    BY <1>2, <1>6, <1>8, <1>9 DEF n, ssid, p, u

\* 32-bit values.
LEMMA AsI32Small ==
  ASSUME NEW x \in Nat, x < IntMod
  PROVE  (x <= 15 \/ AsI32(x) \in 0..15) => AsI32(x) = x
  <1> DEFINE H == IntMod \div 2
  <1>1. H \in Nat /\ IntMod = 2 * H /\ H >= 16
    BY SizesAssumption DEF SizesAssumption
  <1>2. AsI32(x) = ((x + H) % (2 * H)) - H
    BY <1>1 DEF AsI32
  <1> HIDE DEF H
  <1>3. CASE x < H
    <2>1. (x + H) % (2 * H) = x + H
      BY <1>1, <1>3
    <2> QED
      BY <1>1, <1>2, <2>1
  <1>4. CASE x >= H
    <2>1. (x + H) % (2 * H) = x - H
      BY <1>1, <1>4
    <2>2. AsI32(x) = x - 2 * H /\ x - 2 * H < 0
      BY <1>1, <1>2, <2>1
    <2> QED
      BY <1>1, <1>4, <2>2
  <1> QED
    BY <1>1, <1>3, <1>4

\* Digits are a text.
LEMMA DigitsText ==
  ASSUME NEW d \in Seq(Digit)
  PROVE  d \in Text
  <1>1. Len(d) \in Nat /\ d \in [1..Len(d) -> Digit]
    BY LenProperties
  <1>2. d \in [1..Len(d) -> 0..127]
    BY <1>1 DEF Digit
  <1> QED
    BY <1>1, <1>2, FunctionIsText

\* Texts of digits only.
LEMMA TextOfDigits ==
  ASSUME NEW d \in Text
  PROVE  ToSet(d) \subseteq Digit <=> d \in Seq(Digit)
  <1>1. Len(d) \in Nat /\ DOMAIN d = 1..Len(d)
    BY TextIsFunction
  <1>2. ToSet(d) \subseteq Digit <=> \A i \in 1..Len(d) : d[i] \in Digit
    BY <1>1 DEF ToSet
  <1>3. d \in Seq(Digit) => \A i \in 1..Len(d) : d[i] \in Digit
    BY ElementOfSeq
  <1>4. ASSUME \A i \in 1..Len(d) : d[i] \in Digit PROVE d \in Seq(Digit)
    <2>1. d = [i \in 1..Len(d) |-> d[i]]
      BY <1>1, LenProperties DEF Text
    <2>2. d \in [1..Len(d) -> Digit]
      BY <1>4, <2>1
    <2> QED
      BY <1>1, <2>2, FunctionIsSeq
  <1> QED
    BY <1>2, <1>3, <1>4

\* sscanf of digits only.
LEMMA ScanDigits ==
  ASSUME NEW d \in Seq(Digit), d # <<>>
  PROVE  ScanInt(d) = <<AsI32(Value(d))>>
  <1>1. d \in Text /\ Len(d) \in Nat \ {0} /\ \A i \in 1..Len(d) : d[i] \in Digit
    BY DigitsText, EmptySeq, LenProperties, ElementOfSeq
  <1>2. 1 \in 1..(Len(d) + 1) /\ 1 \in 1..Len(d)
    BY <1>1
  <1> DEFINE at == FirstNotIn({9, Space}, d, 1)
             end == FirstNotIn(Digit, d, 1)
  <1>3. at = 1
    <2>1. /\ at \in 1..(Len(d) + 1) /\ \A k \in 1..Len(d) : k < at => d[k] \in {9, Space}
      BY <1>1, <1>2, FirstNotInPlace
    <2>2. d[1] \notin {9, Space}
      BY <1>1, <1>2 DEF Digit, Space
    <2> HIDE DEF at
    <2>3. ~(1 < at)
      BY <1>2, <2>1, <2>2
    <2> QED
      BY <1>1, <2>1, <2>3
  <1>4. end = Len(d) + 1
    <2>1. end \in 1..(Len(d) + 1) /\ (end <= Len(d) => d[end] \notin Digit)
      BY <1>1, <1>2, FirstNotInPlace
    <2> HIDE DEF end
    <2> QED
      BY <1>1, <2>1
  <1>5. d[1] \notin {Plus, Dash}
    BY <1>1, <1>2 DEF Digit, Plus, Dash
  <1>6. SubSeq(d, 1, Len(d)) = d
    BY SubSeqFull
  <1>7. SubSeq(d, 1, end - 1) = d
    <2>1. end - 1 = Len(d)
      BY <1>1, <1>4
    <2> HIDE DEF end
    <2> QED
      BY <1>6, <2>1
  <1> HIDE DEF at
  <1>8. ScanInt(d) = <<AsI32(Value(SubSeq(d, 1, end - 1)))>>
    <2>1. ~(at <= Len(d) /\ d[at] \in {Plus, Dash})
      BY <1>3, <1>5
    <2> DEFINE digits == SubSeq(d, 1, end - 1)
    <2>2. digits # <<>>
      BY <1>7
    <2> QED
      BY <1>3, <2>1, <2>2 DEF ScanInt, at
  <1> QED
    BY <1>7, <1>8


\* The SSID of a callsign.
SsidOf(t) == IF HasDash(t) THEN Value(SsidText(t)) ELSE 0

\* Both copies of the conversion make the same address of a callsign, and its
\* canonical form is what the address is written as.
LEMMA CallsignParts ==
  ASSUME NEW s \in Text, IsCallsign(s)
  PROVE  /\ Strupr(Base(s)) \in Stems /\ SsidOf(s) \in 0..15
         /\ EncodeEntry(s) = Addr(Strupr(Base(s)), SsidOf(s))
         /\ Encode(s) = Addr(Strupr(Base(s)), SsidOf(s))
         /\ Canonical(s) = Written(Strupr(Base(s)), SsidOf(s))
  <1> DEFINE dash == FirstIn({Dash}, s, 1)
             d == SsidText(s)
             u == Strupr(Base(s))
             v == SsidOf(s)
             n == Stem(s)
  <1>1. /\ dash \in 1..(Len(s) + 1) /\ (HasDash(s) <=> dash <= Len(s))
        /\ Base(s) \in Text /\ Len(Base(s)) = dash - 1
        /\ \A i \in 1..(dash - 1) : Base(s)[i] = s[i]
        /\ dash <= Len(s) => d \in Text
    BY BaseParts
  <1>2. Len(s) \in Nat /\ CallLen \in Nat
    BY TextIsFunction, SizesAssumption DEF SizesAssumption
  <1>3. dash - 1 <= CallLen /\ ToSet(Base(s)) \subseteq Alnum
    BY <1>1 DEF IsCallsign
  <1>4. \A i \in 1..(dash - 1) : s[i] \in Alnum
    <2>1. DOMAIN Base(s) = 1..(dash - 1)
      BY <1>1, TextIsFunction
    <2> QED
      BY <1>1, <1>3, <2>1 DEF ToSet
  <1>5. n = dash - 1 /\ (n = Len(s) <=> ~HasDash(s)) /\ n + 2 = dash + 1
    <2>1. n = LesserOf(CallLen, dash - 1)
      BY DEF Stem
    <2> HIDE DEF n, dash
    <2>2. n = dash - 1
      BY <1>1, <1>2, <1>3, <2>1 DEF LesserOf
    <2> QED
      BY <1>1, <1>2, <2>2
  <1>6. SubSeq(s, 1, n) = Base(s) /\ SubSeq(s, n + 2, Len(s)) = d
    <2> HIDE DEF n
    <2> QED
      BY <1>5 DEF Base, SsidText
  <1>7. HasDash(s) => d \in Seq(Digit) /\ d # <<>> /\ Value(d) \in 0..15
    <2> SUFFICES ASSUME HasDash(s) PROVE d \in Seq(Digit) /\ d # <<>> /\ Value(d) \in 0..15
      OBVIOUS
    <2>1. d # <<>> /\ ToSet(d) \subseteq Digit /\ Value(d) <= 15
      BY DEF IsCallsign
    <2>2. d \in Text
      BY <1>1
    <2> HIDE DEF d
    <2>3. d \in Seq(Digit)
      BY <2>1, <2>2, TextOfDigits
    <2>4. Value(d) \in Nat
      BY <2>3, ValueFacts
    <2> QED
      BY <2>1, <2>3, <2>4
  <1>8. v \in 0..15
    BY <1>7 DEF SsidOf
  <1> DEFINE ssid == IF n = Len(s) THEN <<0>> ELSE ScanInt(SubSeq(s, n + 2, Len(s)))
  <1>9. ssid = <<v>>
    <2> HIDE DEF n, d
    <2>1. CASE HasDash(s)
      <3>1. ssid = ScanInt(d) /\ v = Value(d)
        BY <1>5, <1>6, <2>1 DEF SsidOf, d
      <3>2. ScanInt(d) = <<AsI32(Value(d))>>
        BY <1>7, <2>1, ScanDigits
      <3>3. AsI32(Value(d)) = Value(d)
        <4>1. Value(d) \in Nat /\ Value(d) <= 15 /\ Value(d) < IntMod
          BY <1>7, <2>1, SizesAssumption DEF SizesAssumption
        <4> QED
          BY <4>1, AsI32Small
      <3> QED
        BY <3>1, <3>2, <3>3
    <2>2. CASE ~HasDash(s)
      BY <1>5, <2>2 DEF SsidOf
    <2> QED
      BY <2>1, <2>2
  <1>10. /\ (\A i \in 1..n : s[i] \in Alnum) => Strupr(SubSeq(s, 1, n)) \in Stems
         /\ EncodeEntry(s) = IF /\ \A i \in 1..n : s[i] \in Alnum
                                /\ ssid # <<>> /\ SsidInRange(ssid[1])
                             THEN Addr(Strupr(SubSeq(s, 1, n)), ssid[1]) ELSE NoEntry
    BY EncodeShape
  <1>11. \A i \in 1..n : s[i] \in Alnum
    <2> HIDE DEF n, dash
    <2> QED
      BY <1>4, <1>5
  <1> HIDE DEF n, ssid, v, d, dash
  <1>12. u \in Stems /\ EncodeEntry(s) = Addr(u, v)
    <2>1. u \in Stems
      BY <1>6, <1>10, <1>11
    <2>2. ssid # <<>> /\ ssid[1] = v /\ SsidInRange(v)
      BY <1>8, <1>9 DEF SsidInRange
    <2>3. EncodeEntry(s) = Addr(Strupr(SubSeq(s, 1, n)), ssid[1])
      BY <1>10, <1>11, <2>2
    <2> QED
      BY <1>6, <2>1, <2>2, <2>3
  <1>13. Encode(s) = Addr(u, v)
    <2> DEFINE base == SubSeq(s, 1, dash - 1)
               z == IF dash > Len(s) THEN 0 ELSE ParseU8(SubSeq(s, dash + 1, Len(s))) % 16
               L == CallLen
    <2>1. Encode(s) = [i \in 1..(L + 1) |->
                         IF i > L THEN 2 * z
                         ELSE (2 * (IF i <= Len(base) THEN ToUpper(base[i]) ELSE Space)) % 256]
      BY DEF Encode, dash
    <2>2. base = Base(s)
      BY DEF Base, dash
    <2>3. z = v
      <3>1. CASE HasDash(s)
        <4>1. ~(dash > Len(s)) /\ SubSeq(s, dash + 1, Len(s)) = d /\ v = Value(d)
          BY <1>1, <1>2, <3>1 DEF SsidText, SsidOf, d, dash, v
        <4>2. d \in Seq(Digit) /\ d # <<>> /\ Value(d) \in 0..15
          BY <1>7, <3>1
        <4>3. d[1] # Plus /\ ToSet(d) \subseteq Digit
          <5>1. d \in Text /\ Len(d) \in Nat \ {0}
            BY <4>2, DigitsText, EmptySeq, LenProperties
          <5>2. d[1] \in Digit
            BY <4>2, <5>1, ElementOfSeq
          <5> QED
            BY <4>2, <5>1, <5>2, TextOfDigits DEF Digit, Plus
        <4>4. ParseU8(d) = Value(d)
          BY <4>2, <4>3 DEF ParseU8
        <4>5. \A x \in 0..15 : x % 16 = x
          OBVIOUS
        <4> QED
          BY <4>1, <4>2, <4>4, <4>5
      <3>2. CASE ~HasDash(s)
        BY <1>1, <1>2, <3>2 DEF SsidOf, v
      <3> QED
        BY <3>1, <3>2
    <2>4. /\ Len(u) = Len(Base(s)) /\ \A i \in 1..Len(Base(s)) : u[i] = ToUpper(Base(s)[i])
          /\ Len(u) \in Nat /\ Len(u) <= L /\ \A i \in 1..Len(u) : u[i] \in 48..90
      BY <1>1, <1>12, StruprText, StemFacts
    <2> HIDE DEF z, base, u
    <2>5. ASSUME NEW i \in 1..(L + 1)
          PROVE  (IF i > L THEN 2 * z
                  ELSE (2 * (IF i <= Len(base) THEN ToUpper(base[i]) ELSE Space)) % 256)
                 = IF i <= Len(u) THEN 2 * u[i] ELSE IF i <= L THEN 2 * Space ELSE 2 * v
      <3>1. \A x \in 32..90 : (2 * x) % 256 = 2 * x
        OBVIOUS
      <3>2. CASE i > L
        BY <1>2, <2>3, <2>4, <3>2
      <3>3. CASE i <= L /\ i <= Len(u)
        <4>1. i \in 1..Len(u) /\ ~(i > L) /\ i <= Len(base)
          BY <1>2, <2>2, <2>4, <3>3
        <4>2. ToUpper(base[i]) = u[i] /\ u[i] \in 48..90
          BY <2>2, <2>4, <4>1
        <4>3. u[i] \in 32..90
          BY <4>2
        <4> QED
          BY <3>1, <3>3, <4>1, <4>2, <4>3
      <3>4. CASE i <= L /\ ~(i <= Len(u))
        <4>1. ~(i > L) /\ ~(i <= Len(base))
          BY <1>2, <2>2, <2>4, <3>4
        <4>2. (2 * Space) % 256 = 2 * Space
          BY DEF Space
        <4> QED
          BY <3>4, <4>1, <4>2
      <3> QED
        BY <1>2, <3>2, <3>3, <3>4
    <2>6. Addr(u, v) = [i \in 1..(L + 1) |-> IF i <= Len(u) THEN 2 * u[i] ELSE IF i <= L THEN 2 * Space ELSE 2 * v]
      BY DEF Addr
    <2> HIDE DEF L
    <2> QED
      BY <2>1, <2>5, <2>6
  <1>14. Canonical(s) = Written(u, v)
    BY DEF Canonical, Written, SsidOf, u, v
  <1> QED
    BY <1>8, <1>12, <1>13, <1>14 DEF u, v

\* An address is written as a callsign with this stem and SSID.
LEMMA WrittenIsCallsign ==
  ASSUME NEW u \in Stems, NEW v \in 0..15
  PROVE  LET t == Written(u, v)
         IN t \in Text /\ IsCallsign(t) /\ Strupr(Base(t)) = u /\ SsidOf(t) = v
  <1> DEFINE t == Written(u, v)
             D == Decimal(v)
             dash == FirstIn({Dash}, t, 1)
  <1>1. /\ u \in Text /\ Len(u) \in Nat /\ Len(u) <= CallLen /\ CallLen \in Nat
        /\ \A i \in 1..Len(u) : u[i] \in Upper \cup Digit /\ u[i] # Dash /\ ToUpper(u[i]) = u[i]
    BY StemFacts
  <1>2. /\ D \in Seq(Digit) /\ D # <<>> /\ D \in Text /\ Value(D) = v
        /\ Len(D) \in Nat \ {0}
    <2>1. D \in Seq(Digit) /\ D # <<>> /\ D \in Text /\ Value(D) = v
      BY ValueOfDecimal
    <2> HIDE DEF D
    <2> QED
      BY <2>1, EmptySeq, LenProperties
  <1> HIDE DEF D
  <1>3. Strupr(u) = u
    <2>1. Strupr(u) \in Text /\ Len(Strupr(u)) = Len(u) /\ \A i \in 1..Len(u) : Strupr(u)[i] = u[i]
      BY <1>1, StruprText
    <2> QED
      BY <1>1, <2>1, SeqEqual DEF Text
  <1>4. ASSUME t \in Text, dash = Len(u) + 1, \A i \in 1..Len(u) : t[i] = u[i],
               HasDash(t) <=> v # 0, v # 0 => SsidText(t) = D
        PROVE  IsCallsign(t) /\ Strupr(Base(t)) = u /\ SsidOf(t) = v
    <2>1. Base(t) \in Text /\ Len(Base(t)) = Len(u) /\ \A i \in 1..Len(u) : Base(t)[i] = t[i]
      <3>1. Base(t) \in Text /\ Len(Base(t)) = dash - 1 /\ \A i \in 1..(dash - 1) : Base(t)[i] = t[i]
        BY <1>4, BaseParts
      <3>2. dash - 1 = Len(u)
        BY <1>1, <1>4
      <3> HIDE DEF dash, t
      <3> QED
        BY <3>1, <3>2
    <2>2. \A i \in 1..Len(u) : Base(t)[i] = u[i]
      BY <1>4, <2>1
    <2>3. Base(t) = u
      BY <1>1, <2>1, <2>2, SeqEqual DEF Text
    <2>4. SsidOf(t) = v
      BY <1>2, <1>4 DEF SsidOf
    <2>5. ToSet(u) \subseteq Alnum
      BY <1>1, TextIsFunction DEF ToSet, Alnum
    <2>6. ToSet(D) \subseteq Digit
      BY <1>2, TextOfDigits
    <2>7. IsCallsign(t)
      BY <1>1, <1>2, <1>4, <2>3, <2>5, <2>6 DEF IsCallsign
    <2> QED
      BY <1>3, <2>3, <2>4, <2>7
  <1>5. ASSUME t \in Text
        PROVE  /\ dash \in 1..(Len(t) + 1) /\ (HasDash(t) <=> dash <= Len(t))
               /\ dash <= Len(t) => t[dash] = Dash
               /\ \A i \in 1..(dash - 1) : t[i] # Dash
               /\ dash <= Len(t) => /\ SsidText(t) \in Text /\ Len(SsidText(t)) = Len(t) - dash
                                    /\ \A i \in 1..(Len(t) - dash) : SsidText(t)[i] = t[dash + i]
    BY <1>5, BaseParts
  <1>6. CASE v = 0
    <2>1. t = u
      <3>1. t = u \o <<>>
        BY <1>6 DEF Written
      <3> QED
        BY <1>1, <3>1, ConcatEmptySeq DEF Text
    <2> HIDE DEF t, dash
    <2>2. dash = Len(u) + 1
      BY <1>1, <1>5, <2>1
    <2>3. ~HasDash(t)
      BY <1>1, <1>5, <2>1, <2>2
    <2> QED
      BY <1>1, <1>4, <1>6, <2>1, <2>2, <2>3 DEF t, dash
  <1>7. CASE v # 0
    <2> DEFINE tail == <<Dash>> \o D
    <2>1. /\ tail \in Text /\ Len(tail) = 1 + Len(D) /\ tail[1] = Dash
          /\ \A i \in 1..Len(D) : tail[i + 1] = D[i]
      <3>1. <<Dash>> \in Text /\ Len(<<Dash>>) = 1 /\ <<Dash>>[1] = Dash
        BY DEF Text, Dash
      <3> DEFINE o == <<Dash>>
      <3>2. o \in Text /\ Len(o) = 1 /\ o[1] = Dash
        BY <3>1
      <3> HIDE DEF o
      <3>3. /\ o \o D \in Text /\ Len(o \o D) = 1 + Len(D)
            /\ \A i \in 1..(1 + Len(D)) : (o \o D)[i] = IF i <= 1 THEN o[i] ELSE D[i - 1]
        <4>1. /\ o \o D \in Text /\ Len(o \o D) = Len(o) + Len(D)
              /\ \A i \in 1..(Len(o) + Len(D)) : (o \o D)[i] = IF i <= Len(o) THEN o[i] ELSE D[i - Len(o)]
          BY <1>2, <3>2, TextConcat
        <4> QED
          BY <3>2, <4>1, Zenon
      <3>4. (o \o D)[1] = Dash
        BY <1>2, <3>2, <3>3
      <3>5. ASSUME NEW i \in 1..Len(D) PROVE (o \o D)[i + 1] = D[i]
        <4>1. i + 1 \in 1..(1 + Len(D)) /\ ~(i + 1 <= 1) /\ (i + 1) - 1 = i
          BY <1>2
        <4> QED
          BY <3>3, <4>1
      <3> QED
        BY <3>3, <3>4, <3>5 DEF o
    <2>2. t = u \o tail
      BY <1>7 DEF Written, D
    <2> HIDE DEF tail
    <2>3. /\ u \o tail \in Text /\ Len(u \o tail) = Len(u) + (1 + Len(D))
          /\ \A i \in 1..(Len(u) + (1 + Len(D))) : (u \o tail)[i] = IF i <= Len(u) THEN u[i] ELSE tail[i - Len(u)]
      <3>1. /\ u \o tail \in Text /\ Len(u \o tail) = Len(u) + Len(tail)
            /\ \A i \in 1..(Len(u) + Len(tail)) : (u \o tail)[i] = IF i <= Len(u) THEN u[i] ELSE tail[i - Len(u)]
        BY <1>1, <2>1, TextConcat
      <3> QED
        BY <2>1, <3>1, Zenon
    <2> HIDE DEF t, dash
    <2>4. /\ t \in Text /\ Len(t) = Len(u) + (1 + Len(D))
          /\ \A i \in 1..(Len(u) + (1 + Len(D))) : t[i] = IF i <= Len(u) THEN u[i] ELSE tail[i - Len(u)]
      BY <2>2, <2>3
    <2>5. \A i \in 1..Len(u) : t[i] = u[i]
      BY <1>1, <1>2, <2>4
    <2>6. t[Len(u) + 1] = Dash
      <3>1. Len(u) + 1 \in 1..(Len(u) + (1 + Len(D))) /\ ~(Len(u) + 1 <= Len(u)) /\ (Len(u) + 1) - Len(u) = 1
        BY <1>1, <1>2
      <3> QED
        BY <2>1, <2>4, <3>1
    <2>7. ASSUME NEW i \in 1..Len(D) PROVE t[Len(u) + 1 + i] = D[i]
      <3>1. /\ Len(u) + 1 + i \in 1..(Len(u) + (1 + Len(D))) /\ ~(Len(u) + 1 + i <= Len(u))
            /\ (Len(u) + 1 + i) - Len(u) = i + 1
        BY <1>1, <1>2
      <3> QED
        BY <2>1, <2>4, <3>1
    <2>8. dash = Len(u) + 1 /\ dash <= Len(t)
      <3>1. dash \in Nat /\ Len(t) \in Nat /\ dash >= 1 /\ dash <= Len(t) + 1
        BY <1>5, <2>4, TextIsFunction
      <3>2. ~(dash > Len(u) + 1)
        <4> SUFFICES ASSUME dash > Len(u) + 1 PROVE FALSE
          OBVIOUS
        <4>1. Len(u) + 1 \in 1..(dash - 1)
          BY <1>1, <3>1
        <4> QED
          BY <1>5, <2>4, <2>6, <4>1
      <3>3. dash <= Len(t)
        BY <1>1, <1>2, <2>4, <3>1, <3>2
      <3>4. ~(dash < Len(u) + 1)
        <4> SUFFICES ASSUME dash < Len(u) + 1 PROVE FALSE
          OBVIOUS
        <4>1. dash \in 1..Len(u)
          BY <1>1, <3>1
        <4>2. t[dash] = Dash /\ t[dash] = u[dash] /\ u[dash] # Dash
          BY <1>1, <1>5, <2>4, <2>5, <3>3, <4>1
        <4> QED
          BY <4>2
      <3> QED
        BY <1>1, <3>1, <3>2, <3>3, <3>4
    <2>9. SsidText(t) = D
      <3>1. Len(t) - dash = Len(D)
        BY <1>1, <1>2, <2>4, <2>8
      <3>2. SsidText(t) \in Text /\ Len(SsidText(t)) = Len(D) /\ \A i \in 1..Len(D) : SsidText(t)[i] = t[dash + i]
        BY <1>5, <2>4, <2>8, <3>1
      <3>3. \A i \in 1..Len(D) : SsidText(t)[i] = D[i]
        BY <2>7, <2>8, <3>2
      <3> QED
        BY <1>2, <3>2, <3>3, SeqEqual DEF Text
    <2>10. HasDash(t)
      BY <1>5, <2>4, <2>8
    <2> QED
      BY <1>4, <1>7, <2>4, <2>5, <2>8, <2>9, <2>10 DEF t, dash
  <1> QED
    BY <1>6, <1>7


---------------------------------------------------------------------------
(* Texts that encode alike: letter case, and an SSID of "0".               *)

Extends(s, r) ==
    /\ Len(s) <= Len(r) /\ \A i \in 1..Len(s) : ToUpper(s[i]) = ToUpper(r[i])
    /\ Len(s) < Len(r) => Len(r) = Len(s) + 2 /\ r[Len(s) + 1] = Dash /\ r[Len(s) + 2] = 48

\* Only letters differ.
LEMMA CharsAlike ==
  ASSUME NEW a \in 0..127, NEW b \in 0..127, ToUpper(a) = ToUpper(b)
  PROVE  /\ a = Dash <=> b = Dash
         /\ a \in Digit <=> b \in Digit
         /\ a \in Digit => a = b
         /\ a \in {9, Space} <=> b \in {9, Space}
         /\ a \in {Plus, Dash} <=> b \in {Plus, Dash}
         /\ a \in Alnum <=> b \in Alnum
  BY DEF ToUpper, Lower, Upper, Digit, Alnum, Dash, Plus, Space

\* The characters of the longer text.
LEMMA ExtendsChars ==
  ASSUME NEW s \in Text, NEW r \in Text, Extends(s, r), NEW i \in 1..Len(s)
  PROVE  /\ i \in 1..Len(r)
         /\ s[i] = Dash <=> r[i] = Dash
         /\ s[i] \in Digit <=> r[i] \in Digit
         /\ s[i] \in Digit => s[i] = r[i]
         /\ s[i] \in {9, Space} <=> r[i] \in {9, Space}
         /\ s[i] \in {Plus, Dash} <=> r[i] \in {Plus, Dash}
         /\ s[i] \in Alnum <=> r[i] \in Alnum
  <1>1. i \in 1..Len(r)
    BY TextIsFunction DEF Extends
  <1>2. s[i] \in 0..127 /\ r[i] \in 0..127 /\ ToUpper(s[i]) = ToUpper(r[i])
    BY <1>1, TextIsFunction DEF Extends
  <1> QED
    BY <1>1, <1>2, CharsAlike

\* The position of the first character of a kind is determined.
LEMMA FirstInIs ==
  ASSUME NEW s \in Text, NEW S, NEW i \in 1..(Len(s) + 1), NEW k \in i..(Len(s) + 1),
         \A j \in i..(k - 1) : s[j] \notin S, k <= Len(s) => s[k] \in S
  PROVE  FirstIn(S, s, i) = k
  <1> DEFINE f == FirstIn(S, s, i)
  <1>1. /\ f \in i..(Len(s) + 1) /\ \A j \in i..Len(s) : j < f => s[j] \notin S
        /\ f <= Len(s) => s[f] \in S
    BY FirstInPlace
  <1>2. Len(s) \in Nat
    BY TextIsFunction
  <1> HIDE DEF f
  <1>3. ~(f < k)
    <2> SUFFICES ASSUME f < k PROVE FALSE
      OBVIOUS
    <2>1. f \in i..(k - 1) /\ f <= Len(s)
      BY <1>1, <1>2
    <2> QED
      BY <1>1, <2>1
  <1>4. ~(k < f)
    <2> SUFFICES ASSUME k < f PROVE FALSE
      OBVIOUS
    <2>1. k \in i..Len(s) /\ k <= Len(s)
      BY <1>1, <1>2
    <2> QED
      BY <1>1, <2>1
  <1>5. f = k
    BY <1>1, <1>2, <1>3, <1>4
  <1> QED
    BY <1>5 DEF f

\* The position of the first character of another kind is determined.
LEMMA FirstNotInIs ==
  ASSUME NEW s \in Text, NEW S, NEW i \in 1..(Len(s) + 1), NEW k \in i..(Len(s) + 1),
         \A j \in i..(k - 1) : s[j] \in S, k <= Len(s) => s[k] \notin S
  PROVE  FirstNotIn(S, s, i) = k
  <1> DEFINE f == FirstNotIn(S, s, i)
  <1>1. /\ f \in i..(Len(s) + 1) /\ \A j \in i..Len(s) : j < f => s[j] \in S
        /\ f <= Len(s) => s[f] \notin S
    BY FirstNotInPlace
  <1>2. Len(s) \in Nat
    BY TextIsFunction
  <1> HIDE DEF f
  <1>3. ~(f < k)
    <2> SUFFICES ASSUME f < k PROVE FALSE
      OBVIOUS
    <2>1. f \in i..(k - 1) /\ f <= Len(s)
      BY <1>1, <1>2
    <2> QED
      BY <1>1, <2>1
  <1>4. ~(k < f)
    <2> SUFFICES ASSUME k < f PROVE FALSE
      OBVIOUS
    <2>1. k \in i..Len(s) /\ k <= Len(s)
      BY <1>1, <1>2
    <2> QED
      BY <1>1, <2>1
  <1>5. f = k
    BY <1>1, <1>2, <1>3, <1>4
  <1> QED
    BY <1>5 DEF f

\* The parts of a number for sscanf: where it starts, its sign and its digits.
ScanAt(s) == FirstNotIn({9, Space}, s, 1)
ScanSigned(s) == ScanAt(s) <= Len(s) /\ s[ScanAt(s)] \in {Plus, Dash}
ScanFrom(s) == IF ScanSigned(s) THEN ScanAt(s) + 1 ELSE ScanAt(s)
ScanEnd(s) == FirstNotIn(Digit, s, ScanFrom(s))
ScanPart(s) == SubSeq(s, ScanFrom(s), ScanEnd(s) - 1)

\* What sscanf makes of them.
LEMMA ScanShape ==
  ASSUME NEW s \in Text
  PROVE  /\ ScanAt(s) \in 1..(Len(s) + 1) /\ ScanFrom(s) \in 1..(Len(s) + 1)
         /\ ScanEnd(s) \in ScanFrom(s)..(Len(s) + 1)
         /\ \A j \in 1..(ScanAt(s) - 1) : s[j] \in {9, Space}
         /\ ScanAt(s) <= Len(s) => s[ScanAt(s)] \notin {9, Space}
         /\ \A j \in ScanFrom(s)..(ScanEnd(s) - 1) : s[j] \in Digit
         /\ ScanEnd(s) <= Len(s) => s[ScanEnd(s)] \notin Digit
         /\ ScanPart(s) \in Text /\ Len(ScanPart(s)) = ScanEnd(s) - ScanFrom(s)
         /\ \A k \in 1..(ScanEnd(s) - ScanFrom(s)) : ScanPart(s)[k] = s[ScanFrom(s) + k - 1]
         /\ ScanInt(s) = IF ScanPart(s) = <<>> THEN <<>>
                         ELSE <<IF ScanSigned(s) /\ s[ScanAt(s)] = Dash
                                THEN -AsI32(Value(ScanPart(s))) ELSE AsI32(Value(ScanPart(s)))>>
  <1> DEFINE at == ScanAt(s)
             from == ScanFrom(s)
             end == ScanEnd(s)
  <1>1. Len(s) \in Nat /\ 1 \in 1..(Len(s) + 1)
    BY TextIsFunction
  <1>2. /\ at \in 1..(Len(s) + 1) /\ \A j \in 1..Len(s) : j < at => s[j] \in {9, Space}
        /\ at <= Len(s) => s[at] \notin {9, Space}
    BY <1>1, FirstNotInPlace DEF ScanAt
  <1> HIDE DEF at
  <1>3. from \in 1..(Len(s) + 1)
    BY <1>1, <1>2 DEF ScanFrom, ScanSigned, at
  <1> HIDE DEF from
  <1>4. /\ end \in from..(Len(s) + 1) /\ \A j \in from..Len(s) : j < end => s[j] \in Digit
        /\ end <= Len(s) => s[end] \notin Digit
    <2>1. end = FirstNotIn(Digit, s, from)
      BY DEF ScanEnd, from
    <2> QED
      BY <1>3, <2>1, FirstNotInPlace
  <1> HIDE DEF end
  <1>5. \A j \in 1..(at - 1) : s[j] \in {9, Space}
    BY <1>1, <1>2
  <1>6. \A j \in from..(end - 1) : s[j] \in Digit
    BY <1>1, <1>3, <1>4
  <1>7. ScanPart(s) = SubSeq(s, from, end - 1)
    BY DEF ScanPart, from, end
  <1>8. end - 1 \in 0..Len(s)
    BY <1>1, <1>3, <1>4
  <1>9. /\ SubSeq(s, from, end - 1) \in Text
        /\ Len(SubSeq(s, from, end - 1)) = IF from <= end - 1 THEN (end - 1) - from + 1 ELSE 0
        /\ \A k \in 1..((end - 1) - from + 1) : SubSeq(s, from, end - 1)[k] = s[from + k - 1]
    BY <1>3, <1>8, TextPart
  <1>10. /\ ScanPart(s) \in Text /\ Len(ScanPart(s)) = end - from
         /\ \A k \in 1..(end - from) : ScanPart(s)[k] = s[from + k - 1]
    <2>1. (end - 1) - from + 1 = end - from /\ (from <= end - 1 \/ end - from = 0)
      BY <1>1, <1>3, <1>4
    <2> QED
      BY <1>7, <1>9, <2>1
  <1>11. ScanInt(s) = IF ScanPart(s) = <<>> THEN <<>>
                      ELSE <<IF ScanSigned(s) /\ s[at] = Dash
                             THEN -AsI32(Value(ScanPart(s))) ELSE AsI32(Value(ScanPart(s)))>>
    BY DEF ScanInt, ScanPart, ScanEnd, ScanFrom, ScanSigned, ScanAt, at
  <1> QED
    BY <1>2, <1>3, <1>4, <1>5, <1>6, <1>10, <1>11 DEF at, from, end

\* sscanf does not see a "-0" after a number.
LEMMA ScanExtends ==
  ASSUME NEW s \in Text, NEW r \in Text, Extends(s, r), ScanInt(s) # <<>>
  PROVE  ScanInt(r) = ScanInt(s)
  <1> DEFINE at == ScanAt(s)
             from == ScanFrom(s)
             end == ScanEnd(s)
             d == ScanPart(s)
  <1>1. /\ at \in 1..(Len(s) + 1) /\ from \in 1..(Len(s) + 1) /\ end \in from..(Len(s) + 1)
        /\ \A j \in 1..(at - 1) : s[j] \in {9, Space}
        /\ at <= Len(s) => s[at] \notin {9, Space}
        /\ \A j \in from..(end - 1) : s[j] \in Digit
        /\ end <= Len(s) => s[end] \notin Digit
        /\ d \in Text /\ Len(d) = end - from
        /\ \A k \in 1..(end - from) : d[k] = s[from + k - 1]
        /\ ScanInt(s) = IF d = <<>> THEN <<>>
                        ELSE <<IF ScanSigned(s) /\ s[at] = Dash
                               THEN -AsI32(Value(d)) ELSE AsI32(Value(d))>>
    BY ScanShape
  <1>2. from = IF ScanSigned(s) THEN at + 1 ELSE at
    BY DEF ScanFrom
  <1>3. ScanSigned(s) <=> at <= Len(s) /\ s[at] \in {Plus, Dash}
    BY DEF ScanSigned
  <1> HIDE DEF at, from, end, d
  <1>4. Len(s) \in Nat /\ Len(r) \in Nat /\ Len(s) <= Len(r)
    BY TextIsFunction DEF Extends
  <1>5. d # <<>> /\ Len(d) # 0
    <2>1. d # <<>>
      BY <1>1
    <2> QED
      BY <1>1, <2>1, EmptySeq DEF Text
  <1>6. from < end /\ from <= Len(s) /\ at <= Len(s) /\ at \in 1..Len(s)
    BY <1>1, <1>2, <1>4, <1>5
  <1>7. ScanAt(r) = at
    <2>1. \A j \in 1..(at - 1) : r[j] \in {9, Space}
      <3> TAKE j \in 1..(at - 1)
      <3>1. j \in 1..Len(s)
        BY <1>4, <1>6
      <3> QED
        BY <1>1, <3>1, ExtendsChars
    <2>2. r[at] \notin {9, Space}
      BY <1>1, <1>6, ExtendsChars
    <2>3. 1 \in 1..(Len(r) + 1) /\ at \in 1..(Len(r) + 1)
      BY <1>4, <1>6
    <2> QED
      BY <2>1, <2>2, <2>3, FirstNotInIs DEF ScanAt
  <1>8. (ScanSigned(r) <=> ScanSigned(s)) /\ (r[at] = Dash <=> s[at] = Dash)
    <2>1. (r[at] \in {Plus, Dash} <=> s[at] \in {Plus, Dash}) /\ (r[at] = Dash <=> s[at] = Dash)
      BY <1>6, ExtendsChars
    <2>2. at <= Len(r)
      BY <1>4, <1>6
    <2> QED
      BY <1>3, <1>6, <1>7, <2>1, <2>2 DEF ScanSigned
  <1>9. ScanFrom(r) = from
    BY <1>2, <1>7, <1>8 DEF ScanFrom
  <1>10. ScanEnd(r) = end
    <2>1. \A j \in from..(end - 1) : r[j] \in Digit
      <3> TAKE j \in from..(end - 1)
      <3>1. j \in 1..Len(s)
        BY <1>1, <1>4, <1>6
      <3> QED
        BY <1>1, <3>1, ExtendsChars
    <2>2. end <= Len(r) => r[end] \notin Digit
      <3>1. CASE end <= Len(s)
        <4>1. end \in 1..Len(s)
          BY <1>1, <1>4, <3>1
        <4> QED
          BY <1>1, <3>1, <4>1, ExtendsChars
      <3>2. CASE end > Len(s) /\ end <= Len(r)
        <4>1. end = Len(s) + 1 /\ Len(s) < Len(r)
          BY <1>1, <1>4, <3>2
        <4> QED
          BY <4>1 DEF Extends, Digit, Dash
      <3> QED
        BY <1>1, <1>4, <3>1, <3>2
    <2>3. from \in 1..(Len(r) + 1) /\ end \in from..(Len(r) + 1)
      BY <1>1, <1>4
    <2>4. FirstNotIn(Digit, r, from) = end
      BY <2>1, <2>2, <2>3, FirstNotInIs
    <2> QED
      BY <1>9, <2>4 DEF ScanEnd
  <1>11. ScanPart(r) = d
    <2> DEFINE e == ScanPart(r)
    <2>1. /\ e \in Text /\ Len(e) = end - from
          /\ \A k \in 1..(end - from) : e[k] = r[from + k - 1]
      BY <1>9, <1>10, ScanShape
    <2> HIDE DEF e
    <2>2. ASSUME NEW k \in 1..(end - from) PROVE e[k] = d[k]
      <3>1. from + k - 1 \in from..(end - 1) /\ from + k - 1 \in 1..Len(s)
        BY <1>1, <1>4
      <3>2. s[from + k - 1] = r[from + k - 1]
        BY <1>1, <3>1, ExtendsChars
      <3> QED
        BY <1>1, <2>1, <3>2
    <2> QED
      BY <1>1, <2>1, <2>2, SeqEqual DEF Text, e
  <1>12. ScanInt(r) = IF ScanPart(r) = <<>> THEN <<>>
                      ELSE <<IF ScanSigned(r) /\ r[ScanAt(r)] = Dash
                             THEN -AsI32(Value(ScanPart(r))) ELSE AsI32(Value(ScanPart(r)))>>
    BY ScanShape
  <1> QED
    BY <1>1, <1>5, <1>7, <1>8, <1>11, <1>12


\* The parts encode_entry makes an address of.
UpperStem(s) == Strupr(SubSeq(s, 1, Stem(s)))
SsidPart(s) == IF Stem(s) = Len(s) THEN <<0>> ELSE ScanInt(SubSeq(s, Stem(s) + 2, Len(s)))
Encodes(s) == /\ \A i \in 1..Stem(s) : s[i] \in Alnum
              /\ SsidPart(s) # <<>> /\ SsidPart(s)[1] \in 0..15

\* The address it makes.
LEMMA EncodeParts ==
  ASSUME NEW s \in Text
  PROVE  /\ Stem(s) \in 0..Len(s) /\ Stem(s) <= CallLen /\ UpperStem(s) \in Text /\ Len(UpperStem(s)) = Stem(s)
         /\ \A i \in 1..Stem(s) : UpperStem(s)[i] = ToUpper(s[i])
         /\ Encodes(s) <=> EncodeEntry(s) # NoEntry
         /\ Encodes(s) => UpperStem(s) \in Stems /\ EncodeEntry(s) = Addr(UpperStem(s), SsidPart(s)[1])
  <1> DEFINE n == Stem(s)
             p == SubSeq(s, 1, n)
  <1>1. /\ n \in 0..Len(s) /\ n <= CallLen /\ UpperStem(s) \in Text /\ Len(UpperStem(s)) = n
        /\ (\A i \in 1..n : s[i] \in Alnum) => UpperStem(s) \in Stems
        /\ EncodeEntry(s) = IF /\ \A i \in 1..n : s[i] \in Alnum
                               /\ SsidPart(s) # <<>> /\ SsidInRange(SsidPart(s)[1])
                            THEN Addr(UpperStem(s), SsidPart(s)[1]) ELSE NoEntry
    BY EncodeShape DEF UpperStem, SsidPart
  <1>2. Len(s) \in Nat
    BY TextIsFunction
  <1>3. UpperStem(s) = Strupr(p)
    BY DEF UpperStem
  <1>4. Encodes(s) <=> /\ \A i \in 1..n : s[i] \in Alnum
                       /\ SsidPart(s) # <<>> /\ SsidInRange(SsidPart(s)[1])
    BY DEF Encodes, SsidInRange
  <1>5. Encodes(s) => SsidPart(s)[1] \in 0..15
    BY DEF Encodes
  <1> HIDE DEF n
  <1>6. /\ p \in Text /\ Len(p) = IF 1 <= n THEN n - 1 + 1 ELSE 0
        /\ \A i \in 1..(n - 1 + 1) : p[i] = s[1 + i - 1]
    BY <1>1, <1>2, TextPart
  <1>7. p \in Text /\ Len(p) = n /\ \A i \in 1..n : p[i] = s[i]
    BY <1>1, <1>2, <1>6
  <1> HIDE DEF p
  <1>8. \A i \in 1..n : UpperStem(s)[i] = ToUpper(s[i])
    BY <1>3, <1>7, StruprText
  <1>9. Encodes(s) => Addr(UpperStem(s), SsidPart(s)[1]) # NoEntry
    BY <1>1, <1>4, <1>5, AddrParts
  <1> QED
    BY <1>1, <1>4, <1>8, <1>9 DEF n

\* The SSID "0".
LEMMA ScanZero ==
  ASSUME NEW d \in Text, Len(d) = 1, d[1] = 48
  PROVE  ScanInt(d) = <<0>>
  <1>1. d \in Seq(Digit) /\ d # <<>>
    <2>1. DOMAIN d = 1..1
      BY TextIsFunction
    <2>2. ToSet(d) \subseteq Digit
      BY <2>1 DEF ToSet, Digit
    <2>3. d # <<>>
      BY <2>1
    <2> QED
      BY <2>2, <2>3, TextOfDigits
  <1>2. Value(d) = 0
    BY <1>1, ValueFacts
  <1>3. 0 < IntMod /\ 0 \in Nat
    BY SizesAssumption DEF SizesAssumption
  <1>4. AsI32(0) = 0
    BY <1>3, AsI32Small
  <1> QED
    BY <1>1, <1>2, <1>4, ScanDigits

\* The dash is at the same place.
LEMMA StemExtends ==
  ASSUME NEW s \in Text, NEW r \in Text, Extends(s, r)
  PROVE  Stem(r) = Stem(s)
  <1> DEFINE dash == FirstIn({Dash}, s, 1)
  <1>1. Len(s) \in Nat /\ Len(r) \in Nat /\ Len(s) <= Len(r)
    BY TextIsFunction DEF Extends
  <1>2. /\ dash \in 1..(Len(s) + 1) /\ \A k \in 1..Len(s) : k < dash => s[k] \notin {Dash}
        /\ dash <= Len(s) => s[dash] \in {Dash}
    BY <1>1, FirstInPlace
  <1> HIDE DEF dash
  <1>3. \A j \in 1..(dash - 1) : r[j] \notin {Dash}
    <2> TAKE j \in 1..(dash - 1)
    <2>1. j \in 1..Len(s) /\ j < dash
      BY <1>1, <1>2
    <2>2. s[j] # Dash
      BY <1>2, <2>1
    <2> QED
      BY <2>1, <2>2, ExtendsChars
  <1>4. dash <= Len(r) => r[dash] \in {Dash}
    <2>1. CASE dash <= Len(s)
      <3>1. dash \in 1..Len(s) /\ s[dash] = Dash
        BY <1>1, <1>2, <2>1
      <3> QED
        BY <3>1, ExtendsChars
    <2>2. CASE dash > Len(s) /\ dash <= Len(r)
      <3>1. dash = Len(s) + 1 /\ Len(s) < Len(r)
        BY <1>1, <1>2, <2>2
      <3> QED
        BY <3>1 DEF Extends
    <2> QED
      BY <1>1, <1>2, <2>1, <2>2
  <1>5. 1 \in 1..(Len(r) + 1) /\ dash \in 1..(Len(r) + 1)
    BY <1>1, <1>2
  <1>6. FirstIn({Dash}, r, 1) = dash
    BY <1>3, <1>4, <1>5, FirstInIs
  <1> QED
    BY <1>6 DEF Stem, dash

\* A text and its extension encode alike.
LEMMA EncodeExtends ==
  ASSUME NEW s \in Text, NEW r \in Text, Extends(s, r), EncodeEntry(s) # NoEntry
  PROVE  EncodeEntry(r) = EncodeEntry(s)
  <1> DEFINE n == Stem(s)
             x == SubSeq(s, n + 2, Len(s))
             y == SubSeq(r, n + 2, Len(r))
  <1>1. Len(s) \in Nat /\ Len(r) \in Nat /\ Len(s) <= Len(r)
    BY TextIsFunction DEF Extends
  <1>2. /\ n \in 0..Len(s) /\ UpperStem(s) \in Text /\ Len(UpperStem(s)) = n
        /\ \A i \in 1..n : UpperStem(s)[i] = ToUpper(s[i])
        /\ Encodes(s) /\ EncodeEntry(s) = Addr(UpperStem(s), SsidPart(s)[1])
    BY EncodeParts
  <1>3. Stem(r) = n
    BY StemExtends
  <1>4. /\ UpperStem(r) \in Text /\ Len(UpperStem(r)) = n
        /\ \A i \in 1..n : UpperStem(r)[i] = ToUpper(r[i])
        /\ Encodes(r) => EncodeEntry(r) = Addr(UpperStem(r), SsidPart(r)[1])
    BY <1>3, EncodeParts
  <1>5. SsidPart(s) = IF n = Len(s) THEN <<0>> ELSE ScanInt(x)
    BY DEF SsidPart
  <1>6. SsidPart(r) = IF n = Len(r) THEN <<0>> ELSE ScanInt(y)
    BY <1>3 DEF SsidPart
  <1>7. (\A i \in 1..n : s[i] \in Alnum) /\ SsidPart(s) # <<>> /\ SsidPart(s)[1] \in 0..15
    BY <1>2 DEF Encodes
  <1>8. Encodes(r) <=> (\A i \in 1..n : r[i] \in Alnum) /\ SsidPart(r) # <<>> /\ SsidPart(r)[1] \in 0..15
    BY <1>3 DEF Encodes
  <1> HIDE DEF n
  <1>9. \A i \in 1..n : i \in 1..Len(s) /\ ToUpper(s[i]) = ToUpper(r[i])
    BY <1>1, <1>2 DEF Extends
  <1>10. \A i \in 1..n : r[i] \in Alnum
    BY <1>7, <1>9, ExtendsChars
  <1>11. UpperStem(r) = UpperStem(s)
    <2>1. \A i \in 1..n : UpperStem(r)[i] = UpperStem(s)[i]
      BY <1>2, <1>4, <1>9
    <2> QED
      BY <1>2, <1>4, <2>1, SeqEqual DEF Text
  <1>12. SsidPart(r) = SsidPart(s)
    <2>1. CASE n = Len(r)
      BY <1>1, <1>2, <1>5, <1>6, <2>1
    <2>2. CASE n = Len(s) /\ n # Len(r)
      <3>1. n + 2 = Len(r) /\ r[n + 2] = 48
        BY <1>1, <2>2 DEF Extends
      <3>2. n + 2 \in 1..(Len(r) + 1) /\ Len(r) \in 0..Len(r) /\ n + 2 <= Len(r) /\ Len(r) - (n + 2) + 1 = 1
        BY <1>1, <1>2, <3>1
      <3>3. /\ y \in Text /\ Len(y) = 1
            /\ \A i \in 1..1 : y[i] = r[(n + 2) + i - 1]
        BY <3>2, TextPart
      <3>4. y[1] = r[(n + 2) + 1 - 1]
        <4> HIDE DEF y
        <4>1. 1 \in 1..1
          OBVIOUS
        <4> QED
          BY <3>3, <4>1
      <3>5. (n + 2) + 1 - 1 = n + 2
        BY <1>1, <1>2
      <3> QED
        BY <1>5, <1>6, <2>2, <3>1, <3>3, <3>4, <3>5, ScanZero, ZenonT(40)
    <2>3. CASE n < Len(s)
      <3>1. /\ n + 2 \in 1..(Len(r) + 1) /\ Len(r) \in 0..Len(r)
            /\ n + 2 \in 1..(Len(s) + 1) /\ Len(s) \in 0..Len(s)
        BY <1>1, <1>2, <2>3
      <3>2. /\ y \in Text /\ Len(y) = IF n + 2 <= Len(r) THEN Len(r) - (n + 2) + 1 ELSE 0
            /\ \A i \in 1..(Len(r) - (n + 2) + 1) : y[i] = r[(n + 2) + i - 1]
        BY <3>1, TextPart
      <3>3. /\ x \in Text /\ Len(x) = IF n + 2 <= Len(s) THEN Len(s) - (n + 2) + 1 ELSE 0
            /\ \A i \in 1..(Len(s) - (n + 2) + 1) : x[i] = s[(n + 2) + i - 1]
        BY <3>1, TextPart
      <3> HIDE DEF x, y
      <3>4. Len(x) = Len(s) - n - 1 /\ Len(y) = Len(r) - n - 1
        BY <1>1, <1>2, <2>3, <3>2, <3>3
      <3>5. \A i \in 1..Len(x) : n + 1 + i \in 1..Len(s) /\ x[i] = s[n + 1 + i]
        <4> TAKE i \in 1..Len(x)
        <4>1. i \in 1..(Len(s) - (n + 2) + 1) /\ (n + 2) + i - 1 = n + 1 + i /\ n + 1 + i \in 1..Len(s)
          BY <1>1, <1>2, <2>3, <3>4
        <4> QED
          BY <3>3, <4>1
      <3>6. \A i \in 1..Len(y) : y[i] = r[n + 1 + i]
        <4> TAKE i \in 1..Len(y)
        <4>1. i \in 1..(Len(r) - (n + 2) + 1) /\ (n + 2) + i - 1 = n + 1 + i
          BY <1>1, <1>2, <2>3, <3>4
        <4> QED
          BY <3>2, <4>1
      <3>7. Len(x) <= Len(y) /\ Len(x) \in Nat /\ Len(y) \in Nat
        BY <1>1, <1>2, <2>3, <3>4
      <3>8. \A i \in 1..Len(x) : ToUpper(x[i]) = ToUpper(y[i])
        <4> TAKE i \in 1..Len(x)
        <4>1. i \in 1..Len(y) /\ n + 1 + i \in 1..Len(s)
          BY <3>5, <3>7
        <4>2. ToUpper(s[n + 1 + i]) = ToUpper(r[n + 1 + i])
          BY <4>1 DEF Extends
        <4> QED
          BY <3>5, <3>6, <4>1, <4>2
      <3>9. ASSUME Len(x) < Len(y)
            PROVE  Len(y) = Len(x) + 2 /\ y[Len(x) + 1] = Dash /\ y[Len(x) + 2] = 48
        <4>1. Len(s) < Len(r)
          BY <1>1, <1>2, <3>4, <3>9
        <4>2. Len(r) = Len(s) + 2 /\ r[Len(s) + 1] = Dash /\ r[Len(s) + 2] = 48
          BY <4>1 DEF Extends
        <4>3. /\ Len(y) = Len(x) + 2 /\ Len(x) + 1 \in 1..Len(y) /\ Len(x) + 2 \in 1..Len(y)
              /\ n + 1 + (Len(x) + 1) = Len(s) + 1 /\ n + 1 + (Len(x) + 2) = Len(s) + 2
          BY <1>1, <1>2, <2>3, <3>4, <3>7, <4>2
        <4>4. y[Len(x) + 1] = r[n + 1 + (Len(x) + 1)] /\ y[Len(x) + 2] = r[n + 1 + (Len(x) + 2)]
          BY <3>6, <4>3
        <4> QED
          BY <4>2, <4>3, <4>4
      <3>10. Extends(x, y)
        BY <3>7, <3>8, <3>9 DEF Extends
      <3>11. n # Len(s) /\ n # Len(r)
        BY <1>1, <1>2, <2>3
      <3>12. SsidPart(s) = ScanInt(x) /\ SsidPart(r) = ScanInt(y)
        BY <1>5, <1>6, <3>11
      <3> QED
        BY <1>7, <3>2, <3>3, <3>10, <3>12, ScanExtends
    <2> QED
      BY <1>1, <1>2, <2>1, <2>2, <2>3
  <1> QED
    BY <1>2, <1>4, <1>7, <1>8, <1>10, <1>11, <1>12

\* Letter case does not matter.
LEMMA EncodeAlike ==
  ASSUME NEW s \in Text, NEW r \in Text, Len(s) = Len(r),
         \A i \in 1..Len(s) : ToUpper(s[i]) = ToUpper(r[i])
  PROVE  EncodeEntry(s) = EncodeEntry(r)
  <1>1. Len(s) \in Nat
    BY TextIsFunction
  <1>2. Extends(s, r) /\ Extends(r, s)
    BY <1>1 DEF Extends
  <1>3. CASE EncodeEntry(s) # NoEntry
    BY <1>2, <1>3, EncodeExtends
  <1>4. CASE EncodeEntry(r) # NoEntry
    BY <1>2, <1>4, EncodeExtends
  <1> QED
    BY <1>3, <1>4


---------------------------------------------------------------------------
(* Every line of axports becomes a port, and every port comes from one.    *)

\* Upper case twice, and the characters that are no letters.
LEMMA UpperChars ==
  \A c \in 0..127 : /\ ToUpper(c) \in 0..127 /\ ToUpper(ToUpper(c)) = ToUpper(c)
                    /\ ToUpper(ToLower(c)) = ToUpper(c) /\ ToLower(c) \in 0..127
                    /\ (ToUpper(c) = Dash <=> c = Dash) /\ (ToUpper(c) = 48 <=> c = 48)
                    /\ (ToUpper(c) \in Digit <=> c \in Digit) /\ (c \in Digit => ToUpper(c) = c)
                    /\ (c \in Alnum => ToUpper(c) \in Alnum)
  BY DEF ToUpper, ToLower, Lower, Upper, Digit, Alnum, Dash

\* What load_ports keeps of a callsign without a leading zero in its SSID.
LEMMA StripShape ==
  ASSUME NEW s \in Text, ~LeadingZero(s)
  PROVE  LET c == StripDashZero(Strupr(s))
         IN /\ c \in Text /\ Len(c) \in Nat /\ Len(s) \in Nat /\ Len(c) <= Len(s)
            /\ \A i \in 1..Len(c) : c[i] = ToUpper(s[i])
            /\ Len(c) < Len(s) => Len(s) = Len(c) + 2 /\ s[Len(c) + 1] = Dash /\ s[Len(c) + 2] = 48
            /\ Extends(c, s)
  <1> DEFINE u == Strupr(s)
             c == StripDashZero(u)
  <1>1. u \in Text /\ Len(u) = Len(s) /\ \A i \in 1..Len(s) : u[i] = ToUpper(s[i])
    BY StruprText
  <1>2. /\ c \in Text /\ Len(c) <= Len(u) /\ \A i \in 1..Len(c) : c[i] = u[i]
        /\ Len(c) < Len(u) => /\ Len(c) + 2 <= Len(u)
                              /\ u[Len(c) + 1] = Dash /\ u[Len(c) + 2] = 48
    <2> HIDE DEF u
    <2> QED
      BY <1>1, StripDashZeroText
  <1> HIDE DEF u, c
  <1>3. Len(s) \in Nat /\ Len(c) \in Nat /\ \A i \in 1..Len(s) : s[i] \in 0..127
    BY <1>2, TextIsFunction
  <1>4. \A i \in 1..Len(c) : i \in 1..Len(s) /\ c[i] = ToUpper(s[i])
    BY <1>1, <1>2, <1>3
  <1>5. ASSUME Len(c) < Len(s)
        PROVE  Len(s) = Len(c) + 2 /\ s[Len(c) + 1] = Dash /\ s[Len(c) + 2] = 48
    <2>1. Len(c) + 2 <= Len(s) /\ Len(c) + 1 \in 1..Len(s) /\ Len(c) + 2 \in 1..Len(s)
      BY <1>1, <1>2, <1>3, <1>5
    <2>2. ToUpper(s[Len(c) + 1]) = Dash /\ ToUpper(s[Len(c) + 2]) = 48
      BY <1>1, <1>2, <1>5, <2>1
    <2>3. s[Len(c) + 1] = Dash /\ s[Len(c) + 2] = 48
      BY <1>3, <2>1, <2>2, UpperChars
    <2>4. ~(Len(c) + 1 \in 1..(Len(s) - 2))
      <3> SUFFICES ASSUME Len(c) + 1 \in 1..(Len(s) - 2) PROVE FALSE
        OBVIOUS
      <3>1. (Len(c) + 1) + 1 = Len(c) + 2
        BY <1>3
      <3> QED
        BY <2>3, <3>1 DEF LeadingZero
    <2> QED
      BY <1>3, <2>1, <2>3, <2>4
  <1>6. \A i \in 1..Len(c) : ToUpper(c[i]) = ToUpper(s[i])
    BY <1>3, <1>4, UpperChars
  <1>7. Extends(c, s)
    BY <1>1, <1>2, <1>5, <1>6 DEF Extends
  <1> QED
    BY <1>1, <1>2, <1>3, <1>4, <1>5, <1>7 DEF u, c

\* It keeps its address.
LEMMA StripSameAddress ==
  ASSUME NEW s \in Text, ~LeadingZero(s), EncodeEntry(StripDashZero(Strupr(s))) # NoEntry
  PROVE  EncodeEntry(s) = EncodeEntry(StripDashZero(Strupr(s)))
  BY StripShape, EncodeExtends

\* A text of letters and digits is a usable callsign.
LEMMA PlainEncodes ==
  ASSUME NEW c \in Text, Len(c) <= CallLen, \A i \in 1..Len(c) : c[i] \in Alnum
  PROVE  EncodeEntry(c) # NoEntry
  <1>1. Len(c) \in Nat /\ CallLen \in Nat
    BY TextIsFunction, SizesAssumption DEF SizesAssumption
  <1>2. 1 \in 1..(Len(c) + 1) /\ Len(c) + 1 \in 1..(Len(c) + 1) /\ ~(Len(c) + 1 <= Len(c))
    BY <1>1
  <1>3. \A j \in 1..((Len(c) + 1) - 1) : c[j] \notin {Dash}
    <2>1. (Len(c) + 1) - 1 = Len(c)
      BY <1>1
    <2>2. Dash \notin Alnum
      BY DEF Alnum, Digit, Upper, Lower, Dash
    <2> QED
      BY <2>1, <2>2
  <1>4. FirstIn({Dash}, c, 1) = Len(c) + 1
    BY <1>2, <1>3, FirstInIs
  <1>5. Stem(c) = Len(c)
    BY <1>1, <1>4 DEF Stem, LesserOf
  <1>6. SsidPart(c) = <<0>>
    BY <1>5 DEF SsidPart
  <1>7. Encodes(c)
    BY <1>5, <1>6 DEF Encodes
  <1> QED
    BY <1>7, EncodeParts

\* load_ports keeps every callsign usable.
LEMMA StripEncodes ==
  ASSUME NEW s \in Text, ~LeadingZero(s), IsCallsign(s)
  PROVE  EncodeEntry(StripDashZero(Strupr(s))) # NoEntry
  <1> DEFINE c == StripDashZero(Strupr(s))
             dash == FirstIn({Dash}, s, 1)
  <1>1. /\ c \in Text /\ Len(c) \in Nat /\ Len(s) \in Nat /\ Len(c) <= Len(s)
        /\ \A i \in 1..Len(c) : c[i] = ToUpper(s[i])
        /\ Len(c) < Len(s) => Len(s) = Len(c) + 2 /\ s[Len(c) + 1] = Dash
        /\ Extends(c, s)
    BY StripShape
  <1> HIDE DEF c
  <1>2. CASE Len(c) = Len(s)
    <2>1. EncodeEntry(s) # NoEntry
      BY CallsignParts, AddrParts
    <2>2. EncodeEntry(c) = EncodeEntry(s)
      BY <1>1, <1>2, EncodeAlike DEF Extends
    <2> QED
      BY <2>1, <2>2 DEF c
  <1>3. CASE Len(c) < Len(s)
    <2>1. /\ dash \in 1..(Len(s) + 1) /\ (HasDash(s) <=> dash <= Len(s))
          /\ Base(s) \in Text /\ Len(Base(s)) = dash - 1
          /\ \A i \in 1..(dash - 1) : Base(s)[i] = s[i] /\ s[i] # Dash
          /\ dash <= Len(s) => /\ SsidText(s) \in Text /\ Len(SsidText(s)) = Len(s) - dash
                               /\ \A i \in 1..(Len(s) - dash) : SsidText(s)[i] = s[dash + i]
      BY BaseParts
    <2>2. /\ Len(Base(s)) <= CallLen /\ ToSet(Base(s)) \subseteq Alnum
          /\ HasDash(s) => ToSet(SsidText(s)) \subseteq Digit
      BY DEF IsCallsign
    <2> HIDE DEF dash
    <2>3. dash <= Len(c) + 1
      <3> SUFFICES ASSUME ~(dash <= Len(c) + 1) PROVE FALSE
        OBVIOUS
      <3>1. Len(c) + 1 \in 1..(dash - 1)
        BY <1>1, <2>1
      <3> QED
        BY <1>1, <1>3, <2>1, <3>1
    <2>4. ~(dash < Len(c) + 1)
      <3> SUFFICES ASSUME dash < Len(c) + 1 PROVE FALSE
        OBVIOUS
      <3> DEFINE i == Len(c) + 1 - dash
      <3>1. dash <= Len(s) /\ i \in 1..(Len(s) - dash) /\ dash + i = Len(c) + 1
        BY <1>1, <1>3, <2>1
      <3> HIDE DEF i
      <3>2. SsidText(s)[i] = Dash /\ i \in 1..Len(SsidText(s)) /\ SsidText(s) \in Text
        BY <1>1, <1>3, <2>1, <3>1
      <3>3. SsidText(s)[i] \in Digit
        BY <2>1, <2>2, <3>1, <3>2, TextIsFunction DEF ToSet
      <3> QED
        BY <3>2, <3>3 DEF Dash, Digit
    <2>5. dash = Len(c) + 1
      BY <1>1, <2>1, <2>3, <2>4
    <2>6. Len(Base(s)) = Len(c)
      BY <1>1, <2>1, <2>5
    <2>7. \A i \in 1..Len(c) : c[i] \in Alnum
      <3> TAKE i \in 1..Len(c)
      <3>1. i \in 1..(dash - 1) /\ i \in 1..Len(Base(s)) /\ i \in 1..Len(s)
        BY <1>1, <2>5, <2>6
      <3>2. s[i] \in Alnum
        BY <2>1, <2>2, <3>1, TextIsFunction DEF ToSet
      <3>3. s[i] \in 0..127
        BY <3>1, TextIsFunction
      <3>4. ToUpper(s[i]) \in Alnum
        BY <3>2, <3>3, UpperChars
      <3> QED
        BY <1>1, <3>4
    <2> QED
      BY <1>1, <2>2, <2>6, <2>7, PlainEncodes DEF c
  <1> QED
    BY <1>1, <1>2, <1>3

\* A port that stands for a line, and one that a line made.
SameAddress(line, p) == CmpEntry(EncodeEntry(line.call), EncodeEntry(p.call)) = 0
Covered(line, t) == \E k \in 1..Len(t) : SameAddress(line, t[k]) \/ Strupr(t[k].name) = Strupr(line.name)
MadeFrom(line, p) == p.name = line.name /\ (~LeadingZero(line.call) => SameAddress(line, p))

\* A line that is well formed is covered once it is read.
LEMMA LineCovered ==
  ASSUME NEW t \in PortTables, NEW line \in PortLine, WellFormed(line), ~LeadingZero(line.call)
  PROVE  Covered(line, AddPort(t, line))
  <1> DEFINE call == StripDashZero(Strupr(line.call))
  <1>1. line.call \in Text /\ IsCallsign(line.call) /\ PortFrom(line) \in PortLine /\ PortFrom(line).name = line.name
    BY PortFromLine DEF WellFormed
  <1>2. EncodeEntry(call) # NoEntry
    BY <1>1, StripEncodes
  <1>3. EncodeEntry(line.call) = EncodeEntry(call)
    BY <1>1, <1>2, StripSameAddress
  <1>4. AddPort(t, line) = IF Duplicate(t, line.name, call) THEN t ELSE Append(t, PortFrom(line))
    BY <1>2 DEF AddPort, PortFrom, WellFormed
  <1>5. t \in Seq(PortLine) /\ Len(t) \in Nat /\ DOMAIN t = 1..Len(t)
    BY LenProperties DEF PortTables
  <1> HIDE DEF call
  <1>6. CASE Duplicate(t, line.name, call)
    <2>1. PICK k \in 1..Len(t) : Strupr(t[k].name) = Strupr(line.name) \/ t[k].call = call
      BY <1>5, <1>6 DEF Duplicate
    <2>2. t[k].call = call => SameAddress(line, t[k])
      BY <1>3 DEF SameAddress, CmpEntry
    <2> QED
      BY <1>4, <1>6, <2>1, <2>2 DEF Covered
  <1>7. CASE ~Duplicate(t, line.name, call)
    <2> DEFINE a == Append(t, PortFrom(line))
    <2>1. Len(a) = Len(t) + 1 /\ a[Len(t) + 1] = PortFrom(line)
      BY <1>1, <1>5, OneMore
    <2> HIDE DEF a
    <2>2. Len(t) + 1 \in 1..Len(a) /\ Strupr(a[Len(t) + 1].name) = Strupr(line.name)
      BY <1>1, <1>5, <2>1
    <2>3. Covered(line, a)
      BY <2>2 DEF Covered
    <2> QED
      BY <1>4, <1>7, <2>3 DEF a
  <1> QED
    BY <1>6, <1>7

\* A line that makes a port is where that port came from.
LEMMA PortMade ==
  ASSUME NEW line \in PortLine, KeptCall(PortFrom(line).call)
  PROVE  MadeFrom(line, PortFrom(line))
  <1>1. line.call \in Text /\ PortFrom(line).name = line.name /\ PortFrom(line).call = StripDashZero(Strupr(line.call))
    BY PortFromLine
  <1>2. ASSUME ~LeadingZero(line.call) PROVE SameAddress(line, PortFrom(line))
    <2>1. EncodeEntry(line.call) = EncodeEntry(PortFrom(line).call)
      BY <1>1, <1>2, StripSameAddress DEF KeptCall
    <2> QED
      BY <2>1 DEF SameAddress, CmpEntry
  <1> QED
    BY <1>1, <1>2 DEF MadeFrom


\* Line after line: what was read is covered, and every port comes from what was read.
LEMMA LinesKept ==
  ASSUME NEW lines \in Seq(PortLine)
  PROVE  /\ \A i \in 1..Len(lines) : WellFormed(lines[i]) /\ ~LeadingZero(lines[i].call) =>
                Covered(lines[i], ParseAxports(lines))
         /\ \A k \in 1..Len(ParseAxports(lines)) : \E i \in 1..Len(lines) :
                MadeFrom(lines[i], ParseAxports(lines)[k])
  <1> DEFINE N == Len(lines)
             Wanted(i) == WellFormed(lines[i]) /\ ~LeadingZero(lines[i].call)
  <1>1. N \in Nat /\ \A n \in 1..N : lines[n] \in PortLine
    BY LenProperties, ElementOfSeq
  <1>2. PICK h \in [0..N -> PortTables] :
           /\ h[0] = <<>> /\ \A n \in 1..N : h[n] = AddPort(h[n - 1], lines[n])
           /\ ParseAxports(lines) = h[N]
    BY AxportsRecursion
  <1> HIDE DEF N
  <1> DEFINE T == {n \in 0..N : /\ \A i \in 1..n : Wanted(i) => Covered(lines[i], h[n])
                                /\ \A k \in 1..Len(h[n]) : \E i \in 1..n : MadeFrom(lines[i], h[n][k])}
  <1>3. 0 \in T
    <2>1. Len(h[0]) = 0 /\ 0 \in 0..N
      BY <1>1, <1>2
    <2> QED
      BY <2>1
  <1>4. \A n \in 0..(N - 1) : n \in T => n + 1 \in T
    <2> SUFFICES ASSUME NEW n \in 0..(N - 1), n \in T PROVE n + 1 \in T
      OBVIOUS
    <2>1. n + 1 \in 1..N /\ (n + 1) - 1 = n /\ n + 1 \in 0..N /\ n \in 0..N /\ n \in Nat
      BY <1>1
    <2> DEFINE line == lines[n + 1]
               t == h[n]
               a == h[n + 1]
    <2>2. t \in PortTables /\ a \in PortTables /\ line \in PortLine /\ a = AddPort(t, line)
      BY <1>1, <1>2, <2>1
    <2>3. /\ \A i \in 1..n : Wanted(i) => Covered(lines[i], t)
          /\ \A k \in 1..Len(t) : \E i \in 1..n : MadeFrom(lines[i], t[k])
      OBVIOUS
    <2>4. Wanted(n + 1) => Covered(line, a)
      BY <2>2, LineCovered
    <2>5. a = t \/ a = Append(t, PortFrom(line))
      BY <2>2, AddPortKeeps
    <2> HIDE DEF line, t, a, Wanted, T
    <2>6. SUFFICES /\ \A i \in 1..n : Wanted(i) => Covered(lines[i], a)
                   /\ \A k \in 1..Len(a) : \E i \in 1..(n + 1) : MadeFrom(lines[i], a[k])
      <3>1. \A i \in 1..(n + 1) : i \in 1..n \/ i = n + 1
        BY <2>1
      <3>2. \A i \in 1..(n + 1) : Wanted(i) => Covered(lines[i], a)
        BY <2>4, <2>6, <3>1 DEF line
      <3> QED
        BY <2>1, <2>6, <3>2 DEF T, a
    <2>7. \A i \in 1..n : i \in 1..(n + 1)
      BY <2>1
    <2>8. CASE a = t
      BY <2>3, <2>7, <2>8
    <2>9. CASE a = Append(t, PortFrom(line))
      <3>1. t \in Seq(PortLine) /\ PortFrom(line) \in PortLine
        BY <2>2, PortFromLine DEF PortTables
      <3>2. /\ Len(t) \in Nat /\ Len(a) = Len(t) + 1 /\ \A k \in 1..Len(t) : a[k] = t[k]
            /\ a[Len(t) + 1] = PortFrom(line)
        BY <2>9, <3>1, OneMore
      <3>3. \A k \in 1..Len(a) : k \in 1..Len(t) \/ k = Len(t) + 1
        BY <3>2
      <3>4. \A k \in 1..Len(t) : k \in 1..Len(a)
        BY <3>2
      <3>5. ASSUME NEW i \in 1..n, Wanted(i) PROVE Covered(lines[i], a)
        <4>1. PICK k \in 1..Len(t) : \/ SameAddress(lines[i], t[k])
                                     \/ Strupr(t[k].name) = Strupr(lines[i].name)
          BY <2>3, <3>5 DEF Covered
        <4> QED
          BY <3>2, <3>4, <4>1 DEF Covered
      <3>6. ASSUME NEW k \in 1..Len(a) PROVE \E i \in 1..(n + 1) : MadeFrom(lines[i], a[k])
        <4>1. CASE k \in 1..Len(t)
          BY <2>3, <2>7, <3>2, <4>1
        <4>2. CASE k = Len(t) + 1
          <5>1. KeptCall(a[k].call) /\ a[k] = PortFrom(line)
            BY <2>2, <3>2, <4>2 DEF PortTables
          <5>2. MadeFrom(line, a[k])
            BY <2>2, <5>1, PortMade
          <5>3. n + 1 \in 1..(n + 1)
            BY <2>1
          <5> QED
            BY <5>2, <5>3 DEF line
        <4> QED
          BY <3>3, <4>1, <4>2
      <3> QED
        BY <3>5, <3>6
    <2> QED
      BY <2>5, <2>8, <2>9
  <1>5. N \in T
    <2> HIDE DEF T
    <2>1. \A n \in 0..N : n \in T
      BY <1>1, <1>3, <1>4, IntervalInduction
    <2>2. N \in 0..N
      BY <1>1
    <2> QED
      BY <2>1, <2>2
  <1> QED
    BY <1>2, <1>5 DEF N

\* What load_ports makes of the file.
LEMMA FileKept ==
  ASSUME file \in Seq(PortLine)
  PROVE  AxportsKept
  <1> DEFINE loaded == ParseAxports(file)
  <1>1. /\ loaded \in Seq(PortLine) /\ Len(loaded) \in Nat /\ DOMAIN loaded = 1..Len(loaded)
        /\ \A i, j \in 1..Len(loaded) : i # j => Strupr(loaded[i].name) # Strupr(loaded[j].name)
    BY ParsedTables, LenProperties DEF PortTables
  <1>2. DOMAIN file = 1..Len(file)
    BY LenProperties
  <1>3. /\ \A i \in 1..Len(file) : WellFormed(file[i]) /\ ~LeadingZero(file[i].call) => Covered(file[i], loaded)
        /\ \A k \in 1..Len(loaded) : \E i \in 1..Len(file) : MadeFrom(file[i], loaded[k])
    BY LinesKept
  <1> HIDE DEF loaded
  <1>4. /\ \A i \in DOMAIN file : WellFormed(file[i]) /\ ~LeadingZero(file[i].call) =>
              \E k \in DOMAIN loaded :
                 \/ CmpEntry(EncodeEntry(file[i].call), EncodeEntry(loaded[k].call)) = 0
                 \/ Strupr(loaded[k].name) = Strupr(file[i].name)
        /\ \A k \in DOMAIN loaded : \E i \in DOMAIN file :
              /\ loaded[k].name = file[i].name
              /\ ~LeadingZero(file[i].call) => CmpEntry(EncodeEntry(file[i].call), EncodeEntry(loaded[k].call)) = 0
    BY <1>1, <1>2, <1>3 DEF Covered, MadeFrom, SameAddress
  <1>5. \A j, k \in DOMAIN loaded : loaded[j].name = loaded[k].name => j = k
    BY <1>1
  <1> QED
    BY <1>4, <1>5 DEF AxportsKept, loaded


---------------------------------------------------------------------------
(* A port is found by its address.                                         *)

\* A callsign as load_ports keeps it is in upper case and has no "-0".
LEMMA KeptShape ==
  ASSUME NEW c, KeptCall(c)
  PROVE  /\ c \in Text /\ Strupr(c) = c
         /\ \A k \in 1..(Len(c) - 1) : ~(c[k] = Dash /\ c[k + 1] = 48)
  <1>1. PICK s \in Text : c = StripDashZero(Strupr(s))
    BY DEF KeptCall
  <1> DEFINE u == Strupr(s)
  <1>2. u \in Text /\ Len(u) = Len(s) /\ \A i \in 1..Len(s) : u[i] = ToUpper(s[i])
    BY StruprText
  <1>3. Len(s) \in Nat /\ \A i \in 1..Len(s) : s[i] \in 0..127
    BY TextIsFunction
  <1>4. c = StripDashZero(u)
    BY <1>1
  <1> HIDE DEF u
  <1>5. /\ c \in Text /\ Len(c) <= Len(u) /\ \A i \in 1..Len(c) : c[i] = u[i]
        /\ \A k \in 1..(Len(c) - 1) : ~(c[k] = Dash /\ c[k + 1] = 48)
    BY <1>2, <1>4, StripDashZeroText
  <1>6. Len(c) \in Nat
    BY <1>5, TextIsFunction
  <1>7. \A i \in 1..Len(c) : ToUpper(c[i]) = c[i]
    <2> TAKE i \in 1..Len(c)
    <2>1. i \in 1..Len(s)
      BY <1>2, <1>3, <1>5, <1>6
    <2>2. c[i] = ToUpper(s[i]) /\ s[i] \in 0..127
      BY <1>2, <1>3, <1>5, <2>1
    <2> QED
      BY <2>2, UpperChars, ZenonT(40)
  <1>8. Strupr(c) = c
    <2>1. Strupr(c) \in Text /\ Len(Strupr(c)) = Len(c) /\ \A i \in 1..Len(c) : Strupr(c)[i] = c[i]
      BY <1>5, <1>7, StruprText
    <2> QED
      BY <1>5, <2>1, SeqEqual DEF Text
  <1> QED
    BY <1>5, <1>8

\* Nothing is stripped from it.
LEMMA KeptNorm ==
  ASSUME NEW c, KeptCall(c)
  PROVE  Norm(c) = c
  <1> DEFINE dash == FirstIn({Dash}, c, 1)
             x == SubSeq(c, dash, Len(c))
  <1>1. /\ c \in Text /\ Strupr(c) = c
        /\ \A k \in 1..(Len(c) - 1) : ~(c[k] = Dash /\ c[k + 1] = 48)
    BY KeptShape
  <1>2. Len(c) \in Nat /\ 1 \in 1..(Len(c) + 1) /\ Len(c) \in 0..Len(c)
    BY <1>1, TextIsFunction
  <1>3. dash \in 1..(Len(c) + 1)
    BY <1>1, <1>2, FirstInPlace
  <1>4. Norm(c) = IF x = <<Dash, 48>> THEN SubSeq(c, 1, dash - 1) ELSE c
    BY <1>1 DEF Norm
  <1> HIDE DEF dash
  <1>5. /\ Len(x) = IF dash <= Len(c) THEN Len(c) - dash + 1 ELSE 0
        /\ \A i \in 1..(Len(c) - dash + 1) : x[i] = c[dash + i - 1]
    BY <1>1, <1>2, <1>3, TextPart
  <1> HIDE DEF x
  <1>6. ASSUME x = <<Dash, 48>> PROVE FALSE
    <2>1. Len(x) = 2 /\ x[1] = Dash /\ x[2] = 48
      BY <1>6
    <2>2. Len(c) - dash + 1 = 2 /\ dash \in 1..(Len(c) - 1)
      <3> DEFINE n == Len(c)
                 m == Len(x)
      <3>1. n \in Nat /\ dash \in 1..(n + 1) /\ m = 2 /\ m = IF dash <= n THEN n - dash + 1 ELSE 0
        BY <1>2, <1>3, <1>5, <2>1
      <3> HIDE DEF n, m
      <3>2. n - dash + 1 = 2 /\ dash \in 1..(n - 1)
        BY <3>1
      <3> QED
        BY <3>2 DEF n
    <2>3. x[1] = c[dash + 1 - 1] /\ x[2] = c[dash + 2 - 1]
      BY <1>5, <2>2
    <2>4. dash + 1 - 1 = dash /\ dash + 2 - 1 = dash + 1
      BY <1>3
    <2> QED
      BY <1>1, <2>1, <2>2, <2>3, <2>4
  <1> QED
    BY <1>4, <1>6

\* It is in canonical form.
LEMMA KeptCanonical ==
  ASSUME NEW c, KeptCall(c), IsCallsign(c)
  PROVE  /\ c = Written(Strupr(Base(c)), SsidOf(c))
         /\ Strupr(Base(c)) \in Stems /\ SsidOf(c) \in 0..15
         /\ EncodeEntry(c) = Addr(Strupr(Base(c)), SsidOf(c))
  <1> DEFINE dash == FirstIn({Dash}, c, 1)
             b == Base(c)
             u == Strupr(b)
             d == SsidText(c)
             v == SsidOf(c)
  <1>1. /\ c \in Text /\ Strupr(c) = c
        /\ \A k \in 1..(Len(c) - 1) : ~(c[k] = Dash /\ c[k + 1] = 48)
    BY KeptShape
  <1>2. u \in Stems /\ v \in 0..15 /\ EncodeEntry(c) = Addr(u, v)
    BY <1>1, CallsignParts
  <1>3. /\ dash \in 1..(Len(c) + 1) /\ (HasDash(c) <=> dash <= Len(c))
        /\ dash <= Len(c) => c[dash] = Dash
        /\ b \in Text /\ Len(b) = dash - 1
        /\ \A i \in 1..(dash - 1) : b[i] = c[i] /\ c[i] # Dash
        /\ dash <= Len(c) => /\ d \in Text /\ Len(d) = Len(c) - dash
                             /\ \A i \in 1..(Len(c) - dash) : d[i] = c[dash + i]
    BY <1>1, BaseParts
  <1>4. HasDash(c) => d # <<>> /\ ToSet(d) \subseteq Digit /\ Value(d) <= 15
    BY DEF IsCallsign
  <1>5. v = IF HasDash(c) THEN Value(d) ELSE 0
    BY DEF SsidOf
  <1>6. Len(c) \in Nat /\ \A i \in 1..Len(c) : c[i] \in 0..127 /\ ToUpper(c[i]) = c[i]
    BY <1>1, TextIsFunction, StruprText
  <1>7. u \in Text /\ Len(u) = Len(b) /\ \A i \in 1..Len(b) : u[i] = ToUpper(b[i])
    BY <1>3, StruprText
  <1> HIDE DEF dash, b, u, d, v
  <1>8. Len(u) = dash - 1 /\ \A i \in 1..(dash - 1) : u[i] = c[i]
    <2>1. Len(u) = dash - 1 /\ Len(b) = dash - 1
      BY <1>3, <1>7
    <2>2. ASSUME NEW i \in 1..(dash - 1) PROVE u[i] = c[i]
      <3>1. i \in 1..Len(c) /\ i \in 1..Len(b)
        BY <1>3, <1>6, <2>1
      <3> QED
        BY <1>3, <1>6, <1>7, <3>1
    <2> QED
      BY <2>1, <2>2
  <1>9. CASE ~HasDash(c)
    <2>1. dash - 1 = Len(c) /\ v = 0
      BY <1>3, <1>5, <1>6, <1>9
    <2>2. u = c
      BY <1>1, <1>7, <1>8, <2>1, SeqEqual DEF Text
    <2>3. Written(u, v) = u \o <<>>
      BY <2>1 DEF Written
    <2>4. u \o <<>> = u
      BY <1>7, ConcatEmptySeq DEF Text
    <2>5. c = Written(u, v)
      BY <2>2, <2>3, <2>4
    <2> QED
      BY <1>2, <2>5 DEF u, b, v
  <1>10. CASE HasDash(c)
    <2>1. dash <= Len(c) /\ v = Value(d) /\ Value(d) <= 15
      BY <1>3, <1>4, <1>5, <1>10
    <2>2. d \in Seq(Digit) /\ d # <<>>
      BY <1>3, <1>4, <1>10, <2>1, TextOfDigits
    <2>3. Len(d) \in Nat /\ Len(d) >= 1
      BY <2>2, EmptySeq, LenProperties
    <2>4. d[1] # 48
      <3>1. dash \in 1..(Len(c) - 1) /\ 1 \in 1..(Len(c) - dash)
        BY <1>3, <1>6, <2>1, <2>3
      <3> QED
        BY <1>1, <1>3, <2>1, <3>1
    <2>5. Value(d) \in 1..15 /\ d = Decimal(Value(d))
      BY <2>1, <2>2, <2>4, DecimalOfValue
    <2>6. Written(u, v) = u \o (<<Dash>> \o d)
      <3>1. v \in 1..15
        BY <2>1, <2>5, Zenon
      <3>2. v # 0
        BY <3>1
      <3>3. Decimal(v) = d
        BY <2>1, <2>5, Zenon
      <3> QED
        BY <3>2, <3>3 DEF Written
    <2> DEFINE w == <<Dash>> \o d
    <2>7. <<Dash>> \in Text /\ Len(<<Dash>>) = 1 /\ <<Dash>>[1] = Dash
      BY DEF Text, Dash
    <2>8. /\ w \in Text /\ Len(w) = 1 + Len(d)
          /\ \A i \in 1..(1 + Len(d)) : w[i] = IF i <= 1 THEN <<Dash>>[i] ELSE d[i - 1]
      BY <1>3, <2>1, <2>7, TextConcat
    <2> HIDE DEF w
    <2>9. /\ u \o w \in Text /\ Len(u \o w) = Len(u) + Len(w)
          /\ \A i \in 1..(Len(u) + Len(w)) : (u \o w)[i] = IF i <= Len(u) THEN u[i] ELSE w[i - Len(u)]
      BY <1>7, <2>8, TextConcat
    <2>10. Len(u) + Len(w) = Len(c)
      BY <1>3, <1>6, <1>8, <2>1, <2>8
    <2>11. ASSUME NEW i \in 1..Len(c) PROVE (u \o w)[i] = c[i]
      <3>0. (u \o w)[i] = IF i <= Len(u) THEN u[i] ELSE w[i - Len(u)]
        BY <2>9, <2>10
      <3>1. CASE i < dash
        <4>1. i \in 1..(dash - 1) /\ i <= Len(u)
          BY <1>3, <1>6, <1>8, <3>1
        <4> QED
          BY <1>8, <3>0, <4>1
      <3>2. CASE i = dash
        <4>1. ~(i <= Len(u)) /\ i - Len(u) = 1 /\ 1 \in 1..(1 + Len(d))
          BY <1>3, <1>6, <1>8, <2>3, <3>2
        <4>2. w[1] = Dash
          BY <2>7, <2>8, <4>1
        <4> QED
          BY <1>3, <2>1, <3>0, <3>2, <4>1, <4>2
      <3>3. CASE i > dash
        <4> DEFINE j == i - dash
        <4>1. ~(i <= Len(u)) /\ i - Len(u) = j + 1 /\ j \in 1..(Len(c) - dash) /\ dash + j = i
          BY <1>3, <1>6, <1>8, <3>3
        <4> HIDE DEF j
        <4>2. j + 1 \in 1..(1 + Len(d)) /\ ~(j + 1 <= 1) /\ (j + 1) - 1 = j
          BY <1>3, <1>6, <2>1, <4>1
        <4>3. w[j + 1] = d[j]
          BY <2>8, <4>2
        <4>4. d[j] = c[i]
          BY <1>3, <2>1, <4>1
        <4> QED
          BY <3>0, <4>1, <4>3, <4>4
      <3>4. i < dash \/ i = dash \/ i > dash
        BY <1>3, <1>6
      <3> QED
        BY <3>1, <3>2, <3>3, <3>4
    <2>12. u \o w = c
      <3>1. Len(u \o w) = Len(c)
        BY <2>9, <2>10
      <3>2. \A i \in 1..Len(u \o w) : (u \o w)[i] = c[i]
        BY <2>11, <3>1
      <3> QED
        BY <1>1, <2>9, <3>1, <3>2, SeqEqual DEF Text
    <2>13. c = Written(u, v)
      BY <2>6, <2>12 DEF w
    <2> QED
      BY <1>2, <2>13 DEF u, b, v
  <1> QED
    BY <1>9, <1>10

\* The port with this address, and the port with this callsign.
LEMMA PortByAddress ==
  ASSUME ports \in PortTables
  PROVE  PortForAddress
  <1> SUFFICES ASSUME \A i \in DOMAIN ports : IsCallsign(ports[i].call), NEW i \in DOMAIN ports
               PROVE  LET a == EncodeEntry(ports[i].call)
                      IN /\ PortOf(a) = IF CmpEntry(a, NullAddress) = 0 THEN Star ELSE ports[i].name
                         /\ FindIndex(DecodeEntry(a)) # i =>
                               \E k \in 1..(i - 1) : IsSameCall(ports[i].call, ports[k].name)
    BY DEF PortForAddress
  <1> DEFINE U(j) == Strupr(Base(ports[j].call))
             V(j) == SsidOf(ports[j].call)
             c == ports[i].call
             a == EncodeEntry(c)
  <1>1. /\ Len(ports) \in Nat /\ DOMAIN ports = 1..Len(ports)
        /\ \A j \in 1..Len(ports) : KeptCall(ports[j].call)
        /\ \A j, k \in 1..Len(ports) : j # k => ports[j].call # ports[k].call
    BY LenProperties DEF PortTables
  <1>2. \A j \in DOMAIN ports : /\ ports[j].call = Written(U(j), V(j)) /\ U(j) \in Stems /\ V(j) \in 0..15
                                /\ EncodeEntry(ports[j].call) = Addr(U(j), V(j))
    BY <1>1, KeptCanonical
  <1> HIDE DEF U, V
  <1>3. ASSUME NEW j \in DOMAIN ports, CmpEntry(a, EncodeEntry(ports[j].call)) = 0
        PROVE  j = i
    <2>1. U(j) = U(i) /\ V(j) = V(i)
      BY <1>2, <1>3, AddrSame
    <2>2. ports[j].call = c
      BY <1>2, <2>1
    <2> QED
      BY <1>1, <2>2
  <1>4. PortOf(a) = IF CmpEntry(a, NullAddress) = 0 THEN Star ELSE ports[i].name
    <2> DEFINE match == {j \in DOMAIN ports : CmpEntry(a, EncodeEntry(ports[j].call)) = 0}
    <2>1. i \in match
      BY DEF CmpEntry
    <2>2. match \subseteq Nat /\ match # {} /\ \A j \in match : j = i
      BY <1>1, <1>3, <2>1
    <2>3. PortOf(a) = IF CmpEntry(a, NullAddress) = 0 THEN Star
                      ELSE IF match = {} THEN NoName ELSE ports[Min(match)].name
      BY DEF PortOf
    <2> HIDE DEF match, a
    <2>4. Min(match) = i
      BY <2>2, MinNat
    <2> QED
      BY <2>2, <2>3, <2>4
  <1>5. DecodeEntry(a) = c
    <2>1. DecodeEntry(Addr(U(i), V(i))) = Written(U(i), V(i))
      BY <1>2, DecodeAddr
    <2> QED
      BY <1>2, <2>1
  <1>6. ASSUME FindIndex(c) # i PROVE \E k \in 1..(i - 1) : IsSameCall(c, ports[k].name)
    <2> DEFINE match == {j \in DOMAIN ports : \/ Strupr(ports[j].name) = Strupr(c)
                                              \/ IsSameCall(ports[j].call, c)}
               T == match \cup {IF match = {} THEN 0 ELSE Len(ports)}
               m == Min(T)
    <2>1. FindIndex(c) = m
      BY DEF FindIndex
    <2>2. i \in match
      BY DEF IsSameCall
    <2>3. match \subseteq 1..Len(ports) /\ match # {}
      BY <1>1, <2>2
    <2>4. \A j \in match : Strupr(ports[j].name) = Strupr(c) \/ IsSameCall(ports[j].call, c)
      OBVIOUS
    <2> HIDE DEF match
    <2>5. T \subseteq Nat /\ T # {}
      <3>1. T = match \cup {Len(ports)}
        BY <2>3
      <3>2. match \subseteq Nat
        BY <1>1, <2>3
      <3> QED
        BY <1>1, <3>1, <3>2
    <2>6. m \in T /\ \A y \in T : m <= y
      <3> HIDE DEF T
      <3> QED
        BY <2>5, MinNat
    <2>7. (m \in match \/ m = Len(ports)) /\ m <= i
      BY <2>2, <2>3, <2>6
    <2> HIDE DEF m, T
    <2>8. m # i
      BY <1>6, <2>1
    <2>9. m \in match /\ m \in 1..(i - 1) /\ m \in 1..Len(ports)
      <3> DEFINE n == Len(ports)
      <3>1. n \in Nat /\ i \in 1..n /\ m <= i /\ m # i /\ (m \in match \/ m = n) /\ match \subseteq 1..n
        BY <1>1, <2>3, <2>7, <2>8
      <3> HIDE DEF n
      <3>2. m # n
        BY <3>1
      <3>3. m \in match /\ m \in 1..n
        BY <3>1, <3>2
      <3>4. m \in 1..(i - 1)
        BY <3>1, <3>3
      <3> QED
        BY <3>3, <3>4 DEF n
    <2>10. ASSUME IsSameCall(ports[m].call, c) PROVE FALSE
      <3>1. Norm(ports[m].call) = ports[m].call /\ Norm(c) = c
        BY <1>1, <2>9, KeptNorm
      <3>2. ports[m].call = c
        BY <2>10, <3>1 DEF IsSameCall
      <3> QED
        BY <1>1, <2>8, <2>9, <3>2
    <2>11. Strupr(ports[m].name) = Strupr(c)
      BY <2>4, <2>9, <2>10
    <2>12. IsSameCall(c, ports[m].name)
      BY <2>11 DEF IsSameCall, Norm
    <2> QED
      BY <2>9, <2>12
  <1> QED
    BY <1>4, <1>5, <1>6

\* Every well-formed line of axports whose SSID has no leading zero is a port
\* with that line's address, unless an earlier port has its name or callsign,
\* and ports come from nowhere else.  When no name reads as an earlier port's
\* callsign a walk visits every port once, and when the callsigns are callsigns
\* a port is found by its address.  Lines with a leading zero and walks over
\* ambiguous names are exempt: there the code does not keep this.
THEOREM PortsAlwaysFound ==
  Spec => []PortsFound
  <1>1. Init => TablesInv /\ WalkInv
    <2> SUFFICES ASSUME Init PROVE TablesInv /\ WalkInv
      OBVIOUS
    <2>1. TablesInv
      BY TablesInit
    <2>2. walk = <<>> /\ ports = <<>>
      BY DEF Init
    <2>3. WalkInv
      BY <2>2 DEF WalkInv
    <2> QED
      BY <2>1, <2>3
  <1>2. TablesInv /\ WalkInv /\ [Next]_vars => (TablesInv /\ WalkInv)'
    BY TablesStep, WalkStep
  <1>3. TablesInv /\ WalkInv => PortsFound
    BY FileKept, WalkVisits, PortByAddress DEF TablesInv, PortsFound
  <1> QED
    BY <1>1, <1>2, <1>3, PTL DEF Spec


---------------------------------------------------------------------------
(* Addresses survive the conversions.                                      *)

\* Lower case keeps the length.
LEMMA StrlwrText ==
  ASSUME NEW s \in Text
  PROVE  /\ Strlwr(s) \in Text /\ Len(Strlwr(s)) = Len(s)
         /\ \A i \in 1..Len(s) : Strlwr(s)[i] = ToLower(s[i])
  <1>1. Len(s) \in Nat /\ DOMAIN s = 1..Len(s) /\ \A i \in 1..Len(s) : s[i] \in 0..127
    BY TextIsFunction
  <1>2. Strlwr(s) = [i \in 1..Len(s) |-> ToLower(s[i])]
    BY <1>1 DEF Strlwr
  <1>3. \A i \in 1..Len(s) : ToLower(s[i]) \in 0..127
    BY <1>1, UpperChars
  <1> DEFINE u == [i \in 1..Len(s) |-> ToLower(s[i])]
  <1>4. u \in [1..Len(s) -> 0..127] /\ \A i \in 1..Len(s) : u[i] = ToLower(s[i])
    BY <1>3
  <1> HIDE DEF u
  <1>5. u \in Text /\ Len(u) = Len(s)
    BY <1>1, <1>4, FunctionIsText
  <1> QED
    BY <1>2, <1>4, <1>5 DEF u

\* A text encodes the same in lower and in upper case.
LEMMA CaseIgnored ==
  ASSUME NEW s \in Text
  PROVE  EncodeEntry(Strlwr(s)) = EncodeEntry(Strupr(s))
  <1> DEFINE l == Strlwr(s)
             u == Strupr(s)
  <1>1. l \in Text /\ Len(l) = Len(s) /\ \A i \in 1..Len(s) : l[i] = ToLower(s[i])
    BY StrlwrText
  <1>2. u \in Text /\ Len(u) = Len(s) /\ \A i \in 1..Len(s) : u[i] = ToUpper(s[i])
    BY StruprText
  <1>3. \A i \in 1..Len(s) : s[i] \in 0..127
    BY TextIsFunction
  <1> HIDE DEF l, u
  <1>4. \A i \in 1..Len(l) : ToUpper(l[i]) = ToUpper(u[i])
    <2> TAKE i \in 1..Len(l)
    <2>1. s[i] \in 0..127 /\ l[i] = ToLower(s[i]) /\ u[i] = ToUpper(s[i])
      BY <1>1, <1>2, <1>3
    <2>2. ToUpper(ToLower(s[i])) = ToUpper(ToUpper(s[i]))
      BY <2>1, UpperChars
    <2> QED
      BY <2>1, <2>2
  <1>5. EncodeEntry(l) = EncodeEntry(u)
    BY <1>1, <1>2, <1>4, EncodeAlike
  <1> QED
    BY <1>5 DEF l, u

\* sscanf finds no number in nothing.
LEMMA ScanNothing ==
  ASSUME NEW s \in Text, Len(s) = 0
  PROVE  ScanInt(s) = <<>>
  <1>1. /\ ScanFrom(s) \in 1..(0 + 1) /\ ScanEnd(s) \in ScanFrom(s)..(0 + 1)
        /\ ScanPart(s) \in Text /\ Len(ScanPart(s)) = ScanEnd(s) - ScanFrom(s)
        /\ ScanPart(s) = <<>> => ScanInt(s) = <<>>
    BY ScanShape
  <1>2. ScanEnd(s) - ScanFrom(s) = 0
    BY <1>1
  <1>3. ScanPart(s) = <<>>
    BY <1>1, <1>2, EmptySeq DEF Text
  <1> QED
    BY <1>1, <1>3

\* What encode_entry takes is a callsign, or what sscanf lets through.
LEMMA TakenIsSscanf ==
  ASSUME NEW t \in Text, EncodeEntry(t) # NoEntry, ~IsCallsign(t)
  PROVE  SscanfSays(t)
  <1> DEFINE n == Stem(t)
             dash == FirstIn({Dash}, t, 1)
             d == AfterCall(t)
  <1>1. n \in 0..Len(t) /\ n <= CallLen /\ Encodes(t)
    BY EncodeParts
  <1>2. /\ \A i \in 1..n : t[i] \in Alnum
        /\ SsidPart(t) # <<>> /\ SsidPart(t)[1] \in 0..15
    BY <1>1 DEF Encodes
  <1>3. SsidPart(t) = IF n = Len(t) THEN <<0>> ELSE ScanInt(d)
    BY DEF SsidPart, AfterCall
  <1>4. /\ dash \in 1..(Len(t) + 1) /\ (HasDash(t) <=> dash <= Len(t))
        /\ Base(t) \in Text /\ Len(Base(t)) = dash - 1
        /\ \A i \in 1..(dash - 1) : Base(t)[i] = t[i] /\ t[i] # Dash
        /\ dash <= Len(t) => /\ t[dash] = Dash
                             /\ SsidText(t) = SubSeq(t, dash + 1, Len(t))
    BY BaseParts DEF SsidText
  <1>5. n = LesserOf(CallLen, dash - 1) /\ CallLen \in Nat /\ Len(t) \in Nat
    BY TextIsFunction, SizesAssumption DEF Stem, SizesAssumption
  <1>6. n <= dash - 1 /\ (n = CallLen \/ n = dash - 1)
    <2> HIDE DEF n, dash
    <2> QED
      BY <1>4, <1>5 DEF LesserOf
  <1>7. d = SubSeq(t, n + 2, Len(t))
    BY DEF AfterCall
  <1> HIDE DEF n, dash, d
  <1>8. n = dash - 1 => Len(Base(t)) <= CallLen /\ ToSet(Base(t)) \subseteq Alnum
    <2> SUFFICES ASSUME n = dash - 1 PROVE Len(Base(t)) <= CallLen /\ ToSet(Base(t)) \subseteq Alnum
      OBVIOUS
    <2>1. Len(Base(t)) <= CallLen
      BY <1>1, <1>4
    <2>2. \A i \in 1..Len(Base(t)) : Base(t)[i] \in Alnum
      BY <1>2, <1>4
    <2>3. DOMAIN Base(t) = 1..Len(Base(t))
      BY <1>4, TextIsFunction
    <2> QED
      BY <2>1, <2>2, <2>3 DEF ToSet
  <1>9. n # Len(t)
    <2> SUFFICES ASSUME n = Len(t) PROVE FALSE
      OBVIOUS
    <2>1. dash = Len(t) + 1
      BY <1>4, <1>5, <1>6
    <2>2. n = dash - 1 /\ ~(dash <= Len(t))
      BY <1>5, <2>1
    <2>3. ~HasDash(t)
      BY <1>4, <2>2
    <2> QED
      BY <1>8, <2>2, <2>3 DEF IsCallsign
  <1>10. SUFFICES ASSUME t[n + 1] = Dash, ToSet(d) \subseteq Digit, ~(Value(d) >= IntMod)
                  PROVE  FALSE
    BY DEF SscanfSays, n, d
  <1>11. dash = n + 1 /\ dash <= Len(t) /\ HasDash(t)
    <2>1. n + 1 \notin 1..(dash - 1)
      BY <1>4, <1>10
    <2>2. dash = n + 1
      BY <1>1, <1>4, <1>5, <1>6, <2>1
    <2>3. dash <= Len(t)
      BY <1>1, <1>5, <1>9, <2>2
    <2> QED
      BY <1>4, <2>2, <2>3
  <1>12. SsidText(t) = d
    <2>1. dash + 1 = n + 2
      BY <1>1, <1>5, <1>11
    <2> QED
      BY <1>4, <1>7, <1>11, <2>1
  <1>13. d \in Text
    <2>1. n + 2 \in 1..(Len(t) + 1) /\ Len(t) \in 0..Len(t)
      BY <1>1, <1>5, <1>9
    <2> QED
      BY <1>7, <2>1, TextPart
  <1>14. d \in Seq(Digit)
    BY <1>10, <1>13, TextOfDigits
  <1>15. d # <<>>
    <2>1. d = <<>> => Len(d) = 0
      OBVIOUS
    <2> QED
      BY <1>2, <1>3, <1>9, <1>13, <2>1, ScanNothing
  <1>16. ScanInt(d) = <<AsI32(Value(d))>>
    BY <1>14, <1>15, ScanDigits
  <1>17. Value(d) \in Nat /\ Value(d) < IntMod
    <2>1. Value(d) \in Nat
      BY <1>14, ValueFacts
    <2>2. IntMod \in Nat
      BY SizesAssumption DEF SizesAssumption
    <2> QED
      BY <1>10, <2>1, <2>2
  <1>18. AsI32(Value(d)) \in 0..15
    BY <1>2, <1>3, <1>9, <1>16
  <1>19. Value(d) \in 0..15
    BY <1>17, <1>18, AsI32Small
  <1>20. Value(d) <= 15
    BY <1>19
  <1>21. n = dash - 1
    BY <1>1, <1>5, <1>11
  <1> QED
    BY <1>8, <1>10, <1>12, <1>15, <1>20, <1>21 DEF IsCallsign

\* The way of an address through the interposer: written as a callsign and
\* encoded again, by either copy of the conversion.
LEMMA AddrBack ==
  ASSUME NEW u \in Stems, NEW v \in 0..15
  PROVE  LET a == Addr(u, v)
             t == Written(u, v)
         IN /\ DecodeEntry(a) = t /\ t \in Text /\ IsCallsign(t)
            /\ EncodeEntry(t) = a /\ Encode(t) = a /\ ValidateEntry(a)
  <1> DEFINE a == Addr(u, v)
             t == Written(u, v)
  <1>1. DecodeEntry(a) = t
    BY DecodeAddr
  <1>2. t \in Text /\ IsCallsign(t) /\ Strupr(Base(t)) = u /\ SsidOf(t) = v
    BY WrittenIsCallsign
  <1>3. EncodeEntry(t) = Addr(Strupr(Base(t)), SsidOf(t)) /\ Encode(t) = Addr(Strupr(Base(t)), SsidOf(t))
    <2> HIDE DEF t
    <2> QED
      BY <1>2, CallsignParts
  <1>4. EncodeEntry(t) = a /\ Encode(t) = a
    BY <1>2, <1>3, Zenon
  <1>5. ValidateEntry(a)
    <2>1. \A i \in 1..CallLen : CharAt(a, i) = IF i <= Len(u) THEN u[i] ELSE Space
      BY AddrParts
    <2>2. Len(u) \in Nat /\ CallLen \in Nat /\ \A i \in 1..Len(u) : u[i] \in Upper \cup Digit
      BY StemFacts
    <2> HIDE DEF a
    <2>3. ASSUME NEW i \in 1..CallLen PROVE CharAt(a, i) \in Upper \cup Digit \cup {Space}
      <3>1. CASE i <= Len(u)
        <4>1. i \in 1..Len(u)
          BY <2>2, <3>1
        <4> QED
          BY <2>1, <2>2, <3>1, <4>1
      <3>2. CASE ~(i <= Len(u))
        BY <2>1, <3>2
      <3> QED
        BY <3>1, <3>2
    <2> QED
      BY <2>3 DEF ValidateEntry
  <1> QED
    BY <1>1, <1>2, <1>4, <1>5


\* The one digipeater of getsockname is read back, unless it is empty.
LEMMA OneKept ==
  ASSUME NEW w \in Text
  PROVE  Without(<<>>, [i \in 1..1 |-> w]) \in {<<w>>, <<>>}
  <1> DEFINE s == [i \in 1..1 |-> w]
  <1>1. s \in Seq(Text) /\ Len(s) = 1 /\ s[1] = w
    <2>1. s \in [1..1 -> Text] /\ s[1] = w /\ 1 \in Nat
      OBVIOUS
    <2> HIDE DEF s
    <2> QED
      BY <2>1, FunctionIsSeq
  <1> HIDE DEF s
  <1>2. PICK h \in [0..Len(s) -> Seq(Text)] : Keeps(h, <<>>, s) /\ Without(<<>>, s) = h[Len(s)]
    BY <1>1, WithoutRecursion
  <1>3. 1 \in 1..Len(s) /\ 1 - 1 = 0
    BY <1>1
  <1>4. h[0] = <<>> /\ h[1] = (IF s[1] = <<>> THEN h[0] ELSE Append(h[0], s[1]))
    <2>1. h[0] = <<>> /\ \A n \in 1..Len(s) : h[n] = (IF s[n] = <<>> THEN h[n - 1] ELSE Append(h[n - 1], s[n]))
      BY <1>2 DEF Keeps
    <2> QED
      BY <1>3, <2>1
  <1>5. Append(<<>>, w) = <<w>>
    OBVIOUS
  <1>6. h[1] \in {<<w>>, <<>>}
    BY <1>1, <1>4, <1>5
  <1> QED
    BY <1>1, <1>2, <1>6 DEF s

\* bind() and getsockname() on an address that was written from text.
LEMMA SocknameBack ==
  ASSUME NEW u \in Stems, NEW v \in 0..15
  PROVE  LET a == Addr(u, v)
             name == WriteSockname(Decode(a))
         IN name.call = a /\ ReadDigipeaters(name, MaxDigis) \in {<<Decode(a)>>, <<>>}
  <1> DEFINE a == Addr(u, v)
             t == Written(u, v)
             name == WriteSockname(t)
             count == Min({1, MaxDigis, MaxDigis})
  <1>1. Decode(a) = t /\ t \in Text /\ Encode(t) = a
    BY AddrBack DEF Decode
  <1>2. MaxDigis \in Nat /\ MaxDigis >= 1
    BY SizesAssumption DEF SizesAssumption
  <1> HIDE DEF a, t
  <1>3. name.call = a /\ name.ndigis = 1 /\ name.digis[1] = a
    BY <1>1, <1>2 DEF WriteSockname
  <1> HIDE DEF name
  <1>4. count = 1
    <2> DEFINE T == {1, MaxDigis, MaxDigis}
    <2>1. T \subseteq Nat /\ T # {} /\ 1 \in T /\ \A x \in T : x >= 1
      BY <1>2
    <2> HIDE DEF T
    <2>2. Min(T) \in T /\ \A y \in T : Min(T) <= y
      BY <2>1, MinNat
    <2>3. Min(T) \in Nat /\ Min(T) >= 1 /\ Min(T) <= 1
      BY <2>1, <2>2
    <2>4. Min(T) = 1
      BY <2>3
    <2> QED
      BY <2>4 DEF T
  <1>5. (IF name.ndigis > 0 THEN name.ndigis ELSE 0) = 1
    BY <1>3
  <1>6. ReadDigipeaters(name, MaxDigis) = Without(<<>>, [i \in 1..count |-> Decode(name.digis[i])])
    BY <1>5 DEF ReadDigipeaters
  <1> HIDE DEF count
  <1>7. \A i \in 1..1 : Decode(name.digis[i]) = t
    <2>1. \A i \in 1..1 : i = 1
      OBVIOUS
    <2> QED
      BY <1>1, <1>3, <2>1
  <1>8. [i \in 1..1 |-> Decode(name.digis[i])] = [i \in 1..1 |-> t]
    BY <1>7, Zenon
  <1>9. ReadDigipeaters(name, MaxDigis) = Without(<<>>, [i \in 1..1 |-> t])
    BY <1>4, <1>6, <1>8, Zenon
  <1>10. ReadDigipeaters(name, MaxDigis) \in {<<t>>, <<>>}
    BY <1>1, <1>9, OneKept
  <1>11. WriteSockname(Decode(a)) = name
    BY <1>1 DEF name
  <1> QED
    BY <1>1, <1>3, <1>10, <1>11 DEF a

\* Two digits to an octet.
LEMMA RoseOctet ==
  \A x, y, z \in 48..57 :
     LET b == 16 * (x - 48) + (y - 48)
     IN /\ 48 + (b \div 16) = x /\ 48 + (b % 16) = y
        /\ b = 16 * (z - 48) + (y - 48) <=> x = z
  <1> TAKE x, y, z \in 48..57
  <1> DEFINE b == 16 * (x - 48) + (y - 48)
             p == x - 48
             q == y - 48
  <1>1. p \in 0..9 /\ q \in 0..9 /\ x = 48 + p /\ y = 48 + q /\ b = 16 * p + q
    OBVIOUS
  <1> HIDE DEF p, q, b
  <1>2. b \div 16 = p /\ b % 16 = q
    BY <1>1
  <1>3. b = 16 * (z - 48) + (y - 48) <=> x = z
    BY <1>1
  <1> QED
    BY <1>1, <1>2, <1>3 DEF b

\* What rose_aton makes of a text.
LEMMA RoseAtonShape ==
  ASSUME NEW t \in Text
  PROVE  LET a == RoseAton(t)
         IN /\ a # NoEntry <=> Len(t) = 2 * RoseLen /\ ToSet(t) \subseteq Digit
            /\ a # NoEntry => /\ DOMAIN a = 1..RoseLen /\ \A i \in 1..Len(t) : t[i] \in 48..57
                              /\ \A i \in 1..RoseLen : a[i] = 16 * (t[2 * i - 1] - 48) + (t[2 * i] - 48)
  <1> DEFINE a == RoseAton(t)
             f == [i \in 1..RoseLen |-> 16 * (t[2 * i - 1] - 48) + (t[2 * i] - 48)]
  <1>1. RoseLen \in Nat /\ RoseLen >= 1
    BY SizesAssumption DEF SizesAssumption
  <1>2. a = IF Len(t) = 2 * RoseLen /\ ToSet(t) \subseteq Digit THEN f ELSE NoEntry
    BY DEF RoseAton
  <1>3. DOMAIN f = 1..RoseLen /\ \A i \in 1..RoseLen : f[i] = 16 * (t[2 * i - 1] - 48) + (t[2 * i] - 48)
    OBVIOUS
  <1> HIDE DEF f, a
  <1>4. f # NoEntry
    BY <1>1, <1>3 DEF NoEntry
  <1>5. ToSet(t) \subseteq Digit => \A i \in 1..Len(t) : t[i] \in 48..57
    BY TextIsFunction DEF ToSet, Digit
  <1> QED
    BY <1>2, <1>3, <1>4, <1>5 DEF a

\* rose_ntoa and rose_cmp on what rose_aton read.
LEMMA RoseBack ==
  ASSUME NEW t \in Text, RoseAton(t) # NoEntry
  PROVE  LET a == RoseAton(t)
         IN /\ RoseNtoa(a) = t
            /\ \A d \in Digit : RoseCmp(a, RoseAton([t EXCEPT ![1] = d])) = 0 <=> d = t[1]
  <1> DEFINE a == RoseAton(t)
             R == RoseLen
  <1>1. /\ Len(t) = 2 * R /\ ToSet(t) \subseteq Digit
        /\ DOMAIN a = 1..R /\ \A i \in 1..Len(t) : t[i] \in 48..57
        /\ \A i \in 1..R : a[i] = 16 * (t[2 * i - 1] - 48) + (t[2 * i] - 48)
    BY RoseAtonShape
  <1>2. R \in Nat /\ R >= 1
    BY SizesAssumption DEF SizesAssumption
  <1>3. DOMAIN t = 1..(2 * R) /\ t = [i \in 1..(2 * R) |-> t[i]]
    BY <1>1, TextIsFunction, LenProperties DEF Text
  <1>4. RoseNtoa(a) = [i \in 1..(2 * R) |-> 48 + (IF i % 2 = 1 THEN a[(i + 1) \div 2] \div 16 ELSE a[i \div 2] % 16)]
    BY DEF RoseNtoa
  <1> HIDE DEF a, R
  <1>5. \A i \in 1..R : 2 * i - 1 \in 1..(2 * R) /\ 2 * i \in 1..(2 * R)
    BY <1>2
  <1>6. \A i \in 1..R : t[2 * i - 1] \in 48..57 /\ t[2 * i] \in 48..57
    BY <1>1, <1>5
  <1>7. \A i \in 1..R : 48 + (a[i] \div 16) = t[2 * i - 1] /\ 48 + (a[i] % 16) = t[2 * i]
    <2> TAKE i \in 1..R
    <2> DEFINE x == t[2 * i - 1]
               y == t[2 * i]
    <2>1. x \in 48..57 /\ y \in 48..57 /\ a[i] = 16 * (x - 48) + (y - 48)
      BY <1>1, <1>6
    <2> HIDE DEF x, y
    <2>2. 48 + (a[i] \div 16) = x /\ 48 + (a[i] % 16) = y
      BY <2>1, RoseOctet
    <2> QED
      BY <2>2 DEF x, y
  <1>8. \A i \in 1..(2 * R) : 48 + (IF i % 2 = 1 THEN a[(i + 1) \div 2] \div 16 ELSE a[i \div 2] % 16) = t[i]
    <2> TAKE i \in 1..(2 * R)
    <2>1. CASE i % 2 = 1
      <3> DEFINE k == (i + 1) \div 2
      <3>1. k \in 1..R /\ 2 * k - 1 = i
        BY <1>2, <2>1
      <3> HIDE DEF k
      <3>2. 48 + (a[k] \div 16) = t[i]
        BY <1>7, <3>1
      <3> QED
        BY <2>1, <3>2 DEF k
    <2>2. CASE i % 2 # 1
      <3> DEFINE k == i \div 2
      <3>1. k \in 1..R /\ 2 * k = i
        BY <1>2, <2>2
      <3> HIDE DEF k
      <3>2. 48 + (a[k] % 16) = t[i]
        BY <1>7, <3>1
      <3> QED
        BY <2>2, <3>2 DEF k
    <2> QED
      BY <2>1, <2>2
  <1>9. RoseNtoa(a) = t
    BY <1>3, <1>4, <1>8, Zenon
  <1>10. ASSUME NEW d \in Digit
         PROVE  RoseCmp(a, RoseAton([t EXCEPT ![1] = d])) = 0 <=> d = t[1]
    <2> DEFINE r == [t EXCEPT ![1] = d]
               b == RoseAton(r)
    <2>1. \A i \in 1..(2 * R) : r[i] = IF i = 1 THEN d ELSE t[i]
      BY <1>3
    <2>2. DOMAIN r = 1..(2 * R) /\ r = [i \in 1..(2 * R) |-> r[i]]
      BY <1>3
    <2> HIDE DEF r
    <2>3. \A i \in 1..(2 * R) : r[i] \in 48..57
      BY <1>1, <2>1 DEF Digit
    <2>4. r \in [1..(2 * R) -> 0..127]
      <3>1. \A i \in 1..(2 * R) : r[i] \in 0..127
        BY <2>3
      <3> QED
        BY <2>2, <3>1
    <2>5. r \in Text /\ Len(r) = 2 * R
      <3>1. 2 * R \in Nat
        BY <1>2
      <3> DEFINE m == 2 * R
      <3> HIDE DEF m
      <3>2. m \in Nat /\ r \in [1..m -> 0..127]
        BY <2>4, <3>1 DEF m
      <3>3. r \in Text /\ Len(r) = m
        BY <3>2, FunctionIsText
      <3> QED
        BY <3>3 DEF m
    <2>6. ToSet(r) \subseteq Digit
      BY <2>2, <2>3 DEF ToSet, Digit
    <2>7. b # NoEntry
      BY <2>5, <2>6, RoseAtonShape DEF R
    <2>8. \A i \in 1..R : b[i] = 16 * (r[2 * i - 1] - 48) + (r[2 * i] - 48)
      BY <2>5, <2>7, RoseAtonShape DEF R
    <2> HIDE DEF b
    <2>9. RoseCmp(a, b) = 0 <=> \A i \in 1..R : a[i] = b[i]
      BY DEF RoseCmp, R
    <2>10. ASSUME NEW i \in 1..R, i # 1 PROVE a[i] = b[i]
      <3>1. 2 * i - 1 # 1 /\ 2 * i # 1
        BY <1>2, <2>10
      <3>2. r[2 * i - 1] = t[2 * i - 1] /\ r[2 * i] = t[2 * i]
        BY <1>5, <2>1, <3>1
      <3> QED
        BY <1>1, <2>8, <3>2
    <2>11. a[1] = b[1] <=> d = t[1]
      <3>1. 1 \in 1..R /\ 2 * 1 - 1 = 1 /\ 2 * 1 = 2 /\ 1 \in 1..(2 * R) /\ 2 \in 1..(2 * R)
        BY <1>2
      <3> DEFINE x == t[1]
                 y == t[2]
      <3>2. a[1] = 16 * (x - 48) + (y - 48) /\ b[1] = 16 * (d - 48) + (y - 48)
        BY <1>1, <2>1, <2>8, <3>1
      <3>3. x \in 48..57 /\ y \in 48..57 /\ d \in 48..57
        BY <1>1, <3>1 DEF Digit
      <3> HIDE DEF x, y
      <3>4. a[1] = 16 * (d - 48) + (y - 48) <=> x = d
        BY <3>2, <3>3, RoseOctet
      <3> QED
        BY <3>2, <3>4 DEF x
    <2>12. RoseCmp(a, b) = 0 <=> d = t[1]
      <3>1. 1 \in 1..R
        BY <1>2
      <3> QED
        BY <2>9, <2>10, <2>11, <3>1
    <2> QED
      BY <2>12 DEF b, r
  <1> QED
    BY <1>9, <1>10 DEF a

\* What the last ax25_aton_entry left.
EntryInv ==
    /\ text \in Text /\ result \in {"none", "error", "ok"}
    /\ result = "error" => EncodeEntry(text) = NoEntry
    /\ result = "ok" => EncodeEntry(text) # NoEntry /\ address = EncodeEntry(text)

\* It makes the conversions right.
LEMMA EntryInvRoundTrips ==
  ASSUME EntryInv
  PROVE  RoundTrips
  <1> DEFINE u == UpperStem(text)
             v == SsidPart(text)[1]
  <1>1. text \in Text /\ (result = "error" => EncodeEntry(text) = NoEntry)
    BY DEF EntryInv
  <1>2. ASSUME result = "ok"
        PROVE  u \in Stems /\ v \in 0..15 /\ EncodeEntry(text) # NoEntry /\ EncodeEntry(text) = Addr(u, v) /\ address = Addr(u, v)
    BY <1>1, <1>2, EncodeParts DEF EntryInv, Encodes
  <1> HIDE DEF u, v
  <1>3. ASSUME IsCallsign(text)
        PROVE  /\ EncodeEntry(text) # NoEntry /\ Encode(text) = EncodeEntry(text)
               /\ DecodeEntry(EncodeEntry(text)) = Canonical(text)
    <2> DEFINE b == Strupr(Base(text))
               n == SsidOf(text)
    <2>1. /\ b \in Stems /\ n \in 0..15 /\ EncodeEntry(text) = Addr(b, n) /\ Encode(text) = Addr(b, n)
          /\ Canonical(text) = Written(b, n)
      BY <1>1, <1>3, CallsignParts
    <2> HIDE DEF b, n
    <2>2. Addr(b, n) # NoEntry /\ DecodeEntry(Addr(b, n)) = Written(b, n)
      BY <2>1, AddrParts, DecodeAddr
    <2> QED
      BY <2>1, <2>2
  <1>4. EntryRoundTrip
    <2>1. ASSUME result = "ok"
          PROVE  /\ IsCallsign(text) => DecodeEntry(address) = Canonical(text)
                 /\ ~IsCallsign(text) => SscanfSays(text)
                 /\ ValidateEntry(address)
                 /\ IsCallsign(DecodeEntry(address))
                 /\ EncodeEntry(DecodeEntry(address)) = address
      <3>1. IsCallsign(text) => DecodeEntry(address) = Canonical(text)
        BY <1>2, <1>3, <2>1
      <3>2. ~IsCallsign(text) => SscanfSays(text)
        BY <1>1, <1>2, <2>1, TakenIsSscanf
      <3>3. ValidateEntry(address) /\ IsCallsign(DecodeEntry(address)) /\ EncodeEntry(DecodeEntry(address)) = address
        BY <1>2, <2>1, AddrBack
      <3> QED
        BY <3>1, <3>2, <3>3
    <2>2. EncodeEntry(Strlwr(text)) = EncodeEntry(Strupr(text))
      BY <1>1, CaseIgnored
    <2> QED
      BY <1>1, <1>3, <2>1, <2>2 DEF EntryRoundTrip
  <1>5. CopiesAgree
    <2>1. ASSUME result = "ok"
          PROVE  LET name == WriteSockname(Decode(address))
                 IN name.call = address /\ ReadDigipeaters(name, MaxDigis) \in {<<Decode(address)>>, <<>>}
      BY <1>2, <2>1, SocknameBack
    <2>2. ASSUME IsCallsign(text)
          PROVE  /\ CmpEntry(WriteCall(text).call, EncodeEntry(text)) = 0
                 /\ ReadCall(WriteCall(text)) = Canonical(text)
      <3>1. WriteCall(text).call = EncodeEntry(text)
        BY <1>3, <2>2 DEF WriteCall
      <3>2. CmpEntry(WriteCall(text).call, EncodeEntry(text)) = 0
        BY <3>1 DEF CmpEntry
      <3> QED
        BY <1>3, <2>2, <3>1, <3>2 DEF ReadCall, Decode
    <2> QED
      BY <2>1, <2>2 DEF CopiesAgree
  <1>6. RoseRoundTrip
    BY <1>1, RoseAtonShape, RoseBack DEF RoseRoundTrip
  <1> QED
    BY <1>4, <1>5, <1>6 DEF RoundTrips

\* Addresses survive every way through the two libraries, whatever ASCII text
\* ax25_aton_entry was given: text to octets and back, in either copy of the
\* conversion and between them, and ROSE addresses.  A text that is no callsign
\* is taken only where sscanf takes it.
THEOREM AddressesRoundTrip ==
  Spec => []RoundTrips
  <1>1. Init => EntryInv
    BY DEF Init, EntryInv, Text
  <1>2. EntryInv /\ [Next]_vars => EntryInv'
    <2> SUFFICES ASSUME EntryInv, [Next]_vars PROVE EntryInv'
      OBVIOUS
    <2>1. ASSUME UNCHANGED <<text, address, result>> PROVE EntryInv'
      BY <2>1 DEF EntryInv
    <2>2. ASSUME NEW t \in Texts, AtonEntry(t) PROVE EntryInv'
      <3>1. t \in Text
        BY InputsAssumption DEF InputsAssumption
      <3>2. text' = t
        BY <2>2 DEF AtonEntry
      <3>3. CASE EncodeEntry(t) = NoEntry
        <4>1. result' = "error"
          BY <2>2, <3>3 DEF AtonEntry
        <4> QED
          BY <3>1, <3>2, <3>3, <4>1 DEF EntryInv
      <3>4. CASE EncodeEntry(t) # NoEntry
        <4>1. result' = "ok" /\ address' = EncodeEntry(t)
          BY <2>2, <3>4 DEF AtonEntry
        <4> QED
          BY <3>1, <3>2, <3>4, <4>1 DEF EntryInv
      <3> QED
        BY <3>3, <3>4
    <2>3. ASSUME NEW p \in Paths, Aton(p) PROVE EntryInv'
      BY <2>1, <2>3 DEF Aton
    <2>4. CASE LoadPorts
      BY <2>1, <2>4 DEF LoadPorts, addressVars
    <2>5. CASE GetNext
      BY <2>1, <2>5 DEF GetNext, addressVars
    <2>6. ASSUME NEW x \in Uids, GetCall(x) PROVE EntryInv'
      BY <2>1, <2>6 DEF GetCall, addressVars
    <2>7. CASE Edit
      BY <2>1, <2>7 DEF Edit, addressVars
    <2>8. CASE UNCHANGED vars
      BY <2>1, <2>8 DEF vars, addressVars
    <2> QED
      BY <2>2, <2>3, <2>4, <2>5, <2>6, <2>7, <2>8 DEF Next, EditAxports, EditCalls, SetEnv
  <1>3. EntryInv => RoundTrips
    BY EntryInvRoundTrips
  <1> QED
    BY <1>1, <1>2, <1>3, PTL DEF Spec
=============================================================================
