-------------------------- MODULE RecvPumpProofs --------------------------
(***************************************************************************)
(* Proofs about RecvPump, for every set of handles and octets and every    *)
(* capacity: its type invariant, the absence of lost wakeups and of writes *)
(* to closed descriptors, the order and completeness of what the           *)
(* application reads, and the implementation of ByteStream.                *)
(***************************************************************************)
EXTENDS RecvPump, SequenceTheorems, TLAPS

---------------------------------------------------------------------------
(* Sequences.                                                              *)

\* Cutting a sequence in two: both parts are sequences, their lengths add up,
\* and together they are the whole.  (What nb_write took, and what it left.)
LEMMA Cut ==
  ASSUME NEW S, NEW s \in Seq(S), NEW n \in 0..Len(s)
  PROVE  /\ SubSeq(s, 1, n) \in Seq(S)
         /\ SubSeq(s, n + 1, Len(s)) \in Seq(S)
         /\ Len(SubSeq(s, 1, n)) = n
         /\ Len(SubSeq(s, n + 1, Len(s))) = Len(s) - n
         /\ SubSeq(s, 1, n) \o SubSeq(s, n + 1, Len(s)) = s
  <1>1. \A i \in 1..n : s[i] \in S
    BY LenProperties
  <1>2. \A i \in (n + 1)..Len(s) : s[i] \in S
    BY LenProperties
  <1>3. Len(s) \in Nat
    BY LenProperties
  <1>4. SubSeq(s, 1, n) \o SubSeq(s, n + 1, Len(s)) = SubSeq(s, 1, Len(s))
    <2>1. 1 \in 1..Len(s) + 1 /\ n \in (1 - 1)..Len(s) /\ Len(s) \in n..Len(s)
      BY <1>3
    <2> QED
      BY <2>1, ConcatAdjacentSubSeq, Zenon
  <1>5. SubSeq(s, 1, n) \in Seq(S) /\ Len(SubSeq(s, 1, n)) = n
    BY <1>1, <1>3, SubSeqProperties
  <1>6. n + 1 \in Int /\ Len(s) \in Int
    BY <1>3
  <1>7. /\ SubSeq(s, n + 1, Len(s)) \in Seq(S)
        /\ Len(SubSeq(s, n + 1, Len(s)))
              = IF n + 1 <= Len(s) THEN Len(s) - (n + 1) + 1 ELSE 0
    BY <1>2, <1>6, SubSeqProperties, ZenonT(40)
  <1>8. Len(SubSeq(s, n + 1, Len(s))) = Len(s) - n
    <2>1. n \in Nat /\ n <= Len(s)
      BY <1>3
    <2> QED
      BY <1>3, <1>7, <2>1
  <1>9. SubSeq(s, 1, Len(s)) = s
    BY SubSeqFull, Zenon
  <1> QED
    BY <1>4, <1>5, <1>7, <1>8, <1>9, Zenon

\* The payload of a push is a sequence of its length.
LEMMA Payload ==
  ASSUME NEW S, NEW n \in Nat, NEW data \in [1..n -> S]
  PROVE  data \in Seq(S) /\ Len(data) = n
  BY SeqDef

\* Moving the front of the second sequence to the end of the first changes
\* nothing of the whole.
LEMMA Move ==
  ASSUME NEW S, NEW s \in Seq(S), NEW t \in Seq(S), NEW n \in 0..Len(t)
  PROVE  (s \o SubSeq(t, 1, n)) \o SubSeq(t, n + 1, Len(t)) = s \o t
  <1> DEFINE a == SubSeq(t, 1, n)
             b == SubSeq(t, n + 1, Len(t))
  <1>1. a \in Seq(S) /\ b \in Seq(S)
    BY Cut
  <1>2. a \o b = t
    BY Cut
  <1> HIDE DEF a, b
  <1>3. (s \o a) \o b = s \o (a \o b)
    BY <1>1, ConcatAssociative, SMTT(30)
  <1> QED
    BY <1>2, <1>3 DEF a, b

\* Concatenation under a name of its own: the provers instantiate facts about
\* an uninterpreted operator where they do not about nested \o.
Cat(s, t) == s \o t

\* Concatenation is associative: how a byte moves between two adjacent stages.
LEMMA CatAssociative ==
  ASSUME NEW S, NEW s \in Seq(S), NEW t \in Seq(S), NEW u \in Seq(S)
  PROVE  Cat(Cat(s, t), u) = Cat(s, Cat(t, u)) /\ Cat(s, t) \in Seq(S)
  <1>1. (s \o t) \o u = s \o (t \o u)
    OBVIOUS
  <1>2. s \o t \in Seq(S)
    OBVIOUS
  <1> QED
    BY <1>1, <1>2 DEF Cat

\* The three ways the pump moves bytes along the queue of read (g), in-flight
\* (p) and buffered bytes keep the order of the whole: writing a to the
\* socketpair ahead of b, reading a, queueing b behind a.
LEMMA QueueMoves ==
  ASSUME NEW S, NEW g \in Seq(S), NEW p \in Seq(S), NEW a \in Seq(S), NEW b \in Seq(S)
  PROVE  /\ Cat(Cat(g, Cat(p, a)), b) = Cat(Cat(g, p), Cat(a, b))
         /\ Cat(Cat(Cat(g, a), p), b) = Cat(Cat(g, Cat(a, p)), b)
         /\ Cat(Cat(Cat(g, p), a), b) = Cat(Cat(g, p), Cat(a, b))
  BY CatAssociative

\* The same with empty parts.
LEMMA EmptyMoves ==
  ASSUME NEW S, NEW g \in Seq(S), NEW p \in Seq(S)
  PROVE  /\ (<<>> \o <<>>) \o g = g
         /\ (g \o p) \o <<>> = g \o p
         /\ <<>> \o g = g
  <1>1. <<>> \in Seq(S) /\ g \o p \in Seq(S)
    BY EmptySeq, ConcatProperties
  <1>2. <<>> \o <<>> = <<>>
    BY <1>1, ConcatEmptySeq, Zenon
  <1>3. <<>> \o g = g
    BY ConcatEmptySeq, Zenon
  <1>4. (g \o p) \o <<>> = g \o p
    BY <1>1, ConcatEmptySeq, Zenon
  <1> QED
    BY <1>2, <1>3, <1>4, Zenon

---------------------------------------------------------------------------
(* Control: types, wakeups, descriptors and end-of-file.                   *)

Control == TypeOK /\ LiveFdsOpen /\ SleepsOnlyIdle /\ EofOrderly

\* The steps that move no bytes.
LEMMA ControlQuietSteps ==
  ASSUME Control,
         \/ OnDisconnect \/ FlusherCheck \/ DrainDone \/ PollReturns
         \/ \E h \in Handle : OnClose(h) \/ ReadEof(h) \/ CloseRequest(h)
                                \/ DrainBlocked(h) \/ DrainEof(h)
         \/ UNCHANGED vars
  PROVE  Control'
  <1> USE DEF Control, TypeOK, LiveFdsOpen, SleepsOnlyIdle, EofOrderly, HasWork,
              EntryHasWork, entryVars, sockVars, histVars, flushVars, otherThanFlush
  <1>1. CASE OnDisconnect
    BY <1>1 DEF OnDisconnect, ShutdownAll, NotifyAll, Unlocked
  <1>2. CASE FlusherCheck
    BY <1>2 DEF FlusherCheck
  <1>3. CASE DrainDone
    BY <1>3 DEF DrainDone
  <1>4. CASE PollReturns
    BY <1>4 DEF PollReturns
  <1>5. CASE \E h \in Handle : OnClose(h) \/ ReadEof(h) \/ CloseRequest(h)
                                 \/ DrainBlocked(h) \/ DrainEof(h)
    <2>1. PICK h \in Handle : OnClose(h) \/ ReadEof(h) \/ CloseRequest(h)
                                \/ DrainBlocked(h) \/ DrainEof(h)
      BY <1>5
    <2>2. CASE OnClose(h)
      <3>t. TypeOK'
        BY <2>2 DEF OnClose, MarkEof, NotifyAll, Unlocked
      <3>l. LiveFdsOpen'
        BY <2>2 DEF OnClose, MarkEof, NotifyAll, Unlocked
      <3>s. SleepsOnlyIdle'
        BY <2>2 DEF OnClose, MarkEof, NotifyAll, Unlocked
      <3>e. EofOrderly'
        BY <2>2 DEF OnClose, MarkEof, NotifyAll, Unlocked
      <3> QED
        BY <3>t, <3>l, <3>s, <3>e
    <2>3. CASE ReadEof(h)
      BY <2>3 DEF ReadEof
    <2>4. CASE CloseRequest(h)
      BY <2>4 DEF CloseRequest
    <2>5. CASE DrainBlocked(h)
      BY <2>5 DEF DrainBlocked, WouldBlock, Fatal
    <2>6. CASE DrainEof(h)
      <3>t. TypeOK'
        BY <2>6 DEF DrainEof, Drained
      <3>l. LiveFdsOpen'
        BY <2>6 DEF DrainEof, Drained
      <3>s. SleepsOnlyIdle'
        BY <2>6 DEF DrainEof, Drained
      <3>e. EofOrderly'
        <4>1. /\ h \in live /\ buf[h] = <<>> /\ app[h] # "opening" /\ fl = "drain"
              /\ UNCHANGED <<live, buf, eof, app, engine, up, fl>>
          BY <2>6 DEF DrainEof, Drained
        <4>2. \/ UNCHANGED <<wrShut, eofDone>>
              \/ h \in eof /\ wrShut' = wrShut \cup {h} /\ eofDone' = eofDone \cup {h}
          BY <2>6 DEF DrainEof
        <4> QED
          BY <4>1, <4>2
      <3> QED
        BY <3>t, <3>l, <3>s, <3>e
    <2> QED
      BY <2>1, <2>2, <2>3, <2>4, <2>5, <2>6
  <1>6. CASE UNCHANGED vars
    BY <1>6 DEF vars
  <1> QED
    BY <1>1, <1>2, <1>3, <1>4, <1>5, <1>6

\* A history that a push extends, or leaves, is still one sequence per handle.
LEMMA Extended ==
  ASSUME NEW f \in [Handle -> Seq(Byte)], NEW g, NEW h \in Handle, NEW d,
         f[h] \o d \in Seq(Byte), g = [f EXCEPT ![h] = @ \o d] \/ g = f
  PROVE  g \in [Handle -> Seq(Byte)]
  OBVIOUS

\* The steps that move bytes.
LEMMA ControlByteSteps ==
  ASSUME Control, NEW h \in Handle,
         \/ OnRecv(h) \/ Register(h) \/ Read(h) \/ LoseAppEnd(h)
         \/ Unregister(h) \/ CloseFds(h) \/ DrainWrite(h) \/ DrainFatal(h)
  PROVE  Control'
  <1> USE DEF Control, TypeOK, LiveFdsOpen, SleepsOnlyIdle, EofOrderly, HasWork,
              EntryHasWork, entryVars, sockVars, histVars, flushVars
  <1> USE RecvPumpAssumption
  <1>1. CASE OnRecv(h)
    <2>0. PICK n \in 1..MaxChunk :
             /\ up /\ engine[h] = "up"
             /\ \E data \in [1..n -> Byte] : Push(h, data)
      BY <1>1 DEF OnRecv
    <2>1. PICK data \in [1..n -> Byte] : up /\ engine[h] = "up" /\ Push(h, data)
      BY <2>0
    <2>2. data \in Seq(Byte) /\ Len(data) = n /\ n \in Nat \ {0}
      BY Payload
    <2>3. /\ kept[h] \o data \in Seq(Byte)
          /\ before' \in [Handle -> Seq(Byte)] /\ after' \in [Handle -> Seq(Byte)]
      <3>1. /\ kept[h] \o data \in Seq(Byte)
            /\ before[h] \o data \in Seq(Byte) /\ after[h] \o data \in Seq(Byte)
        BY <2>2, ConcatProperties
      <3>2. /\ before' = [before EXCEPT ![h] = @ \o data] \/ before' = before
            /\ after' = [after EXCEPT ![h] = @ \o data] \/ after' = after
        BY <2>1 DEF Push
      <3>3. before' \in [Handle -> Seq(Byte)] /\ after' \in [Handle -> Seq(Byte)]
        BY <3>1, <3>2, Extended
      <3> QED
        BY <3>1, <3>3
    <2>4. h \notin wrShut
      BY <2>1
    <2>5. CASE StageEarly(h, data)
      <3> DEFINE k == LesserOf(StageRoom(h), Len(data))
                 taken == SubSeq(data, 1, k)
      <3>1. k \in 0..Len(data) /\ Len(early[h]) + k <= EarlyCap
        BY <2>2 DEF StageRoom, LesserOf
      <3>2. taken \in Seq(Byte) /\ Len(taken) = k
        BY <3>1, <2>2, Cut
      <3> HIDE DEF taken, k
      <3>3. /\ early[h] \o taken \in Seq(Byte)
            /\ Len(early[h] \o taken) <= EarlyCap
            /\ kept[h] \o taken \in Seq(Byte)
        BY <3>1, <3>2, ConcatProperties
      <3>4. /\ early' = [early EXCEPT ![h] = @ \o taken]
            /\ kept' = [kept EXCEPT ![h] = @ \o taken]
        BY <2>5 DEF StageEarly, taken, k
      <3>t. TypeOK'
        <4>2. /\ kept' \in [Handle -> Seq(Byte)]
              /\ early' \in [Handle -> Seq(Byte)]
              /\ \A g \in Handle : Len(early'[g]) <= EarlyCap
          BY <2>3, <3>3, <3>4
        <4> QED
          BY <2>1, <2>3, <2>5, <4>2 DEF Push, StageEarly
      <3>l. LiveFdsOpen'
        BY <2>1, <2>3, <2>5, <3>3, <3>4
        DEF Push, StageEarly, Unlocked
      <3>s. SleepsOnlyIdle'
        BY <2>1, <2>3, <2>5, <3>3, <3>4
        DEF Push, StageEarly, Unlocked
      <3>e. EofOrderly'
        BY <2>1, <2>3, <2>5, <3>3, <3>4
        DEF Push, StageEarly, Unlocked
      <3> QED
        BY <3>t, <3>l, <3>s, <3>e
    <2>6. CASE PushFast(h, data)
      <3>1. PICK m \in 1..Len(data) :
               /\ Wrote(h, data, m)
               /\ pipe' = [pipe EXCEPT ![h] = @ \o SubSeq(data, 1, m)]
               /\ buf' = [buf EXCEPT ![h] = @ \o SubSeq(data, m + 1, Len(data))]
               /\ IF m < Len(data) THEN NotifyAll ELSE UNCHANGED fl
        BY <2>6 DEF PushFast
      <3> DEFINE a == SubSeq(data, 1, m)
                 b == SubSeq(data, m + 1, Len(data))
      <3>2. /\ a \in Seq(Byte) /\ Len(a) = m
            /\ b \in Seq(Byte) /\ Len(b) = Len(data) - m
        BY <2>2, Cut
      <3>3. Len(pipe[h]) + m <= PipeCap
        BY <2>2, <3>1 DEF Wrote, LesserOf
      <3> HIDE DEF a, b
      <3>4. /\ pipe[h] \o a \in Seq(Byte)
            /\ Len(pipe[h] \o a) <= PipeCap
            /\ buf[h] \o b \in Seq(Byte)
        BY <3>2, <3>3, ConcatProperties, SMTT(30)
      <3>6. m = Len(data) => buf[h] \o b = <<>>
        <4>1. Len(data) = m => b = <<>>
          BY <2>2, <3>2, EmptySeq
        <4>2. buf[h] = <<>>
          BY <2>6 DEF PushFast, Backlogged
        <4>3. <<>> \o <<>> = <<>>
          BY EmptySeq, ConcatEmptySeq, Zenon
        <4> QED
          BY <4>1, <4>2, <4>3, Zenon
      <3>5. /\ pipe' = [pipe EXCEPT ![h] = @ \o a]
            /\ buf' = [buf EXCEPT ![h] = @ \o b]
        BY <3>1 DEF a, b
      <3>7. /\ kept' = [kept EXCEPT ![h] = @ \o data]
            /\ UNCHANGED <<live, eof, eofDone, early, wrShut, appGone, app,
                           engine, up, todo, blocked, got, sawEof>>
            /\ fl # "drain" /\ h \in live
        BY <2>1, <2>6 DEF Push, PushFast, Unlocked
      <3>8. /\ kept' \in [Handle -> Seq(Byte)]
            /\ buf' \in [Handle -> Seq(Byte)] /\ pipe' \in [Handle -> Seq(Byte)]
            /\ \A g \in Handle : Len(pipe'[g]) <= PipeCap
        BY <2>3, <3>4, <3>5, <3>7
      <3>9. /\ fl' = fl \/ fl' = "check"
            /\ fl' = "wait" => m = Len(data)
        BY <2>2, <3>1 DEF NotifyAll
      <3>10. \A g \in Handle : g # h => buf'[g] = buf[g]
        BY <3>5
      <3>11. fl' = "wait" => fl = "wait" /\ buf'[h] = <<>>
        BY <3>5, <3>6, <3>9
      <3> HIDE DEF a, b
      <3>t. TypeOK'
        BY <2>3, <3>7, <3>8, <3>9
      <3>l. LiveFdsOpen'
        BY <3>7
      <3>s. SleepsOnlyIdle'
        BY <3>7, <3>10, <3>11
      <3>e. EofOrderly'
        BY <2>4, <3>7, <3>9, <3>10, ZenonT(40)
      <3> QED
        BY <3>t, <3>l, <3>s, <3>e
    <2>7. CASE PushBehind(h, data)
      <3>1. buf[h] \o data \in Seq(Byte)
        BY <2>2, ConcatProperties
      <3> QED
        BY <2>1, <2>3, <2>4, <2>7, <3>1 DEF Push, PushBehind, Unlocked, NotifyAll
    <2>8. CASE PushFatal(h)
      <3>1. /\ buf' = [buf EXCEPT ![h] = <<>>]
            /\ live' = live \ {h} /\ eof' = eof \ {h} /\ eofDone' = eofDone \ {h}
            /\ UNCHANGED <<early, pipe, wrShut, appGone, app, engine, up, fl,
                           todo, blocked, kept, got, sawEof>>
            /\ fl # "drain"
        BY <2>1, <2>8 DEF Push, PushFatal, RemoveEntry, Unlocked
      <3>2. buf' \in [Handle -> Seq(Byte)]
        BY <3>1, EmptySeq
      <3>3. \A g \in Handle : buf'[g] = IF g = h THEN <<>> ELSE buf[g]
        BY <3>1
      <3>t. TypeOK'
        BY <2>3, <3>1, <3>2
      <3>l. LiveFdsOpen'
        BY <3>1
      <3>s. SleepsOnlyIdle'
        BY <3>1, <3>3
      <3>e. EofOrderly'
        BY <3>1, <3>3
      <3> QED
        BY <3>t, <3>l, <3>s, <3>e
    <2> QED
      BY <2>1, <2>5, <2>6, <2>7, <2>8 DEF Push
  <1>2. CASE Register(h)
    <2>t. TypeOK'
      BY <1>2, EmptySeq, SMTT(30)
      DEF Register, WakeForStaged, NotifyAll, Unlocked
    <2>l. LiveFdsOpen'
      BY <1>2, EmptySeq
      DEF Register, WakeForStaged, NotifyAll, Unlocked
    <2>s. SleepsOnlyIdle'
      BY <1>2, EmptySeq
      DEF Register, WakeForStaged, NotifyAll, Unlocked
    <2>e. EofOrderly'
      BY <1>2, EmptySeq
      DEF Register, WakeForStaged, NotifyAll, Unlocked
    <2> QED
      BY <2>t, <2>l, <2>s, <2>e
  <1>3. CASE Read(h)
    <2>1. PICK n \in 1..Len(pipe[h]) :
             /\ got' = [got EXCEPT ![h] = @ \o SubSeq(pipe[h], 1, n)]
             /\ pipe' = [pipe EXCEPT ![h] = SubSeq(@, n + 1, Len(@))]
      BY <1>3 DEF Read
    <2> DEFINE a == SubSeq(pipe[h], 1, n)
               b == SubSeq(pipe[h], n + 1, Len(pipe[h]))
    <2>2. a \in Seq(Byte) /\ b \in Seq(Byte) /\ Len(b) = Len(pipe[h]) - n
      BY Cut
    <2> HIDE DEF a, b
    <2>3. got[h] \o a \in Seq(Byte) /\ Len(b) <= PipeCap
      BY <2>2, ConcatProperties
    <2>4. /\ got' = [got EXCEPT ![h] = @ \o a]
          /\ pipe' = [pipe EXCEPT ![h] = b]
      BY <2>1 DEF a, b
    <2> QED
      BY <1>3, <2>2, <2>3, <2>4 DEF Read
  <1>4. CASE LoseAppEnd(h)
    <2>t. TypeOK'
      BY <1>4, EmptySeq DEF LoseAppEnd
    <2>l. LiveFdsOpen'
      BY <1>4, EmptySeq DEF LoseAppEnd
    <2>s. SleepsOnlyIdle'
      BY <1>4, EmptySeq DEF LoseAppEnd
    <2>e. EofOrderly'
      BY <1>4, EmptySeq DEF LoseAppEnd
    <2> QED
      BY <2>t, <2>l, <2>s, <2>e
  <1>5. CASE Unregister(h)
    <2>t. TypeOK'
      BY <1>5, EmptySeq
      DEF Unregister, RemoveEntry, Unlocked
    <2>l. LiveFdsOpen'
      BY <1>5, EmptySeq
      DEF Unregister, RemoveEntry, Unlocked
    <2>s. SleepsOnlyIdle'
      BY <1>5, EmptySeq
      DEF Unregister, RemoveEntry, Unlocked
    <2>e. EofOrderly'
      BY <1>5, EmptySeq
      DEF Unregister, RemoveEntry, Unlocked
    <2> QED
      BY <2>t, <2>l, <2>s, <2>e
  <1>6. CASE CloseFds(h)
    <2>t. TypeOK'
      BY <1>6, EmptySeq DEF CloseFds
    <2>l. LiveFdsOpen'
      BY <1>6, EmptySeq DEF CloseFds
    <2>s. SleepsOnlyIdle'
      BY <1>6, EmptySeq DEF CloseFds
    <2>e. EofOrderly'
      BY <1>6, EmptySeq DEF CloseFds
    <2> QED
      BY <2>t, <2>l, <2>s, <2>e
  <1>7. CASE DrainWrite(h)
    <2>1. PICK n \in 1..Len(buf[h]) :
             /\ Wrote(h, buf[h], n)
             /\ pipe' = [pipe EXCEPT ![h] = @ \o SubSeq(buf[h], 1, n)]
             /\ buf' = [buf EXCEPT ![h] = SubSeq(@, n + 1, Len(@))]
      BY <1>7 DEF DrainWrite
    <2> DEFINE a == SubSeq(buf[h], 1, n)
               b == SubSeq(buf[h], n + 1, Len(buf[h]))
    <2>2. a \in Seq(Byte) /\ Len(a) = n /\ b \in Seq(Byte)
      BY Cut
    <2>3. Len(pipe[h]) + n <= PipeCap
      BY <2>1 DEF Wrote, LesserOf
    <2> HIDE DEF a, b
    <2>4. pipe[h] \o a \in Seq(Byte) /\ Len(pipe[h] \o a) <= PipeCap
      BY <2>2, <2>3, ConcatProperties
    <2>5. /\ pipe' = [pipe EXCEPT ![h] = @ \o a]
          /\ buf' = [buf EXCEPT ![h] = b]
      BY <2>1 DEF a, b
    <2>6. h \notin wrShut
      BY <2>1 DEF Wrote, Fatal
    <2>t. TypeOK'
      BY <1>7, <2>2, <2>4, <2>5, <2>6
      DEF DrainWrite
    <2>l. LiveFdsOpen'
      BY <1>7, <2>2, <2>4, <2>5, <2>6
      DEF DrainWrite
    <2>s. SleepsOnlyIdle'
      BY <1>7, <2>2, <2>4, <2>5, <2>6
      DEF DrainWrite
    <2>e. EofOrderly'
      BY <1>7, <2>2, <2>4, <2>5, <2>6
      DEF DrainWrite
    <2> QED
      BY <2>t, <2>l, <2>s, <2>e
  <1>8. CASE DrainFatal(h)
    BY <1>8, EmptySeq DEF DrainFatal, RemoveEntry
  <1> QED
    BY <1>1, <1>2, <1>3, <1>4, <1>5, <1>6, <1>7, <1>8

\* The pump starts with no entries and an idle flusher.
LEMMA ControlInit == Init => Control
  <1> SUFFICES ASSUME Init PROVE Control
    OBVIOUS
  <1>1. TypeOK
    BY EmptySeq, RecvPumpAssumption DEF Init, TypeOK
  <1>2. LiveFdsOpen /\ SleepsOnlyIdle /\ EofOrderly
    BY DEF Init, LiveFdsOpen, SleepsOnlyIdle, EofOrderly
  <1> QED
    BY <1>1, <1>2 DEF Control

\* Every step of the reader, the flusher and the applications keeps the control
\* invariant: one case for each action.
LEMMA ControlStep == Control /\ [Next]_vars => Control'
  <1> SUFFICES ASSUME Control, [Next]_vars PROVE Control'
    OBVIOUS
  <1> QED
    BY ControlQuietSteps, ControlByteSteps DEF Next, Drain

\* The control invariant holds throughout.
THEOREM ControlInvariant == Spec => []Control
  BY ControlInit, ControlStep, PTL DEF Spec

\* Type correctness: in particular the staging area stays within
\* EARLY_STAGE_CAP and a socketpair within its capacity.
THEOREM TypeCorrect == Spec => []TypeOK
  <1>1. Control => TypeOK
    BY DEF Control
  <1> QED
    BY <1>1, ControlInvariant, PTL

\* No wakeup of the flusher is lost, for any number of handles.
THEOREM NoLostWakeup == Spec => []SleepsOnlyIdle
  <1>1. Control => SleepsOnlyIdle
    BY DEF Control
  <1> QED
    BY <1>1, ControlInvariant, PTL

\* The pump never holds an entry for a descriptor that has been closed.
THEOREM NoStaleDescriptor == Spec => []LiveFdsOpen
  <1>1. Control => LiveFdsOpen
    BY DEF Control
  <1> QED
    BY <1>1, ControlInvariant, PTL

\* SHUT_WR comes after the last byte of the backlog, and end-of-file after the
\* last byte of the socketpair.
THEOREM OrderlyEof == Spec => []EofOrderly
  <1>1. Control => EofOrderly
    BY DEF Control
  <1> QED
    BY <1>1, ControlInvariant, PTL

---------------------------------------------------------------------------
(* Data: what the application reads is what the engine sent, but for what  *)
(* overflowed the staging area.                                            *)

NoneAfter == \A h \in Handle : app[h] = "opening" => after[h] = <<>>

Data == InFlight /\ LossExact /\ NoneAfter

\* Steps that move no bytes keep the data invariant.
LEMMA DataQuietSteps ==
  ASSUME Control, Data,
         \/ OnDisconnect \/ FlusherCheck \/ DrainDone \/ PollReturns
         \/ \E h \in Handle : OnClose(h) \/ ReadEof(h) \/ CloseRequest(h)
                                \/ DrainBlocked(h) \/ DrainEof(h)
                                \/ LoseAppEnd(h) \/ CloseFds(h) \/ Unregister(h)
                                \/ DrainFatal(h)
         \/ UNCHANGED vars
  PROVE  Data'
  <1> USE DEF Control, Data, TypeOK, InFlight, LossExact, NoneAfter, Usable,
              EofOrderly, entryVars, sockVars, histVars, flushVars, otherThanFlush
  <1>1. CASE OnDisconnect
    BY <1>1 DEF OnDisconnect
  <1>2. CASE FlusherCheck
    BY <1>2 DEF FlusherCheck
  <1>3. CASE DrainDone
    BY <1>3 DEF DrainDone
  <1>4. CASE PollReturns
    BY <1>4 DEF PollReturns
  <1>5. ASSUME NEW h \in Handle,
               \/ OnClose(h) \/ ReadEof(h) \/ CloseRequest(h)
               \/ DrainBlocked(h) \/ DrainEof(h)
        PROVE  Data'
    BY <1>5 DEF OnClose, ReadEof, CloseRequest, DrainBlocked, DrainEof
  <1>6. ASSUME NEW h \in Handle, LoseAppEnd(h) PROVE Data'
    BY <1>6 DEF LoseAppEnd
  <1>7. ASSUME NEW h \in Handle, CloseFds(h) PROVE Data'
    BY <1>7 DEF CloseFds
  <1>8. ASSUME NEW h \in Handle, Unregister(h) PROVE Data'
    BY <1>8 DEF Unregister, RemoveEntry
  <1>9. ASSUME NEW h \in Handle, DrainFatal(h) PROVE Data'
    \* a socketpair shut down by the pump has no backlog: the app end is gone
    <2>1. h \in appGone
      BY <1>9 DEF DrainFatal, Fatal
    <2> QED
      BY <1>9, <2>1 DEF DrainFatal, RemoveEntry
  <1>10. CASE UNCHANGED vars
    BY <1>10 DEF vars
  <1> QED
    BY <1>1, <1>2, <1>3, <1>4, <1>5, <1>6, <1>7, <1>8, <1>9, <1>10

\* A handle other than the one a step is about keeps its part of the invariant.
LEMMA DataFrame ==
  ASSUME Control, Data, NEW h \in Handle, NEW g \in Handle, g # h,
         /\ app'[g] = app[g] /\ (g \in appGone' <=> g \in appGone)
         /\ (g \in live' <=> g \in live)
         /\ kept'[g] = kept[g] /\ before'[g] = before[g] /\ after'[g] = after[g]
         /\ got'[g] = got[g]
         /\ early'[g] = early[g] /\ pipe'[g] = pipe[g] /\ buf'[g] = buf[g]
  PROVE  /\ Usable(g)' => IF app'[g] = "opening"
               THEN kept'[g] = early'[g] /\ got'[g] = <<>> /\ pipe'[g] = <<>> /\ g \notin live'
               ELSE kept'[g] = (got'[g] \o pipe'[g]) \o buf'[g] /\ g \in live'
         /\ Usable(g)' => kept'[g] = Staged(before'[g]) \o after'[g]
         /\ app'[g] = "opening" => after'[g] = <<>>
  BY DEF Data, InFlight, LossExact, NoneAfter, Usable

\* What a push adds to the staging area.
StagedNext(q, data) ==
    q \o SubSeq(data, 1, LesserOf(IF Len(q) < EarlyCap THEN EarlyCap - Len(q) ELSE 0,
                                  Len(data)))

\* Staging push by push keeps the first EarlyCap of all the bytes.
LEMMA StageMoves ==
  ASSUME NEW S, NEW s \in Seq(S), NEW d \in Seq(S)
  PROVE  /\ Staged(s) \in Seq(S) /\ Len(Staged(s)) = LesserOf(Len(s), EarlyCap)
         /\ Staged(s \o d) \in Seq(S)
         /\ StagedNext(Staged(s), d) = Staged(s \o d)
  <1>1. /\ Len(s) \in Nat /\ Len(d) \in Nat /\ EarlyCap \in Nat
        /\ s \o d \in Seq(S) /\ Len(s \o d) = Len(s) + Len(d)
    BY LenProperties, ConcatProperties, RecvPumpAssumption
  <1>2. /\ LesserOf(Len(s), EarlyCap) \in 0..Len(s)
        /\ LesserOf(Len(s \o d), EarlyCap) \in 0..Len(s \o d)
    BY <1>1 DEF LesserOf
  <1>3. /\ Staged(s) \in Seq(S) /\ Len(Staged(s)) = LesserOf(Len(s), EarlyCap)
        /\ Staged(s \o d) \in Seq(S)
    BY <1>1, <1>2, Cut DEF Staged
  <1>4. CASE EarlyCap <= Len(s)
    <2>1. LesserOf(Len(s \o d), EarlyCap) = EarlyCap /\ LesserOf(Len(s), EarlyCap) = EarlyCap
      BY <1>1, <1>4 DEF LesserOf
    <2>2. SubSeq(d, 1, 0) = <<>>
      BY SubSeqEmpty
    <2>3. StagedNext(Staged(s), d) = Staged(s) \o <<>>
      BY <1>1, <1>3, <2>1, <2>2 DEF StagedNext, LesserOf
    <2>4. Staged(s) \o <<>> = Staged(s)
      BY <1>3, ConcatEmptySeq, Zenon
    <2>5. SubSeq(s \o d, 1, EarlyCap) = SubSeq(s, 1, EarlyCap)
      <3>1. EarlyCap \in 0..Len(s)
        BY <1>1, <1>4
      <3> QED
        BY <1>1, <3>1, SubSeqOfConcat1
    <2> QED
      BY <1>3, <2>1, <2>3, <2>4, <2>5 DEF Staged
  <1>5. CASE Len(s) < EarlyCap
    <2> DEFINE k == LesserOf(EarlyCap - Len(s), Len(d))
    <2>1. /\ LesserOf(Len(s), EarlyCap) = Len(s) /\ k \in 0..Len(d)
          /\ LesserOf(Len(s \o d), EarlyCap) = Len(s) + k
      BY <1>1, <1>5 DEF LesserOf
    <2>2. Staged(s) = s
      BY <2>1, SubSeqFull DEF Staged
    <2>3. StagedNext(Staged(s), d) = s \o SubSeq(d, 1, k)
      BY <1>5, <2>2 DEF StagedNext
    <2> HIDE DEF k
    <2>4. SubSeq(s \o d, 1, Len(s) + k) = s \o SubSeq(d, 1, k)
      <3>1. SubSeq(s \o d, 1, Len(s)) \o SubSeq(s \o d, Len(s) + 1, Len(s) + k)
               = SubSeq(s \o d, 1, Len(s) + k)
        <4>1. /\ 1 \in 1..Len(s \o d) + 1 /\ Len(s) \in (1 - 1)..Len(s \o d)
              /\ Len(s) + k \in Len(s)..Len(s \o d)
          BY <1>1, <2>1
        <4> QED
          BY <1>1, <4>1, ConcatAdjacentSubSeq, Zenon
      <3>2. SubSeq(s \o d, 1, Len(s)) = s
        <4>1. SubSeq(s \o d, 1, Len(s)) = SubSeq(s, 1, Len(s))
          BY <1>1, SubSeqOfConcat1
        <4> QED
          BY <4>1, SubSeqFull, Zenon
      <3>3. SubSeq(s \o d, Len(s) + 1, Len(s) + k) = SubSeq(d, 1, k)
        <4>1. /\ Len(s) + 1 \in Len(s) + 1..Len(s) + Len(d) + 1
              /\ Len(s) + k \in Len(s)..Len(s) + Len(d)
              /\ (Len(s) + 1) - Len(s) = 1 /\ (Len(s) + k) - Len(s) = k
          BY <1>1, <2>1
        <4>2. SubSeq(s \o d, Len(s) + 1, Len(s) + k)
                = SubSeq(d, (Len(s) + 1) - Len(s), (Len(s) + k) - Len(s))
          BY <1>1, <4>1, SubSeqOfConcat2
        <4> QED
          BY <4>1, <4>2
      <3> QED
        BY <3>1, <3>2, <3>3
    <2> QED
      BY <1>3, <2>1, <2>3, <2>4 DEF Staged
  <1> QED
    BY <1>1, <1>3, <1>4, <1>5

\* A push to a live entry is kept whole, behind all that was kept before.
LEMMA KeptLater ==
  ASSUME Control, Data, NEW h \in Handle, NEW data \in Seq(Byte),
         h \in live, UNCHANGED <<app, appGone>>, kept'[h] = kept[h] \o data,
         app[h] # "opening" => before'[h] = before[h] /\ after'[h] = after[h] \o data
  PROVE  Usable(h)' => kept'[h] = Staged(before'[h]) \o after'[h]
  <1> SUFFICES ASSUME Usable(h)' PROVE kept'[h] = Staged(before'[h]) \o after'[h]
    OBVIOUS
  <1>1. Usable(h)
    BY DEF Usable
  <1>2. app[h] # "opening" /\ kept[h] = Staged(before[h]) \o after[h]
    BY <1>1 DEF Data, InFlight, LossExact
  <1>3. before[h] \in Seq(Byte) /\ after[h] \in Seq(Byte)
    BY DEF Control, TypeOK
  <1>4. Staged(before[h]) \in Seq(Byte)
    BY <1>3, StageMoves
  <1>5. Cat(Cat(Staged(before[h]), after[h]), data) = Cat(Staged(before[h]), Cat(after[h], data))
    BY <1>3, <1>4, CatAssociative
  <1> QED
    BY <1>2, <1>5 DEF Cat

\* A push: staged, written, queued, never out of order.
LEMMA DataPush ==
  ASSUME Control, Data, NEW h \in Handle, OnRecv(h)
  PROVE  Data'
  <1>0. PICK n \in 1..MaxChunk :
           /\ up /\ engine[h] = "up"
           /\ \E data \in [1..n -> Byte] : Push(h, data)
    BY DEF OnRecv
  <1>1. PICK data \in [1..n -> Byte] : Push(h, data)
    BY <1>0
  <1>2. data \in Seq(Byte) /\ Len(data) = n /\ n \in Nat \ {0}
    BY Payload, RecvPumpAssumption
  <1>3. UNCHANGED <<wrShut, appGone, app, got>>
    BY <1>1 DEF Push
  <1>4. /\ buf[h] \in Seq(Byte) /\ early[h] \in Seq(Byte) /\ pipe[h] \in Seq(Byte)
        /\ before[h] \in Seq(Byte) /\ after[h] \in Seq(Byte)
        /\ kept[h] \in Seq(Byte) /\ got[h] \in Seq(Byte)
    BY DEF Control, TypeOK
  <1>5. /\ app[h] = "opening" => before'[h] = before[h] \o data /\ after'[h] = after[h]
        /\ app[h] # "opening" => before'[h] = before[h] /\ after'[h] = after[h] \o data
        /\ \A g \in Handle : g # h => before'[g] = before[g] /\ after'[g] = after[g]
    BY <1>1 DEF Push, Control, TypeOK
  <1>6. app'[h] = "opening" => after'[h] = <<>>
    BY <1>3, <1>5 DEF Data, NoneAfter
  <1>7. h \notin wrShut
    BY <1>0 DEF Control, EofOrderly
  <1> DEFINE A == Usable(h)' => IF app'[h] = "opening"
                    THEN /\ kept'[h] = early'[h] /\ got'[h] = <<>>
                         /\ pipe'[h] = <<>> /\ h \notin live'
                    ELSE kept'[h] = (got'[h] \o pipe'[h]) \o buf'[h] /\ h \in live'
             B == Usable(h)' => kept'[h] = Staged(before'[h]) \o after'[h]
             F == \A g \in Handle : g # h =>
                    /\ (g \in live' <=> g \in live)
                    /\ kept'[g] = kept[g]
                    /\ early'[g] = early[g] /\ pipe'[g] = pipe[g] /\ buf'[g] = buf[g]
  <1>8. CASE StageEarly(h, data)
    <2> DEFINE k == LesserOf(StageRoom(h), Len(data))
               taken == SubSeq(data, 1, k)
    <2> HIDE DEF taken, k
    <2>3. /\ early' = [early EXCEPT ![h] = @ \o taken]
          /\ kept' = [kept EXCEPT ![h] = @ \o taken]
          /\ UNCHANGED <<live, buf, pipe>> /\ h \notin live
      BY <1>8 DEF StageEarly, taken, k, entryVars
    <2>4. early'[h] = early[h] \o taken /\ kept'[h] = kept[h] \o taken
      BY <2>3 DEF Control, TypeOK
    <2>5. A
      BY <1>3, <2>3, <2>4 DEF Data, InFlight, Usable
    <2>6. B
      <3> SUFFICES ASSUME Usable(h)' PROVE kept'[h] = Staged(before'[h]) \o after'[h]
        OBVIOUS
      <3>1. Usable(h)
        BY <1>3 DEF Usable
      <3>2. app[h] = "opening" /\ kept[h] = early[h]
        BY <3>1, <2>3 DEF Data, InFlight
      <3>3. after[h] = <<>> /\ kept[h] = Staged(before[h]) \o after[h]
        BY <3>1, <3>2 DEF Data, LossExact, NoneAfter
      <3>4. /\ Staged(before[h]) \in Seq(Byte)
            /\ Len(Staged(before[h])) = LesserOf(Len(before[h]), EarlyCap)
            /\ StagedNext(Staged(before[h]), data) = Staged(before[h] \o data)
            /\ Staged(before[h] \o data) \in Seq(Byte)
        BY <1>2, <1>4, StageMoves
      <3>5. /\ Staged(before[h]) \o <<>> = Staged(before[h])
            /\ Staged(before[h] \o data) \o <<>> = Staged(before[h] \o data)
        BY <3>4, ConcatEmptySeq, Zenon
      <3>6. early[h] = Staged(before[h])
        BY <3>2, <3>3, <3>5
      <3>7. kept'[h] = StagedNext(early[h], data)
        BY <2>4, <3>2 DEF taken, k, StagedNext, StageRoom
      <3>8. kept'[h] = Staged(before[h] \o data)
        BY <3>4, <3>6, <3>7
      <3>9. before'[h] = before[h] \o data /\ after'[h] = <<>>
        BY <1>5, <3>2, <3>3
      <3> QED
        BY <3>5, <3>8, <3>9
    <2>7. F
      BY <1>3, <2>3 DEF Control, TypeOK
    <2> QED
      BY <1>3, <1>5, <1>6, <2>5, <2>6, <2>7, DataFrame, ZenonT(40) DEF Data, InFlight, LossExact, NoneAfter
  <1>9. CASE PushFast(h, data)
    <2>1. PICK m \in 1..Len(data) :
             /\ pipe' = [pipe EXCEPT ![h] = @ \o SubSeq(data, 1, m)]
             /\ buf' = [buf EXCEPT ![h] = @ \o SubSeq(data, m + 1, Len(data))]
      BY <1>9 DEF PushFast
    <2> DEFINE a == SubSeq(data, 1, m)
               b == SubSeq(data, m + 1, Len(data))
    <2>2. a \in Seq(Byte) /\ b \in Seq(Byte)
      BY <1>2, Cut
    <2>3. a \o b = data
      BY <1>2, Cut
    <2> HIDE DEF a, b
    <2>4. /\ pipe' = [pipe EXCEPT ![h] = @ \o a]
          /\ buf' = [buf EXCEPT ![h] = @ \o b]
      BY <2>1 DEF a, b
    <2>5. /\ kept' = [kept EXCEPT ![h] = @ \o data]
          /\ UNCHANGED <<live, early>> /\ h \in live /\ buf[h] = <<>>
      BY <1>9 DEF PushFast, Backlogged
    <2>6. /\ kept'[h] = kept[h] \o data
          /\ pipe'[h] = pipe[h] \o a
          /\ buf'[h] = <<>> \o b
      BY <2>4, <2>5 DEF Control, TypeOK
    <2>7. <<>> \o b = b /\ (got[h] \o pipe[h]) \o <<>> = got[h] \o pipe[h]
      BY <1>4, <2>2, EmptyMoves
    <2>8. A
      <3> SUFFICES ASSUME Usable(h)'
                   PROVE  /\ app'[h] # "opening"
                          /\ kept'[h] = (got'[h] \o pipe'[h]) \o buf'[h]
                          /\ h \in live'
        OBVIOUS
      <3>1. Usable(h)
        BY <1>3 DEF Usable
      <3>2. app[h] # "opening" /\ kept[h] = (got[h] \o pipe[h]) \o buf[h]
        BY <3>1, <2>5 DEF Data, InFlight
      <3>3. kept[h] = got[h] \o pipe[h]
        BY <3>2, <2>5, <2>7
      <3>4. kept'[h] = (got[h] \o pipe[h]) \o (a \o b)
        BY <2>3, <2>6, <3>3
      <3>5. Cat(Cat(got[h], Cat(pipe[h], a)), b) = Cat(Cat(got[h], pipe[h]), Cat(a, b))
        BY <1>4, <2>2, QueueMoves, SMTT(30)
      <3>6. (got[h] \o (pipe[h] \o a)) \o b = (got[h] \o pipe[h]) \o (a \o b)
        BY <3>5 DEF Cat
      <3> QED
        BY <1>3, <2>5, <2>6, <2>7, <3>2, <3>4, <3>6
    <2>9. B
      BY <1>2, <1>3, <1>4, <1>5, <2>5, <2>6, KeptLater
    <2>10. F
      BY <1>3, <2>4, <2>5 DEF Control, TypeOK
    <2> QED
      BY <1>3, <1>5, <1>6, <2>8, <2>9, <2>10, DataFrame, ZenonT(40) DEF Data, InFlight, LossExact, NoneAfter
  <1>10. CASE PushBehind(h, data)
    <2>1. /\ buf' = [buf EXCEPT ![h] = @ \o data]
          /\ kept' = [kept EXCEPT ![h] = @ \o data]
          /\ UNCHANGED <<live, early, pipe>> /\ h \in live
      BY <1>10 DEF PushBehind
    <2>2. buf'[h] = buf[h] \o data /\ kept'[h] = kept[h] \o data
      BY <2>1 DEF Control, TypeOK
    <2>3. A
      <3> SUFFICES ASSUME Usable(h)'
                   PROVE  /\ app'[h] # "opening"
                          /\ kept'[h] = (got'[h] \o pipe'[h]) \o buf'[h]
                          /\ h \in live'
        OBVIOUS
      <3>1. Usable(h)
        BY <1>3 DEF Usable
      <3>2. app[h] # "opening" /\ kept[h] = (got[h] \o pipe[h]) \o buf[h]
        BY <3>1, <2>1 DEF Data, InFlight
      <3>3. Cat(Cat(Cat(got[h], pipe[h]), buf[h]), data)
              = Cat(Cat(got[h], pipe[h]), Cat(buf[h], data))
        BY <1>2, <1>4, QueueMoves, SMTT(30)
      <3>4. ((got[h] \o pipe[h]) \o buf[h]) \o data
              = (got[h] \o pipe[h]) \o (buf[h] \o data)
        BY <3>3 DEF Cat
      <3> QED
        BY <1>3, <2>1, <2>2, <3>2, <3>4
    <2>4. B
      BY <1>2, <1>3, <1>4, <1>5, <2>1, <2>2, KeptLater
    <2>5. F
      BY <1>3, <2>1 DEF Control, TypeOK
    <2> QED
      BY <1>3, <1>5, <1>6, <2>3, <2>4, <2>5, DataFrame, ZenonT(40) DEF Data, InFlight, LossExact, NoneAfter
  <1>11. CASE PushFatal(h)
    \* the session is up, so the pump has not shut the socketpair down
    <2>1. h \in appGone
      BY <1>7, <1>11 DEF PushFatal, Fatal
    <2>2. /\ UNCHANGED <<early, pipe, kept>>
          /\ live' = live \ {h} /\ buf' = [buf EXCEPT ![h] = <<>>]
      BY <1>11 DEF PushFatal, RemoveEntry
    <2>3. A /\ B
      BY <1>3, <2>1 DEF Usable
    <2>4. F
      BY <1>3, <2>2 DEF Control, TypeOK
    <2> QED
      BY <1>3, <1>5, <1>6, <2>3, <2>4, DataFrame, ZenonT(40) DEF Data, InFlight, LossExact, NoneAfter
  <1> QED
    BY <1>1, <1>8, <1>9, <1>10, <1>11 DEF Push

\* Registration folds the staging area into the buffer.
LEMMA DataRegister ==
  ASSUME Control, Data, NEW h \in Handle, Register(h)
  PROVE  Data'
  <1>1. /\ app[h] = "opening" /\ app' = [app EXCEPT ![h] = "open"]
        /\ live' = live \cup {h} /\ buf' = [buf EXCEPT ![h] = early[h]]
        /\ early' = [early EXCEPT ![h] = <<>>]
        /\ UNCHANGED <<pipe, appGone, before, after, kept, got>>
    BY DEF Register, sockVars, histVars
  <1>2. app'[h] = "open" /\ buf'[h] = early[h] /\ h \in live'
    BY <1>1 DEF Control, TypeOK
  <1>3. (<<>> \o <<>>) \o early[h] = early[h]
    BY EmptyMoves DEF Control, TypeOK
  <1>4. Usable(h)' => Usable(h)
    BY <1>1 DEF Usable
  <1>5. Usable(h)' => kept'[h] = (got'[h] \o pipe'[h]) \o buf'[h]
    BY <1>1, <1>2, <1>3, <1>4 DEF Data, InFlight
  <1>6. Usable(h)' => kept'[h] = Staged(before'[h]) \o after'[h]
    BY <1>1, <1>4 DEF Data, LossExact
  <1>7. \A g \in Handle : g # h =>
           /\ app'[g] = app[g] /\ (g \in live' <=> g \in live)
           /\ early'[g] = early[g] /\ buf'[g] = buf[g]
    BY <1>1 DEF Control, TypeOK
  <1> QED
    BY <1>1, <1>2, <1>5, <1>6, <1>7, DataFrame DEF Data, InFlight, LossExact, NoneAfter

\* A read takes bytes from the front of the socketpair.
LEMMA DataRead ==
  ASSUME Control, Data, NEW h \in Handle, Read(h)
  PROVE  Data'
  <1>1. PICK n \in 1..Len(pipe[h]) :
           /\ got' = [got EXCEPT ![h] = @ \o SubSeq(pipe[h], 1, n)]
           /\ pipe' = [pipe EXCEPT ![h] = SubSeq(@, n + 1, Len(@))]
    BY DEF Read
  <1>2. /\ app[h] = "open"
        /\ UNCHANGED <<live, buf, early, app, appGone, before, after, kept>>
    BY DEF Read, entryVars
  <1>3. /\ got[h] \in Seq(Byte) /\ pipe[h] \in Seq(Byte) /\ buf[h] \in Seq(Byte)
        /\ got \in [Handle -> Seq(Byte)] /\ pipe \in [Handle -> Seq(Byte)]
    BY DEF Control, TypeOK
  <1> DEFINE a == SubSeq(pipe[h], 1, n)
             b == SubSeq(pipe[h], n + 1, Len(pipe[h]))
  <1>4. a \in Seq(Byte) /\ b \in Seq(Byte)
    BY <1>3, Cut
  <1>5. a \o b = pipe[h]
    BY <1>3, Cut
  <1> HIDE DEF a, b
  <1>6. got'[h] = got[h] \o a /\ pipe'[h] = b
    BY <1>1, <1>3 DEF a, b
  <1>7. Cat(Cat(Cat(got[h], a), b), buf[h]) = Cat(Cat(got[h], Cat(a, b)), buf[h])
    BY <1>3, <1>4, QueueMoves
  <1>8. ((got[h] \o a) \o b) \o buf[h] = (got[h] \o pipe[h]) \o buf[h]
    BY <1>5, <1>7 DEF Cat
  <1>9. Usable(h)' => Usable(h)
    BY <1>2 DEF Usable
  <1>10. Usable(h)' => kept'[h] = (got'[h] \o pipe'[h]) \o buf'[h] /\ h \in live'
    BY <1>2, <1>6, <1>8, <1>9 DEF Data, InFlight
  <1>11. Usable(h)' => kept'[h] = Staged(before'[h]) \o after'[h]
    BY <1>2, <1>9 DEF Data, LossExact
  <1>12. \A g \in Handle : g # h => got'[g] = got[g] /\ pipe'[g] = pipe[g]
    BY <1>1, <1>3
  <1> QED
    BY <1>2, <1>10, <1>11, <1>12, DataFrame DEF Data, InFlight, LossExact, NoneAfter

\* A drain moves bytes from the front of the buffer to the socketpair.
LEMMA DataDrain ==
  ASSUME Control, Data, NEW h \in Handle, DrainWrite(h)
  PROVE  Data'
  <1>1. PICK n \in 1..Len(buf[h]) :
           /\ pipe' = [pipe EXCEPT ![h] = @ \o SubSeq(buf[h], 1, n)]
           /\ buf' = [buf EXCEPT ![h] = SubSeq(@, n + 1, Len(@))]
    BY DEF DrainWrite
  <1>2. /\ h \in live
        /\ UNCHANGED <<live, early, app, appGone, before, after, kept, got>>
    BY DEF DrainWrite, histVars, Control, LiveFdsOpen
  <1>3. /\ got[h] \in Seq(Byte) /\ pipe[h] \in Seq(Byte) /\ buf[h] \in Seq(Byte)
        /\ buf \in [Handle -> Seq(Byte)] /\ pipe \in [Handle -> Seq(Byte)]
    BY DEF Control, TypeOK
  <1> DEFINE a == SubSeq(buf[h], 1, n)
             b == SubSeq(buf[h], n + 1, Len(buf[h]))
  <1>4. a \in Seq(Byte) /\ b \in Seq(Byte)
    BY <1>3, Cut
  <1>5. a \o b = buf[h]
    BY <1>3, Cut
  <1> HIDE DEF a, b
  <1>6. pipe'[h] = pipe[h] \o a /\ buf'[h] = b
    BY <1>1, <1>3 DEF a, b
  <1>7. Cat(Cat(got[h], Cat(pipe[h], a)), b) = Cat(Cat(got[h], pipe[h]), Cat(a, b))
    BY <1>3, <1>4, QueueMoves
  <1>8. (got[h] \o (pipe[h] \o a)) \o b = (got[h] \o pipe[h]) \o buf[h]
    BY <1>5, <1>7 DEF Cat
  <1>9. /\ Usable(h)' => Usable(h)
        /\ app[h] # "opening"
    BY <1>2 DEF Usable, Control, LiveFdsOpen
  <1>10. Usable(h)' => kept'[h] = (got'[h] \o pipe'[h]) \o buf'[h] /\ h \in live'
    BY <1>2, <1>6, <1>8, <1>9 DEF Data, InFlight
  <1>11. Usable(h)' => kept'[h] = Staged(before'[h]) \o after'[h]
    BY <1>2, <1>9 DEF Data, LossExact
  <1>12. \A g \in Handle : g # h => buf'[g] = buf[g] /\ pipe'[g] = pipe[g]
    BY <1>1, <1>3
  <1> QED
    BY <1>2, <1>9, <1>10, <1>11, <1>12, DataFrame DEF Data, InFlight, LossExact, NoneAfter

\* Nothing is in flight at the start.
LEMMA DataInit == Init => Data
  <1> SUFFICES ASSUME Init PROVE Data
    OBVIOUS
  <1>1. SubSeq(<<>>, 1, 0) = <<>> /\ <<>> \o <<>> = <<>> /\ Len(<<>>) = 0
    BY SubSeqEmpty, EmptySeq, ConcatEmptySeq
  <1>2. Staged(<<>>) \o <<>> = <<>>
    BY <1>1, RecvPumpAssumption DEF Staged, LesserOf
  <1>3. InFlight /\ NoneAfter
    BY DEF Init, InFlight, NoneAfter, Usable
  <1>4. LossExact
    BY <1>2 DEF Init, LossExact
  <1> QED
    BY <1>3, <1>4 DEF Data

\* Every step keeps the data invariant: bytes move from one stage to the next
\* and are lost only past EARLY_STAGE_CAP or at a broken descriptor.
LEMMA DataStep == Control /\ Data /\ [Next]_vars => Data'
  <1> SUFFICES ASSUME Control, Data, [Next]_vars PROVE Data'
    OBVIOUS
  <1> QED
    BY DataQuietSteps, DataPush, DataRegister, DataRead, DataDrain DEF Next, Drain

\* Nothing is reordered, duplicated or invented between the engine's pushes and
\* the application's reads.
THEOREM DataInvariant == Spec => []Data
  BY ControlInit, ControlStep, DataInit, DataStep, PTL DEF Spec

\* The queue property, for every capacity and every way the kernel splits writes.
\* A session loses exactly what comes beyond EARLY_STAGE_CAP before register().
THEOREM BytesKeptHolds == Spec => []BytesKept
  <1>1. Data => BytesKept
    BY DEF Data, BytesKept
  <1> QED
    BY <1>1, DataInvariant, PTL

---------------------------------------------------------------------------
(* Refinement: the pump implements the abstract byte stream.               *)

\* The bytes at the front of the socketpair are those that come next.
LEMMA FrontIsNext ==
  ASSUME NEW S, NEW g \in Seq(S), NEW p \in Seq(S), NEW b \in Seq(S),
         NEW n \in 1..Len(p)
  PROVE  /\ SubSeq((g \o p) \o b, Len(g) + 1, Len(g) + n) = SubSeq(p, 1, n)
         /\ Len(g) + n <= Len((g \o p) \o b)
  <1>1. /\ g \o p \in Seq(S) /\ Len(g \o p) = Len(g) + Len(p)
        /\ Len(g) \in Nat /\ Len(p) \in Nat /\ Len(b) \in Nat
    BY ConcatProperties, LenProperties
  <1> DEFINE q == g \o p
  <1>2. /\ Len(g) + 1 \in 1..Len(q) /\ Len(g) + n \in 1..Len(q)
        /\ Len(g) + 1 \in (Len(g) + 1)..(Len(g) + Len(p))
        /\ Len(g) + n \in (Len(g) + 1)..(Len(g) + Len(p))
    BY <1>1
  <1>3. SubSeq(q, Len(g) + 1, Len(g) + n) = SubSeq(p, (Len(g) + 1) - Len(g), (Len(g) + n) - Len(g))
    BY <1>2, SubSeqOfConcat2, Zenon
  <1>4. (Len(g) + 1) - Len(g) = 1 /\ (Len(g) + n) - Len(g) = n
    BY <1>1
  <1>5. q \in Seq(S) /\ Len(q) = Len(g) + Len(p)
    BY <1>1
  <1> HIDE DEF q
  <1>6. SubSeq(q \o b, Len(g) + 1, Len(g) + n) = SubSeq(q, Len(g) + 1, Len(g) + n)
    BY <1>2, <1>5, SubSeqOfConcat1, Zenon
  <1>7. Len(q \o b) = Len(q) + Len(b)
    BY <1>5, ConcatProperties
  <1>8. Len(g) + n <= Len(q \o b)
    BY <1>1, <1>5, <1>7
  <1>9. SubSeq(q \o b, Len(g) + 1, Len(g) + n) = SubSeq(p, 1, n)
    BY <1>3, <1>4, <1>6, Zenon
  <1> QED
    BY <1>8, <1>9 DEF q

\* A push is the far side handing over what the pump took, or a stutter.
LEMMA StreamPush ==
  ASSUME Control, NEW h \in Handle, OnRecv(h)
  PROVE  Stream!Accept(h) \/ UNCHANGED Stream!vars
  <1>1. PICK n \in 1..MaxChunk :
           /\ up /\ engine[h] = "up"
           /\ \E data \in [1..n -> Byte] : Push(h, data)
    BY DEF OnRecv
  <1>2. PICK data \in [1..n -> Byte] : Push(h, data)
    BY <1>1
  <1>3. data \in Seq(Byte) /\ Len(data) = n /\ n \in Nat \ {0}
    BY Payload, RecvPumpAssumption
  <1>4. h \notin Over /\ UNCHANGED <<got, Over, sawEof>>
    BY <1>1, <1>2 DEF Push, Over
  <1>5. ASSUME kept' = [kept EXCEPT ![h] = @ \o data]
        PROVE  Stream!Accept(h)
    BY <1>4, <1>5 DEF Stream!Accept
  <1>6. CASE StageEarly(h, data)
    <2> DEFINE k == LesserOf(StageRoom(h), Len(data))
               taken == SubSeq(data, 1, k)
    <2>1. k \in 0..Len(data)
      <3>1. early[h] \in Seq(Byte) /\ Len(early[h]) \in Nat
        BY LenProperties DEF Control, TypeOK
      <3>2. StageRoom(h) \in Nat
        BY <3>1, RecvPumpAssumption DEF StageRoom
      <3> QED
        BY <1>3, <3>2 DEF LesserOf
    <2>2. taken \in Seq(Byte) /\ Len(taken) = k
      BY <1>3, <2>1, Cut
    <2>3. kept' = [kept EXCEPT ![h] = @ \o taken]
      BY <1>6 DEF StageEarly
    <2> HIDE DEF k, taken
    <2>4. CASE k = 0
      <3>1. taken = <<>>
        BY <2>2, <2>4, EmptySeq
      <3>2. kept[h] \in Seq(Byte) /\ kept \in [Handle -> Seq(Byte)]
        BY DEF Control, TypeOK
      <3>3. kept[h] \o <<>> = kept[h]
        BY <3>2, ConcatEmptySeq, Zenon
      <3>4. kept' = kept
        BY <2>3, <3>1, <3>2, <3>3
      <3> QED
        BY <1>4, <3>4 DEF Stream!vars
    <2>5. CASE k # 0
      <3>1. k \in 1..MaxChunk
        BY <1>3, <2>1, <2>5, RecvPumpAssumption
      <3>2. taken \in [1..k -> Byte]
        BY <2>2, LenProperties
      <3> QED
        BY <1>4, <2>3, <3>1, <3>2 DEF Stream!Accept
    <2> QED
      BY <2>4, <2>5
  <1>7. CASE PushFast(h, data)
    BY <1>5, <1>7 DEF PushFast
  <1>8. CASE PushBehind(h, data)
    BY <1>5, <1>8 DEF PushBehind
  <1>9. CASE PushFatal(h)
    BY <1>4, <1>9 DEF PushFatal, Stream!vars
  <1> QED
    BY <1>2, <1>6, <1>7, <1>8, <1>9 DEF Push

\* A read of the socketpair is a read of the stream.
LEMMA StreamRead ==
  ASSUME Control, Data, NEW h \in Handle, Read(h)
  PROVE  Stream!Receive(h)
  <1>1. PICK n \in 1..Len(pipe[h]) :
           got' = [got EXCEPT ![h] = @ \o SubSeq(pipe[h], 1, n)]
    BY DEF Read
  <1>2. /\ app[h] = "open" /\ h \notin appGone
        /\ UNCHANGED <<kept, Over, sawEof>>
    BY DEF Read, Over
  <1>3. kept[h] = (got[h] \o pipe[h]) \o buf[h]
    BY <1>2 DEF Data, InFlight, Usable
  <1>4. /\ got[h] \in Seq(Byte) /\ pipe[h] \in Seq(Byte) /\ buf[h] \in Seq(Byte)
        /\ kept[h] \in Seq(Byte)
    BY DEF Control, TypeOK
  <1>5. /\ SubSeq((got[h] \o pipe[h]) \o buf[h], Len(got[h]) + 1, Len(got[h]) + n)
              = SubSeq(pipe[h], 1, n)
        /\ Len(got[h]) + n <= Len((got[h] \o pipe[h]) \o buf[h])
    BY <1>4, FrontIsNext
  <1>6. /\ SubSeq(kept[h], Len(got[h]) + 1, Len(got[h]) + n) = SubSeq(pipe[h], 1, n)
        /\ Len(got[h]) + n <= Len(kept[h])
    BY <1>3, <1>5
  <1>7. Len(got[h]) \in Nat /\ Len(kept[h]) \in Nat /\ Len(pipe[h]) \in Nat
    BY <1>4, LenProperties
  <1>8. n \in 1..(Len(kept[h]) - Len(got[h]))
    BY <1>6, <1>7
  <1>9. got' = [got EXCEPT ![h] = @ \o SubSeq(kept[h], Len(@) + 1, Len(@) + n)]
    BY <1>1, <1>6
  <1> QED
    BY <1>2, <1>8, <1>9 DEF Stream!Receive

\* End-of-file is read after everything else.
LEMMA StreamEof ==
  ASSUME Control, Data, NEW h \in Handle, ReadEof(h)
  PROVE  Stream!Eof(h)
  <1>1. /\ app[h] = "open" /\ h \notin appGone /\ pipe[h] = <<>> /\ h \in wrShut
        /\ sawEof' = sawEof \cup {h}
        /\ UNCHANGED <<kept, got, Over>>
    BY DEF ReadEof, Over
  <1>2. h \in Over /\ buf[h] = <<>>
    BY <1>1 DEF Control, EofOrderly, Over
  <1>3. kept[h] = (got[h] \o <<>>) \o <<>>
    BY <1>1, <1>2 DEF Data, InFlight, Usable
  <1>4. got[h] \in Seq(Byte)
    BY DEF Control, TypeOK
  <1>5. got[h] \o <<>> = got[h]
    BY <1>4, ConcatEmptySeq, Zenon
  <1>6. got[h] = kept[h]
    BY <1>3, <1>5
  <1> QED
    BY <1>1, <1>2, <1>6 DEF Stream!Eof

\* Every step of the pump is a step of the abstract stream or a stutter.
LEMMA StreamStep == Control /\ Data /\ [Next]_vars => [Stream!Next]_Stream!vars
  <1> SUFFICES ASSUME Control, Data, [Next]_vars
               PROVE  [Stream!Next]_Stream!vars
    OBVIOUS
  <1> USE DEF entryVars, sockVars, histVars, flushVars, otherThanFlush
  <1>1. ASSUME NEW h \in Handle, OnRecv(h) PROVE [Stream!Next]_Stream!vars
    BY <1>1, StreamPush DEF Stream!Next
  <1>2. ASSUME NEW h \in Handle, Read(h) PROVE [Stream!Next]_Stream!vars
    BY <1>2, StreamRead DEF Stream!Next
  <1>3. ASSUME NEW h \in Handle, ReadEof(h) PROVE [Stream!Next]_Stream!vars
    BY <1>3, StreamEof DEF Stream!Next
  <1>4. ASSUME OnDisconnect \/ \E h \in Handle : OnClose(h) \/ CloseRequest(h)
        PROVE  [Stream!Next]_Stream!vars
    <2>1. Over \subseteq Over'
      BY <1>4 DEF OnDisconnect, OnClose, CloseRequest, Over, Control, TypeOK
    <2>2. UNCHANGED <<kept, got, sawEof>>
      BY <1>4 DEF OnDisconnect, OnClose, CloseRequest
    <2>3. Over' \in SUBSET Handle /\ Over' = Over \cup Over'
      BY <2>1 DEF Over
    <2>4. Stream!End
      BY <2>2, <2>3 DEF Stream!End
    <2> QED
      BY <2>4 DEF Stream!Next
  <1>5. ASSUME NEW h \in Handle,
               \/ Register(h) \/ LoseAppEnd(h) \/ Unregister(h) \/ CloseFds(h)
               \/ Drain(h)
        PROVE  UNCHANGED Stream!vars
    BY <1>5 DEF Register, LoseAppEnd, Unregister, CloseFds, Drain, DrainWrite,
                DrainBlocked, DrainFatal, DrainEof, Stream!vars, Over
  <1>6. ASSUME FlusherCheck \/ DrainDone \/ PollReturns \/ UNCHANGED vars
        PROVE  UNCHANGED Stream!vars
    BY <1>6 DEF FlusherCheck, DrainDone, PollReturns, vars, Stream!vars, Over
  <1> QED
    BY <1>1, <1>2, <1>3, <1>4, <1>5, <1>6 DEF Next

\* The receive pump implements the abstract byte stream: whatever the kernel,
\* the flusher and the reader thread do, the application reads a prefix of what
\* the pump took, in order, and end-of-file only after all of it.
THEOREM PumpImplementsStream == Spec => StreamSpec
  <1>1. Init => Stream!Init
    BY DEF Init, Stream!Init, Over
  <1> QED
    BY <1>1, StreamStep, ControlInit, ControlStep, DataInit, DataStep, PTL
    DEF Spec, StreamSpec, Stream!Spec
===========================================================================
