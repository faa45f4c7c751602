-------------------------- MODULE DgramPumpProofs --------------------------
(***************************************************************************)
(* Proofs about DgramPump, for any number of threads and any queue         *)
(* capacity: the readiness byte follows the queue, and datagrams are read  *)
(* once and in order.                                                      *)
(***************************************************************************)
EXTENDS DgramPump, Integers, SequenceTheorems, TLAPS

---------------------------------------------------------------------------
(* What pop_front and push_back do to a queue and its history.             *)

\* Concatenation under a name of its own, for the provers to instantiate.
Cat(s, t) == s \o t

\* pop_front moves an element from the queue to what was taken from it.
LEMMA PopMoves ==
  ASSUME NEW S, NEW t \in Seq(S), NEW q \in Seq(S), q # <<>>
  PROVE  /\ Append(t, Head(q)) \in Seq(S) /\ Tail(q) \in Seq(S)
         /\ Cat(Append(t, Head(q)), Tail(q)) = Cat(t, q)
  <1>1. Head(q) \in S /\ Tail(q) \in Seq(S) /\ Head(q) = q[1] /\ Len(q) \in Nat \ {0}
    BY HeadTailProperties, EmptySeq
  <1>2. <<Head(q)>> \in Seq(S)
    BY <1>1
  <1>3. q = <<Head(q)>> \o Tail(q)
    <2>1. SubSeq(q, 1, Len(q)) = <<q[1]>> \o SubSeq(q, 2, Len(q))
      <3>1. 1 \in 1..Len(q) /\ Len(q) \in 1..Len(q) /\ 1 + 1 = 2
        BY <1>1
      <3> QED
        BY <3>1, SubSeqRecursiveFirst
    <2> QED
      BY <1>1, <2>1, SubSeqFull, TailIsSubSeq
  <1>4. Append(t, Head(q)) \in Seq(S) /\ Append(t, Head(q)) = t \o <<Head(q)>>
    BY <1>1, AppendProperties, AppendIsConcat
  <1>5. (t \o <<Head(q)>>) \o Tail(q) = t \o (<<Head(q)>> \o Tail(q))
    BY <1>1, <1>2, ConcatAssociative
  <1> QED
    BY <1>1, <1>3, <1>4, <1>5 DEF Cat

\* A push appends to both sides.
LEMMA PushMoves ==
  ASSUME NEW S, NEW t \in Seq(S), NEW q \in Seq(S), NEW e \in S
  PROVE  Append(Cat(t, q), e) = Cat(t, Append(q, e))
  <1>1. t \o q \in Seq(S) /\ <<e>> \in Seq(S)
    BY ConcatProperties
  <1>2. Append(t \o q, e) = (t \o q) \o <<e>> /\ Append(q, e) = q \o <<e>>
    BY <1>1, AppendIsConcat
  <1> QED
    BY <1>1, <1>2, ConcatAssociative DEF Cat

---------------------------------------------------------------------------

\* Before the socket is bound nothing was queued and the socketpair is empty;
\* Readiness and DgramOrder start there.
Fresh ==
    /\ registered <=> app = "open"
    /\ app = "unbound" => pipe = 0 /\ queued = <<>> /\ read = <<>>

IInv == TypeOK /\ Readiness /\ DgramOrder /\ Fresh

\* The initial state satisfies the invariant.
LEMMA InitIInv == Init => IInv
  <1> SUFFICES ASSUME Init PROVE IInv
    OBVIOUS
  <1>1. <<>> \in Seq(Dgram) /\ Len(<<>>) = 0
    BY EmptySeq
  <1>2. TypeOK
    <2>1. queue \in Seq(Dgram) /\ queued \in Seq(Dgram) /\ read \in Seq(Dgram)
      BY <1>1, Zenon DEF Init
    <2>3. arrived \in Nat /\ pipe \in Nat
      BY DEF Init
    <2> QED
      BY <2>1, <2>3, Zenon DEF Init, TypeOK
  <1>3. Readiness /\ DgramOrder /\ Fresh
    <2>1. ~registered /\ app = "unbound" /\ pipe = 0 /\ queued = <<>> /\ read = <<>>
      BY DEF Init
    <2>2. Len(queue) <= QueueCap
      BY <1>1, DgramPumpAssumption DEF Init
    <2> QED
      BY <2>1, <2>2 DEF Readiness, DgramOrder, Fresh
  <1> QED
    BY <1>2, <1>3 DEF IInv

\* raise leaves the byte in a registered socket's pipe exactly when signaled says
\* so, and does signal unless the socketpair was shut down.
LEMMA RaiseStep ==
  ASSUME IInv, Raise
  PROVE  /\ signaled' \in BOOLEAN /\ pipe' \in Nat
         /\ registered => pipe' = (IF signaled' THEN 1 ELSE 0) /\ (signaled' \/ gone)
  <1>1. signaled \in BOOLEAN /\ gone \in BOOLEAN /\ pipe \in Nat
    BY DEF IInv, TypeOK
  <1>2. registered => pipe = (IF signaled THEN 1 ELSE 0)
    BY DEF IInv, Readiness
  <1>3. CASE signaled \/ gone
    <2>1. signaled' = signaled /\ pipe' = pipe
      BY <1>3 DEF Raise
    <2> QED
      BY <1>1, <1>2, <1>3, <2>1, Zenon
  <1>4. CASE ~(signaled \/ gone)
    <2>1. signaled' = TRUE /\ pipe' = pipe + 1 /\ (registered => pipe = 0)
      BY <1>2, <1>4 DEF Raise
    <2>2. pipe' \in Nat /\ (registered => pipe' = 1)
      BY <1>1, <2>1
    <2> QED
      BY <2>1, <2>2
  <1> QED
    BY <1>3, <1>4

\* on_dgram: a queued datagram is signalled, a dropped one changes nothing.
LEMMA OnDgramStep ==
  ASSUME IInv, OnDgram
  PROVE  IInv'
  <1>1. CASE registered /\ HasRoom
    <2> DEFINE d == arrived + 1
    <2>1. /\ d \in Dgram /\ queue \in Seq(Dgram) /\ read \in Seq(Dgram) /\ queued \in Seq(Dgram)
          /\ Len(queue) < QueueCap /\ Len(queue) \in Nat /\ QueueCap \in Nat
      BY <1>1, LenProperties, DgramPumpAssumption DEF IInv, TypeOK, Dgram, HasRoom
    <2>2. /\ queue' = Append(queue, d) /\ queued' = Append(queued, d)
          /\ Raise
          /\ UNCHANGED <<registered, eof, gone, app, up, pc, read>> /\ arrived' = d
      BY <1>1 DEF OnDgram, Enqueue
    <2> HIDE DEF d
    <2>3. /\ Append(queue, d) \in Seq(Dgram) /\ Append(queued, d) \in Seq(Dgram)
          /\ Len(Append(queue, d)) = Len(queue) + 1 /\ Append(queue, d) # <<>>
      BY <2>1, AppendProperties
    <2>4. Append(Cat(read, queue), d) = Cat(read, Append(queue, d))
      BY <2>1, PushMoves
    <2>5. TypeOK'
      <3>1. signaled' \in BOOLEAN /\ pipe' \in Nat
        BY <2>2, RaiseStep
      <3> QED
        BY <2>1, <2>2, <2>3, <3>1 DEF IInv, TypeOK, Dgram
    <2>6. Readiness'
      <3>1. pipe' = (IF signaled' THEN 1 ELSE 0) /\ (signaled' \/ gone)
        BY <1>1, <2>2, RaiseStep
      <3> QED
        BY <1>1, <2>2, <2>3, <3>1 DEF Readiness
    <2>7. DgramOrder'
      <3>1. Len(queue') <= QueueCap
        BY <2>1, <2>2, <2>3
      <3>2. queued' = read' \o queue'
        BY <1>1, <2>2, <2>4 DEF IInv, DgramOrder, Cat
      <3> QED
        BY <3>1, <3>2 DEF DgramOrder
    <2>8. Fresh'
      BY <1>1, <2>2 DEF IInv, Fresh
    <2> QED
      BY <2>5, <2>6, <2>7, <2>8 DEF IInv
  <1>2. CASE ~(registered /\ HasRoom)
    BY <1>2 DEF OnDgram, IInv, TypeOK, Readiness, DgramOrder, Fresh
  <1> QED
    BY <1>1, <1>2

\* recv_one takes the oldest datagram, and the byte with the last one.
LEMMA GotStep ==
  ASSUME IInv, NEW t \in Thread, Got(t)
  PROVE  IInv'
  <1>1. /\ queue \in Seq(Dgram) /\ read \in Seq(Dgram) /\ queue # <<>> /\ registered
        /\ Len(queue) <= QueueCap
    BY DEF IInv, TypeOK, DgramOrder, Got
  <1>2. /\ Append(read, Head(queue)) \in Seq(Dgram) /\ Tail(queue) \in Seq(Dgram)
        /\ Cat(Append(read, Head(queue)), Tail(queue)) = Cat(read, queue)
        /\ Len(Tail(queue)) <= QueueCap
    <2>1. Len(Tail(queue)) = Len(queue) - 1 /\ Len(queue) \in Nat
      BY <1>1, HeadTailProperties, LenProperties
    <2> QED
      BY <1>1, <2>1, PopMoves, DgramPumpAssumption
  <1>3. /\ queue' = Tail(queue) /\ read' = Append(read, Head(queue)) /\ ConsumeSignal
        /\ UNCHANGED <<registered, eof, gone, app, up, arrived, queued>>
        /\ pc' = [pc EXCEPT ![t] = "idle"]
    BY DEF Got, Goto
  <1>4. /\ signaled \/ gone
        /\ signaled => pipe = 1
        /\ ~signaled => pipe = 0
    BY <1>1 DEF IInv, Readiness
  <1>9. \/ Tail(queue) = <<>> /\ signaled' = FALSE /\ pipe' = 0
        \/ (Tail(queue) # <<>> \/ ~signaled) /\ signaled' = signaled /\ pipe' = pipe
    <2>1. \/ Tail(queue) = <<>> /\ signaled /\ signaled' = FALSE /\ pipe' = pipe - 1
          \/ (Tail(queue) # <<>> \/ ~signaled) /\ signaled' = signaled /\ pipe' = pipe
      BY <1>3, Zenon DEF ConsumeSignal
    <2>2. signaled => pipe - 1 = 0
      BY <1>4
    <2> QED
      BY <2>1, <2>2, Zenon
  <1>5. TypeOK'
    <2>1. signaled' \in BOOLEAN /\ pipe' \in Nat
      <3>1. \/ signaled' = FALSE /\ pipe' = 0
            \/ signaled' = signaled /\ pipe' = pipe
        BY <1>9, Zenon
      <3>2. signaled \in BOOLEAN /\ pipe \in Nat /\ 0 \in Nat
        BY DEF IInv, TypeOK
      <3> QED
        BY <3>1, <3>2, Zenon
    <2>2. pc' \in [Thread -> {"idle", "try", "parked", "eof"}]
      BY <1>3 DEF IInv, TypeOK
    <2> QED
      BY <1>2, <1>3, <2>1, <2>2, Zenon DEF IInv, TypeOK
  <1>6. Readiness'
    <2>1. CASE Tail(queue) = <<>> /\ signaled' = FALSE /\ pipe' = 0
      BY <1>1, <1>3, <2>1 DEF Readiness
    <2>2. CASE (Tail(queue) # <<>> \/ ~signaled) /\ signaled' = signaled /\ pipe' = pipe
      <3>1. /\ signaled => Tail(queue) # <<>> /\ pipe' = 1
            /\ ~signaled => gone /\ pipe' = 0
        BY <1>4, <2>2
      <3>2. /\ pipe' = (IF signaled' THEN 1 ELSE 0) /\ (signaled' \/ gone')
            /\ (signaled' => queue' # <<>>)
        BY <1>3, <2>2, <3>1, Zenon
      <3> QED
        BY <3>2 DEF Readiness
    <2> QED
      BY <1>9, <2>1, <2>2
  <1>7. DgramOrder'
    BY <1>1, <1>2, <1>3 DEF IInv, DgramOrder, Cat
  <1>8. Fresh'
    BY <1>1, <1>3 DEF IInv, Fresh
  <1> QED
    BY <1>5, <1>6, <1>7, <1>8 DEF IInv

\* Every step preserves the invariant.
LEMMA NextIInv == IInv /\ [Next]_vars => IInv'
  <1> SUFFICES ASSUME IInv, [Next]_vars PROVE IInv'
    OBVIOUS
  <1> USE DEF IInv
  <1>0. <<>> \in Seq(Dgram) /\ Len(<<>>) = 0 /\ <<>> \o <<>> = <<>> /\ 0 <= QueueCap
    <2>1. <<>> \in Seq(Dgram) /\ Len(<<>>) = 0
      BY EmptySeq
    <2>2. <<>> \o <<>> = <<>>
      BY <2>1, ConcatEmptySeq, Zenon
    <2> QED
      BY <2>1, <2>2, DgramPumpAssumption
  <1>1. CASE OnDgram
    BY <1>1, OnDgramStep
  <1>2. CASE OnDisconnect
    <2>1. UNCHANGED <<registered, queue, gone, app, pc, arrived, queued, read>> /\ up' \in BOOLEAN
      BY <1>2 DEF OnDisconnect
    <2>2. CASE registered
      <3>1. /\ eof' = TRUE /\ signaled' \in BOOLEAN /\ pipe' \in Nat
            /\ pipe' = (IF signaled' THEN 1 ELSE 0) /\ (signaled' \/ gone)
        BY <1>2, <2>2, RaiseStep DEF OnDisconnect
      <3> QED
        BY <2>1, <2>2, <3>1 DEF TypeOK, Readiness, DgramOrder, Fresh
    <2>3. CASE ~registered
      BY <1>2, <2>1, <2>3 DEF OnDisconnect, TypeOK, Readiness, DgramOrder, Fresh
    <2> QED
      BY <2>2, <2>3
  <1>3. CASE Register
    <2>1. TypeOK' /\ Readiness' /\ Fresh'
      BY <1>0, <1>3 DEF Register, TypeOK, Readiness, Fresh
    <2>2. DgramOrder'
      BY <1>0, <1>3 DEF Register, DgramOrder, Fresh
    <2> QED
      BY <2>1, <2>2
  <1>4. CASE Unregister
    BY <1>0, <1>4 DEF Unregister, TypeOK, Readiness, DgramOrder, Fresh
  <1>5. CASE CloseFds
    BY <1>5 DEF CloseFds, TypeOK, Readiness, DgramOrder, Fresh
  <1>6. ASSUME NEW t \in Thread, Got(t) PROVE IInv'
    BY <1>6, GotStep
  <1>7. ASSUME NEW t \in Thread,
               Call(t) \/ PollFirst(t) \/ SeeEof(t) \/ Empty(t) \/ NoHandle(t) \/ Readable(t)
        PROVE  IInv'
    <2>1. /\ UNCHANGED <<registered, queue, signaled, eof, pipe, gone, app, up, arrived, queued, read>>
          /\ pc' \in [Thread -> {"idle", "try", "parked", "eof"}]
      BY <1>7 DEF Call, PollFirst, SeeEof, Empty, NoHandle, Readable, Goto, TypeOK
    <2> QED
      BY <2>1 DEF TypeOK, Readiness, DgramOrder, Fresh
  <1>9. CASE LoseAppEnd
    BY <1>9 DEF LoseAppEnd, TypeOK, Readiness, DgramOrder, Fresh
  <1>8. CASE UNCHANGED vars
    BY <1>8 DEF vars, TypeOK, Readiness, DgramOrder, Fresh
  <1> QED
    BY <1>1, <1>2, <1>3, <1>4, <1>5, <1>6, <1>7, <1>8, <1>9 DEF Next, Step

\* The readiness byte is in the socketpair exactly while datagrams wait, or
\* after end-of-file: poll() never sleeps on a datagram and never spins on an
\* empty queue (a socketpair shut down past the interposer stays readable).
THEOREM ReadinessHolds == Spec => []Readiness
  <1>1. IInv => Readiness
    BY DEF IInv
  <1> QED
    BY <1>1, InitIInv, NextIInv, PTL DEF Spec

\* Threads that share the socket read the queued datagrams once and in order, and
\* the queue never exceeds DGRAM_QUEUE_CAP.
THEOREM DgramOrderHolds == Spec => []DgramOrder
  <1>1. IInv => DgramOrder
    BY DEF IInv
  <1> QED
    BY <1>1, InitIInv, NextIInv, PTL DEF Spec

\* Type correctness of the datagram pump.
THEOREM DgramTypeCorrect == Spec => []TypeOK
  <1>1. IInv => TypeOK
    BY DEF IInv
  <1> QED
    BY <1>1, InitIInv, NextIInv, PTL DEF Spec
=============================================================================
