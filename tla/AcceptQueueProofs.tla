------------------------- MODULE AcceptQueueProofs -------------------------
(***************************************************************************)
(* Proofs about AcceptQueue, for any listeners and threads: every child is *)
(* handed out once and in order, and no sleeper misses its notification.   *)
(***************************************************************************)
EXTENDS AcceptQueue, Integers, SequenceTheorems, TLAPS

---------------------------------------------------------------------------
(* What pop_front and push_back do to a queue and its history.             *)

\* Concatenation under a name of its own, for the provers to instantiate.
Cat(s, t) == s \o t

\* pop_front moves an element from the queue to what was taken from it.
LEMMA PopMoves ==
  ASSUME NEW S, NEW t \in Seq(S), NEW q \in Seq(S), q # <<>>
  PROVE  /\ Append(t, Head(q)) \in Seq(S) /\ Tail(q) \in Seq(S)
         /\ Cat(Append(t, Head(q)), Tail(q)) = Cat(t, q)
  <1>1. Head(q) \in S /\ Tail(q) \in Seq(S) /\ Head(q) = q[1] /\ Len(q) \in Nat \ {0}
    BY HeadTailProperties, EmptySeq
  <1>2. <<Head(q)>> \in Seq(S)
    BY <1>1
  <1>3. q = <<Head(q)>> \o Tail(q)
    <2>1. SubSeq(q, 1, Len(q)) = <<q[1]>> \o SubSeq(q, 2, Len(q))
      <3>1. 1 \in 1..Len(q) /\ Len(q) \in 1..Len(q) /\ 1 + 1 = 2
        BY <1>1
      <3> QED
        BY <3>1, SubSeqRecursiveFirst
    <2> QED
      BY <1>1, <2>1, SubSeqFull, TailIsSubSeq
  <1>4. Append(t, Head(q)) \in Seq(S) /\ Append(t, Head(q)) = t \o <<Head(q)>>
    BY <1>1, AppendProperties, AppendIsConcat
  <1>5. (t \o <<Head(q)>>) \o Tail(q) = t \o (<<Head(q)>> \o Tail(q))
    BY <1>1, <1>2, ConcatAssociative
  <1> QED
    BY <1>1, <1>3, <1>4, <1>5 DEF Cat

\* A push appends to both sides.
LEMMA PushMoves ==
  ASSUME NEW S, NEW t \in Seq(S), NEW q \in Seq(S), NEW e \in S
  PROVE  Append(Cat(t, q), e) = Cat(t, Append(q, e))
  <1>1. t \o q \in Seq(S) /\ <<e>> \in Seq(S)
    BY ConcatProperties
  <1>2. Append(t \o q, e) = (t \o q) \o <<e>> /\ Append(q, e) = q \o <<e>>
    BY <1>1, AppendIsConcat
  <1> QED
    BY <1>1, <1>2, ConcatAssociative DEF Cat

---------------------------------------------------------------------------

IInv == TypeOK /\ EachChildOnce /\ SleepersAreWoken

\* Initially nothing was pushed and nobody waits.
LEMMA InitIInv == Init => IInv
  <1> SUFFICES ASSUME Init PROVE IInv
    OBVIOUS
  <1>1. <<>> \in Seq(Child) /\ <<>> \o <<>> = <<>>
    BY EmptySeq, ConcatEmptySeq, Zenon
  <1>2. TypeOK
    BY <1>1 DEF Init, TypeOK
  <1>3. EachChildOnce
    BY <1>1 DEF Init, EachChildOnce
  <1>4. SleepersAreWoken
    BY DEF Init, SleepersAreWoken
  <1> QED
    BY <1>2, <1>3, <1>4 DEF IInv

\* Taking a child preserves the invariant.
LEMMA PopStep ==
  ASSUME IInv, NEW c \in Acceptor, PopFront(c),
         pc' \in [Acceptor -> {"idle", "try", "test", "park", "asleep", "expired"}],
         \A d \in Acceptor : pc'[d] \in {"test", "park", "asleep"} => pc'[d] = pc[d],
         UNCHANGED <<closed, rd, want, forgotten, answered, pushed>>
  PROVE  IInv'
  <1> DEFINE l == want[c]
  <1>1. /\ l \in Listener /\ queue[l] # <<>>
        /\ queue \in [Listener -> Seq(Child)] /\ taken \in [Listener -> Seq(Child)]
    BY DEF IInv, TypeOK, PopFront
  <1>2. /\ Append(taken[l], Head(queue[l])) \in Seq(Child) /\ Tail(queue[l]) \in Seq(Child)
        /\ Cat(Append(taken[l], Head(queue[l])), Tail(queue[l])) = Cat(taken[l], queue[l])
    <2>1. taken[l] \in Seq(Child) /\ queue[l] \in Seq(Child) /\ queue[l] # <<>>
      BY <1>1
    <2> QED
      BY <2>1, PopMoves
  <1>3. /\ taken' = [taken EXCEPT ![l] = Append(@, Head(queue[l]))]
        /\ queue' = [queue EXCEPT ![l] = Tail(@)]
    BY DEF PopFront
  <1> HIDE DEF l
  <1>4. /\ taken'[l] = Append(taken[l], Head(queue[l]))
        /\ queue'[l] = Tail(queue[l])
        /\ \A m \in Listener : m # l => taken'[m] = taken[m] /\ queue'[m] = queue[m]
    BY <1>1, <1>3
  <1>5. TypeOK'
    BY <1>1, <1>2, <1>3 DEF IInv, TypeOK
  <1>6. EachChildOnce'
    BY <1>1, <1>2, <1>4 DEF IInv, EachChildOnce, Cat
  <1>7. SleepersAreWoken'
    BY <1>1, <1>4 DEF IInv, SleepersAreWoken, TypeOK
  <1> QED
    BY <1>5, <1>6, <1>7 DEF IInv

\* A push appends the child to its listener's queue; the notification is due.
LEMMA PushStep ==
  ASSUME IInv, NEW l \in Listener, Push(l)
  PROVE  IInv'
  <1>1. /\ queue \in [Listener -> Seq(Child)] /\ taken \in [Listener -> Seq(Child)]
        /\ pushed \in [Listener -> Seq(Child)] /\ ChildOf(l) \in Child
    BY LenProperties DEF IInv, TypeOK, ChildOf, Child
  <1>2. /\ Append(queue[l], ChildOf(l)) \in Seq(Child)
        /\ Append(pushed[l], ChildOf(l)) \in Seq(Child)
    BY <1>1, AppendProperties
  <1>3. /\ queue'[l] = Append(queue[l], ChildOf(l))
        /\ pushed'[l] = Append(pushed[l], ChildOf(l))
        /\ \A m \in Listener : m # l => pushed'[m] = pushed[m] /\ queue'[m] = queue[m]
        /\ UNCHANGED <<closed, pc, want, forgotten, answered, taken>>
    BY <1>1 DEF Push
  <1>4. rd' = "queued" /\ \A c \in Acceptor : pc'[c] \notin {"test", "park"}
    BY DEF Push, Unlocked
  <1>5. TypeOK'
    BY <1>1, <1>2 DEF IInv, TypeOK, Push
  <1>6. Append(Cat(taken[l], queue[l]), ChildOf(l)) = Cat(taken[l], Append(queue[l], ChildOf(l)))
    <2>1. taken[l] \in Seq(Child) /\ queue[l] \in Seq(Child) /\ ChildOf(l) \in Child
      BY <1>1
    <2> QED
      BY <2>1, PushMoves
  <1>7. EachChildOnce'
    BY <1>3, <1>6 DEF IInv, EachChildOnce, Cat
  <1>8. SleepersAreWoken'
    BY <1>4 DEF SleepersAreWoken
  <1> QED
    BY <1>5, <1>7, <1>8 DEF IInv

\* Every step of the accept path preserves the invariant.
LEMMA NextIInv == IInv /\ [Next]_vars => IInv'
  <1> SUFFICES ASSUME IInv, [Next]_vars PROVE IInv'
    OBVIOUS
  <1>1. ASSUME NEW l \in Listener, Push(l) PROVE IInv'
    BY <1>1, PushStep
  <1>2. ASSUME NEW c \in Acceptor, Take(c) \/ TryAccept(c) PROVE IInv'
    <2>1. PopFront(c) /\ UNCHANGED <<closed, rd, want, forgotten, answered, pushed>>
      BY <1>2 DEF Take, TryAccept
    <2>2. /\ pc' \in [Acceptor -> {"idle", "try", "test", "park", "asleep", "expired"}]
          /\ \A d \in Acceptor : pc'[d] \in {"test", "park", "asleep"} => pc'[d] = pc[d]
      BY <1>2 DEF Take, TryAccept, Goto, IInv, TypeOK
    <2> QED
      BY <2>1, <2>2, PopStep
  <1>3. ASSUME NEW c \in Acceptor, TakeLate(c) PROVE IInv'
    <2>1. /\ pc' \in [Acceptor -> {"idle", "try", "test", "park", "asleep", "expired"}]
          /\ \A d \in Acceptor : pc'[d] \in {"test", "park", "asleep"} => pc'[d] = pc[d]
          /\ UNCHANGED <<closed, rd, want, forgotten, answered, pushed>>
      BY <1>3 DEF TakeLate, Goto, IInv, TypeOK
    <2>2. CASE PopFront(c)
      BY <2>1, <2>2, PopStep
    <2>3. CASE UNCHANGED <<queue, taken>>
      BY <2>1, <2>3 DEF IInv, TypeOK, EachChildOnce, SleepersAreWoken
    <2> QED
      BY <1>3, <2>2, <2>3 DEF TakeLate
  <1>4. ASSUME NEW c \in Acceptor,
               WaitAccept(c) \/ FindEmpty(c) \/ TestClosed(c) \/ Park(c) \/ Expire(c)
        PROVE  IInv'
    BY <1>4 DEF WaitAccept, FindEmpty, TestClosed, Park, Expire, Goto,
                IInv, TypeOK, EachChildOnce, SleepersAreWoken
  <1>5. ASSUME NEW l \in Listener, Forget(l) PROVE IInv'
    <2>1. <<>> \in Seq(Child)
      BY EmptySeq
    <2> QED
      BY <1>5, <2>1 DEF Forget, IInv, TypeOK, EachChildOnce, SleepersAreWoken
  <1>6. ASSUME NEW l \in Listener, CloseReply(l) PROVE IInv'
    BY <1>6 DEF CloseReply, IInv, TypeOK, EachChildOnce, SleepersAreWoken
  <1>7. CASE SetClosed
    BY <1>7 DEF SetClosed, IInv, TypeOK, EachChildOnce, SleepersAreWoken
  <1>8. CASE WakeAccepts \/ WakeWaiters
    BY <1>8 DEF WakeAccepts, WakeWaiters, NotifyAll, IInv, TypeOK, EachChildOnce, SleepersAreWoken
  <1>9. CASE UNCHANGED vars
    BY <1>9 DEF vars, IInv, TypeOK, EachChildOnce, SleepersAreWoken
  <1> QED
    BY <1>1, <1>2, <1>3, <1>4, <1>5, <1>6, <1>7, <1>8, <1>9 DEF Next, Loop

\* Type correctness of the accept path.
THEOREM AcceptTypeCorrect == Spec => []TypeOK
  <1>1. IInv => TypeOK
    BY DEF IInv
  <1> QED
    BY <1>1, InitIInv, NextIInv, PTL DEF Spec

\* Every accept push is handed to exactly one accept() call, in order, however
\* many threads race for it.
THEOREM ChildrenOnce == Spec => []EachChildOnce
  <1>1. IInv => EachChildOnce
    BY DEF IInv
  <1> QED
    BY <1>1, InitIInv, NextIInv, PTL DEF Spec

\* A thread sleeps in accept() beside a child of its listener only while the
\* reader, which queued it, is on its way to the notification.
THEOREM NoSleeperMissesChild == Spec => []SleepersAreWoken
  <1>1. IInv => SleepersAreWoken
    BY DEF IInv
  <1> QED
    BY <1>1, InitIInv, NextIInv, PTL DEF Spec
=============================================================================
