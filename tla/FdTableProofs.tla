--------------------------- MODULE FdTableProofs ---------------------------
(***************************************************************************)
(* Proofs about FdTable, for every number of threads, descriptors, engine  *)
(* sessions, handles and calls.                                            *)
(*                                                                         *)
(* The argument goes in four layers.  Each action is first reduced to what *)
(* it does field by field (the lemmas named ...Effect).  Then every step   *)
(* is shown to be of one of a few kinds: most are quiet, a call that       *)
(* starts, fails or returns (Kinds); from the kinds follows what may       *)
(* become of a thread, of a row of the table, of a claim on a handle and   *)
(* of a handle at the engine (ThreadFate, RowFate, ClaimsFate, EngineStep). *)
(* On that rest the proofs that each part of the invariant is kept (the    *)
(* lemmas named ...Step), and on those the theorems.  The outbound pump    *)
(* and the gates are a part of their own (LinkInv), which needs the rest   *)
(* (CoreInv) and which the rest does not need.                             *)
(***************************************************************************)
EXTENDS FdTable, TLAPS

---------------------------------------------------------------------------
(* The inductive invariant.                                                *)

Carries == {"bindReq", "listenReq", "store", "discard", "register", "link"}

\* What a thread may be doing at each of its steps, and what it has in hand.
ThreadOK(t) ==
    /\ pc[t] = "idle" <=> me[t].fd = None
    /\ pc[t] = "idle" => me[t].op = "none"
    /\ me[t].fd # None => tab[me[t].fd].st # "free"
    /\ pc[t] = "look" => me[t].op \in {"obtain", "sendto"}
    /\ pc[t] = "ensure" => me[t].op \in {"listen", "connect", "obtain", "sendto", "accept", "send", "close"}
    /\ pc[t] = "bindReq" => me[t].op \in {"listen", "obtain", "sendto"}
    /\ pc[t] = "listenReq" => me[t].op = "listen"
    /\ pc[t] = "store" => me[t].op \in {"listen", "connect", "obtain", "sendto"}
    /\ pc[t] = "register" => me[t].op \in {"connect", "child", "obtain", "sendto"}
    /\ pc[t] = "link" => me[t].op \in {"connect", "child"}
    /\ pc[t] = "discard" => me[t].op \in {"obtain", "sendto"}
    /\ pc[t] = "take" => me[t].op = "accept"
    /\ pc[t] \in {"destroy", "unregister"} => me[t].op = "close"
    /\ me[t].op = "close" => pc[t] \in {"ensure", "destroy", "unregister"}
    /\ me[t].op = "child" => pc[t] \in {"register", "link"}
    /\ pc[t] \in Carries \cup {"take"} => me[t].gen \in Gen /\ me[t].handle \in Handle
    /\ me[t].op = "close" /\ me[t].handle # None => me[t].gen \in Gen
    /\ pc[t] = "ensure" /\ me[t].op \in {"accept", "send", "close"} => me[t].handle \in Handle
    /\ pc[t] = "unregister" => me[t].handle \in Handle
    /\ me[t].op \in {"obtain", "sendto"} => tab[me[t].fd].dgram
    /\ me[t].op \in {"connect", "child"} => ~tab[me[t].fd].dgram

Threads == \A t \in Thread : ThreadOK(t)

\* A descriptor that has a handle has been opened, and the handle has a session;
\* so does an entry.
Rows == \A f \in Fd : tab[f].handle # None => tab[f].gen \in Gen /\ tab[f].st # "free"

EntryOK(reg, h) == /\ reg.fd = None <=> reg.gen = None
                   /\ reg.gen # None => h <= given[reg.gen]

Entries == \A h \in Handle : EntryOK(recvReg[h], h) /\ EntryOK(dgReg[h], h)

\* A session that is not up has nothing at the engine; one that has given out
\* handles and is up is the client's.
Sessions ==
    \A g \in Gen :
        /\ IsClosed(g) => engine[g] = {} /\ listening[g] = {}
                          /\ \A l \in Handle : queue[g][l] = {}
        /\ rd[g] = "none" => given[g] = 0
        /\ given[g] > 0 /\ ~IsClosed(g) => client = g
        /\ listening[g] # {} => given[g] > 0

\* The three ways of having handle h of session g: in the table, in a call that
\* has not stored it, in a queue.  And a way to know it: a call that has stored
\* it, or is closing it.
Has(f, g, h) == tab[f].gen = g /\ tab[f].handle = h
Queued(l, g, h) == h \in queue[g][l]
Knows(t, g, h) ==
    (pc[t] \in {"register", "link"} \/ me[t].op = "close") /\ me[t].gen = g /\ me[t].handle = h

\* Nobody has a handle that the engine has not given out, and only one has it; a
\* call that knows it without having it knows it of the descriptor it works on.
Sole(g, h) ==
    /\ \A f \in Fd : Has(f, g, h) => h <= given[g]
    /\ \A t \in Thread : Owns(t, g, h) \/ Knows(t, g, h) => h <= given[g]
    /\ \A l \in Handle : Queued(l, g, h) => h <= given[g]
    /\ \A e, f \in Fd : Has(e, g, h) /\ Has(f, g, h) => e = f
    /\ \A t, u \in Thread : Owns(t, g, h) /\ Owns(u, g, h) => t = u
    /\ \A l, m \in Handle : Queued(l, g, h) /\ Queued(m, g, h) => l = m
    /\ \A f \in Fd, t \in Thread : ~(Has(f, g, h) /\ Owns(t, g, h))
    /\ \A f \in Fd, l \in Handle : ~(Has(f, g, h) /\ Queued(l, g, h))
    /\ \A t \in Thread, l \in Handle : ~(Owns(t, g, h) /\ Queued(l, g, h))
    /\ \A t \in Thread, f \in Fd : Knows(t, g, h) /\ Has(f, g, h) => me[t].fd = f
    /\ \A t, u \in Thread : ~(Knows(t, g, h) /\ Owns(u, g, h))
    /\ \A t \in Thread, l \in Handle : ~(Knows(t, g, h) /\ Queued(l, g, h))

Exclusive == \A g \in Gen, h \in Handle : Sole(g, h)

\* A close() that overlaps with another call marks the descriptor; otherwise a
\* call works on an open descriptor, and close() on the handle it has.
Races ==
    /\ \A t, u \in Thread : t # u /\ me[t].fd = me[u].fd /\ me[t].fd # None /\ me[t].op = "close"
          => me[t].fd \in raced
    /\ \A t \in Thread : me[t].fd # None /\ pc[t] # "unregister" /\ ~IsOpen(me[t].fd)
          => me[t].fd \in raced
    /\ \A t \in Thread : me[t].op = "close" /\ (pc[t] = "unregister" \/ me[t].fd \notin raced)
          => Has(me[t].fd, me[t].gen, me[t].handle)
    /\ \A t \in Thread : pc[t] = "unregister" => ~IsOpen(me[t].fd)

Gone(g, h) == <<g, h>> \in stolen \/ IsClosed(g)

\* What the engine did for a call stays done, unless the handle is stolen.
Held ==
    /\ \A t \in Thread : pc[t] \in {"bindReq", "listenReq", "store"} =>
          me[t].handle \in engine[me[t].gen] \/ Gone(me[t].gen, me[t].handle)
    /\ \A t \in Thread : pc[t] = "store" /\ me[t].op = "listen" =>
          me[t].handle \in listening[me[t].gen] \/ Gone(me[t].gen, me[t].handle)
    /\ \A g \in Gen, l, h \in Handle : Queued(l, g, h) => h \in engine[g] \/ Gone(g, h)

\* A close() that has told the engine leaves nothing open, or says so.
ClosesDone ==
    \A t \in Thread : pc[t] = "destroy" /\ me[t].handle # None =>
        me[t].handle \notin engine[me[t].gen] \/ <<me[t].gen, me[t].handle>> \in dropped

\* A live descriptor has its entry, or a call that is about to make it, or is a
\* listener; or the entry, or the handle, was lost in one of the known ways.
Settled(f, g, h) ==
    \/ tab[f].dgram /\ dgReg[h].fd = f /\ dgReg[h].gen = g
    \/ ~tab[f].dgram /\ recvReg[h].fd = f /\ recvReg[h].gen = g
    \/ \E t \in Thread : pc[t] = "register" /\ me[t].fd = f /\ Knows(t, g, h)
    \/ h \in listening[g]
    \/ <<g, h>> \in clobbered \cup stolen
    \/ InCall(f, {"close"})

Registered == \A f \in Fd : Live(f) => Settled(f, tab[f].gen, tab[f].handle)

\* The receive and the datagram pump keep no entry for a closed descriptor, unless
\* its close() overlapped with another call.
StaysOpen(f, h) == IsOpen(f) \/ InCall(f, {"close"}) \/ tab[f].handle # h

PumpsOpen ==
    \A h \in Handle, f \in Fd :
        (recvReg[h].fd = f \/ dgReg[h].fd = f) /\ f \notin raced => StaysOpen(f, h)

Base == TypeOK /\ Threads /\ Rows /\ Entries /\ Sessions /\ Exclusive

CoreInv ==
    /\ Base /\ Races /\ Held /\ EngineKeeps /\ ClosesDone /\ OnlyKnownLeaks
    /\ Registered /\ PumpsOpen

\* The second part: an entry of the outbound pump, or a gate on its way there, is of
\* the only descriptor that may have the handle; gates are of the descriptors that
\* connected without blocking.
LinkEntry(h, e) == outReg[h] = e \/ gates[h] = e \/ <<h, e>> \in resolving

Mine(f, g, h) ==
    /\ h <= given[g]
    /\ \A e \in Fd : Has(e, g, h) => e = f
    /\ \A t \in Thread : ~Owns(t, g, h)
    /\ \A l \in Handle : ~Queued(l, g, h)

LinkEntries ==
    \A h \in Handle, e \in Reg : LinkEntry(h, e) =>
        /\ e.fd = None <=> e.gen = None
        /\ e.fd # None => Mine(e.fd, e.gen, h)

GatedEntries ==
    \A h \in Handle, e \in Reg :
        (gates[h] = e \/ <<h, e>> \in resolving) /\ e.fd # None => e.fd \in gated

OutOpen ==
    \A h \in Handle, f \in Fd :
        outReg[h].fd = f /\ f \notin raced /\ f \notin gated => StaysOpen(f, h)

\* What the outbound pump took it keeps, until the descriptor is closed or the close
\* of a descriptor of another session removes the entry under the same number.
Linked ==
    \A g \in Gen, h \in Handle : <<g, h>> \in linked =>
        /\ ~IsClosed(g)
        /\ \/ outReg[h].gen = g \/ <<g, h>> \in clobbered
           \/ \E f \in Fd : Has(f, g, h) /\ tab[f].st = "closed"

LinkInv == LinkTypeOK /\ LinkEntries /\ GatedEntries /\ OutOpen /\ Linked

IInv == CoreInv /\ LinkInv

---------------------------------------------------------------------------
(* Types.                                                                  *)

\* The types of a row of the table and of what a thread has in hand.
Row == [st : {"free", "open", "closed"}, dgram : BOOLEAN, local : BOOLEAN,
        handle : Handle \cup {None}, gen : Gen \cup {None}]
Call == [op : Op, fd : Fd \cup {None}, gen : Gen \cup {None},
         handle : Handle \cup {None}, local : BOOLEAN, kept : Handle \cup {None}]

\* The constants are apart from each other, and the initial values have their
\* types.
LEMMA Basics ==
  ASSUME TableAssumption
  PROVE  /\ None \notin Gen /\ None \notin Handle /\ None \notin Fd
         /\ Gen \subseteq Nat /\ Handle \subseteq Nat
         /\ Free \in Row /\ Idle \in Call /\ NoEntry \in Reg
  BY DEF TableAssumption, None, Gen, Handle, Free, Row, Idle, Call, NoEntry, Reg, Op

\* The initial state is well typed.
LEMMA TypeInit ==
  ASSUME Init, TableAssumption
  PROVE  TypeOK
  BY Basics DEF Init, TypeOK, Row, Call, Step, TableAssumption

\* A call begins: the thread has the call in hand, and the others what they had.
LEMMA BeginEffect ==
  ASSUME TypeOK, TableAssumption, NEW t \in Thread, NEW f \in Fd, NEW op \in Op \ {"none"},
         NEW step \in Step, Begin(t, op, f, step)
  PROVE  /\ pc[t] = "idle" /\ pc'[t] = step
         /\ me'[t].op = op /\ me'[t].fd = f /\ me'[t].local = FALSE /\ me'[t].kept = None
         /\ me'[t].gen = IF op = "close" THEN tab[f].gen ELSE None
         /\ me'[t].handle = IF op \in {"accept", "send", "close"} THEN tab[f].handle ELSE None
         /\ \A u \in Thread : u # t => me'[u] = me[u] /\ pc'[u] = pc[u]
         /\ \A u \in Thread : me[u].op = "child" => me[u].fd # f
         /\ raced' = IF \E u \in Thread : me[u].fd = f /\ "close" \in {op, me[u].op}
                     THEN raced \cup {f} ELSE raced
         /\ pc' \in [Thread -> Step] /\ me' \in [Thread -> Call] /\ calls' \in 0..MaxCalls
         /\ raced' \subseteq Fd
  <1>1. tab[f] \in Row
    BY DEF TypeOK, Row
  <1> DEFINE g == IF op = "close" THEN tab[f].gen ELSE None
             h == IF op \in {"accept", "send", "close"} THEN tab[f].handle ELSE None
             r == [Idle EXCEPT !.op = op, !.fd = f, !.gen = g, !.handle = h]
  <1>0. g \in Gen \cup {None} /\ h \in Handle \cup {None}
    BY <1>1 DEF Row
  <1>2. /\ r \in Call /\ r.op = op /\ r.fd = f /\ r.local = FALSE /\ r.kept = None
        /\ r.gen = g /\ r.handle = h
    <2> HIDE DEF g, h
    <2> QED
      BY <1>0 DEF Call, Idle
  <1>3. me' = [me EXCEPT ![t] = r]
    BY DEF Begin
  <1> HIDE DEF r
  <1>4. /\ me' \in [Thread -> Call] /\ me'[t] = r
        /\ \A u \in Thread : u # t => me'[u] = me[u]
    BY <1>2, <1>3 DEF TypeOK, Call
  <1>5. /\ pc[t] = "idle" /\ pc'[t] = step /\ pc' \in [Thread -> Step]
        /\ \A u \in Thread : u # t => pc'[u] = pc[u]
    BY DEF Begin, Goto, TypeOK
  <1>6. calls' \in 0..MaxCalls /\ raced' \subseteq Fd
    BY DEF Begin, TypeOK, TableAssumption
  <1>7. /\ \A u \in Thread : me[u].op = "child" => me[u].fd # f
        /\ raced' = IF \E u \in Thread : me[u].fd = f /\ "close" \in {op, me[u].op}
                    THEN raced \cup {f} ELSE raced
    BY Zenon DEF Begin
  <1> QED
    BY <1>2, <1>4, <1>5, <1>6, <1>7 DEF g, h

\* A call goes on to another step, with another operation, descriptor, session or
\* handle in hand.
LEMMA GotoEffect ==
  ASSUME TypeOK, NEW t \in Thread, NEW step \in Step, Goto(t, step)
  PROVE  /\ pc' \in [Thread -> Step] /\ pc'[t] = step
         /\ \A u \in Thread : u # t => pc'[u] = pc[u]
  BY DEF Goto, TypeOK

\* It returns.
LEMMA ReturnEffect ==
  ASSUME TypeOK, TableAssumption, NEW t \in Thread, Return(t)
  PROVE  /\ pc' \in [Thread -> Step] /\ pc'[t] = "idle" /\ me' \in [Thread -> Call]
         /\ me'[t].op = "none" /\ me'[t].fd = None /\ me'[t].gen = None
         /\ me'[t].handle = None /\ me'[t].kept = None
         /\ \A u \in Thread : u # t => pc'[u] = pc[u] /\ me'[u] = me[u]
  <1>1. /\ Idle \in Call /\ Idle.op = "none" /\ Idle.fd = None /\ Idle.gen = None
        /\ Idle.handle = None /\ Idle.kept = None
    BY Basics DEF Idle
  <1>2. me' \in [Thread -> Call] /\ me'[t] = Idle /\ \A u \in Thread : u # t => me'[u] = me[u]
    BY <1>1 DEF Return, TypeOK, Call
  <1>3. "idle" \in Step
    BY DEF Step
  <1> QED
    BY <1>1, <1>2, <1>3, GotoEffect DEF Return

\* ensure_dgram_handle's result: sendto() has it in hand and the others return.
LEMMA ObtainedEffect ==
  ASSUME TypeOK, TableAssumption, NEW t \in Thread, NEW h \in Handle, Obtained(t, h)
  PROVE  /\ pc' \in [Thread -> Step] /\ me' \in [Thread -> Call]
         /\ \/ /\ pc'[t] = "idle" /\ me'[t].op = "none" /\ me'[t].fd = None
               /\ me'[t].handle = None /\ me'[t].gen = None
            \/ /\ pc'[t] = "ensure" /\ me[t].op = "sendto" /\ me'[t].op = "send"
               /\ me'[t].handle = h /\ me'[t].fd = me[t].fd
         /\ \A u \in Thread : u # t => pc'[u] = pc[u] /\ me'[u] = me[u]
  <1>1. CASE me[t].op = "sendto"
    <2>1. me' = [me EXCEPT ![t].op = "send", ![t].handle = h] /\ Goto(t, "ensure")
      BY <1>1 DEF Obtained
    <2>2. /\ me' \in [Thread -> Call] /\ me'[t].op = "send" /\ me'[t].handle = h
          /\ me'[t].fd = me[t].fd /\ \A u \in Thread : u # t => me'[u] = me[u]
      <3> DEFINE r == [me[t] EXCEPT !.op = "send", !.handle = h]
      <3>1. me[t] \in Call /\ me \in [Thread -> Call]
        BY DEF TypeOK, Call
      <3>2. r \in Call /\ r.op = "send" /\ r.handle = h /\ r.fd = me[t].fd
        BY <3>1 DEF Call, Op
      <3>3. me' = [me EXCEPT ![t] = r]
        BY <2>1, <3>1
      <3> HIDE DEF r
      <3> QED
        BY <3>1, <3>2, <3>3
    <2>3. "ensure" \in Step
      BY DEF Step
    <2> QED
      BY <1>1, <2>1, <2>2, <2>3, GotoEffect
  <1>2. CASE me[t].op # "sendto"
    BY <1>2, ReturnEffect DEF Obtained
  <1> QED
    BY <1>1, <1>2

---------------------------------------------------------------------------
(* What each action does, field by field.                                  *)

\* Only thread t moves; only the row of f changes.
Only(t) == \A u \in Thread : u # t => pc'[u] = pc[u] /\ me'[u] = me[u]
OnlyRow(f) == \A e \in Fd : e # f => tab'[e] = tab[e]
Returned(t) == /\ pc'[t] = "idle" /\ me'[t].op = "none" /\ me'[t].fd = None
               /\ me'[t].gen = None /\ me'[t].handle = None
Moved == pc' \in [Thread -> Step] /\ me' \in [Thread -> Call]

\* A call on f begins: which calls may, and what they have in hand.
Started(t, f) ==
    /\ IsOpen(f) /\ pc[t] = "idle" /\ Moved /\ Only(t) /\ calls' \in 0..MaxCalls
    /\ me'[t].fd = f /\ me'[t].local = FALSE
    /\ me'[t].gen = IF me'[t].op = "close" THEN tab[f].gen ELSE None
    /\ me'[t].handle = IF me'[t].op \in {"accept", "send", "close"} THEN tab[f].handle ELSE None
    /\ \/ me'[t].op = "listen" /\ pc'[t] = "ensure"
       \/ me'[t].op \in {"obtain", "sendto"} /\ pc'[t] = "look" /\ tab[f].dgram
       \/ me'[t].op = "connect" /\ pc'[t] = "ensure" /\ ~tab[f].dgram
       \/ me'[t].op \in {"accept", "send", "close"} /\ pc'[t] = "ensure" /\ tab[f].handle \in Handle
       \/ me'[t].op = "close" /\ pc'[t] = "destroy" /\ tab[f].handle = None
    /\ \A u \in Thread : me[u].op = "child" => me[u].fd # f
    /\ raced \subseteq raced' /\ raced' \subseteq raced \cup {f}
    /\ \A u \in Thread : me[u].fd = f /\ (me'[t].op = "close" \/ me[u].op = "close") => f \in raced'

\* The five ways in which Begin is used start a call that may start.
LEMMA BeginStarts ==
  ASSUME TypeOK, TableAssumption, NEW t \in Thread, NEW f \in Fd, NEW op, NEW step,
         IsOpen(f), Begin(t, op, f, step),
         \/ op = "listen" /\ step = "ensure"
         \/ op \in {"obtain", "sendto"} /\ step = "look" /\ tab[f].dgram
         \/ op = "connect" /\ step = "ensure" /\ ~tab[f].dgram
         \/ op \in {"accept", "send", "close"} /\ step = "ensure" /\ tab[f].handle # None
         \/ op = "close" /\ step = "destroy" /\ tab[f].handle = None
  PROVE  Started(t, f)
  <1>0. op \in Op \ {"none"} /\ step \in Step
    BY DEF Op, Step
  <1>1. tab[f].handle \in Handle \cup {None}
    BY DEF TypeOK
  <1>2. /\ pc[t] = "idle" /\ pc'[t] = step
        /\ me'[t].op = op /\ me'[t].fd = f /\ me'[t].local = FALSE /\ me'[t].kept = None
        /\ me'[t].gen = IF op = "close" THEN tab[f].gen ELSE None
        /\ me'[t].handle = IF op \in {"accept", "send", "close"} THEN tab[f].handle ELSE None
        /\ \A u \in Thread : u # t => me'[u] = me[u] /\ pc'[u] = pc[u]
        /\ \A u \in Thread : me[u].op = "child" => me[u].fd # f
        /\ raced' = IF \E u \in Thread : me[u].fd = f /\ "close" \in {op, me[u].op}
                    THEN raced \cup {f} ELSE raced
        /\ pc' \in [Thread -> Step] /\ me' \in [Thread -> Call] /\ calls' \in 0..MaxCalls
        /\ raced' \subseteq Fd
    BY ONLY TypeOK, TableAssumption, t \in Thread, f \in Fd, <1>0, Begin(t, op, f, step), BeginEffect, Zenon
  <1>3. /\ raced \subseteq raced' /\ raced' \subseteq raced \cup {f}
        /\ \A u \in Thread : me[u].fd = f /\ (op = "close" \/ me[u].op = "close") => f \in raced'
    BY DEF Begin
  <1>4. \/ me'[t].op = "listen" /\ pc'[t] = "ensure"
        \/ me'[t].op \in {"obtain", "sendto"} /\ pc'[t] = "look" /\ tab[f].dgram
        \/ me'[t].op = "connect" /\ pc'[t] = "ensure" /\ ~tab[f].dgram
        \/ me'[t].op \in {"accept", "send", "close"} /\ pc'[t] = "ensure" /\ tab[f].handle \in Handle
        \/ me'[t].op = "close" /\ pc'[t] = "destroy" /\ tab[f].handle = None
    BY <1>1, <1>2
  <1> QED
    BY <1>2, <1>3, <1>4 DEF Started, Moved, Only

\* Everything but the descriptor table and the calls in progress.
outside == <<client, rd, engine, given, listening, queue, recvReg, dgReg,
             dropped, clobbered, stolen>>

\* The calls that only begin.
Begins(t, f) == Listen(t, f) \/ Connect(t, f) \/ Accept(t, f) \/ Send(t, f) \/ Close(t, f)

\* Each of them starts a call on an open descriptor and leaves the table alone.
LEMMA BeginsEffect ==
  ASSUME TypeOK, TableAssumption, NEW t \in Thread, NEW f \in Fd, Begins(t, f)
  PROVE  Started(t, f) /\ UNCHANGED outside /\ UNCHANGED tab
  <1>1. UNCHANGED outside /\ UNCHANGED tab /\ IsOpen(f)
    BY DEF Begins, Listen, Connect, Accept, Send, Close, outside, engineVars, otherHistory
  <1>2. CASE Listen(t, f)
    BY <1>1, <1>2, BeginStarts DEF Listen
  <1>3. CASE Connect(t, f)
    BY <1>1, <1>3, BeginStarts DEF Connect
  <1>4. CASE Accept(t, f)
    BY <1>1, <1>4, BeginStarts DEF Accept
  <1>5. CASE Send(t, f)
    BY <1>1, <1>5, BeginStarts DEF Send
  <1>6. CASE Close(t, f)
    <2>1. Begin(t, "close", f, IF tab[f].handle = None THEN "destroy" ELSE "ensure")
      BY <1>6 DEF Close
    <2> QED
      BY <1>1, <2>1, BeginStarts
  <1> QED
    BY <1>1, <1>2, <1>3, <1>4, <1>5, <1>6 DEF Begins

\* bind() of a datagram socket begins a call, that of a stream only records.
LEMMA BindEffect ==
  ASSUME TypeOK, TableAssumption, NEW t \in Thread, NEW f \in Fd, Bind(t, f)
  PROVE  /\ IsOpen(f) /\ UNCHANGED outside /\ OnlyRow(f)
         /\ tab' \in [Fd -> Row] /\ tab'[f].local = TRUE
         /\ tab'[f].st = tab[f].st /\ tab'[f].dgram = tab[f].dgram
         /\ tab'[f].handle = tab[f].handle /\ tab'[f].gen = tab[f].gen
         /\ IF tab[f].dgram THEN Started(t, f) /\ me'[t].op = "obtain"
                            ELSE UNCHANGED <<pc, me, calls, raced>>
  <1>0. tab \in [Fd -> Row] /\ tab[f] \in Row
    BY DEF TypeOK, Row
  <1> DEFINE r == [tab[f] EXCEPT !.local = TRUE]
  <1>1. /\ r \in Row /\ r.local = TRUE /\ r.st = tab[f].st /\ r.dgram = tab[f].dgram
        /\ r.handle = tab[f].handle /\ r.gen = tab[f].gen
    BY <1>0 DEF Row
  <1>2. tab' = [tab EXCEPT ![f] = r]
    BY DEF Bind
  <1> HIDE DEF r
  <1>3. tab' \in [Fd -> Row] /\ tab'[f] = r /\ OnlyRow(f)
    BY <1>0, <1>1, <1>2 DEF OnlyRow
  <1>4. IsOpen(f) /\ UNCHANGED outside
    BY DEF Bind, outside, engineVars, otherHistory
  <1>5. CASE tab[f].dgram
    <2>1. Begin(t, "obtain", f, "look")
      BY <1>5 DEF Bind
    <2>2. Started(t, f)
      BY <1>4, <1>5, <2>1, BeginStarts
    <2>3. "obtain" \in Op \ {"none"} /\ "look" \in Step
      BY DEF Op, Step
    <2>4. me'[t].op = "obtain"
      BY <2>1, <2>3, BeginEffect, ZenonT(40)
    <2> QED
      BY <1>1, <1>3, <1>4, <1>5, <2>2, <2>4
  <1>6. CASE ~tab[f].dgram
    <2>1. UNCHANGED <<pc, me, calls, raced>>
      BY <1>6 DEF Bind
    <2> QED
      BY <1>1, <1>3, <1>4, <1>6, <2>1
  <1> QED
    BY <1>5, <1>6

\* socket() opens a free row.
LEMMA SocketEffect ==
  ASSUME TypeOK, TableAssumption, NEW f \in Fd, NEW dgram \in BOOLEAN, Socket(f, dgram)
  PROVE  /\ tab[f].st = "free" /\ UNCHANGED outside /\ OnlyRow(f)
         /\ UNCHANGED <<pc, me, calls, raced>>
         /\ tab' \in [Fd -> Row] /\ tab'[f].st = "open" /\ tab'[f].dgram = dgram
         /\ tab'[f].handle = None /\ tab'[f].gen = None /\ tab'[f].local = FALSE
  <1>0. tab \in [Fd -> Row]
    BY DEF TypeOK, Row
  <1> DEFINE r == [Free EXCEPT !.st = "open", !.dgram = dgram]
  <1>1. r \in Row /\ r.st = "open" /\ r.dgram = dgram /\ r.handle = None /\ r.gen = None /\ r.local = FALSE
    BY DEF Row, Free
  <1>2. tab' = [tab EXCEPT ![f] = r] /\ tab[f].st = "free"
    BY DEF Socket
  <1> HIDE DEF r
  <1>3. tab' \in [Fd -> Row] /\ tab'[f] = r /\ OnlyRow(f)
    BY <1>0, <1>1, <1>2 DEF OnlyRow
  <1> QED
    BY <1>1, <1>2, <1>3 DEF Socket, outside, engineVars, history, otherHistory

\* Replacing what one thread has in hand.
LEMMA CallUpdate ==
  ASSUME TypeOK, NEW t \in Thread, NEW r \in Call, me' = [me EXCEPT ![t] = r]
  PROVE  me' \in [Thread -> Call] /\ me'[t] = r /\ \A u \in Thread : u # t => me'[u] = me[u]
  BY DEF TypeOK, Call

\* Replacing one row of the table.
LEMMA RowUpdate ==
  ASSUME TypeOK, NEW f \in Fd, NEW r \in Row, tab' = [tab EXCEPT ![f] = r]
  PROVE  tab' \in [Fd -> Row] /\ tab'[f] = r /\ OnlyRow(f)
  BY DEF TypeOK, Row, OnlyRow

\* A thread inside a call has one of its descriptors in hand.
LEMMA InCallFd ==
  ASSUME TypeOK, Threads, TableAssumption, NEW t \in Thread, pc[t] # "idle"
  PROVE  me[t].fd \in Fd /\ me[t] \in Call /\ tab[me[t].fd] \in Row
  <1>1. me[t] \in Call
    BY DEF TypeOK, Call
  <1>2. me[t].fd \in Fd
    BY <1>1 DEF Threads, ThreadOK, Call
  <1> QED
    BY <1>1, <1>2 DEF TypeOK, Row

\* sendto() goes on with handle h.
Continues(t, h) ==
    /\ pc'[t] = "ensure" /\ me[t].op = "sendto" /\ h \in Handle
    /\ me'[t].op = "send" /\ me'[t].handle = h /\ me'[t].fd = me[t].fd

\* ensure_client may have started a reader thread, never for an old session.
Revived ==
    /\ rd' \in [Gen -> {"none", "run", "closed", "done"}]
    /\ \A k \in Gen : rd'[k] = rd[k] \/ (rd[k] = "none" /\ rd'[k] = "run")

Reached(g) == /\ Revived /\ client' = g /\ rd'[g] = "run"
              /\ client = g \/ ~ClientReady

\* ensure_client leaves the thread a client with a running reader.
LEMMA EnsuredEffect ==
  ASSUME TypeOK, NEW t \in Thread, NEW g \in Gen, Ensured(t, g)
  PROVE  pc[t] = "ensure" /\ Reached(g)
  <1>1. CASE ClientReady /\ g = client /\ UNCHANGED <<client, rd>>
    BY <1>1 DEF Ensured, Reached, Revived, ClientReady, IsClosed, TypeOK
  <1>2. CASE ~ClientReady /\ Fresh(g) /\ client' = g /\ rd' = [rd EXCEPT ![g] = "run"]
    BY <1>2 DEF Ensured, Reached, Revived, Fresh, TypeOK
  <1> QED
    BY <1>1, <1>2 DEF Ensured

\* The result of ensure_dgram_handle, with the types.
LEMMA ObtainedDoes ==
  ASSUME TypeOK, TableAssumption, NEW t \in Thread, NEW h \in Handle, Obtained(t, h)
  PROVE  Only(t) /\ Moved /\ (Returned(t) \/ Continues(t, h))
  BY ObtainedEffect DEF Only, Moved, Returned, Continues

\* A call that returns leaves its thread idle.
LEMMA ReturnDoes ==
  ASSUME TypeOK, TableAssumption, NEW t \in Thread, Return(t)
  PROVE  Only(t) /\ Moved /\ Returned(t)
  BY ReturnEffect DEF Only, Moved, Returned

\* A step with the same things in hand.
LEMMA GotoDoes ==
  ASSUME TypeOK, NEW t \in Thread, NEW step \in Step, Goto(t, step), UNCHANGED me
  PROVE  Only(t) /\ Moved /\ pc'[t] = step /\ me'[t] = me[t]
  BY GotoEffect DEF Only, Moved, TypeOK, Call

\* dgram_handle or sendto() reads the table: the socket has a handle already,
\* or the callsign is copied and a handle will be asked for.
LEMMA LookEffect ==
  ASSUME TypeOK, Threads, TableAssumption, NEW t \in Thread, Look(t)
  PROVE  /\ pc[t] = "look" /\ Only(t) /\ Moved
         /\ UNCHANGED outside /\ UNCHANGED <<tab, calls, raced>>
         /\ \/ Returned(t)
            \/ Continues(t, tab[me[t].fd].handle)
            \/ /\ IsOpen(me[t].fd) /\ pc'[t] = "ensure"
               /\ me'[t].op = me[t].op /\ me'[t].fd = me[t].fd /\ me'[t].gen = me[t].gen
               /\ me'[t].handle = me[t].handle /\ me'[t].local = tab[me[t].fd].local
  <1> DEFINE f == me[t].fd
  <1>1. /\ pc[t] = "look" /\ UNCHANGED outside /\ UNCHANGED <<tab, calls, raced>>
    BY DEF Look, outside, engineVars, history, otherHistory
  <1>2. f \in Fd /\ me[t] \in Call /\ tab[f] \in Row
    BY <1>1, InCallFd
  <1>3. CASE ~IsOpen(f)
    BY <1>1, <1>3, ReturnDoes DEF Look
  <1>4. CASE IsOpen(f) /\ tab[f].handle = None
    <2> DEFINE l == tab[f].local
               r == [me[t] EXCEPT !.local = l]
    <2>1. me' = [me EXCEPT ![t].local = l] /\ Goto(t, "ensure")
      BY <1>4 DEF Look
    <2>2. l \in BOOLEAN
      BY <1>2 DEF Row
    <2> HIDE DEF l
    <2>3. /\ r \in Call /\ r.local = l /\ r.op = me[t].op /\ r.fd = f /\ r.gen = me[t].gen
          /\ r.handle = me[t].handle
      BY <1>2, <2>2 DEF Call
    <2>4. me' = [me EXCEPT ![t] = r]
      BY <2>1 DEF TypeOK
    <2> HIDE DEF r
    <2>5. me' \in [Thread -> Call] /\ me'[t] = r /\ \A u \in Thread : u # t => me'[u] = me[u]
      BY <2>3, <2>4, CallUpdate
    <2>6. pc' \in [Thread -> Step] /\ pc'[t] = "ensure" /\ \A u \in Thread : u # t => pc'[u] = pc[u]
      BY <2>1, GotoEffect DEF Step
    <2> QED
      BY <1>1, <1>4, <2>3, <2>5, <2>6 DEF Only, Moved, l
  <1>5. CASE IsOpen(f) /\ tab[f].handle # None
    <2>1. Obtained(t, tab[f].handle) /\ tab[f].handle \in Handle
      BY <1>2, <1>5 DEF Look, Row
    <2> QED
      BY <1>1, <2>1, ObtainedDoes
  <1> QED
    BY <1>3, <1>4, <1>5

\* A call that gets no client returns; a close() goes on without one.
LEMMA EnsureFailsEffect ==
  ASSUME TypeOK, TableAssumption, NEW t \in Thread, EnsureFails(t)
  PROVE  /\ pc[t] = "ensure" /\ Only(t) /\ Moved /\ Revived /\ ~ClientReady
         /\ UNCHANGED <<tab, client, engine, given, listening, queue, recvReg, dgReg, calls,
                        dropped, raced, clobbered, stolen>>
         /\ \/ me[t].op # "close" /\ Returned(t)
            \/ me[t].op = "close" /\ pc'[t] = "destroy" /\ me'[t] = me[t]
  <1>1. /\ pc[t] = "ensure" /\ ~ClientReady
        /\ UNCHANGED <<tab, client, engine, given, listening, queue, recvReg, dgReg, calls,
                       dropped, raced, clobbered, stolen>>
    BY DEF EnsureFails, engineVars, history, otherHistory
  <1>2. Revived
    BY DEF EnsureFails, Revived, Fresh, TypeOK
  <1>3. CASE me[t].op = "close"
    <2>1. "destroy" \in Step /\ Goto(t, "destroy") /\ UNCHANGED me
      BY <1>3 DEF EnsureFails, Step
    <2> QED
      BY <1>1, <1>2, <1>3, <2>1, GotoDoes
  <1>4. CASE me[t].op # "close"
    BY <1>1, <1>2, <1>4, ReturnDoes DEF EnsureFails
  <1> QED
    BY <1>3, <1>4

\* send() only makes sure of a client.
LEMMA SendReqEffect ==
  ASSUME TypeOK, TableAssumption, NEW t \in Thread, NEW g \in Gen, SendReq(t, g)
  PROVE  /\ pc[t] = "ensure" /\ me[t].op = "send" /\ Reached(g) /\ Only(t) /\ Moved /\ Returned(t)
         /\ UNCHANGED <<tab, engine, given, listening, queue, recvReg, dgReg, calls,
                        dropped, raced, clobbered, stolen>>
  <1>1. Ensured(t, g) /\ Return(t)
    BY DEF SendReq
  <1> QED
    BY <1>1, EnsuredEffect, ReturnDoes DEF SendReq, engineVars, history, otherHistory

\* The engine gives out its next handle.
Granted(g) ==
    /\ given[g] + 1 \in Handle /\ given' \in [Gen -> 0..MaxHandle] /\ engine' \in [Gen -> SUBSET Handle]
    /\ given'[g] = given[g] + 1 /\ engine'[g] = engine[g] \cup {given[g] + 1}
    /\ \A k \in Gen : k # g => given'[k] = given[k] /\ engine'[k] = engine[k]

\* The engine's next handle is one more than those it gave out.
LEMMA GrantEffect ==
  ASSUME TypeOK, TableAssumption, NEW g \in Gen, Grants(g), Grant(g)
  PROVE  Granted(g)
  <1>1. given[g] \in 0..MaxHandle /\ given[g] < MaxHandle
    BY DEF TypeOK, Grants
  <1>2. given[g] + 1 \in Handle /\ given[g] + 1 \in 0..MaxHandle
    BY <1>1 DEF Handle, TableAssumption
  <1> QED
    BY <1>2 DEF TypeOK, Grant, NextHandle, Granted

\* The engine answers the request for a socket: the call carries the new
\* handle.
LEMMA SocketReqEffect ==
  ASSUME TypeOK, TableAssumption, NEW t \in Thread, NEW g \in Gen, SocketReq(t, g)
  PROVE  /\ pc[t] = "ensure" /\ Asks(t) /\ Reached(g) /\ Only(t) /\ Moved /\ Granted(g)
         /\ UNCHANGED <<tab, listening, queue, recvReg, dgReg, calls,
                        dropped, raced, clobbered, stolen>>
         /\ me'[t].op = me[t].op /\ me'[t].fd = me[t].fd /\ me'[t].local = me[t].local
         /\ me'[t].gen = g /\ me'[t].handle = given[g] + 1
         /\ pc'[t] = IF NeedsBind(t) THEN "bindReq" ELSE "store"
  <1>1. /\ Ensured(t, g) /\ Grants(g) /\ Grant(g) /\ Asks(t)
        /\ UNCHANGED <<tab, listening, queue, recvReg, dgReg, calls,
                       dropped, raced, clobbered, stolen>>
    BY DEF SocketReq, history, otherHistory
  <1>2. pc[t] = "ensure" /\ Reached(g) /\ Granted(g)
    BY <1>1, EnsuredEffect, GrantEffect
  <1> DEFINE n == given[g] + 1
             r == [me[t] EXCEPT !.gen = g, !.handle = n]
             step == IF NeedsBind(t) THEN "bindReq" ELSE "store"
  <1>3. me[t] \in Call /\ n \in Handle
    BY <1>2 DEF TypeOK, Call, Granted
  <1>4. me' = [me EXCEPT ![t].gen = g, ![t].handle = n] /\ Goto(t, step) /\ step \in Step
    BY DEF SocketReq, NextHandle, Step
  <1> HIDE DEF n, step
  <1>5. /\ r \in Call /\ r.op = me[t].op /\ r.fd = me[t].fd /\ r.local = me[t].local
        /\ r.gen = g /\ r.handle = n
    BY <1>3 DEF Call
  <1>6. me' = [me EXCEPT ![t] = r]
    BY <1>3, <1>4 DEF TypeOK
  <1> HIDE DEF r
  <1>7. me' \in [Thread -> Call] /\ me'[t] = r /\ \A u \in Thread : u # t => me'[u] = me[u]
    BY <1>5, <1>6, CallUpdate
  <1>8. pc' \in [Thread -> Step] /\ pc'[t] = step /\ \A u \in Thread : u # t => pc'[u] = pc[u]
    BY <1>4, GotoEffect
  <1> QED
    BY <1>1, <1>2, <1>5, <1>7, <1>8 DEF Only, Moved, n, step

\* The request for a socket fails: the handle may exist at the engine and is
\* dropped.
LEMMA SocketFailsEffect ==
  ASSUME TypeOK, TableAssumption, NEW t \in Thread, NEW g \in Gen, SocketFails(t, g)
  PROVE  /\ pc[t] = "ensure" /\ Asks(t) /\ Reached(g) /\ Only(t) /\ Moved /\ Returned(t)
         /\ UNCHANGED <<tab, listening, queue, recvReg, dgReg, calls,
                        raced, clobbered, stolen>>
         /\ \/ UNCHANGED <<engine, given, dropped>>
            \/ Granted(g) /\ dropped' = dropped \cup {<<g, given[g] + 1>>}
  <1>1. Ensured(t, g) /\ Return(t) /\ Asks(t)
    BY DEF SocketFails
  <1>2. \/ UNCHANGED <<engine, given, dropped>>
        \/ Granted(g) /\ dropped' = dropped \cup {<<g, given[g] + 1>>}
    BY GrantEffect DEF SocketFails, NextHandle
  <1> QED
    BY <1>1, <1>2, EnsuredEffect, ReturnDoes DEF SocketFails

\* The engine binds the handle: the call goes on to listen or to store it.
LEMMA BindReqEffect ==
  ASSUME TypeOK, Threads, TableAssumption, NEW t \in Thread, BindReq(t)
  PROVE  /\ pc[t] = "bindReq" /\ Only(t) /\ Moved /\ me'[t] = me[t] /\ ~IsClosed(me[t].gen)
         /\ pc'[t] = IF me[t].op = "listen" THEN "listenReq" ELSE "store"
         /\ UNCHANGED <<tab, client, rd, engine, given, listening, queue, recvReg, dgReg, calls,
                        dropped, raced, clobbered, stolen>>
  <1>1. /\ pc[t] = "bindReq" /\ ~IsClosed(me[t].gen) /\ UNCHANGED me
        /\ UNCHANGED <<tab, client, rd, engine, given, listening, queue, recvReg, dgReg, calls,
                       dropped, raced, clobbered, stolen>>
    BY DEF BindReq, history, otherHistory
  <1> DEFINE step == IF me[t].op = "listen" THEN "listenReq" ELSE "store"
  <1>4. step \in Step /\ Goto(t, step)
    BY DEF BindReq, Step
  <1> HIDE DEF step
  <1>5. Only(t) /\ Moved /\ pc'[t] = step /\ me'[t] = me[t]
    BY <1>1, <1>4, GotoDoes
  <1> QED
    BY <1>1, <1>5 DEF step

\* What Drop adds: handles of sessions that are up.
LEMMA BindFailsEffect ==
  ASSUME TypeOK, Threads, TableAssumption, NEW t \in Thread, BindFails(t)
  PROVE  /\ pc[t] = "bindReq" /\ Only(t) /\ Moved
         /\ UNCHANGED <<tab, client, rd, engine, given, listening, queue, recvReg, dgReg, calls,
                        raced, clobbered, stolen>>
         /\ \/ Returned(t) /\ Drop({<<me[t].gen, me[t].handle>>})
            \/ /\ me[t].op # "listen" /\ pc'[t] = "discard" /\ me'[t] = me[t]
               /\ UNCHANGED dropped
  <1>1. /\ pc[t] = "bindReq" /\ BindFailed(t)
        /\ UNCHANGED <<tab, client, rd, engine, given, listening, queue, recvReg, dgReg, calls,
                       raced, clobbered, stolen>>
    BY DEF BindFails, engineVars
  <1>2. CASE me[t].op = "listen"
    BY <1>1, <1>2, ReturnDoes DEF BindFailed
  <1>3. CASE me[t].op # "listen"
    <2>1. "discard" \in Step /\ Goto(t, "discard") /\ UNCHANGED <<me, dropped>>
      BY <1>1, <1>3 DEF BindFailed, Step
    <2> QED
      BY <1>1, <1>3, <2>1, GotoDoes
  <1> QED
    BY <1>2, <1>3

\* The engine listens on the handle.
LEMMA ListenReqEffect ==
  ASSUME TypeOK, Threads, TableAssumption, NEW t \in Thread, ListenReq(t)
  PROVE  /\ pc[t] = "listenReq" /\ Only(t) /\ Moved /\ me'[t] = me[t] /\ ~IsClosed(me[t].gen)
         /\ pc'[t] = "store"
         /\ UNCHANGED <<tab, client, rd, engine, given, queue, recvReg, dgReg, calls,
                        dropped, raced, clobbered, stolen>>
         /\ listening' \in [Gen -> SUBSET Handle]
         /\ listening'[me[t].gen] = listening[me[t].gen] \cup {me[t].handle}
         /\ \A k \in Gen : k # me[t].gen => listening'[k] = listening[k]
  <1>1. /\ pc[t] = "listenReq" /\ ~IsClosed(me[t].gen) /\ UNCHANGED me
        /\ UNCHANGED <<tab, client, rd, engine, given, queue, recvReg, dgReg, calls,
                       dropped, raced, clobbered, stolen>>
    BY DEF ListenReq, history, otherHistory
  <1>2. me[t].gen \in Gen /\ me[t].handle \in Handle
    BY <1>1 DEF Threads, ThreadOK, Carries
  <1>3. /\ listening' \in [Gen -> SUBSET Handle]
        /\ listening'[me[t].gen] = listening[me[t].gen] \cup {me[t].handle}
        /\ \A k \in Gen : k # me[t].gen => listening'[k] = listening[k]
    BY <1>2 DEF ListenReq, TypeOK
  <1>4. "store" \in Step /\ Goto(t, "store")
    BY DEF ListenReq, Step
  <1> QED
    BY <1>1, <1>3, <1>4, GotoDoes

\* listen() is refused: the handle is dropped.
LEMMA ListenFailsEffect ==
  ASSUME TypeOK, TableAssumption, NEW t \in Thread, ListenFails(t)
  PROVE  /\ pc[t] = "listenReq" /\ Only(t) /\ Moved /\ Returned(t)
         /\ Drop({<<me[t].gen, me[t].handle>>})
         /\ UNCHANGED <<tab, client, rd, engine, given, listening, queue, recvReg, dgReg, calls,
                        raced, clobbered, stolen>>
  <1>1. Return(t)
    BY DEF ListenFails
  <1> QED
    BY <1>1, ReturnDoes DEF ListenFails, engineVars

\* The handle a call carries is in the table.
Stored(t) ==
    LET f == me[t].fd
    IN /\ IsOpen(f) /\ tab' \in [Fd -> Row] /\ OnlyRow(f)
       /\ tab'[f].st = "open" /\ tab'[f].dgram = tab[f].dgram /\ tab'[f].local = tab[f].local
       /\ tab'[f].handle = me[t].handle /\ tab'[f].gen = me[t].gen

\* What a call carries once the engine has given it a handle.
LEMMA Carried ==
  ASSUME TypeOK, Threads, TableAssumption, NEW t \in Thread, pc[t] \in Carries \cup {"take"}
  PROVE  me[t].fd \in Fd /\ me[t].gen \in Gen /\ me[t].handle \in Handle
  <1>1. pc[t] # "idle"
    BY DEF Carries
  <1> QED
    BY <1>1, InCallFd DEF Threads, ThreadOK

\* set_handle, when the row is still open: the call's handle is in the table.
LEMMA SetHandleEffect ==
  ASSUME TypeOK, Threads, TableAssumption, NEW t \in Thread, pc[t] = "store",
         IsOpen(me[t].fd), SetHandle(me[t].fd, me[t].gen, me[t].handle)
  PROVE  Stored(t)
  <1> DEFINE f == me[t].fd
             g == me[t].gen
             h == me[t].handle
             r == [tab[f] EXCEPT !.handle = h, !.gen = g]
  <1>1. f \in Fd /\ g \in Gen /\ h \in Handle
    BY Carried DEF Carries
  <1>2. tab[f] \in Row
    BY <1>1 DEF TypeOK, Row
  <1>3. tab' = [tab EXCEPT ![f].handle = h, ![f].gen = g] /\ IsOpen(f)
    BY DEF SetHandle
  <1> HIDE DEF f, g, h
  <1>4. /\ r \in Row /\ r.st = tab[f].st /\ r.dgram = tab[f].dgram /\ r.local = tab[f].local
        /\ r.handle = h /\ r.gen = g
    BY <1>1, <1>2 DEF Row
  <1>5. tab' = [tab EXCEPT ![f] = r]
    BY <1>1, <1>2, <1>3 DEF TypeOK
  <1> HIDE DEF r
  <1>6. tab' \in [Fd -> Row] /\ tab'[f] = r /\ OnlyRow(f)
    BY <1>1, <1>4, <1>5, RowUpdate
  <1> QED
    BY <1>3, <1>4, <1>6 DEF Stored, f, g, h, IsOpen

\* listen() and connect() store their handle; a closed row is left alone and
\* the handle dropped.
LEMMA StoreStreamEffect ==
  ASSUME TypeOK, Threads, TableAssumption, NEW t \in Thread, StoreStream(t)
  PROVE  /\ pc[t] = "store" /\ me[t].op \in {"listen", "connect"} /\ Only(t) /\ Moved
         /\ UNCHANGED <<client, rd, engine, given, listening, queue, recvReg, dgReg, calls,
                        raced, clobbered, stolen>>
         /\ \/ /\ Stored(t) /\ Drop(Forgotten(me[t].fd))
               /\ \/ me[t].op = "listen" /\ Returned(t)
                  \/ me[t].op = "connect" /\ pc'[t] = "register" /\ me'[t] = me[t]
            \/ /\ ~IsOpen(me[t].fd) /\ UNCHANGED tab /\ Drop({<<me[t].gen, me[t].handle>>})
               /\ Returned(t)
  <1>1. /\ pc[t] = "store" /\ me[t].op \in {"listen", "connect"}
        /\ UNCHANGED <<client, rd, engine, given, listening, queue, recvReg, dgReg, calls,
                       raced, clobbered, stolen>>
    BY DEF StoreStream, engineVars
  <1>2. CASE IsOpen(me[t].fd)
    <2>1. /\ SetHandle(me[t].fd, me[t].gen, me[t].handle) /\ Drop(Forgotten(me[t].fd))
          /\ IF me[t].op = "listen" THEN Return(t) ELSE Goto(t, "register") /\ UNCHANGED me
      BY <1>2 DEF StoreStream
    <2>2. Stored(t)
      BY <1>1, <1>2, <2>1, SetHandleEffect
    <2>3. CASE me[t].op = "listen"
      BY <1>1, <2>1, <2>2, <2>3, ReturnDoes
    <2>4. CASE me[t].op = "connect"
      <3>1. "register" \in Step /\ Goto(t, "register") /\ UNCHANGED me
        BY <2>1, <2>4 DEF Step
      <3> QED
        BY <1>1, <2>1, <2>2, <2>4, <3>1, GotoDoes
    <2> QED
      BY <1>1, <2>3, <2>4
  <1>3. CASE ~IsOpen(me[t].fd)
    <2>1. Drop({<<me[t].gen, me[t].handle>>}) /\ Return(t) /\ UNCHANGED tab
      BY <1>3 DEF StoreStream
    <2> QED
      BY <1>1, <1>3, <2>1, ReturnDoes
  <1> QED
    BY <1>2, <1>3

\* A datagram call stores its handle, or loses to another call and discards it.
LEMMA StoreDgramEffect ==
  ASSUME TypeOK, Threads, TableAssumption, NEW t \in Thread, StoreDgram(t)
  PROVE  /\ pc[t] = "store" /\ me[t].op \in {"obtain", "sendto"} /\ Only(t) /\ Moved
         /\ UNCHANGED <<client, rd, engine, given, listening, queue, recvReg, dgReg, calls,
                        dropped, raced, clobbered, stolen>>
         /\ \/ /\ Stored(t) /\ tab[me[t].fd].handle = None
               /\ pc'[t] = "register" /\ me'[t] = me[t]
            \/ /\ UNCHANGED tab /\ pc'[t] = "discard"
               /\ me'[t].op = me[t].op /\ me'[t].fd = me[t].fd
               /\ me'[t].gen = me[t].gen /\ me'[t].handle = me[t].handle
  <1> DEFINE f == me[t].fd
  <1>1. /\ pc[t] = "store" /\ me[t].op \in {"obtain", "sendto"}
        /\ UNCHANGED <<client, rd, engine, given, listening, queue, recvReg, dgReg, calls,
                       dropped, raced, clobbered, stolen>>
    BY DEF StoreDgram, engineVars, history, otherHistory
  <1>2. CASE IsOpen(f) /\ tab[f].handle = None
    <2>1. SetHandle(f, me[t].gen, me[t].handle) /\ Goto(t, "register") /\ UNCHANGED me
      BY <1>2 DEF StoreDgram
    <2>2. "register" \in Step
      BY DEF Step
    <2> QED
      BY <1>1, <1>2, <2>1, <2>2, SetHandleEffect, GotoDoes
  <1>3. CASE ~(IsOpen(f) /\ tab[f].handle = None)
    <2> DEFINE k == IF IsOpen(f) THEN tab[f].handle ELSE None
               r == [me[t] EXCEPT !.kept = k]
    <2>1. Goto(t, "discard") /\ UNCHANGED tab /\ me' = [me EXCEPT ![t].kept = k]
      BY <1>3 DEF StoreDgram
    <2>2. me[t] \in Call /\ tab[f] \in Row
      BY <1>1, InCallFd
    <2>3. k \in Handle \cup {None}
      BY <2>2 DEF Row
    <2> HIDE DEF k
    <2>4. /\ r \in Call /\ r.op = me[t].op /\ r.fd = me[t].fd /\ r.gen = me[t].gen
          /\ r.handle = me[t].handle
      BY <2>2, <2>3 DEF Call
    <2>5. me' = [me EXCEPT ![t] = r]
      BY <2>1, <2>2 DEF TypeOK
    <2> HIDE DEF r
    <2>6. me' \in [Thread -> Call] /\ me'[t] = r /\ \A u \in Thread : u # t => me'[u] = me[u]
      BY <2>4, <2>5, CallUpdate
    <2>7. pc' \in [Thread -> Step] /\ pc'[t] = "discard" /\ \A u \in Thread : u # t => pc'[u] = pc[u]
      BY <2>1, GotoEffect DEF Step
    <2> QED
      BY <1>1, <2>1, <2>4, <2>6, <2>7 DEF Only, Moved
  <1> QED
    BY <1>2, <1>3

\* A set kept per session loses one of its handles.
Minus(old, new, g, h) ==
    /\ new \in [Gen -> SUBSET Handle] /\ new[g] = old[g] \ {h}
    /\ \A k \in Gen : k # g => new[k] = old[k]

\* Taking one handle out of a set kept per session.
LEMMA MinusEffect ==
  ASSUME NEW old \in [Gen -> SUBSET Handle], NEW new, NEW g \in Gen, NEW h,
         new = [old EXCEPT ![g] = @ \ {h}]
  PROVE  Minus(old, new, g, h)
  BY DEF Minus

\* The loser of the race to store gives its handle back to the engine, or drops
\* it.
LEMMA DiscardEffect ==
  ASSUME TypeOK, Threads, TableAssumption, NEW t \in Thread, Discard(t)
  PROVE  /\ pc[t] = "discard" /\ Only(t) /\ Moved
         /\ UNCHANGED <<tab, client, rd, given, listening, queue, recvReg, dgReg, calls,
                        raced, clobbered, stolen>>
         /\ \/ Minus(engine, engine', me[t].gen, me[t].handle) /\ UNCHANGED dropped
            \/ Drop({<<me[t].gen, me[t].handle>>}) /\ UNCHANGED engine
         /\ Returned(t) \/ Continues(t, me[t].kept)
  <1>1. /\ pc[t] = "discard"
        /\ UNCHANGED <<tab, client, rd, given, listening, queue, recvReg, dgReg, calls,
                       raced, clobbered, stolen>>
    BY DEF Discard
  <1>2. me[t].gen \in Gen /\ me[t].handle \in Handle
    BY <1>1, Carried DEF Carries
  <1>3. \/ Minus(engine, engine', me[t].gen, me[t].handle) /\ UNCHANGED dropped
        \/ Drop({<<me[t].gen, me[t].handle>>}) /\ UNCHANGED engine
    <2>1. \/ engine' = [engine EXCEPT ![me[t].gen] = @ \ {me[t].handle}] /\ UNCHANGED dropped
          \/ Drop({<<me[t].gen, me[t].handle>>}) /\ UNCHANGED engine
      BY Zenon DEF Discard, Discarded
    <2>2. engine \in [Gen -> SUBSET Handle]
      BY DEF TypeOK
    <2> QED
      BY <1>2, <2>1, <2>2, MinusEffect
  <1>4. CASE me[t].kept = None
    BY <1>1, <1>3, <1>4, ReturnDoes DEF Discard
  <1>5. CASE me[t].kept # None
    <2>1. me[t].kept \in Handle /\ Obtained(t, me[t].kept)
      BY <1>1, <1>5, InCallFd DEF Discard, Call
    <2> QED
      BY <1>1, <1>3, <2>1, ObtainedDoes
  <1> QED
    BY <1>4, <1>5

\* An entry of a pump is put in place of another.
Put(old, new, h, entry) ==
    /\ new \in [Handle -> Reg] /\ new[h] = entry
    /\ \A k \in Handle : k # h => new[k] = old[k]

\* The entry a call makes is the descriptor's.
LEMMA EntryMade ==
  ASSUME TypeOK, Threads, TableAssumption, NEW t \in Thread, pc[t] \in {"register", "link"}
  PROVE  Entry(t) \in Reg /\ Entry(t).fd = me[t].fd /\ Entry(t).gen = me[t].gen
  BY Carried DEF Carries, Entry, Reg

\* Which entry the call replaces.
Replaced(t) == IF me[t].op \in {"connect", "child"} THEN recvReg[me[t].handle] ELSE dgReg[me[t].handle]

\* The call makes the entry of its pump; one of another session that is up, under
\* the same number, is replaced and reported as clobbered.
LEMMA RegisterEffect ==
  ASSUME TypeOK, Threads, TableAssumption, NEW t \in Thread, Register(t)
  PROVE  /\ pc[t] = "register" /\ Only(t) /\ Moved
         /\ UNCHANGED <<tab, client, rd, engine, given, listening, queue, calls,
                        dropped, raced, stolen>>
         /\ \/ /\ me[t].op \in {"connect", "child"} /\ UNCHANGED dgReg
               /\ pc'[t] = "link" /\ me'[t] = me[t]
               /\ Put(recvReg, recvReg', me[t].handle, Entry(t))
            \/ /\ me[t].op \notin {"connect", "child"} /\ UNCHANGED recvReg
               /\ Put(dgReg, dgReg', me[t].handle, Entry(t))
               /\ Returned(t) \/ Continues(t, me[t].handle)
         /\ clobbered \subseteq clobbered' /\ clobbered' \subseteq Gen \X Handle
         /\ \A k \in Gen : k # me[t].gen /\ ~IsClosed(k) /\ Replaced(t).gen = k
               => <<k, me[t].handle>> \in clobbered'
  <1> DEFINE h == me[t].handle
  <1>1. /\ pc[t] = "register"
        /\ UNCHANGED <<tab, client, rd, engine, given, listening, queue, calls,
                       dropped, raced, stolen>>
        /\ clobbered' = clobbered \cup Others({Replaced(t)}, h, me[t].gen)
    BY DEF Register, engineVars, Replaced
  <1>2. me[t].gen \in Gen /\ h \in Handle
    BY <1>1, Carried DEF Carries
  <1>3. /\ clobbered \subseteq clobbered' /\ clobbered' \subseteq Gen \X Handle
        /\ \A k \in Gen : k # me[t].gen /\ ~IsClosed(k) /\ Replaced(t).gen = k
               => <<k, h>> \in clobbered'
    BY <1>1, <1>2 DEF Others, TypeOK
  <1>4. Entry(t) \in Reg
    BY <1>1, EntryMade
  <1>5. CASE me[t].op \in {"connect", "child"}
    <2>1. /\ recvReg' = Insert(recvReg, h, Entry(t)) /\ UNCHANGED dgReg
          /\ "link" \in Step /\ Goto(t, "link") /\ UNCHANGED me
      BY <1>5 DEF Register, Step
    <2>2. Put(recvReg, recvReg', h, Entry(t))
      BY <1>2, <1>4, <2>1 DEF Insert, Put, TypeOK
    <2> QED
      BY <1>1, <1>3, <1>5, <2>1, <2>2, GotoDoes
  <1>6. CASE me[t].op \notin {"connect", "child"}
    <2>1. dgReg' = Insert(dgReg, h, Entry(t)) /\ UNCHANGED recvReg /\ Obtained(t, h)
      BY <1>6 DEF Register
    <2>2. Put(dgReg, dgReg', h, Entry(t))
      BY <1>2, <1>4, <2>1 DEF Insert, Put, TypeOK
    <2> QED
      BY <1>1, <1>2, <1>3, <1>6, <2>1, <2>2, ObtainedDoes
  <1> QED
    BY <1>5, <1>6

\* The queue of listener l of session g is replaced.
Requeued(g, l, children) ==
    /\ queue' \in [Gen -> [Handle -> SUBSET Handle]]
    /\ queue'[g][l] = children
    /\ \A k \in Gen, m \in Handle : k # g \/ m # l => queue'[k][m] = queue[k][m]

\* Replacing the queue of one listener.
LEMMA RequeuedEffect ==
  ASSUME TypeOK, NEW g \in Gen, NEW l \in Handle, NEW children \in SUBSET Handle,
         queue' = [queue EXCEPT ![g][l] = children]
  PROVE  Requeued(g, l, children)
  <1> DEFINE q == [queue[g] EXCEPT ![l] = children]
  <1>1. queue[g] \in [Handle -> SUBSET Handle]
    BY DEF TypeOK
  <1>2. /\ q \in [Handle -> SUBSET Handle] /\ q[l] = children
        /\ \A m \in Handle : m # l => q[m] = queue[g][m]
    BY <1>1
  <1>3. queue' = [queue EXCEPT ![g] = q]
    BY DEF TypeOK
  <1> HIDE DEF q
  <1>4. /\ queue' \in [Gen -> [Handle -> SUBSET Handle]] /\ queue'[g] = q
        /\ \A k \in Gen : k # g => queue'[k] = queue[k]
    BY <1>2, <1>3 DEF TypeOK
  <1> QED
    BY <1>2, <1>4 DEF Requeued

\* The engine reports an incoming connection: a new handle in the queue of the
\* listener.
LEMMA IncomingEffect ==
  ASSUME TypeOK, TableAssumption, NEW g \in Gen, NEW l \in Handle, Incoming(g, l)
  PROVE  /\ l \in listening[g] /\ ~IsClosed(g) /\ Granted(g)
         /\ Requeued(g, l, queue[g][l] \cup {given[g] + 1})
         /\ UNCHANGED <<tab, client, rd, listening, recvReg, dgReg, pc, me, calls,
                        dropped, raced, clobbered, stolen>>
  <1>1. /\ l \in listening[g] /\ ~IsClosed(g) /\ Granted(g)
        /\ UNCHANGED <<tab, client, rd, listening, recvReg, dgReg, pc, me, calls,
                        dropped, raced, clobbered, stolen>>
    BY GrantEffect DEF Incoming, history, otherHistory
  <1> DEFINE q == queue[g][l] \cup {given[g] + 1}
  <1>2. q \in SUBSET Handle
    BY <1>1 DEF Granted, TypeOK
  <1>3. queue' = [queue EXCEPT ![g][l] = @ \cup {given[g] + 1}]
    BY DEF Incoming, NextHandle
  <1>4. queue' = [queue EXCEPT ![g][l] = q]
    BY <1>3 DEF TypeOK
  <1> QED
    BY <1>1, <1>2, <1>4, RequeuedEffect

\* accept() takes note of the session and waits on the listener's queue.
LEMMA WaitEffect ==
  ASSUME TypeOK, TableAssumption, NEW t \in Thread, NEW g \in Gen, Wait(t, g)
  PROVE  /\ pc[t] = "ensure" /\ me[t].op = "accept" /\ Reached(g) /\ Only(t) /\ Moved
         /\ UNCHANGED <<tab, engine, given, listening, queue, recvReg, dgReg, calls,
                        dropped, raced, clobbered, stolen>>
         /\ pc'[t] = "take" /\ me'[t].op = me[t].op /\ me'[t].fd = me[t].fd
         /\ me'[t].gen = g /\ me'[t].handle = me[t].handle
  <1>1. /\ Ensured(t, g) /\ me[t].op = "accept" /\ Goto(t, "take")
        /\ me' = [me EXCEPT ![t].gen = g]
        /\ UNCHANGED <<tab, engine, given, listening, queue, recvReg, dgReg, calls,
                       dropped, raced, clobbered, stolen>>
    BY DEF Wait, engineVars, history, otherHistory
  <1> DEFINE r == [me[t] EXCEPT !.gen = g]
  <1>2. me[t] \in Call
    BY DEF TypeOK, Call
  <1>3. r \in Call /\ r.op = me[t].op /\ r.fd = me[t].fd /\ r.gen = g /\ r.handle = me[t].handle
    BY <1>2 DEF Call
  <1>4. me' = [me EXCEPT ![t] = r]
    BY <1>1, <1>2 DEF TypeOK
  <1> HIDE DEF r
  <1>5. me' \in [Thread -> Call] /\ me'[t] = r /\ \A u \in Thread : u # t => me'[u] = me[u]
    BY <1>3, <1>4, CallUpdate
  <1>6. pc' \in [Thread -> Step] /\ pc'[t] = "take" /\ \A u \in Thread : u # t => pc'[u] = pc[u]
    BY <1>1, GotoEffect DEF Step
  <1> QED
    BY <1>1, <1>3, <1>5, <1>6, EnsuredEffect DEF Only, Moved

\* The child of a queue gets a descriptor.
Adopted(t, c, f) ==
    /\ pc[t] = "take" /\ c \in queue[me[t].gen][me[t].handle] /\ tab[f].st = "free"
    /\ Requeued(me[t].gen, me[t].handle, queue[me[t].gen][me[t].handle] \ {c})
    /\ tab' \in [Fd -> Row] /\ OnlyRow(f)
    /\ tab'[f].st = "open" /\ ~tab'[f].dgram /\ tab'[f].gen = me[t].gen /\ tab'[f].handle = c
    /\ Only(t) /\ Moved
    /\ pc'[t] = "register" /\ me'[t].op = "child" /\ me'[t].fd = f /\ me'[t].handle = c
    /\ me'[t].gen = me[t].gen
    /\ UNCHANGED <<client, rd, engine, given, listening, recvReg, dgReg, calls,
                   dropped, raced, clobbered, stolen>>

\* accept() gives the child a free descriptor.
LEMMA TakeChildEffect ==
  ASSUME TypeOK, Threads, TableAssumption, NEW t \in Thread, NEW c \in Handle, NEW f \in Fd,
         TakeChild(t, c, f)
  PROVE  Adopted(t, c, f)
  <1> DEFINE g == me[t].gen
             l == me[t].handle
  <1>1. /\ pc[t] = "take" /\ c \in queue[g][l] /\ tab[f].st = "free"
        /\ UNCHANGED <<client, rd, engine, given, listening, recvReg, dgReg, calls,
                       dropped, raced, clobbered, stolen>>
        /\ queue' = [queue EXCEPT ![g][l] = @ \ {c}]
        /\ tab' = [tab EXCEPT ![f] = [Free EXCEPT !.st = "open", !.local = TRUE, !.gen = g, !.handle = c]]
        /\ Goto(t, "register")
        /\ me' = [me EXCEPT ![t].op = "child", ![t].fd = f, ![t].handle = c]
    BY DEF TakeChild, ChildHandle, history, otherHistory
  <1>2. g \in Gen /\ l \in Handle /\ me[t] \in Call
    BY <1>1, Carried, InCallFd
  <1>3. Requeued(g, l, queue[g][l] \ {c})
    <2> DEFINE q == queue[g][l] \ {c}
    <2>1. q \in SUBSET Handle
      BY <1>2 DEF TypeOK
    <2>2. queue' = [queue EXCEPT ![g][l] = q]
      BY <1>1, <1>2 DEF TypeOK
    <2> QED
      BY <1>2, <2>1, <2>2, RequeuedEffect
  <1>4. /\ tab' \in [Fd -> Row] /\ OnlyRow(f) /\ tab'[f].st = "open" /\ tab'[f].dgram = FALSE
        /\ tab'[f].gen = g /\ tab'[f].handle = c
    <2> HIDE DEF g, l
    <2> DEFINE r == [Free EXCEPT !.st = "open", !.local = TRUE, !.gen = g, !.handle = c]
    <2>1. r \in Row /\ r.st = "open" /\ r.dgram = FALSE /\ r.gen = g /\ r.handle = c
      BY <1>2 DEF Row, Free
    <2>2. tab' = [tab EXCEPT ![f] = r]
      BY <1>1
    <2> HIDE DEF r
    <2> QED
      BY <2>1, <2>2, RowUpdate
  <1>5. /\ me' \in [Thread -> Call] /\ \A u \in Thread : u # t => me'[u] = me[u]
        /\ me'[t].op = "child" /\ me'[t].fd = f /\ me'[t].handle = c /\ me'[t].gen = g
    <2> DEFINE r == [me[t] EXCEPT !.op = "child", !.fd = f, !.handle = c]
    <2>1. r \in Call /\ r.op = "child" /\ r.fd = f /\ r.handle = c /\ r.gen = g
      BY <1>2 DEF Call, Op
    <2>2. me' = [me EXCEPT ![t] = r]
      BY <1>1, <1>2 DEF TypeOK
    <2> HIDE DEF r
    <2> QED
      BY <2>1, <2>2, CallUpdate
  <1>6. pc' \in [Thread -> Step] /\ pc'[t] = "register" /\ \A u \in Thread : u # t => pc'[u] = pc[u]
    BY <1>1, GotoEffect DEF Step
  <1> QED
    BY <1>1, <1>3, <1>4, <1>5, <1>6 DEF Only, Moved, Adopted

\* accept() finds no free descriptor: the child is dropped.
LEMMA TakeNoFileEffect ==
  ASSUME TypeOK, Threads, TableAssumption, NEW t \in Thread, NEW c \in Handle, TakeNoFile(t, c)
  PROVE  /\ pc[t] = "take" /\ c \in queue[me[t].gen][me[t].handle]
         /\ Requeued(me[t].gen, me[t].handle, queue[me[t].gen][me[t].handle] \ {c})
         /\ Drop({<<me[t].gen, c>>}) /\ Only(t) /\ Moved /\ Returned(t)
         /\ UNCHANGED <<tab, client, rd, engine, given, listening, recvReg, dgReg, calls,
                        raced, clobbered, stolen>>
  <1> DEFINE g == me[t].gen
             l == me[t].handle
             q == queue[g][l] \ {c}
  <1>1. /\ pc[t] = "take" /\ c \in queue[g][l]
        /\ UNCHANGED <<tab, client, rd, engine, given, listening, recvReg, dgReg, calls,
                       raced, clobbered, stolen>>
        /\ queue' = [queue EXCEPT ![g][l] = @ \ {c}] /\ Drop({<<g, c>>}) /\ Return(t)
    BY DEF TakeNoFile
  <1>2. g \in Gen /\ l \in Handle
    BY <1>1, Carried
  <1>3. q \in SUBSET Handle /\ queue' = [queue EXCEPT ![g][l] = q]
    BY <1>1, <1>2 DEF TypeOK
  <1>4. Requeued(g, l, q)
    BY <1>2, <1>3, RequeuedEffect
  <1> QED
    BY <1>1, <1>4, ReturnDoes

\* accept() is told that nothing will come, and returns.
LEMMA TakeNothingEffect ==
  ASSUME TypeOK, TableAssumption, NEW t \in Thread, TakeNothing(t)
  PROVE  /\ pc[t] = "take" /\ Only(t) /\ Moved /\ Returned(t)
         /\ UNCHANGED outside /\ UNCHANGED <<tab, calls, raced>>
  BY ReturnDoes DEF TakeNothing, outside, engineVars, history, otherHistory

\* close() reaches the engine: the client's handle under the number the
\* descriptor has is closed, be it of the descriptor's session or of a later
\* one.
LEMMA CloseReqEffect ==
  ASSUME TypeOK, Threads, TableAssumption, NEW t \in Thread, NEW g \in Gen, CloseReq(t, g)
  PROVE  /\ pc[t] = "ensure" /\ me[t].op = "close" /\ Reached(g) /\ Only(t) /\ Moved
         /\ me[t].handle \in Handle /\ pc'[t] = "destroy" /\ me'[t] = me[t]
         /\ Requeued(g, me[t].handle, {})
         /\ UNCHANGED <<tab, given, recvReg, dgReg, calls, raced, clobbered>>
         /\ \/ /\ Minus(engine, engine', g, me[t].handle)
               /\ Minus(listening, listening', g, me[t].handle)
               /\ Drop({<<g, c>> : c \in queue[g][me[t].handle]})
               /\ stolen' = IF me[t].gen = g THEN stolen ELSE stolen \cup {<<g, me[t].handle>>}
            \/ /\ Drop({<<g, c>> : c \in queue[g][me[t].handle]} \cup {<<g, me[t].handle>>})
               /\ UNCHANGED <<engine, listening, stolen>>
  <1> DEFINE h == me[t].handle
             children == {<<g, c>> : c \in queue[g][h]}
  <1>1. /\ me[t].op = "close" /\ Ensured(t, g) /\ Goto(t, "destroy") /\ UNCHANGED me
        /\ queue' = [queue EXCEPT ![g][h] = {}]
        /\ UNCHANGED <<tab, given, recvReg, dgReg, calls, raced, clobbered>>
        /\ \/ /\ engine' = [engine EXCEPT ![g] = @ \ {h}]
              /\ listening' = [listening EXCEPT ![g] = @ \ {h}]
              /\ Drop(children)
              /\ stolen' = IF me[t].gen = g THEN stolen ELSE stolen \cup {<<g, h>>}
           \/ Drop(children \cup {<<g, h>>}) /\ UNCHANGED <<engine, listening, stolen>>
    BY DEF CloseReq
  <1>2. pc[t] = "ensure" /\ Reached(g)
    BY <1>1, EnsuredEffect
  <1>3. h \in Handle
    BY <1>1, <1>2 DEF Threads, ThreadOK
  <1>4. Requeued(g, h, {})
    BY <1>1, <1>3, RequeuedEffect
  <1>5. \/ /\ Minus(engine, engine', g, h) /\ Minus(listening, listening', g, h)
           /\ Drop(children)
           /\ stolen' = IF me[t].gen = g THEN stolen ELSE stolen \cup {<<g, h>>}
        \/ Drop(children \cup {<<g, h>>}) /\ UNCHANGED <<engine, listening, stolen>>
    <2>1. engine \in [Gen -> SUBSET Handle] /\ listening \in [Gen -> SUBSET Handle]
      BY DEF TypeOK
    <2> HIDE DEF h, children
    <2> QED
      BY <1>1, <2>1, MinusEffect
  <1>6. "destroy" \in Step
    BY DEF Step
  <1>7. Only(t) /\ Moved /\ pc'[t] = "destroy" /\ me'[t] = me[t]
    BY <1>1, <1>6, GotoDoes
  <1> QED
    BY <1>1, <1>2, <1>3, <1>4, <1>5, <1>7

\* close() marks the row as closed, or finds that another close() did.
LEMMA DestroyEffect ==
  ASSUME TypeOK, Threads, TableAssumption, NEW t \in Thread, Destroy(t)
  PROVE  /\ pc[t] = "destroy" /\ Only(t) /\ Moved
         /\ UNCHANGED outside /\ UNCHANGED <<calls, raced>>
         /\ \/ ~IsOpen(me[t].fd) /\ UNCHANGED tab /\ Returned(t)
            \/ /\ IsOpen(me[t].fd)
               /\ tab' \in [Fd -> Row] /\ OnlyRow(me[t].fd) /\ tab'[me[t].fd].st = "closed"
               /\ tab'[me[t].fd].dgram = tab[me[t].fd].dgram
               /\ tab'[me[t].fd].local = tab[me[t].fd].local
               /\ tab'[me[t].fd].handle = tab[me[t].fd].handle
               /\ tab'[me[t].fd].gen = tab[me[t].fd].gen
               /\ \/ tab[me[t].fd].handle = None /\ Returned(t)
                  \/ /\ tab[me[t].fd].handle \in Handle
                     /\ pc'[t] = "unregister" /\ me'[t].op = me[t].op /\ me'[t].fd = me[t].fd
                     /\ me'[t].handle = tab[me[t].fd].handle /\ me'[t].gen = tab[me[t].fd].gen
  <1> DEFINE f == me[t].fd
  <1>1. /\ pc[t] = "destroy" /\ UNCHANGED outside /\ UNCHANGED <<calls, raced>>
    BY DEF Destroy, outside, engineVars, history, otherHistory
  <1>2. f \in Fd /\ me[t] \in Call /\ tab[f] \in Row
    BY <1>1, InCallFd
  <1>3. CASE ~IsOpen(f)
    BY <1>1, <1>3, ReturnDoes DEF Destroy
  <1>4. CASE IsOpen(f)
    <2> DEFINE g == tab[f].gen
               h == tab[f].handle
    <2>1. /\ tab' = [tab EXCEPT ![f].st = "closed"]
          /\ IF h = None THEN Return(t)
             ELSE Goto(t, "unregister") /\ me' = [me EXCEPT ![t].handle = h, ![t].gen = g]
      BY <1>4 DEF Destroy
    <2>2. g \in Gen \cup {None} /\ h \in Handle \cup {None}
      BY <1>2 DEF Row
    <2>3. /\ tab' \in [Fd -> Row] /\ OnlyRow(f) /\ tab'[f].st = "closed"
          /\ tab'[f].dgram = tab[f].dgram /\ tab'[f].local = tab[f].local
          /\ tab'[f].handle = h /\ tab'[f].gen = g
      <3> DEFINE r == [tab[f] EXCEPT !.st = "closed"]
      <3>1. /\ r \in Row /\ r.st = "closed" /\ r.dgram = tab[f].dgram /\ r.local = tab[f].local
            /\ r.handle = h /\ r.gen = g
        BY <1>2 DEF Row
      <3>2. tab' = [tab EXCEPT ![f] = r]
        BY <1>2, <2>1 DEF TypeOK
      <3> HIDE DEF r
      <3> QED
        BY <1>2, <3>1, <3>2, RowUpdate
    <2>4. CASE h = None
      BY <1>1, <1>4, <2>1, <2>3, <2>4, ReturnDoes
    <2>5. CASE h # None
      <3> DEFINE r == [me[t] EXCEPT !.handle = h, !.gen = g]
      <3>1. Goto(t, "unregister") /\ me' = [me EXCEPT ![t].handle = h, ![t].gen = g]
        BY <2>1, <2>5
      <3> HIDE DEF g, h
      <3>2. r \in Call /\ r.op = me[t].op /\ r.fd = f /\ r.handle = h /\ r.gen = g
        BY <1>2, <2>2 DEF Call
      <3>3. me' = [me EXCEPT ![t] = r]
        BY <1>2, <3>1 DEF TypeOK
      <3> HIDE DEF r
      <3>4. me' \in [Thread -> Call] /\ me'[t] = r /\ \A u \in Thread : u # t => me'[u] = me[u]
        BY <3>2, <3>3, CallUpdate
      <3>5. pc' \in [Thread -> Step] /\ pc'[t] = "unregister" /\ \A u \in Thread : u # t => pc'[u] = pc[u]
        BY <3>1, GotoEffect DEF Step
      <3>6. h \in Handle
        BY <2>2, <2>5
      <3>7. Only(t) /\ Moved
        BY <3>4, <3>5 DEF Only, Moved
      <3> QED
        BY <1>1, <1>4, <2>3, <3>2, <3>4, <3>5, <3>6, <3>7 DEF g, h
    <2> QED
      BY <2>4, <2>5
  <1> QED
    BY <1>3, <1>4

\* close() removes all entries under the number, whoever they belong to.
LEMMA UnregisterEffect ==
  ASSUME TypeOK, Threads, TableAssumption, NEW t \in Thread, Unregister(t)
  PROVE  /\ pc[t] = "unregister" /\ Only(t) /\ Moved /\ Returned(t) /\ me[t].handle \in Handle
         /\ UNCHANGED <<tab, client, rd, engine, given, listening, queue, calls,
                        dropped, raced, stolen>>
         /\ Put(recvReg, recvReg', me[t].handle, NoEntry) /\ Put(dgReg, dgReg', me[t].handle, NoEntry)
         /\ clobbered' \subseteq Gen \X Handle
         /\ \A k \in Gen, n \in Handle : <<k, n>> \in clobbered /\ (k # me[t].gen \/ n # me[t].handle)
               => <<k, n>> \in clobbered'
         /\ \A k \in Gen : /\ k # me[t].gen /\ ~IsClosed(k)
                           /\ k \in {recvReg[me[t].handle].gen, dgReg[me[t].handle].gen,
                                     outReg[me[t].handle].gen}
               => <<k, me[t].handle>> \in clobbered'
  <1> DEFINE h == me[t].handle
  <1>1. /\ pc[t] = "unregister" /\ Return(t)
        /\ UNCHANGED <<tab, client, rd, engine, given, listening, queue, calls,
                       dropped, raced, stolen>>
        /\ recvReg' = [recvReg EXCEPT ![h] = NoEntry] /\ dgReg' = [dgReg EXCEPT ![h] = NoEntry]
        /\ clobbered' = (clobbered \cup Others({recvReg[h], dgReg[h], outReg[h]}, h, me[t].gen))
                          \ {<<me[t].gen, h>>}
    BY DEF Unregister, engineVars, Remove
  <1>2. h \in Handle
    BY <1>1 DEF Threads, ThreadOK
  <1>3. Put(recvReg, recvReg', h, NoEntry) /\ Put(dgReg, dgReg', h, NoEntry)
    BY <1>1, <1>2, Basics DEF Put, TypeOK
  <1>4. /\ clobbered' \subseteq Gen \X Handle
        /\ \A k \in Gen, n \in Handle : <<k, n>> \in clobbered /\ (k # me[t].gen \/ n # h)
              => <<k, n>> \in clobbered'
        /\ \A k \in Gen : /\ k # me[t].gen /\ ~IsClosed(k)
                          /\ k \in {recvReg[h].gen, dgReg[h].gen, outReg[h].gen}
              => <<k, h>> \in clobbered'
    BY <1>1, <1>2 DEF Others, TypeOK
  <1> QED
    BY <1>1, <1>2, <1>3, <1>4, ReturnDoes

\* A set kept per session is emptied.
Emptied(old, new, g) ==
    new \in [Gen -> SUBSET Handle] /\ new[g] = {} /\ \A k \in Gen : k # g => new[k] = old[k]

\* History of a session that ends.
Cut(old, new, g) ==
    /\ new \subseteq old
    /\ \A k \in Gen, h \in Handle : <<k, h>> \in old /\ k # g => <<k, h>> \in new

\* The engine's session ends and everything it had open with it.
LEMMA DisconnectEffect ==
  ASSUME TypeOK, TableAssumption, NEW g \in Gen, Disconnect(g)
  PROVE  /\ rd[g] = "run" /\ rd' \in [Gen -> {"none", "run", "closed", "done"}] /\ rd'[g] = "closed"
         /\ \A k \in Gen : k # g => rd'[k] = rd[k]
         /\ Emptied(engine, engine', g) /\ Emptied(listening, listening', g)
         /\ queue' \in [Gen -> [Handle -> SUBSET Handle]]
         /\ \A k \in Gen, l \in Handle : queue'[k][l] = IF k = g THEN {} ELSE queue[k][l]
         /\ Cut(dropped, dropped', g) /\ Cut(stolen, stolen', g) /\ Cut(clobbered, clobbered', g)
         /\ UNCHANGED <<tab, client, given, recvReg, dgReg, pc, me, calls, raced>>
  <1>1. rd[g] = "run" /\ UNCHANGED <<tab, client, given, recvReg, dgReg, pc, me, calls, raced>>
    BY DEF Disconnect
  <1>2. /\ rd' \in [Gen -> {"none", "run", "closed", "done"}] /\ rd'[g] = "closed"
        /\ \A k \in Gen : k # g => rd'[k] = rd[k]
    BY DEF Disconnect, TypeOK
  <1>3. Emptied(engine, engine', g) /\ Emptied(listening, listening', g)
    BY DEF Disconnect, TypeOK, Emptied
  <1>4. /\ queue' \in [Gen -> [Handle -> SUBSET Handle]]
        /\ \A k \in Gen, l \in Handle : queue'[k][l] = IF k = g THEN {} ELSE queue[k][l]
    <2> DEFINE q == [h \in Handle |-> {}]
    <2>1. q \in [Handle -> SUBSET Handle] /\ \A l \in Handle : q[l] = {}
      OBVIOUS
    <2>2. queue' = [queue EXCEPT ![g] = q]
      BY DEF Disconnect
    <2> HIDE DEF q
    <2> QED
      BY <2>1, <2>2 DEF TypeOK
  <1>5. Cut(dropped, dropped', g) /\ Cut(stolen, stolen', g) /\ Cut(clobbered, clobbered', g)
    BY DEF Disconnect, Cut
  <1> QED
    BY <1>1, <1>2, <1>3, <1>4, <1>5

\* The reader thread of a session that ended is done; nothing else changes but gates.
LEMMA ShutEffect ==
  ASSUME TypeOK, TableAssumption, NEW g \in Gen, Shut(g)
  PROVE  /\ rd[g] = "closed" /\ rd' \in [Gen -> {"none", "run", "closed", "done"}] /\ rd'[g] = "done"
         /\ \A k \in Gen : k # g => rd'[k] = rd[k]
         /\ UNCHANGED <<tab, client, engine, given, listening, queue, recvReg, dgReg, pc, me, calls,
                        dropped, raced, clobbered, stolen>>
  <1>1. /\ rd[g] = "closed"
        /\ UNCHANGED <<tab, client, engine, given, listening, queue, recvReg, dgReg, pc, me, calls,
                       dropped, raced, clobbered, stolen>>
    BY DEF Shut, engineVars, history, otherHistory
  <1>2. /\ rd' \in [Gen -> {"none", "run", "closed", "done"}] /\ rd'[g] = "done"
        /\ \A k \in Gen : k # g => rd'[k] = rd[k]
    BY DEF Shut, TypeOK
  <1> QED
    BY <1>1, <1>2

\* All but the outbound pump and the gates, as long as no thread moves.
core == <<tab, client, rd, engine, given, listening, queue, recvReg, dgReg,
          dropped, clobbered, stolen, calls, raced>>

\* A call on whose link a connect or an accept() waited returns.
Settles(t) == LinkUp(t) \/ LinkFails(t) \/ ArmGate(t)

\* It changes nothing but the outbound pump, or the gates.
LEMMA SettlesEffect ==
  ASSUME TypeOK, TableAssumption, NEW t \in Thread, Settles(t)
  PROVE  pc[t] = "link" /\ Only(t) /\ Moved /\ Returned(t) /\ UNCHANGED core
  <1>1. pc[t] = "link" /\ Return(t) /\ UNCHANGED core
    BY DEF Settles, LinkUp, LinkFails, ArmGate, core, engineVars, history, otherHistory
  <1> QED
    BY <1>1, ReturnDoes

\* A gate is resolved.
Resolves == (\E h \in Handle : ResolveGate(h)) \/ (\E e \in resolving : ResolveDone(e[1], e[2]))

\* That changes nothing else either.
LEMMA ResolvesEffect ==
  ASSUME Resolves
  PROVE  UNCHANGED core /\ UNCHANGED <<pc, me>>
  BY DEF Resolves, ResolveGate, ResolveDone, core, engineVars, history, otherHistory

---------------------------------------------------------------------------
(* Types are kept.                                                         *)

\* What is dropped while its session is up is reported.
LEMMA DropEffect ==
  ASSUME TypeOK, NEW s \in SUBSET (Gen \X Handle), Drop(s)
  PROVE  /\ dropped' \subseteq Gen \X Handle /\ dropped \subseteq dropped'
         /\ \A k \in Gen, n \in Handle : <<k, n>> \in s /\ ~IsClosed(k) => <<k, n>> \in dropped'
  BY DEF TypeOK, Drop

\* The same for one handle.
LEMMA DropOne ==
  ASSUME TypeOK, NEW g \in Gen, NEW h \in Handle, Drop({<<g, h>>})
  PROVE  /\ dropped' \subseteq Gen \X Handle /\ dropped \subseteq dropped'
         /\ ~IsClosed(g) => <<g, h>> \in dropped'
  BY DEF TypeOK, Drop

\* Every step keeps the types.
LEMMA TypeStep ==
  ASSUME TypeOK, Threads, Rows, TableAssumption, Next
  PROVE  TypeOK'
  <1>1. ASSUME NEW f \in Fd, NEW dgram \in BOOLEAN, Socket(f, dgram) PROVE TypeOK'
    <2>1. tab' \in [Fd -> Row] /\ UNCHANGED outside /\ UNCHANGED <<pc, me, calls, raced>>
      BY <1>1, SocketEffect
    <2> QED
      BY <2>1 DEF TypeOK, Row, outside
  <1>2. ASSUME NEW t \in Thread, NEW f \in Fd, Bind(t, f) PROVE TypeOK'
    <2>1. /\ UNCHANGED outside /\ tab' \in [Fd -> Row]
          /\ (Started(t, f) \/ UNCHANGED <<pc, me, calls, raced>>)
      BY <1>2, BindEffect
    <2> QED
      BY <2>1 DEF TypeOK, Row, Call, outside, Started, Moved
  <1>3. ASSUME NEW t \in Thread, NEW f \in Fd, Begins(t, f) PROVE TypeOK'
    <2>1. Started(t, f) /\ UNCHANGED outside /\ UNCHANGED tab
      BY <1>3, BeginsEffect
    <2> QED
      BY <2>1 DEF TypeOK, Call, outside, Started, Moved
  <1>4. ASSUME NEW t \in Thread, Look(t) PROVE TypeOK'
    BY <1>4, LookEffect DEF TypeOK, Call, outside, Moved
  <1>5. ASSUME NEW t \in Thread, EnsureFails(t) PROVE TypeOK'
    BY <1>5, EnsureFailsEffect DEF TypeOK, Call, Moved, Revived
  <1>6. ASSUME NEW t \in Thread, NEW g \in Gen, SendReq(t, g) PROVE TypeOK'
    BY <1>6, SendReqEffect DEF TypeOK, Call, Moved, Reached, Revived
  <1>7. ASSUME NEW t \in Thread, NEW g \in Gen, SocketReq(t, g) PROVE TypeOK'
    BY <1>7, SocketReqEffect DEF TypeOK, Call, Moved, Reached, Revived, Granted
  <1>8. ASSUME NEW t \in Thread, NEW g \in Gen, SocketFails(t, g) PROVE TypeOK'
    BY <1>8, SocketFailsEffect DEF TypeOK, Call, Moved, Reached, Revived, Granted
  <1>9. ASSUME NEW t \in Thread, BindReq(t) PROVE TypeOK'
    BY <1>9, BindReqEffect DEF TypeOK, Call, Moved
  <1>10. ASSUME NEW t \in Thread, BindFails(t) PROVE TypeOK'
    <2>1. pc[t] = "bindReq"
      BY <1>10, BindFailsEffect
    <2>2. me[t].gen \in Gen /\ me[t].handle \in Handle
      BY <2>1, Carried DEF Carries
    <2> QED
      <3>1. /\ Moved
            /\ UNCHANGED <<tab, client, rd, engine, given, listening, queue, recvReg, dgReg,
                           calls, raced, clobbered, stolen>>
            /\ Drop({<<me[t].gen, me[t].handle>>}) \/ UNCHANGED dropped
        BY <1>10, BindFailsEffect
      <3>2. dropped' \subseteq Gen \X Handle
        BY <2>2, <3>1, DropOne DEF TypeOK
      <3> QED
        BY <3>1, <3>2 DEF TypeOK, Call, Moved
  <1>11. ASSUME NEW t \in Thread, ListenReq(t) PROVE TypeOK'
    BY <1>11, ListenReqEffect DEF TypeOK, Call, Moved
  <1>12. ASSUME NEW t \in Thread, ListenFails(t) PROVE TypeOK'
    <2>1. pc[t] = "listenReq"
      BY <1>12, ListenFailsEffect
    <2>2. me[t].gen \in Gen /\ me[t].handle \in Handle
      BY <2>1, Carried DEF Carries
    <2> QED
      BY <1>12, <2>2, ListenFailsEffect DEF TypeOK, Call, Moved, Drop
  <1>13. ASSUME NEW t \in Thread, StoreStream(t) PROVE TypeOK'
    <2>1. pc[t] = "store"
      BY <1>13, StoreStreamEffect
    <2>2. me[t].gen \in Gen /\ me[t].handle \in Handle /\ me[t].fd \in Fd
      BY <2>1, Carried DEF Carries
    <2>3. Forgotten(me[t].fd) \subseteq Gen \X Handle
      <3>1. tab[me[t].fd] \in Row
        BY <2>2 DEF TypeOK, Row
      <3> QED
        BY <2>2, <3>1 DEF Forgotten, Rows, Row
    <2>4. dropped' \subseteq Gen \X Handle
      <3>1. Drop(Forgotten(me[t].fd)) \/ Drop({<<me[t].gen, me[t].handle>>})
        BY <1>13, StoreStreamEffect
      <3> QED
        BY <2>2, <2>3, <3>1, DropEffect, DropOne
    <2>5. tab' \in [Fd -> Row]
      BY <1>13, StoreStreamEffect DEF Stored, TypeOK, Row
    <2> QED
      BY <1>13, <2>4, <2>5, StoreStreamEffect DEF TypeOK, Row, Call, Moved
  <1>14. ASSUME NEW t \in Thread, StoreDgram(t) PROVE TypeOK'
    <2>1. tab' \in [Fd -> Row]
      BY <1>14, StoreDgramEffect DEF Stored, TypeOK, Row
    <2> QED
      BY <1>14, <2>1, StoreDgramEffect DEF TypeOK, Row, Call, Moved
  <1>15. ASSUME NEW t \in Thread, Discard(t) PROVE TypeOK'
    <2>1. pc[t] = "discard"
      BY <1>15, DiscardEffect
    <2>2. me[t].gen \in Gen /\ me[t].handle \in Handle
      BY <2>1, Carried DEF Carries
    <2> QED
      BY <1>15, <2>2, DiscardEffect DEF TypeOK, Call, Moved, Drop, Minus
  <1>16. ASSUME NEW t \in Thread, Register(t) PROVE TypeOK'
    BY <1>16, RegisterEffect DEF TypeOK, Call, Moved, Put
  <1>17. ASSUME NEW g \in Gen, NEW l \in Handle, Incoming(g, l) PROVE TypeOK'
    BY <1>17, IncomingEffect DEF TypeOK, Granted, Requeued
  <1>18. ASSUME NEW t \in Thread, NEW g \in Gen, Wait(t, g) PROVE TypeOK'
    BY <1>18, WaitEffect DEF TypeOK, Call, Moved, Reached, Revived
  <1>19. ASSUME NEW t \in Thread, NEW c \in Handle, NEW f \in Fd, TakeChild(t, c, f) PROVE TypeOK'
    <2>1. /\ tab' \in [Fd -> Row] /\ Moved /\ queue' \in [Gen -> [Handle -> SUBSET Handle]]
          /\ UNCHANGED <<client, rd, engine, given, listening, recvReg, dgReg, calls,
                         dropped, raced, clobbered, stolen>>
      BY <1>19, TakeChildEffect DEF Adopted, Requeued
    <2> QED
      BY <2>1 DEF TypeOK, Row, Call, Moved
  <1>20. ASSUME NEW t \in Thread, NEW c \in Handle, TakeNoFile(t, c) PROVE TypeOK'
    <2>1. pc[t] = "take"
      BY <1>20, TakeNoFileEffect
    <2>2. me[t].gen \in Gen
      BY <2>1, Carried DEF Carries
    <2> QED
      BY <1>20, <2>2, TakeNoFileEffect DEF TypeOK, Call, Moved, Requeued, Drop
  <1>21. ASSUME NEW t \in Thread, TakeNothing(t) PROVE TypeOK'
    BY <1>21, TakeNothingEffect DEF TypeOK, Call, Moved, outside
  <1>22. ASSUME NEW t \in Thread, NEW g \in Gen, CloseReq(t, g) PROVE TypeOK'
    <2>1. me[t].handle \in Handle
      BY <1>22, CloseReqEffect
    <2>2. dropped' \subseteq Gen \X Handle /\ stolen' \subseteq Gen \X Handle
      <3>1. {<<g, c>> : c \in queue[g][me[t].handle]} \subseteq Gen \X Handle
        BY <2>1 DEF TypeOK
      <3> QED
        <4>1. /\ \/ Drop({<<g, c>> : c \in queue[g][me[t].handle]})
                 \/ Drop({<<g, c>> : c \in queue[g][me[t].handle]} \cup {<<g, me[t].handle>>})
              /\ stolen' \subseteq stolen \cup {<<g, me[t].handle>>}
          BY <1>22, CloseReqEffect
        <4>2. dropped' \subseteq Gen \X Handle
          BY <2>1, <3>1, <4>1, DropEffect
        <4> QED
          BY <2>1, <4>1, <4>2 DEF TypeOK
    <2>3. engine' \in [Gen -> SUBSET Handle] /\ listening' \in [Gen -> SUBSET Handle]
      BY <1>22, CloseReqEffect DEF Minus, TypeOK
    <2> QED
      <3>1. /\ Reached(g) /\ Moved /\ queue' \in [Gen -> [Handle -> SUBSET Handle]]
            /\ UNCHANGED <<tab, given, recvReg, dgReg, calls, raced, clobbered>>
        BY <1>22, CloseReqEffect DEF Requeued
      <3> QED
        BY <2>2, <2>3, <3>1 DEF TypeOK, Call, Moved, Reached, Revived
  <1>23. ASSUME NEW t \in Thread, Destroy(t) PROVE TypeOK'
    BY <1>23, DestroyEffect DEF TypeOK, Row, Call, Moved, outside
  <1>24. ASSUME NEW t \in Thread, Unregister(t) PROVE TypeOK'
    BY <1>24, UnregisterEffect DEF TypeOK, Call, Moved, Put
  <1>25. ASSUME NEW g \in Gen, Disconnect(g) PROVE TypeOK'
    BY <1>25, DisconnectEffect DEF TypeOK, Emptied, Cut
  <1>26. ASSUME NEW g \in Gen, Shut(g) PROVE TypeOK'
    BY <1>26, ShutEffect DEF TypeOK
  <1>27. ASSUME NEW t \in Thread, Settles(t) PROVE TypeOK'
    BY <1>27, SettlesEffect DEF TypeOK, Call, Moved, core
  <1>28. ASSUME Resolves PROVE TypeOK'
    BY <1>28, ResolvesEffect DEF TypeOK, core
  <1> QED
    BY <1>1, <1>2, <1>3, <1>4, <1>5, <1>6, <1>7, <1>8, <1>9, <1>10, <1>11, <1>12, <1>13, <1>14, <1>15,
       <1>16, <1>17, <1>18, <1>19, <1>20, <1>21, <1>22, <1>23, <1>24, <1>25, <1>26, <1>27, <1>28
       DEF Next, Begins, Settles, Resolves

---------------------------------------------------------------------------
(* What the threads are doing.                                             *)

\* A descriptor in use stays in use, of the same kind.
InUseKept == \A f \in Fd : tab[f].st # "free" => tab'[f].st # "free" /\ tab'[f].dgram = tab[f].dgram

\* Only the thread that moves has to be looked at.
LEMMA ThreadsFrame ==
  ASSUME TypeOK, Threads, InUseKept, NEW t \in Thread, Only(t), ThreadOK(t)'
  PROVE  Threads'
  <1>1. ASSUME NEW u \in Thread, u # t PROVE ThreadOK(u)'
    <2>1. ThreadOK(u) /\ me'[u] = me[u] /\ pc'[u] = pc[u] /\ me[u].fd \in Fd \cup {None}
      BY <1>1 DEF Threads, Only, TypeOK
    <2>2. CASE me[u].fd = None
      BY <2>1, <2>2 DEF ThreadOK
    <2>3. CASE me[u].fd \in Fd
      <3>1. /\ tab[me[u].fd].st # "free" => tab'[me[u].fd].st # "free"
            /\ tab[me[u].fd].st # "free" => tab'[me[u].fd].dgram = tab[me[u].fd].dgram
        BY <2>3 DEF InUseKept
      <3> QED
        BY <2>1, <2>3, <3>1 DEF ThreadOK
    <2> QED
      BY <2>1, <2>2, <2>3
  <1> QED
    BY <1>1 DEF Threads

\* A call that has returned.
LEMMA ThreadsReturned ==
  ASSUME TypeOK, Threads, TableAssumption, InUseKept, NEW t \in Thread, Only(t), Returned(t)
  PROVE  Threads'
  <1>1. ThreadOK(t)'
    BY DEF Returned, ThreadOK, Carries
  <1> QED
    BY <1>1, ThreadsFrame

\* sendto() that goes on.
LEMMA ThreadsContinues ==
  ASSUME TypeOK, Threads, TableAssumption, InUseKept, NEW t \in Thread, Only(t), pc[t] # "idle",
         NEW h, Continues(t, h)
  PROVE  Threads'
  <1>1. me[t].fd \in Fd /\ me[t].fd # None /\ tab[me[t].fd].st # "free"
    BY InCallFd, Basics DEF Threads, ThreadOK
  <1>2. tab'[me[t].fd].st # "free"
    BY <1>1 DEF InUseKept
  <1>3. ThreadOK(t)'
    BY <1>1, <1>2, Basics DEF Continues, ThreadOK, Carries
  <1> QED
    BY <1>3, ThreadsFrame

\* A call that has begun.
LEMMA ThreadsStarted ==
  ASSUME TypeOK, Threads, Rows, TableAssumption, InUseKept, NEW t \in Thread, NEW f \in Fd,
         Started(t, f)
  PROVE  Threads'
  <1>1. IsOpen(f) /\ tab[f].st # "free" /\ f # None
    BY Basics DEF Started, IsOpen
  <1>2. tab'[f].st # "free" /\ tab'[f].dgram = tab[f].dgram
    BY <1>1 DEF InUseKept
  <1>3. tab[f].handle # None => tab[f].gen \in Gen
    BY DEF Rows
  <1>4. ThreadOK(t)'
    BY <1>1, <1>2, <1>3, Basics DEF Started, ThreadOK, Carries
  <1> QED
    BY <1>4, ThreadsFrame DEF Started

\* A step with the same operation and descriptor in hand.
LEMMA ThreadsGoOn ==
  ASSUME TypeOK, Threads, TableAssumption, InUseKept, NEW t \in Thread, Only(t), pc[t] # "idle",
         me'[t].op = me[t].op, me'[t].fd = me[t].fd,
         \/ pc'[t] = "ensure" /\ me[t].op \in {"obtain", "sendto"}
         \/ pc'[t] \in {"bindReq", "discard"} /\ me[t].op \in {"listen", "obtain", "sendto"}
            /\ (pc'[t] = "discard" => me[t].op # "listen")
         \/ pc'[t] = "listenReq" /\ me[t].op = "listen"
         \/ pc'[t] = "store" /\ me[t].op \in {"listen", "connect", "obtain", "sendto"}
         \/ pc'[t] = "register" /\ me[t].op \in {"connect", "obtain", "sendto"}
         \/ pc'[t] = "link" /\ me[t].op \in {"connect", "child"}
         \/ pc'[t] = "take" /\ me[t].op = "accept"
         \/ pc'[t] = "destroy" /\ me[t].op = "close"
         \/ pc'[t] = "unregister" /\ me[t].op = "close" /\ me'[t].handle \in Handle,
         pc'[t] \in Carries \cup {"take"} => me'[t].gen \in Gen /\ me'[t].handle \in Handle,
         me[t].op = "close" /\ me'[t].handle # None => me'[t].gen \in Gen
  PROVE  Threads'
  <1>1. me[t].fd \in Fd /\ me[t].fd # None /\ tab[me[t].fd].st # "free" /\ ThreadOK(t)
    BY InCallFd, Basics DEF Threads, ThreadOK
  <1>2. tab'[me[t].fd].st # "free" /\ tab'[me[t].fd].dgram = tab[me[t].fd].dgram
    BY <1>1 DEF InUseKept
  <1>3. pc'[t] # "idle" /\ pc'[t] # "look"
    OBVIOUS
  <1>4. ThreadOK(t)'
    BY <1>1, <1>2, <1>3 DEF ThreadOK
  <1> QED
    BY <1>4, ThreadsFrame

\* The table is left alone.
LEMMA InUseSame ==
  ASSUME UNCHANGED tab
  PROVE  InUseKept
  BY DEF InUseKept

\* Every step keeps Threads: one step per action.
LEMMA ThreadsStep ==
  ASSUME TypeOK, Threads, Rows, TableAssumption, Next
  PROVE  Threads'
  <1>1. ASSUME NEW f \in Fd, NEW dgram \in BOOLEAN, Socket(f, dgram) PROVE Threads'
    <2>1. /\ tab[f].st = "free" /\ tab'[f].st = "open" /\ OnlyRow(f) /\ UNCHANGED <<pc, me>>
      BY <1>1, SocketEffect
    <2>2. InUseKept
      BY <2>1 DEF OnlyRow, InUseKept
    <2>3. ASSUME NEW t \in Thread PROVE ThreadOK(t)' /\ Only(t)
      <3>1. me'[t] = me[t] /\ pc'[t] = pc[t] /\ ThreadOK(t) /\ me[t].fd \in Fd \cup {None}
        BY <2>1 DEF Threads, TypeOK
      <3>2. me[t].fd \in Fd /\ tab[me[t].fd].st # "free"
              => tab'[me[t].fd].st # "free" /\ tab'[me[t].fd].dgram = tab[me[t].fd].dgram
        BY <2>2 DEF InUseKept
      <3>3. ThreadOK(t)'
        BY <3>1, <3>2 DEF ThreadOK
      <3> QED
        BY <2>1, <3>3 DEF Only
    <2> QED
      BY <2>3 DEF Threads
  <1>2. ASSUME NEW t \in Thread, NEW f \in Fd, Bind(t, f) PROVE Threads'
    <2>1. /\ tab'[f].st = tab[f].st /\ tab'[f].dgram = tab[f].dgram /\ OnlyRow(f)
          /\ Started(t, f) \/ UNCHANGED <<pc, me>>
      BY <1>2, BindEffect
    <2>2. InUseKept
      BY <2>1 DEF OnlyRow, InUseKept
    <2>3. CASE Started(t, f)
      BY <2>2, <2>3, ThreadsStarted
    <2>4. CASE UNCHANGED <<pc, me>>
      <3>1. ASSUME NEW u \in Thread PROVE ThreadOK(u)'
        <4>1. me'[u] = me[u] /\ pc'[u] = pc[u] /\ ThreadOK(u) /\ me[u].fd \in Fd \cup {None}
          BY <2>4 DEF Threads, TypeOK
        <4>2. me[u].fd \in Fd /\ tab[me[u].fd].st # "free"
                => tab'[me[u].fd].st # "free" /\ tab'[me[u].fd].dgram = tab[me[u].fd].dgram
          BY <2>2 DEF InUseKept
        <4> QED
          BY <4>1, <4>2 DEF ThreadOK
      <3> QED
        BY <3>1 DEF Threads
    <2> QED
      BY <2>1, <2>3, <2>4
  <1>3. ASSUME NEW t \in Thread, NEW f \in Fd, Begins(t, f) PROVE Threads'
    BY <1>3, BeginsEffect, ThreadsStarted, InUseSame
  <1>4. ASSUME NEW t \in Thread, Look(t) PROVE Threads'
    <2>1. /\ pc[t] = "look" /\ Only(t) /\ InUseKept /\ pc[t] # "idle"
          /\ me[t].op \in {"obtain", "sendto"}
      BY <1>4, LookEffect, InUseSame DEF Threads, ThreadOK
    <2>2. CASE Returned(t)
      BY <2>1, <2>2, ThreadsReturned
    <2>3. CASE Continues(t, tab[me[t].fd].handle)
      BY <2>1, <2>3, ThreadsContinues
    <2>4. CASE pc'[t] = "ensure" /\ me'[t].op = me[t].op /\ me'[t].fd = me[t].fd
      BY <2>1, <2>4, ThreadsGoOn DEF Carries
    <2> QED
      BY <1>4, <2>2, <2>3, <2>4, LookEffect
  <1>5. ASSUME NEW t \in Thread, EnsureFails(t) PROVE Threads'
    <2>1. Only(t) /\ InUseKept /\ pc[t] = "ensure" /\ ThreadOK(t)
      BY <1>5, EnsureFailsEffect, InUseSame DEF Threads
    <2>2. CASE Returned(t)
      BY <2>1, <2>2, ThreadsReturned
    <2>3. CASE me[t].op = "close" /\ pc'[t] = "destroy" /\ me'[t] = me[t]
      <3>1. me[t].handle # None => me[t].gen \in Gen
        BY <2>1, <2>3 DEF ThreadOK
      <3> QED
        BY <2>1, <2>3, <3>1, ThreadsGoOn DEF Carries
    <2> QED
      BY <1>5, <2>2, <2>3, EnsureFailsEffect
  <1>6. ASSUME NEW t \in Thread, NEW g \in Gen, SendReq(t, g) PROVE Threads'
    BY <1>6, SendReqEffect, ThreadsReturned, InUseSame
  <1>7. ASSUME NEW t \in Thread, NEW g \in Gen, SocketReq(t, g) PROVE Threads'
    <2>1. /\ Only(t) /\ InUseKept /\ pc[t] # "idle"
          /\ me'[t].op = me[t].op /\ me'[t].fd = me[t].fd /\ me'[t].gen \in Gen /\ me'[t].handle \in Handle
          /\ Asks(t) /\ pc'[t] = IF NeedsBind(t) THEN "bindReq" ELSE "store"
      BY <1>7, SocketReqEffect, InUseSame DEF Granted
    <2> QED
      BY <2>1, ThreadsGoOn DEF Asks, NeedsBind
  <1>8. ASSUME NEW t \in Thread, NEW g \in Gen, SocketFails(t, g) PROVE Threads'
    BY <1>8, SocketFailsEffect, ThreadsReturned, InUseSame
  <1>9. ASSUME NEW t \in Thread, BindReq(t) PROVE Threads'
    <2>1. /\ Only(t) /\ InUseKept /\ pc[t] = "bindReq" /\ me'[t] = me[t]
          /\ pc'[t] = IF me[t].op = "listen" THEN "listenReq" ELSE "store"
      BY <1>9, BindReqEffect, InUseSame
    <2>2. me[t].op \in {"listen", "obtain", "sendto"} /\ me[t].gen \in Gen /\ me[t].handle \in Handle
      BY <2>1 DEF Threads, ThreadOK, Carries
    <2> QED
      BY <2>1, <2>2, ThreadsGoOn
  <1>10. ASSUME NEW t \in Thread, BindFails(t) PROVE Threads'
    <2>1. Only(t) /\ InUseKept /\ pc[t] = "bindReq"
      BY <1>10, BindFailsEffect, InUseSame
    <2>2. me[t].op \in {"listen", "obtain", "sendto"} /\ me[t].gen \in Gen /\ me[t].handle \in Handle
      BY <2>1 DEF Threads, ThreadOK, Carries
    <2>3. CASE Returned(t)
      BY <2>1, <2>3, ThreadsReturned
    <2>4. CASE me[t].op # "listen" /\ pc'[t] = "discard" /\ me'[t] = me[t]
      BY <2>1, <2>2, <2>4, ThreadsGoOn
    <2> QED
      BY <1>10, <2>3, <2>4, BindFailsEffect
  <1>11. ASSUME NEW t \in Thread, ListenReq(t) PROVE Threads'
    <2>1. Only(t) /\ InUseKept /\ pc[t] = "listenReq" /\ me'[t] = me[t] /\ pc'[t] = "store"
      BY <1>11, ListenReqEffect, InUseSame
    <2>2. me[t].op = "listen" /\ me[t].gen \in Gen /\ me[t].handle \in Handle
      BY <2>1 DEF Threads, ThreadOK, Carries
    <2> QED
      BY <2>1, <2>2, ThreadsGoOn
  <1>12. ASSUME NEW t \in Thread, ListenFails(t) PROVE Threads'
    BY <1>12, ListenFailsEffect, ThreadsReturned, InUseSame
  <1>13. ASSUME NEW t \in Thread, StoreStream(t) PROVE Threads'
    <2>1. /\ Only(t) /\ pc[t] = "store" /\ me[t].op \in {"listen", "connect"}
          /\ Stored(t) \/ UNCHANGED tab
          /\ \/ Returned(t)
             \/ me[t].op = "connect" /\ pc'[t] = "register" /\ me'[t] = me[t]
      BY <1>13, StoreStreamEffect
    <2>2. InUseKept
      BY <2>1 DEF InUseKept, Stored, OnlyRow
    <2>3. me[t].gen \in Gen /\ me[t].handle \in Handle
      BY <2>1, Carried DEF Carries
    <2>4. CASE Returned(t)
      BY <2>1, <2>2, <2>4, ThreadsReturned
    <2>5. CASE me[t].op = "connect" /\ pc'[t] = "register" /\ me'[t] = me[t]
      BY <2>1, <2>2, <2>3, <2>5, ThreadsGoOn
    <2> QED
      BY <2>1, <2>4, <2>5
  <1>14. ASSUME NEW t \in Thread, StoreDgram(t) PROVE Threads'
    <2>1. /\ Only(t) /\ pc[t] = "store" /\ me[t].op \in {"obtain", "sendto"}
          /\ Stored(t) \/ UNCHANGED tab
          /\ pc'[t] \in {"register", "discard"} /\ me'[t].op = me[t].op /\ me'[t].fd = me[t].fd
          /\ me'[t].gen = me[t].gen /\ me'[t].handle = me[t].handle
      BY <1>14, StoreDgramEffect
    <2>2. InUseKept
      BY <2>1 DEF InUseKept, Stored, OnlyRow
    <2>3. me[t].gen \in Gen /\ me[t].handle \in Handle
      BY <2>1, Carried DEF Carries
    <2> QED
      BY <2>1, <2>2, <2>3, ThreadsGoOn
  <1>15. ASSUME NEW t \in Thread, Discard(t) PROVE Threads'
    BY <1>15, DiscardEffect, ThreadsReturned, ThreadsContinues, InUseSame
  <1>16. ASSUME NEW t \in Thread, Register(t) PROVE Threads'
    <2>1. Only(t) /\ InUseKept /\ pc[t] = "register"
      BY <1>16, RegisterEffect, InUseSame
    <2>2. me[t].gen \in Gen /\ me[t].handle \in Handle
      BY <2>1, Carried DEF Carries
    <2>3. CASE me[t].op \in {"connect", "child"} /\ pc'[t] = "link" /\ me'[t] = me[t]
      BY <2>1, <2>2, <2>3, ThreadsGoOn
    <2>4. CASE Returned(t)
      BY <2>1, <2>4, ThreadsReturned
    <2>5. CASE Continues(t, me[t].handle)
      BY <2>1, <2>5, ThreadsContinues
    <2> QED
      BY <1>16, <2>3, <2>4, <2>5, RegisterEffect
  <1>17. ASSUME NEW g \in Gen, NEW l \in Handle, Incoming(g, l) PROVE Threads'
    <2>1. UNCHANGED <<tab, pc, me>>
      BY <1>17, IncomingEffect
    <2> QED
      BY <2>1 DEF Threads, ThreadOK
  <1>18. ASSUME NEW t \in Thread, NEW g \in Gen, Wait(t, g) PROVE Threads'
    <2>1. /\ Only(t) /\ InUseKept /\ pc[t] = "ensure" /\ me[t].op = "accept" /\ pc'[t] = "take"
          /\ me'[t].op = me[t].op /\ me'[t].fd = me[t].fd /\ me'[t].gen \in Gen
          /\ me'[t].handle = me[t].handle
      BY <1>18, WaitEffect, InUseSame
    <2>2. me[t].handle \in Handle
      BY <2>1 DEF Threads, ThreadOK
    <2> QED
      BY <2>1, <2>2, ThreadsGoOn
  <1>19. ASSUME NEW t \in Thread, NEW c \in Handle, NEW f \in Fd, TakeChild(t, c, f) PROVE Threads'
    <2>0. Adopted(t, c, f)
      BY <1>19, TakeChildEffect
    <2>1. /\ pc[t] = "take" /\ tab[f].st = "free" /\ OnlyRow(f) /\ Only(t)
          /\ tab'[f].st = "open" /\ ~tab'[f].dgram
          /\ pc'[t] = "register" /\ me'[t].op = "child" /\ me'[t].fd = f /\ me'[t].handle = c
          /\ me'[t].gen = me[t].gen
      BY <2>0 DEF Adopted
    <2>2. me[t].gen \in Gen
      BY <2>1, Carried
    <2>3. InUseKept
      BY <2>1 DEF InUseKept, OnlyRow
    <2>4. ThreadOK(t)'
      BY <2>1, <2>2, Basics DEF ThreadOK
    <2> QED
      BY <2>1, <2>3, <2>4, ThreadsFrame
  <1>20. ASSUME NEW t \in Thread, NEW c \in Handle, TakeNoFile(t, c) PROVE Threads'
    BY <1>20, TakeNoFileEffect, ThreadsReturned, InUseSame
  <1>21. ASSUME NEW t \in Thread, TakeNothing(t) PROVE Threads'
    BY <1>21, TakeNothingEffect, ThreadsReturned, InUseSame
  <1>22. ASSUME NEW t \in Thread, NEW g \in Gen, CloseReq(t, g) PROVE Threads'
    <2>1. /\ Only(t) /\ InUseKept /\ pc[t] = "ensure" /\ me[t].op = "close" /\ pc'[t] = "destroy"
          /\ me'[t] = me[t]
      BY <1>22, CloseReqEffect, InUseSame
    <2>2. me[t].handle # None => me[t].gen \in Gen
      BY <2>1 DEF Threads, ThreadOK
    <2> QED
      BY <2>1, <2>2, ThreadsGoOn DEF Carries
  <1>23. ASSUME NEW t \in Thread, Destroy(t) PROVE Threads'
    <2> DEFINE f == me[t].fd
    <2>1. pc[t] = "destroy" /\ Only(t) /\ f \in Fd /\ me[t].op = "close"
      BY <1>23, DestroyEffect, InCallFd DEF Threads, ThreadOK
    <2>2. InUseKept
      BY <1>23, <2>1, DestroyEffect DEF InUseKept, OnlyRow, IsOpen
    <2>3. CASE Returned(t)
      BY <2>1, <2>2, <2>3, ThreadsReturned
    <2>4. CASE /\ tab[f].handle \in Handle /\ pc'[t] = "unregister" /\ me'[t].op = me[t].op
               /\ me'[t].fd = f /\ me'[t].handle = tab[f].handle /\ me'[t].gen = tab[f].gen
      <3>1. tab[f].gen \in Gen
        BY <2>1, <2>4, Basics DEF Rows
      <3> QED
        BY <2>1, <2>2, <2>4, <3>1, ThreadsGoOn DEF Carries
    <2> QED
      BY <1>23, <2>3, <2>4, DestroyEffect
  <1>24. ASSUME NEW t \in Thread, Unregister(t) PROVE Threads'
    BY <1>24, UnregisterEffect, ThreadsReturned, InUseSame
  <1>25. ASSUME NEW g \in Gen, Disconnect(g) PROVE Threads'
    BY <1>25, DisconnectEffect DEF Threads, ThreadOK
  <1>26. ASSUME NEW g \in Gen, Shut(g) PROVE Threads'
    BY <1>26, ShutEffect DEF Threads, ThreadOK
  <1>27. ASSUME NEW t \in Thread, Settles(t) PROVE Threads'
    BY <1>27, SettlesEffect, ThreadsReturned, InUseSame DEF core
  <1>28. ASSUME Resolves PROVE Threads'
    BY <1>28, ResolvesEffect DEF Threads, ThreadOK, core
  <1> QED
    BY <1>1, <1>2, <1>3, <1>4, <1>5, <1>6, <1>7, <1>8, <1>9, <1>10, <1>11, <1>12, <1>13, <1>14, <1>15,
       <1>16, <1>17, <1>18, <1>19, <1>20, <1>21, <1>22, <1>23, <1>24, <1>25, <1>26, <1>27, <1>28
       DEF Next, Begins, Settles, Resolves

---------------------------------------------------------------------------
(* Kinds of steps.  Most steps of a call are quiet: they change neither    *)
(* the table nor the pumps, take nothing from the engine that they do not  *)
(* report as dropped, and get hold of no handle.                           *)

\* No session ends; one that gives out a handle is the client's.
SessionsMove ==
    /\ Revived /\ (client' = client \/ ~ClientReady)
    /\ \A g \in Gen : given'[g] # given[g] => client' = g /\ rd'[g] = "run"

\* The world around a quiet step: handles are only gained, by the client's
\* session, and a handle that is gained or leaves a queue is reported as
\* dropped.
WorldQuiet ==
    /\ UNCHANGED <<tab, listening, recvReg, dgReg, clobbered, stolen>>
    /\ SessionsMove
    /\ \A g \in Gen : /\ engine[g] \subseteq engine'[g] /\ given[g] <= given'[g]
                      /\ given'[g] = given[g] => engine'[g] = engine[g]
                      /\ \A h \in engine'[g] : h \in engine[g] \/ <<g, h>> \in dropped'
    /\ \A g \in Gen, l \in Handle :
          /\ queue'[g][l] \subseteq queue[g][l]
          /\ \A h \in queue[g][l] : h \in queue'[g][l] \/ IsClosed(g) \/ <<g, h>> \in dropped'
    /\ dropped \subseteq dropped' /\ raced \subseteq raced'

\* The thread of a quiet step: it ends, starts a call, or goes to give back the
\* handle it has; it makes no claim it did not have.
ThreadQuiet(t) ==
    /\ pc'[t] \notin {"bindReq", "listenReq", "store", "register", "link", "unregister"}
    /\ pc[t] \notin {"register", "unregister"}
    /\ pc'[t] = "discard" => pc[t] \in {"bindReq", "store"} /\ me'[t].gen = me[t].gen
                             /\ me'[t].handle = me[t].handle
    /\ pc[t] \in {"bindReq", "listenReq", "store", "discard"} /\ ~IsClosed(me[t].gen)
          => pc'[t] = "discard" \/ <<me[t].gen, me[t].handle>> \in dropped'
    /\ me[t].op = "close" => me'[t] = me[t] /\ pc[t] = "ensure" /\ pc'[t] = "destroy" /\ ~ClientReady
    /\ me'[t].op = "close" => me[t].op = "close" \/ pc[t] = "idle"
    /\ pc[t] = "idle" => Started(t, me'[t].fd)
    /\ me'[t].fd \in {None, me[t].fd} \/ pc[t] = "idle"

\* A quiet step.
Quiet(t) == Only(t) /\ WorldQuiet /\ ThreadQuiet(t)

\* A step that changes nothing outside the threads is quiet.
LEMMA WorldSame ==
  ASSUME TypeOK, UNCHANGED outside, UNCHANGED <<tab>>, raced \subseteq raced'
  PROVE  WorldQuiet
  BY DEF WorldQuiet, SessionsMove, Revived, TypeOK, outside

\* Connecting a client ends no session.
LEMMA ReachedMove ==
  ASSUME NEW g \in Gen, Reached(g), UNCHANGED given
  PROVE  SessionsMove
  BY DEF Reached, SessionsMove

\* A step that only connects a client and drops handles is quiet.
LEMMA WorldDrop ==
  ASSUME TypeOK, SessionsMove, dropped \subseteq dropped',
         UNCHANGED <<tab, engine, given, listening, queue, recvReg, dgReg,
                     raced, clobbered, stolen>>
  PROVE  WorldQuiet
  BY DEF WorldQuiet, TypeOK

\* A step that leaves the client alone ends no session.
LEMMA NoMove ==
  ASSUME TypeOK, UNCHANGED <<client, rd, given>>
  PROVE  SessionsMove
  BY DEF SessionsMove, Revived, TypeOK

\* Starting a call is quiet.
LEMMA QuietBegins ==
  ASSUME TypeOK, Threads, TableAssumption, NEW t \in Thread, NEW f \in Fd, Begins(t, f)
  PROVE  Quiet(t)
  <1>1. Started(t, f) /\ UNCHANGED outside /\ UNCHANGED tab
    BY BeginsEffect
  <1>2. Only(t) /\ raced \subseteq raced' /\ pc[t] = "idle"
    BY <1>1 DEF Started
  <1>3. WorldQuiet
    BY <1>1, <1>2, WorldSame
  <1>4. me[t].op # "close"
    BY <1>2 DEF Threads, ThreadOK
  <1>5. /\ Started(t, me'[t].fd)
        /\ pc'[t] \in {"ensure", "look", "destroy"}
        /\ me'[t].op \in {"obtain", "sendto"} => pc'[t] = "look"
    BY <1>1 DEF Started
  <1>6. ThreadQuiet(t)
    BY <1>2, <1>4, <1>5 DEF ThreadQuiet
  <1> QED
    BY <1>2, <1>3, <1>6 DEF Quiet

\* Reading the table is quiet.
LEMMA QuietLook ==
  ASSUME TypeOK, Threads, TableAssumption, NEW t \in Thread, Look(t)
  PROVE  Quiet(t)
  <1>1. /\ pc[t] = "look" /\ Only(t) /\ UNCHANGED outside /\ UNCHANGED <<tab, raced>>
        /\ \/ Returned(t)
           \/ Continues(t, tab[me[t].fd].handle)
           \/ /\ pc'[t] = "ensure" /\ me'[t].op = me[t].op /\ me'[t].fd = me[t].fd
              /\ me'[t].local = tab[me[t].fd].local
    BY LookEffect
  <1>2. me[t].op \in {"obtain", "sendto"}
    BY <1>1 DEF Threads, ThreadOK
  <1> QED
    BY <1>1, <1>2, WorldSame DEF Quiet, ThreadQuiet, Returned, Continues

\* Getting no client is quiet.
LEMMA QuietEnsureFails ==
  ASSUME TypeOK, Threads, TableAssumption, NEW t \in Thread, EnsureFails(t)
  PROVE  Quiet(t)
  <1>1. /\ pc[t] = "ensure" /\ Only(t) /\ Revived
        /\ UNCHANGED <<tab, client, engine, given, listening, queue, recvReg, dgReg,
                       dropped, raced, clobbered, stolen>>
        /\ \/ me[t].op # "close" /\ Returned(t)
           \/ me[t].op = "close" /\ pc'[t] = "destroy" /\ me'[t] = me[t]
        /\ ~ClientReady
    BY EnsureFailsEffect
  <1>2. SessionsMove
    BY <1>1 DEF SessionsMove
  <1> QED
    BY <1>1, <1>2, WorldDrop DEF Quiet, ThreadQuiet, Returned

\* Sending is quiet.
LEMMA QuietSendReq ==
  ASSUME TypeOK, Threads, TableAssumption, NEW t \in Thread, NEW g \in Gen, SendReq(t, g)
  PROVE  Quiet(t)
  <1>1. /\ pc[t] = "ensure" /\ me[t].op = "send" /\ Reached(g) /\ Only(t) /\ Returned(t)
        /\ UNCHANGED <<tab, engine, given, listening, queue, recvReg, dgReg,
                       dropped, raced, clobbered, stolen>>
    BY SendReqEffect
  <1> QED
    BY <1>1, ReachedMove, WorldDrop DEF Quiet, ThreadQuiet, Returned

\* Waiting on a queue is quiet.
LEMMA QuietWait ==
  ASSUME TypeOK, Threads, TableAssumption, NEW t \in Thread, NEW g \in Gen, Wait(t, g)
  PROVE  Quiet(t)
  <1>1. /\ pc[t] = "ensure" /\ me[t].op = "accept" /\ Reached(g) /\ Only(t)
        /\ pc'[t] = "take" /\ me'[t].op = me[t].op /\ me'[t].fd = me[t].fd
        /\ UNCHANGED <<tab, engine, given, listening, queue, recvReg, dgReg,
                       dropped, raced, clobbered, stolen>>
    BY WaitEffect
  <1> QED
    BY <1>1, ReachedMove, WorldDrop DEF Quiet, ThreadQuiet

\* A socket request that fails is quiet: what the engine opened is reported.
LEMMA QuietSocketFails ==
  ASSUME TypeOK, Threads, TableAssumption, NEW t \in Thread, NEW g \in Gen, SocketFails(t, g)
  PROVE  Quiet(t)
  <1>1. /\ pc[t] = "ensure" /\ Asks(t) /\ Reached(g) /\ Only(t) /\ Returned(t)
        /\ UNCHANGED <<tab, listening, queue, recvReg, dgReg,
                       raced, clobbered, stolen>>
        /\ \/ UNCHANGED <<engine, given, dropped>>
           \/ Granted(g) /\ dropped' = dropped \cup {<<g, given[g] + 1>>}
    BY SocketFailsEffect
  <1>2. ThreadQuiet(t)
    BY <1>1 DEF ThreadQuiet, Returned, Asks
  <1>3. CASE UNCHANGED <<engine, given, dropped>>
    BY <1>1, <1>2, <1>3, ReachedMove, WorldDrop DEF Quiet
  <1>4. CASE Granted(g) /\ dropped' = dropped \cup {<<g, given[g] + 1>>}
    <2>1. SessionsMove
      BY <1>1, <1>4 DEF SessionsMove, Reached, Granted
    <2>2. given \in [Gen -> 0..MaxHandle] /\ 0..MaxHandle \subseteq Int
      BY DEF TypeOK
    <2>3. ASSUME NEW k \in Gen
          PROVE  /\ engine[k] \subseteq engine'[k] /\ given[k] <= given'[k]
                 /\ given'[k] = given[k] => engine'[k] = engine[k]
                 /\ \A h \in engine'[k] : h \in engine[k] \/ <<k, h>> \in dropped'
      <3>1. CASE k = g
        BY <1>4, <2>2, <3>1 DEF Granted
      <3>2. CASE k # g
        BY <1>4, <2>2, <3>2 DEF Granted
      <3> QED
        BY <3>1, <3>2
    <2>4. WorldQuiet
      BY <1>1, <1>4, <2>1, <2>3 DEF WorldQuiet
    <2> QED
      BY <1>1, <1>2, <2>4 DEF Quiet
  <1> QED
    BY <1>1, <1>3, <1>4

\* A bind request that fails is quiet: the handle is discarded or reported.
LEMMA QuietBindFails ==
  ASSUME TypeOK, Threads, TableAssumption, NEW t \in Thread, BindFails(t)
  PROVE  Quiet(t)
  <1>1. /\ pc[t] = "bindReq" /\ Only(t)
        /\ UNCHANGED <<tab, client, rd, engine, given, listening, queue, recvReg, dgReg,
                       raced, clobbered, stolen>>
        /\ \/ Returned(t) /\ Drop({<<me[t].gen, me[t].handle>>})
           \/ pc'[t] = "discard" /\ me'[t] = me[t] /\ UNCHANGED dropped
    BY BindFailsEffect
  <1>2. me[t].gen \in Gen /\ me[t].handle \in Handle /\ me[t].op # "close"
    BY <1>1, Carried DEF Carries, Threads, ThreadOK
  <1>3. CASE Returned(t) /\ Drop({<<me[t].gen, me[t].handle>>})
    <2>1. dropped \subseteq dropped' /\ (~IsClosed(me[t].gen) => <<me[t].gen, me[t].handle>> \in dropped')
      BY <1>2, <1>3, DropOne
    <2> QED
      BY <1>1, <1>2, <1>3, <2>1, NoMove, WorldDrop DEF Quiet, ThreadQuiet, Returned
  <1>4. CASE pc'[t] = "discard" /\ me'[t] = me[t] /\ UNCHANGED dropped
    BY <1>1, <1>2, <1>4, NoMove, WorldDrop DEF Quiet, ThreadQuiet
  <1> QED
    BY <1>1, <1>3, <1>4

\* A refused listen() is quiet: the handle is reported.
LEMMA QuietListenFails ==
  ASSUME TypeOK, Threads, TableAssumption, NEW t \in Thread, ListenFails(t)
  PROVE  Quiet(t)
  <1>1. /\ pc[t] = "listenReq" /\ Only(t) /\ Returned(t) /\ Drop({<<me[t].gen, me[t].handle>>})
        /\ UNCHANGED <<tab, client, rd, engine, given, listening, queue, recvReg, dgReg,
                       raced, clobbered, stolen>>
    BY ListenFailsEffect
  <1>2. me[t].gen \in Gen /\ me[t].handle \in Handle /\ me[t].op # "close"
    BY <1>1, Carried DEF Carries, Threads, ThreadOK
  <1>3. dropped \subseteq dropped' /\ (~IsClosed(me[t].gen) => <<me[t].gen, me[t].handle>> \in dropped')
    BY <1>1, <1>2, DropOne
  <1> QED
    BY <1>1, <1>2, <1>3, NoMove, WorldDrop DEF Quiet, ThreadQuiet, Returned

\* An accept() without a free descriptor is quiet: the child is reported.
LEMMA QuietTakeNoFile ==
  ASSUME TypeOK, Threads, TableAssumption, NEW t \in Thread, NEW c \in Handle, TakeNoFile(t, c)
  PROVE  Quiet(t)
  <1> DEFINE g == me[t].gen
             l == me[t].handle
  <1>1. /\ pc[t] = "take" /\ c \in queue[g][l] /\ Requeued(g, l, queue[g][l] \ {c})
        /\ Drop({<<g, c>>}) /\ Only(t) /\ Returned(t)
        /\ UNCHANGED <<tab, client, rd, engine, given, listening, recvReg, dgReg,
                       raced, clobbered, stolen>>
    BY TakeNoFileEffect
  <1>2. g \in Gen /\ l \in Handle /\ me[t].op # "close"
    BY <1>1, Carried DEF Threads, ThreadOK
  <1>3. dropped \subseteq dropped' /\ (~IsClosed(g) => <<g, c>> \in dropped')
    BY <1>1, <1>2, DropOne
  <1> HIDE DEF g, l
  <1>4. \A k \in Gen, m \in Handle :
          /\ queue'[k][m] \subseteq queue[k][m]
          /\ \A h \in queue[k][m] : h \in queue'[k][m] \/ IsClosed(k) \/ <<k, h>> \in dropped'
    BY <1>1, <1>2, <1>3 DEF Requeued
  <1>5. WorldQuiet
    <2>1. \A k \in Gen : /\ engine[k] \subseteq engine'[k] /\ given[k] <= given'[k]
                         /\ given'[k] = given[k] => engine'[k] = engine[k]
                         /\ \A h \in engine'[k] : h \in engine[k] \/ <<k, h>> \in dropped'
      BY <1>1 DEF TypeOK
    <2> QED
      BY <1>1, <1>3, <1>4, <2>1, NoMove DEF WorldQuiet
  <1>6. ThreadQuiet(t)
    BY <1>1, <1>2 DEF ThreadQuiet, Returned
  <1> QED
    BY <1>1, <1>5, <1>6 DEF Quiet

\* An accept() without a child is quiet.
LEMMA QuietTakeNothing ==
  ASSUME TypeOK, Threads, TableAssumption, NEW t \in Thread, TakeNothing(t)
  PROVE  Quiet(t)
  <1>1. /\ pc[t] = "take" /\ Only(t) /\ Returned(t)
        /\ UNCHANGED outside /\ UNCHANGED <<tab, raced>>
    BY TakeNothingEffect
  <1>2. me[t].op # "close"
    BY <1>1 DEF Threads, ThreadOK
  <1> QED
    BY <1>1, <1>2, WorldSame DEF Quiet, ThreadQuiet, Returned

\* The end of a connect() or an accept() is quiet: what it leaves to the outbound
\* pump and the gates is looked at below.
LEMMA QuietSettles ==
  ASSUME TypeOK, Threads, TableAssumption, NEW t \in Thread, Settles(t)
  PROVE  Quiet(t)
  <1>1. pc[t] = "link" /\ Only(t) /\ Returned(t) /\ UNCHANGED core
    BY SettlesEffect
  <1>2. me[t].op # "close"
    BY <1>1 DEF Threads, ThreadOK
  <1>3. WorldQuiet
    BY <1>1, WorldSame DEF core, outside
  <1> QED
    BY <1>1, <1>2, <1>3 DEF Quiet, ThreadQuiet, Returned

\* The handle a call carries becomes the descriptor's; the one it had is dropped.
Stores(t) ==
    /\ pc[t] = "store" /\ Only(t) /\ Stored(t)
    /\ UNCHANGED <<client, rd, engine, given, listening, queue, recvReg, dgReg,
                   raced, clobbered, stolen>>
    /\ dropped \subseteq dropped'
    /\ tab[me[t].fd].handle # None =>
          IsClosed(tab[me[t].fd].gen) \/ <<tab[me[t].fd].gen, tab[me[t].fd].handle>> \in dropped'
    /\ \/ me[t].op = "listen" /\ Returned(t)
       \/ me[t].op # "listen" /\ pc'[t] = "register" /\ me'[t] = me[t]

\* Storing the handle of a stream is quiet on a closed row, and a store
\* otherwise.
LEMMA StoreStreamKind ==
  ASSUME TypeOK, Threads, Rows, TableAssumption, NEW t \in Thread, StoreStream(t)
  PROVE  Quiet(t) \/ Stores(t)
  <1> DEFINE f == me[t].fd
  <1>1. /\ pc[t] = "store" /\ me[t].op \in {"listen", "connect"} /\ Only(t)
        /\ UNCHANGED <<client, rd, engine, given, listening, queue, recvReg, dgReg,
                       raced, clobbered, stolen>>
    BY StoreStreamEffect
  <1>2. me[t].gen \in Gen /\ me[t].handle \in Handle /\ f \in Fd /\ me[t].op # "close"
    BY <1>1, Carried DEF Carries
  <1>3. CASE /\ Stored(t) /\ Drop(Forgotten(f))
             /\ \/ me[t].op = "listen" /\ Returned(t)
                \/ me[t].op = "connect" /\ pc'[t] = "register" /\ me'[t] = me[t]
    <2>1. tab[f] \in Row /\ (tab[f].handle # None => tab[f].gen \in Gen)
      BY <1>2 DEF TypeOK, Row, Rows
    <2>2. Forgotten(f) \in SUBSET (Gen \X Handle)
      BY <2>1 DEF Forgotten, Row
    <2>3. /\ dropped \subseteq dropped'
          /\ \A k \in Gen, n \in Handle : <<k, n>> \in Forgotten(f) /\ ~IsClosed(k) => <<k, n>> \in dropped'
      BY <1>3, <2>2, DropEffect
    <2>4. tab[f].handle # None => IsClosed(tab[f].gen) \/ <<tab[f].gen, tab[f].handle>> \in dropped'
      BY <2>1, <2>3 DEF Forgotten, Row
    <2> QED
      BY <1>1, <1>3, <2>3, <2>4 DEF Stores
  <1>4. CASE UNCHANGED tab /\ Drop({<<me[t].gen, me[t].handle>>}) /\ Returned(t)
    <2>1. dropped \subseteq dropped' /\ (~IsClosed(me[t].gen) => <<me[t].gen, me[t].handle>> \in dropped')
      BY <1>2, <1>4, DropOne
    <2> QED
      BY <1>1, <1>2, <1>4, <2>1, NoMove, WorldDrop DEF Quiet, ThreadQuiet, Returned
  <1> QED
    BY <1>3, <1>4, StoreStreamEffect

\* Storing the handle of a datagram socket is quiet when another call was
\* first, and a store otherwise.
LEMMA StoreDgramKind ==
  ASSUME TypeOK, Threads, TableAssumption, NEW t \in Thread, StoreDgram(t)
  PROVE  Quiet(t) \/ Stores(t)
  <1> DEFINE f == me[t].fd
  <1>1. /\ pc[t] = "store" /\ me[t].op \in {"obtain", "sendto"} /\ Only(t)
        /\ UNCHANGED <<client, rd, engine, given, listening, queue, recvReg, dgReg,
                       dropped, raced, clobbered, stolen>>
        /\ \/ Stored(t) /\ tab[f].handle = None /\ pc'[t] = "register" /\ me'[t] = me[t]
           \/ /\ UNCHANGED tab /\ pc'[t] = "discard" /\ me'[t].op = me[t].op /\ me'[t].fd = me[t].fd
              /\ me'[t].gen = me[t].gen /\ me'[t].handle = me[t].handle
    BY StoreDgramEffect
  <1>2. CASE Stored(t) /\ tab[f].handle = None /\ pc'[t] = "register" /\ me'[t] = me[t]
    BY <1>1, <1>2 DEF Stores
  <1>3. CASE /\ UNCHANGED tab /\ pc'[t] = "discard" /\ me'[t].op = me[t].op /\ me'[t].fd = me[t].fd
             /\ me'[t].gen = me[t].gen /\ me'[t].handle = me[t].handle
    BY <1>1, <1>3, NoMove, WorldDrop DEF Quiet, ThreadQuiet
  <1> QED
    BY <1>1, <1>2, <1>3

\* What a step may be.
Kind ==
    \/ \E t \in Thread : Quiet(t) \/ Stores(t)
    \/ \E f \in Fd, dgram \in BOOLEAN : Socket(f, dgram)
    \/ \E t \in Thread, f \in Fd : Bind(t, f)
    \/ \E t \in Thread, g \in Gen : SocketReq(t, g) \/ CloseReq(t, g)
    \/ \E t \in Thread : BindReq(t) \/ ListenReq(t) \/ Discard(t) \/ Register(t) \/ Destroy(t) \/ Unregister(t)
    \/ \E g \in Gen, l \in Handle : Incoming(g, l)
    \/ \E t \in Thread, c \in Handle, f \in Fd : TakeChild(t, c, f)
    \/ \E g \in Gen : Disconnect(g) \/ Shut(g)

\* Every step is of one of the kinds, or resolves a gate; the proofs below split on
\* them.
LEMMA Kinds ==
  ASSUME TypeOK, Threads, Rows, TableAssumption, Next
  PROVE  Kind \/ Resolves
  <1>1. \A t \in Thread, f \in Fd : Begins(t, f) => Quiet(t)
    BY QuietBegins
  <1>2. \A t \in Thread : Look(t) \/ EnsureFails(t) \/ BindFails(t) \/ ListenFails(t) \/ TakeNothing(t) => Quiet(t)
    BY QuietLook, QuietEnsureFails, QuietBindFails, QuietListenFails, QuietTakeNothing
  <1>3. \A t \in Thread, g \in Gen : SendReq(t, g) \/ Wait(t, g) \/ SocketFails(t, g) => Quiet(t)
    BY QuietSendReq, QuietWait, QuietSocketFails
  <1>4. \A t \in Thread, c \in Handle : TakeNoFile(t, c) => Quiet(t)
    BY QuietTakeNoFile
  <1>5. \A t \in Thread : StoreStream(t) \/ StoreDgram(t) => Quiet(t) \/ Stores(t)
    BY StoreStreamKind, StoreDgramKind
  <1>6. \A t \in Thread : LinkUp(t) \/ LinkFails(t) \/ ArmGate(t) => Quiet(t)
    BY QuietSettles DEF Settles
  <1> QED
    BY <1>1, <1>2, <1>3, <1>4, <1>5, <1>6 DEF Next, Begins, Kind, Resolves

---------------------------------------------------------------------------
(* Sessions.                                                               *)

\* A session that has given out a handle is not started again.
LEMMA UpKept ==
  ASSUME TypeOK, Sessions, SessionsMove, NEW k \in Gen
  PROVE  /\ IsClosed(k)' => IsClosed(k)
         /\ given[k] > 0 => (IsClosed(k)' <=> IsClosed(k))
  <1>1. rd'[k] = rd[k] \/ (rd[k] = "none" /\ rd'[k] = "run")
    BY DEF SessionsMove, Revived
  <1>2. rd[k] = "none" => given[k] = 0
    BY DEF Sessions
  <1>3. given[k] > 0 => given[k] # 0
    BY DEF TypeOK
  <1> QED
    BY <1>1, <1>2, <1>3 DEF IsClosed

\* What remains to be shown of Sessions when no session ends.
LEMMA SessionsFrame ==
  ASSUME TypeOK, TypeOK', Sessions, SessionsMove, TableAssumption,
         \A g \in Gen : IsClosed(g)' => /\ engine'[g] = {} /\ listening'[g] = {}
                                        /\ \A l \in Handle : queue'[g][l] = {},
         \A g \in Gen : listening'[g] # {} => given'[g] > 0
  PROVE  Sessions'
  <1>1. ASSUME NEW g \in Gen
        PROVE  /\ rd'[g] = "none" => given'[g] = 0
               /\ given'[g] > 0 /\ ~IsClosed(g)' => client' = g
    <2>1. rd'[g] = rd[g] \/ (rd[g] = "none" /\ rd'[g] = "run")
      BY DEF SessionsMove, Revived
    <2>2. given'[g] # given[g] => client' = g /\ rd'[g] = "run"
      BY DEF SessionsMove
    <2>3. /\ rd[g] = "none" => given[g] = 0
          /\ given[g] > 0 /\ ~IsClosed(g) => client = g
      BY DEF Sessions
    <2>4. rd'[g] = "none" => given'[g] = 0
      BY <2>1, <2>2, <2>3
    <2>5. ASSUME given'[g] = given[g], given'[g] > 0, ~IsClosed(g)' PROVE client' = g
      <3>1. ~IsClosed(g) /\ client = g
        BY <2>3, <2>5, UpKept
      <3>2. ClientReady
        BY <3>1, Basics DEF ClientReady
      <3> QED
        BY <3>1, <3>2 DEF SessionsMove
    <2> QED
      BY <2>2, <2>4, <2>5
  <1> QED
    BY <1>1 DEF Sessions

\* The handles of a call are among those given out.
LEMMA ClaimGiven ==
  ASSUME TypeOK, Exclusive, TableAssumption, NEW g \in Gen, NEW h \in Handle
  PROVE  /\ \A f \in Fd : Has(f, g, h) => given[g] > 0
         /\ \A t \in Thread : Owns(t, g, h) \/ Knows(t, g, h) => given[g] > 0
         /\ \A l \in Handle : Queued(l, g, h) => given[g] > 0
  <1>1. h \in Nat /\ h > 0 /\ given[g] \in Nat
    BY DEF Handle, TypeOK, TableAssumption
  <1>2. h <= given[g] => given[g] > 0
    BY <1>1
  <1>3. /\ \A f \in Fd : Has(f, g, h) => h <= given[g]
        /\ \A t \in Thread : Owns(t, g, h) \/ Knows(t, g, h) => h <= given[g]
        /\ \A l \in Handle : Queued(l, g, h) => h <= given[g]
    BY DEF Exclusive, Sole
  <1> QED
    BY <1>2, <1>3

\* A listening handle's session is the client's.
LEMMA IncomingMove ==
  ASSUME TypeOK, Sessions, TableAssumption, NEW g \in Gen, NEW l \in Handle, Incoming(g, l)
  PROVE  SessionsMove
  <1>1. l \in listening[g] /\ ~IsClosed(g) /\ Granted(g) /\ UNCHANGED <<client, rd>>
    BY IncomingEffect
  <1>2. client = g /\ rd[g] = "run"
    BY <1>1 DEF Sessions, IsClosed
  <1> QED
    BY <1>1, <1>2 DEF SessionsMove, Revived, Granted, TypeOK

\* The engine gives out handles to the client's session.
LEMMA SocketReqMove ==
  ASSUME TypeOK, TableAssumption, NEW t \in Thread, NEW g \in Gen, SocketReq(t, g)
  PROVE  SessionsMove
  <1>1. Reached(g) /\ Granted(g)
    BY SocketReqEffect
  <1> QED
    BY <1>1 DEF SessionsMove, Reached, Granted

\* Every step but the end of a session moves the sessions on.
LEMMA Moves ==
  ASSUME TypeOK, Threads, Sessions, TableAssumption, Kind
  PROVE  SessionsMove \/ (\E g \in Gen : Disconnect(g) \/ Shut(g))
  <1>1. ASSUME NEW t \in Thread, Quiet(t) PROVE SessionsMove
    BY <1>1 DEF Quiet, WorldQuiet
  <1>2. ASSUME NEW t \in Thread, Stores(t) PROVE SessionsMove
    BY <1>2, NoMove DEF Stores
  <1>3. ASSUME NEW f \in Fd, NEW dgram \in BOOLEAN, Socket(f, dgram) PROVE SessionsMove
    BY <1>3, NoMove DEF Socket, engineVars
  <1>4. ASSUME NEW t \in Thread, NEW f \in Fd, Bind(t, f) PROVE SessionsMove
    <2>1. UNCHANGED outside
      BY <1>4, BindEffect
    <2> QED
      BY <2>1, NoMove DEF outside
  <1>5. ASSUME NEW t \in Thread, NEW g \in Gen, CloseReq(t, g) PROVE SessionsMove
    <2>1. Reached(g) /\ UNCHANGED given
      BY <1>5, CloseReqEffect
    <2> QED
      BY <2>1, ReachedMove
  <1>6. ASSUME NEW t \in Thread, BindReq(t) \/ ListenReq(t) \/ Discard(t) \/ Register(t) \/ Destroy(t) \/ Unregister(t)
        PROVE  SessionsMove
    <2>1. UNCHANGED <<client, rd, given>>
      BY <1>6 DEF BindReq, ListenReq, Discard, Register, Destroy, Unregister, engineVars
    <2> QED
      BY <2>1, NoMove
  <1>7. ASSUME NEW t \in Thread, NEW c \in Handle, NEW f \in Fd, TakeChild(t, c, f) PROVE SessionsMove
    <2>1. UNCHANGED <<client, rd, given>>
      BY <1>7 DEF TakeChild
    <2> QED
      BY <2>1, NoMove
  <1> QED
    BY <1>1, <1>2, <1>3, <1>4, <1>5, <1>6, <1>7, SocketReqMove, IncomingMove DEF Kind

\* Every step keeps Sessions.
LEMMA SessionsStep ==
  ASSUME TypeOK, TypeOK', Threads, Sessions, Exclusive, TableAssumption, Kind
  PROVE  Sessions'
  <1> USE DEF Sessions
  <1>0. \A g \in Gen : given[g] \in Nat
    BY DEF TypeOK
  <1>1. ASSUME NEW t \in Thread, Quiet(t) PROVE Sessions'
    <2>1. SessionsMove /\ WorldQuiet
      BY <1>1 DEF Quiet, WorldQuiet
    <2>2. ASSUME NEW g \in Gen, IsClosed(g)'
          PROVE  /\ engine'[g] = {} /\ listening'[g] = {}
                 /\ \A l \in Handle : queue'[g][l] = {}
      <3>1. IsClosed(g) /\ given'[g] = given[g]
        BY <2>1, <2>2, UpKept DEF SessionsMove, IsClosed
      <3> QED
        BY <2>1, <3>1 DEF WorldQuiet
    <2>3. \A g \in Gen : listening'[g] # {} => given'[g] > 0
      BY <1>0, <2>1 DEF WorldQuiet, TypeOK
    <2> QED
      BY <2>1, <2>2, <2>3, SessionsFrame
  <1>2. ASSUME NEW t \in Thread, Stores(t) PROVE Sessions'
    BY <1>2 DEF Stores, IsClosed
  <1>3. ASSUME NEW f \in Fd, NEW dgram \in BOOLEAN, Socket(f, dgram) PROVE Sessions'
    BY <1>3 DEF Socket, engineVars, IsClosed
  <1>4. ASSUME NEW t \in Thread, NEW f \in Fd, Bind(t, f) PROVE Sessions'
    <2>1. UNCHANGED outside
      BY <1>4, BindEffect
    <2> QED
      BY <2>1 DEF outside, IsClosed
  <1>5. ASSUME NEW t \in Thread, NEW g \in Gen, SocketReq(t, g) PROVE Sessions'
    <2>1. Reached(g) /\ Granted(g) /\ UNCHANGED <<listening, queue>> /\ SessionsMove
      BY <1>5, SocketReqEffect, SocketReqMove
    <2>2. ASSUME NEW k \in Gen, IsClosed(k)'
          PROVE  /\ engine'[k] = {} /\ listening'[k] = {}
                 /\ \A l \in Handle : queue'[k][l] = {}
      <3>1. IsClosed(k) /\ k # g
        BY <2>1, <2>2, UpKept DEF Reached, IsClosed
      <3> QED
        BY <2>1, <3>1 DEF Granted
    <2>3. ASSUME NEW k \in Gen, listening'[k] # {} PROVE given'[k] > 0
      BY <1>0, <2>1, <2>3 DEF Granted
    <2> QED
      BY <2>1, <2>2, <2>3, SessionsFrame
  <1>6. ASSUME NEW t \in Thread, NEW g \in Gen, CloseReq(t, g) PROVE Sessions'
    <2>1. /\ Reached(g) /\ UNCHANGED given /\ Requeued(g, me[t].handle, {})
          /\ \A k \in Gen : /\ engine'[k] \subseteq engine[k]
                            /\ listening'[k] \subseteq listening[k]
      <3>1. /\ Reached(g) /\ UNCHANGED given /\ Requeued(g, me[t].handle, {})
            /\ \/ /\ Minus(engine, engine', g, me[t].handle)
                  /\ Minus(listening, listening', g, me[t].handle)
               \/ UNCHANGED <<engine, listening>>
        BY <1>6, CloseReqEffect
      <3> QED
        BY <3>1 DEF Minus
    <2>2. SessionsMove
      BY <2>1, ReachedMove
    <2>3. ASSUME NEW k \in Gen, IsClosed(k)'
          PROVE  /\ engine'[k] = {} /\ listening'[k] = {}
                 /\ \A l \in Handle : queue'[k][l] = {}
      <3>1. IsClosed(k)
        BY <2>2, <2>3, UpKept
      <3> QED
        BY <2>1, <3>1 DEF Requeued
    <2>4. ASSUME NEW k \in Gen, listening'[k] # {} PROVE given'[k] > 0
      BY <2>1, <2>4
    <2> QED
      BY <2>2, <2>3, <2>4, SessionsFrame
  <1>7. ASSUME NEW t \in Thread, BindReq(t) PROVE Sessions'
    <2>1. UNCHANGED <<client, rd, engine, given, listening, queue>>
      BY <1>7, BindReqEffect
    <2> QED
      BY <2>1 DEF IsClosed
  <1>8. ASSUME NEW t \in Thread, ListenReq(t) PROVE Sessions'
    <2>1. /\ UNCHANGED <<client, rd, engine, given, queue>> /\ ~IsClosed(me[t].gen)
          /\ pc[t] = "listenReq" /\ \A k \in Gen : k # me[t].gen => listening'[k] = listening[k]
      BY <1>8, ListenReqEffect
    <2>2. me[t].gen \in Gen /\ me[t].handle \in Handle
      BY <2>1, Carried DEF Carries
    <2>3. Owns(t, me[t].gen, me[t].handle)
      BY <2>1 DEF Owns
    <2>4. given[me[t].gen] > 0
      BY <2>2, <2>3, ClaimGiven
    <2> QED
      BY <2>1, <2>4 DEF IsClosed
  <1>9. ASSUME NEW t \in Thread, Discard(t) PROVE Sessions'
    <2>1. /\ UNCHANGED <<client, rd, given, listening, queue>>
          /\ \A k \in Gen : engine'[k] \subseteq engine[k]
      <3>1. /\ UNCHANGED <<client, rd, given, listening, queue>>
            /\ Minus(engine, engine', me[t].gen, me[t].handle) \/ UNCHANGED engine
        BY <1>9, DiscardEffect
      <3> QED
        BY <3>1 DEF Minus
    <2> QED
      BY <2>1 DEF IsClosed
  <1>10. ASSUME NEW t \in Thread, Register(t) \/ Destroy(t) \/ Unregister(t) PROVE Sessions'
    BY <1>10 DEF Register, Destroy, Unregister, engineVars, IsClosed
  <1>11. ASSUME NEW g \in Gen, NEW l \in Handle, Incoming(g, l) PROVE Sessions'
    <2>1. /\ l \in listening[g] /\ ~IsClosed(g) /\ Granted(g) /\ UNCHANGED <<rd, listening>>
          /\ Requeued(g, l, queue[g][l] \cup {given[g] + 1}) /\ SessionsMove
      BY <1>11, IncomingEffect, IncomingMove
    <2>2. ASSUME NEW k \in Gen, IsClosed(k)'
          PROVE  /\ engine'[k] = {} /\ listening'[k] = {}
                 /\ \A m \in Handle : queue'[k][m] = {}
      <3>1. IsClosed(k) /\ k # g
        BY <2>1, <2>2 DEF IsClosed
      <3>2. engine[k] = {} /\ listening[k] = {} /\ \A m \in Handle : queue[k][m] = {}
        BY <3>1
      <3>3. engine'[k] = engine[k] /\ \A m \in Handle : queue'[k][m] = queue[k][m]
        BY <2>1, <3>1 DEF Granted, Requeued
      <3> QED
        BY <2>1, <3>2, <3>3
    <2>3. ASSUME NEW k \in Gen, listening'[k] # {} PROVE given'[k] > 0
      BY <1>0, <2>1, <2>3 DEF Granted
    <2> QED
      BY <2>1, <2>2, <2>3, SessionsFrame
  <1>12. ASSUME NEW t \in Thread, NEW c \in Handle, NEW f \in Fd, TakeChild(t, c, f) PROVE Sessions'
    <2>1. Adopted(t, c, f)
      BY <1>12, TakeChildEffect
    <2>2. UNCHANGED <<client, rd, engine, given, listening>>
      BY <2>1 DEF Adopted
    <2>3. \A k \in Gen, m \in Handle : queue'[k][m] \subseteq queue[k][m]
      BY <2>1 DEF Adopted, Requeued
    <2> QED
      BY <2>2, <2>3 DEF IsClosed
  <1>13. ASSUME NEW g \in Gen, Disconnect(g) PROVE Sessions'
    <2>1. /\ rd'[g] = "closed" /\ \A k \in Gen : k # g => rd'[k] = rd[k]
          /\ Emptied(engine, engine', g) /\ Emptied(listening, listening', g)
          /\ \A k \in Gen, l \in Handle : queue'[k][l] = IF k = g THEN {} ELSE queue[k][l]
          /\ UNCHANGED <<client, given>>
      BY <1>13, DisconnectEffect
    <2>2. ASSUME NEW k \in Gen
          PROVE  /\ IsClosed(k)' => /\ engine'[k] = {} /\ listening'[k] = {}
                                    /\ \A l \in Handle : queue'[k][l] = {}
                 /\ rd'[k] = "none" => given'[k] = 0
                 /\ given'[k] > 0 /\ ~IsClosed(k)' => client' = k
                 /\ listening'[k] # {} => given'[k] > 0
      BY <2>1 DEF Emptied, IsClosed
    <2> QED
      BY <2>2
  <1>14. ASSUME NEW g \in Gen, Shut(g) PROVE Sessions'
    <2>1. /\ rd[g] = "closed" /\ rd'[g] = "done" /\ \A k \in Gen : k # g => rd'[k] = rd[k]
          /\ UNCHANGED <<client, engine, given, listening, queue>>
      BY <1>14, ShutEffect
    <2> QED
      BY <2>1 DEF IsClosed
  <1> QED
    BY <1>1, <1>2, <1>3, <1>4, <1>5, <1>6, <1>7, <1>8, <1>9, <1>10, <1>11, <1>12, <1>13, <1>14 DEF Kind

---------------------------------------------------------------------------
(* Nobody shares a handle.                                                 *)

\* Claims on handle h of session g are only given up; a close() may take note of
\* the one its descriptor has.
ClaimsShrink(g, h) ==
    /\ given[g] <= given'[g]
    /\ \A f \in Fd : Has(f, g, h)' => Has(f, g, h)
    /\ \A t \in Thread : Owns(t, g, h)' => Owns(t, g, h)
    /\ \A l \in Handle : Queued(l, g, h)' => Queued(l, g, h)
    /\ \A t \in Thread : Knows(t, g, h)' =>
          \/ Knows(t, g, h) /\ me'[t].fd = me[t].fd
          \/ me'[t].fd \in Fd /\ Has(me'[t].fd, g, h)

\* Claims that are only given up stay exclusive.
LEMMA SoleShrinks ==
  ASSUME TypeOK, TypeOK', NEW g \in Gen, NEW h \in Handle, Sole(g, h), ClaimsShrink(g, h)
  PROVE  Sole(g, h)'
  <1>1. h <= given[g] => h <= given'[g]
    BY DEF ClaimsShrink, TypeOK, Handle
  <1>2. \A f \in Fd : Has(f, g, h)' => h <= given'[g]
    BY <1>1 DEF Sole, ClaimsShrink
  <1>3. \A t \in Thread : Owns(t, g, h)' \/ Knows(t, g, h)' => h <= given'[g]
    BY <1>1 DEF Sole, ClaimsShrink
  <1>4. \A l \in Handle : Queued(l, g, h)' => h <= given'[g]
    BY <1>1 DEF Sole, ClaimsShrink
  <1>5. /\ \A e, f \in Fd : Has(e, g, h)' /\ Has(f, g, h)' => e = f
        /\ \A t, u \in Thread : Owns(t, g, h)' /\ Owns(u, g, h)' => t = u
        /\ \A l, m \in Handle : Queued(l, g, h)' /\ Queued(m, g, h)' => l = m
    BY DEF Sole, ClaimsShrink
  <1>6. /\ \A f \in Fd, t \in Thread : ~(Has(f, g, h)' /\ Owns(t, g, h)')
        /\ \A f \in Fd, l \in Handle : ~(Has(f, g, h)' /\ Queued(l, g, h)')
        /\ \A t \in Thread, l \in Handle : ~(Owns(t, g, h)' /\ Queued(l, g, h)')
    BY DEF Sole, ClaimsShrink
  <1>7. \A t \in Thread, f \in Fd : Knows(t, g, h)' /\ Has(f, g, h)' => me'[t].fd = f
    BY DEF Sole, ClaimsShrink
  <1>8. /\ \A t, u \in Thread : ~(Knows(t, g, h)' /\ Owns(u, g, h)')
        /\ \A t \in Thread, l \in Handle : ~(Knows(t, g, h)' /\ Queued(l, g, h)')
    BY DEF Sole, ClaimsShrink
  <1> QED
    BY <1>2, <1>3, <1>4, <1>5, <1>6, <1>7, <1>8 DEF Sole

\* The handle is in the table, and there only.
LEMMA SoleInTable ==
  ASSUME TypeOK', NEW g \in Gen, NEW h \in Handle, NEW f \in Fd, h <= given'[g],
         \A e \in Fd : Has(e, g, h)' => e = f,
         \A t \in Thread : ~Owns(t, g, h)',
         \A l \in Handle : ~Queued(l, g, h)',
         \A t \in Thread : Knows(t, g, h)' => me'[t].fd = f
  PROVE  Sole(g, h)'
  BY DEF Sole

\* A quiet step only gives up claims.
LEMMA ClaimsQuiet ==
  ASSUME TypeOK, TypeOK', Threads, Threads', TableAssumption, NEW t \in Thread, Quiet(t),
         NEW g \in Gen, NEW h \in Handle
  PROVE  ClaimsShrink(g, h)
  <1>1. Only(t) /\ WorldQuiet /\ ThreadQuiet(t)
    BY DEF Quiet
  <1>2. /\ given[g] <= given'[g] /\ UNCHANGED tab
        /\ \A l \in Handle : queue'[g][l] \subseteq queue[g][l]
    BY <1>1 DEF WorldQuiet
  <1>3. ASSUME NEW u \in Thread, u # t
        PROVE  /\ Owns(u, g, h)' => Owns(u, g, h)
               /\ Knows(u, g, h)' => Knows(u, g, h) /\ me'[u].fd = me[u].fd
    BY <1>1, <1>3 DEF Only, Owns, Knows
  <1>4. Owns(t, g, h)' => Owns(t, g, h)
    BY <1>1 DEF ThreadQuiet, Owns
  <1>5. Knows(t, g, h)' => \/ Knows(t, g, h) /\ me'[t].fd = me[t].fd
                           \/ me'[t].fd \in Fd /\ Has(me'[t].fd, g, h)
    <2>1. SUFFICES ASSUME Knows(t, g, h)'
                   PROVE  \/ Knows(t, g, h) /\ me'[t].fd = me[t].fd
                          \/ me'[t].fd \in Fd /\ Has(me'[t].fd, g, h)
      OBVIOUS
    <2>2. me'[t].op = "close"
      BY <1>1, <2>1 DEF Knows, ThreadQuiet
    <2>3. me'[t].fd \in Fd
      <3>1. me'[t].fd \in Fd \cup {None} /\ pc'[t] # "idle"
        BY <2>2 DEF TypeOK, Threads, ThreadOK
      <3> QED
        BY <3>1 DEF Threads, ThreadOK
    <2>4. CASE me[t].op = "close"
      BY <1>1, <2>1, <2>4 DEF ThreadQuiet, Knows
    <2>5. CASE me[t].op # "close"
      <3>1. Started(t, me'[t].fd)
        BY <1>1, <2>2, <2>5 DEF ThreadQuiet
      <3>2. me'[t].gen = tab[me'[t].fd].gen /\ me'[t].handle = tab[me'[t].fd].handle
        BY <2>2, <3>1 DEF Started
      <3> QED
        BY <2>1, <2>3, <3>2 DEF Knows, Has
    <2> QED
      BY <2>4, <2>5
  <1> QED
    BY <1>2, <1>3, <1>4, <1>5 DEF ClaimsShrink, Has, Queued

\* Steps of a thread that leave the table's handles, the queues and the counters
\* alone, and get hold of nothing.
LEMMA ClaimsThread ==
  ASSUME TypeOK, NEW t \in Thread, Only(t), NEW g \in Gen, NEW h \in Handle,
         UNCHANGED <<given, queue>>,
         \A f \in Fd : tab'[f].handle = tab[f].handle /\ tab'[f].gen = tab[f].gen,
         Owns(t, g, h)' => Owns(t, g, h),
         Knows(t, g, h)' => \/ Knows(t, g, h) /\ me'[t].fd = me[t].fd
                            \/ me'[t].fd \in Fd /\ Has(me'[t].fd, g, h)
  PROVE  ClaimsShrink(g, h)
  <1>1. ASSUME NEW u \in Thread, u # t
        PROVE  /\ Owns(u, g, h)' => Owns(u, g, h)
               /\ Knows(u, g, h)' => Knows(u, g, h) /\ me'[u].fd = me[u].fd
    BY <1>1 DEF Only, Owns, Knows
  <1>2. given[g] <= given'[g]
    BY DEF TypeOK
  <1> QED
    BY <1>1, <1>2 DEF ClaimsShrink, Has, Queued

\* A call that has returned, or goes on with a handle it did not obtain, claims nothing.
LEMMA NoClaims ==
  ASSUME NEW t \in Thread, NEW g, NEW h, Returned(t) \/ (\E n \in Handle : Continues(t, n))
  PROVE  ~Owns(t, g, h)' /\ ~Knows(t, g, h)'
  BY DEF Returned, Continues, Owns, Knows

\* The handle is in a call's hands, and there only.
LEMMA SoleInCall ==
  ASSUME NEW g \in Gen, NEW h \in Handle, NEW t \in Thread, h <= given'[g],
         \A f \in Fd : ~Has(f, g, h)',
         \A u \in Thread : Owns(u, g, h)' => u = t,
         \A u \in Thread : ~Knows(u, g, h)',
         \A l \in Handle : ~Queued(l, g, h)'
  PROVE  Sole(g, h)'
  BY DEF Sole

\* Giving out a handle takes none back.
LEMMA GrantedMore ==
  ASSUME TypeOK, NEW k \in Gen, Granted(k)
  PROVE  \A g \in Gen : given[g] <= given'[g]
  <1>1. \A g \in Gen : given[g] \in Int
    BY DEF TypeOK
  <1>2. ASSUME NEW g \in Gen PROVE given[g] <= given'[g]
    <2>1. CASE g = k
      BY <1>1, <2>1 DEF Granted
    <2>2. CASE g # k
      BY <1>1, <2>2 DEF Granted
    <2> QED
      BY <2>1, <2>2
  <1> QED
    BY <1>2

\* A step gets hold of handle h of session g: a call stores the one it carries, the
\* engine gives out its next one, or accept() takes a child from its queue.
Gains(g, h) ==
    \/ \E t \in Thread : Stores(t) /\ me[t].gen = g /\ me[t].handle = h
    \/ /\ h = given[g] + 1
       /\ (\E t \in Thread : SocketReq(t, g)) \/ (\E l \in Handle : Incoming(g, l))
    \/ \E t \in Thread, f \in Fd : TakeChild(t, h, f) /\ me[t].gen = g

\* Otherwise claims are only given up.
LEMMA ClaimsFate ==
  ASSUME TypeOK, TypeOK', Threads, Threads', TableAssumption, Kind
  PROVE  \A g \in Gen, h \in Handle : ClaimsShrink(g, h) \/ Gains(g, h)
  <1> DEFINE Fate == \A g \in Gen, h \in Handle : ClaimsShrink(g, h) \/ Gains(g, h)
  <1>1. ASSUME NEW t \in Thread, Quiet(t) PROVE Fate
    BY <1>1, ClaimsQuiet
  <1>2. ASSUME NEW t \in Thread, Stores(t) PROVE Fate
    <2>0. pc[t] = "store"
      BY <1>2 DEF Stores
    <2>2. PICK f \in Fd, k \in Gen, n \in Handle : f = me[t].fd /\ k = me[t].gen /\ n = me[t].handle
      BY <2>0, Carried DEF Carries
    <2>1. /\ pc[t] = "store" /\ Only(t) /\ OnlyRow(f) /\ tab'[f].handle = n /\ tab'[f].gen = k
          /\ UNCHANGED <<given, queue>>
          /\ Returned(t) \/ (pc'[t] = "register" /\ me'[t] = me[t])
      BY <1>2, <2>2 DEF Stores, Stored
    <2>4. ASSUME NEW u \in Thread, u # t, NEW g, NEW h
          PROVE  /\ Owns(u, g, h)' <=> Owns(u, g, h)
                 /\ Knows(u, g, h)' <=> Knows(u, g, h)
                 /\ me'[u].fd = me[u].fd
      BY <2>1, <2>4 DEF Only, Owns, Knows
    <2>5. ASSUME NEW g, NEW h PROVE ~Owns(t, g, h)' /\ (Knows(t, g, h)' => g = k /\ h = n /\ me'[t].fd = f)
      BY <2>1, <2>2 DEF Owns, Knows, Returned
    <2>7. ASSUME NEW g \in Gen, NEW h \in Handle, g # k \/ h # n PROVE ClaimsShrink(g, h)
      <3>2. \A e \in Fd : Has(e, g, h)' => Has(e, g, h)
        BY <2>1, <2>7 DEF Has, OnlyRow
      <3>3. \A u \in Thread : Owns(u, g, h)' => Owns(u, g, h)
        BY <2>4, <2>5
      <3>4. \A u \in Thread : Knows(u, g, h)' => Knows(u, g, h) /\ me'[u].fd = me[u].fd
        BY <2>4, <2>5, <2>7
      <3>5. given[g] <= given'[g] /\ \A l \in Handle : Queued(l, g, h)' => Queued(l, g, h)
        BY <2>1 DEF Queued, TypeOK
      <3> QED
        BY <3>2, <3>3, <3>4, <3>5 DEF ClaimsShrink
    <2>8. Gains(k, n)
      BY <1>2, <2>2 DEF Gains
    <2> QED
      BY <2>7, <2>8
  <1>3. ASSUME NEW f \in Fd, NEW dgram \in BOOLEAN, Socket(f, dgram) PROVE Fate
    <2>1. OnlyRow(f) /\ tab'[f].handle = None /\ UNCHANGED outside /\ UNCHANGED <<pc, me>>
      BY <1>3, SocketEffect
    <2>2. ASSUME NEW g \in Gen, NEW h \in Handle PROVE ClaimsShrink(g, h)
      <3>1. \A e \in Fd : Has(e, g, h)' => Has(e, g, h)
        BY <2>1, Basics DEF OnlyRow, Has
      <3>2. \A u \in Thread : /\ Owns(u, g, h)' => Owns(u, g, h)
                              /\ Knows(u, g, h)' => Knows(u, g, h) /\ me'[u].fd = me[u].fd
        BY <2>1 DEF Owns, Knows
      <3>3. given[g] <= given'[g] /\ \A l \in Handle : Queued(l, g, h)' => Queued(l, g, h)
        BY <2>1 DEF outside, Queued, TypeOK
      <3> QED
        BY <3>1, <3>2, <3>3 DEF ClaimsShrink
    <2> QED
      BY <2>2
  <1>4. ASSUME NEW t \in Thread, NEW f \in Fd, Bind(t, f) PROVE Fate
    <2>1. /\ OnlyRow(f) /\ tab'[f].handle = tab[f].handle /\ tab'[f].gen = tab[f].gen
          /\ UNCHANGED outside
          /\ (Started(t, f) /\ me'[t].op = "obtain") \/ UNCHANGED <<pc, me>>
      BY <1>4, BindEffect
    <2>2. UNCHANGED <<given, queue>> /\ \A e \in Fd : tab'[e].handle = tab[e].handle /\ tab'[e].gen = tab[e].gen
      BY <2>1 DEF OnlyRow, outside
    <2>3. ASSUME NEW g \in Gen, NEW h \in Handle PROVE ClaimsShrink(g, h)
      <3>1. CASE Started(t, f) /\ me'[t].op = "obtain"
        <4>1. Only(t) /\ ~Owns(t, g, h)' /\ ~Knows(t, g, h)'
          BY <3>1 DEF Started, Owns, Knows
        <4> QED
          BY <2>2, <4>1, ClaimsThread
      <3>2. CASE UNCHANGED <<pc, me>>
        BY <2>2, <3>2, ClaimsThread DEF Only, Owns, Knows
      <3> QED
        BY <2>1, <3>1, <3>2
    <2> QED
      BY <2>3
  <1>5. ASSUME NEW t \in Thread, NEW k \in Gen, SocketReq(t, k) PROVE Fate
    <2>0. Granted(k)
      BY <1>5, SocketReqEffect
    <2>8. PICK n \in Handle : n = given[k] + 1
      BY <2>0 DEF Granted
    <2>1. /\ Only(t) /\ Granted(k) /\ UNCHANGED <<tab, queue>> /\ pc[t] = "ensure" /\ Asks(t)
          /\ me'[t].op = me[t].op /\ me'[t].gen = k /\ me'[t].handle = n
          /\ pc'[t] \in {"bindReq", "store"}
      BY <1>5, <2>8, SocketReqEffect
    <2>2. \A g \in Gen : given[g] <= given'[g]
      BY <2>0, GrantedMore
    <2>3. ASSUME NEW u \in Thread, u # t, NEW g, NEW h
          PROVE  /\ Owns(u, g, h)' <=> Owns(u, g, h)
                 /\ Knows(u, g, h)' <=> Knows(u, g, h)
                 /\ me'[u].fd = me[u].fd
      BY <2>1, <2>3 DEF Only, Owns, Knows
    <2>4. ASSUME NEW g, NEW h PROVE ~Knows(t, g, h)' /\ (Owns(t, g, h)' => g = k /\ h = n)
      BY <2>1 DEF Owns, Knows, Asks
    <2>6. ASSUME NEW g \in Gen, NEW h \in Handle, g # k \/ h # n PROVE ClaimsShrink(g, h)
      BY <2>1, <2>2, <2>3, <2>4, <2>6 DEF ClaimsShrink, Has, Queued
    <2>7. Gains(k, n)
      BY <1>5, <2>8 DEF Gains
    <2> QED
      BY <2>6, <2>7
  <1>6. ASSUME NEW t \in Thread, NEW k \in Gen, CloseReq(t, k) PROVE Fate
    <2>1. /\ Only(t) /\ UNCHANGED <<tab, given>> /\ me'[t] = me[t] /\ pc'[t] = "destroy"
          /\ pc[t] = "ensure" /\ Requeued(k, me[t].handle, {})
      BY <1>6, CloseReqEffect
    <2>2. ASSUME NEW g \in Gen, NEW h \in Handle PROVE ClaimsShrink(g, h)
      <3>1. \A l \in Handle : Queued(l, g, h)' => Queued(l, g, h)
        BY <2>1 DEF Queued, Requeued
      <3>2. \A u \in Thread : /\ Owns(u, g, h)' => Owns(u, g, h)
                              /\ Knows(u, g, h)' => Knows(u, g, h) /\ me'[u].fd = me[u].fd
        BY <2>1 DEF Only, Owns, Knows
      <3>3. given[g] <= given'[g] /\ \A f \in Fd : Has(f, g, h)' => Has(f, g, h)
        BY <2>1 DEF TypeOK, Has
      <3> QED
        BY <3>1, <3>2, <3>3 DEF ClaimsShrink
    <2> QED
      BY <2>2
  <1>7. ASSUME NEW t \in Thread, BindReq(t) \/ ListenReq(t) PROVE Fate
    <2>1. /\ Only(t) /\ UNCHANGED <<tab, given, queue>> /\ me'[t] = me[t]
          /\ pc[t] \in {"bindReq", "listenReq"} /\ pc'[t] \in {"listenReq", "store"}
      BY <1>7, BindReqEffect, ListenReqEffect
    <2>2. ASSUME NEW g \in Gen, NEW h \in Handle PROVE ClaimsShrink(g, h)
      <3>1. /\ Owns(t, g, h)' => Owns(t, g, h)
            /\ Knows(t, g, h)' => Knows(t, g, h) /\ me'[t].fd = me[t].fd
        BY <2>1 DEF Owns, Knows
      <3> QED
        BY <2>1, <3>1, ClaimsThread
    <2> QED
      BY <2>2
  <1>8. ASSUME NEW t \in Thread, Discard(t) \/ Register(t) \/ Unregister(t) PROVE Fate
    <2>1. /\ Only(t) /\ UNCHANGED <<tab, given, queue>>
          /\ \/ Returned(t) \/ (\E n \in Handle : Continues(t, n))
             \/ pc[t] = "register" /\ pc'[t] = "link" /\ me'[t] = me[t]
      <3>1. CASE Discard(t)
        BY <3>1, DiscardEffect DEF Continues
      <3>2. CASE Register(t)
        BY <3>2, RegisterEffect DEF Continues
      <3>3. CASE Unregister(t)
        BY <3>3, UnregisterEffect
      <3> QED
        BY <1>8, <3>1, <3>2, <3>3
    <2>2. ASSUME NEW g \in Gen, NEW h \in Handle PROVE ClaimsShrink(g, h)
      <3>1. CASE Returned(t) \/ (\E n \in Handle : Continues(t, n))
        BY <2>1, <3>1, NoClaims, ClaimsThread
      <3>2. CASE pc[t] = "register" /\ pc'[t] = "link" /\ me'[t] = me[t]
        <4>1. /\ Owns(t, g, h)' => Owns(t, g, h)
              /\ Knows(t, g, h)' => Knows(t, g, h) /\ me'[t].fd = me[t].fd
          BY <3>2 DEF Owns, Knows
        <4> QED
          BY <2>1, <4>1, ClaimsThread
      <3> QED
        BY <2>1, <3>1, <3>2
    <2> QED
      BY <2>2
  <1>9. ASSUME NEW t \in Thread, Destroy(t) PROVE Fate
    <2> DEFINE f == me[t].fd
    <2>0. pc[t] = "destroy" /\ f \in Fd /\ me[t].op = "close"
      BY <1>9, DestroyEffect, InCallFd DEF Threads, ThreadOK
    <2>1. /\ Only(t) /\ UNCHANGED <<given, queue>>
          /\ \/ UNCHANGED tab
             \/ OnlyRow(f) /\ tab'[f].handle = tab[f].handle /\ tab'[f].gen = tab[f].gen
          /\ \/ Returned(t)
             \/ /\ pc'[t] = "unregister" /\ me'[t].fd = f /\ me'[t].handle = tab[f].handle
                /\ me'[t].gen = tab[f].gen
      BY <1>9, DestroyEffect DEF outside
    <2>2. \A e \in Fd : tab'[e].handle = tab[e].handle /\ tab'[e].gen = tab[e].gen
      BY <2>1 DEF OnlyRow
    <2>3. ASSUME NEW g \in Gen, NEW h \in Handle PROVE ClaimsShrink(g, h)
      <3>1. ~Owns(t, g, h)' /\ (Knows(t, g, h)' => me'[t].fd \in Fd /\ Has(me'[t].fd, g, h))
        BY <2>0, <2>1 DEF Owns, Knows, Has, Returned
      <3> QED
        BY <2>1, <2>2, <3>1, ClaimsThread
    <2> QED
      BY <2>3
  <1>10. ASSUME NEW k \in Gen, NEW m \in Handle, Incoming(k, m) PROVE Fate
    <2>0. Granted(k)
      BY <1>10, IncomingEffect
    <2>8. PICK n \in Handle : n = given[k] + 1
      BY <2>0 DEF Granted
    <2>1. /\ Granted(k) /\ UNCHANGED <<tab, pc, me>> /\ Requeued(k, m, queue[k][m] \cup {n})
      BY <1>10, <2>8, IncomingEffect
    <2>2. \A g \in Gen : given[g] <= given'[g]
      BY <2>0, GrantedMore
    <2>4. ASSUME NEW g \in Gen, NEW h \in Handle, NEW l \in Handle
          PROVE  Queued(l, g, h)' => Queued(l, g, h) \/ (g = k /\ h = n /\ l = m)
      BY <2>1 DEF Queued, Requeued
    <2>6. ASSUME NEW g \in Gen, NEW h \in Handle, g # k \/ h # n PROVE ClaimsShrink(g, h)
      BY <2>1, <2>2, <2>4, <2>6 DEF ClaimsShrink, Has, Owns, Knows
    <2>7. Gains(k, n)
      BY <1>10, <2>8 DEF Gains
    <2> QED
      BY <2>6, <2>7
  <1>11. ASSUME NEW t \in Thread, NEW c \in Handle, NEW f \in Fd, TakeChild(t, c, f) PROVE Fate
    <2>1. Adopted(t, c, f)
      BY <1>11, TakeChildEffect
    <2>0. pc[t] = "take"
      BY <2>1 DEF Adopted
    <2>3. PICK k \in Gen, m \in Handle : k = me[t].gen /\ m = me[t].handle
      BY <2>0, Carried
    <2>2. /\ pc[t] = "take" /\ c \in queue[k][m] /\ Requeued(k, m, queue[k][m] \ {c}) /\ Only(t)
          /\ OnlyRow(f) /\ tab'[f].gen = k /\ tab'[f].handle = c /\ UNCHANGED given
          /\ pc'[t] = "register" /\ me'[t].op = "child" /\ me'[t].fd = f /\ me'[t].handle = c
          /\ me'[t].gen = k
      BY <2>1, <2>3 DEF Adopted
    <2>5. ASSUME NEW u \in Thread, u # t, NEW g, NEW h
          PROVE  /\ Owns(u, g, h)' <=> Owns(u, g, h)
                 /\ Knows(u, g, h)' <=> Knows(u, g, h)
                 /\ me'[u].fd = me[u].fd
      BY <2>2, <2>5 DEF Only, Owns, Knows
    <2>6. ASSUME NEW g, NEW h PROVE ~Owns(t, g, h)' /\ (Knows(t, g, h)' => g = k /\ h = c /\ me'[t].fd = f)
      BY <2>2 DEF Owns, Knows
    <2>7. ASSUME NEW g \in Gen, NEW h \in Handle, NEW l \in Handle
          PROVE  Queued(l, g, h)' => Queued(l, g, h)
      BY <2>2 DEF Queued, Requeued
    <2>9. ASSUME NEW g \in Gen, NEW h \in Handle, g # k \/ h # c PROVE ClaimsShrink(g, h)
      <3>1. \A e \in Fd : Has(e, g, h)' => Has(e, g, h)
        BY <2>2, <2>9 DEF Has, OnlyRow
      <3>2. \A u \in Thread : Owns(u, g, h)' => Owns(u, g, h)
        BY <2>5, <2>6
      <3>3. \A u \in Thread : Knows(u, g, h)' => Knows(u, g, h) /\ me'[u].fd = me[u].fd
        BY <2>5, <2>6, <2>9
      <3>4. given[g] <= given'[g] /\ \A l \in Handle : Queued(l, g, h)' => Queued(l, g, h)
        BY <2>2, <2>7 DEF TypeOK
      <3> QED
        BY <3>1, <3>2, <3>3, <3>4 DEF ClaimsShrink
    <2>10. Gains(k, c)
      BY <1>11, <2>3 DEF Gains
    <2> QED
      BY <2>9, <2>10
  <1>12. ASSUME NEW k \in Gen, Disconnect(k) PROVE Fate
    <2>1. /\ \A g \in Gen, l \in Handle : queue'[g][l] = IF g = k THEN {} ELSE queue[g][l]
          /\ UNCHANGED <<tab, given, pc, me>>
      BY <1>12, DisconnectEffect
    <2>2. ASSUME NEW g \in Gen, NEW h \in Handle PROVE ClaimsShrink(g, h)
      <3>1. given[g] <= given'[g] /\ \A l \in Handle : Queued(l, g, h)' => Queued(l, g, h)
        <4>1. given[g] <= given'[g]
          BY <2>1 DEF TypeOK
        <4>2. \A l \in Handle : queue'[g][l] \subseteq queue[g][l]
          BY <2>1
        <4> QED
          BY <4>1, <4>2 DEF Queued
      <3> QED
        BY <2>1, <3>1 DEF ClaimsShrink, Has, Owns, Knows
    <2> QED
      BY <2>2
  <1>13. ASSUME NEW k \in Gen, Shut(k) PROVE Fate
    <2>1. UNCHANGED <<tab, given, queue, pc, me>>
      BY <1>13, ShutEffect
    <2>2. ASSUME NEW g \in Gen, NEW h \in Handle PROVE ClaimsShrink(g, h)
      BY <2>1 DEF ClaimsShrink, Has, Owns, Knows, Queued, TypeOK
    <2> QED
      BY <2>2
  <1> QED
    BY <1>1, <1>2, <1>3, <1>4, <1>5, <1>6, <1>7, <1>8, <1>9, <1>10, <1>11, <1>12, <1>13 DEF Kind

\* Every step keeps Exclusive: a new claim is on a number not given out before,
\* or is handed on from a queue to a row, or from a call to a row.
LEMMA ExclusiveStep ==
  ASSUME TypeOK, TypeOK', Threads, Threads', Exclusive, TableAssumption, Kind
  PROVE  Exclusive'
  <1>1. ASSUME NEW t \in Thread, Stores(t)
        PROVE  \A a \in Gen, b \in Handle : a = me[t].gen /\ b = me[t].handle => Sole(a, b)'
    <2>0. pc[t] = "store"
      BY <1>1 DEF Stores
    <2>2. PICK f \in Fd, k \in Gen, n \in Handle : f = me[t].fd /\ k = me[t].gen /\ n = me[t].handle
      BY <2>0, Carried DEF Carries
    <2>1. /\ pc[t] = "store" /\ Only(t) /\ OnlyRow(f) /\ tab'[f].handle = n /\ tab'[f].gen = k
          /\ UNCHANGED <<given, queue>>
          /\ Returned(t) \/ (pc'[t] = "register" /\ me'[t] = me[t])
      BY <1>1, <2>2 DEF Stores, Stored
    <2>3. me[t].op # "close" /\ Owns(t, k, n) /\ Sole(k, n)
      BY <2>1, <2>2 DEF Threads, ThreadOK, Owns, Exclusive
    <2>4. ASSUME NEW u \in Thread, u # t, NEW g, NEW h
          PROVE  /\ Owns(u, g, h)' <=> Owns(u, g, h)
                 /\ Knows(u, g, h)' <=> Knows(u, g, h)
                 /\ me'[u].fd = me[u].fd
      BY <2>1, <2>4 DEF Only, Owns, Knows
    <2>5. ASSUME NEW g, NEW h PROVE ~Owns(t, g, h)' /\ (Knows(t, g, h)' => g = k /\ h = n /\ me'[t].fd = f)
      BY <2>1, <2>2 DEF Owns, Knows, Returned
    <2>6. Sole(k, n)'
      <3>1. \A e \in Fd : Has(e, k, n)' => e = f
        <4>1. \A e \in Fd : ~Has(e, k, n)
          BY <2>3 DEF Sole
        <4> QED
          BY <2>1, <4>1 DEF Has, OnlyRow
      <3>2. \A u \in Thread : ~Owns(u, k, n)'
        <4>1. \A u \in Thread : Owns(u, k, n) => u = t
          BY <2>3 DEF Sole
        <4> QED
          BY <2>4, <2>5, <4>1
      <3>3. \A l \in Handle : ~Queued(l, k, n)'
        BY <2>1, <2>3 DEF Sole, Queued
      <3>4. \A u \in Thread : Knows(u, k, n)' => me'[u].fd = f
        <4>1. \A u \in Thread : ~Knows(u, k, n)
          BY <2>3 DEF Sole
        <4> QED
          BY <2>4, <2>5, <4>1
      <3>5. n <= given'[k]
        BY <2>1, <2>3 DEF Sole
      <3> QED
        BY <2>2, <3>1, <3>2, <3>3, <3>4, <3>5, SoleInTable
    <2> QED
      BY <2>2, <2>6
  <1>2. ASSUME NEW t \in Thread, NEW k \in Gen, SocketReq(t, k)
        PROVE  \A b \in Handle : b = given[k] + 1 => Sole(k, b)'
    <2>0. Granted(k)
      BY <1>2, SocketReqEffect
    <2>8. PICK n \in Handle : n = given[k] + 1
      BY <2>0 DEF Granted
    <2>1. /\ Only(t) /\ Granted(k) /\ UNCHANGED <<tab, queue>> /\ pc[t] = "ensure" /\ Asks(t)
          /\ me'[t].op = me[t].op /\ me'[t].gen = k /\ me'[t].handle = n
          /\ pc'[t] \in {"bindReq", "store"}
      BY <1>2, <2>8, SocketReqEffect
    <2>2. given'[k] = n /\ given[k] \in Nat /\ \A g \in Gen : given[g] <= given'[g]
      <3>1. given'[k] = n
        BY <2>0, <2>8 DEF Granted
      <3>2. given[k] \in Nat
        BY DEF TypeOK
      <3> QED
        BY <2>0, <3>1, <3>2, GrantedMore
    <2>3. ASSUME NEW u \in Thread, u # t, NEW g, NEW h
          PROVE  /\ Owns(u, g, h)' <=> Owns(u, g, h)
                 /\ Knows(u, g, h)' <=> Knows(u, g, h)
                 /\ me'[u].fd = me[u].fd
      BY <2>1, <2>3 DEF Only, Owns, Knows
    <2>4. ASSUME NEW g, NEW h PROVE ~Knows(t, g, h)' /\ (Owns(t, g, h)' => g = k /\ h = n)
      BY <2>1 DEF Owns, Knows, Asks
    <2>5. Sole(k, n)'
      <3>1. /\ \A f \in Fd : ~Has(f, k, n)
            /\ \A u \in Thread : ~Owns(u, k, n) /\ ~Knows(u, k, n)
            /\ \A l \in Handle : ~Queued(l, k, n)
        <4>1. Sole(k, n) /\ ~(n <= given[k])
          BY <2>2, <2>8 DEF Exclusive
        <4> QED
          BY <4>1 DEF Sole
      <3>2. /\ \A f \in Fd : ~Has(f, k, n)'
            /\ \A l \in Handle : ~Queued(l, k, n)'
        BY <2>1, <3>1 DEF Has, Queued
      <3>3. \A u \in Thread : ~Knows(u, k, n)' /\ (Owns(u, k, n)' => u = t)
        BY <2>3, <2>4, <3>1
      <3>4. n <= given'[k]
        BY <2>2 DEF Handle
      <3> QED
        BY <3>2, <3>3, <3>4, SoleInCall
    <2> QED
      BY <2>5, <2>8
  <1>3. ASSUME NEW k \in Gen, NEW m \in Handle, Incoming(k, m)
        PROVE  \A b \in Handle : b = given[k] + 1 => Sole(k, b)'
    <2>0. Granted(k)
      BY <1>3, IncomingEffect
    <2>8. PICK n \in Handle : n = given[k] + 1
      BY <2>0 DEF Granted
    <2>1. /\ Granted(k) /\ UNCHANGED <<tab, pc, me>> /\ Requeued(k, m, queue[k][m] \cup {n})
      BY <1>3, <2>8, IncomingEffect
    <2>2. given'[k] = n /\ given[k] \in Nat /\ \A g \in Gen : given[g] <= given'[g]
      <3>1. given'[k] = n
        BY <2>0, <2>8 DEF Granted
      <3>2. given[k] \in Nat
        BY DEF TypeOK
      <3> QED
        BY <2>0, <3>1, <3>2, GrantedMore
    <2>3. /\ \A f \in Fd : ~Has(f, k, n)
          /\ \A u \in Thread : ~Owns(u, k, n) /\ ~Knows(u, k, n)
          /\ \A l \in Handle : ~Queued(l, k, n)
      <3>1. Sole(k, n) /\ ~(n <= given[k])
        BY <2>2, <2>8 DEF Exclusive
      <3> QED
        BY <3>1 DEF Sole
    <2>4. ASSUME NEW g \in Gen, NEW h \in Handle, NEW l \in Handle
          PROVE  Queued(l, g, h)' => Queued(l, g, h) \/ (g = k /\ h = n /\ l = m)
      BY <2>1 DEF Queued, Requeued
    <2>5. Sole(k, n)'
      <3>1. /\ \A f \in Fd : ~Has(f, k, n)'
            /\ \A u \in Thread : ~Owns(u, k, n)' /\ ~Knows(u, k, n)'
        BY <2>1, <2>3 DEF Has, Owns, Knows
      <3>2. \A l \in Handle : Queued(l, k, n)' => l = m
        BY <2>2, <2>3, <2>4
      <3>3. n <= given'[k]
        BY <2>2 DEF Handle
      <3> QED
        BY <3>1, <3>2, <3>3 DEF Sole
    <2> QED
      BY <2>5, <2>8
  <1>4. ASSUME NEW t \in Thread, NEW c \in Handle, NEW f \in Fd, TakeChild(t, c, f)
        PROVE  \A a \in Gen : a = me[t].gen => Sole(a, c)'
    <2>1. Adopted(t, c, f)
      BY <1>4, TakeChildEffect
    <2>0. pc[t] = "take"
      BY <2>1 DEF Adopted
    <2>3. PICK k \in Gen, m \in Handle : k = me[t].gen /\ m = me[t].handle
      BY <2>0, Carried
    <2>2. /\ pc[t] = "take" /\ c \in queue[k][m] /\ Requeued(k, m, queue[k][m] \ {c}) /\ Only(t)
          /\ OnlyRow(f) /\ tab'[f].gen = k /\ tab'[f].handle = c /\ UNCHANGED given
          /\ pc'[t] = "register" /\ me'[t].op = "child" /\ me'[t].fd = f /\ me'[t].handle = c
          /\ me'[t].gen = k
      BY <2>1, <2>3 DEF Adopted
    <2>4. Queued(m, k, c) /\ Sole(k, c)
      BY <2>2, <2>3 DEF Queued, Exclusive
    <2>5. ASSUME NEW u \in Thread, u # t, NEW g, NEW h
          PROVE  /\ Owns(u, g, h)' <=> Owns(u, g, h)
                 /\ Knows(u, g, h)' <=> Knows(u, g, h)
                 /\ me'[u].fd = me[u].fd
      BY <2>2, <2>5 DEF Only, Owns, Knows
    <2>6. ASSUME NEW g, NEW h PROVE ~Owns(t, g, h)' /\ (Knows(t, g, h)' => g = k /\ h = c /\ me'[t].fd = f)
      BY <2>2 DEF Owns, Knows
    <2>7. ASSUME NEW g \in Gen, NEW h \in Handle, NEW l \in Handle
          PROVE  Queued(l, g, h)' => Queued(l, g, h) /\ ~(g = k /\ h = c /\ l = m)
      BY <2>2 DEF Queued, Requeued
    <2>8. Sole(k, c)'
      <3>1. \A e \in Fd : Has(e, k, c)' => e = f
        <4>1. \A e \in Fd : ~Has(e, k, c)
          BY <2>3, <2>4 DEF Sole
        <4> QED
          BY <2>2, <4>1 DEF Has, OnlyRow
      <3>2. \A u \in Thread : ~Owns(u, k, c)' /\ (Knows(u, k, c)' => me'[u].fd = f)
        <4>1. \A u \in Thread : ~Owns(u, k, c) /\ ~Knows(u, k, c)
          BY <2>3, <2>4 DEF Sole
        <4> QED
          BY <2>5, <2>6, <4>1
      <3>3. \A l \in Handle : ~Queued(l, k, c)'
        <4>1. \A l \in Handle : Queued(l, k, c) => l = m
          BY <2>3, <2>4 DEF Sole
        <4> QED
          BY <2>3, <2>7, <4>1
      <3>4. c <= given'[k]
        BY <2>2, <2>3, <2>4 DEF Sole
      <3> QED
        BY <2>3, <3>1, <3>2, <3>3, <3>4, SoleInTable
    <2> QED
      BY <2>3, <2>8
  <1>5. ASSUME NEW g \in Gen, NEW h \in Handle PROVE Sole(g, h)'
    <2>1. CASE ClaimsShrink(g, h)
      BY <2>1, SoleShrinks DEF Exclusive
    <2>2. CASE Gains(g, h)
      BY <1>1, <1>2, <1>3, <1>4, <2>2 DEF Gains
    <2> QED
      BY <2>1, <2>2, ClaimsFate
  <1> QED
    BY <1>5 DEF Exclusive

---------------------------------------------------------------------------
(* The rows of the table and the entries of the pumps.                     *)

\* Every step keeps Rows.
LEMMA RowsStep ==
  ASSUME TypeOK, TypeOK', Threads, Rows, TableAssumption, Kind
  PROVE  Rows'
  <1>0. ASSUME UNCHANGED tab PROVE Rows'
    BY <1>0 DEF Rows
  <1>1. ASSUME NEW t \in Thread, Quiet(t) PROVE Rows'
    BY <1>0, <1>1 DEF Quiet, WorldQuiet
  <1>2. ASSUME NEW t \in Thread, Stores(t) PROVE Rows'
    <2>1. /\ pc[t] = "store" /\ OnlyRow(me[t].fd) /\ tab'[me[t].fd].st = "open"
          /\ tab'[me[t].fd].gen = me[t].gen
      BY <1>2 DEF Stores, Stored
    <2>2. me[t].gen \in Gen
      BY <2>1, Carried DEF Carries
    <2> QED
      BY <2>1, <2>2 DEF Rows, OnlyRow
  <1>3. ASSUME NEW f \in Fd, NEW dgram \in BOOLEAN, Socket(f, dgram) PROVE Rows'
    <2>1. OnlyRow(f) /\ tab'[f].handle = None
      BY <1>3, SocketEffect
    <2> QED
      BY <2>1 DEF Rows, OnlyRow
  <1>4. ASSUME NEW t \in Thread, NEW f \in Fd, Bind(t, f) PROVE Rows'
    <2>1. /\ OnlyRow(f) /\ tab'[f].handle = tab[f].handle /\ tab'[f].gen = tab[f].gen
          /\ tab'[f].st = tab[f].st
      BY <1>4, BindEffect
    <2> QED
      BY <2>1 DEF Rows, OnlyRow
  <1>5. ASSUME NEW t \in Thread, NEW g \in Gen, SocketReq(t, g) \/ CloseReq(t, g) PROVE Rows'
    BY <1>0, <1>5 DEF SocketReq, CloseReq
  <1>6. ASSUME NEW t \in Thread, BindReq(t) \/ ListenReq(t) \/ Discard(t) \/ Register(t) \/ Unregister(t)
        PROVE  Rows'
    BY <1>0, <1>6 DEF BindReq, ListenReq, Discard, Register, Unregister
  <1>7. ASSUME NEW t \in Thread, Destroy(t) PROVE Rows'
    <2>1. \/ UNCHANGED tab
          \/ /\ OnlyRow(me[t].fd) /\ tab'[me[t].fd].st = "closed"
             /\ tab'[me[t].fd].handle = tab[me[t].fd].handle
             /\ tab'[me[t].fd].gen = tab[me[t].fd].gen
      BY <1>7, DestroyEffect
    <2> QED
      BY <1>0, <2>1 DEF Rows, OnlyRow
  <1>8. ASSUME NEW g \in Gen, NEW l \in Handle, Incoming(g, l) PROVE Rows'
    BY <1>0, <1>8 DEF Incoming
  <1>9. ASSUME NEW t \in Thread, NEW c \in Handle, NEW f \in Fd, TakeChild(t, c, f) PROVE Rows'
    <2>1. Adopted(t, c, f)
      BY <1>9, TakeChildEffect
    <2>2. pc[t] = "take" /\ OnlyRow(f) /\ tab'[f].st = "open" /\ tab'[f].gen = me[t].gen
      BY <2>1 DEF Adopted
    <2>3. me[t].gen \in Gen
      BY <2>2, Carried
    <2> QED
      BY <2>2, <2>3 DEF Rows, OnlyRow
  <1>10. ASSUME NEW g \in Gen, Disconnect(g) \/ Shut(g) PROVE Rows'
    BY <1>0, <1>10 DEF Disconnect, Shut
  <1> QED
    BY <1>1, <1>2, <1>3, <1>4, <1>5, <1>6, <1>7, <1>8, <1>9, <1>10 DEF Kind

\* An engine never takes back a handle it has given out.
LEMMA GivenGrows ==
  ASSUME TypeOK, Threads, TableAssumption, Kind
  PROVE  \A g \in Gen : given[g] <= given'[g]
  <1>0. ASSUME UNCHANGED given PROVE \A g \in Gen : given[g] <= given'[g]
    BY <1>0 DEF TypeOK
  <1>1. ASSUME NEW t \in Thread, Quiet(t) PROVE \A g \in Gen : given[g] <= given'[g]
    BY <1>1 DEF Quiet, WorldQuiet
  <1>2. ASSUME NEW t \in Thread, NEW k \in Gen, SocketReq(t, k) PROVE \A g \in Gen : given[g] <= given'[g]
    BY <1>2, SocketReqEffect, GrantedMore
  <1>3. ASSUME NEW k \in Gen, NEW l \in Handle, Incoming(k, l) PROVE \A g \in Gen : given[g] <= given'[g]
    BY <1>3, IncomingEffect, GrantedMore
  <1>4. ASSUME NEW t \in Thread,
               \/ Stores(t) \/ BindReq(t) \/ ListenReq(t) \/ Discard(t) \/ Register(t) \/ Destroy(t)
               \/ Unregister(t) \/ (\E g \in Gen : CloseReq(t, g)) \/ (\E f \in Fd : Bind(t, f))
               \/ (\E c \in Handle, f \in Fd : TakeChild(t, c, f))
        PROVE  UNCHANGED given
    BY <1>4 DEF Stores, BindReq, ListenReq, Discard, Register, Destroy, Unregister, CloseReq, Bind,
                TakeChild, engineVars
  <1>5. ASSUME (\E f \in Fd, dgram \in BOOLEAN : Socket(f, dgram)) \/ (\E g \in Gen : Disconnect(g) \/ Shut(g))
        PROVE  UNCHANGED given
    BY <1>5 DEF Socket, Disconnect, Shut, engineVars
  <1> QED
    BY <1>0, <1>1, <1>2, <1>3, <1>4, <1>5 DEF Kind

\* The steps that touch the pumps.
LEMMA PumpSteps ==
  ASSUME Kind
  PROVE  \/ UNCHANGED <<recvReg, dgReg, clobbered>>
         \/ \E t \in Thread : Register(t) \/ Unregister(t)
         \/ UNCHANGED <<recvReg, dgReg>> /\ (\E g \in Gen : Disconnect(g))
  <1>1. ASSUME NEW t \in Thread,
               \/ Quiet(t) \/ Stores(t) \/ BindReq(t) \/ ListenReq(t) \/ Discard(t) \/ Destroy(t)
               \/ (\E g \in Gen : SocketReq(t, g) \/ CloseReq(t, g)) \/ (\E f \in Fd : Bind(t, f))
               \/ (\E c \in Handle, f \in Fd : TakeChild(t, c, f))
        PROVE  UNCHANGED <<recvReg, dgReg, clobbered>>
    BY <1>1 DEF Quiet, WorldQuiet, Stores, BindReq, ListenReq, Discard, Destroy, SocketReq, CloseReq, Bind,
                TakeChild, history, otherHistory
  <1>2. ASSUME \/ \E f \in Fd, dgram \in BOOLEAN : Socket(f, dgram)
               \/ \E g \in Gen, l \in Handle : Incoming(g, l)
               \/ \E g \in Gen : Shut(g)
        PROVE  UNCHANGED <<recvReg, dgReg, clobbered>>
    BY <1>2 DEF Socket, Incoming, Shut, history, otherHistory
  <1>3. \A g \in Gen : Disconnect(g) => UNCHANGED <<recvReg, dgReg>>
    BY DEF Disconnect
  <1> QED
    BY <1>1, <1>2, <1>3 DEF Kind

\* Every step keeps Entries.
LEMMA EntriesStep ==
  ASSUME TypeOK, TypeOK', Threads, Entries, Exclusive, TableAssumption, Kind
  PROVE  Entries'
  <1>0. ASSUME NEW reg \in Reg, NEW h \in Handle, EntryOK(reg, h)
        PROVE  /\ reg.fd = None <=> reg.gen = None
               /\ reg.gen # None => h <= given'[reg.gen]
    <2>1. reg.gen # None => reg.gen \in Gen
      BY DEF Reg
    <2>2. reg.gen # None => given[reg.gen] <= given'[reg.gen] /\ given[reg.gen] \in Int
                            /\ given'[reg.gen] \in Int /\ h \in Int
      <3>1. \A g \in Gen : given[g] <= given'[g]
        BY GivenGrows
      <3>2. \A g \in Gen : given[g] \in Int /\ given'[g] \in Int
        BY DEF TypeOK
      <3>3. h \in Int
        BY DEF Handle
      <3> QED
        BY <2>1, <3>1, <3>2, <3>3
    <2> QED
      BY <1>0, <2>2 DEF EntryOK
  <1>1. ASSUME NEW h \in Handle
        PROVE  /\ recvReg[h] \in Reg /\ dgReg[h] \in Reg
               /\ EntryOK(recvReg[h], h) /\ EntryOK(dgReg[h], h)
    BY DEF TypeOK, Entries
  <1>2. CASE UNCHANGED <<recvReg, dgReg>>
    BY <1>0, <1>1, <1>2 DEF Entries, EntryOK
  <1>3. ASSUME NEW t \in Thread, Register(t) PROVE Entries'
    <2>1. /\ pc[t] = "register"
          /\ \/ UNCHANGED dgReg /\ Put(recvReg, recvReg', me[t].handle, Entry(t))
             \/ UNCHANGED recvReg /\ Put(dgReg, dgReg', me[t].handle, Entry(t))
      BY <1>3, RegisterEffect
    <2>2. me[t].gen \in Gen /\ me[t].handle \in Handle /\ me[t].fd \in Fd
      BY <2>1, Carried DEF Carries
    <2>3. Entry(t) \in Reg /\ Entry(t).fd = me[t].fd /\ Entry(t).gen = me[t].gen
      BY <2>1, EntryMade
    <2>4. me[t].handle <= given[me[t].gen]
      <3>1. Knows(t, me[t].gen, me[t].handle)
        BY <2>1 DEF Knows
      <3> QED
        BY <2>2, <3>1 DEF Exclusive, Sole
    <2>5. EntryOK(Entry(t), me[t].handle)
      BY <2>2, <2>3, <2>4, Basics DEF EntryOK
    <2>6. ASSUME NEW h \in Handle
          PROVE  /\ recvReg'[h] \in Reg /\ EntryOK(recvReg'[h], h)
                 /\ dgReg'[h] \in Reg /\ EntryOK(dgReg'[h], h)
      BY <1>1, <2>1, <2>3, <2>5 DEF Put
    <2> QED
      BY <1>0, <2>6 DEF Entries, EntryOK
  <1>4. ASSUME NEW t \in Thread, Unregister(t) PROVE Entries'
    <2>1. Put(recvReg, recvReg', me[t].handle, NoEntry) /\ Put(dgReg, dgReg', me[t].handle, NoEntry)
      BY <1>4, UnregisterEffect
    <2>2. ASSUME NEW h \in Handle PROVE EntryOK(NoEntry, h) /\ NoEntry \in Reg
      BY Basics DEF EntryOK, NoEntry
    <2>3. ASSUME NEW h \in Handle
          PROVE  /\ recvReg'[h] \in Reg /\ EntryOK(recvReg'[h], h)
                 /\ dgReg'[h] \in Reg /\ EntryOK(dgReg'[h], h)
      BY <1>1, <2>1, <2>2 DEF Put
    <2> QED
      BY <1>0, <2>3 DEF Entries, EntryOK
  <1> QED
    BY <1>2, <1>3, <1>4, PumpSteps

---------------------------------------------------------------------------
(* What becomes of a thread and of a descriptor in a step.                 *)

\* What a thread may do in a step that is not quiet.
Acts(t) ==
    \/ \E f \in Fd : Bind(t, f)
    \/ \E g \in Gen : SocketReq(t, g) \/ CloseReq(t, g)
    \/ BindReq(t) \/ ListenReq(t) \/ Discard(t) \/ Register(t) \/ Destroy(t) \/ Unregister(t)
    \/ \E c \in Handle, f \in Fd : TakeChild(t, c, f)

\* Thread t does nothing.
Still(t) == pc'[t] = pc[t] /\ me'[t] = me[t]

\* A step is of one thread, or of none and then no thread notices it.
LEMMA ThreadFate ==
  ASSUME TypeOK, Threads, TableAssumption, Kind, NEW t \in Thread
  PROVE  Still(t) \/ Quiet(t) \/ Stores(t) \/ Acts(t)
  <1>1. ASSUME NEW u \in Thread, Quiet(u) \/ Stores(u) PROVE Only(u)
    BY <1>1 DEF Quiet, Stores
  <1>2. ASSUME NEW u \in Thread, NEW f \in Fd, Bind(u, f) PROVE Only(u)
    <2>1. Started(u, f) \/ UNCHANGED <<pc, me>>
      BY <1>2, BindEffect
    <2> QED
      BY <2>1 DEF Started, Only
  <1>3. ASSUME NEW u \in Thread, NEW g \in Gen, SocketReq(u, g) \/ CloseReq(u, g) PROVE Only(u)
    BY <1>3, SocketReqEffect, CloseReqEffect
  <1>4. ASSUME NEW u \in Thread,
               BindReq(u) \/ ListenReq(u) \/ Discard(u) \/ Register(u) \/ Destroy(u) \/ Unregister(u)
        PROVE  Only(u)
    BY <1>4, BindReqEffect, ListenReqEffect, DiscardEffect, RegisterEffect, DestroyEffect, UnregisterEffect
  <1>5. ASSUME NEW u \in Thread, NEW c \in Handle, NEW f \in Fd, TakeChild(u, c, f) PROVE Only(u)
    <2>1. Adopted(u, c, f)
      BY <1>5, TakeChildEffect
    <2> QED
      BY <2>1 DEF Adopted
  <1>6. /\ \A f \in Fd, dgram \in BOOLEAN : Socket(f, dgram) => UNCHANGED <<pc, me>>
        /\ \A g \in Gen, l \in Handle : Incoming(g, l) => UNCHANGED <<pc, me>>
        /\ \A g \in Gen : Disconnect(g) \/ Shut(g) => UNCHANGED <<pc, me>>
    <2>1. \A f \in Fd, dgram \in BOOLEAN : Socket(f, dgram) => UNCHANGED <<pc, me>>
      BY DEF Socket
    <2>2. \A g \in Gen, l \in Handle : Incoming(g, l) => UNCHANGED <<pc, me>>
      BY DEF Incoming
    <2>3. \A g \in Gen : Disconnect(g) \/ Shut(g) => UNCHANGED <<pc, me>>
      BY DEF Disconnect, Shut
    <2> QED
      BY <2>1, <2>2, <2>3
  <1>7. \A u \in Thread : Only(u) => u = t \/ Still(t)
    BY DEF Only, Still
  <1>8. UNCHANGED <<pc, me>> => Still(t)
    BY DEF Still
  <1> QED
    BY <1>1, <1>2, <1>3, <1>4, <1>5, <1>6, <1>7, <1>8 DEF Kind, Acts

\* A row changes in one of five ways.
Opens(f) == /\ tab[f].st = "free" /\ tab'[f].st = "open" /\ tab'[f].handle = None
            /\ UNCHANGED outside /\ UNCHANGED <<pc, me>>
Named(f) == /\ tab'[f].st = tab[f].st /\ tab'[f].dgram = tab[f].dgram
            /\ tab'[f].handle = tab[f].handle /\ tab'[f].gen = tab[f].gen
Closes(t, f) == /\ pc[t] = "destroy" /\ me[t].fd = f /\ IsOpen(f) /\ tab'[f].st = "closed"
                /\ tab'[f].handle = tab[f].handle /\ tab'[f].gen = tab[f].gen
                /\ UNCHANGED outside /\ UNCHANGED raced
                /\ \/ tab[f].handle = None
                   \/ pc'[t] = "unregister" /\ me'[t].op = "close" /\ me'[t].fd = f

\* What a step may do to a row.
LEMMA RowFate ==
  ASSUME TypeOK, Threads, TableAssumption, Kind, NEW f \in Fd
  PROVE  \/ tab'[f] = tab[f]
         \/ Opens(f)
         \/ Named(f)
         \/ \E t \in Thread : Stores(t) /\ me[t].fd = f
         \/ \E t \in Thread : Closes(t, f)
         \/ \E t \in Thread, c \in Handle : Adopted(t, c, f)
  <1>1. ASSUME NEW t \in Thread, Quiet(t) PROVE tab'[f] = tab[f]
    BY <1>1 DEF Quiet, WorldQuiet
  <1>2. ASSUME NEW t \in Thread, Stores(t), me[t].fd # f PROVE tab'[f] = tab[f]
    BY <1>2 DEF Stores, Stored, OnlyRow
  <1>3. ASSUME NEW e \in Fd, NEW dgram \in BOOLEAN, Socket(e, dgram)
        PROVE  tab'[f] = tab[f] \/ Opens(f)
    <2>1. /\ tab[e].st = "free" /\ UNCHANGED outside /\ OnlyRow(e) /\ UNCHANGED <<pc, me>>
          /\ tab'[e].st = "open" /\ tab'[e].handle = None
      BY <1>3, SocketEffect
    <2> QED
      BY <2>1 DEF OnlyRow, Opens
  <1>4. ASSUME NEW t \in Thread, NEW e \in Fd, Bind(t, e) PROVE tab'[f] = tab[f] \/ Named(f)
    <2>1. /\ OnlyRow(e)
          /\ tab'[e].st = tab[e].st /\ tab'[e].dgram = tab[e].dgram
          /\ tab'[e].handle = tab[e].handle /\ tab'[e].gen = tab[e].gen
      BY <1>4, BindEffect
    <2> QED
      BY <2>1 DEF OnlyRow, Named
  <1>5. ASSUME NEW t \in Thread, NEW g \in Gen, SocketReq(t, g) \/ CloseReq(t, g) PROVE tab' = tab
    BY <1>5 DEF SocketReq, CloseReq
  <1>6. ASSUME NEW t \in Thread, BindReq(t) \/ ListenReq(t) \/ Discard(t) \/ Register(t) \/ Unregister(t)
        PROVE  tab' = tab
    BY <1>6 DEF BindReq, ListenReq, Discard, Register, Unregister
  <1>7. ASSUME NEW t \in Thread, Destroy(t) PROVE tab'[f] = tab[f] \/ Closes(t, f)
    <2>0. /\ pc[t] = "destroy" /\ UNCHANGED outside /\ UNCHANGED raced
          /\ \/ UNCHANGED tab
             \/ /\ IsOpen(me[t].fd) /\ OnlyRow(me[t].fd) /\ tab'[me[t].fd].st = "closed"
                /\ tab'[me[t].fd].handle = tab[me[t].fd].handle
                /\ tab'[me[t].fd].gen = tab[me[t].fd].gen
                /\ \/ tab[me[t].fd].handle = None
                   \/ pc'[t] = "unregister" /\ me'[t].op = me[t].op /\ me'[t].fd = me[t].fd
      BY <1>7, DestroyEffect
    <2>1. me[t].op = "close"
      BY <2>0 DEF Threads, ThreadOK
    <2> QED
      BY <2>0, <2>1 DEF OnlyRow, Closes
  <1>8. ASSUME NEW g \in Gen, Disconnect(g) \/ Shut(g) \/ (\E l \in Handle : Incoming(g, l)) PROVE tab' = tab
    BY <1>8 DEF Disconnect, Shut, Incoming
  <1>9. ASSUME NEW t \in Thread, NEW c \in Handle, NEW e \in Fd, TakeChild(t, c, e)
        PROVE  tab'[f] = tab[f] \/ Adopted(t, c, f)
    <2>1. Adopted(t, c, e)
      BY <1>9, TakeChildEffect
    <2>2. e # f => tab'[f] = tab[f]
      BY <2>1 DEF Adopted, OnlyRow
    <2> QED
      BY <2>1, <2>2
  <1> QED
    BY <1>1, <1>2, <1>3, <1>4, <1>5, <1>6, <1>7, <1>8, <1>9 DEF Kind

---------------------------------------------------------------------------
(* Calls that overlap with a close().                                      *)

\* Nothing that Races is about changes: calls end or go on with what they had,
\* on rows that are open as before and keep the handle a close() looks at.
CallsGoOn ==
    /\ raced \subseteq raced'
    /\ \A t \in Thread : me'[t].fd # None =>
          /\ me'[t].fd = me[t].fd
          /\ me'[t].op = "close" => me[t].op = "close" /\ me'[t].gen = me[t].gen /\ me'[t].handle = me[t].handle
          /\ pc'[t] = "unregister" <=> pc[t] = "unregister"
    /\ \A t \in Thread : me[t].fd # None => (tab'[me[t].fd].st = "open" <=> IsOpen(me[t].fd))

\* A close() that nothing overlaps with finds the handle it read.
RowsHeld ==
    \A t \in Thread : me[t].op = "close" /\ (pc[t] = "unregister" \/ me[t].fd \notin raced)
        => tab'[me[t].fd].handle = tab[me[t].fd].handle /\ tab'[me[t].fd].gen = tab[me[t].fd].gen

\* Steps that keep to CallsGoOn and RowsHeld keep Races.
LEMMA RaceFrame ==
  ASSUME Threads', Races, CallsGoOn, RowsHeld
  PROVE  Races'
  <1>1. ASSUME NEW t \in Thread, NEW u \in Thread, t # u, me'[t].fd = me'[u].fd, me'[t].fd # None,
               me'[t].op = "close"
        PROVE  me'[t].fd \in raced'
    BY <1>1 DEF Races, CallsGoOn
  <1>2. ASSUME NEW t \in Thread, me'[t].fd # None, pc'[t] # "unregister", tab'[me'[t].fd].st # "open"
        PROVE  me'[t].fd \in raced'
    <2>1. me'[t].fd = me[t].fd /\ pc[t] # "unregister" /\ ~IsOpen(me[t].fd)
      BY <1>2 DEF CallsGoOn, IsOpen
    <2> QED
      BY <1>2, <2>1 DEF Races, CallsGoOn
  <1>3. ASSUME NEW t \in Thread, me'[t].op = "close", pc'[t] = "unregister" \/ me'[t].fd \notin raced'
        PROVE  tab'[me'[t].fd].gen = me'[t].gen /\ tab'[me'[t].fd].handle = me'[t].handle
    <2>1. me'[t].fd # None
      BY <1>3 DEF Threads, ThreadOK
    <2>2. /\ me'[t].fd = me[t].fd /\ me[t].op = "close" /\ me'[t].gen = me[t].gen
          /\ me'[t].handle = me[t].handle /\ (pc[t] = "unregister" \/ me[t].fd \notin raced)
      BY <1>3, <2>1 DEF CallsGoOn
    <2>3. Has(me[t].fd, me[t].gen, me[t].handle)
      BY <2>2 DEF Races
    <2> QED
      BY <2>2, <2>3 DEF RowsHeld, Has
  <1>4. ASSUME NEW t \in Thread, pc'[t] = "unregister" PROVE tab'[me'[t].fd].st # "open"
    <2>1. me'[t].fd # None
      BY <1>4 DEF Threads, ThreadOK
    <2>2. me'[t].fd = me[t].fd /\ pc[t] = "unregister"
      BY <1>4, <2>1 DEF CallsGoOn
    <2> QED
      BY <2>1, <2>2 DEF CallsGoOn, Races, IsOpen
  <1> QED
    BY <1>1, <1>2, <1>3, <1>4 DEF Races, Has, IsOpen

\* A call begins.
LEMMA RaceStarted ==
  ASSUME TypeOK, TypeOK', Threads', Races, TableAssumption, NEW t \in Thread, NEW f \in Fd, Started(t, f),
         \A e \in Fd : /\ tab'[e].st = tab[e].st
                       /\ tab'[e].handle = tab[e].handle /\ tab'[e].gen = tab[e].gen
  PROVE  Races'
  <1>1. /\ IsOpen(f) /\ Only(t) /\ me'[t].fd = f /\ raced \subseteq raced' /\ pc'[t] # "unregister"
        /\ me'[t].op = "close" => me'[t].gen = tab[f].gen /\ me'[t].handle = tab[f].handle
        /\ \A u \in Thread : me[u].fd = f /\ (me'[t].op = "close" \/ me[u].op = "close") => f \in raced'
    BY DEF Started
  <1>2. \A u \in Thread : me[u].fd # None => me[u].fd \in Fd
    BY DEF TypeOK
  <1>3. ASSUME NEW u \in Thread, NEW v \in Thread, u # v, me'[u].fd = me'[v].fd, me'[u].fd # None,
               me'[u].op = "close"
        PROVE  me'[u].fd \in raced'
    <2>1. CASE u = t
      BY <1>1, <1>3, <2>1 DEF Only
    <2>2. CASE v = t
      BY <1>1, <1>3, <2>2 DEF Only
    <2>3. CASE u # t /\ v # t
      BY <1>1, <1>3, <2>3 DEF Only, Races
    <2> QED
      BY <2>1, <2>2, <2>3
  <1>4. ASSUME NEW u \in Thread, me'[u].fd # None, pc'[u] # "unregister", tab'[me'[u].fd].st # "open"
        PROVE  me'[u].fd \in raced'
    <2>1. u # t
      BY <1>1, <1>4 DEF IsOpen
    <2>2. me'[u] = me[u] /\ pc'[u] = pc[u]
      BY <1>1, <2>1 DEF Only
    <2>3. ~IsOpen(me[u].fd)
      BY <1>2, <1>4, <2>2 DEF IsOpen
    <2> QED
      BY <1>1, <1>4, <2>2, <2>3 DEF Races
  <1>5. ASSUME NEW u \in Thread, me'[u].op = "close", pc'[u] = "unregister" \/ me'[u].fd \notin raced'
        PROVE  tab'[me'[u].fd].gen = me'[u].gen /\ tab'[me'[u].fd].handle = me'[u].handle
    <2>1. CASE u = t
      BY <1>1, <1>5, <2>1 DEF Has
    <2>2. CASE u # t
      <3>1. me'[u] = me[u] /\ pc'[u] = pc[u]
        BY <1>1, <2>2 DEF Only
      <3>2. me'[u].fd # None
        BY <1>5 DEF Threads, ThreadOK
      <3>3. me[u].fd \in Fd /\ Has(me[u].fd, me[u].gen, me[u].handle)
        BY <1>1, <1>2, <1>5, <3>1, <3>2 DEF Races
      <3> QED
        BY <3>1, <3>3 DEF Has
    <2> QED
      BY <2>1, <2>2
  <1>6. ASSUME NEW u \in Thread, pc'[u] = "unregister" PROVE tab'[me'[u].fd].st # "open"
    <2>1. u # t /\ me'[u].fd # None
      BY <1>1, <1>6 DEF Threads, ThreadOK
    <2>2. me'[u] = me[u] /\ pc'[u] = pc[u]
      BY <1>1, <2>1 DEF Only
    <2>3. me[u].fd \in Fd /\ ~IsOpen(me[u].fd)
      BY <1>2, <1>6, <2>1, <2>2 DEF Races
    <2> QED
      BY <2>2, <2>3 DEF IsOpen
  <1> QED
    BY <1>3, <1>4, <1>5, <1>6 DEF Races, Has, IsOpen

\* Every step keeps Races: a call that begins on a descriptor being closed, and
\* a close() that begins on a busy one, mark it.
LEMMA RacesStep ==
  ASSUME TypeOK, TypeOK', Threads, Threads', Races, TableAssumption, Kind
  PROVE  Races'
  <1>0. /\ \A t \in Thread : me[t].fd # None => me[t].fd \in Fd /\ tab[me[t].fd].st # "free"
        /\ \A t \in Thread : me[t].op = "close" => me[t].fd # None
    BY DEF TypeOK, Threads, ThreadOK
  \* One thread goes on, and the table stays.
  <1>1. ASSUME NEW t \in Thread, Only(t), UNCHANGED tab, raced \subseteq raced',
               \/ me'[t].fd = None
               \/ /\ me'[t].fd = me[t].fd
                  /\ me'[t].op = "close" => /\ me[t].op = "close" /\ me'[t].gen = me[t].gen
                                            /\ me'[t].handle = me[t].handle
                  /\ pc'[t] = "unregister" <=> pc[t] = "unregister"
        PROVE  Races'
    <2>1. CallsGoOn
      BY <1>1 DEF CallsGoOn, Only, IsOpen
    <2>2. RowsHeld
      BY <1>1 DEF RowsHeld
    <2> QED
      BY <2>1, <2>2, RaceFrame
  <1>2. ASSUME NEW t \in Thread, Quiet(t) PROVE Races'
    <2>1. Only(t) /\ UNCHANGED tab /\ raced \subseteq raced' /\ ThreadQuiet(t)
      BY <1>2 DEF Quiet, WorldQuiet
    <2>2. CASE pc[t] = "idle" /\ me'[t].fd # None
      <3>1. Started(t, me'[t].fd)
        BY <2>1, <2>2 DEF ThreadQuiet
      <3>2. PICK f \in Fd : f = me'[t].fd
        BY <2>2 DEF TypeOK
      <3> QED
        BY <2>1, <3>1, <3>2, RaceStarted
    <2>3. CASE pc[t] # "idle" \/ me'[t].fd = None
      <3>1. /\ me'[t].fd \in {None, me[t].fd}
            /\ me'[t].op = "close" => me[t].op = "close" \/ pc[t] = "idle"
            /\ me[t].op = "close" => me'[t] = me[t]
            /\ pc'[t] # "unregister" /\ pc[t] # "unregister"
        BY <2>1, <2>3 DEF ThreadQuiet
      <3>2. me'[t].op = "close" => me'[t].fd # None
        BY DEF Threads, ThreadOK
      <3> QED
        BY <1>1, <2>1, <2>3, <3>1, <3>2
    <2> QED
      BY <2>2, <2>3
  <1>3. ASSUME NEW t \in Thread, Stores(t) PROVE Races'
    <2>1. /\ pc[t] = "store" /\ Only(t) /\ UNCHANGED raced
          /\ IsOpen(me[t].fd) /\ OnlyRow(me[t].fd) /\ tab'[me[t].fd].st = "open"
          /\ Returned(t) \/ (pc'[t] = "register" /\ me'[t] = me[t])
      BY <1>3 DEF Stores, Stored
    <2>2. me[t].op # "close"
      BY <2>1 DEF Threads, ThreadOK
    <2>3. CallsGoOn
      <3>1. ASSUME NEW u \in Thread, me[u].fd # None
            PROVE  tab'[me[u].fd].st = "open" <=> IsOpen(me[u].fd)
        BY <1>0, <2>1, <3>1 DEF OnlyRow, IsOpen
      <3> QED
        BY <2>1, <3>1 DEF CallsGoOn, Only, Returned
    <2>4. RowsHeld
      <3>1. ASSUME NEW u \in Thread, me[u].op = "close", pc[u] = "unregister" \/ me[u].fd \notin raced
            PROVE  me[u].fd \in Fd /\ me[u].fd # me[t].fd
        <4>1. me[u].fd # None /\ me[u].fd \in Fd /\ u # t
          BY <1>0, <2>2, <3>1
        <4>2. CASE pc[u] = "unregister"
          BY <2>1, <4>1, <4>2 DEF Races
        <4>3. CASE me[u].fd \notin raced
          BY <3>1, <4>1, <4>3 DEF Races
        <4> QED
          BY <3>1, <4>2, <4>3, <4>1
      <3> QED
        BY <2>1, <3>1 DEF RowsHeld, OnlyRow
    <2> QED
      BY <2>3, <2>4, RaceFrame
  <1>4. ASSUME NEW f \in Fd, NEW dgram \in BOOLEAN, Socket(f, dgram) PROVE Races'
    <2>1. OnlyRow(f) /\ tab[f].st = "free" /\ UNCHANGED <<pc, me, raced>>
      BY <1>4, SocketEffect
    <2>2. \A t \in Thread : me[t].fd # None => tab'[me[t].fd] = tab[me[t].fd]
      BY <1>0, <2>1 DEF OnlyRow
    <2>3. CallsGoOn
      BY <2>1, <2>2 DEF CallsGoOn, IsOpen
    <2>4. RowsHeld
      BY <1>0, <2>2 DEF RowsHeld
    <2> QED
      BY <2>3, <2>4, RaceFrame
  <1>5. ASSUME NEW t \in Thread, NEW f \in Fd, Bind(t, f) PROVE Races'
    <2>1. /\ OnlyRow(f) /\ tab'[f].st = tab[f].st
          /\ tab'[f].handle = tab[f].handle /\ tab'[f].gen = tab[f].gen
          /\ Started(t, f) \/ UNCHANGED <<pc, me, raced>>
      BY <1>5, BindEffect
    <2>2. \A e \in Fd : /\ tab'[e].st = tab[e].st
                        /\ tab'[e].handle = tab[e].handle /\ tab'[e].gen = tab[e].gen
      BY <2>1 DEF OnlyRow
    <2>3. CASE Started(t, f)
      BY <2>2, <2>3, RaceStarted
    <2>4. CASE UNCHANGED <<pc, me, raced>>
      <3>1. CallsGoOn
        BY <1>0, <2>2, <2>4 DEF CallsGoOn, IsOpen
      <3>2. RowsHeld
        BY <1>0, <2>2 DEF RowsHeld
      <3> QED
        BY <3>1, <3>2, RaceFrame
    <2> QED
      BY <2>1, <2>3, <2>4
  <1>6. ASSUME NEW t \in Thread, NEW g \in Gen, SocketReq(t, g) PROVE Races'
    <2>1. /\ Only(t) /\ UNCHANGED <<tab, raced>> /\ me'[t].fd = me[t].fd /\ me'[t].op = me[t].op
          /\ pc[t] = "ensure" /\ pc'[t] \in {"bindReq", "store"} /\ Asks(t)
      BY <1>6, SocketReqEffect
    <2> QED
      BY <1>1, <2>1 DEF Asks
  <1>7. ASSUME NEW t \in Thread, NEW g \in Gen, CloseReq(t, g) PROVE Races'
    <2>1. /\ Only(t) /\ UNCHANGED <<tab, raced>> /\ me'[t] = me[t]
          /\ pc[t] = "ensure" /\ pc'[t] = "destroy"
      BY <1>7, CloseReqEffect
    <2> QED
      BY <1>1, <2>1
  <1>8. ASSUME NEW t \in Thread, BindReq(t) \/ ListenReq(t) PROVE Races'
    <2>1. /\ Only(t) /\ UNCHANGED <<tab, raced>> /\ me'[t] = me[t]
          /\ pc[t] \in {"bindReq", "listenReq"} /\ pc'[t] \in {"listenReq", "store"}
      BY <1>8, BindReqEffect, ListenReqEffect
    <2> QED
      BY <1>1, <2>1
  <1>9. ASSUME NEW t \in Thread, Discard(t) \/ Register(t) PROVE Races'
    <2>1. /\ Only(t) /\ UNCHANGED <<tab, raced>> /\ pc[t] \in {"discard", "register"}
          /\ \/ Returned(t) \/ (\E n \in Handle : Continues(t, n))
             \/ me[t].op \in {"connect", "child"} /\ pc'[t] = "link" /\ me'[t] = me[t]
      <3>1. CASE Discard(t)
        BY <3>1, DiscardEffect DEF Continues
      <3>2. CASE Register(t)
        BY <3>2, RegisterEffect DEF Continues
      <3> QED
        BY <1>9, <3>1, <3>2
    <2>2. \/ me'[t].fd = None \/ (me'[t].fd = me[t].fd /\ me'[t].op = "send" /\ pc'[t] = "ensure")
          \/ me'[t].fd = me[t].fd /\ me'[t].op \in {"connect", "child"} /\ pc'[t] = "link"
      BY <2>1 DEF Returned, Continues
    <2> QED
      BY <1>1, <2>1, <2>2
  <1>10. ASSUME NEW t \in Thread, Unregister(t) PROVE Races'
    <2>1. Only(t) /\ UNCHANGED <<tab, raced>> /\ Returned(t)
      BY <1>10, UnregisterEffect
    <2> QED
      BY <1>1, <2>1 DEF Returned
  <1>11. ASSUME NEW g \in Gen, Disconnect(g) \/ Shut(g) \/ (\E l \in Handle : Incoming(g, l)) PROVE Races'
    <2>1. UNCHANGED <<tab, pc, me, raced>>
      BY <1>11 DEF Disconnect, Shut, Incoming, history
    <2>2. CallsGoOn /\ RowsHeld
      BY <2>1 DEF CallsGoOn, RowsHeld, IsOpen
    <2> QED
      BY <2>2, RaceFrame
  <1>12. ASSUME NEW t \in Thread, Destroy(t) PROVE Races'
    <2>0. pc[t] = "destroy" /\ Only(t) /\ UNCHANGED raced
      BY <1>12, DestroyEffect
    <2>1. me[t].op = "close" /\ me[t].fd # None
      BY <2>0 DEF Threads, ThreadOK
    <2>2. PICK f \in Fd : f = me[t].fd
      BY <1>0, <2>1
    <2>3. \/ UNCHANGED tab /\ Returned(t)
          \/ /\ OnlyRow(f) /\ tab'[f].st = "closed" /\ tab'[f].handle = tab[f].handle
             /\ tab'[f].gen = tab[f].gen /\ IsOpen(f)
             /\ \/ Returned(t)
                \/ /\ pc'[t] = "unregister" /\ me'[t].fd = f
                   /\ me'[t].handle = tab[f].handle /\ me'[t].gen = tab[f].gen
      BY <1>12, <2>2, DestroyEffect
    <2>4. CASE UNCHANGED tab /\ Returned(t)
      BY <1>1, <2>0, <2>4 DEF Returned
    <2>5. CASE /\ OnlyRow(f) /\ tab'[f].st = "closed" /\ tab'[f].handle = tab[f].handle
               /\ tab'[f].gen = tab[f].gen /\ IsOpen(f)
               /\ \/ Returned(t)
                  \/ /\ pc'[t] = "unregister" /\ me'[t].fd = f
                     /\ me'[t].handle = tab[f].handle /\ me'[t].gen = tab[f].gen
      <3>1. ASSUME NEW u \in Thread, u # t
            PROVE  /\ pc'[u] = pc[u] /\ me'[u] = me[u]
                   /\ me[u].fd = f => f \in raced
        BY <2>0, <2>1, <2>2, <3>1 DEF Only, Races
      <3>2. me'[t].fd = None \/ (me'[t].fd = f /\ pc'[t] = "unregister")
        BY <2>5 DEF Returned
      <3>3. \A e \in Fd : /\ tab'[e].handle = tab[e].handle /\ tab'[e].gen = tab[e].gen
                          /\ e # f => tab'[e].st = tab[e].st
        BY <2>5 DEF OnlyRow
      <3>4. ASSUME NEW u \in Thread, NEW v \in Thread, u # v, me'[u].fd = me'[v].fd, me'[u].fd # None,
                   me'[u].op = "close"
            PROVE  me'[u].fd \in raced'
        <4>1. CASE u = t
          BY <2>0, <3>1, <3>2, <3>4, <4>1
        <4>2. CASE v = t
          BY <2>0, <3>1, <3>2, <3>4, <4>2
        <4>3. CASE u # t /\ v # t
          BY <2>0, <3>1, <3>4, <4>3 DEF Races
        <4> QED
          BY <4>1, <4>2, <4>3
      <3>5. ASSUME NEW u \in Thread, me'[u].fd # None, pc'[u] # "unregister", tab'[me'[u].fd].st # "open"
            PROVE  me'[u].fd \in raced'
        <4>1. u # t
          BY <3>2, <3>5
        <4>2. me'[u] = me[u] /\ pc'[u] = pc[u] /\ me[u].fd \in Fd
          BY <1>0, <3>1, <3>5, <4>1
        <4>3. CASE me[u].fd = f
          BY <2>0, <3>1, <4>1, <4>2, <4>3
        <4>4. CASE me[u].fd # f
          BY <2>0, <3>3, <3>5, <4>2, <4>4 DEF Races, IsOpen
        <4> QED
          BY <4>3, <4>4
      <3>6. ASSUME NEW u \in Thread, me'[u].op = "close", pc'[u] = "unregister" \/ me'[u].fd \notin raced'
            PROVE  tab'[me'[u].fd].gen = me'[u].gen /\ tab'[me'[u].fd].handle = me'[u].handle
        <4>0. me'[u].fd # None
          BY <3>6 DEF Threads, ThreadOK
        <4>1. CASE u = t
          BY <2>5, <3>2, <4>0, <4>1 DEF Returned
        <4>2. CASE u # t
          <5>1. me'[u] = me[u] /\ pc'[u] = pc[u] /\ me[u].fd \in Fd
            BY <1>0, <3>1, <4>0, <4>2
          <5>2. Has(me[u].fd, me[u].gen, me[u].handle)
            BY <2>0, <3>6, <5>1 DEF Races
          <5> QED
            BY <3>3, <5>1, <5>2 DEF Has
        <4> QED
          BY <4>1, <4>2
      <3>7. ASSUME NEW u \in Thread, pc'[u] = "unregister" PROVE tab'[me'[u].fd].st # "open"
        <4>0. me'[u].fd # None
          BY <3>7 DEF Threads, ThreadOK
        <4>1. CASE u = t
          BY <2>5, <3>2, <4>0, <4>1
        <4>2. CASE u # t
          <5>1. me'[u] = me[u] /\ pc'[u] = pc[u] /\ me[u].fd \in Fd
            BY <1>0, <3>1, <4>0, <4>2
          <5>2. ~IsOpen(me[u].fd)
            BY <3>7, <5>1 DEF Races
          <5> QED
            BY <2>5, <3>3, <5>1, <5>2 DEF IsOpen
        <4> QED
          BY <4>1, <4>2
      <3> QED
        BY <3>4, <3>5, <3>6, <3>7 DEF Races, Has, IsOpen
    <2> QED
      BY <2>3, <2>4, <2>5
  <1>13. ASSUME NEW t \in Thread, NEW c \in Handle, NEW f \in Fd, TakeChild(t, c, f) PROVE Races'
    <2>0. Adopted(t, c, f)
      BY <1>13, TakeChildEffect
    <2>1. /\ tab[f].st = "free" /\ OnlyRow(f) /\ tab'[f].st = "open" /\ Only(t) /\ UNCHANGED raced
          /\ me'[t].op = "child" /\ me'[t].fd = f /\ pc'[t] = "register"
      BY <2>0 DEF Adopted
    <2>2. ASSUME NEW u \in Thread, u # t
          PROVE  /\ pc'[u] = pc[u] /\ me'[u] = me[u]
                 /\ me[u].fd # None => me[u].fd # f /\ tab'[me[u].fd] = tab[me[u].fd]
      BY <1>0, <2>1, <2>2 DEF Only, OnlyRow
    <2>3. ASSUME NEW u \in Thread, NEW v \in Thread, u # v, me'[u].fd = me'[v].fd, me'[u].fd # None,
                 me'[u].op = "close"
          PROVE  me'[u].fd \in raced'
      <3>1. u # t
        BY <2>1, <2>3
      <3>2. v # t
        BY <2>1, <2>2, <2>3, <3>1
      <3> QED
        BY <2>1, <2>2, <2>3, <3>1, <3>2 DEF Races
    <2>4. ASSUME NEW u \in Thread, me'[u].fd # None, pc'[u] # "unregister", tab'[me'[u].fd].st # "open"
          PROVE  me'[u].fd \in raced'
      BY <2>1, <2>2, <2>4 DEF Races, IsOpen
    <2>5. ASSUME NEW u \in Thread, me'[u].op = "close", pc'[u] = "unregister" \/ me'[u].fd \notin raced'
          PROVE  tab'[me'[u].fd].gen = me'[u].gen /\ tab'[me'[u].fd].handle = me'[u].handle
      <3>1. u # t
        BY <2>1, <2>5
      <3>2. me[u].fd # None /\ me[u].op = "close" /\ (pc[u] = "unregister" \/ me[u].fd \notin raced)
        BY <1>0, <2>1, <2>2, <2>5, <3>1
      <3> QED
        BY <2>2, <3>1, <3>2 DEF Races, Has
    <2>6. ASSUME NEW u \in Thread, pc'[u] = "unregister" PROVE tab'[me'[u].fd].st # "open"
      <3>1. u # t
        BY <2>1, <2>6
      <3>2. me[u].fd # None /\ pc[u] = "unregister"
        BY <2>2, <2>6, <3>1 DEF Threads, ThreadOK
      <3> QED
        BY <2>2, <3>1, <3>2 DEF Races, IsOpen
    <2> QED
      BY <2>3, <2>4, <2>5, <2>6 DEF Races, Has, IsOpen
  <1> QED
    BY <1>2, <1>3, <1>4, <1>5, <1>6, <1>7, <1>8, <1>9, <1>10, <1>11, <1>12, <1>13 DEF Kind

---------------------------------------------------------------------------
(* What the engine keeps.                                                  *)

\* Somebody gives handle h of session g back: the call that could not use it, or
\* the close() of its descriptor.
Lost(g, h) ==
    \/ \E t \in Thread : pc[t] = "discard" /\ Owns(t, g, h)
    \/ \E t \in Thread : me[t].op = "close" /\ Knows(t, g, h) /\ me'[t] = me[t]

\* A handle the engine has or listens on stays so unless it is given
\* back, or gone.
Keeps(g, h) ==
    /\ given[g] > 0 /\ Gone(g, h) => Gone(g, h)'
    /\ h \in engine[g] => h \in engine'[g] \/ Gone(g, h)' \/ Lost(g, h)
    /\ h \in listening[g] => h \in listening'[g] \/ Gone(g, h)' \/ Lost(g, h)

\* The steps that take nothing from the engine.
LEMMA KeepsFrame ==
  ASSUME TypeOK, Sessions, NEW g \in Gen, NEW h \in Handle,
         SessionsMove, UNCHANGED stolen,
         engine[g] \subseteq engine'[g], listening[g] \subseteq listening'[g]
  PROVE  Keeps(g, h)
  <1>1. given[g] > 0 => (IsClosed(g)' <=> IsClosed(g))
    BY UpKept
  <1>2. given[g] > 0 /\ Gone(g, h) => Gone(g, h)'
    BY <1>1 DEF Gone
  <1> QED
    BY <1>2 DEF Keeps

\* No step takes a handle from the engine except by giving it back, by ending
\* the session, or by a close() through a stale number, which is reported as
\* stolen.
LEMMA EngineStep ==
  ASSUME TypeOK, Threads, Sessions, Exclusive, TableAssumption, Kind, NEW g \in Gen, NEW h \in Handle
  PROVE  Keeps(g, h)
  <1>1. ASSUME NEW t \in Thread, Quiet(t) PROVE Keeps(g, h)
    <2>1. /\ SessionsMove /\ UNCHANGED stolen /\ engine[g] \subseteq engine'[g]
          /\ UNCHANGED <<listening>>
      BY <1>1 DEF Quiet, WorldQuiet
    <2> QED
      BY <2>1, KeepsFrame
  <1>2. ASSUME UNCHANGED <<client, rd, engine, given, listening, stolen>> PROVE Keeps(g, h)
    <2>1. SessionsMove
      BY <1>2, NoMove
    <2> QED
      BY <1>2, <2>1, KeepsFrame
  <1>3. ASSUME NEW t \in Thread, Stores(t) \/ Register(t) \/ Destroy(t) \/ Unregister(t)
        PROVE  Keeps(g, h)
    <2>1. CASE Stores(t)
      BY <1>2, <2>1 DEF Stores
    <2>2. CASE Register(t)
      BY <1>2, <2>2, RegisterEffect
    <2>3. CASE Destroy(t)
      BY <1>2, <2>3, DestroyEffect DEF outside
    <2>4. CASE Unregister(t)
      BY <1>2, <2>4, UnregisterEffect
    <2> QED
      BY <1>3, <2>1, <2>2, <2>3, <2>4
  <1>4. ASSUME NEW f \in Fd, NEW dgram \in BOOLEAN, Socket(f, dgram) PROVE Keeps(g, h)
    BY <1>2, <1>4, SocketEffect DEF outside
  <1>5. ASSUME NEW t \in Thread, NEW f \in Fd, Bind(t, f) PROVE Keeps(g, h)
    BY <1>2, <1>5, BindEffect DEF outside
  <1>6. ASSUME NEW t \in Thread, NEW k \in Gen, SocketReq(t, k) PROVE Keeps(g, h)
    <2>1. Granted(k) /\ UNCHANGED <<listening, stolen>>
      BY <1>6, SocketReqEffect
    <2>2. SessionsMove
      BY <1>6, SocketReqMove
    <2>3. engine[g] \subseteq engine'[g]
      BY <2>1 DEF Granted
    <2> QED
      BY <2>1, <2>2, <2>3, KeepsFrame
  <1>7. ASSUME NEW t \in Thread, BindReq(t) PROVE Keeps(g, h)
    BY <1>2, <1>7, BindReqEffect
  <1>8. ASSUME NEW t \in Thread, ListenReq(t) PROVE Keeps(g, h)
    <2>1. /\ UNCHANGED <<client, rd, engine, given, stolen>>
          /\ listening'[me[t].gen] = listening[me[t].gen] \cup {me[t].handle}
          /\ \A k \in Gen : k # me[t].gen => listening'[k] = listening[k]
      BY <1>8, ListenReqEffect
    <2>2. SessionsMove
      BY <2>1, NoMove
    <2>3. listening[g] \subseteq listening'[g]
      BY <2>1
    <2> QED
      BY <2>1, <2>2, <2>3, KeepsFrame
  <1>9. ASSUME NEW t \in Thread, Discard(t) PROVE Keeps(g, h)
    <2>1. /\ pc[t] = "discard" /\ UNCHANGED <<client, rd, given, listening, stolen>>
          /\ Minus(engine, engine', me[t].gen, me[t].handle) \/ UNCHANGED engine
      BY <1>9, DiscardEffect
    <2>2. CASE UNCHANGED engine
      BY <1>2, <2>1, <2>2
    <2>3. CASE Minus(engine, engine', me[t].gen, me[t].handle)
      <3>1. h \in engine[g] => h \in engine'[g] \/ (g = me[t].gen /\ h = me[t].handle)
        BY <2>3 DEF Minus
      <3>2. g = me[t].gen /\ h = me[t].handle => Lost(g, h)
        BY <2>1 DEF Lost, Owns
      <3>3. Gone(g, h) => Gone(g, h)'
        BY <2>1 DEF Gone, IsClosed
      <3> QED
        BY <2>1, <3>1, <3>2, <3>3 DEF Keeps
    <2> QED
      BY <2>1, <2>2, <2>3
  <1>10. ASSUME NEW k \in Gen, NEW l \in Handle, Incoming(k, l) PROVE Keeps(g, h)
    <2>1. Granted(k) /\ UNCHANGED <<listening, stolen>>
      BY <1>10, IncomingEffect
    <2>2. SessionsMove
      BY <1>10, IncomingMove
    <2>3. engine[g] \subseteq engine'[g]
      BY <2>1 DEF Granted
    <2> QED
      BY <2>1, <2>2, <2>3, KeepsFrame
  <1>11. ASSUME NEW t \in Thread, NEW c \in Handle, NEW f \in Fd, TakeChild(t, c, f) PROVE Keeps(g, h)
    <2>1. Adopted(t, c, f)
      BY <1>11, TakeChildEffect
    <2> QED
      BY <1>2, <2>1 DEF Adopted
  <1>12. ASSUME NEW t \in Thread, NEW k \in Gen, CloseReq(t, k) PROVE Keeps(g, h)
    <2>1. /\ me[t].op = "close" /\ Reached(k) /\ me'[t] = me[t] /\ UNCHANGED given
          /\ \/ /\ Minus(engine, engine', k, me[t].handle)
                /\ Minus(listening, listening', k, me[t].handle)
                /\ stolen' = IF me[t].gen = k THEN stolen ELSE stolen \cup {<<k, me[t].handle>>}
             \/ UNCHANGED <<engine, listening, stolen>>
      BY <1>12, CloseReqEffect
    <2>2. SessionsMove
      BY <2>1, ReachedMove
    <2>3. CASE UNCHANGED <<engine, listening, stolen>>
      BY <2>2, <2>3, KeepsFrame
    <2>4. CASE /\ Minus(engine, engine', k, me[t].handle)
               /\ Minus(listening, listening', k, me[t].handle)
               /\ stolen' = IF me[t].gen = k THEN stolen ELSE stolen \cup {<<k, me[t].handle>>}
      <3>1. CASE g = k /\ h = me[t].handle /\ me[t].gen = k
        <4>1. Lost(g, h)
          BY <2>1, <3>1 DEF Lost, Knows
        <4>2. stolen' = stolen
          BY <2>4, <3>1
        <4>3. given[g] > 0 => (IsClosed(g)' <=> IsClosed(g))
          BY <2>2, UpKept
        <4> QED
          BY <4>1, <4>2, <4>3 DEF Keeps, Gone
      <3>2. CASE g = k /\ h = me[t].handle /\ me[t].gen # k
        <4>1. <<g, h>> \in stolen'
          BY <2>4, <3>2
        <4> QED
          BY <4>1 DEF Keeps, Gone
      <3>3. CASE g # k \/ h # me[t].handle
        <4>1. /\ h \in engine[g] => h \in engine'[g]
              /\ h \in listening[g] => h \in listening'[g]
          BY <2>4, <3>3 DEF Minus
        <4>2. stolen \subseteq stolen'
          BY <2>4
        <4>3. given[g] > 0 => (IsClosed(g)' <=> IsClosed(g))
          BY <2>2, UpKept
        <4> QED
          BY <4>1, <4>2, <4>3 DEF Keeps, Gone
      <3> QED
        BY <3>1, <3>2, <3>3
    <2> QED
      BY <2>1, <2>3, <2>4
  <1>13. ASSUME NEW k \in Gen, Disconnect(k) PROVE Keeps(g, h)
    <2>1. /\ rd'[k] = "closed" /\ \A j \in Gen : j # k => rd'[j] = rd[j]
          /\ Emptied(engine, engine', k) /\ Emptied(listening, listening', k)
          /\ Cut(stolen, stolen', k)
      BY <1>13, DisconnectEffect
    <2>2. CASE g = k
      <3>1. Gone(g, h)'
        BY <2>1, <2>2 DEF Gone, IsClosed
      <3> QED
        BY <3>1 DEF Keeps
    <2>3. CASE g # k
      <3>1. engine'[g] = engine[g] /\ listening'[g] = listening[g]
        BY <2>1, <2>3 DEF Emptied
      <3>2. Gone(g, h) => Gone(g, h)'
        BY <2>1, <2>3 DEF Gone, IsClosed, Cut
      <3> QED
        BY <3>1, <3>2 DEF Keeps
    <2> QED
      BY <2>2, <2>3
  <1>14. ASSUME NEW k \in Gen, Shut(k) PROVE Keeps(g, h)
    <2>1. /\ rd[k] = "closed" /\ rd'[k] = "done" /\ \A j \in Gen : j # k => rd'[j] = rd[j]
          /\ UNCHANGED <<engine, listening, stolen>>
      BY <1>14, ShutEffect
    <2>2. Gone(g, h) => Gone(g, h)'
      BY <2>1 DEF Gone, IsClosed
    <2> QED
      BY <2>1, <2>2 DEF Keeps
  <1> QED
    BY <1>1, <1>3, <1>4, <1>5, <1>6, <1>7, <1>8, <1>9, <1>10, <1>11, <1>12, <1>13, <1>14 DEF Kind

\* A handle that a call is setting up, or that waits in a queue, is not given back.
LEMMA NotLost ==
  ASSUME TypeOK, Threads, Exclusive, NEW g \in Gen, NEW h \in Handle
  PROVE  /\ \A t \in Thread : Owns(t, g, h) /\ pc[t] # "discard" => ~Lost(g, h)
         /\ \A l \in Handle : Queued(l, g, h) => ~Lost(g, h)
         /\ \A f \in Fd : Has(f, g, h) /\ Lost(g, h) =>
               \E t \in Thread : me[t].op = "close" /\ me[t].fd = f /\ me'[t] = me[t]
  BY DEF Exclusive, Sole, Lost

\* Only the requests lead to a step in which a call sets up a handle.
LEMMA NewHolder ==
  ASSUME TypeOK, Threads, TableAssumption, Kind, NEW t \in Thread,
         pc'[t] \in {"bindReq", "listenReq", "store"}
  PROVE  Still(t) \/ (\E g \in Gen : SocketReq(t, g)) \/ BindReq(t) \/ ListenReq(t)
  <1>1. ~Quiet(t)
    BY DEF Quiet, ThreadQuiet
  <1>2. ~Stores(t)
    BY DEF Stores, Returned
  <1>3. ASSUME NEW f \in Fd, Bind(t, f) PROVE Still(t)
    <2>1. Started(t, f) \/ UNCHANGED <<pc, me>>
      BY <1>3, BindEffect
    <2>2. ~Started(t, f)
      BY DEF Started
    <2> QED
      BY <2>1, <2>2 DEF Still
  <1>4. \A g \in Gen : ~CloseReq(t, g)
    BY CloseReqEffect
  <1>5. ~Discard(t) /\ ~Register(t)
    BY DiscardEffect, RegisterEffect DEF Returned, Continues
  <1>6. ~Destroy(t) /\ ~Unregister(t)
    BY DestroyEffect, UnregisterEffect DEF Returned
  <1>7. ASSUME NEW c \in Handle, NEW f \in Fd, TakeChild(t, c, f) PROVE FALSE
    <2>1. Adopted(t, c, f)
      BY <1>7, TakeChildEffect
    <2> QED
      BY <2>1 DEF Adopted
  <1> QED
    BY <1>1, <1>2, <1>3, <1>4, <1>5, <1>6, <1>7, ThreadFate DEF Acts

\* What Held says of one call.
HeldBy(t) ==
    /\ pc[t] \in {"bindReq", "listenReq", "store"} =>
          me[t].handle \in engine[me[t].gen] \/ Gone(me[t].gen, me[t].handle)
    /\ pc[t] = "store" /\ me[t].op = "listen" =>
          me[t].handle \in listening[me[t].gen] \/ Gone(me[t].gen, me[t].handle)

\* Every step keeps Held.
LEMMA HeldStep ==
  ASSUME TypeOK, TypeOK', Threads, Threads', Sessions, Exclusive, Held, TableAssumption, Kind
  PROVE  Held'
  <1>1. ASSUME NEW t \in Thread PROVE HeldBy(t)'
    <2>1. CASE pc'[t] \notin {"bindReq", "listenReq", "store"}
      BY <2>1 DEF HeldBy
    <2>2. CASE pc'[t] \in {"bindReq", "listenReq", "store"} /\ Still(t)
      <3>1. pc'[t] = pc[t] /\ me'[t] = me[t] /\ pc[t] \in {"bindReq", "listenReq", "store"}
        BY <2>2 DEF Still
      <3>2. PICK g \in Gen, h \in Handle : g = me[t].gen /\ h = me[t].handle
        BY <3>1, Carried DEF Carries
      <3>3. Owns(t, g, h) /\ pc[t] # "discard"
        BY <3>1, <3>2 DEF Owns
      <3>4. Keeps(g, h) /\ ~Lost(g, h) /\ given[g] > 0
        BY <3>3, EngineStep, NotLost, ClaimGiven
      <3>5. /\ h \in engine[g] \/ Gone(g, h)
            /\ pc[t] = "store" /\ me[t].op = "listen" => h \in listening[g] \/ Gone(g, h)
        BY <3>1, <3>2 DEF Held
      <3>6. /\ h \in engine'[g] \/ Gone(g, h)'
            /\ h \in listening[g] \/ Gone(g, h) => h \in listening'[g] \/ Gone(g, h)'
        BY <3>4, <3>5 DEF Keeps
      <3> QED
        BY <3>1, <3>2, <3>5, <3>6 DEF HeldBy
    <2>3. ASSUME NEW g \in Gen, SocketReq(t, g) PROVE HeldBy(t)'
      <3>1. /\ Granted(g) /\ me'[t].op = me[t].op /\ me'[t].local = me[t].local
            /\ me'[t].gen = g /\ me'[t].handle = given[g] + 1
            /\ pc'[t] = IF NeedsBind(t) THEN "bindReq" ELSE "store"
        BY <2>3, SocketReqEffect
      <3>2. me'[t].handle \in engine'[me'[t].gen]
        BY <3>1 DEF Granted
      <3>4. me[t].op = "listen" => NeedsBind(t)
        BY DEF NeedsBind
      <3> QED
        BY <3>1, <3>2, <3>4 DEF HeldBy
    <2>4. ASSUME BindReq(t) PROVE HeldBy(t)'
      <3>1. /\ pc[t] = "bindReq" /\ me'[t] = me[t] /\ UNCHANGED <<rd, engine, stolen>>
            /\ pc'[t] = IF me[t].op = "listen" THEN "listenReq" ELSE "store"
        BY <2>4, BindReqEffect
      <3>2. me[t].handle \in engine[me[t].gen] \/ Gone(me[t].gen, me[t].handle)
        BY <3>1 DEF Held
      <3>3. me'[t].handle \in engine'[me'[t].gen] \/ Gone(me[t].gen, me[t].handle)'
        BY <3>1, <3>2 DEF Gone, IsClosed
      <3> QED
        BY <3>1, <3>3 DEF HeldBy
    <2>5. ASSUME ListenReq(t) PROVE HeldBy(t)'
      <3>1. /\ pc[t] = "listenReq" /\ me'[t] = me[t] /\ UNCHANGED <<rd, engine, stolen>>
            /\ pc'[t] = "store"
            /\ listening'[me[t].gen] = listening[me[t].gen] \cup {me[t].handle}
        BY <2>5, ListenReqEffect
      <3>2. me[t].handle \in engine[me[t].gen] \/ Gone(me[t].gen, me[t].handle)
        BY <3>1 DEF Held
      <3>3. me'[t].handle \in engine'[me'[t].gen] \/ Gone(me[t].gen, me[t].handle)'
        BY <3>1, <3>2 DEF Gone, IsClosed
      <3>4. me'[t].handle \in listening'[me'[t].gen]
        BY <3>1
      <3> QED
        BY <3>1, <3>3, <3>4 DEF HeldBy
    <2> QED
      BY <2>1, <2>2, <2>3, <2>4, <2>5, NewHolder
  <1>2. ASSUME NEW g \in Gen, NEW l \in Handle, NEW h \in Handle, Queued(l, g, h)'
        PROVE  h \in engine'[g] \/ Gone(g, h)'
    <2>1. CASE Queued(l, g, h)
      <3>1. Keeps(g, h) /\ ~Lost(g, h) /\ given[g] > 0
        BY <2>1, EngineStep, NotLost, ClaimGiven
      <3>2. h \in engine[g] \/ Gone(g, h)
        BY <2>1 DEF Held
      <3> QED
        BY <3>1, <3>2 DEF Keeps
    <2>2. CASE ~Queued(l, g, h)
      <3>1. ASSUME NEW t \in Thread, Quiet(t) PROVE queue'[g][l] \subseteq queue[g][l]
        BY <3>1 DEF Quiet, WorldQuiet
      <3>2. ASSUME NEW t \in Thread,
                   \/ Stores(t) \/ BindReq(t) \/ ListenReq(t) \/ Discard(t) \/ Register(t) \/ Destroy(t)
                   \/ Unregister(t) \/ (\E k \in Gen : SocketReq(t, k)) \/ (\E f \in Fd : Bind(t, f))
            PROVE  UNCHANGED queue
        BY <3>2 DEF Stores, BindReq, ListenReq, Discard, Register, Destroy, Unregister, SocketReq, Bind,
                    engineVars
      <3>3. /\ \A f \in Fd, dgram \in BOOLEAN : Socket(f, dgram) => UNCHANGED queue
            /\ \A k \in Gen : Shut(k) => UNCHANGED queue
        <4>1. \A f \in Fd, dgram \in BOOLEAN : Socket(f, dgram) => UNCHANGED queue
          BY DEF Socket, engineVars
        <4>2. \A k \in Gen : Shut(k) => UNCHANGED queue
          BY DEF Shut, engineVars
        <4> QED
          BY <4>1, <4>2
      <3>4. ASSUME NEW t \in Thread, NEW k \in Gen, CloseReq(t, k) PROVE queue'[g][l] \subseteq queue[g][l]
        <4>1. Requeued(k, me[t].handle, {})
          BY <3>4, CloseReqEffect
        <4> QED
          BY <4>1 DEF Requeued
      <3>5. ASSUME NEW k \in Gen, Disconnect(k) PROVE queue'[g][l] \subseteq queue[g][l]
        <4>1. queue'[g][l] = IF g = k THEN {} ELSE queue[g][l]
          BY <3>5, DisconnectEffect
        <4> QED
          BY <4>1
      <3>6. ASSUME NEW t \in Thread, NEW c \in Handle, NEW f \in Fd, TakeChild(t, c, f)
            PROVE  queue'[g][l] \subseteq queue[g][l]
        <4>1. Adopted(t, c, f)
          BY <3>6, TakeChildEffect
        <4>2. Requeued(me[t].gen, me[t].handle, queue[me[t].gen][me[t].handle] \ {c})
          BY <4>1 DEF Adopted
        <4> QED
          BY <4>2 DEF Requeued
      <3>7. ASSUME NEW k \in Gen, NEW m \in Handle, Incoming(k, m)
            PROVE  h \in engine'[g]
        <4>1. Granted(k) /\ Requeued(k, m, queue[k][m] \cup {given[k] + 1})
          BY <3>7, IncomingEffect
        <4>2. g = k /\ h = given[k] + 1
          BY <1>2, <2>2, <4>1 DEF Requeued, Queued
        <4> QED
          BY <4>1, <4>2 DEF Granted
      <3>8. ~(queue'[g][l] \subseteq queue[g][l])
        BY <1>2, <2>2 DEF Queued
      <3> QED
        BY <3>1, <3>2, <3>3, <3>4, <3>5, <3>6, <3>7, <3>8 DEF Kind
    <2> QED
      BY <2>1, <2>2
  <1> QED
    BY <1>1, <1>2 DEF Held, HeldBy

---------------------------------------------------------------------------
(* Live descriptors.                                                       *)

\* A session that has given out a handle, and is up after a step, was up before it.
LEMMA WasUp ==
  ASSUME TypeOK, Threads, Sessions, TableAssumption, Kind, NEW g \in Gen, given[g] > 0, ~IsClosed(g)'
  PROVE  ~IsClosed(g)
  <1>1. CASE SessionsMove
    BY <1>1, UpKept
  <1>2. ASSUME NEW k \in Gen, Disconnect(k) PROVE ~IsClosed(g)
    <2>1. rd'[k] = "closed" /\ \A j \in Gen : j # k => rd'[j] = rd[j]
      BY <1>2, DisconnectEffect
    <2> QED
      BY <2>1 DEF IsClosed
  <1>3. ASSUME NEW k \in Gen, Shut(k) PROVE ~IsClosed(g)
    <2>1. rd'[k] = "done" /\ \A j \in Gen : j # k => rd'[j] = rd[j]
      BY <1>3, ShutEffect
    <2> QED
      BY <2>1 DEF IsClosed
  <1> QED
    BY <1>1, <1>2, <1>3, Moves

\* A descriptor is live after a step because it was, or because the step gave it
\* its handle.
LEMMA LiveWas ==
  ASSUME TypeOK, TypeOK', Threads, Rows, Rows', Sessions, Exclusive, TableAssumption, Kind,
         NEW f \in Fd, Live(f)'
  PROVE  \/ /\ Live(f) /\ tab'[f].handle = tab[f].handle /\ tab'[f].gen = tab[f].gen
            /\ tab'[f].dgram = tab[f].dgram /\ (tab'[f].local = tab[f].local \/ Named(f))
            /\ tab[f].handle \in Handle /\ tab[f].gen \in Gen /\ given[tab[f].gen] > 0
            /\ ~IsClosed(tab[f].gen)'
         \/ \E t \in Thread : Stores(t) /\ me[t].fd = f
         \/ \E t \in Thread, c \in Handle : Adopted(t, c, f)
  <1>1. tab'[f].st = "open" /\ tab'[f].handle # None /\ ~IsClosed(tab[f].gen)'
    BY DEF Live, IsOpen
  <1>2. CASE tab'[f] = tab[f] \/ Named(f)
    <2>1. /\ tab'[f].st = tab[f].st /\ tab'[f].handle = tab[f].handle /\ tab'[f].gen = tab[f].gen
          /\ tab'[f].dgram = tab[f].dgram /\ (tab'[f].local = tab[f].local \/ Named(f))
      BY <1>2 DEF Named
    <2>2. tab[f].handle \in Handle \cup {None}
      BY DEF TypeOK
    <2>3. PICK g \in Gen, h \in Handle : g = tab[f].gen /\ h = tab[f].handle
      BY <1>1, <2>1, <2>2 DEF Rows
    <2>4. given[g] > 0
      BY <2>3, ClaimGiven DEF Has
    <2>5. ~IsClosed(g)'
      BY <1>1, <2>1, <2>3 DEF IsClosed
    <2>6. ~IsClosed(g)
      BY <2>4, <2>5, WasUp
    <2>7. Live(f)
      BY <1>1, <2>1, <2>3, <2>6 DEF Live, IsOpen
    <2> QED
      BY <2>1, <2>3, <2>4, <2>7, <1>1
  <1>3. ~Opens(f)
    BY <1>1 DEF Opens
  <1>4. \A t \in Thread : ~Closes(t, f)
    BY <1>1 DEF Closes
  <1> QED
    BY <1>2, <1>3, <1>4, RowFate

\* A close() ends by closing its descriptor.
LEMMA ClosingKept ==
  ASSUME TypeOK, TypeOK', Threads, Races, TableAssumption, Kind, NEW f \in Fd, tab'[f].st = "open",
         InCall(f, {"close"})
  PROVE  InCall(f, {"close"})'
  <1>1. PICK t \in Thread : me[t].fd = f /\ me[t].op = "close"
    BY DEF InCall
  <1>2. pc[t] \in {"ensure", "destroy", "unregister"}
    BY <1>1 DEF Threads, ThreadOK
  <1>0. me'[t] = me[t] => InCall(f, {"close"})'
    BY <1>1 DEF InCall
  <1>3. Still(t) \/ Quiet(t) => me'[t] = me[t]
    BY <1>1 DEF Still, Quiet, ThreadQuiet
  <1>4. ~Stores(t)
    BY <1>2 DEF Stores
  <1>5. ASSUME NEW e \in Fd, Bind(t, e) PROVE me'[t] = me[t]
    <2>1. Started(t, e) \/ UNCHANGED <<pc, me>>
      BY <1>5, BindEffect
    <2> QED
      BY <1>2, <2>1 DEF Started
  <1>6. \A g \in Gen : CloseReq(t, g) => me'[t] = me[t]
    BY CloseReqEffect
  <1>7. \A g \in Gen : ~SocketReq(t, g)
    BY <1>1 DEF SocketReq, Asks
  <1>8. ~BindReq(t) /\ ~ListenReq(t) /\ ~Discard(t) /\ ~Register(t)
    BY <1>2 DEF BindReq, ListenReq, Discard, Register
  <1>9. ~Unregister(t)
    <2>1. SUFFICES ASSUME Unregister(t) PROVE FALSE
      OBVIOUS
    <2>2. pc[t] = "unregister" /\ UNCHANGED tab
      BY <2>1 DEF Unregister
    <2> QED
      BY <1>1, <2>2 DEF Races, IsOpen
  <1>10. ~Destroy(t)
    <2>1. SUFFICES ASSUME Destroy(t) PROVE FALSE
      OBVIOUS
    <2>2. (~IsOpen(f) /\ UNCHANGED tab) \/ tab'[f].st = "closed"
      BY <1>1, <2>1, DestroyEffect
    <2> QED
      BY <2>2 DEF IsOpen
  <1>11. \A c \in Handle, e \in Fd : ~TakeChild(t, c, e)
    BY <1>2 DEF TakeChild
  <1> QED
    BY <1>0, <1>3, <1>4, <1>5, <1>6, <1>7, <1>8, <1>9, <1>10, <1>11, ThreadFate DEF Acts

\* The close() of a descriptor is the only one that gives its handle back.
LEMMA LostByClose ==
  ASSUME TypeOK, Threads, Exclusive, NEW f \in Fd, NEW g \in Gen, NEW h \in Handle, Has(f, g, h), Lost(g, h)
  PROVE  InCall(f, {"close"})'
  <1>1. PICK t \in Thread : me[t].op = "close" /\ me[t].fd = f /\ me'[t] = me[t]
    BY NotLost
  <1> QED
    BY <1>1 DEF InCall

\* Every step keeps EngineKeeps: only the descriptor's own close() gives back
\* the handle it has.
LEMMA EngineKeepsStep ==
  ASSUME Base, TypeOK', Rows', Races, Held, EngineKeeps, TableAssumption, Kind
  PROVE  EngineKeeps'
  <1>0. TypeOK /\ Threads /\ Rows /\ Sessions /\ Exclusive
    BY DEF Base
  <1> SUFFICES ASSUME NEW f \in Fd, Live(f)'
               PROVE  \/ tab'[f].handle \in engine'[tab'[f].gen]
                      \/ <<tab'[f].gen, tab'[f].handle>> \in stolen'
                      \/ InCall(f, {"close"})'
    BY DEF EngineKeeps
  <1>1. tab'[f].st = "open" /\ ~IsClosed(tab[f].gen)'
    BY DEF Live, IsOpen
  <1>2. CASE /\ Live(f) /\ tab'[f].handle = tab[f].handle /\ tab'[f].gen = tab[f].gen
             /\ tab[f].handle \in Handle /\ tab[f].gen \in Gen /\ given[tab[f].gen] > 0
    <2>1. PICK g \in Gen, h \in Handle : g = tab[f].gen /\ h = tab[f].handle
      BY <1>2
    <2>2. Has(f, g, h) /\ given[g] > 0 /\ ~IsClosed(g)'
      BY <1>1, <1>2, <2>1 DEF Has, IsClosed
    <2>3. Keeps(g, h)
      BY <1>0, EngineStep
    <2>4. Gone(g, h)' => <<g, h>> \in stolen'
      BY <2>2 DEF Gone
    <2>5. h \in engine[g] \/ <<g, h>> \in stolen \/ InCall(f, {"close"})
      BY <1>2, <2>1 DEF EngineKeeps
    <2>6. CASE InCall(f, {"close"})
      BY <1>0, <1>1, <2>6, ClosingKept
    <2>7. CASE h \in engine[g]
      BY <1>0, <1>2, <2>1, <2>2, <2>3, <2>4, <2>7, LostByClose DEF Keeps
    <2>8. CASE <<g, h>> \in stolen
      BY <1>2, <2>1, <2>2, <2>3, <2>4, <2>8 DEF Keeps, Gone
    <2> QED
      BY <2>5, <2>6, <2>7, <2>8
  <1>3. ASSUME NEW t \in Thread, Stores(t), me[t].fd = f
        PROVE  \/ tab'[f].handle \in engine'[tab'[f].gen]
               \/ <<tab'[f].gen, tab'[f].handle>> \in stolen'
    <2>1. /\ pc[t] = "store" /\ UNCHANGED <<rd, engine, stolen>>
          /\ tab'[f].handle = me[t].handle /\ tab'[f].gen = me[t].gen
      BY <1>3 DEF Stores, Stored
    <2>2. me[t].handle \in engine[me[t].gen] \/ Gone(me[t].gen, me[t].handle)
      BY <2>1 DEF Held
    <2> QED
      BY <1>1, <2>1, <2>2 DEF Gone, IsClosed
  <1>4. ASSUME NEW t \in Thread, NEW c \in Handle, Adopted(t, c, f)
        PROVE  \/ tab'[f].handle \in engine'[tab'[f].gen]
               \/ <<tab'[f].gen, tab'[f].handle>> \in stolen'
    <2>1. /\ pc[t] = "take" /\ c \in queue[me[t].gen][me[t].handle] /\ UNCHANGED <<rd, engine, stolen>>
          /\ tab'[f].handle = c /\ tab'[f].gen = me[t].gen
      BY <1>4 DEF Adopted
    <2>2. PICK g \in Gen, l \in Handle : g = me[t].gen /\ l = me[t].handle
      BY <1>0, <2>1, Carried
    <2>3. c \in engine[g] \/ Gone(g, c)
      BY <2>1, <2>2 DEF Held, Queued
    <2> QED
      BY <1>1, <2>1, <2>2, <2>3 DEF Gone, IsClosed
  <1> QED
    BY <1>0, <1>2, <1>3, <1>4, LiveWas

---------------------------------------------------------------------------
(* What stays open at the engine.                                          *)

\* What is open at the engine after a step was so before, or is new: then a call
\* has it, or a queue, or it was dropped at once.
LEMMA EngineNew ==
  ASSUME TypeOK, Threads, Sessions, TableAssumption, Kind, NEW g \in Gen, NEW h \in Handle, h \in engine'[g]
  PROVE  \/ h \in engine[g]
         \/ <<g, h>> \in dropped'
         \/ ~(h <= given[g]) /\ ((\E t \in Thread : Owns(t, g, h)') \/ (\E l \in Handle : Queued(l, g, h)'))
  <1>1. ASSUME NEW t \in Thread, Quiet(t) PROVE h \in engine[g] \/ <<g, h>> \in dropped'
    BY <1>1 DEF Quiet, WorldQuiet
  <1>2. ASSUME NEW t \in Thread, NEW k \in Gen, SocketReq(t, k)
        PROVE  h \in engine[g] \/ (~(h <= given[g]) /\ Owns(t, g, h)')
    <2>1. /\ Granted(k) /\ me'[t].gen = k /\ me'[t].handle = given[k] + 1 /\ pc'[t] \in {"bindReq", "store"}
      BY <1>2, SocketReqEffect
    <2>2. h \in engine[g] \/ (g = k /\ h = given[k] + 1)
      BY <2>1 DEF Granted
    <2>3. given[k] \in Nat
      BY DEF TypeOK
    <2>4. g = k /\ h = given[k] + 1 => ~(h <= given[g])
      BY <2>3
    <2> QED
      BY <2>1, <2>2, <2>4 DEF Owns
  <1>3. ASSUME NEW k \in Gen, NEW l \in Handle, Incoming(k, l)
        PROVE  h \in engine[g] \/ (~(h <= given[g]) /\ Queued(l, g, h)')
    <2>1. Granted(k) /\ Requeued(k, l, queue[k][l] \cup {given[k] + 1})
      BY <1>3, IncomingEffect
    <2>2. h \in engine[g] \/ (g = k /\ h = given[k] + 1)
      BY <2>1 DEF Granted
    <2>3. given[k] \in Nat
      BY DEF TypeOK
    <2>4. g = k /\ h = given[k] + 1 => ~(h <= given[g])
      BY <2>3
    <2>5. g = k /\ h = given[k] + 1 => Queued(l, g, h)'
      BY <2>1 DEF Requeued, Queued
    <2> QED
      BY <2>2, <2>4, <2>5
  <1>4. ASSUME NEW t \in Thread,
               \/ Stores(t) \/ BindReq(t) \/ ListenReq(t) \/ Register(t) \/ Destroy(t)
               \/ Unregister(t) \/ (\E f \in Fd : Bind(t, f))
        PROVE  UNCHANGED engine
    BY <1>4 DEF Stores, BindReq, ListenReq, Register, Destroy, Unregister, Bind, engineVars
  <1>5. /\ \A f \in Fd, dgram \in BOOLEAN : Socket(f, dgram) => UNCHANGED engine
        /\ \A k \in Gen : Shut(k) => UNCHANGED engine
    <2>1. \A f \in Fd, dgram \in BOOLEAN : Socket(f, dgram) => UNCHANGED engine
      BY DEF Socket, engineVars
    <2>2. \A k \in Gen : Shut(k) => UNCHANGED engine
      BY DEF Shut, engineVars
    <2> QED
      BY <2>1, <2>2
  <1>6. ASSUME NEW t \in Thread, Discard(t) PROVE h \in engine[g]
    <2>1. Minus(engine, engine', me[t].gen, me[t].handle) \/ UNCHANGED engine
      BY <1>6, DiscardEffect
    <2> QED
      BY <2>1 DEF Minus
  <1>7. ASSUME NEW t \in Thread, NEW k \in Gen, CloseReq(t, k) PROVE h \in engine[g]
    <2>1. Minus(engine, engine', k, me[t].handle) \/ UNCHANGED engine
      BY <1>7, CloseReqEffect
    <2> QED
      BY <2>1 DEF Minus
  <1>8. ASSUME NEW k \in Gen, Disconnect(k) PROVE h \in engine[g]
    <2>1. Emptied(engine, engine', k)
      BY <1>8, DisconnectEffect
    <2> QED
      BY <2>1 DEF Emptied
  <1>9. ASSUME NEW t \in Thread, NEW c \in Handle, NEW f \in Fd, TakeChild(t, c, f) PROVE h \in engine[g]
    <2>1. Adopted(t, c, f)
      BY <1>9, TakeChildEffect
    <2> QED
      BY <2>1 DEF Adopted
  <1> QED
    BY <1>1, <1>2, <1>3, <1>4, <1>5, <1>6, <1>7, <1>8, <1>9 DEF Kind

\* What was dropped stays so until its session ends.
LEMMA DroppedKept ==
  ASSUME TypeOK, Threads, TableAssumption, Kind, NEW g \in Gen, NEW h \in Handle, <<g, h>> \in dropped
  PROVE  <<g, h>> \in dropped' \/ engine'[g] = {}
  <1>1. ASSUME NEW t \in Thread, Quiet(t) \/ Stores(t) PROVE dropped \subseteq dropped'
    BY <1>1 DEF Quiet, WorldQuiet, Stores
  <1>2. ASSUME NEW t \in Thread,
               \/ BindReq(t) \/ ListenReq(t) \/ Register(t) \/ Destroy(t) \/ Unregister(t)
               \/ (\E f \in Fd : Bind(t, f)) \/ (\E k \in Gen : SocketReq(t, k))
               \/ (\E c \in Handle, f \in Fd : TakeChild(t, c, f))
        PROVE  UNCHANGED dropped
    <2>1. CASE BindReq(t) \/ ListenReq(t) \/ (\E k \in Gen : SocketReq(t, k))
      BY <2>1 DEF BindReq, ListenReq, SocketReq, history, otherHistory
    <2>2. CASE Register(t) \/ Destroy(t) \/ Unregister(t)
      BY <2>2 DEF Register, Destroy, Unregister, history, otherHistory
    <2>3. CASE (\E f \in Fd : Bind(t, f)) \/ (\E c \in Handle, f \in Fd : TakeChild(t, c, f))
      <3>1. \A f \in Fd : Bind(t, f) => UNCHANGED dropped
        BY DEF Bind, otherHistory
      <3>2. \A c \in Handle, f \in Fd : TakeChild(t, c, f) => UNCHANGED dropped
        BY DEF TakeChild, history, otherHistory
      <3> QED
        BY <2>3, <3>1, <3>2
    <2> QED
      BY <1>2, <2>1, <2>2, <2>3
  <1>3. /\ \A f \in Fd, dgram \in BOOLEAN : Socket(f, dgram) => UNCHANGED dropped
        /\ \A k \in Gen : Shut(k) => UNCHANGED dropped
        /\ \A k \in Gen, l \in Handle : Incoming(k, l) => UNCHANGED dropped
    <2>1. \A f \in Fd, dgram \in BOOLEAN : Socket(f, dgram) => UNCHANGED dropped
      BY DEF Socket, history, otherHistory
    <2>2. \A k \in Gen : Shut(k) => UNCHANGED dropped
      BY DEF Shut, history, otherHistory
    <2>3. \A k \in Gen, l \in Handle : Incoming(k, l) => UNCHANGED dropped
      BY DEF Incoming, history, otherHistory
    <2> QED
      BY <2>1, <2>2, <2>3
  <1>4. ASSUME NEW t \in Thread, Discard(t) \/ (\E k \in Gen : CloseReq(t, k)) PROVE dropped \subseteq dropped'
    <2>1. UNCHANGED dropped \/ \E s : Drop(s)
      BY <1>4 DEF Discard, CloseReq
    <2> QED
      BY <2>1 DEF Drop
  <1>5. ASSUME NEW k \in Gen, Disconnect(k) PROVE <<g, h>> \in dropped' \/ engine'[g] = {}
    <2>1. Emptied(engine, engine', k) /\ Cut(dropped, dropped', k)
      BY <1>5, DisconnectEffect
    <2> QED
      BY <2>1 DEF Emptied, Cut
  <1> QED
    BY <1>1, <1>2, <1>3, <1>4, <1>5 DEF Kind

\* A session that is not the client's, and has given out a handle, is not up.
LEMMA OtherIsClosed ==
  ASSUME Sessions, TableAssumption, NEW g \in Gen, given[g] > 0, ~(ClientReady /\ client = g)
  PROVE  IsClosed(g) /\ engine[g] = {}
  BY Basics DEF Sessions, ClientReady

\* Every step keeps ClosesDone.
LEMMA ClosesDoneStep ==
  ASSUME Base, TypeOK', Threads', ClosesDone, TableAssumption, Kind
  PROVE  ClosesDone'
  <1>0. TypeOK /\ Threads /\ Rows /\ Sessions /\ Exclusive
    BY DEF Base
  <1> SUFFICES ASSUME NEW t \in Thread, pc'[t] = "destroy", me'[t].handle # None
               PROVE  me'[t].handle \notin engine'[me'[t].gen] \/ <<me'[t].gen, me'[t].handle>> \in dropped'
    BY DEF ClosesDone
  <1>1. me'[t].op = "close"
    BY DEF Threads, ThreadOK
  <1>2. PICK g \in Gen, h \in Handle : g = me'[t].gen /\ h = me'[t].handle
    BY <1>1 DEF Threads, ThreadOK, TypeOK
  <1>3. ASSUME me'[t] = me[t]
        PROVE  Knows(t, g, h) /\ given[g] > 0 /\ h <= given[g]
    <2>1. Knows(t, g, h)
      BY <1>1, <1>2, <1>3 DEF Knows
    <2> QED
      BY <1>0, <2>1, ClaimGiven DEF Exclusive, Sole
  <1>4. CASE Still(t)
    <2>1. Knows(t, g, h) /\ h <= given[g] /\ pc[t] = "destroy" /\ me[t].handle # None
          /\ g = me[t].gen /\ h = me[t].handle
      BY <1>2, <1>3, <1>4 DEF Still
    <2>2. h \notin engine[g] \/ <<g, h>> \in dropped
      BY <2>1 DEF ClosesDone
    <2> QED
      BY <1>0, <1>2, <2>1, <2>2, EngineNew, DroppedKept
  <1>5. CASE Quiet(t) /\ pc[t] # "idle"
    <2>1. me'[t] = me[t] /\ ~ClientReady
      BY <1>1, <1>5 DEF Quiet, ThreadQuiet
    <2>2. given[g] > 0 /\ h <= given[g]
      BY <1>3, <2>1
    <2>3. engine[g] = {}
      BY <1>0, <2>1, <2>2, OtherIsClosed
    <2> QED
      BY <1>0, <1>2, <2>2, <2>3, EngineNew
  <1>6. CASE Quiet(t) /\ pc[t] = "idle"
    <2>1. Started(t, me'[t].fd)
      BY <1>6 DEF Quiet, ThreadQuiet
    <2>2. me'[t].handle = None
      BY <1>1, <2>1 DEF Started
    <2> QED
      BY <2>2
  <1>7. ASSUME NEW k \in Gen, CloseReq(t, k)
        PROVE  me'[t].handle \notin engine'[me'[t].gen] \/ <<me'[t].gen, me'[t].handle>> \in dropped'
    <2>1. /\ Reached(k) /\ me'[t] = me[t]
          /\ \/ Minus(engine, engine', k, me[t].handle)
             \/ /\ Drop({<<k, c>> : c \in queue[k][me[t].handle]} \cup {<<k, me[t].handle>>})
                /\ UNCHANGED engine
      BY <1>0, <1>7, CloseReqEffect
    <2>2. given[g] > 0 /\ h <= given[g] /\ h = me[t].handle
      BY <1>2, <1>3, <2>1
    <2>3. CASE g # k
      <3>1. ~(ClientReady /\ client = g)
        BY <2>1, <2>3 DEF Reached
      <3>2. engine[g] = {}
        BY <1>0, <2>2, <3>1, OtherIsClosed
      <3>3. engine'[g] = engine[g]
        BY <2>1, <2>3 DEF Minus
      <3> QED
        BY <1>2, <3>2, <3>3
    <2>4. CASE g = k
      <3>1. CASE Minus(engine, engine', k, me[t].handle)
        BY <1>2, <2>2, <2>4, <3>1 DEF Minus
      <3>2. CASE /\ Drop({<<k, c>> : c \in queue[k][me[t].handle]} \cup {<<k, me[t].handle>>})
                 /\ UNCHANGED engine
        <4>1. IsClosed(g) => engine[g] = {}
          BY <1>0 DEF Sessions
        <4>2. ~IsClosed(g) => <<g, h>> \in dropped'
          BY <2>2, <2>4, <3>2 DEF Drop
        <4> QED
          BY <1>2, <3>2, <4>1, <4>2
      <3> QED
        BY <2>1, <3>1, <3>2
    <2> QED
      BY <2>3, <2>4
  <1>8. ~Stores(t)
    BY DEF Stores, Returned
  <1>9. ASSUME NEW e \in Fd, Bind(t, e) PROVE Still(t)
    <2>1. (Started(t, e) /\ me'[t].op = "obtain") \/ UNCHANGED <<pc, me>>
      BY <1>0, <1>9, BindEffect
    <2> QED
      BY <1>1, <2>1 DEF Still
  <1>10. \A k \in Gen : ~SocketReq(t, k)
    BY <1>0, SocketReqEffect
  <1>11. ~BindReq(t) /\ ~ListenReq(t)
    BY <1>0, BindReqEffect, ListenReqEffect
  <1>12. ~Discard(t) /\ ~Register(t)
    BY <1>0, DiscardEffect, RegisterEffect DEF Returned, Continues
  <1>13. ~Destroy(t) /\ ~Unregister(t)
    BY <1>0, DestroyEffect, UnregisterEffect DEF Returned
  <1>14. ASSUME NEW c \in Handle, NEW f \in Fd, TakeChild(t, c, f) PROVE FALSE
    <2>1. Adopted(t, c, f)
      BY <1>0, <1>14, TakeChildEffect
    <2> QED
      BY <2>1 DEF Adopted
  <1> QED
    BY <1>0, <1>4, <1>5, <1>6, <1>7, <1>8, <1>9, <1>10, <1>11, <1>12, <1>13, <1>14, ThreadFate DEF Acts

\* Handle h of session g has an owner, or was let go in one of the known ways.
Accounted(g, h) ==
    \/ \E f \in Fd : tab[f].gen = g /\ tab[f].handle = h /\ (IsOpen(f) \/ f \in raced)
    \/ \E t \in Thread : Owns(t, g, h)
    \/ \E l \in Handle : h \in queue[g][l]
    \/ <<g, h>> \in dropped

\* A descriptor that was raced stays marked.
LEMMA RacedKept ==
  ASSUME TypeOK, Threads, TableAssumption, Kind
  PROVE  raced \subseteq raced'
  <1>1. ASSUME NEW t \in Thread, Quiet(t) \/ Stores(t) PROVE raced \subseteq raced'
    BY <1>1 DEF Quiet, WorldQuiet, Stores
  <1>2. ASSUME NEW t \in Thread,
               \/ BindReq(t) \/ ListenReq(t) \/ Register(t) \/ Destroy(t) \/ Unregister(t) \/ Discard(t)
        PROVE  UNCHANGED raced
    BY <1>2 DEF BindReq, ListenReq, Register, Destroy, Unregister, Discard, history
  <1>3. ASSUME NEW t \in Thread, NEW f \in Fd, Bind(t, f) PROVE raced \subseteq raced'
    <2>1. Started(t, f) \/ UNCHANGED raced
      BY <1>3, BindEffect
    <2> QED
      BY <2>1 DEF Started
  <1>4. /\ \A t \in Thread, k \in Gen : SocketReq(t, k) => UNCHANGED raced
        /\ \A t \in Thread, k \in Gen : CloseReq(t, k) => UNCHANGED raced
        /\ \A t \in Thread, c \in Handle, f \in Fd : TakeChild(t, c, f) => UNCHANGED raced
    <2>1. \A t \in Thread, k \in Gen : SocketReq(t, k) => UNCHANGED raced
      BY DEF SocketReq, history
    <2>2. \A t \in Thread, k \in Gen : CloseReq(t, k) => UNCHANGED raced
      BY DEF CloseReq
    <2>3. \A t \in Thread, c \in Handle, f \in Fd : TakeChild(t, c, f) => UNCHANGED raced
      BY DEF TakeChild, history
    <2> QED
      BY <2>1, <2>2, <2>3
  <1>5. /\ \A f \in Fd, dgram \in BOOLEAN : Socket(f, dgram) => UNCHANGED raced
        /\ \A k \in Gen : Disconnect(k) \/ Shut(k) => UNCHANGED raced
        /\ \A k \in Gen, l \in Handle : Incoming(k, l) => UNCHANGED raced
    <2>1. \A f \in Fd, dgram \in BOOLEAN : Socket(f, dgram) => UNCHANGED raced
      BY DEF Socket, history
    <2>2. \A k \in Gen : Disconnect(k) \/ Shut(k) => UNCHANGED raced
      BY DEF Disconnect, Shut, history
    <2>3. \A k \in Gen, l \in Handle : Incoming(k, l) => UNCHANGED raced
      BY DEF Incoming, history
    <2> QED
      BY <2>1, <2>2, <2>3
  <1> QED
    BY <1>1, <1>2, <1>3, <1>4, <1>5 DEF Kind

\* A descriptor that has the handle keeps it, or it was dropped or closed.
LEMMA RowAccounted ==
  ASSUME Base, Races, ClosesDone, TableAssumption, Kind, NEW g \in Gen, NEW h \in Handle, h \in engine[g],
         h \in engine'[g], NEW f \in Fd, Has(f, g, h), IsOpen(f) \/ f \in raced
  PROVE  Accounted(g, h)'
  <1>0. TypeOK /\ Threads /\ Rows /\ Sessions /\ Exclusive
    BY DEF Base
  <1>1. ~IsClosed(g) /\ h # None /\ tab[f].st # "free"
    BY <1>0, Basics DEF Sessions, Rows, Has
  <1>2. raced \subseteq raced'
    BY <1>0, RacedKept
  <1>3. CASE tab'[f] = tab[f] \/ Named(f)
    <2>1. Has(f, g, h)' /\ tab'[f].st = tab[f].st
      BY <1>3 DEF Has, Named
    <2> QED
      BY <1>2, <2>1 DEF Accounted, Has, IsOpen
  <1>4. ASSUME NEW t \in Thread, Stores(t), me[t].fd = f PROVE Accounted(g, h)'
    <2>1. IsClosed(g) \/ <<g, h>> \in dropped'
      BY <1>1, <1>4 DEF Stores, Has
    <2> QED
      BY <1>1, <2>1 DEF Accounted
  <1>5. ASSUME NEW t \in Thread, Closes(t, f) PROVE Accounted(g, h)'
    <2>1. /\ pc[t] = "destroy" /\ me[t].fd = f /\ Has(f, g, h)'
      BY <1>5 DEF Closes, Has
    <2>2. CASE f \in raced
      BY <1>2, <2>1, <2>2 DEF Accounted, Has
    <2>3. CASE f \notin raced
      <3>1. me[t].op = "close"
        BY <1>0, <2>1 DEF Threads, ThreadOK
      <3>2. Has(f, me[t].gen, me[t].handle)
        BY <2>1, <2>3, <3>1 DEF Races
      <3>3. me[t].gen = g /\ me[t].handle = h
        BY <3>2 DEF Has
      <3>4. <<g, h>> \in dropped
        BY <1>1, <2>1, <3>3 DEF ClosesDone
      <3>5. <<g, h>> \in dropped'
        BY <1>0, <3>4, DroppedKept
      <3> QED
        BY <3>5 DEF Accounted
    <2> QED
      BY <2>2, <2>3
  <1>6. ~Opens(f) /\ \A t \in Thread, c \in Handle : ~Adopted(t, c, f)
    BY <1>1 DEF Opens, Adopted
  <1> QED
    BY <1>0, <1>3, <1>4, <1>5, <1>6, RowFate

\* A call that has the handle keeps it, stores it, gives it back or drops it.
LEMMA CallAccounted ==
  ASSUME Base, TableAssumption, Kind, NEW g \in Gen, NEW h \in Handle, h \in engine[g],
         h \in engine'[g], NEW t \in Thread, Owns(t, g, h)
  PROVE  Accounted(g, h)'
  <1>0. TypeOK /\ Threads /\ Sessions
    BY DEF Base
  <1>1. ~IsClosed(g)
    BY <1>0 DEF Sessions
  <1>2. pc[t] \in {"bindReq", "listenReq", "store", "discard"} /\ me[t].gen = g /\ me[t].handle = h
    BY DEF Owns
  <1>3. Owns(t, g, h)' \/ <<g, h>> \in dropped' => Accounted(g, h)'
    BY DEF Accounted
  <1>4. CASE Still(t)
    BY <1>3, <1>4 DEF Still, Owns
  <1>5. CASE Quiet(t)
    <2>1. ThreadQuiet(t)
      BY <1>5 DEF Quiet
    <2>2. pc'[t] = "discard" \/ <<g, h>> \in dropped'
      BY <1>1, <1>2, <2>1 DEF ThreadQuiet
    <2>3. pc'[t] = "discard" => me'[t].gen = me[t].gen /\ me'[t].handle = me[t].handle
      BY <2>1 DEF ThreadQuiet
    <2> QED
      BY <1>2, <1>3, <2>2, <2>3 DEF Owns
  <1>6. CASE Stores(t)
    <2>1. /\ me[t].fd \in Fd /\ tab'[me[t].fd].st = "open" /\ tab'[me[t].fd].handle = h
          /\ tab'[me[t].fd].gen = g
      <3>1. pc[t] = "store" /\ Stored(t)
        BY <1>6 DEF Stores
      <3>2. me[t].fd \in Fd
        BY <1>0, <3>1, Carried DEF Carries
      <3> QED
        BY <1>2, <3>1, <3>2 DEF Stored
    <2> QED
      BY <2>1 DEF Accounted, IsOpen
  <1>7. ASSUME NEW e \in Fd, Bind(t, e) PROVE Still(t)
    <2>1. Started(t, e) \/ UNCHANGED <<pc, me>>
      BY <1>0, <1>7, BindEffect
    <2> QED
      BY <1>2, <2>1 DEF Started, Still
  <1>8. CASE BindReq(t) \/ ListenReq(t)
    <2>1. me'[t] = me[t] /\ pc'[t] \in {"listenReq", "store"}
      BY <1>0, <1>8, BindReqEffect, ListenReqEffect
    <2> QED
      BY <1>2, <1>3, <2>1 DEF Owns
  <1>9. CASE Discard(t)
    <2>1. Minus(engine, engine', g, h) \/ Drop({<<g, h>>})
      BY <1>0, <1>2, <1>9, DiscardEffect
    <2>2. ~Minus(engine, engine', g, h)
      BY DEF Minus
    <2>3. <<g, h>> \in dropped'
      BY <1>1, <2>1, <2>2 DEF Drop
    <2> QED
      BY <1>3, <2>3
  <1>10. \A k \in Gen : ~SocketReq(t, k) /\ ~CloseReq(t, k)
    BY <1>2 DEF SocketReq, CloseReq, Ensured
  <1>11. ~Register(t) /\ ~Destroy(t) /\ ~Unregister(t)
    BY <1>2 DEF Register, Destroy, Unregister
  <1>12. \A c \in Handle, f \in Fd : ~TakeChild(t, c, f)
    BY <1>2 DEF TakeChild
  <1> QED
    BY <1>0, <1>4, <1>5, <1>6, <1>7, <1>8, <1>9, <1>10, <1>11, <1>12, ThreadFate DEF Acts

\* A child in a queue stays there, is accepted or is dropped.
LEMMA QueueAccounted ==
  ASSUME Base, TableAssumption, Kind, NEW g \in Gen, NEW h \in Handle, h \in engine[g],
         h \in engine'[g], NEW l \in Handle, h \in queue[g][l]
  PROVE  Accounted(g, h)'
  <1>0. TypeOK /\ Threads /\ Sessions
    BY DEF Base
  <1>1. ~IsClosed(g)
    BY <1>0 DEF Sessions
  <1>2. h \in queue'[g][l] \/ <<g, h>> \in dropped' => Accounted(g, h)'
    BY DEF Accounted
  <1>3. ASSUME NEW t \in Thread, Quiet(t) PROVE Accounted(g, h)'
    BY <1>1, <1>2, <1>3 DEF Quiet, WorldQuiet
  <1>4. ASSUME NEW t \in Thread,
               \/ Stores(t) \/ BindReq(t) \/ ListenReq(t) \/ Discard(t) \/ Register(t) \/ Destroy(t)
               \/ Unregister(t)
        PROVE  UNCHANGED queue
    BY <1>4 DEF Stores, BindReq, ListenReq, Discard, Register, Destroy, Unregister, engineVars
  <1>5. /\ \A t \in Thread, k \in Gen : SocketReq(t, k) => UNCHANGED queue
        /\ \A t \in Thread, f \in Fd : Bind(t, f) => UNCHANGED queue
        /\ \A f \in Fd, dgram \in BOOLEAN : Socket(f, dgram) => UNCHANGED queue
        /\ \A k \in Gen : Shut(k) => UNCHANGED queue
    <2>1. \A t \in Thread, k \in Gen : SocketReq(t, k) => UNCHANGED queue
      BY DEF SocketReq
    <2>2. \A t \in Thread, f \in Fd : Bind(t, f) => UNCHANGED queue
      BY DEF Bind, engineVars
    <2>3. \A f \in Fd, dgram \in BOOLEAN : Socket(f, dgram) => UNCHANGED queue
      BY DEF Socket, engineVars
    <2>4. \A k \in Gen : Shut(k) => UNCHANGED queue
      BY DEF Shut, engineVars
    <2> QED
      BY <2>1, <2>2, <2>3, <2>4
  <1>6. ASSUME NEW t \in Thread, NEW k \in Gen, CloseReq(t, k) PROVE Accounted(g, h)'
    <2>1. /\ Requeued(k, me[t].handle, {}) /\ me[t].handle \in Handle
          /\ \/ Drop({<<k, c>> : c \in queue[k][me[t].handle]})
             \/ Drop({<<k, c>> : c \in queue[k][me[t].handle]} \cup {<<k, me[t].handle>>})
      BY <1>0, <1>6, CloseReqEffect
    <2>2. CASE g = k /\ l = me[t].handle
      <3>1. <<g, h>> \in {<<k, c>> : c \in queue[k][me[t].handle]}
        BY <2>2
      <3>2. <<g, h>> \in dropped'
        BY <1>1, <2>1, <3>1 DEF Drop
      <3> QED
        BY <1>2, <3>2
    <2>3. CASE ~(g = k /\ l = me[t].handle)
      <3>1. queue'[g][l] = queue[g][l]
        BY <2>1, <2>3 DEF Requeued
      <3> QED
        BY <1>2, <3>1
    <2> QED
      BY <2>2, <2>3
  <1>7. ASSUME NEW k \in Gen, Disconnect(k) PROVE Accounted(g, h)'
    <2>1. Emptied(engine, engine', k) /\ queue'[g][l] = IF g = k THEN {} ELSE queue[g][l]
      BY <1>0, <1>7, DisconnectEffect
    <2>2. g # k
      BY <2>1 DEF Emptied
    <2> QED
      BY <1>2, <2>1, <2>2
  <1>8. ASSUME NEW t \in Thread, NEW c \in Handle, NEW f \in Fd, TakeChild(t, c, f) PROVE Accounted(g, h)'
    <2>1. Adopted(t, c, f)
      BY <1>0, <1>8, TakeChildEffect
    <2>2. /\ Requeued(me[t].gen, me[t].handle, queue[me[t].gen][me[t].handle] \ {c})
          /\ tab'[f].st = "open" /\ tab'[f].gen = me[t].gen /\ tab'[f].handle = c
      BY <2>1 DEF Adopted
    <2>3. h \in queue'[g][l] \/ (g = me[t].gen /\ h = c)
      BY <2>2 DEF Requeued
    <2>4. g = me[t].gen /\ h = c => Accounted(g, h)'
      BY <2>2 DEF Accounted, IsOpen
    <2> QED
      BY <1>2, <2>3, <2>4
  <1>9. ASSUME NEW k \in Gen, NEW m \in Handle, Incoming(k, m) PROVE Accounted(g, h)'
    <2>1. Requeued(k, m, queue[k][m] \cup {given[k] + 1})
      BY <1>0, <1>9, IncomingEffect
    <2>2. h \in queue'[g][l]
      BY <2>1 DEF Requeued
    <2> QED
      BY <1>2, <2>2
  <1> QED
    BY <1>2, <1>3, <1>4, <1>5, <1>6, <1>7, <1>8, <1>9 DEF Kind

\* Every step keeps OnlyKnownLeaks: a handle that is new at the engine has an
\* owner, and an owner that gives one up closes it or is reported.
LEMMA LeaksStep ==
  ASSUME Base, TypeOK', Races, ClosesDone, OnlyKnownLeaks, TableAssumption, Kind
  PROVE  OnlyKnownLeaks'
  <1>0. TypeOK /\ Threads /\ Sessions
    BY DEF Base
  <1>1. ASSUME NEW g \in Gen, NEW h \in Handle, h \in engine'[g] PROVE Accounted(g, h)'
    <2>1. CASE h \in engine[g]
      <3>1. Accounted(g, h)
        BY <2>1 DEF OnlyKnownLeaks, Accounted
      <3>2. ASSUME NEW f \in Fd, tab[f].gen = g, tab[f].handle = h, IsOpen(f) \/ f \in raced
            PROVE  Accounted(g, h)'
        BY <1>1, <2>1, <3>2, RowAccounted DEF Has
      <3>3. ASSUME NEW t \in Thread, Owns(t, g, h) PROVE Accounted(g, h)'
        BY <1>1, <2>1, <3>3, CallAccounted
      <3>4. ASSUME NEW l \in Handle, h \in queue[g][l] PROVE Accounted(g, h)'
        BY <1>1, <2>1, <3>4, QueueAccounted
      <3>5. CASE <<g, h>> \in dropped
        <4>1. <<g, h>> \in dropped'
          BY <1>0, <1>1, <3>5, DroppedKept
        <4> QED
          BY <4>1 DEF Accounted
      <3> QED
        BY <3>1, <3>2, <3>3, <3>4, <3>5 DEF Accounted
    <2>2. CASE h \notin engine[g]
      <3>1. \/ <<g, h>> \in dropped'
            \/ (\E t \in Thread : Owns(t, g, h)') \/ (\E l \in Handle : Queued(l, g, h)')
        BY <1>0, <1>1, <2>2, EngineNew
      <3> QED
        BY <3>1 DEF Accounted, Queued
    <2> QED
      BY <2>1, <2>2
  <1> QED
    BY <1>1 DEF OnlyKnownLeaks, Accounted

---------------------------------------------------------------------------
(* The entries of the pumps and the descriptor table.                      *)

\* A call that has stored its handle goes on by registering it.
LEMMA RegisterNext ==
  ASSUME TypeOK, Threads, TableAssumption, Kind, NEW t \in Thread, pc[t] = "register"
  PROVE  Still(t) \/ Register(t)
  <1>1. ~Quiet(t)
    BY DEF Quiet, ThreadQuiet
  <1>2. ~Stores(t)
    BY DEF Stores
  <1>3. ASSUME NEW f \in Fd, Bind(t, f) PROVE Still(t)
    <2>1. Started(t, f) \/ UNCHANGED <<pc, me>>
      BY <1>3, BindEffect
    <2> QED
      BY <2>1 DEF Started, Still
  <1>4. \A g \in Gen : ~SocketReq(t, g) /\ ~CloseReq(t, g)
    BY DEF SocketReq, CloseReq, Ensured
  <1>5. ~BindReq(t) /\ ~ListenReq(t) /\ ~Discard(t) /\ ~Destroy(t) /\ ~Unregister(t)
    BY DEF BindReq, ListenReq, Discard, Destroy, Unregister
  <1>6. \A c \in Handle, f \in Fd : ~TakeChild(t, c, f)
    BY DEF TakeChild
  <1> QED
    BY <1>1, <1>2, <1>3, <1>4, <1>5, <1>6, ThreadFate DEF Acts

\* A lost entry stays marked until the descriptor is closed or its session ends.
LEMMA ClobberedKept ==
  ASSUME TypeOK, Threads, TableAssumption, Kind, NEW g \in Gen, NEW h \in Handle, <<g, h>> \in clobbered,
         ~IsClosed(g)'
  PROVE  \/ <<g, h>> \in clobbered'
         \/ \E t \in Thread : pc[t] = "unregister" /\ me[t].gen = g /\ me[t].handle = h
  <1>1. ASSUME NEW t \in Thread, Register(t) PROVE <<g, h>> \in clobbered'
    BY <1>1, RegisterEffect
  <1>2. ASSUME NEW t \in Thread, Unregister(t)
        PROVE  <<g, h>> \in clobbered' \/ (pc[t] = "unregister" /\ me[t].gen = g /\ me[t].handle = h)
    BY <1>2, UnregisterEffect
  <1>4. ASSUME NEW k \in Gen, Disconnect(k) PROVE <<g, h>> \in clobbered'
    <2>1. rd'[k] = "closed" /\ Cut(clobbered, clobbered', k)
      BY <1>4, DisconnectEffect
    <2> QED
      BY <2>1 DEF Cut, IsClosed
  <1> QED
    BY <1>1, <1>2, <1>4, PumpSteps

\* What becomes of the entry of a live descriptor.
LEMMA EntryKept ==
  ASSUME TypeOK, Threads, Races, Exclusive, TableAssumption, Kind, NEW f \in Fd, NEW g \in Gen, NEW h \in Handle,
         Has(f, g, h), IsOpen(f), ~IsClosed(g)
  PROVE  /\ recvReg[h].fd = f /\ recvReg[h].gen = g =>
                (recvReg'[h].fd = f /\ recvReg'[h].gen = g) \/ <<g, h>> \in clobbered'
         /\ dgReg[h].fd = f /\ dgReg[h].gen = g =>
                (dgReg'[h].fd = f /\ dgReg'[h].gen = g) \/ <<g, h>> \in clobbered'
  <1> DEFINE Goal == /\ recvReg[h].fd = f /\ recvReg[h].gen = g =>
                           (recvReg'[h].fd = f /\ recvReg'[h].gen = g) \/ <<g, h>> \in clobbered'
                     /\ dgReg[h].fd = f /\ dgReg[h].gen = g =>
                           (dgReg'[h].fd = f /\ dgReg'[h].gen = g) \/ <<g, h>> \in clobbered'
  <1>0. ASSUME NEW t \in Thread, pc[t] \in {"register", "unregister"}, me[t].gen = g, me[t].handle = h
        PROVE  me[t].fd = f /\ pc[t] = "register"
    <2>1. Knows(t, g, h)
      BY <1>0 DEF Threads, ThreadOK, Knows
    <2>2. me[t].fd = f
      BY <2>1 DEF Exclusive, Sole
    <2> QED
      BY <1>0, <2>2 DEF Races
  <1>1. ASSUME NEW t \in Thread, Register(t) PROVE Goal
    <2>1. /\ pc[t] = "register"
          /\ \/ /\ me[t].op \in {"connect", "child"} /\ UNCHANGED dgReg
                /\ Put(recvReg, recvReg', me[t].handle, Entry(t))
             \/ /\ me[t].op \notin {"connect", "child"} /\ UNCHANGED recvReg
                /\ Put(dgReg, dgReg', me[t].handle, Entry(t))
          /\ \A k \in Gen : k # me[t].gen /\ ~IsClosed(k) /\ Replaced(t).gen = k
               => <<k, me[t].handle>> \in clobbered'
      BY <1>1, RegisterEffect
    <2>2. Entry(t).fd = me[t].fd /\ Entry(t).gen = me[t].gen
      BY <2>1, EntryMade
    <2>3. CASE me[t].handle # h
      <3>1. recvReg'[h] = recvReg[h] /\ dgReg'[h] = dgReg[h]
        BY <2>1, <2>3 DEF Put
      <3> QED
        BY <3>1
    <2>4. CASE me[t].handle = h /\ me[t].gen = g
      <3>1. me[t].fd = f
        BY <1>0, <2>1, <2>4
      <3> QED
        BY <2>1, <2>2, <2>4, <3>1 DEF Put
    <2>5. CASE me[t].handle = h /\ me[t].gen # g
      <3>1. CASE me[t].op \in {"connect", "child"}
        <4>1. UNCHANGED dgReg /\ Replaced(t) = recvReg[h]
          BY <2>1, <2>5, <3>1 DEF Replaced
        <4> QED
          BY <2>1, <2>5, <4>1
      <3>2. CASE me[t].op \notin {"connect", "child"}
        <4>1. UNCHANGED recvReg /\ Replaced(t) = dgReg[h]
          BY <2>1, <2>5, <3>2 DEF Replaced
        <4> QED
          BY <2>1, <2>5, <4>1
      <3> QED
        BY <3>1, <3>2
    <2> QED
      BY <2>3, <2>4, <2>5
  <1>2. ASSUME NEW t \in Thread, Unregister(t) PROVE Goal
    <2>1. /\ pc[t] = "unregister"
          /\ Put(recvReg, recvReg', me[t].handle, NoEntry) /\ Put(dgReg, dgReg', me[t].handle, NoEntry)
          /\ \A k \in Gen : /\ k # me[t].gen /\ ~IsClosed(k)
                            /\ k \in {recvReg[me[t].handle].gen, dgReg[me[t].handle].gen}
               => <<k, me[t].handle>> \in clobbered'
      BY <1>2, UnregisterEffect
    <2>2. CASE me[t].handle # h
      <3>1. recvReg'[h] = recvReg[h] /\ dgReg'[h] = dgReg[h]
        BY <2>1, <2>2 DEF Put
      <3> QED
        BY <3>1
    <2>3. CASE me[t].handle = h
      <3>1. me[t].gen # g
        BY <1>0, <2>1, <2>3
      <3> QED
        BY <2>1, <2>3, <3>1
    <2> QED
      BY <2>2, <2>3
  <1>4. UNCHANGED <<recvReg, dgReg>> => Goal
    OBVIOUS
  <1>5. Goal
    BY <1>1, <1>2, <1>4, PumpSteps
  <1> QED
    BY <1>5

\* Every step keeps Registered.
LEMMA RegisteredStep ==
  ASSUME Base, TypeOK', Rows', Races, Held, Registered, TableAssumption, Kind
  PROVE  Registered'
  <1>0. TypeOK /\ Threads /\ Rows /\ Sessions /\ Exclusive
    BY DEF Base
  <1> SUFFICES ASSUME NEW f \in Fd, Live(f)'
               PROVE  Settled(f, tab[f].gen, tab[f].handle)'
    BY DEF Registered
  <1>1. tab'[f].st = "open" /\ ~IsClosed(tab[f].gen)'
    BY DEF Live, IsOpen
  <1>2. CASE /\ Live(f) /\ tab'[f].handle = tab[f].handle /\ tab'[f].gen = tab[f].gen
             /\ tab'[f].dgram = tab[f].dgram
             /\ tab[f].handle \in Handle /\ tab[f].gen \in Gen /\ given[tab[f].gen] > 0
    <2>1. PICK g \in Gen, h \in Handle : g = tab[f].gen /\ h = tab[f].handle
      BY <1>2
    <2>2. /\ Has(f, g, h) /\ given[g] > 0 /\ ~IsClosed(g)' /\ IsOpen(f) /\ ~IsClosed(g)
          /\ g = tab'[f].gen /\ h = tab'[f].handle
      BY <1>1, <1>2, <2>1 DEF Has, IsClosed, Live
    <2>3. Keeps(g, h)
      BY <1>0, EngineStep
    <2>4. Gone(g, h)' => <<g, h>> \in stolen'
      BY <2>2 DEF Gone
    <2>5. Settled(f, g, h)
      BY <1>2, <2>1 DEF Registered
    <2>6. CASE InCall(f, {"close"})
      <3>1. InCall(f, {"close"})'
        BY <1>0, <1>1, <2>6, ClosingKept
      <3> QED
        BY <3>1 DEF Settled
    <2>7. CASE h \in listening[g]
      <3>1. h \in listening'[g] \/ <<g, h>> \in stolen' \/ Lost(g, h)
        BY <2>3, <2>4, <2>7 DEF Keeps
      <3>2. Lost(g, h) => InCall(f, {"close"})'
        BY <1>0, <2>2, LostByClose
      <3> QED
        BY <2>2, <3>1, <3>2 DEF Settled
    <2>8. CASE <<g, h>> \in stolen
      <3>1. <<g, h>> \in stolen'
        BY <2>2, <2>3, <2>4, <2>8 DEF Keeps, Gone
      <3> QED
        BY <2>2, <3>1 DEF Settled
    <2>9. CASE <<g, h>> \in clobbered
      <3>1. ASSUME NEW t \in Thread, pc[t] = "unregister", me[t].gen = g, me[t].handle = h PROVE FALSE
        <4>1. Knows(t, g, h)
          BY <1>0, <3>1 DEF Threads, ThreadOK, Knows
        <4>2. me[t].fd = f
          BY <1>0, <2>2, <4>1 DEF Exclusive, Sole
        <4> QED
          BY <2>2, <3>1, <4>2 DEF Races
      <3>2. <<g, h>> \in clobbered'
        BY <1>0, <2>2, <2>9, <3>1, ClobberedKept
      <3> QED
        BY <2>2, <3>2 DEF Settled
    <2>10. CASE \/ tab[f].dgram /\ dgReg[h].fd = f /\ dgReg[h].gen = g
                \/ ~tab[f].dgram /\ recvReg[h].fd = f /\ recvReg[h].gen = g
      <3>1. \/ tab'[f].dgram /\ dgReg'[h].fd = f /\ dgReg'[h].gen = g
            \/ ~tab'[f].dgram /\ recvReg'[h].fd = f /\ recvReg'[h].gen = g
            \/ <<g, h>> \in clobbered'
        BY <1>0, <1>2, <2>2, <2>10, EntryKept
      <3> QED
        BY <2>2, <3>1 DEF Settled
    <2>11. ASSUME NEW t \in Thread, pc[t] = "register", me[t].fd = f, Knows(t, g, h)
           PROVE  Settled(f, tab[f].gen, tab[f].handle)'
      <3>1. CASE Still(t)
        <4>1. pc'[t] = "register" /\ me'[t].fd = f /\ Knows(t, g, h)'
          BY <2>11, <3>1 DEF Still, Knows
        <4> QED
          BY <2>2, <4>1 DEF Settled
      <3>2. CASE Register(t)
        <4>1. /\ \/ /\ me[t].op \in {"connect", "child"}
                    /\ Put(recvReg, recvReg', me[t].handle, Entry(t))
                 \/ /\ me[t].op \notin {"connect", "child"}
                    /\ Put(dgReg, dgReg', me[t].handle, Entry(t))
          BY <1>0, <3>2, RegisterEffect
        <4>2. Entry(t).fd = f /\ Entry(t).gen = g /\ me[t].handle = h
          BY <1>0, <2>11, EntryMade DEF Knows
        <4>3. IF me[t].op \in {"connect", "child"} THEN ~tab[f].dgram ELSE tab[f].dgram
          BY <1>0, <2>11 DEF Threads, ThreadOK
        <4>4. \/ tab'[f].dgram /\ dgReg'[h].fd = f /\ dgReg'[h].gen = g
              \/ ~tab'[f].dgram /\ recvReg'[h].fd = f /\ recvReg'[h].gen = g
          BY <1>2, <4>1, <4>2, <4>3 DEF Put
        <4> QED
          BY <2>2, <4>4 DEF Settled
      <3> QED
        BY <1>0, <2>11, <3>1, <3>2, RegisterNext
    <2> QED
      BY <2>5, <2>6, <2>7, <2>8, <2>9, <2>10, <2>11 DEF Settled
  <1>3. ASSUME NEW t \in Thread, Stores(t), me[t].fd = f
        PROVE  Settled(f, tab[f].gen, tab[f].handle)'
    <2>1. /\ pc[t] = "store" /\ UNCHANGED <<rd, listening, stolen>>
          /\ tab'[f].handle = me[t].handle /\ tab'[f].gen = me[t].gen
          /\ me[t].op = "listen" \/ (pc'[t] = "register" /\ me'[t] = me[t])
      BY <1>3 DEF Stores, Stored
    <2>2. CASE me[t].op = "listen"
      <3>1. me[t].handle \in listening[me[t].gen] \/ Gone(me[t].gen, me[t].handle)
        BY <2>1, <2>2 DEF Held
      <3>2. tab'[f].handle \in listening'[tab'[f].gen] \/ <<tab'[f].gen, tab'[f].handle>> \in stolen'
        BY <1>1, <2>1, <3>1 DEF Gone, IsClosed
      <3> QED
        BY <3>2 DEF Settled
    <2>3. CASE pc'[t] = "register" /\ me'[t] = me[t]
      BY <1>3, <2>1, <2>3 DEF Settled, Knows
    <2> QED
      BY <2>1, <2>2, <2>3
  <1>4. ASSUME NEW t \in Thread, NEW c \in Handle, Adopted(t, c, f)
        PROVE  Settled(f, tab[f].gen, tab[f].handle)'
    <2>1. /\ pc'[t] = "register" /\ me'[t].fd = f /\ me'[t].gen = tab'[f].gen
          /\ me'[t].handle = tab'[f].handle
      BY <1>4 DEF Adopted
    <2> QED
      BY <2>1 DEF Settled, Knows
  <1> QED
    BY <1>0, <1>2, <1>3, <1>4, LiveWas

\* A close() that has removed its descriptor from the table goes on to the pumps.
LEMMA UnregisterNext ==
  ASSUME TypeOK, Threads, TableAssumption, Kind, NEW t \in Thread, pc[t] = "unregister"
  PROVE  Still(t) \/ Unregister(t)
  <1>1. ~Quiet(t)
    BY DEF Quiet, ThreadQuiet
  <1>2. ~Stores(t)
    BY DEF Stores
  <1>3. ASSUME NEW f \in Fd, Bind(t, f) PROVE Still(t)
    <2>1. Started(t, f) \/ UNCHANGED <<pc, me>>
      BY <1>3, BindEffect
    <2> QED
      BY <2>1 DEF Started, Still
  <1>4. \A g \in Gen : ~SocketReq(t, g) /\ ~CloseReq(t, g)
    BY DEF SocketReq, CloseReq, Ensured
  <1>5. ~BindReq(t) /\ ~ListenReq(t) /\ ~Discard(t) /\ ~Destroy(t) /\ ~Register(t)
    BY DEF BindReq, ListenReq, Discard, Destroy, Register
  <1>6. \A c \in Handle, f \in Fd : ~TakeChild(t, c, f)
    BY DEF TakeChild
  <1> QED
    BY <1>1, <1>2, <1>3, <1>4, <1>5, <1>6, ThreadFate DEF Acts

\* Where an entry comes from.
LEMMA EntryFrom ==
  ASSUME TypeOK, Threads, TableAssumption, Kind, NEW f \in Fd, NEW h \in Handle,
         recvReg'[h].fd = f \/ dgReg'[h].fd = f
  PROVE  \/ \E t \in Thread : Register(t) /\ me[t].fd = f
         \/ /\ recvReg[h].fd = f \/ dgReg[h].fd = f
            /\ \A t \in Thread : Unregister(t) => me[t].handle # h
  <1>0. f # None
    BY Basics
  <1>1. ASSUME NEW t \in Thread, Register(t)
        PROVE  me[t].fd = f \/ recvReg[h].fd = f \/ dgReg[h].fd = f
    <2>1. /\ pc[t] = "register"
          /\ \/ UNCHANGED dgReg /\ Put(recvReg, recvReg', me[t].handle, Entry(t))
             \/ UNCHANGED recvReg /\ Put(dgReg, dgReg', me[t].handle, Entry(t))
      BY <1>1, RegisterEffect
    <2>2. Entry(t).fd = me[t].fd
      BY <2>1, EntryMade
    <2> QED
      BY <2>1, <2>2 DEF Put
  <1>2. ASSUME NEW t \in Thread, Unregister(t)
        PROVE  me[t].handle # h /\ (recvReg[h].fd = f \/ dgReg[h].fd = f)
    <2>1. Put(recvReg, recvReg', me[t].handle, NoEntry) /\ Put(dgReg, dgReg', me[t].handle, NoEntry)
      BY <1>2, UnregisterEffect
    <2>2. NoEntry.fd = None
      BY DEF NoEntry
    <2> QED
      BY <1>0, <2>1, <2>2 DEF Put
  <1> QED
    BY <1>1, <1>2, PumpSteps

\* As long as nobody removes what is under number h, an open descriptor that has it
\* is not closed without a close() that will.
LEMMA OpenKept ==
  ASSUME Base, TypeOK', Races, TableAssumption, Kind, NEW f \in Fd, NEW h \in Handle, f \notin raced,
         StaysOpen(f, h), \A t \in Thread : Unregister(t) => me[t].handle # h
  PROVE  StaysOpen(f, h)'
  <1>0. TypeOK /\ Threads /\ Rows /\ Sessions /\ Exclusive
    BY DEF Base
  <1>1. f # None /\ h # None
    BY Basics
  <1>2. CASE tab'[f] = tab[f] \/ Named(f)
    <2>1. tab'[f].st = tab[f].st /\ tab'[f].handle = tab[f].handle
      BY <1>2 DEF Named
    <2>2. CASE InCall(f, {"close"}) /\ ~IsOpen(f) /\ tab[f].handle = h
      <3>1. PICK t \in Thread : me[t].fd = f /\ me[t].op = "close"
        BY <2>2 DEF InCall
      <3>2. pc[t] = "unregister"
        BY <1>1, <2>2, <3>1 DEF Races
      <3>3. me[t].handle = h
        BY <2>2, <3>1, <3>2 DEF Races, Has
      <3>4. Still(t)
        BY <1>0, <3>2, <3>3, UnregisterNext
      <3> QED
        BY <3>1, <3>4 DEF Still, InCall, StaysOpen
    <2> QED
      BY <2>1, <2>2 DEF StaysOpen, IsOpen
  <1>3. ASSUME NEW t \in Thread, Closes(t, f) PROVE StaysOpen(f, h)'
    BY <1>1, <1>3 DEF Closes, InCall, StaysOpen
  <1>4. ASSUME NEW t \in Thread, Stores(t), me[t].fd = f PROVE StaysOpen(f, h)'
    BY <1>4 DEF Stores, Stored, StaysOpen, IsOpen
  <1>5. Opens(f) \/ (\E t \in Thread, c \in Handle : Adopted(t, c, f)) => StaysOpen(f, h)'
    BY DEF Opens, Adopted, StaysOpen, IsOpen
  <1> QED
    BY <1>0, <1>2, <1>3, <1>4, <1>5, RowFate

\* Every step keeps PumpsOpen.
LEMMA PumpsOpenStep ==
  ASSUME Base, TypeOK', Races, PumpsOpen, TableAssumption, Kind
  PROVE  PumpsOpen'
  <1>0. TypeOK /\ Threads /\ Rows /\ Sessions /\ Exclusive
    BY DEF Base
  <1> SUFFICES ASSUME NEW h \in Handle, NEW f \in Fd, recvReg'[h].fd = f \/ dgReg'[h].fd = f, f \notin raced'
               PROVE  StaysOpen(f, h)'
    BY DEF PumpsOpen
  <1>2. f \notin raced /\ f # None
    BY <1>0, RacedKept, Basics
  <1>3. ASSUME NEW t \in Thread, Register(t), me[t].fd = f PROVE StaysOpen(f, h)'
    <2>1. pc[t] = "register" /\ UNCHANGED tab
      BY <1>3 DEF Register
    <2>2. IsOpen(f)
      BY <1>2, <1>3, <2>1 DEF Races
    <2> QED
      BY <2>1, <2>2 DEF IsOpen, StaysOpen
  <1>4. CASE /\ recvReg[h].fd = f \/ dgReg[h].fd = f
             /\ \A t \in Thread : Unregister(t) => me[t].handle # h
    <2>1. StaysOpen(f, h)
      BY <1>2, <1>4 DEF PumpsOpen
    <2> QED
      BY <1>2, <1>4, <2>1, OpenKept
  <1> QED
    BY <1>0, <1>3, <1>4, EntryFrom

---------------------------------------------------------------------------
(* The first part of the invariant as a whole.                             *)

\* The initial state satisfies the inductive invariant.
LEMMA CoreInit ==
  ASSUME Init, TableAssumption
  PROVE  CoreInv
  <1>1. TypeOK
    BY TypeInit
  <1>2. /\ \A t \in Thread : /\ pc[t] = "idle" /\ me[t].op = "none" /\ me[t].fd = None
                             /\ me[t].gen = None /\ me[t].handle = None
        /\ \A f \in Fd : tab[f].st = "free" /\ tab[f].handle = None
    BY DEF Init, Idle, Free
  <1>3. \A g \in Gen : /\ rd[g] = "none" /\ engine[g] = {} /\ listening[g] = {}
                       /\ given[g] = 0 /\ \A l \in Handle : queue[g][l] = {}
    BY DEF Init
  <1>4. \A h \in Handle : /\ recvReg[h].fd = None /\ recvReg[h].gen = None
                          /\ dgReg[h].fd = None /\ dgReg[h].gen = None
    BY DEF Init, NoEntry
  <1>5. Threads
    BY <1>2 DEF Threads, ThreadOK, Carries
  <1>6. Rows
    BY <1>2 DEF Rows
  <1>7. Entries
    BY <1>4 DEF Entries, EntryOK
  <1>8. Sessions
    BY <1>3 DEF Sessions
  <1>9. Exclusive
    <2>1. ASSUME NEW g \in Gen, NEW h \in Handle
          PROVE  /\ \A f \in Fd : ~Has(f, g, h)
                 /\ \A t \in Thread : ~Owns(t, g, h) /\ ~Knows(t, g, h)
                 /\ \A l \in Handle : ~Queued(l, g, h)
      BY <1>2, <1>3, Basics DEF Has, Owns, Knows, Queued
    <2> QED
      BY <2>1 DEF Exclusive, Sole
  <1>10. \A f \in Fd : ~Live(f)
    BY <1>2 DEF Live, IsOpen
  <1>11. Races
    BY <1>2 DEF Races
  <1>12. Held
    BY <1>2, <1>3 DEF Held, Queued
  <1>13. ClosesDone
    BY <1>2 DEF ClosesDone
  <1>14. EngineKeeps /\ Registered
    BY <1>10 DEF EngineKeeps, Registered
  <1>15. OnlyKnownLeaks
    BY <1>3 DEF OnlyKnownLeaks
  <1>16. PumpsOpen
    BY <1>4, Basics DEF PumpsOpen
  <1> QED
    BY <1>1, <1>5, <1>6, <1>7, <1>8, <1>9, <1>11, <1>12, <1>13, <1>14, <1>15, <1>16 DEF CoreInv, Base

\* A step that leaves the table, the sessions, the calls and two of the pumps alone
\* keeps the first part of the invariant.
LEMMA CoreSame ==
  ASSUME CoreInv, UNCHANGED core, UNCHANGED <<pc, me>>
  PROVE  CoreInv'
  <1>0. /\ TypeOK /\ Threads /\ Rows /\ Entries /\ Sessions /\ Exclusive
        /\ Races /\ Held /\ EngineKeeps /\ ClosesDone /\ OnlyKnownLeaks
        /\ Registered /\ PumpsOpen
    BY DEF CoreInv, Base
  <1>1. /\ UNCHANGED <<tab, client, rd, recvReg, dgReg, pc, me, calls, raced>>
        /\ UNCHANGED <<engine, given, listening, queue>>
        /\ UNCHANGED <<dropped, clobbered, stolen>>
    BY DEF core
  <1>2. TypeOK'
    BY <1>0, <1>1 DEF TypeOK
  <1>3. Threads' /\ Rows'
    BY <1>0, <1>1 DEF Threads, ThreadOK, Rows
  <1>4. Entries'
    BY <1>0, <1>1 DEF Entries, EntryOK
  <1>5. Sessions'
    BY <1>0, <1>1 DEF Sessions, IsClosed
  <1>6. Exclusive'
    BY <1>0, <1>1 DEF Exclusive, Sole, Has, Owns, Knows, Queued
  <1>7. Races'
    BY <1>0, <1>1 DEF Races, IsOpen, Has
  <1>8. Held'
    BY <1>0, <1>1 DEF Held, Gone, IsClosed, NeedsBind, Queued
  <1>9. EngineKeeps' /\ ClosesDone'
    BY <1>0, <1>1 DEF EngineKeeps, Live, IsOpen, IsClosed, InCall, ClosesDone
  <1>10. OnlyKnownLeaks'
    BY <1>0, <1>1 DEF OnlyKnownLeaks, IsOpen, Owns
  <1>11. Registered'
    BY <1>0, <1>1 DEF Registered, Settled, Live, IsOpen, IsClosed, InCall, Knows
  <1>12. PumpsOpen'
    BY <1>0, <1>1 DEF PumpsOpen, StaysOpen, IsOpen, InCall
  <1> QED
    BY <1>2, <1>3, <1>4, <1>5, <1>6, <1>7, <1>8, <1>9, <1>10, <1>11, <1>12 DEF CoreInv, Base

\* Every step keeps the first part of the invariant.
LEMMA CoreStep ==
  ASSUME CoreInv, Next, TableAssumption
  PROVE  CoreInv'
  <1>0. /\ Base /\ TypeOK /\ Threads /\ Rows /\ Entries /\ Sessions /\ Exclusive
        /\ Races /\ Held /\ EngineKeeps /\ ClosesDone /\ OnlyKnownLeaks
        /\ Registered /\ PumpsOpen
    BY DEF CoreInv, Base
  <1>1. CASE Kind
    <2>2. TypeOK' /\ Threads'
      BY <1>0, TypeStep, ThreadsStep
    <2>3. Rows' /\ Entries' /\ Sessions' /\ Exclusive'
      BY <1>0, <1>1, <2>2, RowsStep, EntriesStep, SessionsStep, ExclusiveStep
    <2>4. Base'
      BY <2>2, <2>3 DEF Base
    <2>5. Races' /\ Held'
      BY <1>0, <1>1, <2>2, RacesStep, HeldStep
    <2>6. EngineKeeps' /\ ClosesDone' /\ OnlyKnownLeaks'
      BY <1>0, <1>1, <2>2, <2>3, EngineKeepsStep, ClosesDoneStep, LeaksStep
    <2>7. Registered' /\ PumpsOpen'
      BY <1>0, <1>1, <2>2, <2>3, RegisteredStep, PumpsOpenStep
    <2> QED
      BY <2>4, <2>5, <2>6, <2>7 DEF CoreInv
  <1>2. CASE Resolves
    BY <1>2, ResolvesEffect, CoreSame
  <1> QED
    BY <1>0, <1>1, <1>2, Kinds

---------------------------------------------------------------------------
(* The outbound pump and the gates.                                        *)

\* Which steps touch the outbound pump, the gates or their histories.
LEMMA LinkMoves ==
  ASSUME Next
  PROVE  \/ UNCHANGED linkVars
         \/ \E t \in Thread : LinkUp(t) \/ ArmGate(t) \/ Unregister(t)
         \/ \E h \in Handle : ResolveGate(h)
         \/ \E e \in resolving : ResolveDone(e[1], e[2])
         \/ \E g \in Gen : Disconnect(g) \/ Shut(g)
  <1>1. \A f \in Fd, dgram \in BOOLEAN : Socket(f, dgram) => UNCHANGED linkVars
    BY DEF Socket
  <1>2. \A t \in Thread, f \in Fd :
          Bind(t, f) \/ Listen(t, f) \/ Connect(t, f) \/ Accept(t, f) \/ Send(t, f) \/ Close(t, f)
             => UNCHANGED linkVars
    BY DEF Bind, Listen, Connect, Accept, Send, Close
  <1>3. \A t \in Thread : Look(t) \/ EnsureFails(t) \/ BindReq(t) \/ BindFails(t) \/ ListenReq(t) \/ ListenFails(t)
             => UNCHANGED linkVars
    BY DEF Look, EnsureFails, BindReq, BindFails, ListenReq, ListenFails
  <1>4. \A t \in Thread, g \in Gen :
          SocketReq(t, g) \/ SocketFails(t, g) \/ SendReq(t, g) \/ Wait(t, g) \/ CloseReq(t, g)
             => UNCHANGED linkVars
    BY DEF SocketReq, SocketFails, SendReq, Wait, CloseReq
  <1>5. \A t \in Thread : StoreStream(t) \/ StoreDgram(t) \/ Discard(t) \/ Register(t) \/ LinkFails(t)
             => UNCHANGED linkVars
    BY DEF StoreStream, StoreDgram, Discard, Register, LinkFails
  <1>6. \A t \in Thread, c \in Handle, f \in Fd : TakeChild(t, c, f) => UNCHANGED linkVars
    BY DEF TakeChild
  <1>7. \A t \in Thread, c \in Handle : TakeNoFile(t, c) => UNCHANGED linkVars
    BY DEF TakeNoFile
  <1>8. \A t \in Thread : TakeNothing(t) \/ Destroy(t) => UNCHANGED linkVars
    BY DEF TakeNothing, Destroy
  <1>9. \A g \in Gen, l \in Handle : Incoming(g, l) => UNCHANGED linkVars
    BY DEF Incoming
  <1> QED
    BY <1>1, <1>2, <1>3, <1>4, <1>5, <1>6, <1>7, <1>8, <1>9 DEF Next

\* What each of them does.
LEMMA LinkUpEffect ==
  ASSUME TypeOK, Threads, LinkTypeOK, TableAssumption, NEW t \in Thread, LinkUp(t)
  PROVE  /\ pc[t] = "link" /\ me[t].handle \in Handle /\ me[t].gen \in Gen /\ Entry(t) \in Reg
         /\ outReg' \in [Handle -> Reg]
         /\ \A k \in Handle : outReg'[k] = IF k = me[t].handle /\ outReg[k].fd = None
                                           THEN Entry(t) ELSE outReg[k]
         /\ UNCHANGED <<gates, resolving, gated>>
         /\ linked \subseteq linked'
         /\ \A g \in Gen, h \in Handle : <<g, h>> \in linked' =>
               <<g, h>> \in linked \/ (g = me[t].gen /\ h = me[t].handle /\ ~IsClosed(g) /\ outReg'[h].gen = g)
         /\ linked' \subseteq Gen \X Handle
  <1>1. pc[t] = "link" /\ UNCHANGED <<gates, resolving, gated>>
        /\ outReg' = OrInsert(outReg, me[t].handle, Entry(t))
    BY DEF LinkUp
  <1>2. me[t].handle \in Handle /\ me[t].gen \in Gen /\ Entry(t) \in Reg
    BY <1>1, Carried, EntryMade DEF Carries
  <1>3. /\ outReg' \in [Handle -> Reg]
        /\ \A k \in Handle : outReg'[k] = IF k = me[t].handle /\ outReg[k].fd = None
                                          THEN Entry(t) ELSE outReg[k]
    BY <1>1, <1>2 DEF LinkTypeOK, OrInsert
  <1>4. linked' = IF ~IsClosed(me[t].gen) /\ outReg'[me[t].handle].gen = me[t].gen
                  THEN linked \cup {<<me[t].gen, me[t].handle>>} ELSE linked
    BY DEF LinkUp
  <1>5. /\ linked \subseteq linked'
        /\ \A g \in Gen, h \in Handle : <<g, h>> \in linked' =>
              <<g, h>> \in linked \/ (g = me[t].gen /\ h = me[t].handle /\ ~IsClosed(g) /\ outReg'[h].gen = g)
        /\ linked' \subseteq Gen \X Handle
    BY <1>2, <1>4 DEF LinkTypeOK
  <1> QED
    BY <1>1, <1>2, <1>3, <1>5

\* A non-blocking connect leaves its gate.
LEMMA ArmGateEffect ==
  ASSUME TypeOK, Threads, LinkTypeOK, TableAssumption, NEW t \in Thread, ArmGate(t)
  PROVE  /\ pc[t] = "link" /\ me[t].handle \in Handle /\ me[t].fd \in Fd /\ Entry(t) \in Reg
         /\ Entry(t).fd = me[t].fd
         /\ Put(gates, gates', me[t].handle, Entry(t)) /\ gated' = gated \cup {me[t].fd}
         /\ UNCHANGED <<outReg, resolving, linked>>
  <1>1. /\ pc[t] = "link" /\ gates' = [gates EXCEPT ![me[t].handle] = Entry(t)]
        /\ gated' = gated \cup {me[t].fd} /\ UNCHANGED <<outReg, resolving, linked>>
    BY DEF ArmGate, Insert
  <1>2. me[t].handle \in Handle /\ me[t].fd \in Fd /\ Entry(t) \in Reg /\ Entry(t).fd = me[t].fd
    BY <1>1, Carried, EntryMade DEF Carries
  <1> QED
    BY <1>1, <1>2 DEF Put, LinkTypeOK

\* close() takes both away under its number.
LEMMA UnlinkEffect ==
  ASSUME TypeOK, Threads, LinkTypeOK, TableAssumption, NEW t \in Thread, Unregister(t)
  PROVE  /\ me[t].handle \in Handle
         /\ Put(outReg, outReg', me[t].handle, NoEntry) /\ Put(gates, gates', me[t].handle, NoEntry)
         /\ UNCHANGED <<resolving, linked, gated>>
  <1>1. /\ pc[t] = "unregister" /\ UNCHANGED <<resolving, linked, gated>>
        /\ outReg' = [outReg EXCEPT ![me[t].handle] = NoEntry]
        /\ gates' = [gates EXCEPT ![me[t].handle] = NoEntry]
    BY DEF Unregister, Remove
  <1>2. me[t].handle \in Handle
    BY <1>1 DEF Threads, ThreadOK
  <1> QED
    BY <1>1, <1>2, Basics DEF Put, LinkTypeOK

\* A gate is taken out, ...
LEMMA ResolveGateEffect ==
  ASSUME LinkTypeOK, TableAssumption, NEW h \in Handle, ResolveGate(h)
  PROVE  /\ Put(gates, gates', h, NoEntry) /\ gates[h] \in Reg
         /\ resolving' = resolving \cup {<<h, gates[h]>>} /\ UNCHANGED <<outReg, linked, gated>>
  BY Basics DEF ResolveGate, Put, LinkTypeOK

\* ... and its descriptor registered.
LEMMA ResolveDoneEffect ==
  ASSUME LinkTypeOK, TableAssumption, NEW r \in resolving, ResolveDone(r[1], r[2])
  PROVE  /\ r[1] \in Handle /\ r[2] \in Reg /\ r = <<r[1], r[2]>>
         /\ outReg' \in [Handle -> Reg]
         /\ \A k \in Handle : outReg'[k] = IF k = r[1] /\ outReg[k].fd = None THEN r[2] ELSE outReg[k]
         /\ resolving' \subseteq resolving /\ UNCHANGED <<gates, linked, gated>>
  <1>1. r[1] \in Handle /\ r[2] \in Reg /\ r = <<r[1], r[2]>>
    BY DEF LinkTypeOK
  <1>2. /\ outReg' = OrInsert(outReg, r[1], r[2]) /\ resolving' \subseteq resolving
        /\ UNCHANGED <<gates, linked, gated>>
    BY DEF ResolveDone
  <1> QED
    BY <1>1, <1>2 DEF LinkTypeOK, OrInsert

\* The end of a session releases the gates.
LEMMA ReleaseEffect ==
  ASSUME LinkTypeOK, TableAssumption, NEW g \in Gen, Shut(g)
  PROVE  /\ gates' \in [Handle -> Reg] /\ \A h \in Handle : gates'[h] = NoEntry
         /\ resolving' \subseteq Handle \X Reg
         /\ \A h \in Handle, e \in Reg : <<h, e>> \in resolving' => <<h, e>> \in resolving \/ gates[h] = e
         /\ UNCHANGED <<outReg, linked, gated>>
  <1>1. /\ gates' = [h \in Handle |-> NoEntry] /\ UNCHANGED <<outReg, linked, gated>>
        /\ resolving' = resolving \cup {<<h, gates[h]>> : h \in {h \in Handle : gates[h].fd # None}}
    BY DEF Shut
  <1> QED
    BY <1>1, Basics DEF LinkTypeOK

\* The end of a session leaves them alone and forgets its handles.
LEMMA UnlinkAllEffect ==
  ASSUME LinkTypeOK, NEW g \in Gen, Disconnect(g)
  PROVE  /\ UNCHANGED <<outReg, gates, resolving, gated>> /\ linked' \subseteq linked
         /\ \A h \in Handle : <<g, h>> \notin linked'
  BY DEF Disconnect

\* The types of these variables are kept.
LEMMA LinkTypeStep ==
  ASSUME TypeOK, Threads, LinkTypeOK, TableAssumption, Next
  PROVE  LinkTypeOK'
  <1>1. CASE UNCHANGED linkVars
    BY <1>1 DEF linkVars, LinkTypeOK
  <1>2. ASSUME NEW t \in Thread, LinkUp(t) PROVE LinkTypeOK'
    BY <1>2, LinkUpEffect DEF LinkTypeOK
  <1>3. ASSUME NEW t \in Thread, ArmGate(t) PROVE LinkTypeOK'
    BY <1>3, ArmGateEffect DEF LinkTypeOK, Put
  <1>4. ASSUME NEW t \in Thread, Unregister(t) PROVE LinkTypeOK'
    BY <1>4, UnlinkEffect DEF LinkTypeOK, Put
  <1>5. ASSUME NEW h \in Handle, ResolveGate(h) PROVE LinkTypeOK'
    BY <1>5, ResolveGateEffect DEF LinkTypeOK, Put
  <1>6. ASSUME NEW r \in resolving, ResolveDone(r[1], r[2]) PROVE LinkTypeOK'
    BY <1>6, ResolveDoneEffect DEF LinkTypeOK
  <1>7. ASSUME NEW g \in Gen, Disconnect(g) PROVE LinkTypeOK'
    BY <1>7, UnlinkAllEffect DEF LinkTypeOK
  <1>8. ASSUME NEW g \in Gen, Shut(g) PROVE LinkTypeOK'
    BY <1>8, ReleaseEffect DEF LinkTypeOK
  <1> QED
    BY <1>1, <1>2, <1>3, <1>4, <1>5, <1>6, <1>7, <1>8, LinkMoves

\* Where an entry of the outbound pump or of the gates comes from.
LEMMA LinkFrom ==
  ASSUME TypeOK, Threads, LinkTypeOK, TableAssumption, Next,
         NEW h \in Handle, NEW e \in Reg, LinkEntry(h, e)'
  PROVE  \/ LinkEntry(h, e) \/ e = NoEntry
         \/ \E t \in Thread : pc[t] = "link" /\ me[t].handle = h /\ e = Entry(t)
  <1> DEFINE Goal == \/ LinkEntry(h, e) \/ e = NoEntry
                     \/ \E t \in Thread : pc[t] = "link" /\ me[t].handle = h /\ e = Entry(t)
  <1>0. outReg'[h] = e \/ gates'[h] = e \/ <<h, e>> \in resolving'
    BY DEF LinkEntry
  <1>1. CASE UNCHANGED linkVars
    BY <1>0, <1>1 DEF linkVars, LinkEntry
  <1>2. ASSUME NEW t \in Thread, LinkUp(t) PROVE Goal
    BY <1>0, <1>2, LinkUpEffect DEF LinkEntry
  <1>3. ASSUME NEW t \in Thread, ArmGate(t) PROVE Goal
    BY <1>0, <1>3, ArmGateEffect DEF LinkEntry, Put
  <1>4. ASSUME NEW t \in Thread, Unregister(t) PROVE Goal
    BY <1>0, <1>4, UnlinkEffect DEF LinkEntry, Put
  <1>5. ASSUME NEW k \in Handle, ResolveGate(k) PROVE Goal
    BY <1>0, <1>5, ResolveGateEffect DEF LinkEntry, Put
  <1>6. ASSUME NEW r \in resolving, ResolveDone(r[1], r[2]) PROVE Goal
    BY <1>0, <1>6, ResolveDoneEffect DEF LinkEntry
  <1>7. ASSUME NEW g \in Gen, Disconnect(g) PROVE Goal
    BY <1>0, <1>7, UnlinkAllEffect DEF LinkEntry
  <1>8. ASSUME NEW g \in Gen, Shut(g) PROVE Goal
    BY <1>0, <1>8, ReleaseEffect DEF LinkEntry
  <1> QED
    BY <1>1, <1>2, <1>3, <1>4, <1>5, <1>6, <1>7, <1>8, LinkMoves

\* A descriptor that alone may have a handle goes on being the only one.
LEMMA MineKept ==
  ASSUME TypeOK, TypeOK', Threads, Threads', TableAssumption, Kind,
         NEW f, NEW g \in Gen, NEW h \in Handle, Mine(f, g, h)
  PROVE  Mine(f, g, h)'
  <1>1. CASE ClaimsShrink(g, h)
    <2>1. h <= given[g] /\ given[g] <= given'[g]
      BY <1>1 DEF Mine, ClaimsShrink
    <2>2. h \in Int /\ given[g] \in Int /\ given'[g] \in Int
      BY DEF TypeOK, Handle
    <2>3. h <= given'[g]
      BY <2>1, <2>2
    <2> QED
      BY <1>1, <2>3 DEF Mine, ClaimsShrink
  <1>2. ~Gains(g, h)
    <2>1. ASSUME NEW t \in Thread, Stores(t), me[t].gen = g, me[t].handle = h PROVE FALSE
      <3>1. Owns(t, g, h)
        BY <2>1 DEF Stores, Owns
      <3> QED
        BY <3>1 DEF Mine
    <2>2. h # given[g] + 1
      <3>1. h <= given[g] /\ given[g] \in Int /\ h \in Int
        BY DEF Mine, TypeOK, Handle
      <3> QED
        BY <3>1
    <2>3. ASSUME NEW t \in Thread, NEW e \in Fd, TakeChild(t, h, e), me[t].gen = g PROVE FALSE
      <3>1. pc[t] = "take" /\ h \in queue[g][me[t].handle]
        BY <2>3 DEF TakeChild
      <3>2. me[t].handle \in Handle
        BY <3>1, Carried
      <3> QED
        BY <3>1, <3>2 DEF Mine, Queued
    <2> QED
      BY <2>1, <2>2, <2>3 DEF Gains
  <1> QED
    BY <1>1, <1>2, ClaimsFate

\* The entry of a call whose link is awaited is the handle's only descriptor.
LEMMA LinkMine ==
  ASSUME TypeOK, Threads, Exclusive, TableAssumption, NEW t \in Thread, pc[t] = "link"
  PROVE  /\ me[t].gen \in Gen /\ me[t].handle \in Handle /\ me[t].fd \in Fd
         /\ Entry(t).fd = me[t].fd /\ Entry(t).gen = me[t].gen
         /\ Mine(me[t].fd, me[t].gen, me[t].handle)
  <1>1. /\ me[t].gen \in Gen /\ me[t].handle \in Handle /\ me[t].fd \in Fd
        /\ Entry(t).fd = me[t].fd /\ Entry(t).gen = me[t].gen
    BY Carried, EntryMade DEF Carries
  <1>2. PICK g \in Gen, h \in Handle : g = me[t].gen /\ h = me[t].handle
    BY <1>1
  <1>3. Knows(t, g, h) /\ Sole(g, h)
    BY <1>2 DEF Knows, Exclusive
  <1>4. Mine(me[t].fd, g, h)
    BY <1>3 DEF Sole, Mine
  <1> QED
    BY <1>1, <1>2, <1>4

\* Every step keeps LinkEntries.
LEMMA LinkEntriesStep ==
  ASSUME TypeOK, TypeOK', Threads, Threads', Rows, Exclusive, LinkTypeOK, LinkEntries, TableAssumption, Next
  PROVE  LinkEntries'
  <1> SUFFICES ASSUME NEW h \in Handle, NEW e \in Reg, LinkEntry(h, e)'
               PROVE  /\ e.fd = None <=> e.gen = None
                      /\ e.fd # None => Mine(e.fd, e.gen, h)'
    BY DEF LinkEntries
  <1>1. /\ e.fd = None <=> e.gen = None
        /\ e.fd # None => Mine(e.fd, e.gen, h)
    <2>1. CASE LinkEntry(h, e)
      BY <2>1 DEF LinkEntries
    <2>2. CASE e = NoEntry
      BY <2>2 DEF NoEntry
    <2>3. ASSUME NEW t \in Thread, pc[t] = "link", me[t].handle = h, e = Entry(t)
          PROVE  /\ e.fd = None <=> e.gen = None
                 /\ e.fd # None => Mine(e.fd, e.gen, h)
      BY <2>3, LinkMine, Basics
    <2> QED
      BY <2>1, <2>2, <2>3, LinkFrom
  <1>2. SUFFICES ASSUME e.fd # None PROVE Mine(e.fd, e.gen, h)'
    BY <1>1
  <1>3. PICK f \in Fd, g \in Gen : f = e.fd /\ g = e.gen
    BY <1>1, <1>2 DEF Reg
  <1>4. Mine(f, g, h)
    BY <1>1, <1>2, <1>3
  <1>5. CASE Kind
    BY <1>3, <1>4, <1>5, MineKept
  <1>6. CASE Resolves
    <2>1. UNCHANGED <<tab, given, queue, pc, me>>
      BY <1>6, ResolvesEffect DEF core
    <2> QED
      BY <1>3, <1>4, <2>1 DEF Mine, Has, Owns, Queued
  <1> QED
    BY <1>5, <1>6, Kinds

\* Every step keeps GatedEntries.
LEMMA GatedStep ==
  ASSUME TypeOK, Threads, LinkTypeOK, GatedEntries, TableAssumption, Next
  PROVE  GatedEntries' /\ gated \subseteq gated'
  <1> DEFINE Goal == /\ gated \subseteq gated'
                     /\ \A h \in Handle, e \in Reg :
                           (gates'[h] = e \/ <<h, e>> \in resolving') /\ e.fd # None => e.fd \in gated'
  <1>0. NoEntry.fd = None
    BY DEF NoEntry
  <1>1. ASSUME UNCHANGED linkVars PROVE Goal
    BY <1>1 DEF linkVars, GatedEntries
  <1>2. ASSUME NEW t \in Thread, LinkUp(t) PROVE Goal
    BY <1>2, LinkUpEffect DEF GatedEntries
  <1>3. ASSUME NEW t \in Thread, ArmGate(t) PROVE Goal
    BY <1>3, ArmGateEffect DEF GatedEntries, Put
  <1>4. ASSUME NEW t \in Thread, Unregister(t) PROVE Goal
    BY <1>0, <1>4, UnlinkEffect DEF GatedEntries, Put
  <1>5. ASSUME NEW k \in Handle, ResolveGate(k) PROVE Goal
    BY <1>0, <1>5, ResolveGateEffect DEF GatedEntries, Put
  <1>6. ASSUME NEW r \in resolving, ResolveDone(r[1], r[2]) PROVE Goal
    BY <1>6, ResolveDoneEffect DEF GatedEntries
  <1>7. ASSUME NEW g \in Gen, Disconnect(g) PROVE Goal
    BY <1>7, UnlinkAllEffect DEF GatedEntries
  <1>8. ASSUME NEW g \in Gen, Shut(g) PROVE Goal
    BY <1>0, <1>8, ReleaseEffect DEF GatedEntries
  <1>9. Goal
    BY <1>1, <1>2, <1>3, <1>4, <1>5, <1>6, <1>7, <1>8, LinkMoves
  <1> QED
    BY <1>9 DEF GatedEntries

\* Where an entry of the outbound pump comes from, if not from a gate.
LEMMA OutFrom ==
  ASSUME TypeOK, Threads, LinkTypeOK, GatedEntries, TableAssumption, Next,
         NEW h \in Handle, NEW f \in Fd, outReg'[h].fd = f, f \notin gated
  PROVE  \/ \E t \in Thread : pc[t] = "link" /\ LinkUp(t) /\ me[t].fd = f
         \/ outReg[h].fd = f /\ \A t \in Thread : Unregister(t) => me[t].handle # h
  <1> DEFINE Goal == \/ \E t \in Thread : pc[t] = "link" /\ LinkUp(t) /\ me[t].fd = f
                     \/ outReg[h].fd = f
  <1>0. NoEntry.fd = None /\ f # None
    BY Basics DEF NoEntry
  <1>1. ASSUME UNCHANGED linkVars PROVE Goal
    BY <1>1 DEF linkVars
  <1>2. ASSUME NEW t \in Thread, LinkUp(t) PROVE Goal
    <2>1. /\ pc[t] = "link"
          /\ outReg'[h] = outReg[h] \/ outReg'[h] = Entry(t)
      BY <1>2, LinkUpEffect
    <2>2. Entry(t).fd = me[t].fd
      BY <2>1, EntryMade
    <2> QED
      BY <1>2, <2>1, <2>2
  <1>3. ASSUME NEW t \in Thread, ArmGate(t) PROVE Goal
    BY <1>3, ArmGateEffect
  <1>4. ASSUME NEW t \in Thread, Unregister(t) PROVE outReg[h].fd = f /\ me[t].handle # h
    BY <1>0, <1>4, UnlinkEffect DEF Put
  <1>5. ASSUME NEW k \in Handle, ResolveGate(k) PROVE Goal
    BY <1>5, ResolveGateEffect
  <1>6. ASSUME NEW r \in resolving, ResolveDone(r[1], r[2]) PROVE Goal
    <2>1. /\ r[1] \in Handle /\ r[2] \in Reg /\ <<r[1], r[2]>> \in resolving
          /\ outReg'[h] = outReg[h] \/ outReg'[h] = r[2]
      BY <1>6, ResolveDoneEffect
    <2>2. r[2].fd # f
      BY <1>0, <2>1 DEF GatedEntries
    <2> QED
      BY <2>1, <2>2
  <1>7. ASSUME NEW g \in Gen, Disconnect(g) PROVE Goal
    BY <1>7, UnlinkAllEffect
  <1>8. ASSUME NEW g \in Gen, Shut(g) PROVE Goal
    BY <1>8, ReleaseEffect
  <1>9. Goal
    BY <1>1, <1>2, <1>3, <1>4, <1>5, <1>6, <1>7, <1>8, LinkMoves
  <1> QED
    BY <1>4, <1>9

\* A call whose link came up returns.
LEMMA LinkUpMoves ==
  ASSUME TypeOK, TableAssumption, NEW t \in Thread, pc[t] = "link", UNCHANGED pc
  PROVE  ~LinkUp(t)
  <1>1. LinkUp(t) => pc'[t] = "idle"
    BY SettlesEffect DEF Settles, Returned
  <1> QED
    BY <1>1

\* Every step keeps OutOpen.
LEMMA OutOpenStep ==
  ASSUME Base, TypeOK', Races, LinkTypeOK, GatedEntries, OutOpen, TableAssumption, Next
  PROVE  OutOpen'
  <1>0. TypeOK /\ Threads /\ Rows /\ Sessions /\ Exclusive
    BY DEF Base
  <1>1. gated \subseteq gated'
    BY <1>0, GatedStep
  <1>2. CASE Kind
    <2> SUFFICES ASSUME NEW h \in Handle, NEW f \in Fd, outReg'[h].fd = f, f \notin raced', f \notin gated'
                 PROVE  StaysOpen(f, h)'
      BY DEF OutOpen
    <2>1. f \notin raced /\ f \notin gated /\ f # None
      BY <1>0, <1>1, <1>2, RacedKept, Basics
    <2>2. ASSUME NEW t \in Thread, pc[t] = "link", LinkUp(t), me[t].fd = f PROVE StaysOpen(f, h)'
      <3>1. UNCHANGED tab
        BY <2>2 DEF LinkUp
      <3>2. IsOpen(f)
        BY <2>1, <2>2 DEF Races
      <3> QED
        BY <3>1, <3>2 DEF IsOpen, StaysOpen
    <2>3. CASE outReg[h].fd = f /\ \A t \in Thread : Unregister(t) => me[t].handle # h
      <3>1. StaysOpen(f, h)
        BY <2>1, <2>3 DEF OutOpen
      <3> QED
        BY <1>2, <2>1, <2>3, <3>1, OpenKept
    <2> QED
      BY <1>0, <2>1, <2>2, <2>3, OutFrom
  <1>3. CASE Resolves
    <2>1. UNCHANGED <<tab, raced, pc, me>>
      BY <1>3, ResolvesEffect DEF core
    <2> SUFFICES ASSUME NEW h \in Handle, NEW f \in Fd, outReg'[h].fd = f, f \notin raced', f \notin gated'
                 PROVE  StaysOpen(f, h)'
      BY DEF OutOpen
    <2>2. \A t \in Thread : pc[t] = "link" => ~LinkUp(t)
      BY <2>1, <1>0, LinkUpMoves
    <2>3. outReg[h].fd = f
      BY <1>0, <1>1, <2>2, OutFrom
    <2>4. StaysOpen(f, h)
      BY <1>1, <2>1, <2>3 DEF OutOpen
    <2> QED
      BY <2>1, <2>4 DEF StaysOpen, IsOpen, InCall
  <1> QED
    BY <1>0, <1>2, <1>3, Kinds

\* A closed row stays as it is.
LEMMA ClosedKept ==
  ASSUME TypeOK, Threads, TableAssumption, Kind, NEW f \in Fd, NEW g, NEW h,
         Has(f, g, h), tab[f].st = "closed"
  PROVE  Has(f, g, h)' /\ tab'[f].st = "closed"
  <1>1. ~Opens(f) /\ \A t \in Thread, c \in Handle : ~Adopted(t, c, f)
    BY DEF Opens, Adopted
  <1>2. \A t \in Thread : ~Closes(t, f) /\ ~(Stores(t) /\ me[t].fd = f)
    BY DEF Closes, Stores, Stored, IsOpen
  <1>3. tab'[f] = tab[f] \/ Named(f)
    BY <1>1, <1>2, RowFate
  <1> QED
    BY <1>3 DEF Named, Has

\* A close() about to unregister a handle has closed its row.
LEMMA UnregisterClosed ==
  ASSUME TypeOK, Threads, Races, TableAssumption, NEW t \in Thread, pc[t] = "unregister"
  PROVE  me[t].fd \in Fd /\ Has(me[t].fd, me[t].gen, me[t].handle) /\ tab[me[t].fd].st = "closed"
  <1>1. me[t].fd \in Fd /\ tab[me[t].fd] \in Row
    BY InCallFd
  <1>2. me[t].op = "close" /\ tab[me[t].fd].st # "free"
    BY <1>1, Basics DEF Threads, ThreadOK
  <1>3. tab[me[t].fd].st # "open" /\ Has(me[t].fd, me[t].gen, me[t].handle)
    BY <1>2 DEF Races, IsOpen
  <1> QED
    BY <1>1, <1>2, <1>3 DEF Row

\* What becomes of the outbound pump's entry of a handle.
LEMMA OutKept ==
  ASSUME TypeOK, Threads, LinkTypeOK, LinkEntries, TableAssumption, Next,
         NEW g \in Gen, NEW h \in Handle, outReg[h].gen = g, ~IsClosed(g)
  PROVE  \/ outReg'[h].gen = g
         \/ <<g, h>> \in clobbered'
         \/ \E t \in Thread : pc[t] = "unregister" /\ me[t].gen = g /\ me[t].handle = h
  <1> DEFINE Goal == \/ outReg'[h].gen = g
                     \/ <<g, h>> \in clobbered'
                     \/ \E t \in Thread : pc[t] = "unregister" /\ me[t].gen = g /\ me[t].handle = h
  <1>0. outReg[h].fd # None
    <2>1. outReg[h] \in Reg
      BY DEF LinkTypeOK
    <2> QED
      BY <2>1, Basics DEF LinkEntries, LinkEntry
  <1>1. CASE UNCHANGED linkVars
    BY <1>1 DEF linkVars
  <1>2. ASSUME NEW t \in Thread, LinkUp(t) PROVE Goal
    BY <1>0, <1>2, LinkUpEffect
  <1>3. ASSUME NEW t \in Thread, ArmGate(t) PROVE Goal
    BY <1>3, ArmGateEffect
  <1>4. ASSUME NEW t \in Thread, Unregister(t) PROVE Goal
    <2>1. CASE me[t].handle # h
      BY <1>4, <2>1, UnlinkEffect DEF Put
    <2>2. CASE me[t].handle = h /\ me[t].gen # g
      BY <1>4, <2>2, UnregisterEffect
    <2>3. CASE me[t].handle = h /\ me[t].gen = g
      BY <1>4, <2>3 DEF Unregister
    <2> QED
      BY <2>1, <2>2, <2>3
  <1>5. ASSUME NEW k \in Handle, ResolveGate(k) PROVE Goal
    BY <1>5, ResolveGateEffect
  <1>6. ASSUME NEW r \in resolving, ResolveDone(r[1], r[2]) PROVE Goal
    BY <1>0, <1>6, ResolveDoneEffect
  <1>7. ASSUME NEW k \in Gen, Disconnect(k) PROVE Goal
    BY <1>7, UnlinkAllEffect
  <1>8. ASSUME NEW k \in Gen, Shut(k) PROVE Goal
    BY <1>8, ReleaseEffect
  <1> QED
    BY <1>1, <1>2, <1>3, <1>4, <1>5, <1>6, <1>7, <1>8, LinkMoves

\* A session that is up stays up, or its linked handles are forgotten.
LEMMA LinkedUp ==
  ASSUME TypeOK, Threads, Sessions, LinkTypeOK, TableAssumption, Kind,
         NEW g \in Gen, NEW h \in Handle, ~IsClosed(g), <<g, h>> \in linked'
  PROVE  ~IsClosed(g)'
  <1>1. CASE SessionsMove
    BY <1>1, UpKept
  <1>2. ASSUME NEW k \in Gen, Disconnect(k) PROVE ~IsClosed(g)'
    <2>1. \A j \in Gen : j # k => rd'[j] = rd[j]
      BY <1>2, DisconnectEffect
    <2>2. g # k
      BY <1>2, UnlinkAllEffect
    <2> QED
      BY <2>1, <2>2 DEF IsClosed
  <1>3. ASSUME NEW k \in Gen, Shut(k) PROVE ~IsClosed(g)'
    <2>1. rd[k] = "closed" /\ \A j \in Gen : j # k => rd'[j] = rd[j]
      BY <1>3, ShutEffect
    <2> QED
      BY <2>1 DEF IsClosed
  <1> QED
    BY <1>1, <1>2, <1>3, Moves

\* A handle is linked after a step because it was, or because the step put in the
\* entry.
LEMMA LinkedFrom ==
  ASSUME TypeOK, Threads, LinkTypeOK, TableAssumption, Next,
         NEW g \in Gen, NEW h \in Handle, <<g, h>> \in linked'
  PROVE  <<g, h>> \in linked \/ (~IsClosed(g) /\ outReg'[h].gen = g)
  <1> DEFINE Goal == <<g, h>> \in linked \/ (~IsClosed(g) /\ outReg'[h].gen = g)
  <1>1. CASE UNCHANGED linkVars
    BY <1>1 DEF linkVars
  <1>2. ASSUME NEW t \in Thread, LinkUp(t) PROVE Goal
    BY <1>2, LinkUpEffect
  <1>3. ASSUME NEW t \in Thread, ArmGate(t) PROVE Goal
    BY <1>3, ArmGateEffect
  <1>4. ASSUME NEW t \in Thread, Unregister(t) PROVE Goal
    BY <1>4, UnlinkEffect
  <1>5. ASSUME NEW k \in Handle, ResolveGate(k) PROVE Goal
    BY <1>5, ResolveGateEffect
  <1>6. ASSUME NEW r \in resolving, ResolveDone(r[1], r[2]) PROVE Goal
    BY <1>6, ResolveDoneEffect
  <1>7. ASSUME NEW k \in Gen, Disconnect(k) PROVE Goal
    BY <1>7, UnlinkAllEffect
  <1>8. ASSUME NEW k \in Gen, Shut(k) PROVE Goal
    BY <1>8, ReleaseEffect
  <1> QED
    BY <1>1, <1>2, <1>3, <1>4, <1>5, <1>6, <1>7, <1>8, LinkMoves

\* Every step keeps Linked.
LEMMA LinkedStep ==
  ASSUME Base, Races, LinkTypeOK, LinkEntries, Linked, TableAssumption, Next
  PROVE  Linked'
  <1>0. TypeOK /\ Threads /\ Rows /\ Sessions /\ Exclusive
    BY DEF Base
  <1> SUFFICES ASSUME NEW g \in Gen, NEW h \in Handle, <<g, h>> \in linked'
               PROVE  /\ ~IsClosed(g)'
                      /\ \/ outReg'[h].gen = g \/ <<g, h>> \in clobbered'
                         \/ \E f \in Fd : Has(f, g, h)' /\ tab'[f].st = "closed"
    BY DEF Linked
  <1>1. ~IsClosed(g) /\ (<<g, h>> \in linked \/ outReg'[h].gen = g)
    BY <1>0, LinkedFrom DEF Linked
  <1>2. CASE Resolves
    <2>2. UNCHANGED <<tab, rd, clobbered, linked>>
      BY <1>2, ResolvesEffect DEF core, Resolves, ResolveGate, ResolveDone
    <2>3. ~IsClosed(g)'
      BY <1>1, <2>2 DEF IsClosed
    <2>4. CASE outReg[h].gen = g
      <3>1. outReg'[h].gen = g
        <4>1. ASSUME NEW k \in Handle, ResolveGate(k) PROVE outReg'[h].gen = g
          BY <2>4, <4>1, ResolveGateEffect
        <4>2. ASSUME NEW r \in resolving, ResolveDone(r[1], r[2]) PROVE outReg'[h].gen = g
          <5>1. outReg[h] \in Reg
            BY DEF LinkTypeOK
          <5>2. outReg[h].fd # None
            BY <2>4, <5>1, Basics DEF LinkEntries, LinkEntry
          <5> QED
            BY <2>4, <4>2, <5>2, ResolveDoneEffect
        <4> QED
          BY <1>2, <4>1, <4>2 DEF Resolves
      <3> QED
        BY <2>3, <3>1
    <2>5. CASE <<g, h>> \in clobbered \/ \E f \in Fd : Has(f, g, h) /\ tab[f].st = "closed"
      BY <2>2, <2>3, <2>5 DEF Has
    <2> QED
      BY <2>2, <2>4, <2>5 DEF Linked
  <1>3. CASE Kind
    <2>1. ~IsClosed(g)'
      BY <1>0, <1>1, <1>3, LinkedUp
    <2>2. ASSUME NEW f \in Fd, Has(f, g, h), tab[f].st = "closed"
          PROVE  Has(f, g, h)' /\ tab'[f].st = "closed"
      BY <1>0, <1>3, <2>2, ClosedKept
    <2>3. ASSUME NEW t \in Thread, pc[t] = "unregister", me[t].gen = g, me[t].handle = h
          PROVE  \E f \in Fd : Has(f, g, h)' /\ tab'[f].st = "closed"
      <3>1. me[t].fd \in Fd /\ Has(me[t].fd, g, h) /\ tab[me[t].fd].st = "closed"
        BY <1>0, <2>3, UnregisterClosed
      <3>2. PICK f \in Fd : f = me[t].fd
        BY <3>1
      <3> QED
        BY <2>2, <3>1, <3>2
    <2>4. CASE outReg[h].gen = g
      BY <1>0, <1>1, <2>1, <2>3, <2>4, OutKept
    <2>5. CASE <<g, h>> \in clobbered
      BY <1>0, <1>3, <2>1, <2>3, <2>5, ClobberedKept
    <2>6. CASE \E f \in Fd : Has(f, g, h) /\ tab[f].st = "closed"
      BY <2>1, <2>2, <2>6
    <2>7. CASE outReg'[h].gen = g
      BY <2>1, <2>7
    <2> QED
      BY <1>1, <2>4, <2>5, <2>6, <2>7 DEF Linked
  <1> QED
    BY <1>0, <1>2, <1>3, Kinds

\* Every step keeps the second part of the invariant.
LEMMA LinkStep ==
  ASSUME CoreInv, CoreInv', LinkInv, TableAssumption, Next
  PROVE  LinkInv'
  <1>1. /\ Base /\ TypeOK /\ TypeOK' /\ Threads /\ Threads' /\ Rows /\ Exclusive /\ Races
        /\ LinkTypeOK /\ LinkEntries /\ GatedEntries /\ OutOpen /\ Linked
    BY DEF CoreInv, Base, LinkInv
  <1>2. LinkTypeOK' /\ LinkEntries' /\ GatedEntries'
    BY <1>1, LinkTypeStep, LinkEntriesStep, GatedStep
  <1>3. OutOpen' /\ Linked'
    BY <1>1, OutOpenStep, LinkedStep
  <1> QED
    BY <1>2, <1>3 DEF LinkInv

\* The initial state satisfies it.
LEMMA LinkInit ==
  ASSUME Init, TableAssumption
  PROVE  LinkInv
  <1>1. /\ outReg \in [Handle -> Reg] /\ gates \in [Handle -> Reg] /\ resolving = {}
        /\ linked = {} /\ gated = {}
        /\ \A h \in Handle : outReg[h] = NoEntry /\ gates[h] = NoEntry
    BY Basics DEF Init
  <1>2. NoEntry.fd = None /\ NoEntry.gen = None
    BY DEF NoEntry
  <1>3. LinkTypeOK
    BY <1>1 DEF LinkTypeOK
  <1>4. LinkEntries /\ GatedEntries
    BY <1>1, <1>2 DEF LinkEntries, LinkEntry, GatedEntries
  <1>5. OutOpen
    BY <1>1, <1>2, Basics DEF OutOpen
  <1>6. Linked
    BY <1>1 DEF Linked
  <1> QED
    BY <1>3, <1>4, <1>5, <1>6 DEF LinkInv

\* A step that changes nothing keeps it.
LEMMA LinkSame ==
  ASSUME LinkInv, UNCHANGED linkVars, UNCHANGED core, UNCHANGED <<pc, me>>
  PROVE  LinkInv'
  <1>1. /\ UNCHANGED <<outReg, gates, resolving, linked, gated>>
        /\ UNCHANGED <<tab, rd, given, queue, clobbered, raced, pc, me>>
    BY DEF linkVars, core
  <1>2. LinkTypeOK /\ LinkEntries /\ GatedEntries /\ OutOpen /\ Linked
    BY DEF LinkInv
  <1>3. LinkTypeOK' /\ GatedEntries'
    BY <1>1, <1>2 DEF LinkTypeOK, GatedEntries
  <1>4. LinkEntries'
    BY <1>1, <1>2 DEF LinkEntries, LinkEntry, Mine, Has, Owns, Queued
  <1>5. OutOpen'
    BY <1>1, <1>2 DEF OutOpen, StaysOpen, IsOpen, InCall
  <1>6. Linked'
    BY <1>1, <1>2 DEF Linked, IsClosed, Has
  <1> QED
    BY <1>3, <1>4, <1>5, <1>6 DEF LinkInv

---------------------------------------------------------------------------
(* The theorems.                                                           *)

\* The initial state satisfies the inductive invariant.
LEMMA InvInit ==
  ASSUME Init, TableAssumption
  PROVE  IInv
  BY CoreInit, LinkInit DEF IInv

\* Every step keeps it, and so does one that changes nothing.
LEMMA InvStep ==
  ASSUME IInv, [Next]_vars, TableAssumption
  PROVE  IInv'
  <1>0. CoreInv /\ LinkInv
    BY DEF IInv
  <1>1. CASE Next
    BY <1>0, <1>1, CoreStep, LinkStep DEF IInv
  <1>2. CASE UNCHANGED vars
    <2>1. UNCHANGED core /\ UNCHANGED <<pc, me>> /\ UNCHANGED linkVars
      BY <1>2 DEF vars, core, engineVars, history, otherHistory
    <2> QED
      BY <1>0, <2>1, CoreSame, LinkSame DEF IInv
  <1> QED
    BY <1>1, <1>2

\* The inductive invariant holds throughout, for every number of threads,
\* descriptors, sessions, handles and calls.
THEOREM FdInductive ==
  Spec => []IInv
  <1>1. Init => IInv
    BY TableAssumption, InvInit
  <1>2. IInv /\ [Next]_vars => IInv'
    BY TableAssumption, InvStep
  <1> QED
    BY <1>1, <1>2, PTL DEF Spec

\* The descriptor table, the calls in progress, the pumps, the gates and the engine
\* have their types in every reachable state.
THEOREM FdTypes ==
  Spec => [](TypeOK /\ LinkTypeOK)
  <1>1. IInv => TypeOK /\ LinkTypeOK
    BY DEF IInv, CoreInv, Base, LinkInv
  <1> QED
    BY <1>1, FdInductive, PTL

\* No two open descriptors have the same handle of the same session, however
\* socket(), accept(), the race of two datagram calls to store a handle and the
\* replacement of the client interleave.
THEOREM FdHandles ==
  Spec => []HandlesDistinct
  <1>1. IInv => HandlesDistinct
    <2> SUFFICES ASSUME TypeOK, Rows, Exclusive, NEW e \in Fd, NEW f \in Fd,
                        tab[e].handle # None, tab[e].handle = tab[f].handle, tab[e].gen = tab[f].gen
                 PROVE  e = f
      BY DEF IInv, CoreInv, Base, HandlesDistinct
    <2>1. tab[e].gen \in Gen /\ tab[e].handle \in Handle
      BY DEF Rows, TypeOK
    <2> QED
      BY <2>1 DEF Exclusive, Sole, Has
  <1> QED
    BY <1>1, FdInductive, PTL

\* A live descriptor has its entry in the receive or the datagram pump, the outbound
\* pump keeps forwarding from one it took, and no pump keeps an entry for a closed
\* one: register and unregister keep up with the table, except where the close() of
\* a descriptor of a replaced client removes the entry under the same number, a
\* close() overtakes a call on the same descriptor, or the outbound pump is given
\* one whose non-blocking connect was resolved as it was closed.
THEOREM FdEntries ==
  Spec => []EntriesMatch
  <1>1. IInv => LiveIsRegistered
    <2> SUFFICES ASSUME TypeOK, Threads, Registered, NEW f \in Fd, Live(f),
                        ~InCall(f, {"connect", "child", "obtain", "sendto", "listen", "close"}),
                        tab[f].handle \notin listening[tab[f].gen],
                        <<tab[f].gen, tab[f].handle>> \notin clobbered \cup stolen
                 PROVE  (IF tab[f].dgram THEN dgReg ELSE recvReg)[tab[f].handle].fd = f
      BY DEF IInv, CoreInv, Base, LiveIsRegistered
    <2>1. Settled(f, tab[f].gen, tab[f].handle)
      BY DEF Registered
    <2>2. \A t \in Thread : me[t].fd = f =>
             me[t].op \notin {"connect", "child", "obtain", "sendto", "listen", "close"}
      BY DEF InCall
    <2>3. \A t \in Thread : ~(pc[t] = "register" /\ me[t].fd = f)
      BY <2>2 DEF Threads, ThreadOK
    <2>4. ~InCall(f, {"close"})
      BY <2>2 DEF InCall
    <2>5. \/ tab[f].dgram /\ dgReg[tab[f].handle].fd = f
          \/ ~tab[f].dgram /\ recvReg[tab[f].handle].fd = f
      BY <2>1, <2>3, <2>4 DEF Settled
    <2> QED
      BY <2>5
  <1>2. IInv => LiveIsForwarded
    <2> SUFFICES ASSUME TypeOK, Rows, Exclusive, LinkTypeOK, LinkEntries, Linked, NEW f \in Fd, Live(f),
                        <<tab[f].gen, tab[f].handle>> \in linked,
                        <<tab[f].gen, tab[f].handle>> \notin clobbered
                 PROVE  outReg[tab[f].handle].fd = f
      BY DEF IInv, CoreInv, Base, LinkInv, LiveIsForwarded
    <2>1. tab[f].handle \in Handle \cup {None} /\ IsOpen(f) /\ tab[f].handle # None
      BY DEF TypeOK, Live
    <2>2. PICK g \in Gen, h \in Handle : g = tab[f].gen /\ h = tab[f].handle
      BY <2>1 DEF Rows
    <2>3. Has(f, g, h)
      BY <2>2 DEF Has
    <2>4. \A e \in Fd : Has(e, g, h) => e = f
      BY <2>3 DEF Exclusive, Sole
    <2>5. outReg[h].gen = g
      BY <2>1, <2>2, <2>4 DEF Linked, IsOpen
    <2>6. outReg[h] \in Reg
      BY DEF LinkTypeOK
    <2>7. outReg[h].fd # None /\ Mine(outReg[h].fd, outReg[h].gen, h)
      BY <2>5, <2>6, TableAssumption, Basics DEF LinkEntries, LinkEntry
    <2> QED
      BY <2>2, <2>3, <2>5, <2>7 DEF Mine
  <1>3. IInv => EntriesAreOpen
    BY DEF IInv, CoreInv, LinkInv, PumpsOpen, OutOpen, StaysOpen, EntriesAreOpen
  <1>4. IInv => EntriesMatch
    BY <1>1, <1>2, <1>3 DEF EntriesMatch
  <1> QED
    BY <1>4, FdInductive, PTL

\* The handle of a live descriptor is open at the engine until the application
\* closes it, unless a stale number stole it; and nothing stays open there
\* without an owner but what a call is known to let go.
THEOREM FdEngine ==
  Spec => []EngineMatches
  <1>1. IInv => EngineMatches
    BY DEF IInv, CoreInv, EngineMatches
  <1> QED
    BY <1>1, FdInductive, PTL
=============================================================================
