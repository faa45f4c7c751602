------------------------------- MODULE FdTable -------------------------------
(***************************************************************************)
(* The descriptor table and the shared client: which engine handle each    *)
(* AX.25 descriptor has, how socket, bind, listen, connect, accept, send,  *)
(* the datagram calls and close obtain, use and release it, and what is    *)
(* left of it after ensure_client has replaced a dead client by a new one  *)
(* (crates/ax25-interpose/src lib.rs and state.rs).                        *)
(*                                                                         *)
(* Pump entries, gates and queues are keyed by the handle's number alone,  *)
(* and every engine session numbers its handles afresh.  A step is what    *)
(* the code does between two locks or requests; a descriptor stands for    *)
(* one use of its number.  Callsigns, options and payloads are left out.   *)
(***************************************************************************)
EXTENDS Integers, FiniteSets

CONSTANTS
    Thread,    \* threads of the application
    Fd,        \* descriptors, each opened once
    MaxGen,    \* engine sessions in a behaviour
    MaxHandle, \* handles an engine session gives out
    MaxCalls   \* calls a behaviour makes, other than socket() and the bind() of a stream

Gen == 1..MaxGen
Handle == 1..MaxHandle
None == 0

ASSUME TableAssumption ==
    MaxGen \in Nat \ {0} /\ MaxHandle \in Nat \ {0} /\ MaxCalls \in Nat /\ None \notin Fd

VARIABLES
    tab,      \* the descriptor table; fields of a closed one are kept as history
    client,   \* the session of the cached client, None before the first
    rd,       \* the reader thread of each session
    engine,   \* handles open at the engine, by session
    given,    \* how many handles a session has given out
    listening,\* handles the engine listens on, by session
    queue,    \* children of a listener not yet accepted, by session
    recvReg,  \* receive pump: by handle number, the descriptor and (history) its session
    dgReg,    \* datagram pump: the same
    outReg,   \* outbound pump: the same
    gates,    \* connect gates: the same
    resolving,\* gates that were removed and are not registered for forwarding yet
    pc, me,   \* each thread's step and what it carries
    calls,    \* how many calls were made
    \* history, of sessions that are up and of open descriptors
    dropped,  \* handles a call let go without closing them
    raced,    \* descriptors whose close() overlapped with another call on them
    clobbered,\* handles whose entry was removed or replaced for one of another session
    stolen,   \* handles closed by a descriptor of an older session
    linked,   \* handles the outbound pump took when their link came up
    gated     \* descriptors whose connect() was non-blocking

engineVars == <<engine, given, listening, queue>>
linkVars == <<outReg, gates, resolving, linked, gated>>
otherHistory == <<dropped, clobbered, stolen>>
history == <<raced, otherHistory>>
vars == <<tab, client, rd, engineVars, recvReg, dgReg, linkVars, pc, me, calls, history>>

Free == [st |-> "free", dgram |-> FALSE, local |-> FALSE, handle |-> None, gen |-> None]
NoEntry == [fd |-> None, gen |-> None]
Idle == [op |-> "none", fd |-> None, gen |-> None, handle |-> None, local |-> FALSE, kept |-> None]

Init ==
    /\ tab = [f \in Fd |-> Free]
    /\ client = None
    /\ rd = [g \in Gen |-> "none"]
    /\ engine = [g \in Gen |-> {}] /\ given = [g \in Gen |-> 0]
    /\ listening = [g \in Gen |-> {}]
    /\ queue = [g \in Gen |-> [h \in Handle |-> {}]]
    /\ recvReg = [h \in Handle |-> NoEntry] /\ dgReg = [h \in Handle |-> NoEntry]
    /\ outReg = [h \in Handle |-> NoEntry] /\ gates = [h \in Handle |-> NoEntry] /\ resolving = {}
    /\ pc = [t \in Thread |-> "idle"] /\ me = [t \in Thread |-> Idle]
    /\ calls = 0
    /\ dropped = {} /\ raced = {} /\ clobbered = {} /\ stolen = {} /\ linked = {} /\ gated = {}

IsOpen(f) == tab[f].st = "open"
IsClosed(g) == rd[g] # "run"

Goto(t, step) == pc' = [pc EXCEPT ![t] = step]

\* The call returns.
Return(t) == Goto(t, "idle") /\ me' = [me EXCEPT ![t] = Idle]

Begin(t, op, f, step) ==
    /\ pc[t] = "idle" /\ calls < MaxCalls
    /\ \A u \in Thread : me[u].op = "child" => me[u].fd # f    \* accept() has not returned it yet
    /\ calls' = calls + 1
    /\ raced' = IF \E u \in Thread : me[u].fd = f /\ "close" \in {op, me[u].op} THEN raced \cup {f} ELSE raced
    /\ Goto(t, step)
    /\ me' = [me EXCEPT ![t] = [Idle EXCEPT !.op = op, !.fd = f,
                      !.gen = IF op = "close" THEN tab[f].gen ELSE None,
                      !.handle = IF op \in {"accept", "send", "close"} THEN tab[f].handle ELSE None]]

---------------------------------------------------------------------------
(* The application's calls, up to their first request.                     *)

\* socket(): create_ax25_fd.
Socket(f, dgram) ==
    /\ tab[f].st = "free" /\ calls < MaxCalls
    /\ tab' = [tab EXCEPT ![f] = [Free EXCEPT !.st = "open", !.dgram = dgram]]
    /\ UNCHANGED <<client, rd, engineVars, recvReg, dgReg, linkVars, pc, me, calls, history>>

\* bind(): records the callsign; a datagram socket gets its handle now.
Bind(t, f) ==
    /\ IsOpen(f)
    /\ IF tab[f].dgram THEN Begin(t, "obtain", f, "look")
       ELSE pc[t] = "idle" /\ ~tab[f].local /\ calls < MaxCalls /\ UNCHANGED <<pc, me, calls, raced>>
    /\ tab' = [tab EXCEPT ![f].local = TRUE]
    /\ UNCHANGED <<client, rd, engineVars, recvReg, dgReg, linkVars, otherHistory>>

\* listen(): EINVAL without a callsign.
Listen(t, f) ==
    /\ IsOpen(f) /\ tab[f].local
    /\ Begin(t, "listen", f, "ensure")
    /\ UNCHANGED <<tab, client, rd, engineVars, recvReg, dgReg, linkVars, otherHistory>>

\* connect(): of a datagram socket only a default destination.
Connect(t, f) ==
    /\ IsOpen(f)
    /\ IF tab[f].dgram THEN Begin(t, "obtain", f, "look") ELSE Begin(t, "connect", f, "ensure")
    /\ UNCHANGED <<tab, client, rd, engineVars, recvReg, dgReg, linkVars, otherHistory>>

\* accept(): EINVAL without a handle.
Accept(t, f) ==
    /\ IsOpen(f) /\ tab[f].handle # None
    /\ Begin(t, "accept", f, "ensure")
    /\ UNCHANGED <<tab, client, rd, engineVars, recvReg, dgReg, linkVars, otherHistory>>

\* write() and send(): ENOTCONN without a handle; sendto() and recvfrom() of a
\* datagram socket obtain one first.
Send(t, f) ==
    /\ IsOpen(f)
    /\ IF tab[f].dgram THEN Begin(t, "sendto", f, "look")
       ELSE tab[f].handle # None /\ Begin(t, "send", f, "ensure")
    /\ UNCHANGED <<tab, client, rd, engineVars, recvReg, dgReg, linkVars, otherHistory>>

\* close(): nothing to tell the engine without a handle.
Close(t, f) ==
    /\ IsOpen(f)
    /\ Begin(t, "close", f, IF tab[f].handle = None THEN "destroy" ELSE "ensure")
    /\ UNCHANGED <<tab, client, rd, engineVars, recvReg, dgReg, linkVars, otherHistory>>

\* ensure_dgram_handle returned h: sendto() goes on with it.
Obtained(t, h) ==
    IF me[t].op = "sendto"
    THEN Goto(t, "ensure") /\ me' = [me EXCEPT ![t].op = "send", ![t].handle = h]
    ELSE Return(t)

\* ensure_dgram_handle's fast path: the handle is there already.
Look(t) ==
    /\ pc[t] = "look"
    /\ LET f == me[t].fd
       IN IF ~IsOpen(f) THEN Return(t)
          ELSE IF tab[f].handle = None
          THEN Goto(t, "ensure") /\ me' = [me EXCEPT ![t].local = tab[f].local]
          ELSE Obtained(t, tab[f].handle)
    /\ UNCHANGED <<tab, client, rd, engineVars, recvReg, dgReg, linkVars, calls, history>>

---------------------------------------------------------------------------
(* The shared client.                                                      *)

ClientReady == client # None /\ ~IsClosed(client)

Fresh(g) == rd[g] = "none" /\ \A k \in 1..(g - 1) : rd[k] # "none"

\* ensure_client returns session g.  A dead client is replaced; its
\* descriptors stay in the table.  The request that follows is part of the
\* step: on a session that ended meanwhile it fails as it may fail anyway.
Ensured(t, g) ==
    /\ pc[t] = "ensure"
    /\ \/ ClientReady /\ g = client /\ UNCHANGED <<client, rd>>
       \/ ~ClientReady /\ Fresh(g) /\ client' = g /\ rd' = [rd EXCEPT ![g] = "run"]

\* No connection (a second reader thread stays behind when the log-in fails);
\* close() goes on without telling the engine, the other calls fail.
EnsureFails(t) ==
    /\ pc[t] = "ensure" /\ ~ClientReady
    /\ \/ UNCHANGED rd
       \/ \E g \in Gen : Fresh(g) /\ rd' = [rd EXCEPT ![g] = "run"]
    /\ IF me[t].op = "close" THEN Goto(t, "destroy") /\ UNCHANGED me ELSE Return(t)
    /\ UNCHANGED <<tab, client, engineVars, recvReg, dgReg, linkVars, calls, history>>

---------------------------------------------------------------------------
(* Requests.  The engine answers, refuses, or answers too late.            *)

\* A send ends with its request, whatever the answer.
SendReq(t, g) ==
    /\ me[t].op = "send" /\ Ensured(t, g)
    /\ Return(t)
    /\ UNCHANGED <<tab, engineVars, recvReg, dgReg, linkVars, calls, history>>

NextHandle(g) == given[g] + 1
Grants(g) == given[g] < MaxHandle
Grant(g) ==
    /\ engine' = [engine EXCEPT ![g] = @ \cup {NextHandle(g)}]
    /\ given' = [given EXCEPT ![g] = @ + 1]

Drop(handles) == dropped' = dropped \cup {h \in handles : ~IsClosed(h[1])}

NeedsBind(t) == me[t].op = "listen" \/ (me[t].op # "connect" /\ me[t].local)

Asks(t) == me[t].op \in {"listen", "connect", "obtain", "sendto"}

\* socket and open; a datagram socket without a callsign is not bound.
SocketReq(t, g) ==
    /\ Asks(t) /\ Ensured(t, g) /\ Grants(g)
    /\ Grant(g)
    /\ me' = [me EXCEPT ![t].gen = g, ![t].handle = NextHandle(g)]
    /\ Goto(t, IF NeedsBind(t) THEN "bindReq" ELSE "store")
    /\ UNCHANGED <<tab, listening, queue, recvReg, dgReg, linkVars, calls, history>>

SocketFails(t, g) ==
    /\ Asks(t) /\ Ensured(t, g)
    /\ \/ UNCHANGED <<engine, given, dropped>>
       \/ Grants(g) /\ Grant(g) /\ dropped' = dropped \cup {<<g, NextHandle(g)>>}
    /\ Return(t)
    /\ UNCHANGED <<tab, listening, queue, recvReg, dgReg, linkVars, calls,
                   raced, clobbered, stolen>>

BindReq(t) ==
    /\ pc[t] = "bindReq" /\ ~IsClosed(me[t].gen)
    /\ Goto(t, IF me[t].op = "listen" THEN "listenReq" ELSE "store")
    /\ UNCHANGED <<tab, client, rd, engine, given, listening, queue, recvReg, dgReg, linkVars, me, calls, history>>

\* ensure_dgram_handle closes the handle it could not bind; listen() does not.
BindFailed(t) ==
    IF me[t].op = "listen" THEN Return(t) /\ Drop({<<me[t].gen, me[t].handle>>})
    ELSE Goto(t, "discard") /\ UNCHANGED <<me, dropped>>

BindFails(t) ==
    /\ pc[t] = "bindReq"
    /\ BindFailed(t)
    /\ UNCHANGED <<tab, client, rd, engineVars, recvReg, dgReg, linkVars, calls,
                   raced, clobbered, stolen>>

ListenReq(t) ==
    /\ pc[t] = "listenReq" /\ ~IsClosed(me[t].gen)
    /\ listening' = [listening EXCEPT ![me[t].gen] = @ \cup {me[t].handle}]
    /\ Goto(t, "store")
    /\ UNCHANGED <<tab, client, rd, engine, given, queue, recvReg, dgReg, linkVars, me, calls, history>>

ListenFails(t) ==
    /\ pc[t] = "listenReq"
    /\ Return(t) /\ Drop({<<me[t].gen, me[t].handle>>})
    /\ UNCHANGED <<tab, client, rd, engineVars, recvReg, dgReg, linkVars, calls,
                   raced, clobbered, stolen>>

---------------------------------------------------------------------------
(* The handle reaches the table and the pumps.                             *)

SetHandle(f, g, h) == tab' = [tab EXCEPT ![f].handle = h, ![f].gen = g]

Forgotten(f) == IF tab[f].handle = None THEN {} ELSE {<<tab[f].gen, tab[f].handle>>}

\* listen() and connect() store it over any other, if the descriptor is still there.
StoreStream(t) ==
    LET f == me[t].fd
    IN /\ pc[t] = "store" /\ me[t].op \in {"listen", "connect"}
       /\ IF IsOpen(f)
          THEN /\ SetHandle(f, me[t].gen, me[t].handle)
               /\ Drop(Forgotten(f))
               /\ IF me[t].op = "listen" THEN Return(t) ELSE Goto(t, "register") /\ UNCHANGED me
          ELSE Drop({<<me[t].gen, me[t].handle>>}) /\ Return(t) /\ UNCHANGED tab
       /\ UNCHANGED <<client, rd, engineVars, recvReg, dgReg, linkVars, calls,
                      raced, clobbered, stolen>>

\* ensure_dgram_handle keeps a handle another thread has stored meanwhile.
StoreDgram(t) ==
    LET f == me[t].fd
    IN /\ pc[t] = "store" /\ me[t].op \in {"obtain", "sendto"}
       /\ IF IsOpen(f) /\ tab[f].handle = None
          THEN SetHandle(f, me[t].gen, me[t].handle) /\ Goto(t, "register") /\ UNCHANGED me
          ELSE /\ Goto(t, "discard") /\ UNCHANGED tab
               /\ me' = [me EXCEPT ![t].kept = IF IsOpen(f) THEN tab[f].handle ELSE None]
       /\ UNCHANGED <<client, rd, engineVars, recvReg, dgReg, linkVars, calls, history>>

DiscardedKept(t) == me[t].kept
Discarded(t) == me[t].handle

\* client.close of the handle nobody will use.
Discard(t) ==
    LET g == me[t].gen
        h == Discarded(t)
    IN /\ pc[t] = "discard"
       /\ \/ engine' = [engine EXCEPT ![g] = @ \ {h}] /\ UNCHANGED dropped
          \/ Drop({<<g, h>>}) /\ UNCHANGED engine
       /\ IF me[t].kept = None THEN Return(t) ELSE Obtained(t, me[t].kept)
       /\ UNCHANGED <<tab, client, rd, given, listening, queue, recvReg, dgReg, linkVars, calls,
                      raced, clobbered, stolen>>

Entry(t) == [fd |-> me[t].fd, gen |-> me[t].gen]

\* entry().or_insert_with, of the outbound pump: an older entry stays.
OrInsert(reg, h, entry) == IF reg[h].fd = None THEN [reg EXCEPT ![h] = entry] ELSE reg

\* insert, of the others: it is replaced.
Insert(reg, h, entry) == [reg EXCEPT ![h] = entry]

\* The handles that have one of these entries under number h, of a session other
\* than g and up.
Others(entries, h, g) == {<<k, h>> : k \in {k \in Gen \ {g} : ~IsClosed(k) /\ \E e \in entries : e.gen = k}}

\* register of the receive or the datagram pump.
Register(t) ==
    LET h == me[t].handle
    IN /\ pc[t] = "register"
       /\ IF me[t].op \in {"connect", "child"}
          THEN recvReg' = Insert(recvReg, h, Entry(t)) /\ Goto(t, "link") /\ UNCHANGED <<dgReg, me>>
          ELSE dgReg' = Insert(dgReg, h, Entry(t)) /\ UNCHANGED recvReg /\ Obtained(t, h)
       /\ clobbered' = clobbered \cup
             Others({IF me[t].op \in {"connect", "child"} THEN recvReg[h] ELSE dgReg[h]}, h, me[t].gen)
       /\ UNCHANGED <<tab, client, rd, engineVars, linkVars, calls, dropped, raced, stolen>>

\* accept(), or a blocking connect() whose link came up: bytes that bypass the
\* interposer are forwarded from now on, unless the pump has an entry of another
\* session under that number and goes on forwarding from the other descriptor.
LinkUp(t) ==
    LET h == me[t].handle
        g == me[t].gen
    IN /\ pc[t] = "link"
       /\ outReg' = OrInsert(outReg, h, Entry(t))
       /\ linked' = IF ~IsClosed(g) /\ outReg'[h].gen = g THEN linked \cup {<<g, h>>} ELSE linked
       /\ Return(t)
       /\ UNCHANGED <<tab, client, rd, engineVars, recvReg, dgReg, gates, resolving, gated, calls, history>>

\* A blocking connect() fails; the descriptor keeps the handle.
LinkFails(t) ==
    /\ pc[t] = "link" /\ me[t].op = "connect"
    /\ Return(t)
    /\ UNCHANGED <<tab, client, rd, engineVars, recvReg, dgReg, linkVars, calls, history>>

\* A non-blocking connect() leaves a gate behind.
ArmGate(t) ==
    /\ pc[t] = "link" /\ me[t].op = "connect"
    /\ gates' = Insert(gates, me[t].handle, Entry(t))
    /\ gated' = gated \cup {me[t].fd}
    /\ Return(t)
    /\ UNCHANGED <<tab, client, rd, engineVars, recvReg, dgReg, outReg, resolving, linked, calls, history>>

\* resolve_connect_gate, by connect() itself when the result is in, or on a status
\* or close push about that number from any session: the gate is removed, the
\* filler drained ...
ResolveGate(h) ==
    /\ gates[h].fd # None
    /\ gates' = [gates EXCEPT ![h] = NoEntry]
    /\ resolving' = resolving \cup {<<h, gates[h]>>}
    /\ UNCHANGED <<tab, client, rd, engineVars, recvReg, dgReg, outReg, linked, gated, pc, me, calls, history>>

\* ... and the outbound pump given the descriptor, even if it was closed meanwhile.
ResolveDone(h, entry) ==
    /\ <<h, entry>> \in resolving
    /\ resolving' = resolving \ {<<h, entry>>}
    /\ outReg' = OrInsert(outReg, h, entry)
    /\ UNCHANGED <<tab, client, rd, engineVars, recvReg, dgReg, gates, linked, gated, pc, me, calls, history>>

---------------------------------------------------------------------------
(* Accepting.                                                              *)

\* The engine announces a child of a listener.
Incoming(g, l) ==
    /\ l \in listening[g] /\ Grants(g) /\ ~IsClosed(g)
    /\ Grant(g)
    /\ queue' = [queue EXCEPT ![g][l] = @ \cup {NextHandle(g)}]
    /\ UNCHANGED <<tab, client, rd, listening, recvReg, dgReg, linkVars, pc, me, calls, history>>

ListenerHandle(t, c) == me[t].handle
ChildHandle(t, c) == c

\* accept() goes to the queue of its handle's number at the client of the moment.
Wait(t, g) ==
    /\ me[t].op = "accept" /\ Ensured(t, g)
    /\ Goto(t, "take") /\ me' = [me EXCEPT ![t].gen = g]
    /\ UNCHANGED <<tab, engineVars, recvReg, dgReg, linkVars, calls, history>>

\* The child gets a descriptor of its own.
TakeChild(t, c, f) ==
    LET g == me[t].gen
    IN /\ pc[t] = "take" /\ c \in queue[g][me[t].handle] /\ tab[f].st = "free"
       /\ queue' = [queue EXCEPT ![g][me[t].handle] = @ \ {c}]
       /\ tab' = [tab EXCEPT ![f] = [Free EXCEPT !.st = "open", !.local = TRUE, !.gen = g,
                                                !.handle = ChildHandle(t, c)]]
       /\ Goto(t, "register")
       /\ me' = [me EXCEPT ![t].op = "child", ![t].fd = f, ![t].handle = ChildHandle(t, c)]
       /\ UNCHANGED <<client, rd, engine, given, listening, recvReg, dgReg, linkVars, calls, history>>

\* ENFILE: the child has left the queue and stays open at the engine.
TakeNoFile(t, c) ==
    /\ pc[t] = "take" /\ c \in queue[me[t].gen][me[t].handle]
    /\ queue' = [queue EXCEPT ![me[t].gen][me[t].handle] = @ \ {c}]
    /\ Drop({<<me[t].gen, c>>})
    /\ Return(t)
    /\ UNCHANGED <<tab, client, rd, engine, given, listening, recvReg, dgReg, linkVars, calls,
                   raced, clobbered, stolen>>

\* EAGAIN, or ECONNABORTED when the transport drops.
TakeNothing(t) ==
    /\ pc[t] = "take" /\ queue[me[t].gen][me[t].handle] = {}
    /\ Return(t)
    /\ UNCHANGED <<tab, client, rd, engineVars, recvReg, dgReg, linkVars, calls, history>>

---------------------------------------------------------------------------
(* Closing a handle, on the client of the moment.                          *)

\* client.close(): the children still queued are forgotten.
CloseReq(t, g) ==
    LET h == me[t].handle
        children == {<<g, c>> : c \in queue[g][h]}
    IN /\ me[t].op = "close" /\ Ensured(t, g)
       /\ queue' = [queue EXCEPT ![g][h] = {}]
       /\ \/ /\ engine' = [engine EXCEPT ![g] = @ \ {h}]
             /\ listening' = [listening EXCEPT ![g] = @ \ {h}]
             /\ Drop(children)
             /\ stolen' = IF me[t].gen = g THEN stolen ELSE stolen \cup {<<g, h>>}
          \/ Drop(children \cup {<<g, h>>}) /\ UNCHANGED <<engine, listening, stolen>>
       /\ Goto(t, "destroy")
       /\ UNCHANGED <<tab, given, recvReg, dgReg, linkVars, me, calls, raced, clobbered>>

\* destroy_ax25_fd: the entry goes first, with whatever handle it has by now.
Destroy(t) ==
    LET f == me[t].fd
    IN /\ pc[t] = "destroy"
       /\ IF IsOpen(f)
          THEN /\ tab' = [tab EXCEPT ![f].st = "closed"]
               /\ IF tab[f].handle = None THEN Return(t)
                  ELSE /\ Goto(t, "unregister")
                       /\ me' = [me EXCEPT ![t].handle = tab[f].handle, ![t].gen = tab[f].gen]
          ELSE Return(t) /\ UNCHANGED tab
       /\ UNCHANGED <<client, rd, engineVars, recvReg, dgReg, linkVars, calls, history>>

Remove(reg, h) == [reg EXCEPT ![h] = NoEntry]

\* The pumps' entries and the gate under that number, whoever they belong to; then
\* the descriptors are closed.
Unregister(t) ==
    LET h == me[t].handle
    IN /\ pc[t] = "unregister"
       /\ recvReg' = Remove(recvReg, h) /\ dgReg' = Remove(dgReg, h)
       /\ outReg' = Remove(outReg, h) /\ gates' = Remove(gates, h)
       /\ clobbered' = (clobbered \cup Others({recvReg[h], dgReg[h], outReg[h]}, h, me[t].gen))
                         \ {<<me[t].gen, h>>}
       /\ Return(t)
       /\ UNCHANGED <<tab, client, rd, engineVars, resolving, linked, gated, calls, dropped, raced, stolen>>

---------------------------------------------------------------------------
(* The end of a session, seen by its reader thread.                        *)

Disconnect(g) ==
    /\ rd[g] = "run"
    /\ rd' = [rd EXCEPT ![g] = "closed"]
    /\ engine' = [engine EXCEPT ![g] = {}]
    /\ listening' = [listening EXCEPT ![g] = {}]
    /\ queue' = [queue EXCEPT ![g] = [h \in Handle |-> {}]]
    /\ dropped' = dropped \ ({g} \X Handle) /\ stolen' = stolen \ ({g} \X Handle)
    /\ clobbered' = clobbered \ ({g} \X Handle) /\ linked' = linked \ ({g} \X Handle)
    /\ UNCHANGED <<tab, client, given, recvReg, dgReg, outReg, gates, resolving, gated, pc, me, calls, raced>>

\* on_disconnect releases every gate, whichever session it belongs to.  (That it
\* marks the entries' end-of-file is RecvPump's and DgramPump's subject.)
Shut(g) ==
    /\ rd[g] = "closed"
    /\ rd' = [rd EXCEPT ![g] = "done"]
    /\ gates' = [h \in Handle |-> NoEntry]
    /\ resolving' = resolving \cup {<<h, gates[h]>> : h \in {h \in Handle : gates[h].fd # None}}
    /\ UNCHANGED <<tab, client, engineVars, recvReg, dgReg, outReg, linked, gated, pc, me, calls, history>>

Next ==
    \/ \E f \in Fd, dgram \in BOOLEAN : Socket(f, dgram)
    \/ \E t \in Thread, f \in Fd :
          Bind(t, f) \/ Listen(t, f) \/ Connect(t, f) \/ Accept(t, f) \/ Send(t, f) \/ Close(t, f)
    \/ \E t \in Thread :
          \/ Look(t) \/ EnsureFails(t) \/ BindReq(t) \/ BindFails(t) \/ ListenReq(t) \/ ListenFails(t)
          \/ \E g \in Gen :
                SocketReq(t, g) \/ SocketFails(t, g) \/ SendReq(t, g) \/ Wait(t, g) \/ CloseReq(t, g)
          \/ StoreStream(t) \/ StoreDgram(t) \/ Discard(t) \/ Register(t)
          \/ LinkUp(t) \/ LinkFails(t) \/ ArmGate(t)
          \/ \E c \in Handle, f \in Fd : TakeChild(t, c, f)
          \/ \E c \in Handle : TakeNoFile(t, c)
          \/ TakeNothing(t) \/ Destroy(t) \/ Unregister(t)
    \/ \E g \in Gen, l \in Handle : Incoming(g, l)
    \/ \E g \in Gen : Disconnect(g) \/ Shut(g)
    \/ \E h \in Handle : ResolveGate(h)
    \/ \E e \in resolving : ResolveDone(e[1], e[2])

Spec == Init /\ [][Next]_vars

---------------------------------------------------------------------------
Op == {"none", "obtain", "listen", "connect", "accept", "child", "send", "sendto", "close"}
Step == {"idle", "look", "ensure", "bindReq", "listenReq", "store", "register", "link", "discard",
         "take", "destroy", "unregister"}
Reg == [fd : Fd \cup {None}, gen : Gen \cup {None}]

\* The variables of the table, the sessions, two of the pumps and the calls keep
\* their types.
TypeOK ==
    /\ tab \in [Fd -> [st : {"free", "open", "closed"}, dgram : BOOLEAN, local : BOOLEAN,
                        handle : Handle \cup {None}, gen : Gen \cup {None}]]
    /\ client \in Gen \cup {None}
    /\ rd \in [Gen -> {"none", "run", "closed", "done"}]
    /\ engine \in [Gen -> SUBSET Handle] /\ given \in [Gen -> 0..MaxHandle]
    /\ listening \in [Gen -> SUBSET Handle]
    /\ queue \in [Gen -> [Handle -> SUBSET Handle]]
    /\ recvReg \in [Handle -> Reg] /\ dgReg \in [Handle -> Reg]
    /\ pc \in [Thread -> Step] /\ calls \in 0..MaxCalls
    /\ me \in [Thread -> [op : Op, fd : Fd \cup {None}, gen : Gen \cup {None},
                          handle : Handle \cup {None}, local : BOOLEAN, kept : Handle \cup {None}]]
    /\ dropped \subseteq Gen \X Handle /\ stolen \subseteq Gen \X Handle
    /\ clobbered \subseteq Gen \X Handle /\ raced \subseteq Fd

\* And so do those of the outbound pump and of the gates.
LinkTypeOK ==
    /\ outReg \in [Handle -> Reg] /\ gates \in [Handle -> Reg] /\ resolving \subseteq Handle \X Reg
    /\ linked \subseteq Gen \X Handle /\ gated \subseteq Fd

\* An open descriptor with a handle of a session that is up.
Live(f) == IsOpen(f) /\ tab[f].handle # None /\ ~IsClosed(tab[f].gen)

InCall(f, ops) == \E t \in Thread : me[t].fd = f /\ me[t].op \in ops

\* Two descriptors of one session never share a handle: what is written to
\* one reaches its own peer unless the other belongs to a replaced client.
HandlesDistinct ==
    \A e, f \in Fd : IsOpen(e) /\ IsOpen(f) /\ tab[e].handle # None
        /\ tab[e].handle = tab[f].handle /\ tab[e].gen = tab[f].gen => e = f

\* A live descriptor that was connected, accepted or used for datagrams has
\* its own entry in the receive or datagram pump, unless the close of a descriptor
\* of a replaced client removed the entry under the same number.
LiveIsRegistered ==
    \A f \in Fd : Live(f) /\ ~InCall(f, {"connect", "child", "obtain", "sendto", "listen", "close"})
        /\ tab[f].handle \notin listening[tab[f].gen]
        /\ <<tab[f].gen, tab[f].handle>> \notin clobbered \cup stolen =>
            LET reg == IF tab[f].dgram THEN dgReg ELSE recvReg
            IN reg[tab[f].handle].fd = f

\* A live descriptor that accept() or a blocking connect() gave to the outbound pump
\* stays the one it forwards from, but for the same closes.  (Where the pump had an
\* entry of another session under the number, it was not given to the pump.)
LiveIsForwarded ==
    \A f \in Fd : Live(f) /\ <<tab[f].gen, tab[f].handle>> \in linked
        /\ <<tab[f].gen, tab[f].handle>> \notin clobbered =>
            outReg[tab[f].handle].fd = f

\* No pump keeps an entry for a closed descriptor, unless it was closed while
\* another thread was inside a call on it or its handle was replaced; the outbound
\* pump may keep one whose non-blocking connect was resolved as it was closed.
EntriesAreOpen ==
    \A h \in Handle, f \in Fd :
        /\ f \notin raced
        /\ recvReg[h].fd = f \/ dgReg[h].fd = f \/ (outReg[h].fd = f /\ f \notin gated)
        => IsOpen(f) \/ InCall(f, {"close"}) \/ tab[f].handle # h

\* The entries of the three pumps match the descriptor table, up to the ways named
\* above in which register and unregister, keyed by the number alone, part from it.
EntriesMatch == LiveIsRegistered /\ LiveIsForwarded /\ EntriesAreOpen

\* The engine keeps a live descriptor's handle open until the application
\* closes it, unless a descriptor of a replaced client was closed meanwhile
\* and named the same number to the new one.
EngineKeeps ==
    \A f \in Fd : Live(f) =>
        \/ tab[f].handle \in engine[tab[f].gen]
        \/ <<tab[f].gen, tab[f].handle>> \in stolen
        \/ InCall(f, {"close"})

\* A call has this handle and has not put it into the table.
Owns(t, g, h) ==
    pc[t] \in {"bindReq", "listenReq", "store", "discard"} /\ me[t].gen = g /\ me[t].handle = h

\* Nothing stays open at the engine without an owner, except what a call let
\* go: listen() refused half-way, a reply that came too late, a handle
\* overwritten by a second listen() or connect(), an accept() without a free
\* descriptor, the queue of a closed listener, a close() the engine did not
\* answer, and calls that a close() of the same descriptor overtook.
OnlyKnownLeaks ==
    \A g \in Gen, h \in Handle : h \in engine[g] =>
        \/ \E f \in Fd : tab[f].gen = g /\ tab[f].handle = h /\ (IsOpen(f) \/ f \in raced)
        \/ \E t \in Thread : Owns(t, g, h)
        \/ \E l \in Handle : h \in queue[g][l]
        \/ <<g, h>> \in dropped

\* The engine's open handles match the descriptor table in both directions, up
\* to the leaks and the closes by a stale descriptor named above.
EngineMatches == EngineKeeps /\ OnlyKnownLeaks
=============================================================================
