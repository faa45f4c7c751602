----------------------------- MODULE DgramPump -----------------------------
(***************************************************************************)
(* The datagram pump (state.rs) and the receive path of a SOCK_DGRAM       *)
(* socket (ax25_dgram_recv in lib.rs).  Datagrams wait in a queue in       *)
(* memory; the socketpair only carries a readiness byte, so that the       *)
(* kernel's poll and select see the socket as readable.                    *)
(*                                                                         *)
(* Entries of different handles share nothing but the mutex, under which   *)
(* every operation is one step, so one socket is modelled.  Its threads    *)
(* either call recvfrom() and park inside it, or poll the descriptor first *)
(* and read when it is readable.                                           *)
(***************************************************************************)
EXTENDS Naturals, Sequences

CONSTANTS Thread,       \* application threads using the socket
          MaxDgrams,    \* bound: datagrams the engine sends
          QueueCap      \* DGRAM_QUEUE_CAP

ASSUME DgramPumpAssumption == MaxDgrams \in Nat /\ QueueCap \in Nat \ {0}

VARIABLES
    registered, \* the handle has an entry
    queue,      \* DgramEntry.queue
    signaled,   \* DgramEntry.signaled
    eof,        \* DgramEntry.eof
    pipe,       \* readiness bytes in the socketpair
    gone,       \* the app end was shut down past the interposer
    app,        \* the descriptor: "unbound", "open", "unreg", "closed"
    up,         \* the RHP transport is up
    pc,         \* threads: "idle", "try", "parked", "eof"
    arrived,    \* history: number of datagrams the engine sent
    queued,     \* history: datagrams that entered the queue
    read        \* history: datagrams recvfrom returned

vars == <<registered, queue, signaled, eof, pipe, gone, app, up, pc, arrived, queued, read>>

Dgram == Nat \ {0}

TypeOK ==
    /\ registered \in BOOLEAN
    /\ queue \in Seq(Dgram)
    /\ signaled \in BOOLEAN
    /\ eof \in BOOLEAN
    /\ pipe \in Nat
    /\ gone \in BOOLEAN
    /\ app \in {"unbound", "open", "unreg", "closed"}
    /\ up \in BOOLEAN
    /\ pc \in [Thread -> {"idle", "try", "parked", "eof"}]
    /\ arrived \in Nat
    /\ queued \in Seq(Dgram)
    /\ read \in Seq(Dgram)

Init ==
    /\ registered = FALSE
    /\ queue = <<>> /\ signaled = FALSE /\ eof = FALSE
    /\ pipe = 0 /\ gone = FALSE
    /\ app = "unbound"
    /\ up = TRUE
    /\ pc = [t \in Thread |-> "idle"]
    /\ arrived = 0 /\ queued = <<>> /\ read = <<>>

---------------------------------------------------------------------------
(* The reader thread: on_dgram and on_disconnect.                          *)

RaiseAlways == pipe' = pipe + 1 /\ signaled' = TRUE

\* raise: one byte, unless one is already there; signaled only if send took it.
Raise ==
    IF signaled \/ gone THEN UNCHANGED <<signaled, pipe>>
                        ELSE signaled' = TRUE /\ pipe' = pipe + 1

\* queue.len() >= DGRAM_QUEUE_CAP drops the datagram.
HasRoom == Len(queue) < QueueCap

EnqueueFront(q, d) == <<d>> \o q

\* push_back.
Enqueue(q, d) == Append(q, d)

\* push: dropped without an entry or without room, otherwise queued and signalled.
OnDgram ==
    /\ up /\ arrived < MaxDgrams
    /\ arrived' = arrived + 1
    /\ IF registered /\ HasRoom
         THEN /\ queue' = Enqueue(queue, arrived + 1)
              /\ queued' = Append(queued, arrived + 1)
              /\ Raise
         ELSE UNCHANGED <<queue, queued, signaled, pipe>>
    /\ UNCHANGED <<registered, eof, gone, app, up, pc, read>>

\* shutdown_all: EOF, and a byte to wake whoever is blocked.
OnDisconnect ==
    /\ up /\ up' = FALSE
    /\ IF registered
         THEN eof' = TRUE /\ Raise
         ELSE UNCHANGED <<eof, signaled, pipe>>
    /\ UNCHANGED <<registered, queue, gone, app, pc, arrived, queued, read>>

---------------------------------------------------------------------------
(* The application.                                                        *)

\* End of ensure_dgram_handle: a fresh entry.  Its socket and bind requests
\* were answered while the transport was up; it may be gone by now.
Register ==
    /\ app = "unbound" /\ app' = "open"
    /\ registered' = TRUE
    /\ queue' = <<>> /\ signaled' = FALSE /\ eof' = FALSE
    /\ UNCHANGED <<pipe, gone, up, pc, arrived, queued, read>>

Goto(t, label) == pc' = [pc EXCEPT ![t] = label]

\* recvfrom(), recv() or read(): into the loop of ax25_dgram_recv.
Call(t) ==
    /\ app = "open" /\ pc[t] = "idle"
    /\ Goto(t, "try")
    /\ UNCHANGED <<registered, queue, signaled, eof, pipe, gone, app, up, arrived, queued, read>>

\* poll()/select() on the descriptor before reading: served by the kernel.
PollFirst(t) ==
    /\ app = "open" /\ pc[t] = "idle"
    /\ Goto(t, "parked")
    /\ UNCHANGED <<registered, queue, signaled, eof, pipe, gone, app, up, arrived, queued, read>>

ConsumeAlways == signaled' = FALSE /\ pipe' = IF signaled THEN pipe - 1 ELSE pipe

\* recv_one consumes the readiness byte with the last datagram.
ConsumeSignal ==
    IF Tail(queue) = <<>> /\ signaled
      THEN signaled' = FALSE /\ pipe' = pipe - 1
      ELSE UNCHANGED <<signaled, pipe>>

\* recv_one: Got.
Got(t) ==
    /\ pc[t] = "try" /\ registered /\ queue # <<>>
    /\ queue' = Tail(queue)
    /\ read' = Append(read, Head(queue))
    /\ ConsumeSignal
    /\ Goto(t, "idle")
    /\ UNCHANGED <<registered, eof, gone, app, up, arrived, queued>>

\* Eof: the call returns 0.
SeeEof(t) ==
    /\ pc[t] = "try" /\ registered /\ queue = <<>> /\ eof
    /\ Goto(t, "eof")
    /\ UNCHANGED <<registered, queue, signaled, eof, pipe, gone, app, up, arrived, queued, read>>

\* Empty: park in poll, or return EAGAIN when the call must not block.
Empty(t) ==
    /\ pc[t] = "try" /\ registered /\ queue = <<>> /\ ~eof
    /\ \E label \in {"parked", "idle"} : Goto(t, label)
    /\ UNCHANGED <<registered, queue, signaled, eof, pipe, gone, app, up, arrived, queued, read>>

\* NoHandle: the socket was closed under the call.
NoHandle(t) ==
    /\ pc[t] = "try" /\ ~registered
    /\ Goto(t, "idle")
    /\ UNCHANGED <<registered, queue, signaled, eof, pipe, gone, app, up, arrived, queued, read>>

\* poll returns: the descriptor is readable, also once its end is shut down.
Readable(t) ==
    /\ pc[t] = "parked" /\ (pipe > 0 \/ gone) /\ app # "closed"
    /\ Goto(t, "try")
    /\ UNCHANGED <<registered, queue, signaled, eof, pipe, gone, app, up, arrived, queued, read>>

\* shutdown(2) of the app end, which the interposer does not see: from now on
\* send on the inner end fails.
LoseAppEnd ==
    /\ app = "open" /\ ~gone /\ gone' = TRUE
    /\ UNCHANGED <<registered, queue, signaled, eof, pipe, app, up, pc, arrived, queued, read>>

\* close(): destroy_ax25_fd unregisters, then closes the socketpair.
Unregister ==
    /\ app = "open" /\ app' = "unreg"
    /\ registered' = FALSE
    /\ queue' = <<>> /\ signaled' = FALSE /\ eof' = FALSE
    /\ UNCHANGED <<pipe, gone, up, pc, arrived, queued, read>>

CloseFds ==
    /\ app = "unreg" /\ app' = "closed"
    /\ pipe' = 0
    /\ UNCHANGED <<registered, queue, signaled, eof, gone, up, pc, arrived, queued, read>>

---------------------------------------------------------------------------
Step(t) == Got(t) \/ SeeEof(t) \/ Empty(t) \/ NoHandle(t) \/ Readable(t)

Next ==
    \/ OnDgram \/ OnDisconnect \/ Register \/ LoseAppEnd \/ Unregister \/ CloseFds
    \/ \E t \in Thread : Call(t) \/ PollFirst(t) \/ Step(t)

Spec == Init /\ [][Next]_vars

\* Threads inside a call keep running, and poll returns when the socketpair is
\* readable.
FairSpec == Spec /\ \A t \in Thread : WF_vars(Step(t))

---------------------------------------------------------------------------
\* state.rs 552-556: "exactly one byte sits in the pipe while the queue is
\* non-empty", never two, and none when it is empty, except for end-of-file.
\* Only a socketpair that was shut down is without it, and that one is readable.
Readiness ==
    registered =>
        /\ pipe = IF signaled THEN 1 ELSE 0
        /\ queue # <<>> => signaled \/ gone
        /\ signaled /\ ~eof => queue # <<>>

\* Datagrams are read whole, once and in the order they were queued, and no more
\* than DGRAM_QUEUE_CAP ever wait.
DgramOrder == (registered => queued = read \o queue) /\ Len(queue) <= QueueCap

\* A call that waits for a datagram returns once there is one: its thread, or
\* another one, gets it, unless the socket is closed.
ParkedThreadWakes ==
    \A t \in Thread :
        (pc[t] = "parked" /\ registered /\ queue # <<>>)
            ~> (pc[t] # "parked" \/ queue = <<>> \/ ~registered)

\* state.rs 815: "Transport gone: release every gate and EOF every live handle so
\* blocked reads/selects return": a thread in poll or select on a registered
\* datagram socket, also one that calls it afterwards, sees it readable.
DisconnectWakesReaders ==
    \A t \in Thread :
        (pc[t] = "parked" /\ registered /\ eof) ~> (pc[t] # "parked" \/ ~registered)
=============================================================================
