--------------------------- MODULE OutboundPump ---------------------------
(***************************************************************************)
(* The outbound pump (state.rs) and the send path of a connected socket    *)
(* (ax25_send in lib.rs, RhpClient::send in client.rs).                    *)
(*                                                                         *)
(* An application writes in two ways.  write() and send() are interposed:  *)
(* the calling thread sends the buffer to the engine itself.  stdio writes *)
(* past the interposer into the socketpair, from which the pump's thread,  *)
(* or the next interposed write, forwards it.  A lock per handle keeps the *)
(* two from mixing their bytes.                                            *)
(*                                                                         *)
(* Each handle has one application thread, whose order of writes is the    *)
(* order of the session, and is named by the handle.  A byte is the number *)
(* of its turn in that order.  Descriptor numbers are not reused here.     *)
(***************************************************************************)
EXTENDS Naturals, Sequences, Functions

CONSTANTS Handle,       \* sessions, and their application threads
          Pump,         \* the thread of outbound_loop
          MaxBytes,     \* bound: bytes an application writes
          PipeCap,      \* bytes the socketpair holds
          BufLen,       \* length of drain_locked's buffer
          ChunkLen      \* MAX_SEND_CHUNK

ASSUME OutboundAssumption ==
    /\ Pump \notin Handle /\ "free" \notin Handle \cup {Pump}
    /\ MaxBytes \in Nat
    /\ {PipeCap, BufLen, ChunkLen} \subseteq Nat \ {0}

VARIABLES
    entry,      \* entries: the handle is registered
    serial,     \* OutEntry.serial: the thread that holds it, or "free"
    gate,       \* connect gate: "gated", "draining", "drained", "none"
    fd,         \* descriptors: "open", "shut" (RHP closed), "unreg", "closed"
    half,       \* the application's end is shut for writing or closed
    up,         \* the RHP transport is up
    pipe,       \* bytes in the socketpair, application to pump
    pc,         \* program counter of every thread
    data,       \* the buffer of the interposed write in progress
    hand,       \* the bytes a thread's client.send has still to send
    cur,        \* the handle the pump is flushing
    snap,       \* outbound_loop's snapshot
    ready,      \* handles poll reported and the pump has not flushed yet
    made,       \* history: bytes the application wrote
    early,      \* history: bytes it wrote before the handle was registered
    wire,       \* history: bytes the engine took
    failed,     \* history: a send of the handle failed
    acked       \* history: bytes of interposed writes that returned success

session == <<entry, gate, fd, half, up>>
loopVars == <<cur, snap, ready>>
history == <<made, early, wire, failed, acked>>
vars == <<session, serial, pipe, pc, data, hand, loopVars, history>>

Thread == Handle \cup {Pump}
Byte == 1..MaxBytes
AppPc == {"idle", "lookup", "lock", "drain", "send", "own"}
PumpPc == {"snap", "poll", "client", "flush", "lock", "drain", "send"}

TypeOK ==
    /\ entry \in [Handle -> BOOLEAN]
    /\ serial \in [Handle -> Thread \cup {"free"}]
    /\ gate \in [Handle -> {"gated", "draining", "drained", "none"}]
    /\ fd \in [Handle -> {"open", "shut", "unreg", "closed"}]
    /\ half \in [Handle -> BOOLEAN]
    /\ up \in BOOLEAN
    /\ pipe \in [Handle -> Seq(Byte)] /\ \A h \in Handle : Len(pipe[h]) <= PipeCap
    /\ pc \in [Thread -> AppPc \cup PumpPc]
    /\ \A h \in Handle : pc[h] \in AppPc
    /\ pc[Pump] \in PumpPc
    /\ data \in [Handle -> Seq(Byte)]
    /\ hand \in [Thread -> Seq(Byte)] /\ Len(hand[Pump]) <= BufLen
    /\ cur \in Handle
    /\ snap \in SUBSET Handle
    /\ ready \in SUBSET snap
    /\ made \in [Handle -> 0..MaxBytes]
    /\ early \in [Handle -> 0..MaxBytes]
    /\ wire \in [Handle -> Seq(Byte)]
    /\ failed \in [Handle -> BOOLEAN]
    /\ acked \in [Handle -> SUBSET Byte]

\* Accepted sessions and blocking connects are registered before the
\* application gets to write; a non-blocking connect starts behind its gate.
Init ==
    /\ gate \in [Handle -> {"gated", "none"}]
    /\ entry = [h \in Handle |-> gate[h] = "none"]
    /\ serial = [h \in Handle |-> "free"]
    /\ fd = [h \in Handle |-> "open"]
    /\ half = [h \in Handle |-> FALSE]
    /\ up = TRUE
    /\ pipe = [h \in Handle |-> <<>>]
    /\ pc = [t \in Thread |-> IF t = Pump THEN "snap" ELSE "idle"]
    /\ data = [h \in Handle |-> <<>>]
    /\ hand = [t \in Thread |-> <<>>]
    /\ cur \in Handle /\ snap = {} /\ ready = {}
    /\ made = [h \in Handle |-> 0]
    /\ early = [h \in Handle |-> 0]
    /\ wire = [h \in Handle |-> <<>>]
    /\ failed = [h \in Handle |-> FALSE]
    /\ acked = [h \in Handle |-> {}]

Goto(t, label) == pc' = [pc EXCEPT ![t] = label]

Target(t) == IF t = Pump THEN cur ELSE t

---------------------------------------------------------------------------
(* The reader thread.                                                      *)

\* resolve_connect_gate's first recv makes the descriptor writable ...
GateOpens(h) ==
    /\ gate[h] = "gated" /\ fd[h] \in {"open", "shut"}
    /\ gate' = [gate EXCEPT ![h] = "draining"]
    /\ UNCHANGED <<entry, fd, half, up, serial, pipe, pc, data, hand, loopVars, history>>

\* ... and its last one takes whatever is in the socketpair by then.
GateDrained(h) ==
    /\ gate[h] = "draining"
    /\ gate' = [gate EXCEPT ![h] = "drained"]
    /\ pipe' = [pipe EXCEPT ![h] = <<>>]
    /\ UNCHANGED <<entry, fd, half, up, serial, pc, data, hand, loopVars, history>>

\* OutboundPump::register, whether or not the application closed meanwhile.
Register(h) ==
    /\ gate[h] = "drained"
    /\ gate' = [gate EXCEPT ![h] = "none"]
    /\ entry' = [entry EXCEPT ![h] = TRUE]
    /\ UNCHANGED <<fd, half, up, serial, pipe, pc, data, hand, loopVars, history>>

\* The transport drops: requests fail from now on.
Disconnect ==
    /\ up /\ up' = FALSE
    /\ UNCHANGED <<entry, gate, fd, half, serial, pipe, pc, data, hand, loopVars, history>>

---------------------------------------------------------------------------
(* The application.                                                        *)

New(h, n) == [i \in 1..n |-> made[h] + i]

\* Bytes the ordering promise does not cover: written before register().
CountWritten(h, n) ==
    /\ made' = [made EXCEPT ![h] = @ + n]
    /\ early' = [early EXCEPT ![h] = IF entry[h] THEN @ ELSE made[h] + n]

MayWrite(h, n) ==
    pc[h] = "idle" /\ fd[h] = "open" /\ made[h] + n <= MaxBytes

\* stdio: write(2) into the socketpair, which blocks while it is full.
Bypass(h) ==
    /\ MayWrite(h, 1) /\ ~half[h] /\ gate[h] # "gated"
    /\ Len(pipe[h]) < PipeCap
    /\ pipe' = [pipe EXCEPT ![h] = Append(@, made[h] + 1)]
    /\ CountWritten(h, 1)
    /\ UNCHANGED <<session, serial, pc, data, hand, loopVars, wire, failed, acked>>

\* ax25_send, with a client.  An empty buffer is sent as an empty chunk.
Write(h) ==
    /\ \E n \in 0..ChunkLen + 1 :
          /\ MayWrite(h, n)
          /\ data' = [data EXCEPT ![h] = New(h, n)]
          /\ CountWritten(h, n)
    /\ Goto(h, "lookup")
    /\ UNCHANGED <<session, serial, pipe, hand, loopVars, wire, failed, acked>>

\* send_ordered: an unregistered handle just sends.
Lookup(h) ==
    /\ pc[h] = "lookup"
    /\ IF entry[h]
         THEN Goto(h, "lock") /\ UNCHANGED hand
         ELSE Goto(h, "own") /\ hand' = [hand EXCEPT ![h] = data[h]]
    /\ UNCHANGED <<session, serial, pipe, data, loopVars, history>>

\* shutdown(fd, SHUT_WR) and the close of fclose() go past the interposer.
HalfClose(h) ==
    /\ pc[h] = "idle" /\ fd[h] = "open" /\ ~half[h]
    /\ half' = [half EXCEPT ![h] = TRUE]
    /\ UNCHANGED <<entry, gate, fd, up, serial, pipe, pc, data, hand, loopVars, history>>

\* close(): the RHP close first ...
CloseRequest(h) ==
    /\ pc[h] = "idle" /\ fd[h] = "open"
    /\ fd' = [fd EXCEPT ![h] = "shut"]
    /\ UNCHANGED <<entry, gate, half, up, serial, pipe, pc, data, hand, loopVars, history>>

\* ... then destroy_ax25_fd removes the entry and the gate ...
Unregister(h) ==
    /\ fd[h] = "shut"
    /\ fd' = [fd EXCEPT ![h] = "unreg"]
    /\ entry' = [entry EXCEPT ![h] = FALSE]
    /\ gate' = [gate EXCEPT ![h] = IF @ = "gated" THEN "none" ELSE @]
    /\ UNCHANGED <<half, up, serial, pipe, pc, data, hand, loopVars, history>>

\* ... and closes the socketpair with what is still in it.
CloseFds(h) ==
    /\ fd[h] = "unreg"
    /\ fd' = [fd EXCEPT ![h] = "closed"]
    /\ pipe' = [pipe EXCEPT ![h] = <<>>]
    /\ UNCHANGED <<entry, gate, half, up, serial, pc, data, hand, loopVars, history>>

---------------------------------------------------------------------------
(* drain_locked and client.send, run by the pump and by interposed writes. *)

NoSerializer(h) == TRUE

\* The serializer can be taken.
SerialFree(h) == serial[h] = "free"

Lock(t) ==
    /\ pc[t] = "lock" /\ SerialFree(Target(t))
    /\ serial' = [serial EXCEPT ![Target(t)] = t]
    /\ Goto(t, "drain")
    /\ UNCHANGED <<session, pipe, data, hand, loopVars, history>>

LesserOf(m, n) == IF m <= n THEN m ELSE n

ReceivedAll(h) == Len(pipe[h])

\* recv returns a bufferful at most.
Received(h) == LesserOf(Len(pipe[h]), BufLen)

\* What recv leaves in the socketpair.
LeftIn(h) == SubSeq(pipe[h], Received(h) + 1, Len(pipe[h]))

Recv(t) ==
    LET h == Target(t) IN
    /\ pc[t] = "drain" /\ pipe[h] # <<>>
    /\ hand' = [hand EXCEPT ![t] = SubSeq(pipe[h], 1, Received(h))]
    /\ pipe' = [pipe EXCEPT ![h] = LeftIn(h)]
    /\ Goto(t, "send")
    /\ UNCHANGED <<session, serial, data, loopVars, history>>

\* EAGAIN, end-of-file or a closed descriptor: the pump is done with the
\* handle, an interposed write goes on to its own buffer.
RecvNothing(t) ==
    /\ pc[t] = "drain" /\ pipe[Target(t)] = <<>>
    /\ IF t = Pump
         THEN /\ Goto(t, "flush")
              /\ serial' = [serial EXCEPT ![cur] = "free"]
              /\ UNCHANGED hand
         ELSE /\ Goto(t, "own")
              /\ hand' = [hand EXCEPT ![t] = data[t]]
              /\ UNCHANGED serial
    /\ UNCHANGED <<session, pipe, data, loopVars, history>>

Chunk(t) == SubSeq(hand[t], 1, LesserOf(Len(hand[t]), ChunkLen))

FirstChunkOnly(t) == <<>>

\* What remains of the data after send_chunk.
AfterChunk(t) == SubSeq(hand[t], Len(Chunk(t)) + 1, Len(hand[t]))

\* drain_locked goes round its loop whatever client.send returned.
DrainOn(t) ==
    /\ pc[t] = "send" /\ Goto(t, "drain")
    /\ UNCHANGED <<serial, data, acked>>

\* An interposed write returns, its guard dropped.
Return(h, ok) ==
    /\ pc[h] = "own" /\ Goto(h, "idle")
    /\ serial' = IF serial[h] = h THEN [serial EXCEPT ![h] = "free"] ELSE serial
    /\ data' = [data EXCEPT ![h] = <<>>]
    /\ acked' = IF ok THEN [acked EXCEPT ![h] = @ \cup Range(data[h])] ELSE acked

\* send_chunk is answered with success; the last one ends client.send.
SendChunk(t) ==
    /\ pc[t] \in {"send", "own"} /\ up
    /\ wire' = [wire EXCEPT ![Target(t)] = @ \o Chunk(t)]
    /\ hand' = [hand EXCEPT ![t] = AfterChunk(t)]
    /\ IF AfterChunk(t) = <<>>
         THEN DrainOn(t) \/ Return(t, TRUE)
         ELSE UNCHANGED <<pc, serial, data, acked>>
    /\ UNCHANGED <<session, pipe, loopVars, made, early, failed>>

\* send_chunk fails, and the chunks after it are not sent.  The engine may have
\* taken this one all the same, when it is the answer that was late or lost.
SendFails(t) ==
    /\ pc[t] \in {"send", "own"}
    /\ \E taken \in {<<>>} \cup IF up THEN {Chunk(t)} ELSE {} :
          wire' = [wire EXCEPT ![Target(t)] = @ \o taken]
    /\ hand' = [hand EXCEPT ![t] = <<>>]
    /\ failed' = [failed EXCEPT ![Target(t)] = TRUE]
    /\ DrainOn(t) \/ Return(t, FALSE)
    /\ UNCHANGED <<session, pipe, loopVars, made, early>>

---------------------------------------------------------------------------
(* outbound_loop.                                                          *)

\* Parked while nothing is registered; the notification comes under the lock.
Snapshot ==
    /\ pc[Pump] = "snap" /\ \E h \in Handle : entry[h]
    /\ snap' = {h \in Handle : entry[h]}
    /\ Goto(Pump, "poll")
    /\ UNCHANGED <<session, serial, pipe, data, hand, cur, ready, history>>

HangupOnly(h) == fd[h] # "closed" /\ half[h]

\* POLLIN or POLLHUP: bytes, or the end-of-file of an end that is shut or closed.
Readable(h) == fd[h] # "closed" /\ (pipe[h] # <<>> \/ half[h])

\* poll returns: POLLNVAL of a closed descriptor counts too.
PollReady ==
    /\ pc[Pump] = "poll"
    /\ \E h \in snap : Readable(h) \/ fd[h] = "closed"
    /\ ready' = {h \in snap : Readable(h)}
    /\ Goto(Pump, "client")
    /\ UNCHANGED <<session, serial, pipe, data, hand, cur, snap, history>>

PollTimeout ==
    /\ pc[Pump] = "poll"
    /\ \A h \in snap : ~Readable(h) /\ fd[h] # "closed"
    /\ Goto(Pump, "snap")
    /\ UNCHANGED <<session, serial, pipe, data, hand, loopVars, history>>

\* ensure_client: the live client, or a new one whose engine session knows none
\* of the handles, so that sends fail.
HaveClient ==
    /\ pc[Pump] = "client"
    /\ Goto(Pump, "flush")
    /\ UNCHANGED <<session, serial, pipe, data, hand, loopVars, history>>

\* ensure_client: none.
NoClient ==
    /\ pc[Pump] = "client" /\ ~up
    /\ Goto(Pump, "snap") /\ ready' = {}
    /\ UNCHANGED <<session, serial, pipe, data, hand, cur, snap, history>>

\* flush: looks the handle up again, and skips one that is gone.
Flush ==
    /\ pc[Pump] = "flush"
    /\ \E h \in ready :
          /\ ready' = ready \ {h}
          /\ IF entry[h]
               THEN cur' = h /\ Goto(Pump, "lock")
               ELSE UNCHANGED <<cur, pc>>
    /\ UNCHANGED <<session, serial, pipe, data, hand, snap, history>>

PassDone ==
    /\ pc[Pump] = "flush" /\ ready = {}
    /\ Goto(Pump, "snap")
    /\ UNCHANGED <<session, serial, pipe, data, hand, loopVars, history>>

---------------------------------------------------------------------------
Drain(t) == Lock(t) \/ Recv(t) \/ RecvNothing(t) \/ SendChunk(t) \/ SendFails(t)

Loop ==
    Snapshot \/ PollReady \/ PollTimeout \/ HaveClient \/ NoClient \/ Flush \/ PassDone

Reader(h) == GateOpens(h) \/ GateDrained(h) \/ Register(h)

App(h) ==
    \/ Bypass(h) \/ Write(h) \/ HalfClose(h)
    \/ CloseRequest(h) \/ Unregister(h) \/ CloseFds(h)

Next ==
    \/ Disconnect \/ Loop
    \/ \E t \in Thread : Drain(t)
    \/ \E h \in Handle : Reader(h) \/ App(h) \/ Lookup(h)

Spec == Init /\ [][Next]_vars

\* The pump's thread and the reader run and calls that began go on, so that every
\* request ends: with its answer, with an error or by its timeout.  (The timeout
\* starts once the request is written, so the engine must keep reading.)
FairSpec ==
    /\ Spec
    /\ WF_vars(Loop \/ Drain(Pump))
    /\ \A h \in Handle :
          /\ WF_vars(Lookup(h) \/ Drain(h) \/ Unregister(h) \/ CloseFds(h))
          /\ WF_vars(GateDrained(h) \/ Register(h))

---------------------------------------------------------------------------
(* Properties.                                                             *)

\* The bytes of a session on their way to the engine, the foremost first.
Under(h, t) == IF Target(t) = h THEN hand[t] ELSE <<>>
Waiting(h) == IF pc[h] \in {"lookup", "lock", "drain", "send"} THEN data[h] ELSE <<>>
InFlight(h) == wire[h] \o Under(h, Pump) \o Under(h, h) \o pipe[h] \o Waiting(h)

\* state.rs 420-424: stdio and interposed writes of one session leave in the
\* order in which the application made them, none of them twice, whichever
\* thread forwards them and whatever fails.  The promise starts with
\* registration: before it nobody holds back a write() behind bytes of stdio.
SessionOrder ==
    \A h \in Handle :
        \A i, j \in DOMAIN InFlight(h) :
            early[h] < InFlight(h)[i] /\ early[h] < InFlight(h)[j] /\ i < j
                => InFlight(h)[i] < InFlight(h)[j]

\* state.rs 412-416: bytes that bypassed the interposer are not lost, nor any
\* others, as long as no send failed and the descriptor is open.
LossNeedsFailure ==
    \A h \in Handle : fd[h] # "closed" /\ ~failed[h] =>
        \A b \in Byte : early[h] < b /\ b <= made[h] => b \in Range(InFlight(h))

\* lib.rs 602: an interposed write reports success only for what the engine
\* took, and by then everything written before it has left the socketpair.
AckedOnWire ==
    \A h \in Handle : \A b \in acked[h] :
        /\ b \in Range(wire[h])
        /\ early[h] < b => \A i \in DOMAIN pipe[h] : b < pipe[h][i]

\* No byte is lost behind the application's back: it takes a failed send or a
\* close, and a write that was reported as successful is with the engine.
LossReported == LossNeedsFailure /\ AckedOnWire

\* state.rs 414-416: a byte that bypassed the interposer reaches the session
\* without another write, unless a send fails or the session ends.
BypassForwarded ==
    \A h \in Handle : \A b \in Byte :
        b \in Range(pipe[h]) /\ entry[h]
            ~> b \in Range(wire[h]) \/ failed[h] \/ fd[h] # "open" \/ ~up

Quiet ==
    \/ pc[Pump] = "snap" /\ \A h \in Handle : ~entry[h]
    \/ pc[Pump] = "poll" /\ \A h \in snap : ~Readable(h) /\ fd[h] # "closed"
    \/ pc[Pump] = "lock" /\ ~SerialFree(cur)

\* state.rs 533-534: "POLLIN clears once drained, so this never busy-spins".  While
\* the descriptors are open, the transport is up and no write is on its way, the
\* thread comes to rest again and again.  The code does not keep this: an end that
\* was shut down or closed past the interposer is at end-of-file, which keeps poll
\* ready with nothing to drain.  (An entry that outlived its descriptors, and bytes
\* without a client to send them, keep it ready too.)
NeverSpins ==
    <>[](up /\ \A h \in Handle : pc[h] = "idle" /\ fd[h] = "open") => []<>Quiet
=============================================================================
