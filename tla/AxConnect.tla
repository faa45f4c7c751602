----------------------------- MODULE AxConnect -----------------------------
(***************************************************************************)
(* Outbound connect() of a connected socket, blocking and non-blocking:    *)
(* connect(), getsockopt(SO_ERROR) and close() in lib.rs, the connect      *)
(* gates and destroy_ax25_fd in state.rs, ConnRegistry, open_connect and   *)
(* wait_connected in client.rs, and the reader thread's status, close and  *)
(* disconnect handling.                                                    *)
(*                                                                         *)
(* A handle stands for one connect(): the engine's handle, the descriptor  *)
(* and the application thread that connects, polls and closes it.  The     *)
(* bytes a connected handle carries are RecvPump's.                        *)
(***************************************************************************)
CONSTANT Handle

VARIABLES
    link,   \* link[h]: what the engine did about h
    reply,  \* reply[h]: the openReply in the caller's channel
    phase,  \* ConnRegistry.map: ConnPhase of h, or "absent"
    gate,   \* the handles in connect_gates
    filler, \* the handles whose app_fd is full of filler: not writable
    outReg, \* the handles registered with the outbound pump
    fdOpen, \* the handles whose socketpair is open
    closed, \* RhpClient.closed
    rd,     \* what the reader thread is doing
    cur,    \* the handles resolve_connect_gate works on in the reader: one or none
    todo,   \* on_disconnect: gates still to resolve
    nb,     \* the handles whose descriptor has O_NONBLOCK
    pc,     \* where h's application thread is
    result, \* result[h]: what connect() returned
    soerr,  \* soerr[h]: what the first getsockopt(SO_ERROR) returned
    wasUp   \* history: the handles whose link came up

vars == <<link, reply, phase, gate, filler, outReg, fdOpen, closed, rd, cur, todo,
          nb, pc, result, soerr, wasUp>>
registry == <<gate, filler, outReg, fdOpen>>
engine == <<link, reply, wasUp>>
reader == <<closed, rd, cur, todo>>

Waiting == {"look", "park", "asleep", "expired"}

PCs == Waiting \cup
    {"start", "reply", "pending", "fill", "gate", "check", "resolve", "drain", "register",
     "inprogress", "polled", "outreg", "connected", "failed",
     "closing", "unregister", "ungate", "closefds", "closed"}

TypeOK ==
    /\ link \in [Handle -> {"none", "asked", "pending", "up", "refused", "ended", "closed"}]
    /\ reply \in [Handle -> {"none", "ok", "error", "dropped"}]
    /\ phase \in [Handle -> {"absent", "pending", "connected", "refused", "reset"}]
    /\ gate \subseteq Handle /\ filler \subseteq Handle
    /\ outReg \subseteq Handle /\ fdOpen \subseteq Handle
    /\ closed \in BOOLEAN
    /\ rd \in {"idle", "resolve", "drain", "register", "clear", "failall", "snapshot",
               "next", "ended"}
    /\ cur \subseteq Handle /\ todo \subseteq Handle
    /\ nb \subseteq Handle
    /\ pc \in [Handle -> PCs]
    /\ result \in [Handle -> {"none", "ok", "refused", "reset", "timedout", "io", "inprogress"}]
    /\ soerr \in [Handle -> {"none", "zero", "refused", "reset"}]
    /\ wasUp \subseteq Handle

Init ==
    /\ link = [h \in Handle |-> "none"]
    /\ reply = [h \in Handle |-> "none"]
    /\ phase = [h \in Handle |-> "absent"]
    /\ gate = {} /\ filler = {} /\ outReg = {} /\ fdOpen = Handle
    /\ closed = FALSE /\ rd = "idle" /\ cur = {} /\ todo = {}
    /\ nb \in SUBSET Handle
    /\ pc = [h \in Handle |-> "start"]
    /\ result = [h \in Handle |-> "none"]
    /\ soerr = [h \in Handle |-> "none"]
    /\ wasUp = {}

Goto(h, label) == pc' = [pc EXCEPT ![h] = label]

---------------------------------------------------------------------------
(* ConnRegistry.  Its mutex is held by a thread between the test of closed *)
(* and the wait in wait_connected.                                         *)

MapFree == \A h \in Handle : pc[h] # "park"

\* set_pending never downgrades.
SetPendingEntry(h) ==
    phase' = [phase EXCEPT ![h] = IF @ = "absent" THEN "pending" ELSE @]

NotifyAll == pc' = [h \in Handle |-> IF pc[h] = "asleep" THEN "look" ELSE pc[h]]

MarkConnected(h) == phase' = [phase EXCEPT ![h] = "connected"] /\ NotifyAll

\* mark_failed: a close on a connected handle is a normal EOF.
MarkFailed(h) ==
    /\ phase' = [phase EXCEPT ![h] = IF @ = "pending" THEN "refused" ELSE @]
    /\ NotifyAll

FailAllPending ==
    /\ phase' = [h \in Handle |-> IF phase[h] = "pending" THEN "reset" ELSE phase[h]]
    /\ NotifyAll

Resolved(h) == phase[h] \in {"connected", "refused", "reset"}

---------------------------------------------------------------------------
(* The reader thread.                                                      *)

\* The engine answers open; the reader hands the reply to the caller.  A caller
\* that gave up leaves the reply, and the engine's handle, to nobody.
ReadOpenReply(h) ==
    /\ rd = "idle" /\ link[h] = "asked"
    /\ \/ link' = [link EXCEPT ![h] = "pending"] /\ reply' = [reply EXCEPT ![h] = "ok"]
       \/ link' = [link EXCEPT ![h] = "closed"] /\ reply' = [reply EXCEPT ![h] = "error"]
    /\ UNCHANGED <<phase, registry, reader, nb, pc, result, soerr, wasUp>>

\* dispatch_push status(Connected): mark_connected, then on_status.
ReadStatus(h) ==
    /\ rd = "idle" /\ link[h] = "pending" /\ MapFree
    /\ link' = [link EXCEPT ![h] = "up"]
    /\ wasUp' = wasUp \cup {h}
    /\ MarkConnected(h)
    /\ rd' = "resolve" /\ cur' = {h}
    /\ UNCHANGED <<reply, registry, closed, todo, nb, result, soerr>>

\* dispatch_push close: mark_failed, then on_close.
ReadClose(h) ==
    /\ rd = "idle" /\ link[h] \in {"pending", "up"} /\ MapFree
    /\ link' = [link EXCEPT ![h] = IF @ = "pending" THEN "refused" ELSE "ended"]
    /\ MarkFailed(h)
    /\ rd' = "resolve" /\ cur' = {h}
    /\ UNCHANGED <<reply, registry, closed, todo, nb, result, soerr, wasUp>>

\* resolve_connect_gate: whoever removes the gate drains the filler, then
\* registers with the outbound pump.
AfterResolve == rd' = (IF closed THEN "next" ELSE "idle") /\ cur' = {}

ResolveRemove(h) ==
    /\ rd = "resolve" /\ h \in cur
    /\ \/ h \in gate /\ gate' = gate \ {h} /\ rd' = "drain" /\ UNCHANGED cur
       \/ h \notin gate /\ UNCHANGED gate /\ AfterResolve
    /\ UNCHANGED <<engine, phase, filler, outReg, fdOpen, closed, todo, nb, pc, result, soerr>>

DrainNothing(h) == filler

Drained(h) == filler \ {h}

ResolveDrain(h) ==
    /\ rd = "drain" /\ h \in cur
    /\ filler' = Drained(h)
    /\ rd' = "register"
    /\ UNCHANGED <<engine, phase, gate, outReg, fdOpen, closed, cur, todo, nb, pc, result, soerr>>

ResolveRegister(h) ==
    /\ rd = "register" /\ h \in cur
    /\ outReg' = outReg \cup {h}
    /\ AfterResolve
    /\ UNCHANGED <<engine, phase, gate, filler, fdOpen, closed, todo, nb, pc, result, soerr>>

\* reader_loop ends: closed is set; pending requests are faulted; pending
\* connects fail; then on_disconnect resolves the gates it finds.
SetClosed ==
    /\ rd = "idle" /\ rd' = "clear" /\ closed' = TRUE
    /\ UNCHANGED <<engine, phase, registry, cur, todo, nb, pc, result, soerr>>

ClearPending ==
    /\ rd = "clear" /\ rd' = "failall"
    /\ reply' = [h \in Handle |-> IF link[h] = "asked" THEN "dropped" ELSE reply[h]]
    /\ UNCHANGED <<link, wasUp, phase, registry, closed, cur, todo, nb, pc, result, soerr>>

FailAll ==
    /\ rd = "failall" /\ rd' = "snapshot" /\ MapFree
    /\ FailAllPending
    /\ UNCHANGED <<engine, registry, closed, cur, todo, nb, result, soerr>>

Snapshot ==
    /\ rd = "snapshot" /\ rd' = "next"
    /\ todo' = gate
    /\ UNCHANGED <<engine, phase, registry, closed, cur, nb, pc, result, soerr>>

NextGate ==
    /\ rd = "next"
    /\ \/ \E h \in todo : todo' = todo \ {h} /\ cur' = {h} /\ rd' = "resolve"
       \/ todo = {} /\ rd' = "ended" /\ UNCHANGED <<todo, cur>>
    /\ UNCHANGED <<engine, phase, registry, closed, nb, pc, result, soerr>>

---------------------------------------------------------------------------
(* connect().                                                              *)

\* ensure_client and the open request.  (A request made as the transport ends
\* is RhpRequest's subject: no handle comes of it.)
Open(h) ==
    /\ pc[h] = "start" /\ ~closed
    /\ link' = [link EXCEPT ![h] = "asked"]
    /\ Goto(h, "reply")
    /\ UNCHANGED <<reply, wasUp, phase, registry, reader, nb, result, soerr>>

Return(h, r, label) == result' = [result EXCEPT ![h] = r] /\ Goto(h, label)

\* open() returns: the reply, or an error.
GetReply(h) ==
    /\ pc[h] = "reply"
    /\ \/ reply[h] = "ok" /\ Goto(h, "pending") /\ UNCHANGED result
       \/ reply[h] \in {"error", "dropped"} /\ Return(h, "io", "failed")
    /\ UNCHANGED <<engine, phase, registry, reader, nb, soerr>>

\* or nothing within 30 s.
ReplyTimeout(h) ==
    /\ pc[h] = "reply" /\ reply[h] = "none"
    /\ Return(h, "io", "failed")
    /\ UNCHANGED <<engine, phase, registry, reader, nb, soerr>>

\* open_connect arms the tracking; connect() records the handle and branches on
\* O_NONBLOCK.
SetPending(h) ==
    /\ pc[h] = "pending" /\ MapFree
    /\ SetPendingEntry(h)
    /\ Goto(h, IF h \in nb THEN "fill" ELSE "look")
    /\ UNCHANGED <<engine, registry, reader, nb, result, soerr>>

FillNothing(h) ==
    /\ pc[h] = "fill"
    /\ Goto(h, "gate")
    /\ UNCHANGED <<engine, phase, registry, reader, nb, result, soerr>>

\* arm_connect_gate fills the pipe, then inserts the gate.
Fill(h) ==
    /\ pc[h] = "fill"
    /\ filler' = filler \cup {h}
    /\ Goto(h, "gate")
    /\ UNCHANGED <<engine, phase, gate, outReg, fdOpen, reader, nb, result, soerr>>

ArmGate(h) ==
    /\ pc[h] = "gate"
    /\ gate' = gate \cup {h}
    /\ Goto(h, "check")
    /\ UNCHANGED <<engine, phase, filler, outReg, fdOpen, reader, nb, result, soerr>>

NotResolved(h) == FALSE

\* connect_result is in: the reader may have found no gate.
AlreadyResolved(h) == Resolved(h)

Check(h) ==
    /\ pc[h] = "check" /\ MapFree
    /\ \/ AlreadyResolved(h) /\ Goto(h, "resolve") /\ UNCHANGED result
       \/ ~AlreadyResolved(h) /\ Return(h, "inprogress", "inprogress")
    /\ UNCHANGED <<engine, phase, registry, reader, nb, soerr>>

\* resolve_connect_gate on the connecting thread.
OwnRemove(h) ==
    /\ pc[h] = "resolve"
    /\ \/ h \in gate /\ gate' = gate \ {h} /\ Goto(h, "drain") /\ UNCHANGED result
       \/ h \notin gate /\ UNCHANGED gate /\ Return(h, "inprogress", "inprogress")
    /\ UNCHANGED <<engine, phase, filler, outReg, fdOpen, reader, nb, soerr>>

OwnDrain(h) ==
    /\ pc[h] = "drain"
    /\ filler' = Drained(h)
    /\ Goto(h, "register")
    /\ UNCHANGED <<engine, phase, gate, outReg, fdOpen, reader, nb, result, soerr>>

OwnRegister(h) ==
    /\ pc[h] = "register"
    /\ outReg' = outReg \cup {h}
    /\ Return(h, "inprogress", "inprogress")
    /\ UNCHANGED <<engine, phase, gate, filler, fdOpen, reader, nb, soerr>>

\* wait_connected, under the map's lock: a terminal phase, the closed flag, or
\* on to the condition variable.
Outcome(h) ==
    \/ phase[h] = "connected" /\ Goto(h, "outreg") /\ UNCHANGED result
    \/ phase[h] \in {"refused", "reset"} /\ Return(h, phase[h], "failed")

Look(h) ==
    /\ pc[h] = "look" /\ MapFree
    /\ \/ Outcome(h)
       \/ ~Resolved(h) /\ closed /\ Return(h, "reset", "failed")
       \/ ~Resolved(h) /\ ~closed /\ Goto(h, "park") /\ UNCHANGED result
    /\ UNCHANGED <<engine, phase, registry, reader, nb, soerr>>

\* wait_timeout releases the lock.
Park(h) ==
    /\ pc[h] = "park"
    /\ Goto(h, "asleep")
    /\ UNCHANGED <<engine, phase, registry, reader, nb, result, soerr>>

\* CONNECT_TIMEOUT; the phase is looked up once more.
Expire(h) ==
    /\ pc[h] = "asleep"
    /\ Goto(h, "expired")
    /\ UNCHANGED <<engine, phase, registry, reader, nb, result, soerr>>

ExpiredOk(h) ==
    /\ pc[h] = "expired" /\ MapFree
    /\ Goto(h, "outreg")
    /\ UNCHANGED <<engine, phase, registry, reader, nb, result, soerr>>

Expired(h) ==
    /\ pc[h] = "expired" /\ MapFree
    /\ Outcome(h) \/ (~Resolved(h) /\ Return(h, "timedout", "failed"))
    /\ UNCHANGED <<engine, phase, registry, reader, nb, soerr>>

\* Ok: the outbound pump may forward bypassed writes.
RegisterOutbound(h) ==
    /\ pc[h] = "outreg"
    /\ outReg' = outReg \cup {h}
    /\ Return(h, "ok", "connected")
    /\ UNCHANGED <<engine, phase, gate, filler, fdOpen, reader, nb, soerr>>

---------------------------------------------------------------------------
(* After connect(): poll for writability, getsockopt(SO_ERROR), close().   *)

Writable(h) == h \notin filler

\* take_error reads and clears.  ensure_client replaces a closed client by one
\* that does not know the handle, or by none: 0 either way.
GetSoError(h) ==
    /\ pc[h] = "inprogress" /\ Writable(h) /\ MapFree
    /\ \/ /\ ~closed /\ phase[h] \in {"refused", "reset"}
          /\ soerr' = [soerr EXCEPT ![h] = phase[h]]
          /\ phase' = [phase EXCEPT ![h] = "connected"]
       \/ /\ closed \/ phase[h] \notin {"refused", "reset"}
          /\ soerr' = [soerr EXCEPT ![h] = "zero"]
          /\ UNCHANGED phase
    /\ Goto(h, "polled")
    /\ UNCHANGED <<engine, registry, reader, nb, result>>

\* close() with a handle: RhpClient::close forgets the phase and asks the engine
\* to close, unless the client is closed.  A connect() whose open failed left no
\* handle.
CloseRequest(h) ==
    /\ pc[h] \in {"inprogress", "polled", "connected", "failed"} /\ MapFree
    /\ \/ /\ result[h] # "io" /\ ~closed
          /\ phase' = [phase EXCEPT ![h] = "absent"]
          /\ Goto(h, "closing")
       \/ result[h] # "io" /\ closed /\ Goto(h, "unregister") /\ UNCHANGED phase
       \/ result[h] = "io" /\ Goto(h, "closefds") /\ UNCHANGED phase
    /\ UNCHANGED <<engine, registry, reader, nb, result, soerr>>

\* The closeReply came through the reader, or the transport ended.
CloseReply(h) ==
    /\ pc[h] = "closing"
    /\ \/ rd = "idle" /\ link' = [link EXCEPT ![h] = "closed"]
       \/ closed /\ UNCHANGED link
    /\ Goto(h, "unregister")
    /\ UNCHANGED <<reply, wasUp, phase, registry, reader, nb, result, soerr>>

\* No closeReply within 30 s: close() goes on, and the engine keeps its handle.
CloseTimeout(h) ==
    /\ pc[h] = "closing"
    /\ Goto(h, "unregister")
    /\ UNCHANGED <<engine, phase, registry, reader, nb, result, soerr>>

\* destroy_ax25_fd: the pumps' entries, the gate, then the descriptors.
UnregisterOutbound(h) ==
    /\ pc[h] = "unregister"
    /\ outReg' = outReg \ {h}
    /\ Goto(h, "ungate")
    /\ UNCHANGED <<engine, phase, gate, filler, fdOpen, reader, nb, result, soerr>>

RemoveGate(h) ==
    /\ pc[h] = "ungate"
    /\ gate' = gate \ {h}
    /\ Goto(h, "closefds")
    /\ UNCHANGED <<engine, phase, filler, outReg, fdOpen, reader, nb, result, soerr>>

CloseFds(h) ==
    /\ pc[h] = "closefds"
    /\ fdOpen' = fdOpen \ {h} /\ filler' = filler \ {h}
    /\ Goto(h, "closed")
    /\ UNCHANGED <<engine, phase, gate, outReg, reader, nb, result, soerr>>

---------------------------------------------------------------------------
\* The reader's steps between two frames.
ReaderStep ==
    \/ \E h \in cur : ResolveRemove(h) \/ ResolveDrain(h) \/ ResolveRegister(h)
    \/ ClearPending \/ FailAll \/ Snapshot \/ NextGate

\* A thread inside connect() or close(), except for the timers.
ThreadStep(h) ==
    \/ GetReply(h) \/ SetPending(h) \/ Fill(h) \/ ArmGate(h) \/ Check(h)
    \/ OwnRemove(h) \/ OwnDrain(h) \/ OwnRegister(h)
    \/ Look(h) \/ Park(h) \/ Expired(h) \/ RegisterOutbound(h)
    \/ CloseReply(h) \/ UnregisterOutbound(h) \/ RemoveGate(h) \/ CloseFds(h)

Next ==
    \/ \E h \in Handle :
          \/ ReadOpenReply(h) \/ ReadStatus(h) \/ ReadClose(h)
          \/ ThreadStep(h)
          \/ Open(h) \/ ReplyTimeout(h) \/ Expire(h) \/ GetSoError(h)
          \/ CloseRequest(h) \/ CloseTimeout(h)
    \/ SetClosed
    \/ ReaderStep

Spec == Init /\ [][Next]_vars

\* The reader finishes what it began, and threads inside a call keep running
\* (the map's lock is held for one step at a time).  Nothing is assumed of the
\* engine, the timers or the application.
FairSpec ==
    /\ Spec
    /\ WF_vars(ReaderStep)
    /\ \A h \in Handle : WF_vars(ThreadStep(h))

---------------------------------------------------------------------------
\* The close push came before set_pending, and mark_failed ignored it.
Overtaken(h) == link[h] = "refused" /\ phase[h] = "pending"

\* connect() returns success only for a link that came up; it and SO_ERROR report
\* a refusal only for a link that never did and a reset only when the transport
\* is gone.  SO_ERROR reports 0 for a link that came up, and for one that did not
\* only after the transport dropped (the new client does not know the handle) or
\* when the close push overtook set_pending.
ConnectTruth ==
    \A h \in Handle :
        /\ result[h] = "ok" => h \in wasUp
        /\ "refused" \in {result[h], soerr[h]} => h \notin wasUp
        /\ "reset" \in {result[h], soerr[h]} => closed
        /\ pc[h] = "polled" /\ soerr[h] = "zero" => h \in wasUp \/ closed \/ Overtaken(h)

\* The gate holds: the descriptor of a connect in progress is not writable while
\* the engine is still connecting, whichever of the reader and the connecting
\* thread resolves the gate and however they interleave.
GateHolds ==
    \A h \in Handle :
        pc[h] = "inprogress" /\ Writable(h) => link[h] # "pending" \/ closed

\* The outbound pump never sees the gate's filler (issue #7): a registered
\* handle has none in its pipe.
FillerPrivate == outReg \cap filler = {}

\* A non-blocking connect whose outcome is known becomes writable.
OutcomeReleases ==
    \A h \in Handle :
        (pc[h] = "inprogress" /\ Resolved(h)) ~> (Writable(h) \/ pc[h] # "inprogress")

\* A blocking connect returns once the link comes up, is refused or the transport
\* ends, without its timer: no wakeup is lost.
WaitEnds ==
    \A h \in Handle :
        (pc[h] \in Waiting /\ (Resolved(h) \/ closed)) ~> (pc[h] \notin Waiting)

\* A connect whose outcome the client knows comes to its end, blocking or not,
\* whichever of the reader and the connecting thread gets there first.
ConnectEnds == OutcomeReleases /\ WaitEnds

\* state.rs 807-808: "A close on a still-gated handle is a failed non-blocking
\* connect: release the gate so the app wakes".
RefusalReleases ==
    \A h \in Handle :
        (pc[h] = "inprogress" /\ link[h] = "refused") ~> (Writable(h) \/ pc[h] # "inprogress")
=============================================================================
