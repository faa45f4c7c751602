----------------------------- MODULE RecvPump -----------------------------
(***************************************************************************)
(* The receive pump of the LD_PRELOAD interposer (state.rs): how the bytes *)
(* of RHP `recv` pushes get from the single reader thread into the         *)
(* socketpairs the application reads, and how end-of-file follows them.    *)
(*                                                                         *)
(* Threads: the RHP reader (Push, MarkEof, ShutdownAll, run from           *)
(* InterposeSink), the flusher (Flusher... and Drain...), the application, *)
(* whose thread registers a handle at the end of connect()/accept(), reads *)
(* the socketpair and closes it.  The pump's mutex is held by the flusher  *)
(* exactly while fl = "drain"; every other critical section is one step.   *)
(* Application reads go to the kernel and do not take the mutex, so they   *)
(* interleave with a drain.                                                *)
(*                                                                         *)
(* before, after, kept, got, sawEof and app are history or environment.     *)
(***************************************************************************)
EXTENDS Naturals, Sequences, FiniteSets

CONSTANTS Handle,       \* RHP handles, all already opened at the engine
          Attentive,    \* of these, the ones whose application keeps reading
          Byte,         \* octets
          MaxChunk,     \* bytes in one recv push, at most
          MaxBytes,     \* bound: bytes the engine sends on one handle
          PipeCap,      \* bytes a socketpair direction holds
          EarlyCap      \* EARLY_STAGE_CAP

ASSUME RecvPumpAssumption ==
    /\ Attentive \subseteq Handle
    /\ MaxChunk \in Nat \ {0}
    /\ MaxBytes \in Nat
    /\ PipeCap \in Nat \ {0}
    /\ EarlyCap \in Nat

VARIABLES
    live,       \* PumpState.handles: the registered handles ...
    buf,        \* ... and, of each entry, the overflow buffer,
    eof,        \* "server-initiated close seen",
    eofDone,    \* "SHUT_WR has been performed"
    early,      \* PumpState.early: bytes staged before registration
    pipe,       \* socketpair, inner end to app end: bytes in flight
    wrShut,     \* SHUT_WR done on the inner end
    appGone,    \* app end closed or shut down past the interposer
    app,        \* the owner of the fd: where it is in the fd's life
    engine,     \* the session at the engine: "up", "closed" or "ended"
    up,         \* the RHP transport is up
    fl,         \* flusher_loop: "check", "wait", "drain", "poll"
    todo,       \* drain_pass: handles still to visit
    blocked,    \* drain_pass: handles whose socketpair is full
    before,     \* bytes the engine sent until register(), ...
    after,      \* ... and from then on (data of every recv push)
    kept,       \* of these, the bytes the pump took
    got,        \* bytes the application has read
    sawEof      \* handles whose read returned 0

entryVars  == <<live, buf, eof, eofDone>>
sockVars   == <<pipe, wrShut, appGone>>
flushVars  == <<fl, todo, blocked>>
histVars   == <<before, after, kept, got, sawEof>>
vars == <<live, buf, eof, eofDone, early, pipe, wrShut, appGone, app, engine,
          up, fl, todo, blocked, before, after, kept, got, sawEof>>

TypeOK ==
    /\ live \subseteq Handle
    /\ buf \in [Handle -> Seq(Byte)]
    /\ eof \subseteq Handle
    /\ eofDone \subseteq Handle
    /\ early \in [Handle -> Seq(Byte)]
    /\ \A h \in Handle : Len(early[h]) <= EarlyCap
    /\ pipe \in [Handle -> Seq(Byte)]
    /\ \A h \in Handle : Len(pipe[h]) <= PipeCap
    /\ wrShut \subseteq Handle
    /\ appGone \subseteq Handle
    /\ app \in [Handle -> {"opening", "open", "unreg", "closefd", "closed"}]
    /\ engine \in [Handle -> {"up", "closed", "ended"}]
    /\ up \in BOOLEAN
    /\ fl \in {"check", "wait", "drain", "poll"}
    /\ todo \subseteq Handle
    /\ blocked \subseteq Handle
    /\ before \in [Handle -> Seq(Byte)]
    /\ after \in [Handle -> Seq(Byte)]
    /\ kept \in [Handle -> Seq(Byte)]
    /\ got \in [Handle -> Seq(Byte)]
    /\ sawEof \subseteq Handle

\* A handle the engine has just opened: its open reply or accept push has been
\* read, but connect() or accept() has not reached register() yet.
Init ==
    /\ live = {} /\ eof = {} /\ eofDone = {}
    /\ buf = [h \in Handle |-> <<>>]
    /\ early = [h \in Handle |-> <<>>]
    /\ pipe = [h \in Handle |-> <<>>]
    /\ wrShut = {} /\ appGone = {}
    /\ app = [h \in Handle |-> "opening"]
    /\ engine = [h \in Handle |-> "up"]
    /\ up = TRUE
    /\ fl = "check" /\ todo = {} /\ blocked = {}
    /\ before = [h \in Handle |-> <<>>]
    /\ after = [h \in Handle |-> <<>>]
    /\ kept = [h \in Handle |-> <<>>]
    /\ got = [h \in Handle |-> <<>>]
    /\ sawEof = {}

---------------------------------------------------------------------------
(* The mutex, the condition variable and the socketpair.                   *)

Unlocked == fl # "drain"

NotifyNobody == UNCHANGED fl

\* cv.notify_all: the flusher is the only waiter.
NotifyAll == fl' = IF fl = "wait" THEN "check" ELSE fl

LesserOf(a, b) == IF a <= b THEN a ELSE b

\* nb_write's outcomes.  The kernel takes any non-empty part that fits, or
\* refuses while unread bytes occupy its buffer, or fails once the app end is
\* gone or the inner end was shut down.
Fatal(h) == h \in appGone \cup wrShut
Wrote(h, data, n) ==
    /\ ~Fatal(h)
    /\ n \in 1..LesserOf(Len(data), PipeCap - Len(pipe[h]))
WouldBlock(h) == ~Fatal(h) /\ pipe[h] # <<>>

---------------------------------------------------------------------------
(* The reader thread: InterposeSink.on_recv, on_close, on_disconnect.      *)

\* EARLY_STAGE_CAP.saturating_sub(q.len())
StageRoom(h) == IF Len(early[h]) < EarlyCap THEN EarlyCap - Len(early[h]) ELSE 0

StageWholeOnly(h, data) ==
    LET taken == IF Len(data) <= StageRoom(h) THEN data ELSE <<>>
    IN  /\ h \notin live
        /\ early' = [early EXCEPT ![h] = @ \o taken]
        /\ kept' = [kept EXCEPT ![h] = @ \o taken]
        /\ UNCHANGED <<entryVars, pipe, fl>>

\* Not registered: stage what there is room for, drop the rest.
StageEarly(h, data) ==
    LET taken == SubSeq(data, 1, LesserOf(StageRoom(h), Len(data)))
    IN  /\ h \notin live
        /\ early' = [early EXCEPT ![h] = @ \o taken]
        /\ kept' = [kept EXCEPT ![h] = @ \o taken]
        /\ UNCHANGED <<entryVars, pipe, fl>>

NeverBacklogged(h) == FALSE

\* Bytes already waiting in the entry: !e.buf.is_empty()
Backlogged(h) == buf[h] # <<>>

\* Nothing buffered: hand over what the socketpair takes, buffer the rest.
PushFast(h, data) ==
    /\ h \in live /\ ~Backlogged(h)
    /\ \E n \in 1..Len(data) :
          /\ Wrote(h, data, n)
          /\ pipe' = [pipe EXCEPT ![h] = @ \o SubSeq(data, 1, n)]
          /\ buf' = [buf EXCEPT ![h] = @ \o SubSeq(data, n + 1, Len(data))]
          /\ IF n < Len(data) THEN NotifyAll ELSE UNCHANGED fl
    /\ kept' = [kept EXCEPT ![h] = @ \o data]
    /\ UNCHANGED <<live, eof, eofDone, early>>

\* Full socketpair, or bytes already waiting: queue behind them.
PushBehind(h, data) ==
    /\ h \in live
    /\ Backlogged(h) \/ WouldBlock(h)
    /\ buf' = [buf EXCEPT ![h] = @ \o data]
    /\ kept' = [kept EXCEPT ![h] = @ \o data]
    /\ NotifyAll
    /\ UNCHANGED <<live, eof, eofDone, early, pipe>>

\* handles.remove: the entry and all it holds.
RemoveEntry(h) ==
    /\ live' = live \ {h}
    /\ buf' = [buf EXCEPT ![h] = <<>>]
    /\ eof' = eof \ {h}
    /\ eofDone' = eofDone \ {h}

\* The app end is gone: drop the entry, and the data.
PushFatal(h) ==
    /\ h \in live /\ ~Backlogged(h) /\ Fatal(h)
    /\ RemoveEntry(h)
    /\ UNCHANGED <<early, pipe, kept, fl>>

Push(h, data) ==
    /\ Unlocked
    /\ \/ StageEarly(h, data)
       \/ PushFast(h, data)
       \/ PushBehind(h, data)
       \/ PushFatal(h)
    /\ IF app[h] = "opening"
         THEN before' = [before EXCEPT ![h] = @ \o data] /\ UNCHANGED after
         ELSE after' = [after EXCEPT ![h] = @ \o data] /\ UNCHANGED before
    /\ UNCHANGED <<wrShut, appGone, app, engine, up, todo, blocked, got, sawEof>>

\* A recv push.  Empty data returns at once and changes nothing.
OnRecv(h) ==
    /\ up /\ engine[h] = "up"
    /\ \E n \in 1..MaxChunk :
          /\ Len(before[h]) + Len(after[h]) + n <= MaxBytes
          /\ \E data \in [1..n -> Byte] : Push(h, data)

MarkEofQuietly(h) ==
    /\ eof' = IF h \in live THEN eof \cup {h} ELSE eof
    /\ UNCHANGED fl

\* A close push: mark_eof finds the entry, or does nothing.
MarkEof(h) ==
    IF h \in live
      THEN eof' = eof \cup {h} /\ NotifyAll
      ELSE UNCHANGED <<eof, fl>>

OnClose(h) ==
    /\ up /\ engine[h] = "up"
    /\ Unlocked
    /\ engine' = [engine EXCEPT ![h] = "closed"]
    /\ MarkEof(h)
    /\ UNCHANGED <<live, buf, eofDone, early, sockVars, app, up, todo, blocked,
                   histVars>>

\* The transport dropped: EOF for every registered handle.
ShutdownAll == eof' = eof \cup live /\ NotifyAll

OnDisconnect ==
    /\ up /\ Unlocked
    /\ up' = FALSE
    /\ ShutdownAll
    /\ UNCHANGED <<live, buf, eofDone, early, sockVars, app, engine, todo,
                   blocked, histVars>>

---------------------------------------------------------------------------
(* The application's threads.                                              *)

WakeNever(h) == UNCHANGED fl

\* Wake the flusher to push the staged backlog into the socketpair.
WakeForStaged(h) == IF early[h] # <<>> THEN NotifyAll ELSE UNCHANGED fl

\* End of connect() or accept(): fold in what was staged, wake the flusher.
Register(h) ==
    /\ app[h] = "opening" /\ Unlocked
    /\ app' = [app EXCEPT ![h] = "open"]
    /\ live' = live \cup {h}
    /\ buf' = [buf EXCEPT ![h] = early[h]]
    /\ eof' = eof \ {h}
    /\ eofDone' = eofDone \ {h}
    /\ early' = [early EXCEPT ![h] = <<>>]
    /\ WakeForStaged(h)
    /\ UNCHANGED <<sockVars, engine, up, todo, blocked, histVars>>

\* read(2): some of the bytes in flight, from the front.
Read(h) ==
    /\ app[h] = "open" /\ h \notin appGone
    /\ \E n \in 1..Len(pipe[h]) :
          /\ got' = [got EXCEPT ![h] = @ \o SubSeq(pipe[h], 1, n)]
          /\ pipe' = [pipe EXCEPT ![h] = SubSeq(@, n + 1, Len(@))]
    /\ UNCHANGED <<entryVars, early, wrShut, appGone, app, engine, up, flushVars,
                   before, after, kept, sawEof>>

\* read(2) returning 0.
ReadEof(h) ==
    /\ app[h] = "open" /\ h \notin appGone
    /\ pipe[h] = <<>> /\ h \in wrShut
    /\ sawEof' = sawEof \cup {h}
    /\ UNCHANGED <<entryVars, early, sockVars, app, engine, up, flushVars,
                   before, after, kept, got>>

\* The app end closed or shut down without the interposer seeing it (fclose,
\* shutdown): what was in flight is discarded, the inner end gets EPIPE.
LoseAppEnd(h) ==
    /\ app[h] = "open" /\ h \notin appGone
    /\ appGone' = appGone \cup {h}
    /\ pipe' = [pipe EXCEPT ![h] = <<>>]
    /\ UNCHANGED <<entryVars, early, wrShut, app, engine, up, flushVars, histVars>>

\* close(2), first part: client.close.  With a reply, the engine has sent its
\* last push and the reader has handled it; without one it may go on sending.
CloseRequest(h) ==
    /\ app[h] = "open"
    /\ app' = [app EXCEPT ![h] = "unreg"]
    /\ \/ engine' = [engine EXCEPT ![h] = IF @ = "up" THEN "ended" ELSE @]
       \/ UNCHANGED engine
    /\ UNCHANGED <<entryVars, early, sockVars, up, flushVars, histVars>>

UnregisterEarlyOnly(h) ==
    /\ app[h] = "unreg" /\ Unlocked
    /\ app' = [app EXCEPT ![h] = "closefd"]
    /\ early' = [early EXCEPT ![h] = <<>>]
    /\ UNCHANGED <<entryVars, sockVars, engine, up, flushVars, histVars>>

\* destroy_ax25_fd: unregister from the pump ...
Unregister(h) ==
    /\ app[h] = "unreg" /\ Unlocked
    /\ app' = [app EXCEPT ![h] = "closefd"]
    /\ RemoveEntry(h)
    /\ early' = [early EXCEPT ![h] = <<>>]
    /\ UNCHANGED <<sockVars, engine, up, flushVars, histVars>>

\* ... then close both ends of the socketpair.
CloseFds(h) ==
    /\ app[h] = "closefd"
    /\ app' = [app EXCEPT ![h] = "closed"]
    /\ pipe' = [pipe EXCEPT ![h] = <<>>]
    /\ UNCHANGED <<entryVars, early, wrShut, appGone, engine, up, flushVars, histVars>>

---------------------------------------------------------------------------
(* The flusher thread.                                                     *)

EntryHasWork(h) == h \in live /\ (buf[h] # <<>> \/ (h \in eof /\ h \notin eofDone))
HasWork == \E h \in Handle : EntryHasWork(h)

otherThanFlush == <<entryVars, early, sockVars, app, engine, up, histVars>>

\* wait_while: the predicate is evaluated, and the wait entered, under the lock.
FlusherCheck ==
    /\ fl = "check"
    /\ fl' = IF HasWork THEN "drain" ELSE "wait"
    /\ todo' = IF HasWork THEN live ELSE {}
    /\ blocked' = {}
    /\ UNCHANGED otherThanFlush

\* drain_pass, the entry of h: one nb_write of the backlog,
DrainWrite(h) ==
    /\ fl = "drain" /\ h \in todo /\ buf[h] # <<>>
    /\ \E n \in 1..Len(buf[h]) :
          /\ Wrote(h, buf[h], n)
          /\ pipe' = [pipe EXCEPT ![h] = @ \o SubSeq(buf[h], 1, n)]
          /\ buf' = [buf EXCEPT ![h] = SubSeq(@, n + 1, Len(@))]
    /\ UNCHANGED <<live, eof, eofDone, early, wrShut, appGone, app, engine, up,
                   flushVars, histVars>>

\* or it would block,
DrainBlocked(h) ==
    /\ fl = "drain" /\ h \in todo /\ buf[h] # <<>> /\ WouldBlock(h)
    /\ todo' = todo \ {h}
    /\ blocked' = blocked \cup {h}
    /\ UNCHANGED <<otherThanFlush, fl>>

\* or the app end is gone,
DrainFatal(h) ==
    /\ fl = "drain" /\ h \in todo /\ buf[h] # <<>> /\ Fatal(h)
    /\ todo' = todo \ {h}
    /\ RemoveEntry(h)
    /\ UNCHANGED <<early, sockVars, app, engine, up, fl, blocked, histVars>>

DrainedOrEof(h) == buf[h] = <<>> \/ h \in eof

\* the backlog of h has been written out
Drained(h) == buf[h] = <<>>

\* or nothing is left to write: the pending EOF, once.
DrainEof(h) ==
    /\ fl = "drain" /\ h \in todo /\ Drained(h)
    /\ todo' = todo \ {h}
    /\ IF h \in eof \ eofDone
         THEN wrShut' = wrShut \cup {h} /\ eofDone' = eofDone \cup {h}
         ELSE UNCHANGED <<wrShut, eofDone>>
    /\ UNCHANGED <<live, buf, eof, early, pipe, appGone, app, engine, up, fl,
                   blocked, histVars>>

\* The pass is over: poll the full socketpairs, or look for work again.
DrainDone ==
    /\ fl = "drain" /\ todo = {}
    /\ fl' = IF blocked # {} THEN "poll" ELSE "check"
    /\ UNCHANGED <<otherThanFlush, todo, blocked>>

\* poll returns: POLLOUT, a hangup, or its 100 ms are up.
PollReturns ==
    /\ fl = "poll"
    /\ fl' = "check"
    /\ UNCHANGED <<otherThanFlush, todo, blocked>>

Drain(h) == DrainWrite(h) \/ DrainBlocked(h) \/ DrainFatal(h) \/ DrainEof(h)

---------------------------------------------------------------------------
Flusher == FlusherCheck \/ DrainDone \/ PollReturns \/ \E h \in Handle : Drain(h)

Next ==
    \/ \E h \in Handle :
          \/ OnRecv(h) \/ OnClose(h)
          \/ Register(h) \/ Read(h) \/ ReadEof(h) \/ LoseAppEnd(h)
          \/ CloseRequest(h) \/ Unregister(h) \/ CloseFds(h)
          \/ Drain(h)
    \/ OnDisconnect \/ FlusherCheck \/ DrainDone \/ PollReturns

Spec == Init /\ [][Next]_vars

\* The flusher thread runs.  connect()/accept() get the mutex and register: the
\* flusher releases it after every pass and sleeps in poll or on the condition
\* variable.  An attentive application keeps reading what its descriptor offers;
\* the others may stop at any time with their socketpair full.
Fairness ==
    /\ WF_vars(Flusher)
    /\ \A h \in Attentive : SF_vars(Register(h)) /\ WF_vars(Read(h)) /\ WF_vars(ReadEof(h))

FairSpec == Spec /\ Fairness

---------------------------------------------------------------------------
(* Safety.                                                                 *)

\* The descriptor is in the application's hands and both ends are open.
Usable(h) == app[h] \in {"opening", "open"} /\ h \notin appGone

\* Fast path, overflow buffer, staging area and socketpair together form one
\* queue: what was read, what is in flight and what is buffered is, in this
\* order, what the pump took; before registration it is all in the staging area.
InFlight ==
    \A h \in Handle : Usable(h) =>
        IF app[h] = "opening"
          THEN kept[h] = early[h] /\ got[h] = <<>> /\ pipe[h] = <<>> /\ h \notin live
          ELSE kept[h] = (got[h] \o pipe[h]) \o buf[h] /\ h \in live

Staged(s) == SubSeq(s, 1, LesserOf(Len(s), EarlyCap))

\* The staging area keeps the first EARLY_STAGE_CAP of the bytes that come before
\* register(), however they are cut into pushes; those beyond are the only ones
\* dropped, and all that come later are taken, whatever was dropped before.
LossExact ==
    \A h \in Handle : Usable(h) => kept[h] = Staged(before[h]) \o after[h]

\* push, register, drain_pass and the reads together reorder, duplicate and
\* invent nothing, and lose exactly what overflows the staging area.
BytesKept == InFlight /\ LossExact

\* "a torn-down fd is never written": whoever has an entry, or is about to be
\* visited by drain_pass, still has its socketpair open.
LiveFdsOpen ==
    /\ \A h \in live : app[h] \in {"open", "unreg"}
    /\ todo \subseteq live

\* No lost wakeup: when the flusher sleeps there is nothing to flush and no
\* end-of-file to deliver, for any handle.
SleepsOnlyIdle == fl = "wait" => ~HasWork

\* The end of a stream is signalled only for a session that is over, whatever
\* backlog there was is then in the socketpair, and a drain pass is the only
\* one to hold handles to visit.
EofOrderly ==
    /\ eof \cup wrShut \subseteq {h \in Handle : ~up \/ engine[h] # "up"}
    /\ eofDone \subseteq eof
    /\ \A h \in wrShut : app[h] # "opening" /\ buf[h] = <<>>
    /\ \A h \in Handle \ live : buf[h] = <<>>
    /\ fl # "drain" => todo = {}

\* RecvPump implements the abstract byte stream.
Over == {h \in Handle : ~up \/ engine[h] # "up"}

Stream == INSTANCE ByteStream WITH
    accepted <- kept, received <- got, over <- Over, atEof <- sawEof

StreamSpec == Stream!Spec

---------------------------------------------------------------------------
(* Liveness.                                                               *)

\* A stalled application delays nobody else ("the single RHP reader thread must
\* not block on a slow app socketpair", state.rs 138): every byte taken for an
\* attentive one, staged or buffered, is eventually read, whatever the others
\* leave unread.
NoHeadOfLineBlocking ==
    \A h \in Attentive : \A k \in 1..MaxBytes :
        (Len(kept[h]) >= k) ~> (Len(got[h]) >= k \/ ~Usable(h))

\* A close or transport loss noted on a registered handle is eventually seen by
\* its reader as end-of-file, after the bytes and beside stalled applications.
NotedEofSeen ==
    \A h \in Attentive :
        (h \in live \cap eof) ~> (h \in sawEof \/ ~Usable(h))
===========================================================================
