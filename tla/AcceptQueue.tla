---------------------------- MODULE AcceptQueue ----------------------------
(***************************************************************************)
(* The accept path of the RHP client (client.rs): the reader thread queues *)
(* the child of every `accept` push under its listener, and application    *)
(* threads take children with wait_accept (blocking accept()) or           *)
(* try_accept (O_NONBLOCK).  All listeners share one mutex and one         *)
(* condition variable.                                                     *)
(*                                                                         *)
(* wait_accept holds the mutex from its look at the queue to the wait: the *)
(* thread c owns the mutex exactly while pc[c] is "test" or "park".  The   *)
(* reader notifies without the mutex, after a push and at the end of       *)
(* reader_loop, where it also sets `closed` without it: those steps        *)
(* interleave with "test" and "park".                                      *)
(***************************************************************************)
EXTENDS Naturals, Sequences

CONSTANTS Listener,     \* RHP handles of listening sockets
          Acceptor,     \* application threads
          MaxChildren   \* bound: accept pushes per listener

ASSUME AcceptQueueAssumption == MaxChildren \in Nat

VARIABLES
    queue,      \* AcceptRegistry.map: children waiting, per listener
    closed,     \* RhpClient.closed
    rd,         \* the reader: "loop", "queued" (a child is queued, the waiters not
                \* yet notified), "shut" (closed is set), "ended"
    pc,         \* acceptors: "idle", "try", "test", "park", "asleep", "expired"
    want,       \* the listener each thread accepts on
    forgotten,  \* listeners close() has forgotten
    answered,   \* of these, the ones whose closeReply has come
    pushed,     \* history: children pushed, per listener
    taken       \* history: children accepted, per listener

vars == <<queue, closed, rd, pc, want, forgotten, answered, pushed, taken>>

Child == Nat \ {0}

TypeOK ==
    /\ queue \in [Listener -> Seq(Child)]
    /\ closed \in BOOLEAN
    /\ rd \in {"loop", "queued", "shut", "ended"}
    /\ pc \in [Acceptor -> {"idle", "try", "test", "park", "asleep", "expired"}]
    /\ want \in [Acceptor -> Listener]
    /\ forgotten \subseteq Listener
    /\ answered \subseteq Listener
    /\ pushed \in [Listener -> Seq(Child)]
    /\ taken \in [Listener -> Seq(Child)]

Init ==
    /\ queue = [l \in Listener |-> <<>>]
    /\ closed = FALSE
    /\ rd = "loop"
    /\ pc = [c \in Acceptor |-> "idle"]
    /\ want \in [Acceptor -> Listener]
    /\ forgotten = {} /\ answered = {}
    /\ pushed = [l \in Listener |-> <<>>]
    /\ taken = [l \in Listener |-> <<>>]

---------------------------------------------------------------------------
Unlocked == \A c \in Acceptor : pc[c] \notin {"test", "park"}

NotifyOne(p) ==
    IF \E c \in Acceptor : p[c] = "asleep"
      THEN [p EXCEPT ![CHOOSE c \in Acceptor : p[c] = "asleep"] = "try"]
      ELSE p

\* cv.notify_all: every sleeper goes back to the top of its loop.
NotifyAll(p) == [c \in Acceptor |-> IF p[c] = "asleep" THEN "try" ELSE p[c]]

---------------------------------------------------------------------------
(* The reader thread.                                                      *)

\* The child handle an accept push carries: fresh, and never 0.
ChildOf(l) == Len(pushed[l]) + 1

\* An accept push: queue the child under the mutex, ...  Until its closeReply the
\* engine may still accept for a listener that close() has already forgotten.
Push(l) ==
    /\ rd = "loop" /\ Unlocked
    /\ l \notin answered
    /\ Len(pushed[l]) < MaxChildren
    /\ queue' = [queue EXCEPT ![l] = Append(@, ChildOf(l))]
    /\ pushed' = [pushed EXCEPT ![l] = Append(@, ChildOf(l))]
    /\ rd' = "queued"
    /\ UNCHANGED <<closed, pc, want, forgotten, answered, taken>>

\* ... and wake the waiters once it is released.
WakeWaiters ==
    /\ rd = "queued"
    /\ rd' = "loop"
    /\ pc' = NotifyAll(pc)
    /\ UNCHANGED <<queue, closed, want, forgotten, answered, pushed, taken>>

\* The transport is gone: first the flag, ...
SetClosed ==
    /\ rd = "loop"
    /\ rd' = "shut"
    /\ closed' = TRUE
    /\ UNCHANGED <<queue, pc, want, forgotten, answered, pushed, taken>>

\* ... then the wakeup, both without the mutex.
WakeAccepts ==
    /\ rd = "shut"
    /\ rd' = "ended"
    /\ pc' = NotifyAll(pc)
    /\ UNCHANGED <<queue, closed, want, forgotten, answered, pushed, taken>>

---------------------------------------------------------------------------
(* Application threads.                                                    *)

Goto(c, label) == pc' = [pc EXCEPT ![c] = label]

PopKeeps(c) ==
    LET l == want[c] IN
    /\ queue[l] # <<>>
    /\ taken' = [taken EXCEPT ![l] = Append(@, Head(queue[l]))]
    /\ UNCHANGED queue

\* q.pop_front()
PopFront(c) ==
    LET l == want[c] IN
    /\ queue[l] # <<>>
    /\ taken' = [taken EXCEPT ![l] = Append(@, Head(queue[l]))]
    /\ queue' = [queue EXCEPT ![l] = Tail(@)]

\* accept() on the thread's listener, blocking.
WaitAccept(c) ==
    /\ pc[c] = "idle" /\ want[c] \notin forgotten
    /\ Goto(c, "try")
    /\ UNCHANGED <<queue, closed, rd, want, forgotten, answered, pushed, taken>>

\* Top of the loop: take the mutex and a child, or keep the mutex.
Take(c) ==
    /\ pc[c] = "try" /\ Unlocked
    /\ PopFront(c)
    /\ Goto(c, "idle")
    /\ UNCHANGED <<closed, rd, want, forgotten, answered, pushed>>

FindEmpty(c) ==
    /\ pc[c] = "try" /\ Unlocked
    /\ queue[want[c]] = <<>>
    /\ Goto(c, "test")
    /\ UNCHANGED <<queue, closed, rd, want, forgotten, answered, pushed, taken>>

\* closed.load: give up, or go on to wait.
TestClosed(c) ==
    /\ pc[c] = "test"
    /\ Goto(c, IF closed THEN "idle" ELSE "park")
    /\ UNCHANGED <<queue, closed, rd, want, forgotten, answered, pushed, taken>>

\* cv.wait: release the mutex and sleep, in one step.
Park(c) ==
    /\ pc[c] = "park"
    /\ Goto(c, "asleep")
    /\ UNCHANGED <<queue, closed, rd, want, forgotten, answered, pushed, taken>>

\* cv.wait_timeout ran out (callers that pass a timeout); it then needs the
\* mutex again, ...
Expire(c) ==
    /\ pc[c] = "asleep"
    /\ Goto(c, "expired")
    /\ UNCHANGED <<queue, closed, rd, want, forgotten, answered, pushed, taken>>

\* ... and looks at the queue once more before it returns None.
TakeLate(c) ==
    /\ pc[c] = "expired" /\ Unlocked
    /\ \/ PopFront(c)
       \/ queue[want[c]] = <<>> /\ UNCHANGED <<queue, taken>>
    /\ Goto(c, "idle")
    /\ UNCHANGED <<closed, rd, want, forgotten, answered, pushed>>

\* accept() with O_NONBLOCK.  EAGAIN changes nothing.
TryAccept(c) ==
    /\ pc[c] = "idle" /\ Unlocked
    /\ want[c] \notin forgotten
    /\ PopFront(c)
    /\ UNCHANGED <<closed, rd, pc, want, forgotten, answered, pushed>>

\* close() on a listener: forget the queue, then the close request ...
Forget(l) ==
    /\ l \notin forgotten /\ Unlocked
    /\ forgotten' = forgotten \cup {l}
    /\ queue' = [queue EXCEPT ![l] = <<>>]
    /\ UNCHANGED <<closed, rd, pc, want, answered, pushed, taken>>

\* ... and its reply.
CloseReply(l) ==
    /\ rd = "loop" /\ l \in forgotten \ answered
    /\ answered' = answered \cup {l}
    /\ UNCHANGED <<queue, closed, rd, pc, want, forgotten, pushed, taken>>

---------------------------------------------------------------------------
Loop(c) == Take(c) \/ FindEmpty(c) \/ TestClosed(c) \/ Park(c) \/ TakeLate(c)

Next ==
    \/ \E l \in Listener : Push(l) \/ Forget(l) \/ CloseReply(l)
    \/ WakeWaiters \/ SetClosed \/ WakeAccepts
    \/ \E c \in Acceptor : WaitAccept(c) \/ TryAccept(c) \/ Expire(c) \/ Loop(c)

Spec == Init /\ [][Next]_vars

\* Servers call accept() again.  Threads inside wait_accept run whenever they can;
\* a thread waiting for the mutex gets it in the end (it is held for two steps at
\* a time only); the reader goes from its push to its notification and finishes
\* its shutdown.  Nothing forces a timeout to be used.
Fairness ==
    /\ WF_vars(WakeWaiters) /\ WF_vars(WakeAccepts)
    /\ \A c \in Acceptor : WF_vars(WaitAccept(c)) /\ SF_vars(Loop(c))

FairSpec == Spec /\ Fairness

---------------------------------------------------------------------------
\* Every child is accepted once, in the order of the pushes: those taken and
\* those still queued are together the ones pushed, until close() discards them.
EachChildOnce ==
    \A l \in Listener \ forgotten : pushed[l] = taken[l] \o queue[l]

\* No lost wakeup for children, although all listeners share one condition
\* variable and the notification comes after the unlock: a thread sleeps beside a
\* queued child of its listener only until the reader's notification that is
\* already due, and one that holds the mutex to sleep next has no child at all.
SleepersAreWoken ==
    \A c \in Acceptor : queue[want[c]] # <<>> =>
        /\ pc[c] \notin {"test", "park"}
        /\ pc[c] = "asleep" => rd = "queued"

\* A server that keeps calling accept() gets every child: no push is left in the
\* queue because its wakeup went to a thread of another listener.
ChildAccepted ==
    \A l \in Listener : \A k \in 1..MaxChildren :
        (Len(pushed[l]) >= k /\ \E c \in Acceptor : want[c] = l)
            ~> (Len(taken[l]) >= k \/ l \in forgotten \/ closed)

\* client.rs 655: the end of the reader loop wakes blocked accepts, so that
\* accept() returns when the transport drops.
DisconnectEndsAccept ==
    \A c \in Acceptor : (rd = "ended" /\ pc[c] # "idle") ~> (pc[c] = "idle")
=============================================================================
