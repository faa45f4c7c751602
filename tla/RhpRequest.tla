---------------------------- MODULE RhpRequest ----------------------------
(***************************************************************************)
(* Requests and replies over the shared RHP transport (client.rs,          *)
(* framing.rs): application threads send requests under the writer mutex   *)
(* and wait for the reply with their id; the reader thread matches replies *)
(* with the pending map, and faults what is pending when the transport     *)
(* ends.                                                                   *)
(*                                                                         *)
(* The engine answers requests in any order, late, or never.  A request is *)
(* named by its serial number, which travels with it, so that a reply can  *)
(* be told from a reply to an earlier request with the same id.            *)
(***************************************************************************)
EXTENDS Naturals, Sequences, FiniteSets

CONSTANTS Caller,       \* application threads
          MaxRequests   \* bound: requests made

ASSUME RhpRequestAssumption == MaxRequests \in Nat

VARIABLES
    next_id,    \* RhpClient.next_id
    serial,     \* history: requests made so far
    pending,    \* the pending map: ids and the caller whose channel each feeds
    chan,       \* chan[c]: the frame in c's channel, or NoFrame
    pc,         \* where each caller is in request()
    call,       \* call[c]: the id and serial number of c's latest request
    outcome,    \* outcome[c]: how c's latest request ended, or "none"
    wire,       \* history: the halves of frames written to the transport
    broken,     \* a write failed, and so will every later one
    unanswered, \* requests at the engine
    replies,    \* replies on their way to the reader
    rd          \* the reader thread: "reading", "closed", "done"

vars == <<next_id, serial, pending, chan, pc, call, outcome, wire, broken,
          unanswered, replies, rd>>

Request == [id : Nat, serial : Nat]
NoFrame == [id |-> 0, serial |-> 0]

\* write_frame sends a length, then a body.
Half == [part : {"length", "body"}, req : Request]

TypeOK ==
    /\ next_id \in Nat /\ serial \in Nat
    /\ pending \subseteq [id : Nat, caller : Caller]
    /\ chan \in [Caller -> Request]
    /\ pc \in [Caller -> {"idle", "insert", "lock", "length", "body", "failed", "wait", "over"}]
    /\ call \in [Caller -> Request]
    /\ outcome \in [Caller -> {"none", "ok", "timeout", "io"}]
    /\ wire \in Seq(Half)
    /\ broken \in BOOLEAN
    /\ unanswered \subseteq Request /\ replies \subseteq Request
    /\ rd \in {"reading", "closed", "done"}

Init ==
    /\ next_id = 0 /\ serial = 0
    /\ pending = {}
    /\ chan = [c \in Caller |-> NoFrame]
    /\ pc = [c \in Caller |-> "idle"]
    /\ call = [c \in Caller |-> NoFrame]
    /\ outcome = [c \in Caller |-> "none"]
    /\ wire = <<>> /\ broken = FALSE
    /\ unanswered = {} /\ replies = {}
    /\ rd = "reading"

---------------------------------------------------------------------------
(* A caller: next_id(), then request().                                    *)

Goto(c, label) == pc' = [pc EXCEPT ![c] = label]

IdFromPending == Cardinality(pending) + 1

\* next_id: monotonic, never zero.
NextId == next_id + 1

\* An operation (open, send, close, ...) numbers its request.
Call(c) ==
    /\ pc[c] = "idle" /\ serial < MaxRequests
    /\ serial' = serial + 1
    /\ next_id' = next_id + 1
    /\ call' = [call EXCEPT ![c] = [id |-> NextId, serial |-> serial + 1]]
    /\ outcome' = [outcome EXCEPT ![c] = "none"]
    /\ Goto(c, "insert")
    /\ UNCHANGED <<pending, chan, wire, broken, unanswered, replies, rd>>

RemoveNothing(id) == pending

\* HashMap::remove.
Remove(id) == {p \in pending : p.id # id}

\* A fresh channel, its sender in the map.  An entry with the same id is replaced.
Insert(c) ==
    /\ pc[c] = "insert"
    /\ pending' = {p \in pending : p.id # call[c].id}
                    \cup {[id |-> call[c].id, caller |-> c]}
    /\ chan' = [chan EXCEPT ![c] = NoFrame]
    /\ Goto(c, "lock")
    /\ UNCHANGED <<next_id, serial, call, outcome, wire, broken, unanswered, replies, rd>>

WriterIgnored == TRUE

\* The writer mutex.
WriterFree == \A c \in Caller : pc[c] \notin {"length", "body"}

Lock(c) ==
    /\ pc[c] = "lock" /\ WriterFree
    /\ Goto(c, "length")
    /\ UNCHANGED <<next_id, serial, pending, chan, call, outcome, wire, broken, unanswered, replies, rd>>

\* write_frame: the length.
WriteLength(c) ==
    /\ pc[c] = "length" /\ ~broken
    /\ wire' = Append(wire, [part |-> "length", req |-> call[c]])
    /\ Goto(c, "body")
    /\ UNCHANGED <<next_id, serial, pending, chan, call, outcome, broken, unanswered, replies, rd>>

\* write_frame: the body; the request is at the engine.
WriteBody(c) ==
    /\ pc[c] = "body" /\ ~broken
    /\ wire' = Append(wire, [part |-> "body", req |-> call[c]])
    /\ unanswered' = unanswered \cup {call[c]}
    /\ Goto(c, "wait")
    /\ UNCHANGED <<next_id, serial, pending, chan, call, outcome, broken, replies, rd>>

\* write_all fails: the transport is gone for writers.
WriteFails(c) ==
    /\ pc[c] \in {"length", "body"}
    /\ broken' = TRUE
    /\ Goto(c, "failed")
    /\ UNCHANGED <<next_id, serial, pending, chan, call, outcome, wire, unanswered, replies, rd>>

\* A payload over MAX_FRAME is refused before anything is written.
TooLarge(c) ==
    /\ pc[c] = "length"
    /\ Goto(c, "failed")
    /\ UNCHANGED <<next_id, serial, pending, chan, call, outcome, wire, broken, unanswered, replies, rd>>

\* The write's error path.
Unwind(c) ==
    /\ pc[c] = "failed"
    /\ pending' = Remove(call[c].id)
    /\ outcome' = [outcome EXCEPT ![c] = "io"]
    /\ Goto(c, "idle")
    /\ UNCHANGED <<next_id, serial, chan, call, wire, broken, unanswered, replies, rd>>

\* The sender of c's channel is still in the map.
SenderAlive(c) == \E p \in pending : p.caller = c

Waited(c, result) ==
    /\ outcome' = [outcome EXCEPT ![c] = result]
    /\ Goto(c, "over")
    /\ UNCHANGED <<next_id, serial, pending, chan, call, wire, broken, unanswered, replies, rd>>

\* recv_timeout: the reply; no reply and no sender; or the timer.
GetReply(c) == pc[c] = "wait" /\ chan[c] # NoFrame /\ Waited(c, "ok")

Disconnected(c) == pc[c] = "wait" /\ chan[c] = NoFrame /\ ~SenderAlive(c) /\ Waited(c, "io")

NoTimer(c) == FALSE /\ UNCHANGED vars

Timeout(c) == pc[c] = "wait" /\ chan[c] = NoFrame /\ SenderAlive(c) /\ Waited(c, "timeout")

\* The entry is removed whatever the outcome.
Return(c) ==
    /\ pc[c] = "over"
    /\ pending' = Remove(call[c].id)
    /\ Goto(c, "idle")
    /\ UNCHANGED <<next_id, serial, chan, call, outcome, wire, broken, unanswered, replies, rd>>

---------------------------------------------------------------------------
(* The engine and the reader thread.                                       *)

Answer(r) ==
    /\ rd = "reading" /\ r \in unanswered
    /\ unanswered' = unanswered \ {r}
    /\ replies' = replies \cup {r}
    /\ UNCHANGED <<next_id, serial, pending, chan, pc, call, outcome, wire, broken, rd>>

\* tx.send.
SendTo(p, f) == chan' = [chan EXCEPT ![p.caller] = f]

\* reader_loop: the pending entry is removed and fed under the map's lock; a
\* reply nobody waits for falls through to dispatch_push, which ignores it.
ReadReply(f) ==
    /\ rd = "reading" /\ f \in replies
    /\ replies' = replies \ {f}
    /\ \/ \E p \in pending : p.id = f.id /\ SendTo(p, f)
       \/ (\A p \in pending : p.id # f.id) /\ UNCHANGED chan
    /\ pending' = Remove(f.id)
    /\ UNCHANGED <<next_id, serial, pc, call, outcome, wire, broken, unanswered, rd>>

\* A frame that does not parse is skipped.
SkipFrame(f) ==
    /\ rd = "reading" /\ f \in replies
    /\ replies' = replies \ {f}
    /\ UNCHANGED <<next_id, serial, pending, chan, pc, call, outcome, wire, broken, unanswered, rd>>

\* End of file or an error: closed is set,
SetClosed ==
    /\ rd = "reading" /\ rd' = "closed"
    /\ UNCHANGED <<next_id, serial, pending, chan, pc, call, outcome, wire, broken, unanswered, replies>>

\* and the pending map is cleared, which drops the senders.
ClearPending ==
    /\ rd = "closed" /\ rd' = "done"
    /\ pending' = {}
    /\ UNCHANGED <<next_id, serial, chan, pc, call, outcome, wire, broken, unanswered, replies>>

---------------------------------------------------------------------------
Wait(c) == GetReply(c) \/ Disconnected(c) \/ Timeout(c)

Write(c) == Lock(c) \/ WriteLength(c) \/ WriteBody(c) \/ WriteFails(c) \/ TooLarge(c)

Step(c) == Insert(c) \/ Write(c) \/ Unwind(c) \/ Wait(c) \/ Return(c)

Next ==
    \/ \E c \in Caller : Call(c) \/ Step(c)
    \/ \E r \in unanswered : Answer(r)
    \/ \E f \in replies : ReadReply(f) \/ SkipFrame(f)
    \/ SetClosed \/ ClearPending

Spec == Init /\ [][Next]_vars

\* A caller inside request() keeps running, the timer fires, and nobody starves
\* at the writer mutex.  Nothing is assumed of the engine: it may stop answering,
\* and it may stop reading, which blocks write_all for ever.
Fairness(c) ==
    WF_vars(Insert(c) \/ Unwind(c) \/ Wait(c) \/ Return(c)) /\ SF_vars(Lock(c))

FairSpec == Spec /\ \A c \in Caller : Fairness(c)

---------------------------------------------------------------------------
\* request() returns Ok only with the reply to the very request it sent, though
\* replies arrive late, out of order and after their caller gave up.
OwnReply == \A c \in Caller : outcome[c] = "ok" => chan[c] = call[c]

\* Every return path removes the pending entry: entries belong to callers that
\* are still inside request(), one each.
NoPendingLeak ==
    \A p \in pending :
        /\ pc[p.caller] \in {"lock", "length", "body", "failed", "wait", "over"}
        /\ p.id = call[p.caller].id

\* A request fails with "rhp connection closed" only after the transport ended:
\* nobody else removes the sender of a waiting caller.
OnlyCloseDisconnects ==
    \A c \in Caller :
        pc[c] = "wait" /\ chan[c] = NoFrame /\ rd # "done" => SenderAlive(c)

\* The pending map holds exactly what it should: no entry of a caller that has
\* returned, and the entry of every caller that waits on an open transport.
PendingExact == NoPendingLeak /\ OnlyCloseDisconnects

\* The writer mutex keeps frames whole on the wire: every body follows its own
\* length, and every length but a last one is followed by a body.
FramesWhole ==
    \A k \in 1..Len(wire) :
        /\ wire[k].part = "body" =>
               k > 1 /\ wire[k - 1] = [part |-> "length", req |-> wire[k].req]
        /\ wire[k].part = "length" /\ k < Len(wire) => wire[k + 1].part = "body"

\* Once its frame is written, or the write has failed, request() returns, whatever
\* becomes of the engine and whoever else is stuck in a write.  Before, it returns
\* unless a write blocks for ever: the stream has no write timeout, and whoever
\* is stuck in write_all holds the writer mutex that all the others need.
RequestReturns ==
    \A c \in Caller :
        /\ pc[c] \in {"failed", "wait", "over"} ~> pc[c] = "idle"
        /\ []<>WriterFree => (pc[c] # "idle" ~> pc[c] = "idle")
=============================================================================
