------------------------- MODULE RhpRequestProofs -------------------------
(***************************************************************************)
(* Proofs about RhpRequest, for any number of callers and requests: a      *)
(* caller only ever gets the reply to its own request, the pending map     *)
(* holds nothing but the requests in flight, only the end of the transport *)
(* disconnects a caller, and frames are whole on the wire.                 *)
(***************************************************************************)
EXTENDS RhpRequest, SequenceTheorems, TLAPS

---------------------------------------------------------------------------
(* The invariant.  Ids are never reused, so an id names one request.       *)

Ids ==
    /\ next_id = serial
    /\ \A c \in Caller :
          /\ call[c].id = call[c].serial /\ call[c].id <= serial
          /\ pc[c] # "idle" => call[c].id > 0

Distinct == \A c, d \in Caller : c # d /\ call[c].id = call[d].id => call[c].id = 0

Engine == \A r \in unanswered \cup replies : r.id = r.serial

Registered == {"lock", "length", "body", "failed", "wait"}

\* A registered caller's channel is empty or holds its own reply.
Channels ==
    \A c \in Caller :
        /\ pc[c] \in Registered \cup {"over"} => chan[c] = NoFrame \/ chan[c] = call[c]
        /\ pc[c] \in Registered \cup {"insert"} => outcome[c] = "none"

\* Until its channel is fed, or the map cleared, its sender stays in the map.
Senders ==
    \A c \in Caller :
        pc[c] \in Registered /\ chan[c] = NoFrame /\ rd # "done" => SenderAlive(c)

IInv ==
    /\ TypeOK /\ Ids /\ Distinct /\ Engine /\ Channels
    /\ OwnReply /\ NoPendingLeak /\ Senders

\* Two requests with the same numbers are the same request.
LEMMA SameRequest ==
  ASSUME NEW r \in Request, NEW s \in Request, r.id = s.id, r.serial = s.serial
  PROVE  r = s
  BY DEF Request

\* Initially there is no request.
LEMMA InitIInv == Init => IInv
  <1> SUFFICES ASSUME Init PROVE IInv
    OBVIOUS
  <1>1. NoFrame \in Request /\ NoFrame.id = 0 /\ NoFrame.serial = 0 /\ <<>> \in Seq(Half)
    BY EmptySeq DEF NoFrame, Request
  <1>2. TypeOK
    BY <1>1 DEF Init, TypeOK
  <1>3. Ids /\ Distinct /\ Engine
    BY <1>1 DEF Init, Ids, Distinct, Engine
  <1>4. Channels /\ OwnReply /\ NoPendingLeak /\ Senders
    BY DEF Init, Channels, OwnReply, NoPendingLeak, Senders, Registered
  <1> QED
    BY <1>2, <1>3, <1>4 DEF IInv

\* A caller numbers its request with an id nobody had before.
LEMMA CallStep ==
  ASSUME IInv, NEW c \in Caller, Call(c)
  PROVE  IInv'
  <1> USE DEF IInv
  <1> DEFINE r == [id |-> serial + 1, serial |-> serial + 1]
  <1>1. r \in Request /\ r.id = serial + 1 /\ r.serial = serial + 1 /\ serial \in Nat
    BY DEF TypeOK, Request
  <1>2. /\ serial' = serial + 1 /\ next_id' = serial + 1
        /\ call' = [call EXCEPT ![c] = r] /\ outcome' = [outcome EXCEPT ![c] = "none"]
        /\ pc' = [pc EXCEPT ![c] = "insert"] /\ pc[c] = "idle"
        /\ UNCHANGED <<pending, chan, wire, broken, unanswered, replies, rd>>
    BY DEF Call, NextId, Goto, Ids
  <1> HIDE DEF r
  <1>3. TypeOK'
    BY <1>1, <1>2 DEF TypeOK
  <1>4. /\ call'[c] = r /\ \A d \in Caller : d # c => call'[d] = call[d]
        /\ pc'[c] = "insert" /\ \A d \in Caller : d # c => pc'[d] = pc[d]
        /\ outcome'[c] = "none" /\ \A d \in Caller : d # c => outcome'[d] = outcome[d]
    BY <1>2 DEF TypeOK
  <1>5. \A d \in Caller : call[d].id \in Nat /\ call[d].id <= serial
    BY DEF TypeOK, Ids, Request
  <1>6. Ids'
    BY <1>1, <1>2, <1>4, <1>5 DEF Ids
  <1>7. Distinct'
    BY <1>1, <1>4, <1>5 DEF Distinct
  <1>8. Engine'
    BY <1>2 DEF Engine
  <1>9. Channels' /\ OwnReply'
    BY <1>2, <1>4 DEF Channels, OwnReply, Registered
  <1>10. NoPendingLeak'
    BY <1>2, <1>4 DEF NoPendingLeak, TypeOK
  <1>11. Senders'
    BY <1>2, <1>4 DEF Senders, SenderAlive, Registered
  <1> QED
    BY <1>3, <1>6, <1>7, <1>8, <1>9, <1>10, <1>11

\* Registering a request replaces nobody's entry.
LEMMA InsertStep ==
  ASSUME IInv, NEW c \in Caller, Insert(c)
  PROVE  IInv'
  <1> USE DEF IInv
  <1> DEFINE e == [id |-> call[c].id, caller |-> c]
  <1>1. /\ pending' = {p \in pending : p.id # call[c].id} \cup {e}
        /\ chan' = [chan EXCEPT ![c] = NoFrame] /\ pc' = [pc EXCEPT ![c] = "lock"]
        /\ pc[c] = "insert"
        /\ UNCHANGED <<next_id, serial, call, outcome, wire, broken, unanswered, replies, rd>>
    BY DEF Insert, Goto
  <1>2. /\ e \in [id : Nat, caller : Caller] /\ e.id = call[c].id /\ e.caller = c
        /\ NoFrame \in Request
    BY DEF TypeOK, Request, NoFrame
  <1> HIDE DEF e
  <1>3. /\ pc'[c] = "lock" /\ \A d \in Caller : d # c => pc'[d] = pc[d]
        /\ chan'[c] = NoFrame /\ \A d \in Caller : d # c => chan'[d] = chan[d]
    BY <1>1 DEF TypeOK
  <1>4. TypeOK'
    BY <1>1, <1>2 DEF TypeOK
  <1>5. Ids' /\ Distinct' /\ Engine'
    BY <1>1, <1>3 DEF Ids, Distinct, Engine
  <1>6. Channels' /\ OwnReply'
    BY <1>1, <1>3 DEF Channels, OwnReply, Registered
  <1>7. NoPendingLeak'
    BY <1>1, <1>2, <1>3 DEF NoPendingLeak, TypeOK
  <1>8. Senders'
    <2> SUFFICES ASSUME NEW d \in Caller, pc'[d] \in Registered, chan'[d] = NoFrame, rd' # "done"
                 PROVE  \E p \in pending' : p.caller = d
      BY DEF Senders, SenderAlive
    <2>1. CASE d = c
      BY <1>1, <1>2, <2>1
    <2>2. CASE d # c
      <3>1. PICK p \in pending : p.caller = d
        BY <1>1, <1>3, <2>2 DEF Senders, SenderAlive
      <3>2. p.id # call[c].id
        BY <1>1, <2>2, <3>1 DEF NoPendingLeak, Distinct, Ids
      <3> QED
        BY <1>1, <3>1, <3>2
    <2> QED
      BY <2>1, <2>2
  <1> QED
    BY <1>4, <1>5, <1>6, <1>7, <1>8

\* A caller that removes its entry on the way out leaves the others' alone.
LEMMA LeaveStep ==
  ASSUME IInv, NEW c \in Caller, Unwind(c) \/ Return(c)
  PROVE  IInv'
  <1> USE DEF IInv
  <1>1. /\ pending' = {p \in pending : p.id # call[c].id}
        /\ pc' = [pc EXCEPT ![c] = "idle"]
        /\ outcome' = outcome \/ outcome' = [outcome EXCEPT ![c] = "io"]
        /\ UNCHANGED <<next_id, serial, chan, call, wire, broken, unanswered, replies, rd>>
    BY DEF Unwind, Return, Remove, Goto
  <1>2. /\ pc'[c] = "idle" /\ \A d \in Caller : d # c => pc'[d] = pc[d]
        /\ outcome'[c] \in {outcome[c], "io"}
        /\ \A d \in Caller : d # c => outcome'[d] = outcome[d]
    BY <1>1 DEF TypeOK
  <1>3. TypeOK'
    BY <1>1 DEF TypeOK
  <1>4. Ids' /\ Distinct' /\ Engine'
    BY <1>1, <1>2 DEF Ids, Distinct, Engine
  <1>5. Channels' /\ OwnReply'
    BY <1>1, <1>2 DEF Channels, OwnReply, Registered
  <1>6. pc[c] # "idle"
    BY DEF Unwind, Return
  <1>7. NoPendingLeak'
    BY <1>1, <1>2 DEF NoPendingLeak, TypeOK
  <1>8. Senders'
    <2> SUFFICES ASSUME NEW d \in Caller, pc'[d] \in Registered, chan'[d] = NoFrame, rd' # "done"
                 PROVE  \E p \in pending' : p.caller = d
      BY DEF Senders, SenderAlive
    <2>1. d # c
      BY <1>2 DEF Registered
    <2>2. PICK p \in pending : p.caller = d
      BY <1>1, <1>2, <2>1 DEF Senders, SenderAlive
    <2>3. p.id # call[c].id
      BY <1>6, <2>1, <2>2 DEF NoPendingLeak, Distinct, Ids
    <2> QED
      BY <1>1, <2>2, <2>3
  <1> QED
    BY <1>3, <1>4, <1>5, <1>7, <1>8

\* Writing a frame moves a caller along and touches nothing but the wire.
LEMMA WriteStep ==
  ASSUME IInv, NEW c \in Caller, Write(c)
  PROVE  IInv'
  <1> USE DEF IInv
  <1>1. /\ pc[c] \in {"lock", "length", "body"}
        /\ \E label \in {"length", "body", "failed", "wait"} : pc' = [pc EXCEPT ![c] = label]
        /\ UNCHANGED <<next_id, serial, pending, chan, call, outcome, replies, rd>>
        /\ unanswered' \in {unanswered, unanswered \cup {call[c]}}
        /\ broken' \in {broken, TRUE}
        /\ \/ wire' = wire
           \/ \E h \in Half : wire' = Append(wire, h)
    <2>1. /\ [part |-> "length", req |-> call[c]] \in Half
          /\ [part |-> "body", req |-> call[c]] \in Half
      BY DEF TypeOK, Half
    <2> QED
      BY <2>1 DEF Write, Lock, WriteLength, WriteBody, WriteFails, TooLarge, Goto
  <1>2. /\ pc'[c] \in {"length", "body", "failed", "wait"}
        /\ \A d \in Caller : d # c => pc'[d] = pc[d]
    BY <1>1 DEF TypeOK
  <1>3. TypeOK'
    <2>1. wire' \in Seq(Half)
      BY <1>1, AppendProperties DEF TypeOK
    <2>2. unanswered' \subseteq Request /\ broken' \in BOOLEAN
      BY <1>1 DEF TypeOK
    <2> QED
      BY <1>1, <2>1, <2>2 DEF TypeOK
  <1>4. Ids' /\ Distinct' /\ Engine'
    BY <1>1, <1>2 DEF Ids, Distinct, Engine
  <1>5. Channels' /\ OwnReply'
    BY <1>1, <1>2 DEF Channels, OwnReply, Registered
  <1>6. NoPendingLeak'
    BY <1>1, <1>2 DEF NoPendingLeak, TypeOK
  <1>7. Senders'
    BY <1>1, <1>2 DEF Senders, SenderAlive, Registered
  <1> QED
    BY <1>3, <1>4, <1>5, <1>6, <1>7

\* recv_timeout returns: with Ok only when the channel holds the caller's reply.
LEMMA WaitStep ==
  ASSUME IInv, NEW c \in Caller, Wait(c)
  PROVE  IInv'
  <1> USE DEF IInv
  <1>1. /\ pc[c] = "wait" /\ pc' = [pc EXCEPT ![c] = "over"]
        /\ \E result \in {"ok", "io", "timeout"} :
              /\ outcome' = [outcome EXCEPT ![c] = result]
              /\ result = "ok" => chan[c] # NoFrame
        /\ UNCHANGED <<next_id, serial, pending, chan, call, wire, broken, unanswered, replies, rd>>
    BY DEF Wait, GetReply, Disconnected, Timeout, Waited, Goto
  <1>2. /\ pc'[c] = "over" /\ \A d \in Caller : d # c => pc'[d] = pc[d]
        /\ outcome'[c] = "ok" => chan[c] # NoFrame
        /\ \A d \in Caller : d # c => outcome'[d] = outcome[d]
    BY <1>1 DEF TypeOK
  <1>3. TypeOK'
    BY <1>1 DEF TypeOK
  <1>4. Ids' /\ Distinct' /\ Engine'
    BY <1>1, <1>2 DEF Ids, Distinct, Engine
  <1>5. Channels' /\ OwnReply'
    BY <1>1, <1>2 DEF Channels, OwnReply, Registered
  <1>6. NoPendingLeak'
    BY <1>1, <1>2 DEF NoPendingLeak, TypeOK
  <1>7. Senders'
    BY <1>1, <1>2 DEF Senders, SenderAlive, Registered
  <1> QED
    BY <1>3, <1>4, <1>5, <1>6, <1>7

\* The reader feeds a reply to the caller that registered its id, whose request
\* it answers.
LEMMA ReadReplyStep ==
  ASSUME IInv, NEW f \in replies, ReadReply(f)
  PROVE  IInv'
  <1> USE DEF IInv
  <1>1. /\ replies' = replies \ {f}
        /\ pending' = {p \in pending : p.id # f.id}
        /\ UNCHANGED <<next_id, serial, pc, call, outcome, wire, broken, unanswered, rd>>
    BY DEF ReadReply, Remove
  <1>2. f \in Request /\ f.id = f.serial
    BY DEF TypeOK, Engine
  <1>3. CASE \A p \in pending : p.id # f.id
    <2>1. pending' = pending /\ chan' = chan
      BY <1>1, <1>3 DEF ReadReply, SendTo
    <2>2. TypeOK' /\ Engine'
      BY <1>1, <2>1 DEF TypeOK, Engine
    <2>3. Ids' /\ Distinct' /\ Channels' /\ OwnReply' /\ NoPendingLeak' /\ Senders'
      BY <1>1, <2>1 DEF Ids, Distinct, Channels, OwnReply, NoPendingLeak, Senders, SenderAlive
    <2> QED
      BY <2>2, <2>3
  <1>4. ASSUME NEW q \in pending, q.id = f.id, SendTo(q, f) PROVE IInv'
    <2> DEFINE c == q.caller
    <2>1. /\ c \in Caller /\ pc[c] \in Registered \cup {"over"} /\ call[c] \in Request
          /\ call[c].id = f.id /\ call[c].serial = f.serial /\ f.id > 0
      BY <1>2, <1>4 DEF TypeOK, NoPendingLeak, Registered, Ids
    <2>2. f = call[c]
      BY <1>2, <2>1, SameRequest
    <2>3. chan' = [chan EXCEPT ![c] = f]
      BY <1>4 DEF SendTo
    <2> HIDE DEF c
    <2>4. chan'[c] = call[c] /\ \A d \in Caller : d # c => chan'[d] = chan[d]
      BY <2>1, <2>2, <2>3 DEF TypeOK
    <2>5. TypeOK'
      BY <1>1, <1>2, <2>3 DEF TypeOK
    <2>6. Ids' /\ Distinct' /\ Engine'
      BY <1>1 DEF Ids, Distinct, Engine
    <2>7. Channels' /\ OwnReply'
      BY <1>1, <2>4 DEF Channels, OwnReply
    <2>8. NoPendingLeak'
      BY <1>1 DEF NoPendingLeak
    <2>9. Senders'
      <3> SUFFICES ASSUME NEW d \in Caller, pc'[d] \in Registered, chan'[d] = NoFrame, rd' # "done"
                   PROVE  \E p \in pending' : p.caller = d
        BY DEF Senders, SenderAlive
      <3>1. d # c
        BY <2>1, <2>2, <2>4 DEF NoFrame
      <3>2. PICK p \in pending : p.caller = d
        BY <1>1, <2>4, <3>1 DEF Senders, SenderAlive
      <3>3. p.id # f.id
        BY <2>1, <3>1, <3>2 DEF NoPendingLeak, Distinct
      <3> QED
        BY <1>1, <3>2, <3>3
    <2> QED
      BY <2>5, <2>6, <2>7, <2>8, <2>9
  <1> QED
    BY <1>3, <1>4 DEF ReadReply

\* Every step preserves the invariant.
LEMMA NextIInv == IInv /\ [Next]_vars => IInv'
  <1> SUFFICES ASSUME IInv, [Next]_vars PROVE IInv'
    OBVIOUS
  <1>1. ASSUME NEW c \in Caller, Call(c) PROVE IInv'
    BY <1>1, CallStep
  <1>2. ASSUME NEW c \in Caller, Step(c) PROVE IInv'
    BY <1>2, InsertStep, WriteStep, LeaveStep, WaitStep DEF Step
  <1>3. ASSUME NEW f \in replies, ReadReply(f) PROVE IInv'
    BY <1>3, ReadReplyStep
  <1>4. ASSUME NEW r, Answer(r) \/ (r \in replies /\ SkipFrame(r)) PROVE IInv'
    <2>1. /\ unanswered' \subseteq unanswered /\ replies' \subseteq replies \cup unanswered
          /\ UNCHANGED <<next_id, serial, pending, chan, pc, call, outcome, wire, broken, rd>>
      BY <1>4 DEF Answer, SkipFrame
    <2>2. TypeOK' /\ Engine'
      BY <2>1 DEF IInv, TypeOK, Engine
    <2>3. Ids' /\ Distinct' /\ Channels' /\ OwnReply' /\ NoPendingLeak' /\ Senders'
      BY <2>1 DEF IInv, Ids, Distinct, Channels, OwnReply, NoPendingLeak, Senders, SenderAlive
    <2> QED
      BY <2>2, <2>3 DEF IInv
  <1>5. CASE SetClosed
    BY <1>5 DEF SetClosed, IInv, TypeOK, Ids, Distinct, Engine, Channels, OwnReply,
                NoPendingLeak, Senders, SenderAlive
  <1>6. CASE ClearPending
    BY <1>6 DEF ClearPending, IInv, TypeOK, Ids, Distinct, Engine, Channels, OwnReply,
                NoPendingLeak, Senders, SenderAlive
  <1>7. CASE UNCHANGED vars
    BY <1>7 DEF vars, IInv, TypeOK, Ids, Distinct, Engine, Channels, OwnReply,
                NoPendingLeak, Senders, SenderAlive
  <1> QED
    BY <1>1, <1>2, <1>3, <1>4, <1>5, <1>6, <1>7 DEF Next

\* Type correctness of the request path.
THEOREM RequestTypeCorrect == Spec => []TypeOK
  <1>1. IInv => TypeOK
    BY DEF IInv
  <1> QED
    BY <1>1, InitIInv, NextIInv, PTL DEF Spec

\* A caller that gets a reply gets its own, however late and out of order the
\* engine answers and however many callers gave up before.
THEOREM RepliesMatch == Spec => []OwnReply
  <1>1. IInv => OwnReply
    BY DEF IInv
  <1> QED
    BY <1>1, InitIInv, NextIInv, PTL DEF Spec

\* The pending map never outgrows the requests in flight.
\* Only the end of the transport disconnects a waiting caller.
THEOREM PendingExactHolds == Spec => []PendingExact
  <1>1. IInv => NoPendingLeak
    BY DEF IInv
  <1>2. IInv => OnlyCloseDisconnects
    BY DEF IInv, Senders, OnlyCloseDisconnects, Registered
  <1>3. IInv => PendingExact
    BY <1>1, <1>2 DEF PendingExact
  <1> QED
    BY <1>3, InitIInv, NextIInv, PTL DEF Spec

---------------------------------------------------------------------------
(* Frames on the wire.  The mutex holder at "body" is the one whose length *)
(* is last; once a write failed nothing is written any more.               *)

Mutex == \A c, d \in Caller : pc[c] \in {"length", "body"} /\ pc[d] \in {"length", "body"} => c = d

LastHalf ==
    /\ \A c \in Caller :
          pc[c] = "body" /\ ~broken =>
              Len(wire) > 0 /\ wire[Len(wire)] = [part |-> "length", req |-> call[c]]
    /\ Len(wire) > 0 /\ wire[Len(wire)].part = "length" /\ ~broken =>
          \E c \in Caller : pc[c] = "body"

WireInv == TypeOK /\ FramesWhole /\ Mutex /\ LastHalf

\* One more half at the end of the wire leaves it whole if it fits the last one.
LEMMA AppendHalf ==
  ASSUME TypeOK, FramesWhole, NEW h \in Half, wire' = Append(wire, h),
         h.part = "body" =>
             Len(wire) > 0 /\ wire[Len(wire)] = [part |-> "length", req |-> h.req],
         h.part = "length" => Len(wire) = 0 \/ wire[Len(wire)].part = "body"
  PROVE  FramesWhole' /\ Len(wire') = Len(wire) + 1 /\ wire'[Len(wire')] = h
  <1>1. /\ wire \in Seq(Half) /\ Len(wire) \in Nat /\ Len(wire') = Len(wire) + 1
        /\ wire'[Len(wire) + 1] = h /\ \A k \in 1..Len(wire) : wire'[k] = wire[k]
    BY AppendProperties, LenProperties DEF TypeOK
  <1>2. h.part \in {"length", "body"} /\ \A k \in 1..Len(wire) : wire[k] \in Half
    <2>1. \A k \in 1..Len(wire) : wire[k] \in Half
      BY <1>1, LenProperties
    <2>2. h.part \in {"length", "body"}
      BY DEF Half
    <2> QED
      BY <2>1, <2>2
  <1>3. ASSUME NEW k \in 1..Len(wire')
        PROVE  /\ wire'[k].part = "body" =>
                      k > 1 /\ wire'[k - 1] = [part |-> "length", req |-> wire'[k].req]
               /\ wire'[k].part = "length" /\ k < Len(wire') => wire'[k + 1].part = "body"
    <2>1. CASE k = Len(wire) + 1
      BY <1>1, <2>1
    <2>2. CASE k = Len(wire)
      <3>1. CASE h.part = "body"
        BY <1>1, <1>2, <2>2, <3>1 DEF FramesWhole
      <3>2. CASE h.part = "length"
        BY <1>1, <1>2, <2>2, <3>2 DEF FramesWhole
      <3> QED
        BY <1>2, <3>1, <3>2
    <2>3. CASE k < Len(wire)
      <3>1. k \in 1..Len(wire) /\ k + 1 \in 1..Len(wire) /\ (k > 1 => k - 1 \in 1..Len(wire))
        BY <1>1, <2>3
      <3> QED
        BY <1>1, <2>3, <3>1 DEF FramesWhole
    <2> QED
      BY <1>1, <2>1, <2>2, <2>3
  <1> QED
    BY <1>1, <1>3 DEF FramesWhole

\* The steps of write_frame keep the wire whole.
LEMMA WireWriteStep ==
  ASSUME WireInv, TypeOK', NEW c \in Caller, Write(c)
  PROVE  WireInv'
  <1> USE DEF WireInv
  <1>1. pc \in [Caller -> {"idle", "insert", "lock", "length", "body", "failed", "wait", "over"}]
        /\ Len(wire) \in Nat /\ wire \in Seq(Half) /\ call \in [Caller -> Request]
    BY LenProperties DEF TypeOK
  <1>2. CASE Lock(c)
    <2>1. Mutex'
      BY <1>1, <1>2 DEF Lock, Goto, WriterFree, Mutex
    <2>2. FramesWhole' /\ LastHalf'
      BY <1>1, <1>2 DEF Lock, Goto, FramesWhole, LastHalf
    <2> QED
      BY <2>1, <2>2
  <1>3. CASE WriteLength(c)
    <2> DEFINE h == [part |-> "length", req |-> call[c]]
    <2>1. h \in Half /\ h.part = "length" /\ wire' = Append(wire, h)
      BY <1>1, <1>3 DEF WriteLength, Half
    <2>2. /\ ~broken /\ broken' = broken /\ call' = call /\ pc[c] = "length"
          /\ pc'[c] = "body" /\ \A d \in Caller : d # c => pc'[d] = pc[d]
      BY <1>1, <1>3 DEF WriteLength, Goto
    <2>3. \A d \in Caller : pc[d] # "body"
      BY <2>2 DEF Mutex
    <2>4. Len(wire) = 0 \/ wire[Len(wire)].part = "body"
      <3>1. CASE Len(wire) > 0
        <4>1. wire[Len(wire)] \in Half
          BY <1>1, <3>1, LenProperties
        <4> QED
          BY <2>2, <2>3, <3>1, <4>1 DEF LastHalf, Half
      <3> QED
        BY <1>1, <3>1
    <2>h. h = [part |-> "length", req |-> call[c]]
      OBVIOUS
    <2> HIDE DEF h
    <2>5. FramesWhole' /\ Len(wire') = Len(wire) + 1 /\ wire'[Len(wire')] = h
      BY <2>1, <2>4, AppendHalf
    <2>6. Mutex'
      BY <2>2 DEF Mutex
    <2>7. LastHalf'
      BY <1>1, <2>2, <2>3, <2>5, <2>h DEF LastHalf
    <2> QED
      BY <2>5, <2>6, <2>7
  <1>4. CASE WriteBody(c)
    <2> DEFINE h == [part |-> "body", req |-> call[c]]
    <2>1. h \in Half /\ h.part = "body" /\ h.req = call[c] /\ wire' = Append(wire, h)
      BY <1>1, <1>4 DEF WriteBody, Half
    <2>2. /\ ~broken /\ broken' = broken /\ call' = call /\ pc[c] = "body"
          /\ pc'[c] = "wait" /\ \A d \in Caller : d # c => pc'[d] = pc[d]
      BY <1>1, <1>4 DEF WriteBody, Goto
    <2> HIDE DEF h
    <2>3. Len(wire) > 0 /\ wire[Len(wire)] = [part |-> "length", req |-> h.req]
      BY <2>1, <2>2 DEF LastHalf
    <2>4. FramesWhole' /\ Len(wire') = Len(wire) + 1 /\ wire'[Len(wire')] = h
      BY <2>1, <2>3, AppendHalf
    <2>5. Mutex'
      BY <2>2 DEF Mutex
    <2>6. \A d \in Caller : pc'[d] # "body"
      BY <2>2 DEF Mutex
    <2>7. LastHalf'
      BY <2>1, <2>4, <2>6 DEF LastHalf
    <2> QED
      BY <2>4, <2>5, <2>7
  <1>5. CASE WriteFails(c)
    <2>1. /\ UNCHANGED wire /\ broken' = TRUE /\ pc'[c] = "failed"
          /\ \A d \in Caller : d # c => pc'[d] = pc[d]
      BY <1>1, <1>5 DEF WriteFails, Goto
    <2> QED
      BY <2>1 DEF FramesWhole, Mutex, LastHalf
  <1>6. CASE TooLarge(c)
    <2>1. /\ UNCHANGED <<wire, broken, call>> /\ pc'[c] = "failed" /\ pc[c] = "length"
          /\ \A d \in Caller : d # c => pc'[d] = pc[d]
      BY <1>1, <1>6 DEF TooLarge, Goto
    <2> QED
      BY <2>1 DEF FramesWhole, Mutex, LastHalf
  <1> QED
    BY <1>2, <1>3, <1>4, <1>5, <1>6 DEF Write

\* No other step writes, takes the mutex or renumbers a request being written.
LEMMA WireStep == WireInv /\ TypeOK' /\ [Next]_vars => WireInv'
  <1> SUFFICES ASSUME WireInv, TypeOK', [Next]_vars PROVE WireInv'
    OBVIOUS
  <1> USE DEF WireInv
  <1>1. pc \in [Caller -> {"idle", "insert", "lock", "length", "body", "failed", "wait", "over"}]
        /\ call \in [Caller -> Request]
    BY DEF TypeOK
  <1>2. ASSUME NEW c \in Caller, Write(c) PROVE WireInv'
    BY <1>2, WireWriteStep
  <1>3. ASSUME NEW c \in Caller, Call(c) PROVE WireInv'
    <2>1. /\ UNCHANGED <<wire, broken>> /\ pc'[c] = "insert" /\ pc[c] = "idle"
          /\ \A d \in Caller : d # c => pc'[d] = pc[d] /\ call'[d] = call[d]
      BY <1>1, <1>3 DEF Call, Goto
    <2> QED
      BY <2>1 DEF FramesWhole, Mutex, LastHalf
  <1>4. ASSUME NEW c \in Caller, Insert(c) \/ Unwind(c) \/ Wait(c) \/ Return(c) PROVE WireInv'
    <2>1. /\ UNCHANGED <<wire, broken, call>> /\ pc'[c] \in {"lock", "idle", "over"}
          /\ pc[c] \in {"insert", "failed", "wait", "over"}
          /\ \A d \in Caller : d # c => pc'[d] = pc[d]
      BY <1>1, <1>4 DEF Insert, Unwind, Wait, GetReply, Disconnected, Timeout, Waited, Return, Goto
    <2> QED
      BY <2>1 DEF FramesWhole, Mutex, LastHalf
  <1>5. CASE UNCHANGED <<pc, call, wire, broken>>
    BY <1>5 DEF FramesWhole, Mutex, LastHalf
  <1>6. ASSUME NEW r \in unanswered, Answer(r) PROVE UNCHANGED <<pc, call, wire, broken>>
    BY <1>6 DEF Answer
  <1>7. ASSUME NEW f \in replies, ReadReply(f) \/ SkipFrame(f)
        PROVE  UNCHANGED <<pc, call, wire, broken>>
    BY <1>7 DEF ReadReply, SkipFrame
  <1>8. SetClosed \/ ClearPending \/ UNCHANGED vars => UNCHANGED <<pc, call, wire, broken>>
    BY DEF SetClosed, ClearPending, vars
  <1> QED
    BY <1>2, <1>3, <1>4, <1>5, <1>6, <1>7, <1>8 DEF Next, Step

\* Frames of concurrent callers never interleave on the transport.
THEOREM WireWhole == Spec => []FramesWhole
  <1>1. Init => WireInv
    <2>1. Init => TypeOK
      BY InitIInv DEF IInv
    <2>2. Init => FramesWhole /\ Mutex /\ LastHalf
      BY EmptySeq DEF Init, FramesWhole, Mutex, LastHalf
    <2> QED
      BY <2>1, <2>2 DEF WireInv
  <1>2. WireInv => FramesWhole
    BY DEF WireInv
  <1> QED
    BY <1>1, <1>2, WireStep, RequestTypeCorrect, PTL DEF Spec
=============================================================================
