-------------------------- MODULE AxConnectProofs --------------------------
(***************************************************************************)
(* Proofs about AxConnect, for any number of concurrent connects: the      *)
(* outbound pump never sees the gate's filler, the gate holds until the    *)
(* engine decided, and what connect() and SO_ERROR report is true but for  *)
(* the two cases in which SO_ERROR is 0 without a link.                    *)
(***************************************************************************)
EXTENDS AxConnect, TLAPS

---------------------------------------------------------------------------
(* Types.                                                                  *)

\* The initial values have their types.
LEMMA TypeInit == Init => TypeOK
  <1> SUFFICES ASSUME Init PROVE TypeOK
    OBVIOUS
  <1>1. closed \in BOOLEAN
    BY Zenon DEF Init
  <1>2. "start" \in PCs
    BY DEF PCs
  <1>3. pc \in [Handle -> PCs]
    BY <1>2 DEF Init
  <1> QED
    BY <1>1, <1>3 DEF Init, TypeOK

\* A step of an application thread preserves the types.
LEMMA TypeThread ==
  ASSUME TypeOK, NEW h \in Handle, ThreadStep(h)
  PROVE  TypeOK'
  <1> USE DEF TypeOK, PCs, Waiting, Goto, Return, registry, engine, reader
  <1>1. CASE GetReply(h) \/ SetPending(h) \/ Fill(h) \/ ArmGate(h) \/ Check(h)
    BY <1>1 DEF GetReply, SetPending, SetPendingEntry, Fill, ArmGate, Check
  <1>2. CASE OwnRemove(h) \/ OwnDrain(h) \/ OwnRegister(h) \/ RegisterOutbound(h)
    BY <1>2 DEF OwnRemove, OwnDrain, OwnRegister, RegisterOutbound, Drained
  <1>3. CASE Look(h) \/ Park(h) \/ Expired(h)
    BY <1>3 DEF Look, Park, Expired, Outcome
  <1>4. CASE CloseReply(h) \/ UnregisterOutbound(h) \/ RemoveGate(h) \/ CloseFds(h)
    BY <1>4 DEF CloseReply, UnregisterOutbound, RemoveGate, CloseFds
  <1> QED
    BY <1>1, <1>2, <1>3, <1>4 DEF ThreadStep

\* A step of the reader between two frames preserves the types.
LEMMA TypeReader ==
  ASSUME TypeOK, ReaderStep
  PROVE  TypeOK'
  <1> USE DEF TypeOK, PCs, Waiting, registry, engine, reader, AfterResolve
  <1>1. ASSUME NEW h \in cur, ResolveRemove(h) \/ ResolveDrain(h) \/ ResolveRegister(h)
        PROVE  TypeOK'
    BY <1>1 DEF ResolveRemove, ResolveDrain, ResolveRegister, Drained
  <1>2. CASE ClearPending \/ Snapshot \/ NextGate
    BY <1>2 DEF ClearPending, Snapshot, NextGate
  <1>3. CASE FailAll
    BY <1>3 DEF FailAll, FailAllPending, NotifyAll
  <1> QED
    BY <1>1, <1>2, <1>3 DEF ReaderStep

\* Every step preserves the types.
LEMMA TypeStep == TypeOK /\ [Next]_vars => TypeOK'
  <1> SUFFICES ASSUME TypeOK, [Next]_vars PROVE TypeOK'
    OBVIOUS
  <1>1. ASSUME NEW h \in Handle, ThreadStep(h) PROVE TypeOK'
    BY <1>1, TypeThread
  <1>2. CASE ReaderStep
    BY <1>2, TypeReader
  <1> USE DEF TypeOK, PCs, Waiting, Goto, Return, registry, engine, reader
  <1>3. ASSUME NEW h \in Handle, ReadOpenReply(h) PROVE TypeOK'
    BY <1>3 DEF ReadOpenReply
  <1>4. ASSUME NEW h \in Handle, ReadStatus(h) \/ ReadClose(h) PROVE TypeOK'
    BY <1>4 DEF ReadStatus, ReadClose, MarkConnected, MarkFailed, NotifyAll
  <1>5. ASSUME NEW h \in Handle, Open(h) \/ ReplyTimeout(h) \/ Expire(h) PROVE TypeOK'
    BY <1>5 DEF Open, ReplyTimeout, Expire
  <1>6. ASSUME NEW h \in Handle, GetSoError(h) \/ CloseRequest(h) \/ CloseTimeout(h) PROVE TypeOK'
    BY <1>6 DEF GetSoError, CloseRequest, CloseTimeout
  <1>7. CASE SetClosed
    BY <1>7 DEF SetClosed
  <1>8. CASE UNCHANGED vars
    BY <1>8 DEF vars
  <1> QED
    BY <1>1, <1>2, <1>3, <1>4, <1>5, <1>6, <1>7, <1>8 DEF Next

\* Type correctness of the connect path.
THEOREM ConnectTypeCorrect == Spec => []TypeOK
  BY TypeInit, TypeStep, PTL DEF Spec

---------------------------------------------------------------------------
(* The filler.  Whoever removed the gate drains the filler and then        *)
(* registers with the outbound pump; until then, nobody else can.          *)

\* The reader drains h, or is about to register it.
Busy(h) == rd \in {"drain", "register"} /\ h \in cur

Untouched(h) == h \notin gate /\ h \notin outReg /\ ~Busy(h)

NotArmed == Waiting \cup {"start", "reply", "pending", "fill", "outreg"}

Owners ==
    \A h \in Handle :
        /\ pc[h] \in NotArmed \cup {"gate", "drain", "register"} => Untouched(h)
        /\ pc[h] \in NotArmed \cup {"register"} => h \notin filler
        /\ h \in gate => h \notin outReg /\ ~Busy(h)
        /\ rd = "drain" /\ h \in cur => h \notin outReg
        /\ rd = "register" /\ h \in cur => h \notin filler

OneAtATime == \A g, h \in cur : g = h

GateInv == TypeOK /\ FillerPrivate /\ Owners /\ OneAtATime

\* The steps of an application thread preserve the ownership of the filler.
LEMMA GateThread ==
  ASSUME GateInv, TypeOK', NEW h \in Handle, ThreadStep(h)
  PROVE  GateInv'
  <1> USE DEF GateInv, Untouched, Busy, NotArmed, Waiting, Goto, Return,
              registry, engine, reader, OneAtATime
  <1>1. CASE GetReply(h) \/ SetPending(h) \/ Check(h) \/ CloseReply(h)
    BY <1>1 DEF GetReply, SetPending, Check, CloseReply, FillerPrivate, Owners, TypeOK
  <1>2. CASE Fill(h)
    BY <1>2 DEF Fill, FillerPrivate, Owners, TypeOK
  <1>3. CASE ArmGate(h)
    BY <1>3 DEF ArmGate, FillerPrivate, Owners, TypeOK
  <1>4. CASE OwnRemove(h)
    BY <1>4 DEF OwnRemove, FillerPrivate, Owners, TypeOK
  <1>5. CASE OwnDrain(h)
    BY <1>5 DEF OwnDrain, Drained, FillerPrivate, Owners, TypeOK
  <1>6. CASE OwnRegister(h)
    BY <1>6 DEF OwnRegister, FillerPrivate, Owners, TypeOK
  <1>7. CASE RegisterOutbound(h)
    BY <1>7 DEF RegisterOutbound, FillerPrivate, Owners, TypeOK
  <1>8. CASE Look(h) \/ Park(h) \/ Expired(h)
    BY <1>8 DEF Look, Park, Expired, Outcome, FillerPrivate, Owners, TypeOK
  <1>9. CASE UnregisterOutbound(h)
    BY <1>9 DEF UnregisterOutbound, FillerPrivate, Owners, TypeOK
  <1>10. CASE RemoveGate(h)
    BY <1>10 DEF RemoveGate, FillerPrivate, Owners, TypeOK
  <1>11. CASE CloseFds(h)
    BY <1>11 DEF CloseFds, FillerPrivate, Owners, TypeOK
  <1> QED
    BY <1>1, <1>2, <1>3, <1>4, <1>5, <1>6, <1>7, <1>8, <1>9, <1>10, <1>11 DEF ThreadStep

\* So do the reader's.
LEMMA GateReader ==
  ASSUME GateInv, TypeOK', ReaderStep
  PROVE  GateInv'
  <1> USE DEF GateInv, Untouched, Busy, NotArmed, Waiting,
              registry, engine, reader, OneAtATime
  <1>1. ASSUME NEW h \in cur, ResolveRemove(h) PROVE GateInv'
    BY <1>1 DEF ResolveRemove, AfterResolve, FillerPrivate, Owners, TypeOK
  <1>2. ASSUME NEW h \in cur, ResolveDrain(h) PROVE GateInv'
    BY <1>2 DEF ResolveDrain, Drained, FillerPrivate, Owners, TypeOK
  <1>3. ASSUME NEW h \in cur, ResolveRegister(h) PROVE GateInv'
    BY <1>3 DEF ResolveRegister, AfterResolve, FillerPrivate, Owners, TypeOK
  <1>4. CASE ClearPending \/ Snapshot
    BY <1>4 DEF ClearPending, Snapshot, FillerPrivate, Owners, TypeOK
  <1>5. CASE NextGate
    BY <1>5 DEF NextGate, FillerPrivate, Owners, TypeOK
  <1>6. CASE FailAll
    BY <1>6 DEF FailAll, FailAllPending, NotifyAll, FillerPrivate, Owners, TypeOK
  <1> QED
    BY <1>1, <1>2, <1>3, <1>4, <1>5, <1>6 DEF ReaderStep

\* Every step preserves the ownership of the filler.
LEMMA GateStep == GateInv /\ TypeOK' /\ [Next]_vars => GateInv'
  <1> SUFFICES ASSUME GateInv, TypeOK', [Next]_vars PROVE GateInv'
    OBVIOUS
  <1>1. ASSUME NEW h \in Handle, ThreadStep(h) PROVE GateInv'
    BY <1>1, GateThread
  <1>2. CASE ReaderStep
    BY <1>2, GateReader
  <1> USE DEF GateInv, Untouched, Busy, NotArmed, Waiting, Goto, Return,
              registry, engine, reader, OneAtATime
  <1>3. ASSUME NEW h \in Handle, ReadOpenReply(h) PROVE GateInv'
    BY <1>3 DEF ReadOpenReply, FillerPrivate, Owners
  <1>4. ASSUME NEW h \in Handle, ReadStatus(h) \/ ReadClose(h) PROVE GateInv'
    BY <1>4 DEF ReadStatus, ReadClose, MarkConnected, MarkFailed, NotifyAll,
                FillerPrivate, Owners, TypeOK
  <1>5. ASSUME NEW h \in Handle, Open(h) \/ ReplyTimeout(h) \/ Expire(h) PROVE GateInv'
    BY <1>5 DEF Open, ReplyTimeout, Expire, FillerPrivate, Owners, TypeOK
  <1>6. ASSUME NEW h \in Handle, GetSoError(h) \/ CloseRequest(h) \/ CloseTimeout(h) PROVE GateInv'
    BY <1>6 DEF GetSoError, CloseRequest, CloseTimeout, FillerPrivate, Owners, TypeOK
  <1>7. CASE SetClosed
    BY <1>7 DEF SetClosed, FillerPrivate, Owners
  <1>8. CASE UNCHANGED vars
    BY <1>8 DEF vars, FillerPrivate, Owners
  <1> QED
    BY <1>1, <1>2, <1>3, <1>4, <1>5, <1>6, <1>7, <1>8 DEF Next

\* The gate's filler is never forwarded to the remote station.
THEOREM FillerNeverForwarded == Spec => []FillerPrivate
  <1>1. Init => GateInv
    BY TypeInit DEF Init, GateInv, FillerPrivate, Owners, OneAtATime, Untouched, Busy
  <1>2. GateInv => FillerPrivate
    BY DEF GateInv
  <1> QED
    BY <1>1, <1>2, GateStep, ConnectTypeCorrect, PTL DEF Spec

---------------------------------------------------------------------------
(* What is reported.  A phase is what a push or the end of the transport   *)
(* said of the link, until SO_ERROR has cleared it.                        *)

\* connect() has the openReply.
Opened == Waiting \cup {"pending", "fill", "gate", "check", "resolve", "drain", "register",
                        "inprogress", "polled", "outreg", "connected"}

\* The engine decided, or the transport is gone.
Decided(h) == link[h] # "pending" \/ closed

Links ==
    \A h \in Handle :
        /\ h \in wasUp => link[h] \in {"up", "ended", "closed"}
        /\ link[h] \in {"up", "ended"} => h \in wasUp
        /\ reply[h] = "ok" => link[h] \notin {"none", "asked"}
        /\ pc[h] = "start" => reply[h] = "none" /\ link[h] = "none"
        /\ pc[h] \in Opened => reply[h] = "ok"
        /\ pc[h] \in Opened \cup {"reply"} /\ reply[h] = "ok" => link[h] # "closed"

PhaseTrue(h) ==
    /\ phase[h] = "connected" => h \in wasUp \/ soerr[h] # "none"
    /\ phase[h] = "refused" => link[h] \in {"refused", "closed"} /\ h \notin wasUp
    /\ phase[h] = "reset" => closed
    /\ h \in wasUp => phase[h] # "pending"
    /\ pc[h] \in Opened \ {"pending"} => phase[h] # "absent"
    /\ h \in wasUp /\ pc[h] \in {"start", "reply", "pending"} => phase[h] = "connected"
    /\ soerr[h] # "none" =>
          pc[h] \in {"polled", "closing", "unregister", "ungate", "closefds", "closed"}

Phases == \A h \in Handle : PhaseTrue(h)

Reports ==
    \A h \in Handle :
        /\ "refused" \in {result[h], soerr[h]} => link[h] \in {"refused", "closed"}
        /\ pc[h] = "outreg" => h \in wasUp

Releases ==
    /\ rd = "idle" => ~closed /\ cur = {}
    /\ rd \in {"clear", "failall", "snapshot", "next", "ended"} => closed
    /\ \A h \in Handle :
          /\ h \in cur => Decided(h)
          /\ pc[h] \in {"resolve", "drain", "register"} => Decided(h)
          /\ pc[h] \in {"gate", "check", "inprogress"} /\ h \notin filler => Decided(h)

TruthInv == TypeOK /\ Links /\ Phases /\ Reports /\ ConnectTruth /\ Releases

\* The steps of an application thread preserve it.
LEMMA TruthThread ==
  ASSUME TruthInv, TypeOK', NEW h \in Handle, ThreadStep(h)
  PROVE  TruthInv'
  <1> USE DEF TruthInv, Decided, Opened, Waiting, Goto, Return, registry, engine, reader
  <1>1. CASE GetReply(h)
    BY <1>1 DEF GetReply, Links, Phases, PhaseTrue, Reports, ConnectTruth, Overtaken, Releases, TypeOK
  <1>2. CASE SetPending(h)
    BY <1>2 DEF SetPending, SetPendingEntry, Links, Phases, PhaseTrue, Reports, ConnectTruth, Overtaken, Releases, TypeOK
  <1>3. CASE Fill(h) \/ ArmGate(h)
    BY <1>3 DEF Fill, ArmGate, Links, Phases, PhaseTrue, Reports, ConnectTruth, Overtaken, Releases, TypeOK
  <1>4. CASE Check(h)
    BY <1>4 DEF Check, AlreadyResolved, Resolved,
                Links, Phases, PhaseTrue, Reports, ConnectTruth, Overtaken, Releases, TypeOK
  <1>5. CASE OwnRemove(h) \/ OwnDrain(h) \/ OwnRegister(h)
    BY <1>5 DEF OwnRemove, OwnDrain, Drained, OwnRegister,
                Links, Phases, PhaseTrue, Reports, ConnectTruth, Overtaken, Releases, TypeOK
  <1>6. CASE Look(h)
    BY <1>6 DEF Look, Outcome, Resolved, Links, Phases, PhaseTrue, Reports, ConnectTruth, Overtaken, Releases, TypeOK
  <1>7. CASE Expired(h)
    BY <1>7 DEF Expired, Outcome, Resolved, Links, Phases, PhaseTrue, Reports, ConnectTruth, Overtaken, Releases, TypeOK
  <1>8. CASE Park(h) \/ RegisterOutbound(h)
    BY <1>8 DEF Park, RegisterOutbound, Links, Phases, PhaseTrue, Reports, ConnectTruth, Overtaken, Releases, TypeOK
  <1>9. CASE CloseReply(h)
    BY <1>9 DEF CloseReply, Links, Phases, PhaseTrue, Reports, ConnectTruth, Overtaken, Releases, TypeOK
  <1>10. CASE UnregisterOutbound(h) \/ RemoveGate(h) \/ CloseFds(h)
    BY <1>10 DEF UnregisterOutbound, RemoveGate, CloseFds,
                 Links, Phases, PhaseTrue, Reports, ConnectTruth, Overtaken, Releases, TypeOK
  <1> QED
    BY <1>1, <1>2, <1>3, <1>4, <1>5, <1>6, <1>7, <1>8, <1>9, <1>10 DEF ThreadStep

\* So do the reader's steps between two frames.
LEMMA TruthReader ==
  ASSUME TruthInv, TypeOK', ReaderStep
  PROVE  TruthInv'
  <1> USE DEF TruthInv, Decided, Opened, Waiting, registry, engine, reader
  <1>1. ASSUME NEW h \in cur, ResolveRemove(h) PROVE TruthInv'
    BY <1>1 DEF ResolveRemove, AfterResolve, Links, Phases, PhaseTrue, Reports, ConnectTruth, Overtaken, Releases, TypeOK
  <1>2. ASSUME NEW h \in cur, ResolveDrain(h) PROVE TruthInv'
    BY <1>2 DEF ResolveDrain, Drained, Links, Phases, PhaseTrue, Reports, ConnectTruth, Overtaken, Releases, TypeOK
  <1>3. ASSUME NEW h \in cur, ResolveRegister(h) PROVE TruthInv'
    BY <1>3 DEF ResolveRegister, AfterResolve, Links, Phases, PhaseTrue, Reports, ConnectTruth, Overtaken, Releases, TypeOK
  <1>4. CASE ClearPending
    BY <1>4 DEF ClearPending, Links, Phases, PhaseTrue, Reports, ConnectTruth, Overtaken, Releases, TypeOK
  <1>5. CASE Snapshot \/ NextGate
    BY <1>5 DEF Snapshot, NextGate, Links, Phases, PhaseTrue, Reports, ConnectTruth, Overtaken, Releases, TypeOK
  <1>6. CASE FailAll
    <2>1. /\ UNCHANGED <<link, reply, wasUp, filler, closed, cur, result, soerr>>
          /\ rd = "failall" /\ rd' = "snapshot"
      BY <1>6 DEF FailAll
    <2>2. \A h \in Handle :
             /\ pc'[h] = pc[h] \/ (pc[h] = "asleep" /\ pc'[h] = "look")
             /\ phase'[h] = phase[h] \/ (phase[h] = "pending" /\ phase'[h] = "reset")
      BY <1>6 DEF FailAll, FailAllPending, NotifyAll
    <2>3. Links' /\ Reports' /\ ConnectTruth'
      BY <2>1, <2>2 DEF Links, Reports, ConnectTruth, Overtaken, Releases
    <2>4. Phases'
      <3> SUFFICES ASSUME NEW h \in Handle PROVE PhaseTrue(h)'
        BY DEF Phases
      <3>1. PhaseTrue(h) /\ closed
        BY <2>1 DEF Phases, Releases
      <3>2. /\ pc'[h] = pc[h] \/ (pc[h] = "asleep" /\ pc'[h] = "look")
            /\ phase'[h] = phase[h] \/ (phase[h] = "pending" /\ phase'[h] = "reset")
        BY <2>2
      <3> QED
        BY <2>1, <3>1, <3>2 DEF PhaseTrue
    <2>5. Releases'
      BY <2>1, <2>2 DEF Releases
    <2> QED
      BY <2>3, <2>4, <2>5
  <1> QED
    BY <1>1, <1>2, <1>3, <1>4, <1>5, <1>6 DEF ReaderStep

\* Every step preserves it.
LEMMA TruthStep == TruthInv /\ TypeOK' /\ [Next]_vars => TruthInv'
  <1> SUFFICES ASSUME TruthInv, TypeOK', [Next]_vars PROVE TruthInv'
    OBVIOUS
  <1>1. ASSUME NEW h \in Handle, ThreadStep(h) PROVE TruthInv'
    BY <1>1, TruthThread
  <1>2. CASE ReaderStep
    BY <1>2, TruthReader
  <1> USE DEF TruthInv, Decided, Opened, Waiting, Goto, Return, registry, engine, reader
  <1>3. ASSUME NEW h \in Handle, ReadOpenReply(h) PROVE TruthInv'
    BY <1>3 DEF ReadOpenReply, Links, Phases, PhaseTrue, Reports, ConnectTruth, Overtaken, Releases, TypeOK
  <1>4. ASSUME NEW h \in Handle, ReadStatus(h) PROVE TruthInv'
    BY <1>4 DEF ReadStatus, MarkConnected, NotifyAll,
                Links, Phases, PhaseTrue, Reports, ConnectTruth, Overtaken, Releases, TypeOK
  <1>5. ASSUME NEW h \in Handle, ReadClose(h) PROVE TruthInv'
    <2>1. /\ UNCHANGED <<reply, filler, closed, result, soerr, wasUp>>
          /\ link[h] \in {"pending", "up"} /\ link'[h] \in {"refused", "ended"}
          /\ link[h] = "pending" => link'[h] = "refused"
          /\ link[h] = "up" => link'[h] = "ended"
          /\ \A g \in Handle : g # h => link'[g] = link[g] /\ phase'[g] = phase[g]
          /\ phase'[h] = IF phase[h] = "pending" THEN "refused" ELSE phase[h]
          /\ rd = "idle" /\ rd' = "resolve" /\ cur' = {h}
      BY <1>5 DEF ReadClose, MarkFailed, TypeOK
    <2>2. \A g \in Handle : pc'[g] = pc[g] \/ (pc[g] = "asleep" /\ pc'[g] = "look")
      BY <1>5 DEF ReadClose, MarkFailed, NotifyAll
    <2>3. Links' /\ Reports' /\ ConnectTruth'
      BY <2>1, <2>2 DEF Links, Reports, ConnectTruth, Overtaken
    <2>4. Phases'
      <3>1. CASE link[h] = "pending"
        BY <2>1, <2>2, <3>1 DEF Phases, PhaseTrue, Links
      <3>2. CASE link[h] = "up"
        <4>1. h \in wasUp /\ phase[h] \notin {"pending", "refused"}
          BY <3>2 DEF Phases, PhaseTrue, Links
        <4>2. \A g \in Handle : phase'[g] = phase[g]
          BY <2>1, <4>1
        <4> SUFFICES ASSUME NEW g \in Handle PROVE PhaseTrue(g)'
          BY DEF Phases
        <4>3. PhaseTrue(g)
          BY DEF Phases
        <4>4. link'[g] = link[g] \/ (g \in wasUp /\ phase[g] # "refused")
          BY <2>1, <4>1
        <4>5. pc'[g] = pc[g] \/ (pc[g] = "asleep" /\ pc'[g] = "look")
          BY <2>2
        <4> QED
          BY <2>1, <4>2, <4>3, <4>4, <4>5 DEF PhaseTrue
      <3> QED
        BY <2>1, <3>1, <3>2
    <2>5. Releases'
      BY <2>1, <2>2 DEF Releases
    <2> QED
      BY <2>3, <2>4, <2>5
  <1>6. ASSUME NEW h \in Handle, Open(h) \/ ReplyTimeout(h) \/ Expire(h) PROVE TruthInv'
    BY <1>6 DEF Open, ReplyTimeout, Expire, Links, Phases, PhaseTrue, Reports, ConnectTruth, Overtaken, Releases, TypeOK
  <1>7. ASSUME NEW h \in Handle, GetSoError(h) PROVE TruthInv'
    <2>1. /\ UNCHANGED <<link, reply, wasUp, filler, closed, rd, cur, result>>
          /\ pc[h] = "inprogress" /\ pc'[h] = "polled" /\ Writable(h)
          /\ \A g \in Handle :
                g # h => pc'[g] = pc[g] /\ soerr'[g] = soerr[g] /\ phase'[g] = phase[g]
          /\ \/ /\ phase[h] \in {"refused", "reset"}
                /\ soerr'[h] = phase[h] /\ phase'[h] = "connected"
             \/ /\ closed \/ phase[h] \notin {"refused", "reset"}
                /\ soerr'[h] = "zero" /\ phase'[h] = phase[h]
      BY <1>7 DEF GetSoError, TypeOK
    <2>2. phase[h] \notin {"refused", "reset"} => h \in wasUp \/ closed \/ Overtaken(h)
      BY <2>1 DEF Overtaken, Links, Phases, PhaseTrue, Releases, Writable, TypeOK
    <2>3. Links' /\ Reports' /\ Releases'
      BY <2>1 DEF Links, Phases, PhaseTrue, Reports, Releases
    <2>4. Phases'
      BY <2>1 DEF Phases, PhaseTrue
    <2>5. ConnectTruth'
      <3>1. Overtaken(h) /\ soerr'[h] = "zero" => Overtaken(h)'
        BY <2>1 DEF Overtaken
      <3> QED
        BY <2>1, <2>2, <3>1 DEF ConnectTruth, Phases, PhaseTrue, Overtaken
    <2> QED
      BY <2>3, <2>4, <2>5
  <1>8. ASSUME NEW h \in Handle, CloseRequest(h) \/ CloseTimeout(h) PROVE TruthInv'
    BY <1>8 DEF CloseRequest, CloseTimeout, Links, Phases, PhaseTrue, Reports, ConnectTruth, Overtaken, Releases, TypeOK
  <1>9. CASE SetClosed
    BY <1>9 DEF SetClosed, Links, Phases, PhaseTrue, Reports, ConnectTruth, Overtaken, Releases
  <1>10. CASE UNCHANGED vars
    BY <1>10 DEF vars, Links, Phases, PhaseTrue, Reports, ConnectTruth, Overtaken, Releases
  <1> QED
    BY <1>1, <1>2, <1>3, <1>4, <1>5, <1>6, <1>7, <1>8, <1>9, <1>10 DEF Next

\* Nothing was reported yet.
LEMMA TruthInit == Init => TruthInv
  BY TypeInit DEF Init, TruthInv, Links, Phases, PhaseTrue, Reports, ConnectTruth, Overtaken, Releases, Decided,
                  Opened, Waiting

\* connect() never reports a success, a refusal or a reset that did not happen;
\* nor does SO_ERROR, whose 0 stands for a link that came up except after a dropped
\* transport and for a close push that overtook set_pending.
THEOREM ReportsTrue == Spec => []ConnectTruth
  <1>1. TruthInv => ConnectTruth
    BY DEF TruthInv
  <1> QED
    BY <1>1, TruthInit, TruthStep, ConnectTypeCorrect, PTL DEF Spec

\* A descriptor is not writable while its connect is still undecided.
THEOREM GateHeld == Spec => []GateHolds
  <1>1. TruthInv => GateHolds
    BY DEF TruthInv, Releases, GateHolds, Writable, Decided
  <1> QED
    BY <1>1, TruthInit, TruthStep, ConnectTypeCorrect, PTL DEF Spec
=============================================================================
