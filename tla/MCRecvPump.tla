---------------------------- MODULE MCRecvPump ----------------------------
(***************************************************************************)
(* RecvPump with one session in depth beside a stalled one: the inattentive *)
(* application registers and never reads or closes.  The octets of a        *)
(* session are numbered, so that any loss or reordering shows.             *)
(***************************************************************************)
EXTENDS RecvPump

CONSTANT StalledBytes   \* bound: bytes the engine sends on a stalled handle

Numbered ==
    \A h \in Handle :
        LET s == before[h] \o after[h]
        IN  /\ \A i \in DOMAIN s : s[i] = i
            /\ h \notin Attentive => Len(s) <= StalledBytes

MCNext ==
    /\ \/ \E h \in Handle : OnRecv(h) \/ Register(h) \/ Drain(h)
       \/ \E h \in Attentive :
             \/ OnClose(h) \/ Read(h) \/ ReadEof(h) \/ LoseAppEnd(h)
             \/ CloseRequest(h) \/ Unregister(h) \/ CloseFds(h)
       \/ OnDisconnect \/ FlusherCheck \/ DrainDone \/ PollReturns
    /\ Numbered'

MCSpec == Init /\ [][MCNext]_vars /\ Fairness
===========================================================================
