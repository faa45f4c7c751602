---------------------------- MODULE ByteStream ----------------------------
(***************************************************************************)
(* What the receive side of an interposed AX.25 socket promises to the     *)
(* application that reads it: an ordered byte stream per RHP handle.       *)
(* Bytes come out in the order they were accepted, none is invented,       *)
(* duplicated or skipped, and end-of-file is seen only when the session is *)
(* over and everything accepted has been read.                             *)
(***************************************************************************)
EXTENDS Naturals, Sequences

CONSTANTS Handle,      \* RHP handles
          Byte,        \* octets
          MaxChunk     \* the most bytes one message hands over

VARIABLES accepted,    \* accepted[h]: bytes the stream has taken charge of
          received,    \* received[h]: bytes the application has read
          over,        \* over: handles whose session has ended at the far side
          atEof        \* atEof: handles whose reader has been told end-of-file

vars == <<accepted, received, over, atEof>>

Init ==
    /\ accepted = [h \in Handle |-> <<>>]
    /\ received = [h \in Handle |-> <<>>]
    /\ over = {}
    /\ atEof = {}

\* The far side hands over more bytes; a session that is over has none.
Accept(h) ==
    /\ h \notin over
    /\ \E n \in 1..MaxChunk : \E data \in [1..n -> Byte] :
          accepted' = [accepted EXCEPT ![h] = @ \o data]
    /\ UNCHANGED <<received, over, atEof>>

\* The application reads the next bytes, exactly those that come next.
Receive(h) ==
    /\ \E n \in 1..(Len(accepted[h]) - Len(received[h])) :
          received' = [received EXCEPT
             ![h] = @ \o SubSeq(accepted[h], Len(@) + 1, Len(@) + n)]
    /\ UNCHANGED <<accepted, over, atEof>>

\* Sessions end: one of them, or all when the transport goes.
End ==
    /\ \E S \in SUBSET Handle : over' = over \cup S
    /\ UNCHANGED <<accepted, received, atEof>>

\* End-of-file only after the last byte.
Eof(h) ==
    /\ h \in over
    /\ received[h] = accepted[h]
    /\ atEof' = atEof \cup {h}
    /\ UNCHANGED <<accepted, received, over>>

Next ==
    \/ \E h \in Handle : Accept(h) \/ Receive(h) \/ Eof(h)
    \/ End

Spec == Init /\ [][Next]_vars
===========================================================================
