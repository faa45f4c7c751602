-------------------------------- MODULE Wire --------------------------------
(***************************************************************************)
(* What goes over the transport: the Latin-1 data field with its JSON      *)
(* escapes and the frame limit, UI payloads with their PID octet, and how  *)
(* the loosely parsed fields of replies and pushes are read                *)
(* (crates/rhpv2/src codec.rs, messages.rs, errors.rs, framing.rs and      *)
(* client.rs; ax25_dgram_send and ax25_dgram_recv in the interposer).      *)
(***************************************************************************)
EXTENDS Integers, Sequences, FiniteSets

CONSTANTS
    MaxFrame,      \* bytes of a frame's body (65535)
    MaxSendChunk,  \* data characters of one send (8100)
    Apps,          \* datagrams the application sends: sequences of octets
    Rooms,         \* sizes of a receive buffer
    Sizes,         \* lengths of larger writes
    Fields         \* JSON values a reply or a push may carry

\* The largest request around the data: ids and handles of 20 digits, and in a
\* sendto two callsigns of six escaped characters and an SSID.  The code does not
\* check that the text of AX25_SRC_CALL, which stands in for the local callsign
\* of an unbound socket, is one: a longer text leaves less room for the data.
SendEnvelope == 81
SendtoEnvelope == 184

\* A full chunk of characters that take six bytes each, and the PID octet, fit
\* into a frame.
ASSUME WireAssumption ==
    /\ MaxSendChunk \in Nat \ {0} /\ MaxFrame \in Nat
    /\ SendtoEnvelope + 6 * (MaxSendChunk + 1) <= MaxFrame
    /\ Apps \subseteq Seq(0..255) /\ Rooms \subseteq Nat /\ Sizes \subseteq Nat
    /\ Fields \subseteq Int

VARIABLES
    wcall,   \* the last call or message: "none", or a record with its op
    out      \* what came of it

wireVars == <<wcall, out>>

WireInit == wcall = [op |-> "none"] /\ out = <<>>

PidNoL3 == 240

\* Bytes serde_json writes for one Latin-1 character: short escapes, \u00XX
\* for other controls, two bytes of UTF-8 above 0x7F.
JsonBytes(c) ==
    CASE c \in {8, 9, 10, 12, 13, 34, 92} -> 2
      [] c < 32 /\ c \notin {8, 9, 10, 12, 13} -> 6
      [] c >= 128 -> 2
      [] OTHER -> 1

\* The characters of the data field, and the octets read from one: low bytes.
ToWire(octets) == octets
FromWire(chars) == [i \in DOMAIN chars |-> chars[i] % 256]

Fits(bytes) == bytes <= MaxFrame

---------------------------------------------------------------------------
(* Datagrams.                                                              *)

Refused == <<>>    \* EINVAL, nothing is sent

\* With AX25_PIDINCL the buffer starts with the PID already.
WithPid(app, pidincl) == IF pidincl THEN app ELSE <<PidNoL3>> \o app

Sendto(app, pidincl) ==
    /\ wcall' = [op |-> "sendto", app |-> app, pidincl |-> pidincl]
    /\ out' = IF WithPid(app, pidincl) = <<>> THEN Refused ELSE ToWire(WithPid(app, pidincl))

StripAlways(data, pidincl) == IF data = <<>> THEN data ELSE Tail(data)
WithoutPid(data, pidincl) == IF pidincl \/ data = <<>> THEN data ELSE Tail(data)

\* The engine delivers the payload to another station's socket.
Recvfrom(pidincl, room) ==
    /\ wcall.op = "sendto" /\ out # Refused
    /\ wcall' = [op |-> "recvfrom", app |-> wcall.app, sent |-> wcall.pidincl,
                pidincl |-> pidincl, room |-> room]
    /\ LET payload == WithoutPid(FromWire(out), pidincl)
       IN out' = SubSeq(payload, 1, IF Len(payload) <= room THEN Len(payload) ELSE room)

\* sendto of n equal octets in one request: too large a frame is an error.
SendtoLarge(n, c) ==
    /\ wcall' = [op |-> "large", n |-> n, c |-> c]
    /\ out' = IF Fits(SendtoEnvelope + JsonBytes(PidNoL3) + n * JsonBytes(c)) THEN <<n>> ELSE <<>>

---------------------------------------------------------------------------
(* Streams: send() cuts the data into chunks, an empty one included.       *)

ChunkUnlimited(n, i) == n
ChunkLen(n, i) == IF i * MaxSendChunk <= n THEN MaxSendChunk ELSE n - (i - 1) * MaxSendChunk

Chunks(n) ==
    IF n = 0 THEN <<0>>
    ELSE [i \in 1..((n + MaxSendChunk - 1) \div MaxSendChunk) |-> ChunkLen(n, i)]

Send(n, c) ==
    /\ wcall' = [op |-> "send", n |-> n, c |-> c]
    /\ out' = Chunks(n)

---------------------------------------------------------------------------
(* Replies and pushes.  A message is a function from the keys it has to    *)
(* integers, or to Junk for another JSON value.                            *)

Junk == -99
Has(msg, key) == key \in DOMAIN msg

\* value.get(a).or_else(value.get(b)).as_i64(): b is looked at only without an a.
Read(msg, a, b, default) ==
    LET v == IF Has(msg, a) THEN msg[a] ELSE IF Has(msg, b) THEN msg[b] ELSE Junk
    IN IF v = Junk THEN default ELSE v

Errcode(msg) == Read(msg, "errCode", "errcode", 0)

\* The flags of a status push.  errCode decides only when neither field is a
\* number, and an error code with bit 1 set (3, 6, 7, 14, 15) then reads as a
\* link that is up.
StatusFlags(msg) == Read(msg, "flags", "status", Errcode(msg))

Connected(flags) == (flags \div 2) % 2 = 1

Errno == [c \in {3, 6, 7, 8, 9, 12, 14, 15, 16, 17} |->
            CASE c = 3 -> "EBADF" [] c = 6 -> "EADDRNOTAVAIL" [] c \in {7, 12} -> "EINVAL"
              [] c = 8 -> "EAFNOSUPPORT" [] c = 9 -> "EADDRINUSE" [] c = 14 -> "EACCES"
              [] c = 15 -> "EHOSTUNREACH" [] c = 16 -> "EOPNOTSUPP" [] c = 17 -> "ENOTCONN"]

ErrcodeToErrno(code) ==
    IF code = 0 THEN "0" ELSE IF code \in DOMAIN Errno THEN Errno[code] ELSE "EIO"

\* check_ok: the text "Ok" overrules the code.
CheckOk(msg, okText) == Errcode(msg) = 0 \/ okText

\* A request's result; socket and open also need the handle.
Reply(msg, okText, needsHandle, hasHandle) ==
    /\ wcall' = [op |-> "reply", msg |-> msg, okText |-> okText, whole |-> needsHandle => hasHandle]
    /\ out' = IF ~CheckOk(msg, okText) THEN ErrcodeToErrno(Errcode(msg))
              ELSE IF needsHandle /\ ~hasHandle THEN ErrcodeToErrno(1) ELSE "0"

\* The reason a close push gives to a pending connect.
CloseErrno(msg) == IF Errcode(msg) = 0 THEN "ECONNREFUSED" ELSE ErrcodeToErrno(Errcode(msg))

\* dispatch_push on a message with a handle.
Push(typ, msg) ==
    /\ wcall' = [op |-> typ, msg |-> msg]
    /\ out' = IF typ = "status" THEN IF Connected(StatusFlags(msg)) THEN "up" ELSE "down"
              ELSE CloseErrno(msg)

Messages == UNION {[keys -> Fields] : keys \in SUBSET {"flags", "status", "errCode", "errcode"}}

WireNext ==
    \/ \E pidincl \in BOOLEAN, room \in Rooms : Recvfrom(pidincl, room)
    \/ /\ wcall.op = "none"
       /\ \/ \E app \in Apps, pidincl \in BOOLEAN : Sendto(app, pidincl)
          \/ \E n \in Sizes, c \in {0, 65, 255} : SendtoLarge(n, c)
          \/ \E n \in Sizes, c \in {0, 65, 255} : Send(n, c)
          \/ \E msg \in Messages, okText, needs, has \in BOOLEAN : Reply(msg, okText, needs, has)
          \/ \E typ \in {"status", "close"}, msg \in Messages : Push(typ, msg)

WireSpec == WireInit /\ [][WireNext]_wireVars

---------------------------------------------------------------------------
\* Every datagram arrives as it was sent, up to the receiver's buffer: the PID
\* octet is seen by whoever asked for it with AX25_PIDINCL and by nobody else.
\* recvfrom returns 0, which also means end-of-file, only for a datagram
\* without information or a buffer without room.
UiDelivered ==
    wcall.op = "recvfrom" =>
        LET info == IF wcall.sent THEN Tail(wcall.app) ELSE wcall.app
            pid == IF wcall.sent THEN wcall.app[1] ELSE PidNoL3
            seen == IF wcall.pidincl THEN <<pid>> \o info ELSE info
        IN /\ out = SubSeq(seen, 1, IF Len(seen) <= wcall.room THEN Len(seen) ELSE wcall.room)
           /\ out = <<>> => wcall.room = 0 \/ (info = <<>> /\ ~wcall.pidincl)

\* A write of any length is cut into frames that fit, whatever the octets
\* escape to, and that add up to it; a datagram is refused as a whole, and
\* none is refused that is no longer than the longest chunk.
FramesFit ==
    /\ wcall.op = "send" =>
          /\ \A i \in DOMAIN out : Fits(SendEnvelope + out[i] * JsonBytes(wcall.c))
          /\ \A i \in 1..(Len(out) - 1) : out[i] = MaxSendChunk
          /\ (Len(out) - 1) * MaxSendChunk + out[Len(out)] = wcall.n
          /\ out[Len(out)] = 0 => wcall.n = 0
    /\ wcall.op = "large" => out # <<>> \/ wcall.n > MaxSendChunk
=============================================================================
