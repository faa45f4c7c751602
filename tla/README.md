# pdn-libax25: TLA+ models, checks and proofs

pdn-libax25 lets unmodified AX.25 programs run without the kernel's AF_AX25
stack. An `LD_PRELOAD` interposer (`crates/ax25-interpose`) backs every AX.25
socket with a socketpair and translates socket calls into requests to an RHPv2
engine; `crates/rhpv2` is the client for that engine; `crates/libax25` holds
address and configuration helpers.

The hard part is what happens between threads. One process has any number of
application threads inside interposed calls, one RHP reader thread that
dispatches replies and pushes, one flusher thread for inbound bytes and one
poller thread for outbound bytes that bypassed the interposer. They share mutexes,
condition variables, the pending map, three registries and the descriptors. Most of
this directory models that part; the sequential conversions of both libraries are
modelled as operators, checked over bounded inputs and proved for texts, files and
messages of any length.

## Inventory

| Component | State | Operations | What makes it correct |
|---|---|---|---|
| Receive pump (`state.rs` `RecvPump`) | entry per handle: backlog, eof, eof_done; early bytes; socketpair | push, mark_eof, shutdown_all, register, unregister, drain_pass, flusher_loop | bytes in order, lost only past `EARLY_STAGE_CAP`; EOF after the bytes; no lost wakeup; no write to a closed descriptor; a stalled session stalls nobody else |
| Accept registry (`client.rs` `AcceptRegistry`) | queue of children per listener, one condition variable | push, wait_accept, try_accept, forget | each child once, in order; nobody sleeps on next to a child; accept() ends with the transport |
| Datagram pump (`state.rs` `DgramPump`) | queue, signaled, eof; readiness byte in the socketpair | push, recv_one, raise, shutdown_all, register, unregister | the byte mirrors the queue; order; readers wake |
| Requests (`client.rs` `request`, `framing.rs`) | pending map, next_id, writer mutex | request, reader_loop's matching and clean-up | own reply only; no leaked entry; whole frames; a request returns |
| Outbound connect (`lib.rs` connect, `client.rs` `ConnRegistry`, `state.rs` connect gates) | phase per handle, gates, filler in the pipe | connect, wait_connected, resolve_connect_gate, SO_ERROR, close | truthful results; not writable while connecting; released by the outcome; filler never sent |
| Outbound pump (`state.rs` `OutboundPump`) | registered inner fds, serializer per handle | register, unregister, send_ordered, flush, outbound_loop | order of bypassed and interposed writes; bypassed bytes are forwarded |
| Shared client (`state.rs` ensure_client) | the current client, reader threads of all sessions | ensure_client, the end of a session | descriptors of a lost client are not confused with the new one's |
| Descriptor table and set-up (`lib.rs` socket, bind, listen, ensure_dgram_handle) | `FdState` per fd | socket, bind, listen, connect, accept, close | one engine handle per descriptor, none leaked; the pumps' entries are those of the table |
| Callsigns (`libax25` `addr.rs`, the interposer's `addr.rs`, `stubs.rs`) | the caller's sockaddr | aton_entry, aton, ntoa, cmp, read_call, read_digipeaters, write_call, write_sockname, rose_* | round trips; two copies that agree; the path written is the path read |
| axports and get_call (`config.rs`) | ports, calls, the environment's callsign | load_ports, get_next, look-ups, get_call | no line lost, a walk that ends, pointers that stay good |
| Payloads (`codec.rs`, `messages.rs`, `errors.rs`, `framing.rs`, chunking, PID octet) | none | sendto, recvfrom, send, reading of replies and pushes | datagrams arrive as sent, frames fit, failures are reported |

The components meet in three places. The reader thread calls the registries and
then the sink (`dispatch_push`), one frame at a time. Application threads hold one
lock at a time and never while blocked in a request. At the end of the transport
the reader walks a fixed sequence: `closed`, the pending map, the connect phases,
the accept waiters, `on_disconnect`. Application threads run between any two of
these steps, and most of what was found lies there.

## Modules

| Module | Models | Used by |
|---|---|---|
| `ByteStream` | abstract: bytes accepted in order, received in order, EOF after the last | refined by `RecvPump` |
| `RecvPump` | the receive pump, its flusher, the socketpair, the application's read and close | `MCRecvPump`, `RecvPumpProofs` |
| `MCRecvPump` | `RecvPump` with one session in depth beside one that stalls | |
| `AcceptQueue` | the accept registry and accept() | `AcceptQueueProofs` |
| `DgramPump` | the datagram pump and the receive path of a datagram socket | `DgramPumpProofs` |
| `RhpRequest` | request(), the writer mutex, framing, the reader's reply matching | `RhpRequestProofs` |
| `AxConnect` | connect() both ways, gates, SO_ERROR, close(), the reader's status, close and disconnect | `AxConnectProofs` |
| `OutboundPump` | the outbound pump's thread, the serializer, interposed and bypassed writes, the chunks of client.send | `OutboundPumpProofs` |
| `FdTable` | the descriptor table, the calls that obtain, use and release engine handles, client replacement | `MCFdTable`, `FdTableProofs` |
| `MCFdTable` | `FdTable` with its symmetry | |
| `Callsign` | operators: both copies of the callsign conversion, paths, ROSE addresses | `Libax25` |
| `Libax25` | an application's calls of libax25: addresses, the ports table, get_call | `MCConversions`, `ConversionsProofs` |
| `Wire` | data field, chunks, PID octet, fields of replies and pushes | `MCConversions`, `ConversionsProofs` |
| `MCConversions` | `Libax25` and `Wire` side by side, with small inputs | |

An action is one stretch of code under one lock, or one system call that other
threads can get in front of. Operations that take several locks in turn are
several actions with a program counter (`pc`, `fl`, `rd`).

**RecvPump.** `live`, `buf`, `eof`, `eofDone` are the entries of
`PumpState.handles`, `early` its staging area, `pipe` and `wrShut` the socketpair.
`OnRecv`, `OnClose`, `OnDisconnect` are the sink's callbacks; `Register`,
`Unregister`, `CloseFds` the owner's calls; `FlusherCheck`, `Drain...`,
`PollReturns` the flusher. A drain pass holds the mutex (`Unlocked` is false)
while it visits the entries in any order, one write at a time, so that the
application can read between two writes as it can in the code. `nb_write`
takes any non-empty prefix that fits. `LoseAppEnd` is the application's end
going away past the interposer (a raw `close` or `shutdown`), which makes writes
fail. `before` and `after` (what came before and after `register()`), `kept`, `got` and
`sawEof` are histories.

**AcceptQueue.** `Take`, `FindEmpty`, `TestClosed`, `Park` are the loop of
`wait_accept` under the registry's lock; `Expire` and `TakeLate` its timer.
`Push` queues a child under the lock and `WakeWaiters` notifies after it was
released; between the two a thread does sleep beside a child. `SetClosed` and
`WakeAccepts` are two steps of the reader that do not take that lock, as in the code.

**DgramPump.** Every operation of the pump is one step under its mutex, and
handles share nothing else, so one socket with several threads is modelled.
Threads call `recvfrom` and park in `poll` on the readiness byte, or poll first.
`LoseAppEnd` is the application's end going away past the interposer; `raise` then
fails and leaves `signaled` unset.

**RhpRequest.** A request carries its serial number, a history value, so that a
reply to an older request with the same id could be told apart. The engine
(external) answers in any order, late or never. `write_frame`'s two writes are
two steps and can fail at either; `TooLarge` fails before the first. A write may also
block: the stream has no write timeout, and the caller keeps the writer mutex.

**AxConnect.** A handle is one connect(): the engine's handle, the descriptor
and the thread using it. `MapFree` is the `ConnRegistry` mutex, held by a thread
between its look at `closed` and its wait. `arm_connect_gate` fills, then
inserts; `resolve_connect_gate` removes, drains, registers: each a step, on the
reader or the connecting thread. Registering with the receive pump is left to
`RecvPump`. Once the transport is lost, `ensure_client` in `getsockopt` returns
another client or none; neither knows the handle, so SO_ERROR reads 0. `CloseTimeout`
is a close request the engine does not answer within `request`'s 30 s.

**OutboundPump.** Each handle has one application thread; a byte is numbered by
its turn in that thread's writes, so an order is right when it increases.
`Bypass` is stdio's write into the socketpair, `Write` ... `Return` an interposed
write, `Snapshot` ... `PassDone` the loop of the pump's thread. `Lock`, `Recv`,
`RecvNothing`, `SendChunk`, `SendFails` are `drain_locked` and `client.send`, run by
either under the handle's serializer. `HalfClose` is the application's end shut for
writing, or closed, past the interposer: end-of-file for the pump. `InFlight` lists a session's bytes from the
engine back to the application. `GateOpens`, `GateDrained`, `Register` are the end
of a non-blocking connect; bytes written before `Register` are `early`, and the
properties leave them out: `resolve_connect_gate` makes the descriptor writable
before it registers it, so stdio's bytes may be drained as filler or overtaken.
A call that fails before it reaches the pump (no handle, no client) changes
nothing and is no step.

**FdTable.** `tab` is the descriptor table, `client` the session of the cached
client, `rd` the reader thread of every session, `recvReg`, `dgReg` and `outReg` the
three pumps' entries and `gates` the connect gates, by handle number; `engine`, `given`,
`listening`, `queue` are the engine's side and the accept registry of each session. A
call is a sequence of steps of its thread (`pc`, `me`): `Bind` ... `Close` begin one,
`Look` is `ensure_dgram_handle`'s first lock, `SocketReq` ... `ListenFails` the requests
with their failures, `StoreStream` and `StoreDgram` the second lock, `Register` the
receive or the datagram pump. `LinkUp`, `LinkFails` and `ArmGate` end a connect() or an
accept(); `ResolveGate` and `ResolveDone` are `resolve_connect_gate`, on whatever thread.
`Destroy` is the removal from the table, `Unregister` that from the pumps and the gates.
The outbound pump registers with `or_insert_with` (`OrInsert`), the others with `insert`
(`Insert`). `ensure_client` and the request after it are one step (`Ensured`): a session
that ends in between makes the request fail, which it may do anyway. `Shut` is
`on_disconnect`, which releases the gates of every session; the end-of-file marks it
leaves on the pumps' entries are `RecvPump`'s and `DgramPump`'s subject and not kept
here. The session in an entry, and `dropped`, `raced`, `clobbered`, `stolen`, `linked`,
`gated` are histories. The first four name ways in which the code does lose or mix up a
handle, and the properties show that there is no other; `linked` holds the handles the
outbound pump took, `gated` the descriptors of non-blocking connects. `raced` and
`gated` hold descriptors, the others pairs of a session and a handle number, so that an
exception granted to one session's handle 1 does not excuse the next session's.

**Callsign, Libax25.** Texts are sequences of ASCII codes, spelled out because the
quirks are in single characters (the skipped one, the sign, the second digit). `EncodeEntry` and `ScanInt`
are libax25's conversion with its quirks (the character after six is skipped whatever
it is; the number is cut to its width), `Encode` and `ParseU8` the interposer's. In
`Libax25` the conversions are calls of an application (`AtonEntry`, `Aton` into a
sockaddr with older contents), the ports table is loaded and walked while the files
change (`LoadPorts`, `GetNext`), and `GetCall` answers from the environment,
`ax25_calls` and the first port. `IsCallsign` and `Canonical` are the reference: the
grammar of a callsign and its printed form.

**Wire.** `Sendto` and `Recvfrom` carry a datagram from one socket to another through
`ToWire` and `FromWire`; `SendtoLarge` and `Send` are about lengths, with the real
limits 65535 and 8100 and the bytes serde_json writes for each character
(`JsonBytes`). A reply or push is a function from the keys present to integers or
junk, so both spellings, missing keys and wrong types are covered.

## Runs

`FdTable_handles` takes about two minutes, each other run less than one. Deadlock checking is off everywhere: the engine
may go silent, the application may stop, and every history is bounded, so all
models may come to rest.

| Run | Bounds | Shows |
|---|---|---|
| `RecvPump_session` | 2 sessions: 3 numbered bytes in chunks of up to 2, pipe and staging of 1; beside it 2 bytes for an application that never reads | what comes out, is in flight and is lost (`BytesKept`), EOF after bytes (`EofOrderly`), no entry without descriptors (`LiveFdsOpen`), no lost wakeup (`SleepsOnlyIdle`), refinement of `ByteStream` (`StreamSpec`), delivery beside the stalled session (`NoHeadOfLineBlocking`), a noted end is seen (`NotedEofSeen`) |
| `AcceptQueue_children` | 2 listeners, 2 threads, 2 children each | `EachChildOnce`, `SleepersAreWoken`, `ChildAccepted` |
| `DgramPump_socket` | 2 threads, 5 datagrams, queue of 2 | `Readiness`, `DgramOrder`, `ParkedThreadWakes` |
| `RhpRequest_replies` | 2 callers, 3 requests | `OwnReply`, `PendingExact`, `FramesWhole`, `RequestReturns` |
| `OutboundPump_order` | 1 session, 3 bytes, pipe of 3, buffer of 2, chunks of 1 | `TypeOK`, `SessionOrder`, `LossReported` (a byte is lost only by a failed send or a close, and one reported as written is with the engine), `BypassForwarded` |
| `AxConnect_outcome` | 1 connect | `ConnectTruth`, `GateHolds`, `FillerPrivate`, `ConnectEnds` (a known outcome releases the gate and wakes a blocking connect) |
| `FdTable_handles` | 2 threads, 2 descriptors, 2 sessions of 2 handles, 3 calls besides socket() and the bind() of a stream | `HandlesDistinct`, `EntriesMatch` (the three pumps and the table), `EngineMatches` (the engine and the table, both ways) |
| `Conversions_calls` | all texts of up to 5 characters of 8, callsigns of 2 characters, 6-bit integers, paths of up to 4 tokens with 2 digipeaters, 14 port files, every message over 4 keys and 5 values | `RoundTrips` (both copies of the callsign conversion, and ROSE), `PathKept`, `PortsFound` (by walking, by name, callsign and address), `PointersValid`, `UiDelivered`, `FramesFit`; `RoundTrips` and `PortsFound` with the exceptions listed below |

A property that is a conjunction has named parts, each with its own comment in the
module; the text below cites parts where it matters which. The type invariants of
`RecvPump`, `AcceptQueue`, `DgramPump`, `RhpRequest`, `AxConnect` and `FdTable` are
theorems and are not repeated by the runs. How the fields of replies and pushes are read
(`Wire.Reply`, `Wire.Push`) is modelled, and no property is claimed of it: what could be
said repeats the code.

The bounds are the smallest that make each boundary reachable from both sides:
staging and pipe overflow with bytes on both sides of the cut, a backlog behind a
full pipe, a bufferful of several chunks and a pipe of several bufferfuls, a datagram queue that is full and drains, two threads competing for one
child or woken by a child of the other's listener, a reply that arrives after its
caller moved on to a next request. Bytes, children and datagrams are numbered, so that
a swap or a gap shows. In `RecvPump_session` one session overflows its staging area and
its pipe before and after `register()` while the other's pipe stays full. One connect is enough for
`AxConnect_outcome`: handles share only the registry's mutex and the reader, and
its invariants are proved for any number of them. In `FdTable_handles` two
descriptors of two sessions get the same number, two threads compete for one
datagram socket, and three calls are enough for a handle to be obtained, its session
replaced and the stale descriptor closed over the new one. The alphabet of
`Conversions_calls` has a letter of each case, digits that make SSIDs on both sides of
15 and of the integer's width, both signs and a blank.

### Where code and comments part

Four runs state what a comment or test says and show a behaviour of the code that
does not do it.

| Run | Behaviour |
|---|---|
| `AcceptQueue_disconnect` | `wait_accept` reads `closed` as false; the reader stores `closed` and calls `notify_all` without the registry's lock; `wait_accept` then waits, for ever. (`wait_connected` does not have this window, because `fail_all_pending` takes the lock: `WaitEnds`.) |
| `DgramPump_disconnect` | The transport drops while datagrams are queued. The signal is already raised, so `shutdown_all` adds none, and `recv_one` consumes it with the last datagram. A thread that polls or selects after that waits for ever although `eof` is set; a recvfrom would return 0 at once. `on_disconnect` says "so blocked reads/selects return". |
| `AxConnect_refusal` | The engine answers the open and refuses at once. The reader handles the close push before `open_connect` reaches `set_pending`: `mark_failed` finds no entry, `resolve_connect_gate` no gate. The connect then arms its gate and nothing releases it. |
| `OutboundPump_spin` | The application shuts its end for writing, or closes it past the interposer. The end-of-file keeps poll ready, `recv` returns 0, the entry stays, and the pump's thread goes round for ever. "POLLIN clears once drained, so this never busy-spins" (`state.rs` 533) is about bytes only. |

Further behaviours follow from the same models and are not runs of their
own. Where a comment of the code says otherwise it is quoted.

Sessions and connects. A close push, or the loss of the transport, between the open reply and
`register()` is not noted: `mark_eof` and `shutdown_all` find no entry, `register()`
starts with `eof: false`, and the reader sees no EOF. When the application closes a
descriptor whose gate the reader has removed and is draining, the reader then
registers the closed, reusable descriptor with the outbound pump. What comes before
registration beyond `EARLY_STAGE_CAP` bytes is dropped (`LossExact`). A connect that
sets its phase after `fail_all_pending` and arms its gate after `on_disconnect`'s
snapshot is not released. SO_ERROR is 0 for a connect that was pending when the transport
dropped, and for a refusal that overtook `set_pending` but found the gate armed, where
`lib.rs` 422-425 promise "0 on success" (`ConnectTruth` names the two). A request
entered after `pending.clear()` whose write still succeeds waits for its 30 s
timer. A request whose `write_all` blocks because the engine has stopped reading
(`client.rs` 343) has no timer at all, nor have the callers behind it on the writer mutex
(`RequestReturns` has the condition). Bytes that stdio wrote just
before `close()` are lost when the pump has not drained them, unlike those of an
interposed write (`LossNeedsFailure` excludes closed descriptors), and `drain_locked`
ignores a failed send, so that bytes that went past the interposer are lost unreported.
The outbound thread also spins while an entry has outlived its descriptor, and while bytes
wait and no client can be had.

Handles (`FdTable`; each is an exception that one of its properties names). `listen()`
leaves the engine's handle open when bind or listen is refused; a second `listen()` or
`connect()` on a descriptor overwrites its handle without closing it; a child is left
open when `accept()` finds no free descriptor and when its listener is closed first;
a `close()` that overtakes a connect leaves the new handle without an owner. After the
client was replaced, `close()` of a descriptor of the old session sends its number to the new
engine session and removes the pumps' entries under that number, which may be a live
descriptor's. The outbound pump's `register` keeps an older entry: as long as a descriptor
of the old session is open, the new session's bytes under the same number that bypass the
interposer are not forwarded (`LinkUp`). The old reader's `on_disconnect`, if it comes after the
replacement, and the end of a client whose log-in failed mark every entry of
the pumps as ended; `FdTable` does not keep these marks. `bind()` of a datagram socket that
already has a handle succeeds and never reaches the engine, although `lib.rs` 101-104 say
that a datagram socket is bound there and then.

Conversions. `encode_entry` "returns `None` on an invalid symbol or out-of-range SSID"
(`addr.rs` 50-52), yet it takes what sscanf takes: `CALL-4294967297` as SSID 1, text after
the digits, a sign, blanks, and any character after six in place of the dash
(`SscanfSays` lists them). A text with six letters or digits and then a character of
several bytes makes it panic, because it slices the text at a byte (`addr.rs` 85); texts in
the model are ASCII and do not reach this. A port whose name reads as the callsign of an
earlier port sends `ax25_config_get_next` back to that one, and the walk repeats
(`Ambiguous`). The stripping of "-0" in axports, described at `config.rs` 29 and 72 as of a
trailing one, also cuts `-05`, so that the port is taken for the call without an SSID
(`LeadingZero`). `get_call` promises the first axports callsign and "NULL only if no mapping
can be resolved at all" (`config.rs` 404-411), but never loads axports: before
`ax25_config_load_ports` it returns NULL for a user without an entry (`FirstPort`).
`AX25_CALLSIGN` is handed out unchecked, and `AX25_SRC_CALL` is sent unchecked, however long
it is (`SendtoEnvelope`). A status push with only an error code is read as flags, and the
codes 3, 6, 7, 14 and 15 read as a link that is up (`StatusFlags`). `recvfrom` returns 0 both
at end-of-file and for a datagram without information (`UiDelivered`).

## Fairness

Safety runs assume none. Liveness assumes what the code's threads do:

* the flusher keeps running, and `register()` gets the pump's mutex (strong
  fairness: the flusher releases it after each pass and then sleeps);
* the application keeps reading where the property is about delivery to it, and
  only those named `Attentive`: the other session of `RecvPump_session` never reads;
* threads inside `wait_accept`, `recvfrom`, `request`, `connect` and `close` take
  their next step when they can; accept() is called again where `ChildAccepted`
  needs a taker, and the reader notifies after each push;
* a caller that waits for the writer mutex gets it if it is free again and again
  (strong fairness). Nothing is assumed of the writes themselves: they may block for ever,
  and `RequestReturns` says so;
* the outbound thread runs, and a send ends with an answer, an error or the timeout; here
  a blocked write is left out.
  Its mutexes are not assumed fair: with several sessions one that writes without
  pause may keep the thread waiting for its serializer, so `BypassForwarded` is
  checked for one, whose own writes drain its socketpair;
* the reader finishes what it began with a frame or at the end of the transport.

Nothing is assumed of the order or arrival of the engine's replies and pushes, of timers other than `request`'s own (a caller in `recv_timeout` gets a
reply, an error or the timeout), or of the network.

## Proofs

TLAPS proves, for all values of the constants (any sets of handles, threads,
listeners, callers, descriptors, sessions; any capacities; any number of bytes,
requests and calls):

* `RecvPumpProofs`: `TypeCorrect`, `NoLostWakeup`, `NoStaleDescriptor`, `OrderlyEof`,
  `BytesKeptHolds`, `PumpImplementsStream`. Two invariants.
  `Control` (types, `LiveFdsOpen`, `SleepsOnlyIdle`, `EofOrderly`) is inductive by
  itself. `Data` (`InFlight`, `LossExact`, and that nothing came
  after a registration that has not happened) is inductive relative to it. Each
  action moves a prefix of one stage to the end of the next, so the step proofs
  rest on lemmas about cutting and moving sequences. The refinement uses both: a
  push is an `Accept` of what was taken, a read is a `Receive` of the next bytes,
  `ReadEof` is an `Eof` because no byte is left in any stage, and the rest stutters.
* `AcceptQueueProofs`: `AcceptTypeCorrect`, `ChildrenOnce`, `NoSleeperMissesChild`.
  The conjunction is inductive: `pc` values after the look into the queue imply
  that it is empty, the lock keeps a push out of the window between look and sleep, and
  a push leaves its notification due, which wakes all of them that are asleep.
* `DgramPumpProofs`: `DgramTypeCorrect`, `ReadinessHolds`, `DgramOrderHolds`.
  Strengthened by `Fresh` (registered exactly while the descriptor is open, and
  nothing happened before), which makes `Readiness` true at registration. The cap of the
  queue is part of `DgramOrder`.
* `RhpRequestProofs`: `RequestTypeCorrect`, `RepliesMatch`, `PendingExactHolds`,
  `WireWhole`. The strengthening says that an id equals its
  serial number and is never reused (`Ids`, `Distinct`, `Engine`), that a channel is
  empty or holds its caller's reply (`Channels`), and that a sender stays in the
  map until one of the two ends of the wait (`Senders`). `WireWhole` needs the
  writer mutex (`Mutex`) and what the last half on the wire is (`LastHalf`).
* `AxConnectProofs`: `ConnectTypeCorrect`, `FillerNeverForwarded`, `GateHeld`,
  `ReportsTrue`. `GateInv` says who may hold the filler: the connecting thread before
  it armed the gate, the gate, or whoever removed it and has not drained yet
  (`Owners`). `TruthInv` ties the phases, the results and the release of the gate to
  what the engine did (`Links`, `Phases`, `Reports`, `Releases`).

* `OutboundPumpProofs`: `OutboundTypes`, `OutboundOrder`, `OutboundLoss`. The invariant
  has a part about the threads and one per session. `Control` says that whoever drains
  a session holds its serializer and nobody else does (`Serializers`), that a thread has
  bytes in its hand only inside client.send (`EmptyHands`), that nothing is registered
  before its gate is gone (`Gates`) and that the pump polls with no flush left to do
  (`Rested`). `Stages(h)` follows the bytes of one session on the way to the engine: a
  call sends its own buffer once the socketpair is empty (`OwnBuffer`); nothing is sent
  that was not written (`Written`); the bytes sent, those in the hand of the pump or of
  the call, those in the socketpair and those of the call's buffer ascend within each
  stage and from one to the next (`Ordered`); each byte written is in one of them, or a
  send failed or the descriptor is closed (`Accounted`); a byte reported as written is
  sent, and older than all in the socketpair (`Acked`). `SessionOrder` alone
  is not inductive: it says nothing of the bytes still in the hands of a thread, and
  only the serializer keeps two threads from having some at once. Bytes written before `Register` are exempt, as in the property. The
  step proofs rest on lemmas about cutting, joining and moving ascending sequences.
* `FdTableProofs`: `FdTypes`, `FdHandles`, `FdEntries`, `FdEngine`, all from one inductive
  invariant (`FdInductive`), `CoreInv` about the table, the engine and the receive and
  datagram pumps, and `LinkInv` about the outbound pump and the gates on top of it:
  - `Threads` says what each step of a call may be part of and has in hand, `Rows`,
    `Entries` and `Sessions` that handles, entries and sessions belong together: what is
    closed has nothing at the engine, and only the client's session gives out handles;
  - `Exclusive` is what `HandlesDistinct` needs to be inductive: a handle of a session is
    in one row, or in one call that has not stored it, or in one queue. A new number is
    one nobody has; storing, accepting and discarding hand it on;
  - `Races` says what a close() relies on: it works on the handle that is in the row,
    or the descriptor is marked in `raced`;
  - `Held` and `ClosesDone` carry the engine's side through the requests of a call, so
    that `EngineKeeps` holds when the handle is stored and `OnlyKnownLeaks` when a row
    is closed;
  - `Registered` is `LiveIsRegistered` for calls still on their way to `Register`;
  - `LinkInv` says whose an outbound entry or a gate is: its descriptor's own handle, a
    descriptor that is open or closing, or one of a non-blocking connect (`LinkEntries`,
    `GatedEntries`, `OutOpen`), and that the pump keeps what it took (`Linked`).

  The proof goes in layers. Each of the actions is reduced to what it does field by
  field. Every step is then of one of a few kinds (`Kinds`): about half of the actions
  are quiet, they start, fail or end a call, change neither the table nor the pumps and
  report what they drop. From the kinds follows what may become of a thread, a row and a
  handle at the engine (`ThreadFate`, `RowFate`, `EngineStep`), and each part of the
  invariant is proved from these rather than action by action.
* `ConversionsProofs`, about the calls of an application (`Spec` of `Libax25`):
  `AddressesRoundTrip`, `PathAlwaysKept`, `PortsAlwaysFound`, `PointersStayValid`;
  and about the messages (`WireSpec`): `DatagramsDelivered`,
  `FramesAlwaysFit`. They hold for every ASCII text, path, file and
  message, of any length, and for every size of a callsign, a path, an integer, a ROSE
  address, a chunk and a frame. Each step of the run's specification `ConvSpec` is a
  step of one of the two that leaves the other's variables alone, so they apply to it.
  - `TablesInv`: the table holds what `load_ports` can make of a file. Every callsign in
    it is usable, upper case and without "-0" (`KeptCall`), and no two ports share a name
    or a callsign. The look-ups rest on it.
  - `WalkInv`: the names returned so far are those of the first ports, unless a name
    reads as an earlier callsign. `PortsFound` follows from both.
  - `PointersInv` is `PointersValid` and that the copied callsign of the environment is
    not empty once it was handed out. A table or copy that is not empty is never
    replaced.
  - `PathInv`: the sockaddr holds addresses, whatever the earlier calls left there.
    `fill_sax` is followed token by token (`FilledTo`).
  - `EntryInv`: the buffer holds what the last text encodes to. Everything else about
    the conversions is a fact about operators. An address is a stem and an SSID
    (`Addr`, `EncodeParts`); it is printed as `Written` (`DecodeAddr`), which is a
    callsign with the same stem and SSID (`WrittenIsCallsign`); and both copies of the
    conversion make that address of it (`CallsignParts`). Two texts that differ in
    letter case, or in a final "-0", encode alike (`EncodeExtends`); "-0" matters
    because `load_ports` cuts it off.

  The operators recur over sequences (`Value`, `Without`, `FillSax`, `ParseAxports`). The provers cannot use the library's induction theorems, which take a
  formula as a parameter, so the module derives what it needs for sets: a least element
  of every set of naturals (from `WFMin`), induction over an interval
  (`IntervalInduction`), the existence of a function defined by recursion over an
  interval (`RecursionExists`), and from it one lemma per recursive operator that
  unfolds it (`ValueRecursion`, `WithoutRecursion`, `FillSaxRecursion`,
  `AxportsRecursion`).

Assumptions on constants: `MaxChunk`, `MaxBytes`, `MaxChildren`, `MaxDgrams`,
`MaxRequests`, `MaxGen`, `MaxHandle`, `MaxCalls` are naturals, the capacities are
positive where the code's are, and the sets of handles, threads and descriptors
do not contain the values that stand for "none" and "free". Of the conversions
(`SizesAssumption`, `InputsAssumption`, `WireAssumption`): texts are sequences of ASCII
codes and a line of axports has a name, because it is split at blanks; an integer has at
least the 5 bits an SSID needs with its sign; and a full chunk of characters that take six
bytes each, with the PID octet and the longest envelope, fits into a frame, as
184 + 6 * 8101 <= 65535 does in the code.

Every inductive invariant of the modules about threads was checked by TLC on the bounds
of its run before it was proved, and its parts are operators of the proof modules that a
run can name. Those of `ConversionsProofs` quantify over all texts, which TLC cannot
enumerate; the properties they imply are checked by `Conversions_calls`.

Every invariant of the runs, and the refinement, is stated by a theorem. Only
model-checked are the liveness properties (`NoHeadOfLineBlocking`,
`NotedEofSeen`, `ChildAccepted`, `ParkedThreadWakes`, `RequestReturns`, `BypassForwarded`,
`ConnectEnds`), because TLAPS does not handle fairness, and the four violations, which
are single behaviours.

## Abstractions

* In the modules about threads payloads are octets from a small set, datagrams and
  children numbers; callsigns and JSON are only in `Callsign`, `Libax25` and `Wire`.
* The engine numbers the handles of a session from 1 and does not reuse them within it;
  sessions start afresh. Close pushes of the peer are in `RecvPump` and
  `AxConnect`, not in `FdTable`.
* A descriptor stands for one use of its number: the kernel's reuse of closed numbers is
  left out, the reuse of handle numbers by sessions is not.
* `mark_connected`, `mark_failed` and `fail_all_pending` unlock the registry and then
  notify; `AxConnect` does both in one step. Its waiters test their phase under the lock
  before they sleep, so the step between the two only delays a waiter.
* `destroy_ax25_fd` takes the locks of the three pumps and of the gates one after the
  other; `FdTable` removes the four entries in one step.
* Texts are ASCII. A line of axports is given by its fields, a number by its value
  or as not parsable.
* Mutexes are held for one action unless a variable says otherwise; condition
  variables wake all waiters on `notify_all`. Spurious wakeups are left out: every
  waiter tests its condition again when it wakes.
* `closed` is a sequentially consistent atomic in the code and a variable here.
* 64-bit ids do not wrap.

## Not modelled

Left out: `real.rs` (libc lookups), the stubs of `libax25` that return a
constant, the request shapes of `messages.rs` (serde derivations), the samples and
packaging, the SOL_AX25 options other than AX25_PIDINCL (one store and one load each).
