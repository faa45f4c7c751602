------------------------------ MODULE Libax25 ------------------------------
(***************************************************************************)
(* What an application calls in libax25: the address conversions, the      *)
(* axports table and get_call.  The interposer's copy of the conversions   *)
(* stands at the other end: what the application writes into a sockaddr is *)
(* read there, and what the engine reports is written there.               *)
(*                                                                         *)
(* A behaviour uses one half of the library (part), so that the two state  *)
(* spaces add up instead of multiplying.                                   *)
(***************************************************************************)
EXTENDS Callsign

CONSTANTS
    Texts,     \* texts given to ax25_aton_entry, or reported by the engine
    Paths,     \* token sequences given to ax25_aton and ax25_aton_arglist
    Files,     \* contents of axports: sequences of lines
    CallFiles, \* contents of ax25_calls: sequences of [uid, call]
    EnvCalls,  \* values of AX25_CALLSIGN
    Uids,
    MaxCalls,  \* calls of ax25_aton in a behaviour
    MaxEdits   \* changes of the files and the environment while it runs

\* Texts are ASCII: encode_entry slices at a byte and panics on a text whose
\* seventh character takes more than one, after six letters or digits.  A line of axports has a name: it is split at blanks.
Text == Seq(0..127)
PortLine == [fields : Nat, name : Text \ {<<>>}, call : Text,
             baud : Seq(Int), paclen : Seq(Int), window : Seq(Int)]
CallLine == [uid : Seq(Int), call : Text]

ASSUME InputsAssumption ==
    /\ Texts \subseteq Text /\ Paths \subseteq Seq(Text) /\ EnvCalls \subseteq Text
    /\ Files \subseteq Seq(PortLine) /\ CallFiles \subseteq Seq(CallLine)
    /\ MaxCalls \in Nat /\ MaxEdits \in Nat

VARIABLES
    part,     \* "address" or "ports"
    text, address, result,        \* ax25_aton_entry: its argument, buffer and result
    tokens, sax, filled, atons,   \* ax25_aton: its argument, sockaddr, result, and count
    file, callFile, env, edits,   \* axports, ax25_calls and the environment, outside the library
    ports, calls, envCall,        \* its tables
    walk,     \* the names get_next returned so far, from NULL on
    handed    \* pointers returned to the application: table, index and the text behind it

addressVars == <<text, address, result, tokens, sax, filled, atons>>
tableVars == <<ports, calls, envCall>>
outside == <<file, callFile, env, edits>>
vars == <<part, addressVars, outside, tableVars, walk, handed>>

EmptySax == [call |-> NullAddress, ndigis |-> 0, digis |-> [i \in 1..MaxDigis |-> NullAddress]]

Init ==
    /\ part \in {"address", "ports"}
    /\ text = <<>> /\ address = NullAddress /\ result = "none"
    /\ tokens = <<>> /\ sax = EmptySax /\ filled = FALSE /\ atons = 0
    /\ IF part = "ports" THEN file \in Files /\ callFile \in CallFiles /\ env \in EnvCalls
       ELSE file = <<>> /\ callFile = <<>> /\ env = <<>>
    /\ edits = 0
    /\ ports = <<>> /\ calls = <<>> /\ envCall = <<>>
    /\ walk = <<>> /\ handed = {}

---------------------------------------------------------------------------
(* Addresses.                                                              *)

\* Bounds: one ax25_aton_entry in a behaviour, or MaxCalls calls of ax25_aton.
FirstCall == part = "address" /\ result = "none" /\ atons = 0
MoreAtons == part = "address" /\ result = "none" /\ atons < MaxCalls

\* ax25_aton_entry writes the buffer only when it succeeds.
AtonEntry(t) ==
    /\ text' = t
    /\ IF EncodeEntry(t) = NoEntry THEN result' = "error" /\ UNCHANGED address
       ELSE result' = "ok" /\ address' = EncodeEntry(t)
    /\ UNCHANGED <<part, tokens, sax, filled, atons, outside, tableVars, walk, handed>>

Aton(toks) ==
    /\ LET out == FillSax(toks, sax)
       IN filled' = out.ok /\ sax' = out.sax
    /\ tokens' = toks
    /\ atons' = atons + 1
    /\ UNCHANGED <<part, text, address, result, outside, tableVars, walk, handed>>

---------------------------------------------------------------------------
(* axports.  A line is [fields, name, call, baud, paclen, window], with as *)
(* many fields as it has; a number is <<n>>, or <<>> when it does not      *)
(* parse as an i32.                                                        *)

Hash == 35

Parsed(field, default) == IF field = <<>> THEN default ELSE field[1]

\* call.find("-0") and truncate: also in the middle of an SSID.
StripDashZero(s) ==
    LET at == Min({k \in 1..(Len(s) - 1) : s[k] = Dash /\ s[k + 1] = 48} \cup {Len(s) + 1})
    IN SubSeq(s, 1, at - 1)

Duplicate(table, name, call) ==
    \E i \in DOMAIN table : Strupr(table[i].name) = Strupr(name) \/ table[i].call = call

AddPort(table, line) ==
    LET call == StripDashZero(Strupr(line.call))
    IN IF /\ line.name[1] # Hash /\ line.fields = 6
          /\ Parsed(line.baud, -1) >= 0
          /\ Parsed(line.paclen, 0) > 0
          /\ Parsed(line.window, 0) > 0
          /\ EncodeEntry(call) # NoEntry
          /\ ~Duplicate(table, line.name, call)
       THEN Append(table, [line EXCEPT !.call = call])
       ELSE table

ParseAxports(lines) ==
    LET table[n \in 0..Len(lines)] == IF n = 0 THEN <<>> ELSE AddPort(table[n - 1], lines[n])
    IN table[Len(lines)]

LoadedAfresh == ParseAxports(file)

\* What ax25_config_load_ports leaves in the table: a loaded table is kept.
Loaded == IF ports = <<>> THEN ParseAxports(file) ELSE ports

LoadPorts ==
    /\ part = "ports"
    /\ ports' = Loaded
    /\ UNCHANGED <<part, addressVars, outside, calls, envCall, walk, handed>>

\* The callsign without an SSID of "0".
Norm(s) ==
    LET up == Strupr(s)
        dash == FirstIn({Dash}, up, 1)
    IN IF SubSeq(up, dash, Len(up)) = <<Dash, 48>> THEN SubSeq(up, 1, dash - 1) ELSE up

IsSameCall(a, b) == Norm(a) = Norm(b)

\* 0 when there is no such port.
FindIndex(q) ==
    LET match == {i \in DOMAIN ports : \/ Strupr(ports[i].name) = Strupr(q)
                                       \/ IsSameCall(ports[i].call, q)}
    IN Min(match \cup {IF match = {} THEN 0 ELSE Len(ports)})

\* get_addr, get_dev, get_window, get_paclen, get_baud, get_desc: a field of this port.
GetField(q) == IF FindIndex(q) = 0 THEN <<>> ELSE <<ports[FindIndex(q)]>>

Star == <<42>>
NoName == <<>>

\* The device's label is the port's name, compared exactly.
GetName(device) == IF \E i \in DOMAIN ports : ports[i].name = device THEN device ELSE NoName

PortOf(a) ==
    LET match == {i \in DOMAIN ports : CmpEntry(a, EncodeEntry(ports[i].call)) = 0}
    IN IF CmpEntry(a, NullAddress) = 0 THEN Star
       ELSE IF match = {} THEN NoName ELSE ports[Min(match)].name

Pointer(table, i, string) == [table |-> table, index |-> i, string |-> string]

\* The next step of a walk over the ports: get_next(NULL), then of the last name.
NextIndex ==
    IF walk = <<>> THEN 1
    ELSE LET i == FindIndex(Last(walk)) IN IF i = 0 THEN Len(ports) + 1 ELSE i + 1

GetNext ==
    /\ part = "ports"
    /\ NextIndex \in DOMAIN ports
    /\ Len(walk) <= Len(ports)
    /\ walk' = Append(walk, ports[NextIndex].name)
    /\ handed' = handed \cup {Pointer("ports", NextIndex, ports[NextIndex].name)}
    /\ UNCHANGED <<part, addressVars, outside, tableVars>>

---------------------------------------------------------------------------
(* get_call.                                                               *)

AddCall(table, line) ==
    IF \/ line.uid = <<>> \/ EncodeEntry(Strupr(line.call)) = NoEntry
       \/ \E i \in DOMAIN table : table[i].uid = line.uid
    THEN table
    ELSE Append(table, [line EXCEPT !.call = Strupr(@)])

ParseCalls(lines) ==
    LET table[n \in 0..Len(lines)] == IF n = 0 THEN <<>> ELSE AddCall(table[n - 1], lines[n])
    IN table[Len(lines)]

LoadCalls == IF calls = <<>> THEN ParseCalls(callFile) ELSE calls

\* The first entry of the user, as a sequence of at most one callsign.
CallOf(table, uid) ==
    LET mine == {i \in DOMAIN table : table[i].uid = <<uid>>}
    IN IF mine = {} THEN <<>> ELSE <<table[Min(mine)].call>>

\* The environment's callsign is copied once.
CacheEnv == IF envCall = <<>> THEN env ELSE envCall

Answer(table, i, string) == handed' = handed \cup {Pointer(table, i, string)}

\* The ports as they are loaded: get_call loads its own table and not axports, so
\* before ax25_config_load_ports there is no first port and it returns NULL.
FirstPort == IF ports = <<>> THEN <<>> ELSE <<ports[1].call>>

GetCall(uid) ==
    /\ part = "ports"
    /\ IF env # <<>>
       THEN /\ envCall' = CacheEnv
            /\ Answer("env", 1, envCall')
            /\ UNCHANGED calls
       ELSE /\ UNCHANGED envCall
            /\ calls' = LoadCalls
            /\ LET mine == CallOf(calls', uid)
               IN IF mine # <<>> THEN Answer("calls", uid, mine[1])
                  ELSE IF FirstPort # <<>> THEN Answer("portCall", 1, FirstPort[1])
                  ELSE UNCHANGED handed
    /\ UNCHANGED <<part, addressVars, outside, ports, walk>>

---------------------------------------------------------------------------
(* The administrator edits the files, the application its environment.    *)

Edit ==
    /\ part = "ports" /\ edits < MaxEdits
    /\ edits' = edits + 1
    /\ UNCHANGED <<part, addressVars, tableVars, walk, handed>>

EditAxports(f) == Edit /\ file' = f /\ UNCHANGED <<callFile, env>>
EditCalls(f) == Edit /\ callFile' = f /\ UNCHANGED <<file, env>>
SetEnv(c) == Edit /\ env' = c /\ UNCHANGED <<file, callFile>>

Next ==
    \/ FirstCall /\ \E t \in Texts : AtonEntry(t)
    \/ MoreAtons /\ \E p \in Paths : Aton(p)
    \/ LoadPorts
    \/ GetNext
    \/ \E u \in Uids : GetCall(u)
    \/ \E f \in Files : EditAxports(f)
    \/ \E f \in CallFiles : EditCalls(f)
    \/ \E c \in EnvCalls : SetEnv(c)

Spec == Init /\ [][Next]_vars

---------------------------------------------------------------------------
(* What the conversions should do.                                         *)

\* A callsign: letters and digits, then perhaps a dash and an SSID of 0..15.
Base(t) == SubSeq(t, 1, FirstIn({Dash}, t, 1) - 1)
SsidText(t) == SubSeq(t, FirstIn({Dash}, t, 1) + 1, Len(t))
HasDash(t) == Dash \in ToSet(t)

IsCallsign(t) ==
    /\ Len(Base(t)) <= CallLen /\ ToSet(Base(t)) \subseteq Alnum
    /\ HasDash(t) => /\ SsidText(t) # <<>> /\ ToSet(SsidText(t)) \subseteq Digit
                     /\ Value(SsidText(t)) <= 15

\* Its canonical form: upper case, the SSID in decimal, none for 0.
Canonical(t) ==
    Strupr(Base(t)) \o (IF ~HasDash(t) \/ Value(SsidText(t)) = 0 THEN <<>>
                        ELSE <<Dash>> \o Decimal(Value(SsidText(t))))

\* What encode_entry takes besides: a full-length call followed by something
\* else than a dash, and what sscanf("%d") takes for a number.
AfterCall(t) == SubSeq(t, Stem(t) + 2, Len(t))
SscanfSays(t) ==
    \/ t[Stem(t) + 1] # Dash
    \/ AfterCall(t)[1] \in {9, Space, Plus, Dash}
    \/ ~(ToSet(AfterCall(t)) \subseteq Digit)
    \/ Value(AfterCall(t)) >= IntMod

\* ax25_aton_entry takes every callsign, and rejects every other text except the
\* ones sscanf lets through (trailing text, signs, blanks, 32-bit wrap-around:
\* CALL-4294967297 is taken for CALL-1), which encode_entry's comment counts
\* among the invalid symbols and the out-of-range SSIDs it says give None.
\* Whatever it took, the address is valid and ax25_ntoa prints a callsign
\* that encodes to the same address.  Letter case does not matter.
EntryRoundTrip ==
    /\ result = "error" => ~IsCallsign(text)
    /\ result = "ok" =>
          /\ IsCallsign(text) => DecodeEntry(address) = Canonical(text)
          /\ ~IsCallsign(text) => SscanfSays(text)
          /\ ValidateEntry(address)
          /\ IsCallsign(DecodeEntry(address))
          /\ EncodeEntry(DecodeEntry(address)) = address
    /\ EncodeEntry(Strlwr(text)) = EncodeEntry(Strupr(text))

\* The two copies of the conversion agree: the interposer reads from the
\* address the text libax25 would print and turns it back into the same
\* octets (bind(), then getsockname()), and writes a callsign the engine
\* reports into a sockaddr as libax25 would.
CopiesAgree ==
    /\ result = "ok" =>
          LET name == WriteSockname(Decode(address))
          IN name.call = address /\ ReadDigipeaters(name, MaxDigis) \in {<<Decode(address)>>, <<>>}
    /\ IsCallsign(text) =>
          /\ CmpEntry(WriteCall(text).call, EncodeEntry(text)) = 0
          /\ ReadCall(WriteCall(text)) = Canonical(text)

\* rose_ntoa prints what rose_aton read, and rose_cmp tells addresses apart.
RoseRoundTrip ==
    LET a == RoseAton(text)
    IN /\ a # NoEntry <=> Len(text) = 2 * RoseLen /\ ToSet(text) \subseteq Digit
       /\ a # NoEntry =>
             /\ RoseNtoa(a) = text
             /\ \A d \in Digit : RoseCmp(a, RoseAton([text EXCEPT ![1] = d])) = 0 <=> d = text[1]

\* An address made from an ASCII text survives every way through the two
\* libraries: text to octets and back, in either copy of the conversion and
\* between them.  Which texts make one is wider than the code's comment says:
\* see SscanfSays.
RoundTrips == EntryRoundTrip /\ CopiesAgree /\ RoseRoundTrip

\* The path the caller wrote: without separators after the callsign, cut off
\* after MaxDigis digipeaters.
PathOf(toks) ==
    LET afterCall == SubSeq(toks, 2, Len(toks))
        from == Min({k \in DOMAIN afterCall : Strupr(afterCall[k]) \notin Via}
                    \cup {Len(afterCall) + 1})
        digis == SubSeq(afterCall, from, Len(afterCall))
    IN SubSeq(digis, 1, LesserOf(MaxDigis, Len(digis)))

\* What ax25_ntoa prints for a text that ax25_aton_entry takes: RoundTrips says
\* that for a callsign this is its canonical form.
Printed(t) == DecodeEntry(EncodeEntry(t))

\* After a successful ax25_aton the interposer reads exactly the path the
\* caller wrote, although the sockaddr still holds digipeaters of earlier
\* calls; an unusable callsign within the first MaxDigis fails the call.
PathKept ==
    LET path == PathOf(tokens)
    IN atons > 0 =>
        /\ filled <=> /\ tokens # <<>> => EncodeEntry(tokens[1]) # NoEntry
                      /\ \A i \in DOMAIN path : EncodeEntry(path[i]) # NoEntry
        /\ filled =>
              /\ tokens # <<>> => ReadCall(sax) = Printed(tokens[1])
              /\ \A fit \in 0..MaxDigis :
                    ReadDigipeaters(sax, fit)
                        = Without(<<>>, [i \in 1..LesserOf(fit, Len(path)) |-> Printed(path[i])])

\* A port's name that reads as the callsign of a port before it.
Ambiguous == \E i, j \in DOMAIN ports : i < j /\ IsSameCall(ports[i].call, ports[j].name)

\* A walk with ax25_config_get_next visits every port once and in order, and
\* the other look-ups by a visited name answer for that port, unless a name
\* reads as an earlier port's callsign: the walk then repeats itself.
WalkVisitsAll ==
    part = "ports" /\ ~Ambiguous =>
        /\ Len(walk) <= Len(ports)
        /\ NextIndex \notin DOMAIN ports => Len(walk) = Len(ports)
        /\ \A i \in DOMAIN walk : /\ walk[i] = ports[i].name
                                  /\ GetField(walk[i]) = <<ports[i]>>
                                  /\ GetName(walk[i]) = walk[i]

WellFormed(line) ==
    /\ line.name[1] # Hash /\ line.fields = 6 /\ IsCallsign(line.call)
    /\ Parsed(line.baud, -1) >= 0 /\ Parsed(line.paclen, 0) > 0 /\ Parsed(line.window, 0) > 0

\* "-0" followed by more digits.  The code's comments say that a trailing "-0"
\* is stripped; find and truncate also turn GB7RDG-05 into GB7RDG.
LeadingZero(t) == \E k \in 1..(Len(t) - 2) : t[k] = Dash /\ t[k + 1] = 48

\* Every well-formed line of axports becomes a port with that line's address
\* (unless its SSID has a leading zero), or shares its name or its callsign
\* with an earlier port; no port comes from anywhere else.
AxportsKept ==
    LET loaded == ParseAxports(file)
        SameAddress(line, p) == CmpEntry(EncodeEntry(line.call), EncodeEntry(p.call)) = 0
    IN /\ \A i \in DOMAIN file : WellFormed(file[i]) /\ ~LeadingZero(file[i].call) =>
             \E k \in DOMAIN loaded :
                 \/ SameAddress(file[i], loaded[k])
                 \/ Strupr(loaded[k].name) = Strupr(file[i].name)
       /\ \A k \in DOMAIN loaded : \E i \in DOMAIN file :
             /\ loaded[k].name = file[i].name
             /\ ~LeadingZero(file[i].call) => SameAddress(file[i], loaded[k])
       /\ \A j, k \in DOMAIN loaded : loaded[j].name = loaded[k].name => j = k

\* ax25_config_get_port finds a port by the address ax25_aton_entry makes of
\* its callsign, and get_addr by the text ax25_ntoa makes of that address
\* (unless an earlier port has that text for its name), as long as the
\* callsigns in axports are callsigns.
PortForAddress ==
    (\A i \in DOMAIN ports : IsCallsign(ports[i].call)) =>
        \A i \in DOMAIN ports :
            LET a == EncodeEntry(ports[i].call)
            IN /\ PortOf(a) = IF CmpEntry(a, NullAddress) = 0 THEN Star ELSE ports[i].name
               /\ FindIndex(DecodeEntry(a)) # i =>
                     \E k \in 1..(i - 1) : IsSameCall(ports[i].call, ports[k].name)

\* What stands in axports is what the application finds, with three exceptions
\* the code makes: a line with a leading zero in its SSID becomes a port of the
\* bare callsign (LeadingZero), a walk over a table in which a name reads as an
\* earlier port's callsign does not end (Ambiguous), and of two lines with one
\* name or callsign the first wins.
PortsFound == AxportsKept /\ WalkVisitsAll /\ PortForAddress

\* A pointer the application was given stays good: the tables it points into
\* are never reloaded and the environment's callsign is copied once.
PointersValid ==
    \A p \in handed :
        CASE p.table = "ports" -> p.index \in DOMAIN ports /\ ports[p.index].name = p.string
          [] p.table = "portCall" -> FirstPort = <<p.string>>
          [] p.table = "calls" -> CallOf(calls, p.index) = <<p.string>>
          [] p.table = "env" -> envCall = p.string
=============================================================================
