------------------------------ MODULE Callsign ------------------------------
(***************************************************************************)
(* Callsigns as text and as shifted octets: the conversions of libax25     *)
(* (crates/libax25/src/addr.rs), the interposer's own copy of them         *)
(* (crates/ax25-interpose/src/addr.rs), the digipeater path in a           *)
(* full_sockaddr_ax25, and ROSE addresses (stubs.rs).                      *)
(*                                                                         *)
(* A text is a sequence of ASCII codes.  A failed conversion is the empty  *)
(* sequence.  The sizes of the code (6 characters, 8 digipeaters, 32 bits, *)
(* 5 octets) are constants, so that small texts reach their edges.         *)
(***************************************************************************)
EXTENDS Integers, Sequences, SequencesExt

CONSTANTS
    CallLen,  \* characters of a callsign (6)
    MaxDigis, \* AX25_MAX_DIGIS (8)
    IntMod,   \* 2^32, the values of an i32
    RoseLen   \* octets of a ROSE address (5)

ASSUME SizesAssumption ==
    /\ CallLen \in Nat \ {0} /\ MaxDigis \in Nat \ {0} /\ RoseLen \in Nat \ {0}
    /\ IntMod \in Nat /\ IntMod >= 32 /\ IntMod % 2 = 0

Space == 32
Plus == 43
Dash == 45
Digit == 48..57
Upper == 65..90
Lower == 97..122
Alnum == Digit \cup Upper \cup Lower

ToUpper(c) == IF c \in Lower THEN c - 32 ELSE c
ToLower(c) == IF c \in Upper THEN c + 32 ELSE c
Strupr(s) == [i \in DOMAIN s |-> ToUpper(s[i])]
Strlwr(s) == [i \in DOMAIN s |-> ToLower(s[i])]

\* The elements of s other than x, in order.
Without(x, s) ==
    LET kept[n \in 0..Len(s)] ==
          IF n = 0 THEN <<>> ELSE IF s[n] = x THEN kept[n - 1] ELSE Append(kept[n - 1], s[n])
    IN kept[Len(s)]

LesserOf(a, b) == IF a <= b THEN a ELSE b

\* The first position from i whose character is in S (is not), or the one past the end.
FirstIn(S, s, i) == Min({k \in i..Len(s) : s[k] \in S} \cup {Len(s) + 1})
FirstNotIn(S, s, i) == Min({k \in i..Len(s) : s[k] \notin S} \cup {Len(s) + 1})

\* The value of a sequence of decimal digits, and a value of 0..99 in decimal.
Value(digits) ==
    LET value[n \in 0..Len(digits)] == IF n = 0 THEN 0 ELSE 10 * value[n - 1] + (digits[n] - 48)
    IN value[Len(digits)]

Decimal(n) == IF n < 10 THEN <<48 + n>> ELSE <<48 + (n \div 10), 48 + (n % 10)>>

---------------------------------------------------------------------------
(* libax25.                                                                *)

NoEntry == <<>>

\* `val as i32`: the low bits, as a signed value.
AsI32(v) == ((v + IntMod \div 2) % IntMod) - IntMod \div 2

\* scan_int: blanks, a sign, digits, then anything.
ScanInt(s) ==
    LET at == FirstNotIn({9, Space}, s, 1)
        signed == at <= Len(s) /\ s[at] \in {Plus, Dash}
        from == IF signed THEN at + 1 ELSE at
        digits == SubSeq(s, from, FirstNotIn(Digit, s, from) - 1)
        value == AsI32(Value(digits))
    IN IF digits = <<>> THEN <<>>
       ELSE <<IF signed /\ s[at] = Dash THEN -value ELSE value>>

\* The characters before the first dash, at most CallLen of them.
Stem(s) == LesserOf(CallLen, FirstIn({Dash}, s, 1) - 1)

SsidByte(n) == (2 * (n + 48)) % 32

ShiftedCall(s, n) == [i \in 1..CallLen |-> 2 * (IF i <= n THEN ToUpper(s[i]) ELSE Space)]

SsidInRange(n) == n \in 0..15

\* encode_entry: one character after the call is skipped, dash or not.
EncodeEntry(s) ==
    LET n == Stem(s)
        ssid == IF n = Len(s) THEN <<0>> ELSE ScanInt(SubSeq(s, n + 2, Len(s)))
    IN IF /\ \A i \in 1..n : s[i] \in Alnum
          /\ ssid # <<>> /\ SsidInRange(ssid[1])
       THEN Append(ShiftedCall(s, n), SsidByte(ssid[1]))
       ELSE NoEntry

\* The addresses a valid text encodes to have these two parts.
CharAt(a, i) == (a[i] \div 2) % 128
Ssid(a) == (a[CallLen + 1] \div 2) % 16

DecodeEntry(a) ==
    Without(Space, [i \in 1..CallLen |-> CharAt(a, i)])
    \o (IF Ssid(a) = 0 THEN <<>> ELSE <<Dash>> \o Decimal(Ssid(a)))

CmpIgnoringSsid(a, b) == IF \E i \in 1..CallLen : a[i] \div 2 # b[i] \div 2 THEN 1 ELSE 0

CmpEntry(a, b) ==
    IF \E i \in 1..CallLen : a[i] \div 2 # b[i] \div 2 THEN 1
    ELSE IF Ssid(a) # Ssid(b) THEN 2 ELSE 0

ValidateEntry(a) == \A i \in 1..CallLen : CharAt(a, i) \in Upper \cup Digit \cup {Space}

NullAddress == [i \in 1..(CallLen + 1) |-> IF i <= CallLen THEN 2 * Space ELSE 0]

---------------------------------------------------------------------------
(* full_sockaddr_ax25: ax25_aton and ax25_aton_arglist fill it.            *)

Via == {<<86>>, <<86, 73, 65>>}    \* "V", "VIA"

SeparatorAnywhere(n, token) == n >= 1 /\ Strupr(token) \in Via

\* V or VIA is a separator only right after the callsign.
Separator(n, token) == n = 1 /\ Strupr(token) \in Via

\* One token of fill_sax.  n counts the placements; nothing is read past the
\* last digipeater.
Place(acc, token) ==
    LET entry == EncodeEntry(token)
    IN IF acc.state # "go" \/ Separator(acc.n, token) THEN acc
       ELSE IF entry = NoEntry THEN [acc EXCEPT !.state = "bad"]
       ELSE [n |-> acc.n + 1,
             state |-> IF acc.n + 1 > MaxDigis THEN "full" ELSE "go",
             sax |-> IF acc.n = 0 THEN [acc.sax EXCEPT !.call = entry]
                     ELSE [acc.sax EXCEPT !.digis[acc.n] = entry]]

Ndigis(n) == n - 1

\* fill_sax on a sockaddr with older contents: an error leaves it half written.
FillSax(tokens, sax) ==
    LET given == IF tokens = <<>> THEN <<<<>>>> ELSE tokens
        after[k \in 0..Len(given)] ==
          IF k = 0 THEN [n |-> 0, state |-> "go", sax |-> sax] ELSE Place(after[k - 1], given[k])
        acc == after[Len(given)]
    IN IF acc.state = "bad" THEN [ok |-> FALSE, sax |-> acc.sax]
       ELSE [ok |-> TRUE, sax |-> [acc.sax EXCEPT !.ndigis = Ndigis(acc.n)]]

---------------------------------------------------------------------------
(* The interposer's copy.                                                  *)

ParseOneDigit(s) == IF s # <<>> /\ s[1] \in Digit THEN s[1] - 48 ELSE 0

\* str::parse::<u8>: an optional plus and digits only; anything else counts as 0.
ParseU8(s) ==
    LET digits == IF s # <<>> /\ s[1] = Plus THEN Tail(s) ELSE s
    IN IF digits # <<>> /\ ToSet(digits) \subseteq Digit /\ Value(digits) <= 255
       THEN Value(digits) ELSE 0

\* encode never fails: split at the first dash, any character, SSID & 0x0F.
Encode(s) ==
    LET dash == FirstIn({Dash}, s, 1)
        base == SubSeq(s, 1, dash - 1)
        ssid == IF dash > Len(s) THEN 0 ELSE ParseU8(SubSeq(s, dash + 1, Len(s))) % 16
    IN [i \in 1..(CallLen + 1) |->
          IF i > CallLen THEN 2 * ssid
          ELSE (2 * (IF i <= Len(base) THEN ToUpper(base[i]) ELSE Space)) % 256]

Decode(a) == DecodeEntry(a)

\* read_call and write_call: a sockaddr without digipeaters.
ReadCall(sax) == Decode(sax.call)
WriteCall(s) == [call |-> Encode(s), ndigis |-> 0]

\* read_digipeaters: as many as the count, the buffer (fit) and the array allow.
ReadDigipeaters(sax, fit) ==
    LET wanted == IF sax.ndigis > 0 THEN sax.ndigis ELSE 0
        count == Min({wanted, fit, MaxDigis})
    IN Without(<<>>, [i \in 1..count |-> Decode(sax.digis[i])])

\* write_sockname: the callsign twice, the layout ax25d reads.
WriteSockname(s) ==
    [call |-> Encode(s), ndigis |-> 1,
     digis |-> [i \in 1..MaxDigis |->
                   IF i = 1 THEN Encode(s) ELSE [k \in 1..(CallLen + 1) |-> 0]]]

---------------------------------------------------------------------------
(* ROSE addresses: ten digits, two to an octet.                            *)

RoseAton(s) ==
    IF Len(s) # 2 * RoseLen \/ ~(ToSet(s) \subseteq Digit) THEN NoEntry
    ELSE [i \in 1..RoseLen |-> 16 * (s[2 * i - 1] - 48) + (s[2 * i] - 48)]

RoseNtoa(a) ==
    [i \in 1..(2 * RoseLen) |->
        48 + (IF i % 2 = 1 THEN a[(i + 1) \div 2] \div 16 ELSE a[i \div 2] % 16)]

RoseCmp(a, b) == IF \E i \in 1..RoseLen : a[i] # b[i] THEN 1 ELSE 0
=============================================================================
