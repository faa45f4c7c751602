--------------------------- MODULE MCConversions ---------------------------
(* Libax25 and Wire side by side: a behaviour makes calls of one of them.  *)
(* Small texts, paths and files: a callsign has two characters and a       *)
(* number six bits, so that texts of five characters reach every edge.     *)
EXTENDS Libax25, Wire

\* A b 0 1 6 - + space
Alphabet == {65, 98, 48, 49, 54, Dash, Plus, Space}
MCTexts == SeqOf(Alphabet, 5)

A == <<65>>
B == <<66>>
B1 == <<66, Dash, 49>>
V == <<118>>
Bad == <<42>>

MCPaths == SeqOf({A, B1, V, Bad, <<>>}, 4)

Line(name, call) ==
    [fields |-> 6, name |-> name, call |-> call, baud |-> <<0>>, paclen |-> <<1>>, window |-> <<1>>]

PortA == Line(<<112>>, A)
PortB == Line(<<80>>, B1)      \* the same name in upper case

\* Ports that clash by name and by callsign, "-0" at the end and inside an
\* SSID, a name that is a callsign, an alias of an address, unusable lines.
MCFiles ==
    {<<>>, <<PortA, PortB>>, <<PortA, Line(<<113>>, <<66, Dash, 48, 49>>)>>,
     <<Line(<<114>>, <<97, Dash, 48>>), PortA>>, <<Line(<<114>>, <<Dash, 48>>), PortB>>,
     <<PortA, Line(<<97>>, B1)>>, <<PortB, Line(<<116>>, <<66, Dash, Plus, 49>>)>>,
     <<PortB, Line(<<117>>, B), Line(<<118>>, A)>>, <<Line(<<115>>, Bad), PortB>>}
    \cup {<<l, PortB>> : l \in
            {[PortA EXCEPT !.fields = 5], [PortA EXCEPT !.baud = <<>>],
             [PortA EXCEPT !.paclen = <<0>>], [PortA EXCEPT !.window = <<-1>>],
             Line(<<Hash, 112>>, A)}}

MCCallFiles == {<<>>, <<[uid |-> <<>>, call |-> B], [uid |-> <<1>>, call |-> Bad],
                       [uid |-> <<1>>, call |-> B], [uid |-> <<1>>, call |-> A]>>}
MCEnvCalls == {<<>>, A, Bad}
\* One or two octets, with the escapes' edges.
MCApps == SeqOf({0, 65, 240, 255}, 2)
MCSizes == {0, 1, 10922, 20000, 32675, 65350} \cup {k * MaxSendChunk + d : k \in 1..2, d \in {-1, 0, 1}}
MCFields == {0, 2, 3, 14, Junk}

ConvInit == Init /\ WireInit
ConvNext ==
    \/ wcall.op = "none" /\ Next /\ UNCHANGED wireVars
    \/ FirstCall /\ WireNext /\ UNCHANGED vars
ConvSpec == ConvInit /\ [][ConvNext]_<<vars, wireVars>>
=============================================================================
