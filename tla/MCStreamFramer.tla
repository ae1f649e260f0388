---------------------------- MODULE MCStreamFramer ----------------------------
(* Model-checking StreamFramer on every short stream over the bytes that      *)
(* matter, and on every short sequence of a board's frames and lines.        *)
EXTENDS StreamFramer

Noise(s) == [kind |-> "noise", bytes |-> s]
Log(s) == [kind |-> "log", bytes |-> s \o <<10>>]
Frame(payload) == [kind |-> "frame", bytes |-> <<26, 197, 1, Len(payload)>> \o payload]
Text(s) == [kind |-> "line", bytes |-> <<35>> \o s \o <<10>>]

(* Every stream of six of: the magic's two bytes, the version (also as the  *)
(* length 1), "#" and the newline (also as a length out of reach).          *)
MCAnyBytes == {<<Noise(s)>> : s \in [1..6 -> {26, 197, 1, 35, 10}]}

(* Payloads that look like other things: the magic, a "#", a newline. *)
MCItems == {Frame(p) : p \in {<<>>, <<0>>, <<26>>, <<26, 197>>, <<35>>, <<10, 35>>}}
             \cup {Text(<<65>>), Text(<<65, 66>>), Log(<<73>>)}
MCItemStreams == UNION {[1..n -> MCItems] : n \in 1..3}

MCSent == MCAnyBytes \cup MCItemStreams
=============================================================================
