------------------------------ MODULE MCStartup ------------------------------
(* Machines for Startup: one or two candidate devices whose connectors show  *)
(* every case of the scan and of the mode policy.                            *)
EXTENDS Startup

Timing(clock, vtotal) ==
  [clock |-> clock, htotal |-> 2, vtotal |-> vtotal, vscan |-> 1,
   interlaced |-> FALSE, doublescan |-> FALSE]

Mode(width, timing) ==
  [width |-> width, height |-> 1, preferred |-> FALSE, timing |-> timing]

Preferred(mode) == [mode EXCEPT !.preferred = TRUE]

Answers(modes) == [probes |-> TRUE, connected |-> TRUE, modes |-> modes]

Dead == [probes |-> FALSE, connected |-> TRUE, modes |-> <<Mode(9, Timing(1, 2))>>]
Off == [probes |-> TRUE, connected |-> FALSE, modes |-> <<>>]
Modeless == Answers(<<>>)
Panel == Answers(<<Mode(3, Timing(2, 3)), Preferred(Mode(2, Timing(5, 3))),
                   Preferred(Mode(2, Timing(9, 3)))>>)
Television ==
  Answers(<<Mode(2, Timing(6, 3)), Mode(4, Timing(1, 7)), Mode(4, Timing(5, 7)),
            Mode(4, Timing(5, 7)), Mode(4, Timing(0, 7))>>)
Interlaced == Answers(<<Mode(5, [Timing(3, 7) EXCEPT !.interlaced = TRUE])>>)
Doubled == Answers(<<Mode(5, [Timing(7, 3) EXCEPT !.doublescan = TRUE, !.vscan = 3])>>)
Worn == Answers(<<Mode(6, Timing(7, 0))>>)

ConnectorKinds == {Dead, Off, Modeless, Panel, Television, Interlaced, Doubled, Worn}

Device(state, connectors) == [state |-> state, connectors |-> connectors]

Broken == {Device(s, <<>>) : s \in {"missing", "unopenable", "unreadable"}}

Readable(n) == {Device("readable", c) : c \in UNION {[1..k -> ConnectorKinds] : k \in 0..n}}

OneOrTwoDevices ==
  {<<d>> : d \in Readable(2) \cup Broken}
    \cup {<<d, e>> : d \in Broken \cup Readable(1), e \in Readable(1)}
    \cup {<<d, e>> : d \in {Device("readable", <<Dead, Off>>), Device("readable", <<Off, Modeless>>)},
                     e \in {Device("readable", c) : c \in [1..2 -> {Dead, Off, Panel, Television}]}}

PlaceholderMode == [width |-> 7, height |-> 1, refresh |-> 60]
=============================================================================
