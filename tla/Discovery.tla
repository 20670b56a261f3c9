------------------------------ MODULE Discovery ------------------------------
(***************************************************************************)
(* Which screen, which mode, and how fast that mode is: the arithmetic and *)
(* the policy of crates/backend-drm/src/mode.rs, and the reading of a      *)
(* device's connectors that feeds them (scan, in commit.rs).               *)
(*                                                                         *)
(* A connector is what the kernel answers for it, [probes, connected,      *)
(* modes]; a mode is [width, height, preferred, timing].  Indices start    *)
(* at 1 here and at 0 in the code.                                         *)
(***************************************************************************)
EXTENDS Integers, SequencesExt

CONSTANTS
  MillihertzPerKilohertz,   \* 1 000 000 in the code; small, for TLC's 32-bit integers
  MaxRate,                  \* i32::MAX
  NoSelection               \* select_output's None

ASSUME DiscoveryAssumption ==
  /\ MillihertzPerKilohertz \in Nat \ {0} /\ MaxRate \in Nat \ {0}
  /\ NoSelection \notin [connector : Nat, mode : Nat]

(* What the kernel answers: unsigned numbers, and flags.                     *)
Timings == [clock : Nat, htotal : Nat, vtotal : Nat, vscan : Nat,
            interlaced : BOOLEAN, doublescan : BOOLEAN]
Modes == [width : Nat, height : Nat, preferred : BOOLEAN, timing : Timings]
ConnectorInfos == [probes : BOOLEAN, connected : BOOLEAN, modes : Seq(Modes)]

(* The field rate is Numerator / Denominator, in millihertz.                 *)
Numerator(t) ==
  t.clock * MillihertzPerKilohertz * (IF t.interlaced THEN 2 ELSE 1)

Denominator(t) ==
  t.htotal * t.vtotal * (IF t.doublescan THEN 2 ELSE 1) * (IF t.vscan > 1 THEN t.vscan ELSE 1)

(* Mutant of RefreshMhz: the division truncates.                             *)
RefreshMhzTruncated(t) ==
  IF Numerator(t) = 0 \/ Denominator(t) = 0 THEN 0
  ELSE Min({Numerator(t) \div Denominator(t), MaxRate})

(* refresh_mhz, rounded to nearest; 0 where the code has None, as scan does. *)
RefreshMhz(t) ==
  IF Numerator(t) = 0 \/ Denominator(t) = 0 THEN 0
  ELSE Min({(Numerator(t) + Denominator(t) \div 2) \div Denominator(t), MaxRate})

-----------------------------------------------------------------------------
(* Selection.                                                                *)

Area(mode) == mode.width * mode.height

(* max_by_key over (area, refresh, -position): i is chosen before j.         *)
Outranks(modes, i, j) ==
  LET rate(k) == RefreshMhz(modes[k].timing)
  IN  \/ Area(modes[i]) > Area(modes[j])
      \/ /\ Area(modes[i]) = Area(modes[j])
         /\ rate(i) > rate(j) \/ (rate(i) = rate(j) /\ i < j)

(* Mutant of SelectMode: a connector's first mode, whatever it is.           *)
SelectModeFirst(modes) == 1

SelectMode(modes) ==
  LET preferred == {i \in DOMAIN modes : modes[i].preferred}
  IN  IF preferred # {} THEN Min(preferred)
      ELSE CHOOSE i \in DOMAIN modes : \A j \in DOMAIN modes \ {i} : Outranks(modes, i, j)

(* A device's connectors that answered the probe.  Each keeps the index it   *)
(* has among all of the device's connectors.                                 *)
Scan(connectors) ==
  LET kept[n \in 0..Len(connectors)] ==
        IF n = 0 THEN <<>>
        ELSE IF connectors[n].probes
             THEN Append(kept[n - 1], [index |-> n, info |-> connectors[n]])
             ELSE kept[n - 1]
  IN  kept[Len(connectors)]

IsUsable(info) == info.connected /\ info.modes # <<>>

Selection(connector, mode) == [connector |-> connector, mode |-> mode]

(* The first connected connector that has any mode, by its index.            *)
SelectOutput(found) ==
  LET usable == {p \in DOMAIN found : IsUsable(found[p].info)}
  IN  IF usable = {} THEN NoSelection
      ELSE LET first == found[Min(usable)]
           IN  Selection(first.index, SelectMode(first.info.modes))
=============================================================================
