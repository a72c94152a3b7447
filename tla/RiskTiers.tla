------------------------------ MODULE RiskTiers ------------------------------
(***************************************************************************)
(* The order of the risk tiers and the three ways the code moves along it: *)
(* the higher of two floors, the one-level bump, and the application of    *)
(* the two floors at the end of classification.                            *)
(*                                                                         *)
(* A tier is its position in TIER_ORDER.  The Python None ("no floor") is  *)
(* the position below every tier, so the higher of two optional floors is  *)
(* simply their maximum.                                                   *)
(***************************************************************************)
EXTENDS Integers

NONE   == -1
GREEN  == 0
YELLOW == 1
ORANGE == 2
RED    == 3

Tier      == GREEN..RED
MaybeTier == NONE..RED

\* The higher of two optional tiers.
MaxTier(a, b) == IF a >= b THEN a ELSE b

\* One level more cautious; RED stays RED.
BumpTier(t) == IF t < RED THEN t + 1 ELSE RED

\* Mutant: a floor of the hat replaces the request's.
FlooredByHat(t, minTier, hatMin) ==
    MaxTier(t, IF hatMin # NONE THEN hatMin ELSE minTier)

\* The request's floor (escalation gate, tool floors), then the hat's.
Floored(t, minTier, hatMin) == MaxTier(MaxTier(t, minTier), hatMin)
=============================================================================
