--------------------------- MODULE MCEmergencyStop ---------------------------
(* EmergencyStop on small instances, chosen by the configurations.         *)
EXTENDS EmergencyStop, TLC

(* A second order was checked while the first was not reported.            *)
Overshot(s) ==
  \/ unreported[s] > 1 \/ Units(held[s]) > MaxExposure
  \/ \E y \in Symbols : held[s][y] > SymbolCap

(* There was no result, no midnight, no deactivation, and the service does *)
(* not know the others, none of which the limits on holdings look at.      *)
Alone(s) ==
  trades = 0 /\ day = 0 /\ forgotten = {} /\ registered \subseteq {s}

(* Bounds of the exploration: the guardrails alone over accounts of which  *)
(* one holds something, since the limits are on what each holds, and       *)
(* overshoots of one strategy alone; and stops of every level over         *)
(* accounts that hold nothing and lost once.                               *)
Unstopped ==
  /\ active = <<>> /\ second = 0 /\ orphaned = {}
  /\ trades > 0 \/ \A s \in Strategies : ~risk[s].kill
  /\ \E s \in Strategies : held[s] = NothingHeld /\ unreported[s] = 0
  /\ \A s \in Strategies : Overshot(s) => Alone(s)

Quiet ==
  /\ day = 0 /\ trades <= 1
  /\ \A s \in Strategies :
       /\ held[s] = NothingHeld /\ unreported[s] = 0 /\ balance[s] > 0
       /\ risk[s].reported = NothingHeld /\ risk[s].pause = 0

StopsOverQuiet == Unstopped \/ Quiet

Symmetry == Permutations(Strategies) \union Permutations(Symbols)
=============================================================================
