---------------------------- MODULE EmergencyStop -----------------------------
(***************************************************************************)
(* EmergencyStopService (application/services/emergency_stop.py) on top of *)
(* the kill switches of RiskGuardrails: stops of four levels, the record   *)
(* kept of each under an id made of the second and the level, and their    *)
(* release.  The service is built without an audit logger, as              *)
(* get_emergency_stop_service builds it, so a call is one step.            *)
(***************************************************************************)
EXTENDS RiskGuardrails

CONSTANTS
  MaxSeconds, \* bound: seconds
  MaxActive   \* bound: stops active at a time

ASSUME StopAssumption == {MaxSeconds, MaxActive} \subseteq Nat

VARIABLES
  active,   \* _active_stops: affected strategies by stop id
  second,   \* the wall clock, as precise as a stop id
  shaken,   \* history: ids of active stops whose switch another one released
  orphaned \* history: strategies killed by a stop whose record is overwritten

stopVars == <<riskVars, active, second, shaken, orphaned>>

(* stop_id, and the entry of a dictionary under a key.                     *)
NewId(level) == [at |-> second, level |-> level]

Recorded(id) == IF id \in DOMAIN active THEN active[id] ELSE {}

Record(id, affected) ==
  /\ active' = [i \in DOMAIN active \union {id} |-> IF i = id THEN affected ELSE active[i]]
  /\ shaken' = shaken \ {id}
  /\ orphaned' = IF id.level = "strategy" THEN (orphaned \union Recorded(id)) \ affected ELSE orphaned

MayStop == Cardinality(DOMAIN active) < MaxActive

StopUnchanged == UNCHANGED <<resetDay, accountVars, forgotten, day, second>>
-----------------------------------------------------------------------------
(* emergency_stop, by level.  A full stop affects what is registered.      *)
StopFull ==
  /\ MayStop
  /\ TriggerGlobalKill
  /\ Record(NewId("full"), registered)
  /\ UNCHANGED <<risk, registered>> /\ StopUnchanged

StopStrategy(s) ==
  /\ MayStop
  /\ TriggerStrategyKill(s)
  /\ Record(NewId("strategy"), {s})
  /\ UNCHANGED globalKill /\ StopUnchanged

(* A stop by symbol or by mode records every strategy and switches nothing.*)
StopMany(level) ==
  /\ MayStop
  /\ Record(NewId(level), registered)
  /\ UNCHANGED <<risk, registered, globalKill>> /\ StopUnchanged

(* The strategies whose kill switch the release of ids lifts.              *)
Freed(ids) == UNION {active[id] : id \in {i \in ids : i.level # "full"}}

ReleaseGlobalOnly(ids) ==
  /\ IF \E id \in ids : id.level = "full" THEN ReleaseGlobalKill ELSE UNCHANGED globalKill
  /\ UNCHANGED <<risk, registered>>

(* What release_stop does to the switches: a full stop lifts the global    *)
(* one, any other lifts those of the strategies it recorded.               *)
ReleaseSwitches(ids) ==
  /\ IF \E id \in ids : id.level = "full" THEN ReleaseGlobalKill ELSE UNCHANGED globalKill
  /\ risk' = [s \in Strategies |->
                IF s \in Freed(ids) THEN [StateOf(s) EXCEPT !.kill = FALSE] ELSE risk[s]]
  /\ registered' = registered \union Freed(ids)

(* The stop k needs a switch that the release of ids lifts.                *)
Shaken(k, ids) ==
  \/ k.level = "full" /\ \E id \in ids : id.level = "full"
  \/ k.level = "strategy" /\ active[k] \intersect Freed(ids) # {}

(* release_stop, and release_all.                                          *)
Release(ids) ==
  /\ ids # {}
  /\ ReleaseSwitches(ids)
  /\ active' = [i \in DOMAIN active \ ids |-> active[i]]
  /\ shaken' = {k \in DOMAIN active \ ids : k \in shaken \/ Shaken(k, ids)}
  /\ orphaned' = orphaned \ Freed(ids)
  /\ StopUnchanged

ReleaseStop == \E id \in DOMAIN active : Release({id})
ReleaseAll  == Release(DOMAIN active)

Second ==
  /\ second < MaxSeconds
  /\ second' = second + 1
  /\ UNCHANGED <<riskVars, active, shaken, orphaned>>

Stop ==
  \/ StopFull
  \/ \E s \in Strategies : StopStrategy(s)
  \/ StopMany("symbol") \/ StopMany("mode")

(* The strategies keep trading below; while a stop is active only this     *)
(* service releases a kill.                                                *)
GuardrailsStep ==
  /\ \/ Clock
     \/ \E s \in Strategies : StrategyStep(s) \/ (active = <<>> /\ OperatorReleases(s))
  /\ UNCHANGED <<active, second, shaken, orphaned>>

StopInit == RiskInit /\ active = <<>> /\ second = 0 /\ shaken = {} /\ orphaned = {}

StopNext == Stop \/ ReleaseStop \/ ReleaseAll \/ Second \/ GuardrailsStep

StopSpec == StopInit /\ [][StopNext]_stopVars
-----------------------------------------------------------------------------
(* is_emergency_stopped.                                                   *)
IsEmergencyStopped(s) == \E id \in DOMAIN active : s \in active[id]

(* While a full or a strategy stop is active, the strategies it recorded   *)
(* get no order through, whatever other stops come and go and whatever the *)
(* guardrails do: except that the release of another stop may have lifted  *)
(* the switch, and that a deactivation drops a strategy's own.             *)
StoppedMayNotTrade ==
  \A id \in DOMAIN active \ shaken : \A s \in active[id] :
    id.level = "full" \/ (id.level = "strategy" /\ s \notin forgotten)
      => ~NotStopped(StateOf(s))

(* The other way: when the last stop is released nothing stays stopped,    *)
(* and while some are active every switch belongs to one of them, a loss   *)
(* or a stop overwritten by another of the same second aside.              *)
EveryKillHasItsStop ==
  /\ globalKill => \E id \in DOMAIN active : id.level = "full"
  /\ trades = 0 => \A s \in Strategies :
                     StateOf(s).kill => IsEmergencyStopped(s) \/ s \in orphaned

(* Stops and kill switches tell of each other, however stops overlap.      *)
StopsTellKills == StoppedMayNotTrade /\ EveryKillHasItsStop

(* The daily loss limit of the guardrails, both ways and for any history   *)
(* of kills, stops, releases, days and results of other strategies: a      *)
(* strategy gets no order through beyond it, and is not killed short of it *)
(* unless it is being stopped.  A deactivation forgets the loss.           *)
LossLimitHolds ==
  [][\A s \in Strategies \ forgotten :
       OrderWithinLoss(s) /\ (IsEmergencyStopped(s) \/ active' # active \/ KilledForLoss(s))]_stopVars

(* "Stop all strategies for symbol": while a stop by symbol is active, the *)
(* strategies it affected are stopped.                                     *)
SymbolStopHolds ==
  \A id \in DOMAIN active : id.level = "symbol" =>
    \A s \in active[id] : ~NotStopped(StateOf(s))
=============================================================================
