--------------------------- MODULE Configurations ----------------------------
(***************************************************************************)
(* What the versions of one strategy say, and who lets them in: the        *)
(* requests of routes/strategies.py, validate_strategy_config() and the    *)
(* LLMStrategyService, whose model answers with any configuration, or with *)
(* none.  A request is one step here; its queries are in StrategyStore.    *)
(***************************************************************************)
EXTENDS Integers, Sequences, FiniteSets

CONSTANTS
  Configs,     \* configurations that clients and the model come up with
  MaxConfigs,  \* bound: versions of the strategy
  Percent,     \* 100: the most that a percentage may be
  Absent       \* what a configuration leaves out

(* A configuration of another mode, of a client or of the model, is turned *)
(* away; one without a mode is of mode "paper".                            *)
ConfigurationsAssumption ==
  /\ MaxConfigs \in Nat /\ Percent \in Nat
  /\ \A c \in Configs : c.mode \in {"paper", "live"}

VARIABLES
  kind,    \* strategy_type: "config", or "class" for one of code
  drafts,  \* the versions: what they say, who made them, who asked for "live"
  chosen,  \* the active one, or 0
  by       \* history: how it became active

vars == <<kind, drafts, chosen, by>>

Versions == DOMAIN drafts
-----------------------------------------------------------------------------
(* The parameters of a signal: all those it needs, in their ranges.        *)
Needs == [rsi |-> {"period", "oversold", "overbought"}, macd |-> {"fast", "slow", "signal"},
          sma_cross |-> {"fast", "slow"}, bollinger |-> {"period", "std_dev"},
          composite |-> {"rules"}]

ValidRsi(p)       == p.period >= 2 /\ p.oversold \in 0 .. 100 /\ p.overbought \in 0 .. 100
                     /\ p.oversold < p.overbought
ValidCrossing(p)  == p.fast >= 1 /\ p.slow >= 2 /\ p.fast < p.slow
ValidMacd(p)      == ValidCrossing(p) /\ p.signal >= 1
ValidBollinger(p) == p.period >= 2 /\ p.std_dev > 0

ValidSignal(s) ==
  /\ Needs[s.type] \subseteq DOMAIN s.params
  /\ CASE s.type = "rsi"       -> ValidRsi(s.params)
       [] s.type = "macd"      -> ValidMacd(s.params)
       [] s.type = "sma_cross" -> ValidCrossing(s.params)
       [] s.type = "bollinger" -> ValidBollinger(s.params)
       [] s.type = "composite" -> s.params.rules > 0

(* strategy_config_v1.json: the signal is there, whatever its parameters,  *)
(* and the risk's percentages are percentages.                             *)
FitsSchema(c) ==
  /\ c.signal # Absent
  /\ c.size # Absent /\ c.size \in 1 .. Percent
  /\ c.stop # Absent => c.stop \in 0 .. Percent
  /\ c.take # Absent => c.take \in 1 .. Percent

StopBelowTake(c) ==
  c.stop # Absent /\ c.take # Absent => (c.stop > 0 => c.stop < c.take)

(* validate_strategy_config(): a strategy of code has no use for a signal. *)
Valid(c, type) ==
  /\ FitsSchema(c) /\ StopBelowTake(c)
  /\ type # "class" => ValidSignal(c.signal)

(* _ensure_valid_signal_for_class_based().                                 *)
DefaultSignal ==
  [type |-> "rsi", params |-> [period |-> 14, oversold |-> 30, overbought |-> 70]]

EnsuredSignal(c) ==
  IF kind = "class" /\ c.signal = Absent THEN [c EXCEPT !.signal = DefaultSignal] ELSE c

(* _check_forbidden_changes(): going live must have been asked for, and    *)
(* the size of a position, 10 by default, at most doubles.                 *)
SizeOf(c) == IF c.size = Absent THEN 10 ELSE c.size

AllowedChanges(old, new, said) ==
  /\ old.mode = "paper" /\ new.mode = "live" => said
  /\ SizeOf(new) <= 2 * SizeOf(old)
-----------------------------------------------------------------------------
Version(c, who, said) == [says |-> c, made |-> who, said |-> said]

AppendVersion(c, who, said) ==
  Len(drafts) < MaxConfigs /\ drafts' = Append(drafts, Version(c, who, said))

(* create_strategy(): its first version is active, unchecked.              *)
CreateStrategy(c) ==
  /\ drafts = <<>> /\ AppendVersion(c, "client", FALSE) /\ kind' \in {"config", "class"}
  /\ chosen' = 1 /\ by' = "client"

CreateVersion(c) ==
  /\ drafts # <<>> /\ AppendVersion(c, "client", FALSE)
  /\ UNCHANGED <<kind, chosen, by>>

ActivateVersion(v) == chosen' = v /\ by' = "client" /\ UNCHANGED <<kind, drafts>>

(* update_active_strategy_version(): a checked version takes over from the *)
(* active one, if there is one.                                            *)
UpdateActive(c) ==
  /\ chosen # 0 /\ Valid(EnsuredSignal(c), kind)
  /\ AppendVersion(EnsuredSignal(c), "editor", FALSE)
  /\ chosen' = Len(drafts) + 1 /\ by' = "editor"
  /\ UNCHANGED kind

(* generate_config() and save_generated_strategy(): a draft without an     *)
(* active version, in the mode of the answer.                              *)
Generate(answer) ==
  /\ drafts = <<>> /\ Valid(answer, "config") /\ AppendVersion(answer, "generate", FALSE)
  /\ kind' = "config" /\ UNCHANGED <<chosen, by>>

(* modify_strategy() takes the last of a list that begins with the newest  *)
(* version; modify_config() checks the answer as one with a signal,        *)
(* whatever the strategy is.                                               *)
Base == drafts[1].says

Modify(answer, said) ==
  /\ drafts # <<>> /\ AllowedChanges(Base, answer, said) /\ Valid(answer, "config")
  /\ AppendVersion(answer, "modify", said)
  /\ UNCHANGED <<kind, chosen, by>>
-----------------------------------------------------------------------------
Init == kind = "config" /\ drafts = <<>> /\ chosen = 0 /\ by = "nobody"

Next ==
  \/ \E c \in Configs : \/ CreateStrategy(c) \/ CreateVersion(c) \/ UpdateActive(c) \/ Generate(c)
                        \/ \E said \in BOOLEAN : Modify(c, said)
  \/ \E v \in Versions : ActivateVersion(v)

ConfigurationsSpec == Init /\ [][Next]_vars
-----------------------------------------------------------------------------
TypeOK ==
  /\ kind \in {"config", "class"} /\ Len(drafts) <= MaxConfigs
  /\ chosen \in 0 .. Len(drafts) /\ by \in {"nobody", "client", "editor"}
  /\ \A v \in Versions : drafts[v].made \in {"client", "editor", "generate", "modify"}

(* What the language model wrote is active only where a client activated   *)
(* it, is valid for a strategy of configuration, has not gone live unasked *)
(* and, over any chain of modifications, at most doubles the size that was *)
(* there before the first of them (llm_strategy_service.py:510); and what  *)
(* took effect without a client's word fits the strategy                   *)
(* (routes/strategies.py:557).                                             *)
ConfigsAreChecked ==
  /\ \A v \in Versions :
       LET d == drafts[v] IN
       /\ d.made \in {"generate", "modify"} =>
            /\ Valid(d.says, "config")
            /\ v = chosen => by = "client"
       /\ d.made = "modify" =>
            /\ d.says.mode = "live" => d.said \/ Base.mode = "live"
            /\ SizeOf(d.says) <= 2 * SizeOf(Base)
  /\ by = "editor" => Valid(drafts[chosen].says, kind)
=============================================================================
