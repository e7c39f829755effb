------------------------------ MODULE AlertCheck ------------------------------
(***************************************************************************)
(* lab brief alert-check, briefing-worker once --kind alert: the check     *)
(* reads Hyperliquid state from Market Memory, evaluates two rules with    *)
(* the thresholds of alerts.yaml and writes alert.md only when it pushes.  *)
(***************************************************************************)
EXTENDS Naturals, FiniteSets, FiniteSetsExt

CONSTANTS Lookback,    \* hl_from_memory: liquidations it reads, in ticks
          MinSize,     \* alerts.yaml: min_size
          MaxTime,     \* bound: last tick
          MaxChecks    \* bound: alert checks

VARIABLES now,
          liqs,      \* liquidations in Market Memory: [at, size]
          moves,     \* open interest and its predecessor: see Moves
          config,    \* alerts.yaml: [enabled, spec of each type]
          alert,     \* last decision
          file,      \* alert.md of the day: the types it lists
          checks

vars == <<now, liqs, moves, config, alert, file, checks>>

Types == {"liquidation_spike", "funding_oi_divergence"}
Reasons == {"none", "alerts_disabled", "threshold_config_required",
            "no_threshold_crossed", "threshold_crossed"}
NoAlert == [pushed |-> FALSE, reason |-> "none", types |-> {}]

(* Whether a type is enabled and has the parameters its rule needs, only   *)
(* others that are numbers (window_minutes), or none.                      *)
TypeSpecs == [enabled : BOOLEAN, params : {"full", "other", "none"}]

(* Funding and the change of open interest: opposite and past both minima, *)
(* not so, or not computable because a metric or its predecessor lacks.    *)
Moves == {"opposite", "aligned", "unknown"}

(* liquidation_size_sum over the rows that hl_from_memory read             *)
Total == MapThenSumSet(LAMBDA l : l.size, {x \in liqs : x.at + Lookback >= now})

TypeOK ==
    /\ now \in 0..MaxTime
    /\ \A l \in liqs : l.at \in 0..MaxTime /\ l.size \in 1..MinSize
    /\ moves \in Moves
    /\ config.enabled \in BOOLEAN /\ config.types \in [Types -> TypeSpecs]
    /\ alert.types \subseteq Types /\ alert.reason \in Reasons
    /\ file \subseteq Types
    /\ checks \in 0..MaxChecks

Init ==
    /\ now = 0 /\ liqs = {} /\ moves = "unknown"
    /\ config \in [enabled : BOOLEAN, types : [Types -> TypeSpecs]]
    /\ alert = NoAlert /\ file = {} /\ checks = 0

Tick ==
    /\ now < MaxTime
    /\ now' = now + 1
    /\ UNCHANGED <<liqs, moves, config, alert, file, checks>>

Ingest(size, m) ==
    /\ checks < MaxChecks
    /\ liqs' = liqs \cup {[at |-> now, size |-> size]} /\ moves' = m
    /\ UNCHANGED <<now, config, alert, file, checks>>

-----------------------------------------------------------------------------
(* _has_numeric: any parameter that is a number                            *)
HasNumeric(spec) == spec.enabled /\ spec.params # "none"

(* Mutant: any number of a type will do for its rule.                      *)
CrossedWithNumeric(t) ==
    /\ HasNumeric(config.types[t])
    /\ IF t = "liquidation_spike" THEN Total >= MinSize ELSE moves = "opposite"

(* _liquidation_spike, _funding_oi                                         *)
Crossed(t) ==
    /\ config.types[t].enabled /\ config.types[t].params = "full"
    /\ IF t = "liquidation_spike" THEN Total >= MinSize ELSE moves = "opposite"

Decision ==
    LET events == {t \in Types : Crossed(t)}
        quiet(reason) == [NoAlert EXCEPT !.reason = reason] IN
    CASE ~config.enabled -> quiet("alerts_disabled")
      [] config.enabled /\ ~(\E t \in Types : HasNumeric(config.types[t])) -> quiet("threshold_config_required")
      [] OTHER -> IF events = {} THEN quiet("no_threshold_crossed")
                  ELSE [pushed |-> TRUE, reason |-> "threshold_crossed", types |-> events]

(* evaluate_alerts behind both commands, none of which passes the hashes   *)
(* of alerts pushed before; a push overwrites alert.md, no push leaves it. *)
Check ==
    /\ checks < MaxChecks
    /\ alert' = Decision
    /\ file' = IF alert'.pushed THEN alert'.types ELSE file
    /\ checks' = checks + 1
    /\ UNCHANGED <<now, liqs, moves, config>>

Next ==
    \/ Tick
    \/ \E size \in 1..MinSize, m \in Moves : Ingest(size, m)
    \/ Check

Spec == Init /\ [][Next]_vars

-----------------------------------------------------------------------------
(* No document exists of a type that is disabled or lacks the numbers of   *)
(* its own rule, and none at all without liquidations or an open interest  *)
(* to compare: a window alone is a number but no threshold.                *)
PushIsCrossed ==
    /\ alert.pushed => alert.types # {} /\ file = alert.types
    /\ \A t \in file : config.enabled /\ config.types[t] = [enabled |-> TRUE, params |-> "full"]
    /\ "liquidation_spike" \in file => MapThenSumSet(LAMBDA l : l.size, liqs) >= MinSize
=============================================================================
