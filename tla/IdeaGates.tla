------------------------------ MODULE IdeaGates ------------------------------
(***************************************************************************)
(* mm_desks.monitor, event_calendar, universe and watchlist: the locked    *)
(* review list, the gates a name passes before an idea on it is published, *)
(* the netting of the sizes of one round of ideas, and the watchlist scan  *)
(* of the same day.  Days are numbers; the day of a gate is its knowledge  *)
(* date.                                                                   *)
(***************************************************************************)
EXTENDS Naturals, Integers, Sequences, FiniteSets

CONSTANTS Names,
          Files,          \* candidate review lists: a row for every name
          Universe,       \* membership lists: [in, watch, deferred, all]
          Events,         \* calendar rows: [day, verified, earnings, flag, market, names]
          DefaultDays,    \* default_horizon_days
          MaxPerCluster,  \* netting.max_sized_per_cluster
          MaxPerRound,    \* netting.max_sized_per_round
          Tapes,          \* what the frozen day's tape may hold of each name
          Horizons,       \* horizons an idea may carry, in days; Default: none
          MaxIdeas,       \* bound: ideas of one round
          MaxDay          \* bound: days

VARIABLES file,   \* monitor.yaml as it was read
          open,   \* "no", "refused" or "yes": the list passed its checks
          day,
          corr,   \* correlation of semis and index handed to the netting
          tape,   \* tape of the frozen day
          out     \* ideas of the round in order: [name, horizon, ok, size]

vars == <<file, open, day, corr, tape, out>>

Default == -1
Tiers == {"universe", "monitor", "blocked"}
Sizes == {"none", "zero", "UNSIZED", "cluster_capped"}
TapeStates == {"none", "empty", "partial", "stale", "fresh"}

-----------------------------------------------------------------------------
(* The locked membership of a name.                                        *)
Membership(n) ==
    CASE n \in Universe.in                       -> "in_universe"
      [] n \in Universe.watch \ Universe.in      -> "watch_only"
      [] n \in Universe.deferred \ (Universe.in \cup Universe.watch) -> "deferred_must_cut"
      [] n \in Universe.all \ (Universe.in \cup Universe.watch \cup Universe.deferred)
                                                 -> "watch_only"
      [] OTHER                                   -> "unset"

(* locked_watchlist: what is to be cut is never on it.                     *)
LockedWatchlist ==
    {[name |-> n, membership |-> IF n \in Universe.in THEN "in_universe" ELSE "watch_only"] :
        n \in Universe.all \ Universe.deferred}

(* A list of blocked names in the file overrides the tier of the row.      *)
Tier(f, n) == IF f[n].blocked THEN "blocked" ELSE f[n].tier

(* monitor_names raises unless the tiers follow the locked membership.     *)
Loadable(f) == \A n \in Names :
    /\ Tier(f, n) = "universe" => Membership(n) = "in_universe"
    /\ Membership(n) = "in_universe" => Tier(f, n) \in {"universe", "blocked"}

(* assert_monitor_invariants, which only the watchlist scan asks.          *)
Asserted(f) == \A n \in Names :
    /\ Membership(n) = "in_universe" => Tier(f, n) = "universe"
    /\ f[n].resolved
    /\ Membership(n) = "deferred_must_cut" => f[n].archive
    /\ f[n].lockup > 0 => f[n].confirmed

(* lockup_inside_horizon: from the first day until the day before the      *)
(* documented bound, whatever the idea's horizon is.                       *)
LockedUp(n) == day < file[n].lockup

(* Mutant: the last day of the horizon is left out.                        *)
WindowOpen(h) == day..(day + (IF h = Default THEN DefaultDays ELSE h) - 1)

(* horizon_end and _event_from_raw.                                        *)
Window(h) == day..(day + (IF h = Default THEN DefaultDays ELSE h))

Relevant(e) == e.flag = "yes" \/ (e.flag = "unset" /\ e.earnings)

Blocking(n, h) ==
    {e \in Events : /\ e.verified /\ Relevant(e)
                    /\ e.day \in Window(h)
                    /\ (e.market /\ e.names = {}) \/ n \in e.names}

(* idea_eligible, the first reason that applies.                           *)
Reason(n, h) ==
    IF ~file[n].resolved              THEN "unresolved"
    ELSE IF Tier(file, n) = "blocked" THEN "blocked"
    ELSE IF LockedUp(n)               THEN "lockup"
    ELSE IF Blocking(n, h) # {}       THEN "event"
    ELSE IF file[n].listing           THEN "listing"
    ELSE "ok"

Policy(n) ==
    IF Tier(file, n) = "blocked" \/ ~file[n].resolved THEN "none"
    ELSE IF file[n].cluster = "meme_t3"               THEN "zero"
    ELSE IF Tier(file, n) = "monitor"                 THEN "UNSIZED"
    ELSE "cluster_capped"

-----------------------------------------------------------------------------
Sized == {i \in DOMAIN out : out[i].ok /\ out[i].size = "cluster_capped"}

SizedIn(cluster) == {i \in Sized : file[out[i].name].cluster = cluster}

(* index futures and semiconductors net unless their correlation is known  *)
(* to be below the threshold.                                              *)
Nets(cluster) ==
    /\ corr # "low"
    /\ \/ cluster = "index_futures" /\ SizedIn("semis_ai") # {}
       \/ cluster = "semis_ai" /\ SizedIn("index_futures") # {}

AtCap(n) ==
    \/ Cardinality(SizedIn(file[n].cluster)) >= MaxPerCluster
    \/ Cardinality({i \in Sized : file[out[i].name].round = file[n].round}) >= MaxPerRound

(* One turn of net_sized_ideas; an idea that is not eligible is dropped.   *)
Netted(n, h) ==
    [name |-> n, horizon |-> h, ok |-> Reason(n, h) = "ok",
     size |-> IF Policy(n) = "cluster_capped" /\ (Nets(file[n].cluster) \/ AtCap(n))
              THEN "UNSIZED" ELSE Policy(n)]

(* The watchlist row of a name.                                            *)
MonitorState(n) ==
    IF ~file[n].resolved                THEN "UNRESOLVED"
    ELSE IF Tier(file, n) = "blocked"   THEN "BLOCKED"
    ELSE IF tape[n] \in {"none", "empty"} THEN "UNAVAILABLE"
    ELSE IF tape[n] = "partial"         THEN "PARTIAL"
    ELSE "COVERED"

ScanStatus ==
    IF \A n \in Names : MonitorState(n) = "COVERED" THEN "OK" ELSE "DEGRADED"

Scannable == {n \in Names : MonitorState(n) \notin {"UNRESOLVED", "BLOCKED"}}

Covered == {n \in Scannable : MonitorState(n) \in {"COVERED", "PARTIAL"}}

-----------------------------------------------------------------------------
Init ==
    /\ file \in Files
    /\ open = "no"
    /\ day = 0
    /\ corr \in {"unknown", "low", "high"}
    /\ tape \in Tapes
    /\ out = <<>>

Open ==
    /\ open = "no"
    /\ open' = IF Loadable(file) THEN "yes" ELSE "refused"
    /\ UNCHANGED <<file, day, corr, tape, out>>

Net(n, h) ==
    /\ open = "yes" /\ Len(out) < MaxIdeas
    /\ out' = Append(out, Netted(n, h))
    /\ UNCHANGED <<file, open, day, corr, tape>>

(* A later round, with the lists and the calendar of the same files.       *)
NextDay(t) ==
    /\ open = "yes" /\ day < MaxDay
    /\ day' = day + 1
    /\ tape' = t
    /\ out' = <<>>
    /\ UNCHANGED <<file, open, corr>>

Next ==
    \/ Open
    \/ \E n \in Names, h \in Horizons : Net(n, h)
    \/ \E t \in Tapes : NextDay(t)

Spec == Init /\ [][Next]_vars

-----------------------------------------------------------------------------
TypeOK ==
    /\ file \in Files /\ tape \in Tapes
    /\ open \in {"no", "refused", "yes"} /\ day \in 0..MaxDay
    /\ \A i \in DOMAIN out :
          out[i].name \in Names /\ out[i].ok \in BOOLEAN /\ out[i].size \in Sizes

(* Whatever the order of the ideas of a round: no more sized ideas of a    *)
(* cluster or of a round than the caps, and never an index future and a    *)
(* semiconductor both sized unless their correlation is known to be low.   *)
RoundIsNetted ==
    /\ \A i \in Sized : Cardinality(SizedIn(file[out[i].name].cluster)) <= MaxPerCluster
    /\ \A r \in {file[n].round : n \in Names} :
          Cardinality({i \in Sized : file[out[i].name].round = r}) <= MaxPerRound
    /\ corr # "low" => SizedIn("semis_ai") = {} \/ SizedIn("index_futures") = {}

(* Only a member of the locked universe is ever sized, however its row is  *)
(* written.                                                                *)
SizedIsLocked ==
    \A i \in Sized : [name |-> out[i].name, membership |-> "in_universe"] \in LockedWatchlist

(* A shorter horizon never closes a gate that a longer one passed: of two  *)
(* ideas on a name in one round, the shorter one is published if the       *)
(* longer one is.                                                          *)
ShorterIsSafer ==
    \A i, j \in DOMAIN out :
        LET days(k) == IF out[k].horizon = Default THEN DefaultDays ELSE out[k].horizon
        IN (out[i].name = out[j].name /\ days(i) <= days(j) /\ out[j].ok) => out[i].ok

(* A published idea has no verified gate-5 event of its name on any day of *)
(* its window, the first and the last included, and no running lockup.     *)
PublishedIsClear ==
    \A i \in DOMAIN out : out[i].ok =>
        /\ file[out[i].name].lockup <= day
        /\ ~\E e \in Events :
              /\ e.verified /\ Relevant(e) /\ (out[i].name \in e.names \/ (e.names = {} /\ e.market))
              /\ day <= e.day
              /\ e.day <= day + (IF out[i].horizon = Default THEN DefaultDays ELSE out[i].horizon)

(* A scan that says OK covered every name of the list with values, and a   *)
(* complete one left out only blocked names.                               *)
ScanIsHonest == open = "yes" /\ Asserted(file) =>
    /\ ScanStatus = "OK" => \A n \in Names : tape[n] \in {"stale", "fresh"}
    /\ Covered = Scannable /\ Scannable # {} =>
          \A n \in Names : tape[n] \in {"none", "empty"} => Tier(file, n) = "blocked"

IdeasAreGated == RoundIsNetted /\ SizedIsLocked /\ ShorterIsSafer /\ PublishedIsClear /\ ScanIsHonest
=============================================================================
