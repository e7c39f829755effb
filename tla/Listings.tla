------------------------------- MODULE Listings -------------------------------
(***************************************************************************)
(* The listings screen (mm_listings, mm_desks.listings; lab listings scan).*)
(* Deals, bars, index events and closed outcomes arrive with two clocks,   *)
(* when they became known and when they were ingested.  A scan of a day    *)
(* sees the rows both of whose clocks are past by then; it tracks each deal*)
(* against its offer, warns, judges its liquidity and gives a closed       *)
(* verdict.  Times are days.                                               *)
(***************************************************************************)
EXTENDS Naturals, Sequences, FiniteSets, FiniteSetsExt

CONSTANTS Deals,      \* [inst, offer, listed, spread, depth, adv, facts] a calendar may have
          Traded,     \* instruments the panel has bars of
          Prints,     \* [close, volume] a bar may have
          None,       \* what is absent
          Spans,      \* days of the two path windows
          Slack,      \* days short of a window that still close it
          ThinDays,   \* days of history below which nothing is said
          NMin,       \* outcomes a base rate needs
          Clips, AdvBps,                  \* clip sizes, what each costs of the volume
          BudgetBps, ThinBps, ThinClip,
          Hashes,     \* what a run inherits: instrument -> its trade math, or None
          MaxTime, MaxRows, MaxEach, MaxScans      \* bounds

VARIABLES now,
          deals, prices, events, outcomes,  \* rows, in the order a file holds them
          stamped,                          \* whether rows carry an ingestion stamp
          disk,                             \* day scanned -> the run in its directory
          scans

vars == <<now, deals, prices, events, outcomes, stamped, disk, scans>>

NoRuns == [c \in {} |-> None]

Init ==
    /\ now = 1
    /\ deals = <<>> /\ prices = <<>> /\ events = <<>> /\ outcomes = <<>>
    /\ stamped \in BOOLEAN
    /\ disk = NoRuns /\ scans = 0

-----------------------------------------------------------------------------
(* Point in time.  A row without an ingestion stamp takes its knowledge    *)
(* time for one.                                                           *)
Visible(row, cut) == row.known <= cut /\ row.ingested <= cut

(* Some rows in an order: before says of each which of them come before it.*)
Place(before, k) == CHOOSE i \in DOMAIN before : Cardinality(before[i]) = k - 1
Arranged(rows, before) ==
    [k \in 1..Cardinality(DOMAIN before) |-> rows[Place(before, k)]]

Kept(rows, at) == Arranged(rows, [i \in at |-> {j \in at : j < i}])
VisibleRows(rows, cut) == Kept(rows, {i \in DOMAIN rows : Visible(rows[i], cut)})

(* bars_for: by the time they became known, then by the day they are of.   *)
Earlier(a, b) == a.known < b.known \/ (a.known = b.known /\ a.day < b.day)
ComesFirst(j, i) ==
    Earlier(prices[j], prices[i]) \/ (~Earlier(prices[i], prices[j]) /\ j < i)
InKnowledgeOrder(at) == Arranged(prices, [i \in at |-> {j \in at : ComesFirst(j, i)}])

BarsOf(inst, cut) ==
    InKnowledgeOrder({i \in DOMAIN prices : prices[i].inst = inst /\ Visible(prices[i], cut)})

(* The close a window ends with: the last near its end, or the last bar    *)
(* before the first beyond it.                                             *)
CloseNear(post, listed, span) ==
    LET end == listed + span
        inside == {i \in DOMAIN post : post[i].day <= end}
        before == {i \in inside : \A j \in 1..i : j \in inside}
        near == {i \in inside : end <= post[i].day + Slack}
    IN  CASE before = {} -> None
          [] near # {} -> post[Max(near)].close
          [] OTHER -> post[Max(before)].close

(* _reclaimed: a close below the level, and a later one at or above it.    *)
Reclaimed(post, level) ==
    IF level = None \/ post = <<>> THEN None
    ELSE \E i, j \in DOMAIN post : i < j /\ post[i].close < level /\ level <= post[j].close

(* track_listing; a bar's high and low are absent, so that its close       *)
(* stands for both, and so does its volume where the day has no VWAP.      *)
Vwap(first) == IF first # <<>> /\ first[1].volume THEN first[1].close ELSE None

Path(d, post, span) ==
    IF d.offer = None \/ d.listed = None THEN None ELSE CloseNear(post, d.listed, span)

DaysSeen(d, seen) ==
    IF d.listed = None THEN None ELSE Cardinality({seen[i].day : i \in DOMAIN seen})

Gaps(d, seen, post, first) ==
    {g \in {"listing_date", "day1_bars", "day1_vwap", "offer_price", "price_history",
            "day1_high", "ret_30d", "ret_90d"} :
       CASE g = "listing_date" -> d.listed = None
         [] g = "day1_bars" -> d.listed # None /\ first = <<>>
         [] g = "day1_vwap" -> first # <<>> /\ Vwap(first) = None
         [] g = "offer_price" -> d.offer = None
         [] g = "price_history" -> DaysSeen(d, seen) \in {None, 0}
         [] g = "day1_high" -> d.listed # None /\ seen # <<>> /\ first = <<>>
         [] g = "ret_30d" -> d.listed # None /\ seen # <<>> /\ Path(d, post, Spans[1]) = None
         [] g = "ret_90d" -> d.listed # None /\ seen # <<>> /\ Path(d, post, Spans[2]) = None}

Tracked(d, seen, post, first, gaps) ==
    [days |-> DaysSeen(d, seen), ret30 |-> Path(d, post, Spans[1]),
     ret90 |-> Path(d, post, Spans[2]), vwap |-> Vwap(first),
     trough |-> IF first = <<>> THEN None ELSE Min({post[i].close : i \in DOMAIN post}),
     offer |-> Reclaimed(post, d.offer), day1 |-> Reclaimed(post, Vwap(first)), gaps |-> gaps,
     status |-> IF seen = <<>> THEN "unavailable" ELSE IF gaps # {} THEN "partial" ELSE "ok"]

Track(d, cut) ==
    LET seen == BarsOf(d.inst, cut)
        post == Kept(seen, {i \in DOMAIN seen : d.listed # None /\ seen[i].day >= d.listed})
        first == Kept(post, {i \in DOMAIN post : post[i].day = d.listed})
    IN  Tracked(d, seen, post, first, Gaps(d, seen, post, first))

-----------------------------------------------------------------------------
(* clip_estimates: half the spread and the impact on the book, or else a   *)
(* share of the volume, or nothing.                                        *)
Slippage(d, clip) ==
    IF d.spread # None /\ d.depth # None
    THEN IF d.depth = 0 THEN None ELSE d.spread \div 2 + clip \div d.depth
    ELSE IF d.adv THEN AdvBps[clip] ELSE None

(* classify_verdict over the clips.                                        *)
Liquidity(d) ==
    LET tried == {c \in Clips : Slippage(d, c) # None}
        fits == {c \in tried : Slippage(d, c) <= BudgetBps}
        reference == IF ThinClip \in tried THEN ThinClip ELSE Max(fits)
    IN  CASE tried = {} -> "unavailable"
          [] tried # {} /\ fits = {} -> "untradeable"
          [] fits # {} /\ (Max(fits) < ThinClip \/ Slippage(d, reference) > ThinBps) -> "thin"
          [] OTHER -> "ok"

(* warning_block: six facts, missing rather than made up.                  *)
Warning(d, t) ==
    LET missing == ({"float", "borrow", "lockup"} \ d.facts)
                   \cup {f \in {"days", "spread", "depth"} :
                           CASE f = "days" -> t.days = None
                             [] f = "spread" -> d.spread = None
                             [] f = "depth" -> d.depth = None}
    IN  [missing |-> missing,
         status |-> IF Cardinality(missing) = 6 THEN "unavailable"
                    ELSE IF missing # {} \/ Liquidity(d) = "unavailable" THEN "partial" ELSE "ok"]

(* compute_base_rates: our own closed outcomes, and none below the minimum.*)
BaseRate(cut) ==
    LET seen == VisibleRows(outcomes, cut)
    IN  [n |-> Len(seen),
         claimed |-> Len(seen) >= NMin /\ \E i \in DOMAIN seen : seen[i].ret]

(* listings_quant_verdict.                                                 *)
Verdict(d, t, claimed) ==
    IF IF t.days = None THEN Liquidity(d) = "unavailable" ELSE t.days < ThinDays
    THEN "INSUFFICIENT_DATA"
    ELSE IF Liquidity(d) # "untradeable" /\ claimed /\ (t.offer = TRUE \/ t.day1 = TRUE)
    THEN "MONITOR"
    ELSE "DEFER"

Idea(d, t, claimed, math) ==
    [inst |-> d.inst, price |-> d.offer, track |-> t, warning |-> Warning(d, t), liquidity |-> Liquidity(d),
     observe |-> Liquidity(d) = "untradeable", verdict |-> Verdict(d, t, claimed),
     math |-> math[d.inst]]

(* compute_listings; a missing feed has neither deals nor index events.    *)
Quality(ideas, missing) ==
    CASE missing -> "unavailable"
      [] ~missing /\ \E i \in DOMAIN ideas : ideas[i].track.status # "ok" -> "partial"
      [] OTHER -> "ok"

Snapshot(cut, missing, math) ==
    LET seen == IF missing THEN <<>> ELSE VisibleRows(deals, cut)
        base == BaseRate(cut)
        idea(d) == Idea(d, Track(d, cut), base.claimed, math)
        ideas == [i \in DOMAIN seen |-> idea(seen[i].deal)]
    IN  [ideas |-> ideas, base |-> base, quality |-> Quality(ideas, missing),
         index |-> IF missing THEN <<>> ELSE VisibleRows(events, cut)]

(* _status_for and the completeness of run_listings: what was seen of all  *)
(* the rows of the files, seen or not.                                     *)
RunOf(snap, missing, math) ==
    LET empty == ~missing /\ snap.ideas = <<>> /\ snap.index = <<>>
    IN  [missing |-> missing, math |-> math, snap |-> snap, empty |-> empty,
         status |-> IF empty \/ snap.quality = "ok" THEN "OK" ELSE "DEGRADED",
         percent |-> IF empty THEN 100
                     ELSE IF missing THEN 0
                     ELSE (100 * (Len(snap.ideas) + Len(snap.index))) \div (Len(deals) + Len(events))]

Run(cut, missing, math) == RunOf(Snapshot(cut, missing, math), missing, math)

(* listings_ladder_payloads: the card of the first idea.                   *)
Card(r) ==
    IF r.snap.ideas = <<>>
    THEN [inst |-> None, math |-> None, permission |-> "none",
          state |-> IF r.empty THEN "no_listing_day" ELSE "unavailable"]
    ELSE LET idea == r.snap.ideas[1] IN
         [inst |-> idea.inst, math |-> idea.math,
          permission |-> IF idea.observe THEN "observation_only" ELSE "research",
          state |-> CASE idea.observe -> "observation_only"
                      [] ~idea.observe /\ idea.verdict = "INSUFFICIENT_DATA" -> "thin_history"
                      [] idea.verdict = "MONITOR" -> "reclaim_watch"
                      [] OTHER -> "listed_watch"]

(* snapshot_envelopes: the claims of an idea that have no value.           *)
Unsaid(idea) ==
    {m \in {"vs_offer", "vwap", "ret_30d", "ret_90d", "drawdown", "liquidity"} :
       CASE m = "vs_offer" -> idea.price = None \/ idea.track.trough = None
         [] m = "vwap" -> idea.track.vwap = None
         [] m = "ret_30d" -> idea.track.ret30 = None
         [] m = "ret_90d" -> idea.track.ret90 = None
         [] m = "drawdown" -> idea.track.trough = None
         [] m = "liquidity" -> idea.liquidity = "unavailable"}

-----------------------------------------------------------------------------
Ingested(known) == IF stamped THEN now ELSE known

Room(rows, each) ==
    /\ Len(rows) < each
    /\ Len(deals) + Len(prices) + Len(events) + Len(outcomes) < MaxRows

(* Rows are appended to the calendar and the panel, on the day they become *)
(* known; a bar perhaps later.                                             *)
AddDeal(d) ==
    /\ Room(deals, MaxEach)
    /\ deals' = Append(deals, [known |-> now, ingested |-> Ingested(now), deal |-> d])
    /\ UNCHANGED <<now, prices, events, outcomes, stamped, disk, scans>>

AddBar(inst, day, p, known) ==
    /\ Room(prices, MaxEach) /\ day <= known /\ known <= now
    /\ \A i \in DOMAIN prices : prices[i].inst = inst => prices[i].day # day
    /\ prices' = Append(prices, [known |-> known, ingested |-> Ingested(known), inst |-> inst,
                                 day |-> day, close |-> p.close, volume |-> p.volume])
    /\ UNCHANGED <<now, deals, events, outcomes, stamped, disk, scans>>

AddEvent ==
    /\ Room(events, 1)
    /\ events' = Append(events, [known |-> now, ingested |-> Ingested(now)])
    /\ UNCHANGED <<now, deals, prices, outcomes, stamped, disk, scans>>

AddOutcome(ret) ==
    /\ Room(outcomes, 1)
    /\ outcomes' = Append(outcomes, [known |-> now, ingested |-> Ingested(now), ret |-> ret])
    /\ UNCHANGED <<now, deals, prices, events, stamped, disk, scans>>

Tick ==
    /\ now < MaxTime
    /\ now' = now + 1
    /\ UNCHANGED <<deals, prices, events, outcomes, stamped, disk, scans>>

(* lab listings scan over the frozen day of a cut, which is over, with     *)
(* --out: the files of that session are replaced.                          *)
Scan(cut, missing, math) ==
    /\ scans < MaxScans /\ cut < now
    /\ scans' = scans + 1
    /\ disk' = [c \in DOMAIN disk \cup {cut} |->
                  IF c = cut THEN Run(cut, missing, math) ELSE disk[c]]
    /\ UNCHANGED <<now, deals, prices, events, outcomes, stamped>>

Next ==
    \/ \E d \in Deals : AddDeal(d)
    \/ \E n \in Traded, day, k \in 1..MaxTime, p \in Prints : AddBar(n, day, p, k)
    \/ AddEvent
    \/ \E ret \in BOOLEAN : AddOutcome(ret)
    \/ Tick
    \/ \E cut \in 1..MaxTime, missing \in BOOLEAN, math \in Hashes : Scan(cut, missing, math)

Spec == Init /\ [][Next]_vars

-----------------------------------------------------------------------------
TypeOK ==
    /\ now \in 1..MaxTime /\ stamped \in BOOLEAN /\ scans \in 0..MaxScans
    /\ \A rows \in {deals, prices, events, outcomes} : \A i \in DOMAIN rows :
          rows[i].known <= rows[i].ingested /\ rows[i].ingested <= now
    /\ \A c \in DOMAIN disk : c <= now /\ disk[c].status \in {"OK", "DEGRADED"}
                                       /\ disk[c].percent \in 0..100

(* What was screened for a day is what a screening of that day finds ever  *)
(* after, however late rows come: no later row looks back, as long as the  *)
(* rows carry the day of their ingestion.                                  *)
ReplayIsStable == stamped =>
    \A c \in DOMAIN disk :
        Snapshot(c, disk[c].missing, disk[c].math) = disk[c].snap

(* A run that calls itself OK has every number of every deal it shows, and *)
(* a name to monitor fell below its offer or its first day and came back,  *)
(* in the order of days when its bars became known in that order.          *)
Ordered(inst, cut) == LET s == BarsOf(inst, cut) IN
    \A i, j \in DOMAIN s : i < j => s[i].day < s[j].day

CameBack(inst, cut, level) ==
    \E i, j \in DOMAIN prices :
        /\ {prices[i].inst, prices[j].inst} = {inst}
        /\ Visible(prices[i], cut) /\ Visible(prices[j], cut)
        /\ prices[i].day < prices[j].day
        /\ prices[i].close < level /\ level <= prices[j].close

OkHasEveryNumber ==
    \A c \in DOMAIN disk : disk[c].status = "OK" =>
        \A i \in DOMAIN disk[c].snap.ideas :
            Unsaid(disk[c].snap.ideas[i]) \subseteq {"liquidity"}

MonitorIsEarned ==
    \A c \in DOMAIN disk : \A i \in DOMAIN disk[c].snap.ideas :
        LET idea == disk[c].snap.ideas[i] IN idea.verdict = "MONITOR" =>
            /\ ~idea.observe /\ disk[c].snap.base.n >= NMin
            /\ Ordered(idea.inst, c) =>
                  \/ idea.price # None /\ CameBack(idea.inst, c, idea.price)
                  \/ idea.track.vwap # None /\ CameBack(idea.inst, c, idea.track.vwap)

(* The card of a run is of a deal it shows, carries the trade math of that *)
(* instrument and of no other, and permits nothing to a name that cannot   *)
(* be traded; a run without a card saw no deal.                            *)
CardFollowsRun ==
    \A c \in DOMAIN disk : LET card == Card(disk[c]) IN
        /\ card.inst # None => card.math = disk[c].math[card.inst]
        /\ card.permission = "research" => disk[c].snap.ideas[1].liquidity # "untradeable"
        /\ card.state = "no_listing_day" => ~disk[c].missing /\ disk[c].status = "OK"
        /\ card.state = "reclaim_watch" => disk[c].snap.base.claimed

ListingsAreHonest ==
    ReplayIsStable /\ OkHasEveryNumber /\ MonitorIsEarned /\ CardFollowsRun
=============================================================================
