------------------------------ MODULE QuantBoard ------------------------------
(***************************************************************************)
(* mm_research_kit.quant_review: the Quant Review Board.  Every instrument *)
(* of a universe gets a card with reason codes and one verdict, the board  *)
(* keeps at most MaxPriority research priorities, and board, cards, run    *)
(* record and index row are written one after another.  The locked pass    *)
(* writes its prepared cards to a day's folder in the same way.            *)
(***************************************************************************)
EXTENDS Naturals, FiniteSets

CONSTANTS Screen,       \* instruments of the review universe, in name order
          Locked,       \* instruments of the locked pass
          Cases,        \* what a snapshot and the universe may say of one
          MaxPriority,  \* MAX_RESEARCH_PRIORITY
          Days,         \* review dates
          MaxRuns       \* bound: boards of a behaviour

VARIABLES pc,
          kind,     \* "screen", or "locked" for the locked pass
          day,
          facts,    \* instrument -> its case
          cards,    \* instrument -> [verdict, codes, arb]
          left,     \* cards still to write
          disk,     \* day -> [board, cards, meta]: the run that wrote each
          table,    \* runs with a row in research_run
          run

vars == <<pc, kind, day, facts, cards, left, disk, table, run>>

Codes == {"NO_MISPRICING", "NO_CATALYST", "RECLAIM_UNCONFIRMED", "ALREADY_PRICED",
          "DUPLICATE_BETA", "CORRELATED_EXPOSURE", "INADEQUATE_LIQUIDITY",
          "STALE_OR_PARTIAL_DATA", "INSUFFICIENT_HISTORY", "UNEXECUTABLE_ARB",
          "DILUTION_OR_LOCKUP_RISK", "THESIS_NOT_FALSIFIABLE"}
Verdicts == {"RESEARCH_PRIORITY", "MONITOR", "DEFER", "INSUFFICIENT_DATA"}

-----------------------------------------------------------------------------
(* review_instrument, from one case c.  c.move is the print: none, flat,   *)
(* up or down beyond the peers ("up", "crash"), or an ordinary fall;       *)
(* c.overlay the series: none, too short, long, or long and far from its   *)
(* benchmark; c.q the worst quality of what is there.                      *)
HasPrint(c) == c.move # "none"
HasHistory(c) == c.overlay \in {"long", "wide"}
Missing(c) == ~HasPrint(c) /\ c.overlay = "none" /\ ~c.memory

Stale(c) == c.q \in {"stale", "contradicted"} \/ c.old

Quality(c) == IF c.q # "ok" THEN c.q
              ELSE IF ~HasPrint(c) THEN "partial"
              ELSE IF Stale(c) THEN "stale" ELSE "ok"

Unusual(c) == "B" \in c.tracks /\ \/ c.move \in {"up", "crash"} /\ c.peers
                                  \/ c.overlay = "wide"

Executable(c) == "D" \in c.tracks /\ c.arb

Down(c) == c.move \in {"down", "crash"}

DownOnly(c) == /\ "C" \in c.tracks /\ c.postIpo /\ Down(c)
               /\ ~(c.catalyst /\ c.invalidation)

Liquid(c) == c.liquid \/ (c.overlay # "none" /\ c.adv) \/ (c.major /\ HasHistory(c))

When(condition, codes) == IF condition THEN codes ELSE {}

(* Duplicate beta, and the exposure shared with the sector, unless the     *)
(* snapshot addresses them.                                                *)
BetaCodes(c) ==
    IF "dup" \in c.beta /\ "DUPLICATE_BETA" \notin c.addressed
    THEN {"DUPLICATE_BETA", "CORRELATED_EXPOSURE"}
    ELSE When("corr" \in c.beta /\ c.role # "benchmark"
                  /\ "CORRELATED_EXPOSURE" \notin c.addressed, {"CORRELATED_EXPOSURE"})

ReasonsOf(c) == UNION {
    When("A" \in c.tracks /\ ~c.reclaim, {"RECLAIM_UNCONFIRMED"}),
    When("A" \in c.tracks /\ ~HasHistory(c), {"INSUFFICIENT_HISTORY"}),
    When("B" \in c.tracks /\ HasPrint(c) /\ ~c.peers, {"INSUFFICIENT_HISTORY"}),
    When("B" \in c.tracks /\ ~Unusual(c) /\ c.role # "benchmark", {"NO_MISPRICING"}),
    When(DownOnly(c), {"NO_CATALYST", "THESIS_NOT_FALSIFIABLE"}),
    When("C" \in c.tracks /\ c.postIpo /\ ~c.listed, {"INSUFFICIENT_HISTORY"}),
    When("C" \in c.tracks /\ c.postIpo /\ Down(c), {"DILUTION_OR_LOCKUP_RISK"}),
    When("D" \in c.tracks /\ ~c.arb, {"UNEXECUTABLE_ARB"}),
    When(Missing(c), {"STALE_OR_PARTIAL_DATA", "INSUFFICIENT_HISTORY"}),
    When(Stale(c) \/ Quality(c) # "ok", {"STALE_OR_PARTIAL_DATA"}),
    When(~Liquid(c), {"INADEQUATE_LIQUIDITY"}),
    BetaCodes(c),
    When(~c.catalyst, {"NO_CATALYST"}),
    When(~c.invalidation, {"THESIS_NOT_FALSIFIABLE"}),
    When(c.role = "benchmark", {"NO_MISPRICING"})}

(* A card always has a code: without a reason it is not mispriced.         *)
CodesOf(c) == IF ReasonsOf(c) = {} THEN {"NO_MISPRICING"} ELSE ReasonsOf(c)

(* Every code blocks a promotion that the snapshot does not address, but   *)
(* for the two that a card may keep.                                       *)
Blocking(c) == CodesOf(c) \ (c.addressed \cup {"UNEXECUTABLE_ARB"}
                                \cup When(~c.reclaim, {"RECLAIM_UNCONFIRMED"}))

BetaIsClear(c) ==
    \/ CodesOf(c) \cap {"DUPLICATE_BETA", "STALE_OR_PARTIAL_DATA", "CORRELATED_EXPOSURE"} = {}
    \/ {"DUPLICATE_BETA", "CORRELATED_EXPOSURE"} \subseteq c.addressed
          /\ "STALE_OR_PARTIAL_DATA" \notin CodesOf(c)

(* PromotionChecklist.all_met                                              *)
Anomaly(c) == Unusual(c) \/ c.reclaim \/ Executable(c)

AllMet(c) ==
    /\ ~Stale(c) /\ ~Missing(c) /\ Quality(c) = "ok"
    /\ c.defined
    /\ Anomaly(c)
    /\ c.overlooked /\ c.catalyst /\ c.invalidation
    /\ Liquid(c)
    /\ BetaIsClear(c) /\ Blocking(c) = {}

VerdictOf(c) ==
    CASE Missing(c)                                              -> "INSUFFICIENT_DATA"
      [] ~Missing(c) /\ AllMet(c)                                -> "RESEARCH_PRIORITY"
      [] ~Missing(c) /\ ~AllMet(c) /\ DownOnly(c)                -> "DEFER"
      [] OTHER ->
            IF ~HasHistory(c) /\ ~Unusual(c) /\ ~Executable(c) THEN "INSUFFICIENT_DATA"
            ELSE IF Unusual(c) \/ c.reclaim                    THEN "MONITOR"
            ELSE IF Stale(c) /\ c.role # "benchmark"           THEN "INSUFFICIENT_DATA"
            ELSE "DEFER"

CardOf(c) == [verdict |-> VerdictOf(c), codes |-> CodesOf(c), arb |-> Executable(c)]

(* apply_priority_cap: the priorities all meet every criterion, so an      *)
(* executable package ranks first and then the later name; the others are  *)
(* demoted with one more code.                                             *)
Priorities(cs) == {i \in DOMAIN cs : cs[i].verdict = "RESEARCH_PRIORITY"}

(* Mutant: executable packages rank by name like the rest.                 *)
AheadByName(cs, i, j) == i > j

Ahead(cs, i, j) == \/ cs[i].arb /\ ~cs[j].arb
                   \/ cs[i].arb = cs[j].arb /\ i > j

Capped(cs) ==
    [i \in DOMAIN cs |->
        IF i \in Priorities(cs) /\ Cardinality({j \in Priorities(cs) : Ahead(cs, j, i)}) >= MaxPriority
        THEN [cs[i] EXCEPT !.verdict = "MONITOR", !.codes = @ \cup {"ALREADY_PRICED"}]
        ELSE cs[i]]

-----------------------------------------------------------------------------
Nothing == [i \in {} |-> 0]

TypeOK ==
    /\ pc \in {"idle", "board", "cards", "meta", "stamp", "index"}
    /\ kind \in {"screen", "locked"}
    /\ day \in Days \cup {0}
    /\ \A i \in DOMAIN cards : cards[i].verdict \in Verdicts /\ cards[i].codes \subseteq Codes
    /\ left \subseteq Screen \cup Locked
    /\ \A d \in Days : disk[d].board \in 0..MaxRuns /\ disk[d].meta \in 0..MaxRuns
    /\ table \subseteq 1..MaxRuns
    /\ run \in 0..MaxRuns

Init ==
    /\ pc = "idle" /\ kind = "screen" /\ day = 0
    /\ facts = Nothing /\ cards = Nothing /\ left = {}
    /\ disk = [d \in Days |-> [board |-> 0, cards |-> [i \in Screen \cup Locked |-> 0], meta |-> 0]]
    /\ table = {}
    /\ run = 0

(* lab quant-review: cards, cap, and the language gate over the text.      *)
RunBoard(d, f) ==
    /\ pc = "idle" /\ run < MaxRuns
    /\ pc' = "board" /\ kind' = "screen" /\ day' = d
    /\ facts' = f
    /\ cards' = Capped([i \in Screen |-> CardOf(f[i])])
    /\ left' = Screen
    /\ run' = run + 1
    /\ UNCHANGED <<disk, table>>

(* _card: a prepared card is never a priority.                             *)
Prepared == [Locked -> Verdicts \ {"RESEARCH_PRIORITY"}]

(* lab quant-review --locked-membership.                                   *)
LockedPass(d, verdicts) ==
    /\ pc = "idle" /\ run < MaxRuns
    /\ pc' = "board" /\ kind' = "locked" /\ day' = d
    /\ facts' = Nothing
    /\ cards' = [i \in Locked |-> [verdict |-> verdicts[i], codes |-> {"NO_CATALYST"}, arb |-> FALSE]]
    /\ left' = Locked
    /\ run' = run + 1
    /\ UNCHANGED <<disk, table>>

(* write_board: the board, the cards in the order of the universe, then    *)
(* the run record; cards of names it does not have stay in the folder.     *)
WriteBoard ==
    /\ pc = "board"
    /\ disk' = [disk EXCEPT ![day].board = run]
    /\ pc' = "cards"
    /\ UNCHANGED <<kind, day, facts, cards, left, table, run>>

WriteCard(i) ==
    /\ pc = "cards" /\ i \in left /\ \A j \in left : i <= j
    /\ disk' = [disk EXCEPT ![day].cards[i] = run]
    /\ left' = left \ {i}
    /\ pc' = IF left' = {} THEN "meta" ELSE pc
    /\ UNCHANGED <<kind, day, facts, cards, table, run>>

WriteMeta ==
    /\ pc = "meta"
    /\ disk' = [disk EXCEPT ![day].meta = run]
    /\ pc' = IF kind = "locked" THEN "stamp" ELSE "index"
    /\ UNCHANGED <<kind, day, facts, cards, left, table, run>>

Ended == pc' = "idle" /\ facts' = Nothing /\ cards' = Nothing /\ left' = {}

(* The locked pass rewrites its run record, and is not indexed.            *)
StampMeta ==
    /\ pc = "stamp"
    /\ Ended
    /\ UNCHANGED <<kind, day, disk, table, run>>

(* _index_run: with --no-db, or with a database that fails, no row.        *)
IndexRun(indexed) ==
    /\ pc = "index"
    /\ table' = IF indexed THEN table \cup {run} ELSE table
    /\ Ended
    /\ UNCHANGED <<kind, day, disk, run>>

Die ==
    /\ pc # "idle"
    /\ Ended
    /\ UNCHANGED <<kind, day, disk, table, run>>

Next ==
    \/ \E d \in Days, f \in [Screen -> Cases] : RunBoard(d, f)
    \/ \E d \in Days, v \in Prepared : LockedPass(d, v)
    \/ WriteBoard
    \/ \E i \in Screen \cup Locked : WriteCard(i)
    \/ WriteMeta
    \/ StampMeta
    \/ \E indexed \in BOOLEAN : IndexRun(indexed)
    \/ Die

Spec == Init /\ [][Next]_vars

-----------------------------------------------------------------------------
(* A priority stands on the raw facts: current data of good quality, an    *)
(* anomaly, a catalyst and an invalidation, liquidity, and no shared beta  *)
(* that the snapshot did not address.                                      *)
PriorityIsEarned == \A i \in Priorities(cards) :
    LET c == facts[i] IN
    /\ kind = "screen"
    /\ c.q = "ok" /\ ~c.old /\ HasPrint(c)
    /\ c.catalyst /\ c.invalidation /\ c.overlooked
    /\ c.liquid \/ c.adv \/ c.major
    /\ c.reclaim \/ c.arb \/ c.overlay = "wide" \/ c.move \in {"up", "crash"}
    /\ "dup" \in c.beta => "DUPLICATE_BETA" \in c.addressed
    /\ c.role = "benchmark" => "NO_MISPRICING" \in c.addressed

(* Never more priorities than the cap, none demoted below it, and never an *)
(* executable package demoted for a card that has none.                    *)
BoardIsCapped == kind = "screen" /\ cards # Nothing =>
    LET demoted == {i \in DOMAIN cards : "ALREADY_PRICED" \in cards[i].codes} IN
    /\ Cardinality(Priorities(cards)) <= MaxPriority
    /\ demoted # {} => Cardinality(Priorities(cards)) = MaxPriority
    /\ \A i \in demoted, j \in Priorities(cards) : cards[i].arb => cards[j].arb

(* What a card lacks decides it: nothing known is insufficient data, a     *)
(* fall after a listing without why-now is never more than deferred.       *)
GapsDecide == \A i \in DOMAIN facts :
    /\ Missing(facts[i]) => cards[i].verdict = "INSUFFICIENT_DATA"
    /\ DownOnly(facts[i]) => cards[i].verdict \in {"DEFER", "INSUFFICIENT_DATA"}
    /\ cards[i].codes # {}

(* The run record is written last: the board and the cards it names are    *)
(* of its run or of a later one; and an indexed run has its record.        *)
MetaIsLast == \A d \in Days :
    /\ disk[d].board >= disk[d].meta
    /\ disk[d].meta > 0 => \/ \A i \in Screen : disk[d].cards[i] >= disk[d].meta
                           \/ \A i \in Locked : disk[d].cards[i] >= disk[d].meta

IndexedIsWritten == \A r \in table : \E d \in Days : disk[d].meta >= r

BoardIsHonest ==
    /\ PriorityIsEarned
    /\ BoardIsCapped
    /\ GapsDecide
    /\ MetaIsLast
    /\ IndexedIsWritten
=============================================================================
