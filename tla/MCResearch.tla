------------------------------ MODULE MCResearch ------------------------------
(* One instance of Research, small enough for TLC.                         *)
EXTENDS Research

(* Four names of the locked universe, one to watch and one to cut.         *)
Name(tier, cluster, round) ==
    [tier |-> tier, blocked |-> FALSE, resolved |-> TRUE, cluster |-> cluster, round |-> round,
     listing |-> FALSE, lockup |-> 0, confirmed |-> TRUE, archive |-> FALSE]

Reviewed ==
    [nvda |-> Name("universe", "semis_ai", "base"), amd |-> Name("universe", "semis_ai", "base"),
     es |-> Name("universe", "index_futures", "base"), btc |-> Name("universe", "crypto_major", "base"),
     doge |-> [Name("monitor", "meme_t3", "crypto") EXCEPT !.lockup = 2],
     pump |-> [Name("monitor", "crypto_alt", "crypto") EXCEPT !.blocked = TRUE, !.archive = TRUE]]

(* As reviewed, and with one thing about it wrong or changed.              *)
FiveLists == {Reviewed,
          [Reviewed EXCEPT !.doge.tier = "universe"],
          [Reviewed EXCEPT !.amd.blocked = TRUE],
          [Reviewed EXCEPT !.es.resolved = FALSE],
          [Reviewed EXCEPT !.btc.blocked = TRUE, !.doge.listing = TRUE]}

ReviewedNames == DOMAIN Reviewed

Membership ==
    [in |-> {"nvda", "amd", "es", "btc"}, watch |-> {"doge"}, deferred |-> {"pump"},
     all |-> DOMAIN Reviewed]

Event(d, verified, earnings, flagged, names) ==
    [day |-> d, verified |-> verified, earnings |-> earnings, flag |-> flagged,
     market |-> names = {}, names |-> names]

OneCalendar == {Event(2, TRUE, TRUE, "unset", {"nvda"}), Event(1, FALSE, FALSE, "yes", {}),
             Event(3, TRUE, FALSE, "yes", {})}

TwoTapes == {[n \in DOMAIN Reviewed |-> IF n = "pump" THEN "none" ELSE "stale"],
            [n \in DOMAIN Reviewed |-> CASE n = "es" -> "partial" [] n = "amd" -> "empty"
                                         [] OTHER -> "fresh"]}

TwoHorizons == {-1, 2}

-----------------------------------------------------------------------------
(* An instrument that meets every criterion, and what others lack or have. *)
Good ==
    [tracks |-> {"A", "B"}, role |-> "name", postIpo |-> FALSE, listed |-> TRUE, beta |-> {},
     peers |-> TRUE, move |-> "up", overlay |-> "long", memory |-> FALSE, q |-> "ok", old |-> FALSE,
     reclaim |-> FALSE, arb |-> FALSE, catalyst |-> TRUE, invalidation |-> TRUE, overlooked |-> TRUE,
     liquid |-> TRUE, adv |-> FALSE, major |-> FALSE, defined |-> TRUE, addressed |-> {}]

Shared == {"DUPLICATE_BETA", "CORRELATED_EXPOSURE"}

SomeInstruments ==
    {Good, [Good EXCEPT !.reclaim = TRUE],
     [Good EXCEPT !.tracks = {"A", "B", "D"}, !.arb = TRUE],
     [Good EXCEPT !.old = TRUE], [Good EXCEPT !.q = "partial"],
     [Good EXCEPT !.move = "none", !.overlay = "none"],
     [Good EXCEPT !.move = "none", !.overlay = "wide", !.memory = TRUE],
     [Good EXCEPT !.tracks = {"A", "B", "C"}, !.postIpo = TRUE, !.move = "crash", !.catalyst = FALSE],
     [Good EXCEPT !.tracks = {"A", "B", "C"}, !.postIpo = TRUE, !.move = "down", !.listed = FALSE],
     [Good EXCEPT !.beta = {"dup", "corr"}], [Good EXCEPT !.beta = {"corr"}],
     [Good EXCEPT !.beta = {"dup"}, !.addressed = Shared],
     [Good EXCEPT !.role = "benchmark", !.move = "flat"],
     [Good EXCEPT !.role = "benchmark", !.addressed = {"NO_MISPRICING"}],
     [Good EXCEPT !.liquid = FALSE], [Good EXCEPT !.liquid = FALSE, !.adv = TRUE],
     [Good EXCEPT !.invalidation = FALSE], [Good EXCEPT !.peers = FALSE],
     [Good EXCEPT !.move = "flat", !.overlay = "short"],
     [Good EXCEPT !.move = "flat", !.q = "stale", !.tracks = {"D"}],
     [Good EXCEPT !.overlooked = FALSE]}

-----------------------------------------------------------------------------
(* Bars and their fractions: a low, a breakout, a pull back.               *)
Bar(low, high, close) == [low |-> low, high |-> high, close |-> close]
FourBars == {Bar(1, 1, 1), Bar(5, 9, 9), Bar(8, 9, 9), Bar(7, 8, 7)}
OneHeight == <<1, 1>>
Quarter == <<1, 4>>
OneInFifty == <<1, 50>>

(* An equity that Polygon has, a coin that Coingecko has when Hyperliquid  *)
(* does not answer, and a future of the bars directory.                    *)
Calm == <<Bar(99, 101, 100), Bar(100, 104, 103), Bar(102, 105, 104), Bar(103, 110, 109),
          Bar(104, 111, 106)>>
Jump == <<Bar(99, 101, 100), Bar(98, 101, 99), Bar(120, 130, 125), Bar(300, 410, 400),
          Bar(390, 420, 410)>>
Spike == <<Bar(99, 101, 100), Bar(100, 130, 126), Bar(101, 127, 102), Bar(101, 104, 103),
           Bar(100, 104, 102)>>

FiveSeries ==
    [n \in {"calm", "jump", "early", "short", "spike"} |->
        [first |-> IF n = "early" THEN 1 ELSE 2,
         bars |-> CASE n = "jump" -> Jump [] n = "short" -> SubSeq(Calm, 1, 2)
                    [] n = "spike" -> Spike [] OTHER -> Calm]]

Symbols == <<"NVDA", "SOL", "NQ1!">>
SymbolKinds ==
    [x \in {"NVDA", "SOL", "NQ1!"} |->
        [crypto |-> x = "SOL", equity |-> x # "SOL", listed |-> IF x = "NVDA" THEN 2 ELSE 0]]

VendorSeries ==
    [k \in {"NVDA", "SOL", "NQ1!"} \X {"hyperliquid", "coingecko", "polygon"} |->
        CASE k = <<"NVDA", "polygon">> -> {NoBars, "calm", "jump", "early", "short"}
          [] k = <<"SOL", "hyperliquid">> -> {NoBars, "jump"}
          [] k = <<"SOL", "coingecko">> -> {NoBars, "calm"}
          [] OTHER -> {NoBars}]

BarFiles == [x \in {"NVDA", "SOL", "NQ1!"} |-> IF x = "NQ1!" THEN "spike" ELSE NoBars]

-----------------------------------------------------------------------------
(* The watched files, and the packs of a fixture.                          *)
TwoFiles == <<"prompt", "tags">>
Pack(asOf, key, hash, tag) == [asOf |-> asOf, key |-> key, hashed |-> hash, tag |-> tag]

ThreeFixtures ==
    {<<>>,
     <<Pack(1, "30m", TRUE, FALSE), Pack(1, "30m", TRUE, TRUE), Pack(2, "30m", TRUE, FALSE)>>,
     <<Pack(1, "30m", TRUE, FALSE), Pack(1, "90m", TRUE, TRUE), Pack(1, "30m", FALSE, FALSE)>>}

-----------------------------------------------------------------------------
(* A priced name that has a book, and one to come that has only volume.    *)
Deal == [inst |-> "A", offer |-> 2, listed |-> 1, spread |-> 2, depth |-> 1, adv |-> FALSE,
         facts |-> {"float", "borrow", "lockup"}]

TwoDeals == {Deal, [Deal EXCEPT !.inst = "B", !.offer = NoBars, !.listed = NoBars,
                                !.depth = NoBars, !.adv = TRUE]}
TwoPrints == {[close |-> 1, volume |-> TRUE], [close |-> 3, volume |-> FALSE]}
TwoSpans == <<1, 2>>
NineBps == [c \in {1, 4} |-> 9]
OneHash == {[n \in {"A", "B"} |-> IF n = "A" THEN "math" ELSE NoBars]}
=============================================================================
