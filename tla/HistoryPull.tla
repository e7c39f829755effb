------------------------------ MODULE HistoryPull ------------------------------
(***************************************************************************)
(* The live Hyperliquid ingest: mm_ingest.pipeline.ingest_from_client over *)
(* the info client of hl_info.py, with the normalisers of structure.py and *)
(* mm_provenance.normalize.  The vendor keeps a history of samples for     *)
(* each coin and answers a request with its oldest PageSize samples from   *)
(* the cursor on.  One call after another collects envelopes; only the     *)
(* last step persists them.                                                *)
(***************************************************************************)
EXTENDS Naturals, FiniteSets, Sequences

CONSTANTS Coins,      \* the instruments of an ingest, in order
          Histories,  \* sets of sample times a vendor may have
          WindowEnd,  \* end_ms; the window starts at 1
          PageSize,   \* samples of one page
          FullPage,   \* the length the client takes for a full page
          MaxRuns     \* bound: ingests of a behaviour

VARIABLES pc,       \* "idle" or the call under way
          coin,     \* index of the coin asked for
          vendor,   \* coin -> the samples it has
          cursor,   \* next time asked for
          pulled,   \* coin -> the samples collected, in order
          rows,     \* <<coin, metric>> -> "value", "missing" or "status"
          answered, \* pairs that an answer carried a value for
          session,  \* observations of the open transaction
          durable,  \* observations committed
          runs

vars == <<pc, coin, vendor, cursor, pulled, rows, answered, session, durable, runs>>

CoinSet == {Coins[i] : i \in 1..Len(Coins)}
Snapshot == {"mid_px", "universe"}
Structure == {"basis", "predicted_funding", "l2_spread"}
Metrics == Snapshot \cup Structure
Nothing == [p \in {} |-> "missing"]

Set(f, pairs, v) == [p \in DOMAIN f \cup pairs |-> IF p \in pairs THEN v ELSE f[p]]

(* One row for each coin wanted: a value, or a row that names the field    *)
(* that is missing.                                                        *)
Normalised(f, metric, known) ==
    Set(Set(f, {<<c, metric>> : c \in known}, "value"),
        {<<c, metric>> : c \in CoinSet \ known}, "missing")

Now == Coins[coin]

TypeOK ==
    /\ pc \in {"idle", "mids", "ctxs", "funding", "trades", "predicted", "book", "persist", "commit"}
    /\ coin \in 1..Len(Coins)
    /\ cursor \in 1..WindowEnd + 1
    /\ \A p \in DOMAIN rows : p \in CoinSet \X Metrics /\ rows[p] \in {"value", "missing", "status"}
    /\ answered \subseteq CoinSet \X Metrics
    /\ \A o \in session \cup durable : o[1] \in 1..MaxRuns
    /\ runs \in 0..MaxRuns

Init ==
    /\ pc = "idle" /\ coin = 1 /\ cursor = 1
    /\ vendor \in [CoinSet -> Histories]
    /\ pulled = [c \in CoinSet |-> <<>>]
    /\ rows = Nothing /\ answered = {}
    /\ session = {} /\ durable = {}
    /\ runs = 0

Start ==
    /\ pc = "idle" /\ runs < MaxRuns
    /\ pc' = "mids" /\ coin' = 1 /\ cursor' = 1
    /\ pulled' = [c \in CoinSet |-> <<>>] /\ rows' = Nothing /\ answered' = {}
    /\ session' = {}
    /\ runs' = runs + 1
    /\ UNCHANGED <<vendor, durable>>

(* allMids and metaAndAssetCtxs, and the basis of the same answer.         *)
Mids(known) ==
    /\ pc = "mids"
    /\ rows' = Normalised(rows, "mid_px", known)
    /\ answered' = answered \cup {<<c, "mid_px">> : c \in known}
    /\ pc' = "ctxs"
    /\ UNCHANGED <<coin, vendor, cursor, pulled, session, durable, runs>>

Contexts(listed, priced) ==
    /\ pc = "ctxs" /\ priced \subseteq listed
    /\ rows' = Normalised(Normalised(rows, "universe", listed), "basis", priced)
    /\ answered' = answered \cup {<<c, "universe">> : c \in listed} \cup {<<c, "basis">> : c \in priced}
    /\ pc' = "funding"
    /\ UNCHANGED <<coin, vendor, cursor, pulled, session, durable, runs>>

(* The oldest PageSize samples of s from t on, in order: the i-th has i-1  *)
(* before it.                                                              *)
Page(s, t) ==
    LET due == {x \in s : x >= t /\ x <= WindowEnd}
        length == IF Cardinality(due) < PageSize THEN Cardinality(due) ELSE PageSize
    IN  [i \in 1..length |-> CHOOSE x \in due : Cardinality({y \in due : y < x}) = i - 1]

(* Mutant: a full page is taken for the last one.                          *)
EndsWhenFull(page) == page = <<>> \/ page[Len(page)] <= cursor \/ Len(page) <= FullPage
                      \/ page[Len(page)] + 1 > WindowEnd

(* iter_funding_history and iter_candles: the next page starts after the   *)
(* last sample; a page that is not full, or that does not move on, ends it.*)
Ends(page) == \/ page = <<>>
              \/ page[Len(page)] <= cursor
              \/ Len(page) < FullPage
              \/ page[Len(page)] + 1 > WindowEnd

Funding ==
    /\ pc = "funding"
    /\ LET page == Page(vendor[Now], cursor) IN
       /\ pulled' = [pulled EXCEPT ![Now] = @ \o page]
       /\ IF Ends(page) THEN pc' = "trades" /\ cursor' = 1
                        ELSE pc' = pc /\ cursor' = page[Len(page)] + 1
    /\ UNCHANGED <<coin, vendor, rows, answered, session, durable, runs>>

(* The vendor goes on while it is asked.                                   *)
Sample(c) ==
    /\ pc \in {"funding", "trades"}
    /\ \E h \in Histories :
          /\ vendor[c] \subseteq h /\ vendor[c] # h
          /\ \A x \in h \ vendor[c], y \in vendor[c] : x > y
          /\ \A x \in h \ vendor[c] : x > WindowEnd
          /\ vendor' = [vendor EXCEPT ![c] = h]
    /\ UNCHANGED <<pc, coin, cursor, pulled, rows, answered, session, durable, runs>>

(* recentTrades answers nothing when it fails; then the next coin.         *)
Trades ==
    /\ pc = "trades"
    /\ IF coin < Len(Coins) THEN pc' = "funding" /\ coin' = coin + 1
                            ELSE pc' = "predicted" /\ coin' = 1
    /\ UNCHANGED <<vendor, cursor, pulled, rows, answered, session, durable, runs>>

(* predictedFundings fails for all coins together, l2Book for one.         *)
Predicted(known) ==
    /\ pc = "predicted"
    /\ rows' = Normalised(rows, "predicted_funding", known)
    /\ answered' = answered \cup {<<c, "predicted_funding">> : c \in known}
    /\ pc' = "book"
    /\ UNCHANGED <<coin, vendor, cursor, pulled, session, durable, runs>>

PredictedFails ==
    /\ pc = "predicted"
    /\ rows' = Set(rows, {<<c, "predicted_funding">> : c \in CoinSet}, "status")
    /\ pc' = "book"
    /\ UNCHANGED <<coin, vendor, cursor, pulled, answered, session, durable, runs>>

Book(quoted) ==
    /\ pc = "book"
    /\ rows' = Set(rows, {<<Now, "l2_spread">>}, IF quoted THEN "value" ELSE "missing")
    /\ answered' = IF quoted THEN answered \cup {<<Now, "l2_spread">>} ELSE answered
    /\ IF coin < Len(Coins) THEN pc' = pc /\ coin' = coin + 1 ELSE pc' = "persist" /\ coin' = 1
    /\ UNCHANGED <<vendor, cursor, pulled, session, durable, runs>>

(* persist_envelopes: every envelope, then a flush; the commit ends the    *)
(* session of the command.                                                 *)
Persist ==
    /\ pc = "persist"
    /\ session' = {<<runs, p[1], p[2], rows[p]>> : p \in DOMAIN rows}
                  \cup UNION {{<<runs, c, "sample", pulled[c][i]>> : i \in 1..Len(pulled[c])}
                                 : c \in CoinSet}
    /\ pc' = "commit"
    /\ UNCHANGED <<coin, vendor, cursor, pulled, rows, answered, durable, runs>>

Commit ==
    /\ pc = "commit"
    /\ durable' = durable \cup session
    /\ session' = {} /\ pc' = "idle"
    /\ UNCHANGED <<coin, vendor, cursor, pulled, rows, answered, runs>>

(* An info error of a call that does not degrade, or a failing database,   *)
(* leaves the command: nothing of the run is committed.                    *)
Abort ==
    /\ pc \in {"mids", "ctxs", "funding", "persist", "commit"}
    /\ pc' = "idle" /\ session' = {}
    /\ UNCHANGED <<coin, vendor, cursor, pulled, rows, answered, durable, runs>>

Next ==
    \/ Start
    \/ \E known \in SUBSET CoinSet : Mids(known) \/ Predicted(known)
    \/ \E listed, priced \in SUBSET CoinSet : Contexts(listed, priced)
    \/ Funding
    \/ \E c \in CoinSet : Sample(c)
    \/ Trades \/ PredictedFails
    \/ \E quoted \in BOOLEAN : Book(quoted)
    \/ Persist \/ Commit \/ Abort

Spec == Init /\ [][Next]_vars

-----------------------------------------------------------------------------
(* A coin that is done has every sample of the window once and in order,   *)
(* whatever the pages were cut like and while the vendor went on.          *)
Done(c) == pc \in {"predicted", "book", "persist", "commit"}

HistoryIsWhole == \A c \in CoinSet : Done(c) =>
    /\ {pulled[c][i] : i \in 1..Len(pulled[c])} = {t \in vendor[c] : t <= WindowEnd}
    /\ \A i, j \in 1..Len(pulled[c]) : i < j => pulled[c][i] < pulled[c][j]

(* A committed run is whole, with a row of each metric for each coin, and  *)
(* a run that was left has nothing.                                        *)
RunsOf(o) == {x[1] : x \in o}

RunIsWhole ==
    /\ \A r \in RunsOf(durable), c \in CoinSet, m \in Metrics :
          \E v \in {"value", "missing", "status"} : <<r, c, m, v>> \in durable
    /\ pc \notin {"idle", "commit"} => runs \notin RunsOf(durable) /\ session = {}

(* A value is one that an answer of this run carried.                      *)
ValueIsAnswered == \A p \in DOMAIN rows : rows[p] = "value" => p \in answered

PullIsHonest ==
    /\ HistoryIsWhole
    /\ RunIsWhole
    /\ ValueIsAnswered
=============================================================================
