--------------------------------- MODULE Feeds ---------------------------------
(* What the system sees of the markets and sends out, put together: the    *)
(* delivery of packs and source health (EXTENDED), the vendor adapters,    *)
(* the Hyperliquid history pull, the retain capture, the briefs, the       *)
(* alerts and the worker.  They share no state in the models, so a         *)
(* behaviour belongs to one of them, `part`, the others rest as they       *)
(* start, and what is asked of a state is asked of its part.               *)
EXTENDS PrincipalDelivery, SourceHealth

CONSTANTS FeedNames, FeedRpm, FeedAttempts, FeedLicensed, MaxQueries,    \* VendorFeeds
          PullCoins, PullHistories, PullEnd, PullPage, PullFull, MaxPulls, \* HistoryPull
          PulseAges, PulseFredLag, PulseQuoteLag, MaxBriefs,               \* Pulse
          CloseStocks, CloseFirst, CloseLast,                              \* MorningBrief
          AlertLookback, AlertSize, AlertTime, MaxChecks,                  \* AlertCheck
          WorkerFires, WorkerPoll, WorkerFrames, WorkerTime,               \* BriefWorker
          RetainStocks, RetainMetrics, RetainBodies, RetainDates, RetainWalk, RetainRpm,
          RetainReach                                                      \* RetainRows

ASSUME PulseAssumption ==
    /\ PulseAges \subseteq Nat /\ PulseFredLag \in Nat /\ PulseQuoteLag \in Nat
    /\ MaxBriefs \in Nat

(* Days are counted from before the first brief: its session has one       *)
(* before it.                                                              *)
ASSUME MorningAssumption ==
    CloseFirst \in Nat \ {0, 1} /\ CloseLast \in Nat /\ CloseFirst <= CloseLast

ASSUME AlertAssumption == AlertSize \in Nat /\ AlertTime \in Nat /\ MaxChecks \in Nat

ASSUME WorkerAssumption ==
    /\ WorkerFires \subseteq Nat /\ WorkerPoll \in Nat /\ WorkerTime \in Nat
    /\ WorkerFrames \in Nat \ {0}

(* Days are counted from long enough before the dates of a capture for its *)
(* walk: a weekday before is at most three days before.                    *)
ASSUME RetainAssumption ==
    /\ RetainDates \subseteq Nat /\ IsFiniteSet(RetainDates) /\ RetainDates # {}
    /\ RetainWalk \in Nat /\ \A d \in RetainDates : d > 3 * RetainWalk + 1
    /\ RetainStocks \cap RetainMetrics = {} /\ "price" \notin RetainStocks \cup RetainMetrics

VARIABLES part,
          vPc, vendor, key, origin, listed, left, vAttempt, budget, wire, prints, vRows, lastError, vStore,
          report, queries,
          hPc, coin, samples, cursor, pulled, hRows, answered, hSession, durable, pulls,
          pPc, turn, kind, slots, notes, hl, snapQ, label, pDisk, table, briefs,
          mToday, mPrints, prior, mKeys, input, doc,
          aNow, liqs, moves, config, alert, file, checks,
          wNow, wPc, once, wake, frames, fire, tried,
          rPc, nyDate, late, proof, grouped, atStart, day, bodies, answer, body, known, pair,
          retained, dumped, stored, lines

V == INSTANCE VendorFeeds WITH
         Wanted <- FeedNames, Rpm <- FeedRpm, Attempts <- FeedAttempts,
         Publishable <- FeedLicensed,
         pc <- vPc, attempt <- vAttempt, rows <- vRows, store <- vStore

H == INSTANCE HistoryPull WITH
         Coins <- PullCoins, Histories <- PullHistories, WindowEnd <- PullEnd,
         PageSize <- PullPage, FullPage <- PullFull, MaxRuns <- MaxPulls,
         pc <- hPc, vendor <- samples, rows <- hRows, session <- hSession, runs <- pulls

P == INSTANCE Pulse WITH
         Ages <- PulseAges, FredLag <- PulseFredLag, QuoteLag <- PulseQuoteLag,
         MaxRuns <- MaxBriefs,
         pc <- pPc, disk <- pDisk, runs <- briefs

M == INSTANCE MorningBrief WITH
         Stocks <- CloseStocks, FirstDay <- CloseFirst, MaxDay <- CloseLast,
         today <- mToday, prints <- mPrints, keys <- mKeys

A == INSTANCE AlertCheck WITH
         Lookback <- AlertLookback, MinSize <- AlertSize, MaxTime <- AlertTime, now <- aNow

W == INSTANCE BriefWorker WITH
         Fires <- WorkerFires, Poll <- WorkerPoll, FrameLimit <- WorkerFrames,
         MaxTime <- WorkerTime, now <- wNow, pc <- wPc

R == INSTANCE RetainRows WITH
         Stocks <- RetainStocks, Metrics <- RetainMetrics, Bodies <- RetainBodies,
         Today <- RetainDates, Walk <- RetainWalk, Rpm <- RetainRpm, Reach <- RetainReach,
         pc <- rPc, date <- nyDate, asked <- bodies, rows <- retained, file <- dumped

(* What is asked for is listed once, and a GET is tried at least once.     *)
ASSUME VendorAssumption ==
    /\ FeedNames \in Seq(V!NameSet) /\ FeedNames # <<>>
    /\ \A i, j \in 1..Len(FeedNames) : FeedNames[i] = FeedNames[j] => i = j
    /\ FeedRpm \in Nat /\ FeedAttempts \in Nat \ {0} /\ MaxQueries \in Nat

(* A coin is pulled once; a time is after the epoch; the client takes a    *)
(* page of at most the vendor's length for a full one, and a page has room *)
(* for a sample beyond the cursor.                                         *)
ASSUME HistoryAssumption ==
    /\ PullCoins \in Seq(H!CoinSet) /\ PullCoins # <<>>
    /\ \A i, j \in 1..Len(PullCoins) : PullCoins[i] = PullCoins[j] => i = j
    /\ \A h \in PullHistories : h \subseteq Nat \ {0}
    /\ PullEnd \in Nat /\ PullPage \in Nat /\ PullPage >= 2
    /\ PullFull \in Nat /\ PullFull <= PullPage /\ MaxPulls \in Nat

(* A complete environment.                                                 *)
WholeEnv == [token |-> TRUE, group |-> "hive", dm |-> "principal", topic |-> "topic"]

vendorVars == <<vPc, vendor, key, origin, listed, left, vAttempt, budget, wire, prints, vRows,
                lastError, vStore, report, queries>>
historyVars == <<hPc, coin, samples, cursor, pulled, hRows, answered, hSession, durable, pulls>>
pulseVars == <<pPc, turn, kind, slots, notes, hl, snapQ, label, pDisk, table, briefs>>
morningVars == <<mToday, mPrints, prior, mKeys, input, doc>>
alertVars == <<aNow, liqs, moves, config, alert, file, checks>>
workerVars == <<wNow, wPc, once, wake, frames, fire, tried>>
retainVars == <<rPc, nyDate, late, proof, grouped, atStart, day, bodies, answer, body, known, pair,
                retained, dumped, stored, lines>>

feedsVars == <<part, vendorVars, historyVars, healthVars, pulseVars, morningVars, alertVars,
               workerVars, vars, retainVars>>

FeedsInit ==
    /\ part \in {"vendors", "history", "health", "pulse", "morning", "alerts", "worker", "delivery",
                "retain"}
    /\ HealthInit /\ P!Init
    /\ V!Init /\ (part # "vendors" => vendor = "edgar" /\ key)
    /\ H!Init /\ (part # "history" => samples = [c \in H!CoinSet |-> {}])
    /\ M!Init /\ (part # "morning" => mKeys = {"POLYGON", "FRED"})
    /\ A!Init /\ (part # "alerts" => config = [enabled |-> FALSE, types |-> [t \in A!Types |->
                                                  [enabled |-> FALSE, params |-> "none"]]])
    /\ W!Init /\ (part # "worker" => once)
    /\ Init /\ (part # "delivery" => env = WholeEnv)
    /\ R!Init /\ (part # "retain" => late /\ proof)

FeedsNext ==
    \/ /\ part = "vendors" /\ V!Next
       /\ UNCHANGED <<part, historyVars, healthVars, pulseVars, morningVars, alertVars,
                       workerVars, vars, retainVars>>
    \/ /\ part = "history" /\ H!Next
       /\ UNCHANGED <<part, vendorVars, healthVars, pulseVars, morningVars, alertVars,
                       workerVars, vars, retainVars>>
    \/ /\ part = "health" /\ HealthNext
       /\ UNCHANGED <<part, vendorVars, historyVars, pulseVars, morningVars, alertVars,
                       workerVars, vars, retainVars>>
    \/ /\ part = "pulse" /\ P!Next
       /\ UNCHANGED <<part, vendorVars, historyVars, healthVars, morningVars, alertVars,
                       workerVars, vars, retainVars>>
    \/ /\ part = "morning" /\ M!Next
       /\ UNCHANGED <<part, vendorVars, historyVars, healthVars, pulseVars, alertVars,
                       workerVars, vars, retainVars>>
    \/ /\ part = "alerts" /\ A!Next
       /\ UNCHANGED <<part, vendorVars, historyVars, healthVars, pulseVars, morningVars,
                       workerVars, vars, retainVars>>
    \/ /\ part = "worker" /\ W!Next
       /\ UNCHANGED <<part, vendorVars, historyVars, healthVars, pulseVars, morningVars,
                       alertVars, vars, retainVars>>
    \/ /\ part = "delivery" /\ Next
       /\ UNCHANGED <<part, vendorVars, historyVars, healthVars, pulseVars, morningVars,
                       alertVars, workerVars, retainVars>>
    \/ /\ part = "retain" /\ R!Next
       /\ UNCHANGED <<part, vendorVars, historyVars, healthVars, pulseVars, morningVars,
                       alertVars, workerVars, vars>>

FeedsSpec == FeedsInit /\ [][FeedsNext]_feedsVars

-----------------------------------------------------------------------------
FeedsTypeOK ==
    CASE part = "vendors"  -> V!TypeOK
      [] part = "history"  -> H!TypeOK
      [] part = "health"   -> HealthTypeOK
      [] part = "pulse"    -> P!TypeOK
      [] part = "morning"  -> M!TypeOK
      [] part = "alerts"   -> A!TypeOK
      [] part = "worker"   -> W!TypeOK
      [] part = "delivery" -> TypeOK
      [] part = "retain"   -> R!TypeOK

(* What an adapter, a history pull or a retain capture could not get is a  *)
(* row that says so, never a value; what was got is whole and of the day   *)
(* it names, and only what is committed or licensed is reported.           *)
IngestIsHonest ==
    /\ part = "vendors" => V!FeedsAreHonest
    /\ part = "history" => H!PullIsHonest
    /\ part = "retain" => R!RetainIsTrue

(* A Market Pulse labels no gap and no old number as fresh.                *)
PulseIsHonest == part = "pulse" => P!PulseIsHonest

(* The Sydney morning brief: one row or one gap for each slot, and header, *)
(* cells and health lines that agree.                                      *)
MorningIsHonest == part = "morning" => M!MorningIsHonest

(* The worker generates nothing ahead of its fire, and an alert document   *)
(* holds only what crossed an enabled and complete threshold.              *)
FiresAreEarned ==
    /\ part = "alerts" => A!PushIsCrossed
    /\ part = "worker" => W!FireIsNotAhead
=============================================================================
