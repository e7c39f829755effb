-------------------------------- MODULE Research --------------------------------
(* What the system makes of its data, put together: the thesis workspace   *)
(* (EXTENDED), the playbook run, the gates of an idea, the Quant Review    *)
(* Board, the two base-rate studies, the listings screen, the decay watch  *)
(* and the improvement queue.  They share no state in the models, so a     *)
(* behaviour belongs to one of them, `part`, the others rest as they       *)
(* start, and what is asked of a state is asked of its part.               *)
EXTENDS ThesisLifecycle

CONSTANTS NoBars,                          \* no series, no cache file, nothing known
          Feeds, IdeaCounts, OkFeeds, SlotsPerIdea, RunTokens, DayTokens, CallTokens,
          CallInput, Inputs, Outputs, Retries, MaxShown, MaxDeskRuns,       \* Playbook
          Names, Lists, Universe, Calendar, DefaultDays, MaxPerCluster, MaxPerRound,
          TapeSet, Horizons, MaxIdeas, MaxDay,                              \* IdeaGates
          Screen, Locked, Instruments, MaxPriority, Days, MaxBoards,        \* QuantBoard
          BarSet, SmaPeriod, EmaPeriod, BaseBars, MaxHeight, Tolerance, Lookback,
          Horizon, NMin, MaxBars, MaxStudies, AtrPeriod,                    \* EventTouches
          Monitor, Kinds, Panel, Answers, Local, MinBars, SmaFast, SmaSlow, StopR, TargetR,
          BracketBars, Cost, ShiftWindow, ShiftRatio, FlagPercent,
          MaxReports,                                                       \* InstrumentRates
          Files, Tags, PackLists, Clock, MaxWatches, MaxChanges,            \* QuantWatch
          Items, Incidents, Operators, MaxEdits,                            \* QueueSlot
          Deals, Traded, Prints, Spans, Slack, ThinDays, DealsNMin, Clips, AdvBps,
          BudgetBps, ThinBps, ThinClip, Hashes, MaxTime, MaxRows, MaxEach,
          MaxScans                                                          \* Listings

VARIABLES part,
          flag, budget, ledger, asked, desk, call, deskRuns,
          list, open, day, corr, tape, ideas,
          qPc, kind, reviewDay, facts, cards, left, folder, table, boards,
          bars, stored, studies,
          rPc, refresh, offline, vendor, cache, series, results, report, answered, reports,
          wPc, product, content, pin, config, packs, tagged, expected, hashed, again, told,
          artifacts, moved, watches, edits,
          status, cited, said, answer, raced, changes,
          lNow, deals, prices, events, outcomes, stamped, sessions, scans

L == INSTANCE Playbook WITH
         MaxIdeas <- MaxShown, MaxRuns <- MaxDeskRuns,
         run <- desk, runs <- deskRuns

G == INSTANCE IdeaGates WITH
         Files <- Lists, Events <- Calendar, Tapes <- TapeSet,
         file <- list, out <- ideas

B == INSTANCE QuantBoard WITH
         Cases <- Instruments, MaxRuns <- MaxBoards,
         pc <- qPc, day <- reviewDay, disk <- folder, run <- boards

T == INSTANCE EventTouches WITH
         Bars <- BarSet, MaxRuns <- MaxStudies, runs <- studies

R == INSTANCE InstrumentRates WITH
         Kind <- Kinds, Series <- Panel, None <- NoBars, MaxRuns <- MaxReports,
         pc <- rPc, bars <- series, runs <- reports

W == INSTANCE QuantWatch WITH
         MaxRuns <- MaxWatches, MaxEdits <- MaxChanges,
         pc <- wPc, rows <- hashed, disk <- artifacts, runs <- watches

Q == INSTANCE QueueSlot WITH report <- said, edits <- changes

I == INSTANCE Listings WITH
         None <- NoBars, NMin <- DealsNMin, now <- lNow, disk <- sessions

(* Token counts, bounds and feeds are numbers.                             *)
ASSUME PlaybookAssumption ==
    /\ IdeaCounts \subseteq Nat /\ OkFeeds \subseteq Nat
    /\ Inputs \subseteq Nat /\ Outputs \subseteq Nat
    /\ MaxShown \in Nat /\ Retries \in Nat /\ MaxDeskRuns \in Nat

(* A list says of each name what the gates read, a tape has a state for    *)
(* each, days and horizons are numbers, and the names of the universe are  *)
(* on the watchlist and not to be cut (config/universe.yaml).              *)
ASSUME IdeaAssumption ==
    /\ \A f \in Lists, n \in Names :
          f[n].tier \in G!Tiers /\ f[n].blocked \in BOOLEAN /\ f[n].lockup \in Int
    /\ TapeSet \subseteq [Names -> G!TapeStates]
    /\ \A e \in Calendar : e.day \in Int
    /\ Horizons \subseteq Int /\ DefaultDays \in Nat
    /\ MaxPerCluster \in Nat /\ MaxPerRound \in Nat /\ MaxIdeas \in Nat /\ MaxDay \in Nat
    /\ Universe.in \subseteq Universe.all \ Universe.deferred

(* Instruments are numbered in name order, finitely many, and a case says  *)
(* what review_instrument reads.                                           *)
ASSUME BoardAssumption ==
    /\ Screen \subseteq Nat /\ IsFiniteSet(Screen) /\ Locked \subseteq Nat
    /\ Instruments \subseteq
           [tracks : SUBSET {"A", "B", "C", "D"}, role : {"name", "benchmark"},
            postIpo : BOOLEAN, listed : BOOLEAN, beta : SUBSET {"dup", "corr"},
            peers : BOOLEAN, move : {"none", "flat", "up", "crash", "down"},
            overlay : {"none", "short", "long", "wide"}, memory : BOOLEAN,
            q : {"ok", "partial", "stale", "contradicted"}, old : BOOLEAN,
            reclaim : BOOLEAN, arb : BOOLEAN, catalyst : BOOLEAN, invalidation : BOOLEAN,
            overlooked : BOOLEAN, liquid : BOOLEAN, adv : BOOLEAN, major : BOOLEAN,
            defined : BOOLEAN, addressed : SUBSET B!Codes]
    /\ MaxPriority \in Nat /\ MaxBoards \in Nat

(* The watched files are listed once each, and the tags file is one.       *)
ASSUME WatchAssumption ==
    /\ Len(Files) \in Nat /\ \A i, j \in 1..Len(Files) : Files[i] = Files[j] => i = j
    /\ Tags \in W!Watched
    /\ Clock \in Nat /\ MaxWatches \in Nat /\ MaxChanges \in Nat

(* Periods and bounds are numbers, and no average is of nothing.           *)
ASSUME TouchesAssumption ==
    /\ SmaPeriod \in Nat \ {0} /\ EmaPeriod \in Nat /\ BaseBars \in Nat \ {0}
    /\ Lookback \in Nat /\ Horizon \in Nat /\ NMin \in Nat
    /\ MaxBars \in Nat /\ MaxStudies \in Nat

(* The symbols are listed, the vendors and the bars directory have series  *)
(* of the panel or none, a bar is no lower at its high than at its low, and*)
(* the parameters of config and script are numbers, none of them absurd.   *)
ASSUME RatesAssumption ==
    /\ Monitor \in Seq(DOMAIN Kinds) /\ Monitor # <<>>
    /\ \A k \in R!Symbols \X R!Vendors : Answers[k] \subseteq DOMAIN Panel \cup {NoBars}
    /\ \A x \in R!Symbols : Local[x] \in DOMAIN Panel \cup {NoBars}
    /\ \A n \in DOMAIN Panel :
          /\ Panel[n].bars \in Seq([low : Nat, high : Nat, close : Nat])
          /\ \A t \in 1..Len(Panel[n].bars) : Panel[n].bars[t].low <= Panel[n].bars[t].high
    /\ AtrPeriod \in Nat \ {0} /\ MinBars \in Nat \ {0}
    /\ SmaFast \in Nat /\ SmaSlow \in Nat /\ BracketBars \in Nat
    /\ StopR \in Nat /\ TargetR \in Nat
    /\ Cost[1] \in Nat /\ Cost[2] \in Nat \ {0}
    /\ MaxReports \in Nat

(* What is absent is neither a number nor an answer, a bar has a close, and*)
(* days and bounds are numbers.                                            *)
ASSUME ListingsAssumption ==
    /\ NoBars \notin Nat /\ NoBars \notin BOOLEAN
    /\ Prints \subseteq [close : Nat, volume : BOOLEAN]
    /\ DealsNMin \in Nat /\ MaxTime \in Nat \ {0} /\ MaxScans \in Nat

(* An item of the queue is no incident, and there are finitely many.       *)
ASSUME QueueAssumption ==
    /\ IsFiniteSet(Items) /\ Items \cap Incidents = {} /\ "none" \notin Items
    /\ MaxEdits \in Nat

-----------------------------------------------------------------------------
deskVars == <<flag, budget, ledger, asked, desk, call, deskRuns>>
ideaVars == <<list, open, day, corr, tape, ideas>>
boardVars == <<qPc, kind, reviewDay, facts, cards, left, folder, table, boards>>
touchVars == <<bars, stored, studies>>
rateVars == <<rPc, refresh, offline, vendor, cache, series, results, report, answered, reports>>
watchVars == <<wPc, product, content, pin, config, packs, tagged, expected, hashed, again, told,
               artifacts, moved, watches, edits>>
queueVars == <<status, cited, said, answer, raced, changes>>
listingVars == <<lNow, deals, prices, events, outcomes, stamped, sessions, scans>>

researchVars == <<part, vars, deskVars, ideaVars, boardVars, touchVars, rateVars, watchVars,
                  queueVars, listingVars>>

ResearchInit ==
    /\ part \in {"thesis", "desk", "ideas", "board", "touches", "rates", "watch", "queue",
                "listings"}
    /\ Init /\ (part # "thesis" => intent = NoFile)
    /\ L!Init /\ (part # "desk" => ~flag)
    /\ G!Init /\ (part # "ideas" => /\ list = CHOOSE l \in Lists : TRUE
                                    /\ tape = CHOOSE t \in TapeSet : TRUE
                                    /\ corr = "low")
    /\ B!Init /\ T!Init /\ R!Init
    /\ W!Init /\ (part # "watch" => config)
    /\ Q!Init
    /\ I!Init /\ (part # "listings" => stamped)

ResearchNext ==
    \/ /\ part = "thesis" /\ Next
       /\ UNCHANGED <<part, deskVars, ideaVars, boardVars, touchVars, rateVars, watchVars,
                       queueVars, listingVars>>
    \/ /\ part = "desk" /\ L!Next
       /\ UNCHANGED <<part, vars, ideaVars, boardVars, touchVars, rateVars, watchVars,
                       queueVars, listingVars>>
    \/ /\ part = "ideas" /\ G!Next
       /\ UNCHANGED <<part, vars, deskVars, boardVars, touchVars, rateVars, watchVars,
                       queueVars, listingVars>>
    \/ /\ part = "board" /\ B!Next
       /\ UNCHANGED <<part, vars, deskVars, ideaVars, touchVars, rateVars, watchVars,
                       queueVars, listingVars>>
    \/ /\ part = "touches" /\ T!Next
       /\ UNCHANGED <<part, vars, deskVars, ideaVars, boardVars, rateVars, watchVars,
                       queueVars, listingVars>>
    \/ /\ part = "rates" /\ R!Next
       /\ UNCHANGED <<part, vars, deskVars, ideaVars, boardVars, touchVars, watchVars,
                       queueVars, listingVars>>
    \/ /\ part = "watch" /\ W!Next
       /\ UNCHANGED <<part, vars, deskVars, ideaVars, boardVars, touchVars, rateVars,
                       queueVars, listingVars>>
    \/ /\ part = "queue" /\ Q!Next
       /\ UNCHANGED <<part, vars, deskVars, ideaVars, boardVars, touchVars, rateVars,
                       watchVars, listingVars>>
    \/ /\ part = "listings" /\ I!Next
       /\ UNCHANGED <<part, vars, deskVars, ideaVars, boardVars, touchVars, rateVars,
                       watchVars, queueVars>>

ResearchSpec == ResearchInit /\ [][ResearchNext]_researchVars

-----------------------------------------------------------------------------
ResearchTypeOK ==
    CASE part = "thesis"  -> TypeOK
      [] part = "desk"    -> L!TypeOK
      [] part = "ideas"   -> G!TypeOK
      [] part = "board"   -> B!TypeOK
      [] part = "touches" -> T!TypeOK
      [] part = "rates"   -> R!TypeOK
      [] part = "watch"   -> W!TypeOK
      [] part = "queue"   -> Q!TypeOK
      [] part = "listings" -> I!TypeOK

(* The writer of a playbook is asked within its budget, tells of every     *)
(* token, keeps silent on a day without a setup, and a run that is not OK  *)
(* says why.                                                               *)
WriterIsBounded == part = "desk" =>
    /\ L!LedgerMatchesBudget /\ L!NoSetupMeansSilence
    /\ L!BoundedAsking /\ L!NotOkIsExplained

(* A process that found the flag, or spent its day, asks no more.          *)
DisabledMeansSilence == L!DisabledMeansSilence

(* An idea is published, sized and scanned only as the locked lists, the   *)
(* calendar and the netting allow.                                         *)
IdeasAreGated == part = "ideas" => G!IdeasAreGated

(* A research priority is earned, capped, and written before it is         *)
(* indexed.                                                                *)
BoardIsHonest == part = "board" => B!BoardIsHonest

(* Base rates are settled, whole, and made of bars that somebody answered; *)
(* a listing is screened as it was known on the day screened.              *)
RatesAreHonest ==
    /\ part = "touches" => T!RatesAreHonest
    /\ part = "rates" => R!RatesAreSound
    /\ part = "listings" => I!ListingsAreHonest

(* The operators are told of drift, and the slot of the queue is single    *)
(* among those who act on a current answer.                                *)
OperatorsAreTold ==
    /\ part = "watch" => W!WatchIsHonest
    /\ part = "queue" => Q!QueueIsHonest
=============================================================================
