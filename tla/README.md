# market-memory: a TLA+ development

`market-memory` is a private trading research lab: it collects market observations, keeps them
append-only and point-in-time in Postgres, runs "desks" over them, moves research theses through a
gated lifecycle up to *paper* trades, and sends one brief to its Principal every Sydney morning.
Nothing in it trades. What can go wrong is therefore bookkeeping: a DM twice or never, a miss that is
hidden, a gap shown as a fresh number, a paper trade without a review, a fact that was "known" earlier
than it was. Most of it is Python that runs in one process at a time; what makes it hard is that several
such processes (cron jobs, GitHub runs, people at a shell) share a git branch, a workspace of files, a
Postgres database, an object store and a chat, that vendors answer late, partly or twice, and that any
process may die between two writes.

Paths below are relative to the repository's root.

## 1. Inventory

| Part | State it keeps | Operations | Interacts through | What makes it correct |
|---|---|---|---|---|
| **Sydney morning workflow** (`.github/workflows/hybrid-sydney-morning.yml`, `ops/host/`, `deliver_receipt.py`, `deadman.py`, `deliver.py`) | completion rows and receipts on the branch; the chat; the dead-man vendor's timer | crons, host dispatch and its retry, re-runs; stamp, push, gate, brief, ping, POST, push | git pushes, the concurrency group, HTTP | a receipt only behind a whole DM, no DM behind a receipt, nothing sent without a durable stamp, every trigger settles |
| **Completion log and miss sweep** (`mm_desks.scheduler`, `completions`, `heartbeat_repository.py`, `lab schedule`) | a JSON file per run and anchor; `schedule_heartbeat`; known-missed baseline | record a fire, miss-check, baseline | files, git pull, Postgres | a fire with a file is never escalated, a silent anchor always is, labels stay |
| **Desk mesh** (`mm_desks.mesh`, `pg.py`, `bus.py`, `envelope_repository.py`, `notify.py`) | `desk_envelope`, `desk_health`, a worker's health table | publish, assemble, health, NOTIFY / drain | one transaction, LISTEN/NOTIFY | idempotent on (desk, as_of, hash), health refers to stored rows, runs end |
| **Research workspace, paper ledger** (`mm_research_kit`, `mm_paper`, `lab thesis`, `lab skeptic`, `lab paper`) | `intent.md`, `thesis.md`, evidence, review, `paper/<id>`; rows of `thesis`, `paper_trade` | new, link, advance, review, open, close | files and their gates, Postgres | statuses follow the graph, artifacts in order, paper only with a pass, rows never ahead of files |
| **Observation store** (`mm_memory`, `mm_provenance`, `mm_ingest.pipeline`) | `observation`, `observation_link`, `raw_object`; an object store | ingest, put, link contradictions, what_did_we_know | transactions, S3 | one row per claim, links on both sides, no pointer without bytes, the past does not change |
| **Morning capture** (`mvp_retain.py`, `lab retain`) | retain rows of `observation`, the equity file | morning, proof; the walk over equity sessions | Neon, a 90 s thread, Polygon, Hyperliquid | whole or not at all, one per anchor, a true CAPTURE line, no old close as today's |
| **Vendor ingest** (`mm_ingest`) | request budgets, sessions, rows | queries with retries, pages, stacks, replay of a file | HTTP, Postgres | a gap is a row and never a value, licences, histories without holes |
| **Source health** (`mm_source_health`) | the day's report and its hash | probe, judge, write | HTTP, Postgres, S3 | a status earned by this report's answers |
| **Briefing engine** (`mm_briefing`, `apps/briefing-worker`) | documents, hashes, index rows, alert.md; a waiting process | Market Pulse, Sydney brief, alert check, run and once | vendors, Memory, files | nothing stale or missing printed as fresh, one date, no fire ahead of its time |
| **Principal delivery** (`mm_delivery`, `lab deliver`) | dedupe store, budget, failed sink | pack, test, fan-out of a desk | Telegram, dead-man pings | gates before a POST, whole or recorded, no duplicate, the group never |
| **LLM writer and playbook** (`mm_desks.llm`, `playbook.py`) | token budget and ledger, day flag | run, ask, retry on schema, book, reset | an LLM client, a flag file | hard budgets, silence on an empty day |
| **Ideas, events, watchlist** (`monitor.py`, `event_calendar.py`, `universe.py`, `watchlist.py`) | none | gates, netting, scan | the locked lists | blocked names stay blocked, rounds are netted |
| **Quant review** (`mm_research_kit.quant_review`) | board, cards, run record, index row of a day | screen, locked pass | files, Postgres | a priority is earned and capped, records last |
| **Base rates** (`mm_quant.base_rates`, `scripts/research/base_rates_phase1.py`) | rows per watermark; cache files of series | compute, persist; load, judge, report | Memory; vendors and files | events settle, nothing invented, all symbols accounted for |
| **Listings screen** (`mm_listings`, `mm_desks.listings`) | the day's run | scan | panels with two clocks | a day is screened as it was known |
| **Decay watch, scorecards, queue** (`mm_quant.decay`, `scorecard`, `mm_desks.queue`) | artifacts, notices | watch, compare, check, can-start | files edited by hand | drift is told, one item in progress |
| Pure libraries (`mm_risk`, `mm_flow`, `mm_macro`, `mm_backtest`, factors and statistics of `mm_quant`), stubs, CI | none | functions of their inputs | imported by the desks | limits, decision tables |

`PROJECT.json` repeats this list with the sources of each part, and under `hazards` the places where
the code is exposed to an order of events that a test would hardly produce. Hard behaviours, by kind:
ambiguous answers (POST, push, commit), read-then-write on shared state without a lock (receipt gate,
baseline, raw pointers, anchor count, status gate), crashes between two durable writes (file then row,
artifact then status, bytes then pointer, document then hash, cache file half written), announcements
before the commit, a concurrency group that keeps one pending run, transactions that wait on one
another, budgets that end in the middle of a query, slots written by several sources of which the last
wins, labels computed apart from the numbers they label, and rows that arrive after the day they are of.

## 2. Plan

Order: what reaches the Principal first, then the logs that are trusted when it does not, then what the
research stands on, then what the briefs and boards are made of.

| # | Modules | State |
|---|---|---|
| 1 | `SydneyMorning`, abstract `AnchorDelivery`, `SydneyMorning_proofs` | written, checked, proved |
| 2 | `CompletionLog`, `DeskMesh`, `ThesisLifecycle`, `ObservationStore`, `MorningCapture` | written, checked, proved |
| 3 | `VendorFeeds`, `HistoryPull`, `RetainRows`, `SourceHealth`, `Pulse`, `MorningBrief`, `AlertCheck`, `BriefWorker`, `PrincipalDelivery`, put together by `Feeds` | written, checked, proved |
| 4 | `Playbook`, `IdeaGates`, `QuantBoard`, `PriceMath`, `EventTouches`, `InstrumentRates`, `Listings`, `QuantWatch`, `QueueSlot`, put together with `ThesisLifecycle` by `Research` | written, checked, proved |
| 5 | `CompletionLog_proofs`, `DeskMesh_proofs`, `ObservationStore_proofs`, `MorningCapture_proofs` | written, proved |
| 6 | `Feeds_proofs`, `Research_proofs`, `BaseRates_proofs`: the parts of the two compositions, and through them the compositions | written, proved |
| 7 | theorems that need less: what of the workspace and its ledger holds with several commands at a time, what of the baseline with several checkers | next |
| 8 | the risk engine, the backtest harness and the post-IPO reclaim screen, as operators against a reference definition | if they can be had without decimals |

No module declares a RECURSIVE operator (recursion is a function or a fold), so that each can be proved
about; constants carry named assumptions where a proof needs them. A choice whose order matters is an
IF chain: the cases of a CASE are disjoint, since TLA+ leaves open which of two true ones is taken. A module of proofs extends the module it
is about, and nothing else extends it.

## 3. The modules and the code

Each module models the steps of a process as the code takes them: what one SQL statement, one file
write, one push or one request does is one action, and another process may act between any two. A crash
is an action that is possible at every step. Data is reduced to what the properties tell apart. Definitions
whose comment begins with "Mutant:" are plausible bugs of the code; no specification uses them (see 8).

**`SydneyMorning`.** `Trigger`, `Rerun`, `StartPending` are GitHub's side: one concurrency group, one
run in progress, one pending, which a newer one cancels. `Stamp` and `PushStamp` are job
`stage1-stamp`; `GateSoftSkip`, `GateAlreadyDelivered`, `GateProceed`, `Brief`, `StartPing`, `Post`,
`SuccessPing`, `PushReceipt` are job `brief-and-deliver`, in the order of its steps. `job` is what
survives of a run (inputs, outputs, re-runs), `net` the scratch of its loops, which die with the runner.
A push, a POST or a ping has two unknowns, whether the other side took it and whether the answer came
back; a re-run of all jobs starts from the event's checkout, so that its own earlier stamp conflicts.
An anchor is named by its local day. The capture inside the job cannot fail the job and is a module of
its own; the text of the DM is reduced to the DEADMAN line. `AnchorDelivery` says the same without
runs: chunks appear while the anchor is open, and it is closed once, by a run whose whole DM appeared.

**`CompletionLog`.** `Record` links the file (never replaced), `Select` and `Persist` are
`persist_heartbeat`'s read and write with its own rank table and the table's constraints,
`PersistFails` the swallowed failure. `ActionsFire` and `Pull` bring the workflow's rows over git.
`CheckStart` to `CheckReport` are `_cmd_miss_check`: clock, table, directory, baseline, label, re-read.
`Sweep` is `miss_sweep`. Status is a function of the fire's time, because rows are re-stamped on load.
One routine: all stores are keyed by routine. Left out: the `pending` bucket of an anchor still open,
backfill drafts, incident files, the catalog.

**`DeskMesh`.** One run of `lab mesh dry` is one transaction over two rounds; a round publishes each
desk that was not killed, takes each desk into the pack, puts the pack. A put is four statements,
`Find`, `Insert`, `Select`, `Upsert`, then `Notify` on a connection of its own, before the commit.
`Holders` are Postgres' locks on unique keys and rows, `Abort` its deadlock detection (both external).
`Newer` is `created_at` (the start of the transaction) with ids breaking ties. All fixtures have one
`as_of`, so that their envelopes meet. The up to three channels of a put are one notification. The
regime tag is whether Intel's was there.

**`ThesisLifecycle`.** A command is a program: the sequence of gates, file writes and commits of its
code (`AdvanceTo`, `NewFiles`, `NewTrade`, `CloseTrade`, ...), started by the command's own checks and
executed one step per action. `Die` cuts it short anywhere. Only `lab thesis advance` holds its row in
Postgres while it writes files. One workspace, in which an intent may have been written by hand. A
read-modify-write of one file is one step and a file is not torn. `live` is refused by every gate and
never stored. The reviewer's independence, card fields, prices and the status inside `research-plan.md`
(nobody reads it) are left out.

**`ObservationStore`.** An invocation (`Begin`, then `Store` and `Put` per envelope, `Commit` or
`Fails`) is one session around reads, uploads and inserts. The upload is at once, everything else at the
commit; `Waits` are Postgres' locks. A claim is a slot and a value; a missing value is partial. Select,
insert on conflict and link are one action: the statements of another session are invisible until it
commits, and a conflicting insert waits for that. Which envelopes an ingest has is chosen one at a time.
No code writes `rejected`; `stale` is not modelled; hashes do not collide; source rows are present.

**`MorningCapture`.** The body of a capture (`Count`, `ReadClock`, `Prior`, `Persist`, `ReadBack`) in
a thread, `Timeout` and `Exit` in the main thread, `Die` the kill after which the workflow's step prints
the line itself. Each query is a session of its own; `Persist` may land though its answer is lost, and
after the timeout. Rows carry what the queries look at. The fetch only fails or goes on: what a vendor
leaves out is a partial row, not a missing one. `before` is history: the runs that had ended when this
one started, so that the properties can say what holds without assuming that runs are serial.

**`VendorFeeds`.** An adapter object (FRED, EDGAR, Polygon, CoinGecko, Binance) asks for a list of
instruments: `Ask`, `Retry`, `Fail`, `Answer` are one GET with the bounded attempts of `http.py`, of which
the budget counts the first only; `Exhausted` is what each adapter does when the budget is used up. They
differ in what a gap leaves behind, a row or the last error, and the module keeps these differences.
`CrossCheck` is the spot pair, `Stack`, `Persist`, `Commit` the session of `lab ingest`. `Replay` reads a
file of answers: a command persists only those.

**`HistoryPull`.** `ingest_from_client` call by call: mids, contexts, funding and candles of each coin in
pages whose cursor is one past the last sample (`Page`, `Ends`), trades, predicted funding, books, and the
one write at the end. The vendor goes on (`Sample`) while it is asked.

**`RetainRows`.** What one capture fetches: the perpetuals, the walk back over weekdays without a body
(`Found`, `WalkBack`, `WalkEnds`) under the process's request budget, the spot pair, the rows with
their quality, the dump of the equity rows, the write, and the lines of the brief of the same job. Polygon
publishes while it is asked. Who else captures at the time is `MorningCapture`.

**`SourceHealth`.** The inventory is probed in its order, a request at a time; each probe ends in one row,
whatever raises; document and hash are two writes. What Memory knows of earlier ingests is read first.

**`Pulse`.** Sources write slots one after another and the last wins; `FetchAborts` is the HTTP error that
leaves the loop. `Merge` gates and fills, `Crypto` routes BTC to the mid of Hyperliquid, `Label` is the
quality of the document; two paths, two hashes and an index row follow. An age is one of a few numbers around
the two limits.

**`MorningBrief`.** Days pass, vendors publish late or fall silent, the capture keeps a prior. `Drawn` is
the whole document: header date, change cells, health states, positioning and equity lines, each by the
path the code takes to it.

**`AlertCheck`, `BriefWorker`.** The alert rules over what Memory holds; and the worker as it is written:
it looks at clock and schedule, sleeps in polls, calls itself again, generates, and is restarted.

**`PrincipalDelivery`.** `CliDry` and `CliLive` are `lab deliver` with every combination of its flags,
`Fanout` is a desk and its Ops mirror with the caller's dedupe store; `Gate` is the session's answer (thin
pack, quiet hours); chunks go out one at a time under a budget, and a request that fails may have been
accepted.

**`Playbook`.** One run: gates, trade math idea by idea, and a writer asked for two artifacts with a
reservation before (`Ask`, `Refused`) and the booking after (`Book`); `SchemaRetry` asks again without a
new allowance. The flag outlives the process, the budget does not. Whether prose is grounded is an outcome.

**`IdeaGates`.** The locked review lists are loaded or refused; an idea on a name passes windows, lockups
and blocks; the ideas of a round are netted in their order; a scan of the watchlist covers the tape.

**`QuantBoard`.** A card is a function of some twenty facts (`CodesOf`, `VerdictOf`), the cap demotes by
order, and board, cards, run record and index row are written one after another, any run dying between
two; the locked pass writes the same folder.

**`PriceMath`, `EventTouches`, `InstrumentRates`.** Averages and ATR as exact fractions; the three event
classes, their outcomes and the rows of a run at any watermark; and the research script with its routes
of vendors, cache files that a crash leaves half written, brackets gross and net of cost, continuity
and pools. Bars are a few integers and the periods two or three.

**`Listings`.** Rows of four kinds are appended with the time they became known and the time they were
ingested, and a scan of a past day sees those whose clocks are both past. `Track`, `Liquidity`, `Warning`,
`BaseRate`, `Verdict`, `Idea`, `Snapshot`, `RunOf`, `Card` are the operators of the screen.

**`QuantWatch`, `QueueSlot`.** A decay or scorecard run reads tags, pins and files one at a time while
operators edit them, and writes three artifacts; the queue helper only answers, and the operators edit
the file by hand on an answer that may be old.

**Compositions.** `SydneyMorning` holds stamp, gate, delivery and receipt together, `ThesisLifecycle`
workspace, skeptic and ledger, `ObservationStore` ingests, store and readers. `Feeds` and `Research` gather
the components of 3 and 4 into one specification each: `Feeds` extends `PrincipalDelivery` and `SourceHealth`
(whose names say so: `HealthSpec`, `HealthTypeOK`), `Research` extends `ThesisLifecycle`, and both take the
others by INSTANCE, with a variable of the composition for each of theirs. They carry the assumptions on the
constants, so that TLC evaluates them and checks the very definitions that the theorems are about; `MCFeeds`
and `MCResearch` only give the constants values. The parts share no state in the code beyond what
their modules already take as input (Memory's rows, files of answers, the clock), so that a behaviour
belongs to one component, `part`, while the others rest; interleaving them would multiply states and show
nothing. Two configurations then stand for eighteen, with one property per group of promises.

## 4. The runs

Three runs exhibit a disagreement with a document; all others pass. `CHECK_DEADLOCK FALSE` in every
configuration but that of `thesis_revival`: processes, days and clocks are finite, and the system stops
when they are used up.

| Run | Asks | Bounds | States |
|---|---|---|---|
| `morning_safety` | safety of the workflow, every failure, re-runs, an unscheduled day | 2 runs, 2 days, 1 chunk, 2 attempts of a POST, 2 of a push, 1 re-run each | 1.5 M |
| `morning_liveness` | the promise of `AnchorDelivery`, every trigger settles | 3 runs (one pending is displaced), 2 chunks, fairness | 0.19 M |
| `log_sweep` | the sweep against files, table and baseline read one after another | 1 recorder, 1 workflow run, 1 checker, 7 ticks of 3 a day, the second day unscheduled, lookback 4 | 3.9 M |
| `mesh_runs` | store, health and worker under two concurrent runs | 2 runs, 2 desks, 2 fixtures, any desks killed, failures, a worker | 0.78 M |
| `mesh_liveness` | every run ends though runs wait on one another | 2 runs, 2 desks, 1 fixture, fairness | 0.11 M |
| `store_ingests` | what the tables say of one another | 3 ingests of 2 envelopes, 1 slot with 3 values, 2 days | 0.36 M |
| `capture_runs` | the capture's rows and line | 3 runs, 2 anchors, 2 rows a capture | 0.65 M |
| `feeds` | nine parts, from the vendors to the chat | below | 0.87 M |
| `research` | nine parts, from an idea to a verdict | below | 1.19 M |
| `morning_one_dm` | "one per Sydney day": **violated** | 2 runs, 1 day | |
| `thesis_revival` | "revival requires a new intent": **violated** | 1 command, 1 trade | |
| `store_checksum` | checksum of the stored bytes: **violated** | 1 invocation | |

Why these bounds are enough to be interesting: a displaced pending run needs three runs; two are enough
for a receipt that appears between another's gate and POST, and two attempts for a lost answer. Two
overlapping ingests plus an earlier one exhibit links that are made and links that cannot be; two
captures of one anchor and a prior of another need three runs. Three days are a scheduled, an unscheduled
and another scheduled day, and a lookback of 4 ticks leaves an anchor behind.

`feeds` (constants in `MCFeeds`). *vendors*: 3 instruments, a budget of 2 requests, 2 attempts, 2 queries,
so that a budget ends within a query and a second query meets it used up. *history*: 2 coins, 5 histories
around a page of 2, empty, exactly full and with a vendor that goes on. *retain*: 2 tickers, a walk of 3
under a budget of 2 over 4 days with a weekend. *health*: 5 sources of every kind, 2 attempts, 2 reports.
*pulse*: ages below, between and above the limits, 2 briefs. *morning*: 4 dates with a weekend, one stock,
one trading perp at a time. *alerts*: every shape of configuration. *worker*: 2 fires, polls of 2 and a
frame limit. *delivery*: a whole environment and
each fault on its own, packs of 2 and 3 chunks (one with a chart, one thin), a budget of 2, 2 faults, 2
commands.

`research` (constants in `MCResearch`). *thesis*: one command at a time, 2 trades, dying anywhere. *desk*:
2 runs, a run budget of 6 and a day budget of 9 tokens, so that the second run meets the end of the day.
*ideas*: 5 lists with one fault each, 3 events, 2 tapes, 3 ideas of 2 horizons. *board*: 21 instruments
that differ from a good one by one or two facts, 2 runs on 2 days over a screen and a locked set that
overlap. *touches*: 5 bars of 4 shapes, every watermark. *rates*: 3 symbols with every route of vendors, 5
series (calm, jump, early, short, spike), 2 runs. *watch*: 2 files, 2 runs, an edit. *queue*: 2 items, an
incident, 2 operators, 4 edits. *listings*: 2 deals, a panel of 2 prices, 4 rows, 3 days.

What they do not show: several branches of the workflow, several checkers of the log, more than two runs of
the mesh, several slots of the store (left to the proofs, which are for any of these), several routines of
the log (all its stores are keyed by routine), two commands on one workspace (see 7). Symmetry is used on runs and fixtures, which nothing orders, in runs
without liveness only.

### What the properties say

* `SydneyMorning`: `ReceiptMeansDelivered`, `SentOnlyAfterDurableStamp`, `GreenIsDurable` (a green run
  left what its colour claims), `SuccessPingMeansDelivered`, `CleanDmMeansTimerStarted`,
  `NoDmAfterReceipt`, `KeepsPromise` (refinement), `EveryFireSettles`.
* `CompletionLog`: `DbIsBackedByDisk`; `SweepIsRight` (a report agrees with the stores as it read them, and
  escalates no durable fire); `LogOnlyGrows` (fires and labels stay, today is never labelled).
* `DeskMesh`: `OneRowPerEnvelope`; `MeshShowsTheStore` (health and the worker's view follow committed
  rows, a desk that ran is in its pack); `EveryRunEnds`.
* `ObservationStore`: `OneRowPerClaim`; `RowsAreSound` (bytes behind pointers, links on both sides, only
  concurrent ingests unlinked); `PastIsKept` (nothing known is lost, nothing settled grows).
* `MorningCapture`: `CaptureIsTrue` (whole, alone on its anchor but for overlapping runs, the right prior,
  a true line).
* `feeds`: `IngestIsHonest` (a gap is never a value, what was pulled has no hole, only what is committed and
  licensed is reported, a close is of the session its row names); `HealthIsHonest` (all sources listed, with
  a status that this report's answers earned); `PulseIsHonest` (no gap and no old number under a fresh label,
  index rows behind files); `MorningIsHonest` (one row or one gap per slot; header, cells, health and equity
  lines agree); `FiresAreEarned`; `DeliveryIsHonest` (exit 0 is a whole pack, a cut pack is in the failed
  sink, chunks in order); `DeliveryIsConfined` (no command reaches the group, no completed pack is sent
  again by its process).
* `research`: `WorkspaceIsOrdered` and `StatusIsEarned` (artifacts and statuses in order however commands
  die, rows never ahead of files); `WriterIsBounded` and `DisabledMeansSilence` (budget, ledger and flag);
  `IdeasAreGated` (rounds netted in any order, shorter horizons no stricter, events and lockups respected);
  `BoardIsHonest` (a priority stands on raw facts, cap, record last); `RatesAreHonest` (events and screens
  of a past day do not change with later rows, base rates only above their minimum, no row invented, no
  symbol lost); `OperatorsAreTold` (drift nobody touched during the run is told; the slot is single among
  those who act on a current answer).

## 5. Where documents and code differ

Shown by a run:

* `morning_one_dm`: an ambiguous POST, or a lost receipt push, leaves the anchor open behind a DM that
  arrived; the next trigger sends again. The receipt is the right design (at least once); "the DM stays
  one per Sydney day" (`docs/runbooks/host-dispatch.md:148`) is too strong.
* `thesis_revival`: an intent that was rejected becomes a thesis in research.
* `store_checksum`: the object key is made of the claim's hash and the day, so that a second payload with the
  same claim overwrites bytes whose checksum the first one's row keeps.

Met while modelling, and left out of what the properties claim:

* *Mesh.* "Same fixture twice → identical `content_hash`" (`docs/runbooks/desks.md:71`) does not hold with
  `--dsn`: `latest` (`envelope_repository.py:34`) may take the row of a run with a killed desk.
* *Vendors.* A retry is not counted, so that requests may exceed `max_requests_per_minute`
  (`config/ingest.yaml:115`); no command wires a live adapter to the store, only the replay of a file is
  persisted; a stack persists its rows twice, and its second count of created rows is 0.
* *Capture.* The walk of 8 sessions (`mvp_retain.py:66`) is never finished, as the adapter allows 5 requests
  a process (`polygon.py:84`). Closes of an earlier session are stored and never printed.
* *Briefs.* A macro number within its source's allowed age may be days old under a fresh label
  (`freshness.py`); equity lines may be dated apart from the header; no command passes a prior reader;
  `window_minutes` of an alert is not used. The worker skips a fire when a poll wakes after its instant, and
  its nested calls can end the process.
* *Delivery.* With `TELEGRAM_CHAT_ID` unset, a Principal id that equals the group's is not caught.
* *Playbook.* `FAILED` can be lowered again (`playbook.py:665`, against `docs/runbooks/llm-budget.md`), and
  the shares of `budgets.yaml` name no desk that owns an artifact. An answer asked for again on schema is
  booked once.
* *Quant review.* `lab quant-review` never passes prior cards, `load_prior_verdicts` is unused; cards demoted
  by the cap carry ALREADY_PRICED; the NO_MISPRICING fallback blocks a promotion
  (`ops/plans/IMP-001-quant-review-board.md`).
* *Base rates.* A pullback can vanish once a later bar closes an earlier breakout
  (`tests/adversarial/test_imp039_point_in_time.py` says that later bars change nothing); the dip detector
  asks for one bar more than it uses. In the script the net bracket moves the target nearer
  (`base_rates_phase1.py:1681`), "still counted in the full pool" is false below 200 bars, and a torn cache
  file ends every later run until `--refresh`.
* *Listings.* Completeness counts rows that are not visible yet, so a later calendar row changes percent,
  status and hash of a replayed day, whose snapshot is stable ("prior fixture days stay invisible",
  `config/listings/watchlist_new_listings.yaml`). Rows without an ingestion stamp are visible in every replay.
  Bars are sorted by knowledge time before market time (`quant/series.py:40`), so that a late bar can make or
  hide a reclaim; `ret_90d` is given before 90 days have passed; of two deals of one instrument the card shows
  the first and the verdict table the last.
* *Decay.* Without watched files the alert is raised while the queue signal says that hashes match.

The hazards in `PROJECT.json` with a note name further statements that do not hold and are not claimed.

## 6. Fairness

`SydneyMorning`: weak fairness of `StartPending` (GitHub starts the pending run once the group is free)
and of each runner's next step (a job goes on until it ends; its timeout is one of `StepFails`). No
fairness of triggers, re-runs or of success: any step may fail for ever. `DeskMesh`: weak fairness of
each run's own next step, deadlock detection included; nobody has to begin a run, hear an event or die.
The other modules state no fairness and no liveness: their processes are one-shot commands that people
or crons start, nothing in the code restarts one, and the one that waits, the briefing worker, does not
promise its fires (5).

## 7. Proofs

Eight modules of proofs; TLAPS checks every leaf. A theorem holds for every value of the constants that meets
the named assumption of its module, which TLC evaluates on the runs. Each proof has the same shape: an
inductive invariant, one lemma per action that it is preserved, and the properties of the runs as its
consequences. None of these properties is inductive as it stands; the paragraphs below say what had to be added.
Each inductive invariant was given to TLC on the configuration of its run before it was proved.

| Module | Theorems | For every | Assumption |
|---|---|---|---|
| `SydneyMorning_proofs` | `TypeCorrect`, `ReceiptCorrect`, `StampCorrect`, `GreenCorrect`, `PingsCorrect`, `TimerCorrect`, `NoResend`, `Refinement` | number of runs, branches, days, chunks, attempts, re-runs | `ConstantsAssumption`: at least one chunk, attempt and push; the main branch is a branch |
| `CompletionLog_proofs` | `TypeCorrect`, `DbBacked`, `SweepCorrect`, `FiresStay`, `LogIsKept` | number of recorders, workflow runs and checkers, anchors, calendar and lookback | `ConstantsAssumption`: the anchor is in the day, box and workflow runs differ |
| `DeskMesh_proofs` | `TypeCorrect`, `OneRow`, `MeshCorrect` | number of runs, roster, set of fixtures | `DeskAssumption`, `NoRowAssumption`: runs are finitely many, no desk is listed twice, Ops is none of them |
| `ObservationStore_proofs` | `TypeCorrect`, `OneRow`, `RowsSound`, `PastKept` | number of sessions, slots, values, days, size of an ingest | `StoreAssumption`: a missing value is none, a missing blob is none |
| `MorningCapture_proofs` | `TypeCorrect`, `CaptureCorrect` | number of invocations, anchors, rows of a capture | `CaptureAssumption`: finitely many invocations and rows, at least one row |
| `Feeds_proofs` | `TypeCorrect`, `DeliveryCorrect`, `DeliveryConfined`, `HealthTypeCorrect`, `HealthCorrect`, `IngestCorrect`, `PulseCorrect`, `MorningCorrect`, `FiresCorrect`, `FeedsTypeCorrect` | instruments, histories and pages, tickers and grouped bodies, lags and ages, stocks and days, liquidations, schedules, inventories, packs; number of queries, pulls, briefs, checks, reports and commands | `DeliveryAssumption` to `HistoryAssumption`, below |
| `Research_proofs` | `TypeCorrect`, `WorkspaceCorrect`, `StatusCorrect` | sequence of thesis commands, number of trades, kill between two steps | `AbsentIsNoStatus`: a missing file or row is no status; `MayDieIsBoolean`; and one command at a time |
| | `WriterCorrect`, `SilenceCorrect`, `IdeasCorrect`, `BoardCorrect`, `OperatorsCorrect` | ideas, tokens and budgets; lists, calendar, tapes and limits; instruments and caps; watched files and packs; items and incidents; number of runs and edits | `PlaybookAssumption` to `WatchAssumption` and `QueueAssumption`, below |
| `BaseRates_proofs` | `RatesCorrect`, `ResearchTypeCorrect` | bars of a study, periods and windows; panels, vendor answers, caches, brackets and costs; deals, prints, events and outcomes, with any clocks; number of studies, reports and scans | `TouchesAssumption`, `RatesAssumption`, `ListingsAssumption`, below; `ResearchTypeCorrect` one thesis command at a time |

**`SydneyMorning`.** That a receipt means a whole DM follows from what the run that pushes it has done, that
from the loop counters, and that nobody else interferes from the concurrency group. To `TypeOK` are added
`Serial` (at most one run is active, and the runs at a step are the active ones), `LoopsInBounds` (where the
push, POST and chunk loops stand at each step), `StampDurable` (past the stamp job, and in every green ending,
the run's row is on its branch), `OpenWhileSending` (from the gate to its own receipt the active run's anchor
is open), `ChunksPosted` (the chunks before the current one are in the chat, and all of them after the loop)
and `TimerKnown` (an OK of the start ping means the vendor started the timer). Lemmas about `End`, `Goto`,
`Enqueue` and `PushAttempt` serve several actions. `NoResend`: only `Post` adds to the chat, and
`OpenWhileSending` says the anchor is open then. `Refinement` maps `Post` to `Appear`, `PushReceipt` to
`Close`, everything else to a stutter.

**`CompletionLog`.** `FileFirst`: a recorder that is about to touch the table has its file on the disk.
`RowsHaveFiles`: a row is of its own anchor and has a file. `CheckOf`: whatever a check has read it has read
of the log of now or of before, and once it has read the directory it knows every fire that was durable when
it began; from this `SweepIsRight` follows although the stores change between the reads. `LogIsKept` has a
hypothesis, one checker: the baseline is rewritten as a union with what the check read, so that with two of
them one can drop a label of the other. `FiresStay`, its other half, needs none.

**`DeskMesh`.** `Beginnings` orders the transactions by their start; `InHand` says what envelope a run at a
step of a put holds and which row it will be stored as; `Numbering` tells rows by run and number, whose growth
through the rounds makes "newest" well defined; `OneRowPerKey` is `OneRowPerEnvelope` with the drafts of open
transactions; `TouchedFollows` says a health row is written of a row its run sees; `Progress` says how far the
round has come in the roster, and `NoneMissing` that no desk's own envelope calls it missing. Commit of one
run beside the open drafts of others is the hard case: the locks on keys (`Holders`) keep it from making a
second row, and the starts of the transactions decide whose health row stays.

**`ObservationStore`.** `BytesComeFirst`: what a session is about to commit points to uploaded bytes.
`Authors`: a row is of a session that is done, and knows when it was read. `OneInserter`: a claim has one
inserter, committed or not. `PendingLinks` and `PendingRowsLinked`: the links a transaction is about to commit
match the flags on both sides, and leave out only what was committed after it began. `OneRow`, `RowsSound`
and, with what each action leaves alone, `PastKept` follow.

**`MorningCapture`.** `ClockTicks`: the clock counts the invocations that have read it, each at a tick of its
own, later than all that had exited before. `History`: what was over at a start is over. `RowsAreCaptures`:
an invocation has all rows of its capture or none. `AnchorWasFree`: one that counted no row meets there only
rows of invocations that overlap it. `PriorFound` and `LineComesLast` say the same of the prior it is about to
write and of the line it prints. The proof counts, so that it leans on the cardinality theorems.

**`ThesisLifecycle`.** The state of a command is the rest of its program. `Programs` therefore says what a rest
can be: `Linked`, which step may follow which; `Pre`, what the next step relies on, that is what its gates
asked for and the steps before it wrote; `Carried`, that a row to be inserted has an open artifact or will
have one first. With `PredecessorGates` (the files of a workspace are there in order), `LedgerFollowsFiles` and
`TradesMeanPaper` (a thesis with a trade has been in paper) this is inductive, whichever step a kill cuts
off. The theorems take one command at a time (`OneCommand`): the files are written without a lock, so that a
gate can be passed on files that another command rewrites before the first one goes on. The lab is run by one
operator, and nothing in the code keeps a second one out.

**`Feeds`.** Each part is proved for its own specification, and a lemma per part (`VendorPart`, `HistoryPart`,
`PulsePart`, ...) shows that a behaviour of `FeedsSpec` is one of the part: its disjunct is a step of the part,
every other leaves its variables alone. The theorems about `IngestIsHonest`, `PulseIsHonest`, `MorningIsHonest`
and `FiresAreEarned` are then of `FeedsSpec`, as the run checks them.

* *delivery* (`IInv`). `Routed`: every call that waits goes to a sink that its command may use; `Gated`: the
  session said yes to the call in hand, or the caller overrode it; `Progress` and `ChunksInOrder`: the chunks
  before the current one are out, in order; `Recorded`: what was cut or failed is in the failed sink; `Clean`:
  exit 0 had no failure. `DeliveryConfined`, an action property, follows from `Routed` and the dedupe store.
* *health* (`HealthIInv`). `Reached` says where a command stands in the inventory; `Asking` that the source at
  hand was asked once for each attempt that failed and the later ones not at all; `Known` that what Memory
  says is older than the report and only there with the database on; `Written` how old the document is. One
  lemma (`ProbeEnds`) serves the six ways a probe can end: a row its answers earned keeps the invariant.
* *vendors* (`VendorIInv`). `VendorSent`: the requests on the wire are within the budget times the attempts, a
  keyed vendor without its key has sent none, and what was skipped means that the budget is used up.
  `VendorAsking`: an instrument is answered for or still left, never both. `VendorValuesArePrints`: a row is a
  value exactly where there is a print. `VendorGathered` and `VendorTold`: what is persisted and reported is
  of those rows. The adapters differ, so that the steps have a case per vendor.
* *history* (`HistoryIInv`). `HistoryPulling`: what was pulled of the coin asked for is what the vendor has in
  the window below the cursor, in order and once each, although the vendor goes on; the coins before it are
  whole. The step is a lemma about a page: its samples are the oldest from the cursor on, hence the next cursor
  leaves none behind. That is counting, on the cardinality theorems. It needs that a page has room for two
  samples and that the client's idea of a full page is no longer than the vendor's (`HistoryAssumption`; both
  are 500 in the code): with a shorter page of the vendor's the client would end early, and the theorem would
  be false. `HistoryRowed` and `HistoryKept` follow the rows to the commit.
* *retain* (`RetainIInv`). The walk has passed over no day that had a body when it began (`RetainWalking`): the
  day asked for is at least every published day up to the session. `RetainAnswered` carries that to the body
  found, `RetainRowsAre` to the rows. Dates are far enough from the first day for the walk to end
  (`RetainAssumption`), since a weekday before is at most three days before (`RetainBeforeIs`).
* *pulse* (`PulseIInv`). `PulseSlotsAreTrue`: a slot without a number is unavailable, and one that is ok is not
  older than its lag; `PulseSnapshotIsWorst`: from the merge on the snapshot is ok only when each slot is;
  `PulseWrittenInOrder`: which files of this run are on the disk at each step, so that an index row has its
  files whichever step was last.
* *morning* (`MorningIInv`). Short: a document is what `Drawn` makes of the evidence, nothing changes under it,
  and the date has a day before it. The work is in the lemmas that header, cells, health lines and equity lines,
  computed apart, agree.
* *alerts* (`AlertIInv`). What a document says of liquidations is still in Memory, which only grows: that more
  liquidations are no smaller a total is `AlertSizeGrows`, from a lemma on sums over sets (below).
* *worker* (`W!FireIsNotAhead`, inductive with the clock).

`FeedsTypeCorrect` is their types together: to each invariant a `...Shaped` adds what it leaves open (the bounds
of counters, what the rows and the document are rows of). The hard ones are dates: a walk back, a header and a
print are of days that exist, because the calendar of a part starts early enough.

Assumptions: a pack has a chunk and no source is listed twice (`DeliveryAssumption`, `EnvsAssumption`,
`InventoryAssumption`); what is asked for is listed once and tried at least once (`VendorAssumption`); ages, lags,
sizes and bounds are numbers, and days are counted from before the first brief (`MorningAssumption`). Each is what the code's own constants
and loaders give.

**`Research`.** The same, with `DeskPart`, `IdeaPart`, `BoardPart`, `WatchPart`, `QueuePart` in `Research_proofs`
and `TouchPart`, `RatePart`, `ListPart` in `BaseRates_proofs`, which extends it. The workspace is the
composition's own (`ThesisPart`), so that its theorems are of every behaviour of `ResearchSpec` too.

* *desk* (`DeskIInv`). `DeskLedgerIsSummed`: every function of partial sums over the ledger ends in the tokens
  the budget says were used (the fold of the model is one such function, and the induction is over its steps).
  `DeskAskedSoFar`: how often a run can have asked at each of its steps; `DeskCallIsAllowed`: a call is under way
  only for an artifact of a run with a setup. `SilenceCorrect` is the action property: who found the flag, or
  spent its day, asks no more.
* *ideas* (`IdeaIInv`). `IdeaJudged`: an idea of the round is as its gates and its policy say; `IdeaCapped`: the
  caps of every cluster and every round hold after each idea, in whatever order they come, which is counting.
  That a shorter horizon is no stricter is a lemma about the calendar.
  That names of the locked universe are on the watchlist and not to be cut is an assumption on configuration
  (`IdeaAssumption`; `config/universe.yaml` meets it).
* *board* (`BoardIInv`). `BoardCardsAreMade`: the cards in hand are the capped cards of the facts that were read;
  `BoardWrittenSoFar`: which files of the folder are of this run at each step, and none of a later one. The cap
  counts the better cards, so that its lemma needs a finite screen.
* *watch* (`WatchIInv`). Whatever a run has read, tags, pins, files and files again, is still so or somebody has
  edited that file since (`moved`); what is told follows from what was read.
* *queue* (`QueueIInv`). Two items are in progress only after somebody acted on an answer that was no longer
  current (`raced`).
* *touches* (`TouchIInv`: a stored summary is the summary of the bars visible at its watermark). That a study of
  a past day never changes is then about series alone: an event, a zone or an outcome found in a beginning of a
  series (`TouchBegins`) is found in the series. Averages, ATR, zones and touches are recursive functions over the
  bars. `Smoothed` and `Recursive` name their equations, `SmoothedExists` and `RecursiveExists` show that such
  functions exist, and what follows for a later bar is an induction over a set of numbers (`TouchAtrStays`,
  `TouchZonesStay`, `TouchZoneTouchesStay`). A summary counts, so that hits, outcomes and censored events need that
  no two events share a bar (`TouchSingle`). A pullback may look different with more bars, which is why the promise
  about it is another one: it stands after a breakout with none between (`TouchPullbacksFollow`).
* *base-rate script* (`RateIInv`). `RateUnderWay`: results are of the symbols in order, the report of all of them or
  none; `RateAnswers`: what is at hand, and what a whole cache file holds, some vendor answered for that symbol,
  although the process can die with a file half written; `RateRows`: a row names where its series came from. That no
  trial ends later net of cost than gross needs that ATR is a number at every bar (`RateAtrIsNat`), a product
  on each side of the comparison, and monotony of both edges (`RateNetTouches`).
* *listings* (`ListIInv`). `ListTyped` has the two clocks of every row in order and none ahead of the day;
  `ListRuns`: the run of a past day is fair, idea by idea, and an idea that monitors has a fall and a later rise in
  the panel that is still there; and `ReplayIsStable`, the property itself: what is scanned on a past day is seen
  again, once rows are stamped. Rows kept by a filter or sorted are `Arranged` by an order: `ListPlaces` shows that a
  strict total order on a finite set gives each row one place (by counting what comes before it), from which
  follows that nothing is left out, doubled or out of order.

`ResearchTypeCorrect` needs the types of the workspace as well, hence one thesis command at a time.

Assumptions of the last three: periods that divide are positive, windows and bounds are numbers
(`TouchesAssumption`); a bar is no higher at its low than at its high, which `clean_bars` sees to, costs and brackets
are numbers, and there is a symbol (`RatesAssumption`); a missing number is none and a print has a close
(`ListingsAssumption`).

Sums and greatest elements. An operator of the community modules that folds over a set is defined by CHOOSE of a
function, and says nothing until such a function is shown to exist. `Pick`, `AreSums`, `NatLeast`, `NatGreatest`,
`FiniteGreatest` and their lemmas do that by induction over sets (`NatInduct` on a set of numbers, and the
finite-set theorems on a set of sets), which needs no operator as a parameter; the sums of the alerts, of the
ledger and of the bars stand on it.

Only model-checked:

* liveness (`EveryFireSettles`, `EveryRunEnds`), which is out of the prover's reach;
* the three disagreements of 5, which are counterexamples.


## 8. How the properties are kept honest

Every property of a passing run has a mutant in `PROJECT.json`: a definition that models code is replaced by a
variant that a plausible bug would make of it (the gate reads the commit the run was queued with, the row is
written before the file, a full page is taken for the last one, a part that failed leaves no record), and TLC
finds the property violated under the run's own bounds.

## 9. Not modelled

* Text: wording of briefs, packs, boards and files; XBRL and form parsing; argument parsing.
* Decimals end to end: the risk engine, the backtest harness, factors, statistics, sizing and trade math of
  `mm_quant`, the other metrics of `mm_flow`, the regime of `mm_macro`. They are functions of one input without
  state; a model over a few integers would restate thresholds.
* The post-IPO reclaim screen, a decision table like the board's; the watchlist, listings, scorecard and decay
  cuts of the delivery, which render and never send; inbound commands; fixture and week-ahead briefs; the
  websocket collector; migrations.
* The stubs (execution, unicorn, dashboard, services) and CI.

External, and modelled only from how the code uses them: GitHub's queue and re-runs, Postgres'
visibility, locks and deadlock detection, Telegram and the ping vendor, the market data vendors, the
LLM client, `git pull` on the box.
