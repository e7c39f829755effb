----------------------------- MODULE SourceHealth -----------------------------
(***************************************************************************)
(* mm_source_health: `lab data source-health`.  The inventory is probed in *)
(* its order, each source with the bounded retries of mm_common.http or of *)
(* the Hyperliquid client; every probe leaves one row, the rows make one   *)
(* overall status, and the report and its hash are written for the day.    *)
(***************************************************************************)
EXTENDS Naturals, Sequences, FiniteSets

CONSTANTS Inventory,   \* SOURCE_INVENTORY, or a part of it
          ProbeAttempts, \* DEFAULT_MAX_ATTEMPTS
          MaxReports   \* bound: commands of a behaviour

VARIABLES pc,
          at,        \* position in the inventory
          attempt,   \* attempt of the probe, 1-based
          noDb,      \* --no-db
          keys,      \* sources whose API key is set
          memory,    \* source -> time of its last observation, 0 for none
          rows,      \* rows of this report: source -> [status, last]
          overall,   \* of the last rendered report
          asked,     \* source -> requests sent in this report
          answers,   \* source -> last answer in this report
          disk,      \* number of the report in the day's .md and in its .sha256
          now        \* number of the report, and its captured_at

healthVars == <<pc, at, attempt, noDb, keys, memory, rows, overall, asked, answers, disk, now>>

(* A source is in the inventory once, and asked at least once.             *)
ASSUME InventoryAssumption ==
    /\ Inventory \in Seq(STRING) /\ Len(Inventory) > 0
    /\ \A i, j \in DOMAIN Inventory : Inventory[i] = Inventory[j] => i = j
    /\ ProbeAttempts \in Nat \ {0} /\ MaxReports \in Nat

Sources == {Inventory[i] : i \in DOMAIN Inventory}
Required == {"hyperliquid.info", "calendar.yaml"}
Keyed == {"fred", "polygon"}
Hyperliquid == {"hyperliquid.info", "hyperliquid.structure"}
Vendors == Sources \ {"calendar.yaml", "postgres", "object_store"}
Statuses == {"ok", "degraded", "unavailable"}

(* What one request brings: the expected body, a body of its kind without  *)
(* the expected rows, JSON of another kind, something that is not JSON, a  *)
(* failure that is retried (timeout, unreachable, 429, 5xx), one that is   *)
(* terminal (404, 401, 403, 451, other).                                   *)
Answers == {"good", "thin", "shape", "garbled", "transient", "refused"}

(* How the probes read the answer they are left with.  CoinGecko's ping is *)
(* not parsed, Stooq's CSV has a close or nothing, Binance's body is only  *)
(* read as JSON, an empty book is still a book.                            *)
Unparsed(s) == s = "coingecko"
AllOrNothing(s) == s = "stooq"
AnyBody(s, a) == s = "binance.public" \/ (s = "hyperliquid.structure" /\ a = "thin")

StatusOf(s, a) ==
    IF a = "good"                            THEN "ok"
    ELSE IF a \in {"transient", "refused"}   THEN "unavailable"
    ELSE IF Unparsed(s)                      THEN "ok"
    ELSE IF AllOrNothing(s) \/ a = "garbled" THEN "unavailable"
    ELSE IF AnyBody(s, a)                    THEN "ok"
    ELSE "degraded"

(* last_success_at: Memory's for Hyperliquid, whatever the answer, except  *)
(* where a body is not JSON and the structure row forgets it; for the rest *)
(* this probe or nothing.                                                  *)
LastOf(s, a) ==
    LET known == IF s \in DOMAIN memory THEN memory[s] ELSE 0 IN
    IF s \notin Hyperliquid                           THEN IF StatusOf(s, a) = "ok" THEN now ELSE 0
    ELSE IF StatusOf(s, a) = "ok"                     THEN IF known > 0 THEN known ELSE now
    ELSE IF s = "hyperliquid.structure" /\ a = "garbled" THEN 0
    ELSE known

(* Mutant: any row that is not ok decides at once.                         *)
OverallOfFirst == IF \E s \in Sources : rows[s].status # "ok" THEN "degraded" ELSE "ok"

(* overall_status: the rows in order; a required source that is down ends  *)
(* the scan, any other row that is not ok leaves it degraded.              *)
Overall ==
    IF \E s \in Sources \cap Required : rows[s].status = "unavailable" THEN "unavailable"
    ELSE IF \E s \in Sources : rows[s].status # "ok" THEN "degraded"
    ELSE "ok"

-----------------------------------------------------------------------------
HealthTypeOK ==
    /\ pc \in {"idle", "load", "probe", "render", "hash"}
    /\ at \in 0..Len(Inventory) /\ attempt \in 0..ProbeAttempts
    /\ noDb \in BOOLEAN /\ keys \subseteq Keyed
    /\ memory \in [DOMAIN memory -> 0..MaxReports]
    /\ DOMAIN rows \subseteq Sources
    /\ rows \in [DOMAIN rows -> [status : Statuses, last : 0..MaxReports]]
    /\ overall \in Statuses \cup {"none"}
    /\ asked \in [Sources -> 0..ProbeAttempts]
    /\ answers \in [Sources -> Answers \cup {"none"}]
    /\ disk \in [md : 0..MaxReports, sha : 0..MaxReports]
    /\ now \in 0..MaxReports

NoMemory == [s \in {} |-> 0]

HealthInit ==
    /\ pc = "idle" /\ at = 0 /\ attempt = 0
    /\ noDb = FALSE /\ keys = {} /\ memory = NoMemory
    /\ rows = [s \in {} |-> 0] /\ overall = "none"
    /\ asked = [s \in Sources |-> 0] /\ answers = [s \in Sources |-> "none"]
    /\ disk = [md |-> 0, sha |-> 0]
    /\ now = 0

Begin(skip, set) ==
    /\ pc = "idle" /\ now < MaxReports
    /\ now' = now + 1
    /\ noDb' = skip /\ keys' = set
    /\ memory' = NoMemory /\ rows' = [s \in {} |-> 0]
    /\ asked' = [s \in Sources |-> 0] /\ answers' = [s \in Sources |-> "none"]
    /\ pc' = IF skip THEN "probe" ELSE "load"
    /\ at' = 1 /\ attempt' = 1
    /\ overall' = "none"
    /\ UNCHANGED disk

(* load_last_success_from_memory: the latest ingest of each source, or     *)
(* nothing at all when the database cannot be read.                        *)
LoadLastSuccess(t) ==
    /\ pc = "load" /\ t < now
    /\ memory' = IF t = 0 THEN NoMemory ELSE [s \in {"hyperliquid.info"} |-> t]
    /\ pc' = "probe"
    /\ UNCHANGED <<at, attempt, noDb, keys, rows, overall, asked, answers, disk, now>>

(* A row, and on to the next source, or to the report after the last one.  *)
Listed(s, row) ==
    /\ rows' = [x \in DOMAIN rows \cup {s} |-> IF x = s THEN row ELSE rows[x]]
    /\ attempt' = 1
    /\ IF at = Len(Inventory) THEN pc' = "render" /\ at' = 0 ELSE pc' = pc /\ at' = at + 1

Source == Inventory[at]

NoKey ==
    /\ pc = "probe" /\ Source \in Keyed \ keys
    /\ Listed(Source, [status |-> "unavailable", last |-> 0])
    /\ UNCHANGED <<noDb, keys, memory, overall, asked, answers, disk, now>>

(* One request: retried while the failure is transient and attempts are    *)
(* left, else the answer is the source's.                                  *)
Request(a) ==
    /\ pc = "probe" /\ Source \in Vendors /\ (Source \in Keyed => Source \in keys)
    /\ asked' = [asked EXCEPT ![Source] = @ + 1]
    /\ answers' = [answers EXCEPT ![Source] = a]
    /\ IF a = "transient" /\ attempt < ProbeAttempts
       THEN attempt' = attempt + 1 /\ UNCHANGED <<pc, at, rows>>
       ELSE Listed(Source, [status |-> StatusOf(Source, a), last |-> LastOf(Source, a)])
    /\ UNCHANGED <<noDb, keys, memory, overall, disk, now>>

(* The calendar file: absent, unreadable, not a mapping, or there with the *)
(* time it was last written.                                               *)
ProbeCalendar(status) ==
    /\ pc = "probe" /\ Source = "calendar.yaml"
    /\ \E t \in 1..now : Listed(Source, [status |-> status, last |-> IF status = "ok" THEN t ELSE 0])
    /\ UNCHANGED <<noDb, keys, memory, overall, asked, answers, disk, now>>

(* SELECT 1; the last ingest it reads reaches no Hyperliquid row, as those *)
(* are earlier in the inventory.                                           *)
ProbePostgres(up, t) ==
    /\ pc = "probe" /\ Source = "postgres" /\ t < now
    /\ noDb => ~up
    /\ Listed(Source, IF noDb  THEN [status |-> "degraded", last |-> 0]
                      ELSE IF up THEN [status |-> "ok", last |-> t]
                      ELSE [status |-> "unavailable", last |-> 0])
    /\ asked' = [asked EXCEPT !["postgres"] = IF noDb THEN 0 ELSE 1]
    /\ memory' = IF up /\ t > 0 /\ "hyperliquid.info" \notin DOMAIN memory
                 THEN [s \in {"hyperliquid.info"} |-> t] ELSE memory
    /\ UNCHANGED <<noDb, keys, overall, answers, disk, now>>

(* Environment and ping; a store that only lives in memory is degraded.    *)
ProbeObjectStore(status) ==
    /\ pc = "probe" /\ Source = "object_store"
    /\ Listed(Source, [status |-> status, last |-> IF status = "ok" THEN now ELSE 0])
    /\ UNCHANGED <<noDb, keys, memory, overall, asked, answers, disk, now>>

(* An exception that leaves a probe, in what it reads from the config      *)
(* before it asks, still leaves a row.                                     *)
ProbeRaises ==
    /\ pc = "probe" /\ attempt = 1 /\ Source \in {"calendar.yaml", "coingecko", "stooq", "edgar"}
    /\ Listed(Source, [status |-> "unavailable", last |-> 0])
    /\ UNCHANGED <<noDb, keys, memory, overall, asked, answers, disk, now>>

(* render_report and write_source_health_report: the document...           *)
WriteReport ==
    /\ pc = "render"
    /\ overall' = Overall
    /\ disk' = [disk EXCEPT !.md = now]
    /\ pc' = "hash"
    /\ UNCHANGED <<at, attempt, noDb, keys, memory, rows, asked, answers, now>>

(* ... and then its hash beside it.                                        *)
WriteHash ==
    /\ pc = "hash"
    /\ disk' = [disk EXCEPT !.sha = now]
    /\ pc' = "idle"
    /\ UNCHANGED <<at, attempt, noDb, keys, memory, rows, overall, asked, answers, now>>

Die ==
    /\ pc # "idle"
    /\ pc' = "idle" /\ at' = 0
    /\ UNCHANGED <<attempt, noDb, keys, memory, rows, overall, asked, answers, disk, now>>

HealthNext ==
    \/ \E skip \in BOOLEAN, set \in SUBSET (Keyed \cap Sources) : Begin(skip, set)
    \/ \E t \in 0..MaxReports : LoadLastSuccess(t)
    \/ NoKey
    \/ \E a \in Answers : Request(a)
    \/ \E status \in Statuses : ProbeCalendar(status)
    \/ \E up \in BOOLEAN, t \in 0..MaxReports : ProbePostgres(up, t)
    \/ \E status \in Statuses : ProbeObjectStore(status)
    \/ ProbeRaises
    \/ WriteReport
    \/ WriteHash
    \/ Die

HealthSpec == HealthInit /\ [][HealthNext]_healthVars

-----------------------------------------------------------------------------
(* Nothing is listed that was not reached, and a report lists everything:  *)
(* the rows are those of the inventory up to the probe under way.          *)
EveryRowIsListed ==
    /\ pc = "probe" => DOMAIN rows = {Inventory[i] : i \in 1..(at - 1)}
    /\ pc \in {"render", "hash"} => DOMAIN rows = Sources

(* A vendor is ok only on an answer of this report, and its retries end    *)
(* with the first answer that is not transient: a terminal one is final.   *)
StatusIsEarned ==
    \A s \in DOMAIN rows \cap Vendors :
        /\ rows[s].status = "ok" => answers[s] \notin {"none", "transient", "refused"} /\ asked[s] > 0
        /\ answers[s] = "transient" => asked[s] = ProbeAttempts

(* Without its key a vendor is never asked and never ok; with --no-db the  *)
(* database is not asked, and no time of its rows is reported.             *)
NotAskedInVain ==
    /\ \A s \in Keyed \cap Sources : s \notin keys =>
           asked[s] = 0 /\ (s \in DOMAIN rows => rows[s].status = "unavailable")
    /\ noDb /\ pc # "idle" =>
           /\ memory = NoMemory
           /\ "postgres" \in DOMAIN rows => rows["postgres"].status = "degraded"

(* A row that is not ok claims no success, unless Memory holds one of      *)
(* Hyperliquid; and no row claims one after its report was taken.          *)
SuccessIsBacked ==
    \A s \in DOMAIN rows :
        /\ rows[s].last <= now
        /\ rows[s].status # "ok" /\ rows[s].last > 0 => s = "hyperliquid.info" /\ ~noDb /\ rows[s].last < now

(* docs/runbooks/source-health.md: the report is unavailable if and only   *)
(* if a required source is; it is ok only when every row is.               *)
OverallFollowsRows == pc = "hash" =>
    /\ (overall = "unavailable") <=> \E s \in Required \cap Sources : rows[s].status = "unavailable"
    /\ (overall = "ok") <=> \A s \in Sources : rows[s].status = "ok"

(* The day's hash is never of a later report than the day's document, and  *)
(* behind it only while, or after, a write was cut off between the two.    *)
HashFollowsReport == disk.sha <= disk.md

(* What a report may be trusted for.                                       *)
HealthIsHonest ==
    /\ EveryRowIsListed
    /\ StatusIsEarned
    /\ NotAskedInVain
    /\ SuccessIsBacked
    /\ OverallFollowsRows
    /\ HashFollowsReport
=============================================================================
