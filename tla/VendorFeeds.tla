------------------------------ MODULE VendorFeeds ------------------------------
(***************************************************************************)
(* The vendor adapters of mm_ingest.  An adapter asks its vendor for a     *)
(* list of instruments under a request budget and a bounded retry, turns   *)
(* every gap into a status row instead of a value, and what it collected   *)
(* is persisted and published as far as the vendor's licence allows:       *)
(* macro.py, spot.py, edgar.py, equities/polygon.py, rate_limit.py,        *)
(* degrade.py, licence.py, fred_stack.py, edgar_stack.py and the part of   *)
(* `lab ingest` that runs them.  A process either asks a vendor or replays *)
(* a file of answers: only what a file holds is persisted by a command.    *)
(***************************************************************************)
EXTENDS Naturals, FiniteSets, Sequences

CONSTANTS Wanted,      \* the instruments of a query, in order
          Rpm,         \* max_requests_per_minute of a budget
          Attempts,    \* attempts of one GET
          Publishable, \* vendors whose licence verdict is ok_gov or ok_attr
          MaxQueries   \* bound: queries of one adapter object

VARIABLES pc,
          vendor, key,      \* the adapter, and whether its API key is set
          origin,           \* whether this process asks the vendor or a file
          listed,           \* instruments that must be accounted for
          left,             \* instruments still to ask for
          attempt,          \* attempts of the GET under way
          budget,           \* RateLimitBudget: [used, skipped]
          wire,             \* requests sent by the adapter object
          prints,           \* instrument -> answered value
          rows,             \* instrument -> "value" or the class of its gap
          lastError,        \* last_error_class
          store,            \* [session, rows, durable]: what the database has
          report,           \* the artifact, or the line that was printed
          queries

vars == <<pc, vendor, key, origin, listed, left, attempt, budget, wire, prints, rows,
          lastError, store, report, queries>>

Vendors == {"fred", "edgar", "polygon", "coingecko", "binance"}
Keyed == {"fred", "polygon"}
Spot == {"coingecko", "binance"}
Retryable == {"timeout", "unreachable", "rate_limited", "http_5xx"}
Terminal == {"http_404", "tos_or_blocked", "parse_error"}
Gaps == Retryable \cup Terminal \cup {"missing_env"}

NoReport == [closure |-> "none", cited |-> FALSE, shown |-> {}, printed |-> FALSE]

NameSet == {Wanted[i] : i \in 1..Len(Wanted)}
Nothing == [i \in {} |-> "none"]
Set(f, names, v) == [i \in DOMAIN f \cup names |-> IF i \in names THEN v ELSE f[i]]

(* coingecko asks for all instruments in one request.                      *)
Batch == IF vendor = "coingecko" THEN {left[i] : i \in 1..Len(left)} ELSE {Head(left)}
Rest == IF vendor = "coingecko" THEN <<>> ELSE Tail(left)

TypeOK ==
    /\ pc \in {"idle", "ask", "wait", "rows", "persist", "commit"}
    /\ vendor \in Vendors /\ key \in BOOLEAN
    /\ attempt \in 0..Attempts
    /\ budget.used \in 0..Rpm /\ budget.skipped \in Nat
    /\ wire \in 0..Rpm * Attempts
    /\ origin \in {"none", "vendor", "file"} /\ listed \subseteq NameSet
    /\ \A i \in DOMAIN rows : i \in NameSet \cup {"EDGAR"} /\ rows[i] \in Gaps \cup {"value"}
    /\ DOMAIN prints \subseteq NameSet
    /\ lastError \in Gaps \cup {"none"}
    /\ queries \in 0..MaxQueries

Init ==
    /\ pc = "idle"
    /\ vendor \in Vendors /\ key \in BOOLEAN
    /\ origin = "none" /\ listed = {}
    /\ left = <<>> /\ attempt = 0
    /\ budget = [used |-> 0, skipped |-> 0] /\ wire = 0
    /\ prints = Nothing /\ rows = Nothing /\ lastError = "none"
    /\ store = [session |-> FALSE, rows |-> {}, durable |-> {}]
    /\ report = NoReport
    /\ queries = 0

(* A query of an adapter.  Without its key a keyed vendor is not asked;    *)
(* FRED has a row for each gap, Polygon only its last error.               *)
Query ==
    /\ pc \in {"idle", "rows"} /\ origin # "file" /\ queries < MaxQueries
    /\ origin' = "vendor" /\ listed' = NameSet
    /\ queries' = queries + 1
    /\ prints' = Nothing /\ report' = NoReport
    /\ IF vendor \in Keyed /\ ~key
       THEN /\ pc' = "rows" /\ left' = <<>>
            /\ lastError' = "missing_env"
            /\ rows' = IF vendor = "fred" THEN Set(Nothing, NameSet, "missing_env") ELSE Nothing
       ELSE /\ pc' = "ask" /\ left' = Wanted
            /\ rows' = Nothing
            /\ lastError' = IF vendor = "polygon" THEN lastError ELSE "none"
    /\ UNCHANGED <<vendor, key, attempt, budget, wire, store>>

(* The next instrument, if the budget allows a request: one GET may send   *)
(* several, and only the first of them is counted.                         *)
Ask ==
    /\ pc = "ask" /\ left # <<>>
    /\ budget.used < Rpm
    /\ budget' = [budget EXCEPT !.used = @ + 1]
    /\ attempt' = 1 /\ wire' = wire + 1
    /\ pc' = "wait"
    /\ UNCHANGED <<vendor, key, origin, listed, left, prints, rows, lastError, store, report, queries>>

(* An exhausted budget: a row or a last error for each instrument left,    *)
(* but the Binance adapter stops at the first.                             *)
Exhausted ==
    /\ pc = "ask" /\ left # <<>>
    /\ budget.used >= Rpm
    /\ budget' = [budget EXCEPT !.skipped = @ + 1]
    /\ lastError' = "rate_limited"
    /\ rows' = IF vendor \in {"fred", "edgar"} THEN Set(rows, Batch, "rate_limited") ELSE rows
    /\ left' = IF vendor = "binance" THEN <<>> ELSE Rest
    /\ UNCHANGED <<pc, vendor, key, origin, listed, attempt, wire, prints, store, report, queries>>

(* Mutant: nothing counts the attempts of a GET.                           *)
RetryForever(class) ==
    /\ pc = "wait" /\ class \in Retryable
    /\ attempt' = attempt + 1 /\ wire' = wire + 1
    /\ UNCHANGED <<pc, vendor, key, origin, listed, left, budget, prints, rows, lastError, store, report, queries>>

Retry(class) ==
    /\ pc = "wait" /\ class \in Retryable /\ attempt < Attempts
    /\ attempt' = attempt + 1 /\ wire' = wire + 1
    /\ UNCHANGED <<pc, vendor, key, origin, listed, left, budget, prints, rows, lastError, store, report, queries>>

(* The GET has failed: 404, a refusal and a body that does not parse are   *)
(* terminal, the rest only after the last attempt.                         *)
Fail(class) ==
    /\ pc = "wait"
    /\ class \in Terminal \/ attempt = Attempts
    /\ lastError' = class
    /\ rows' = IF vendor \in {"fred", "edgar"} THEN Set(rows, Batch, class) ELSE rows
    /\ pc' = "ask" /\ left' = Rest /\ attempt' = 0
    /\ UNCHANGED <<vendor, key, origin, listed, budget, wire, prints, store, report, queries>>

(* The rows of an answer: FRED and EDGAR have one for each gap in it,      *)
(* Polygon none, and the spot prices are written at the end.               *)
Recorded(known) ==
    CASE vendor \in {"fred", "edgar"} ->
             Set(Set(rows, known, "value"), Batch \ known, "parse_error")
      [] vendor = "polygon" -> Set(rows, known, "value")
      [] OTHER -> rows

(* An answer with a value for some of the instruments asked for.           *)
Answer(known) ==
    /\ pc = "wait" /\ known \subseteq Batch
    /\ prints' = Set(prints, known, "value")
    /\ rows' = Recorded(known)
    /\ lastError' = IF known = {} /\ vendor \in Spot THEN "parse_error" ELSE lastError
    /\ pc' = "ask" /\ left' = Rest /\ attempt' = 0
    /\ UNCHANGED <<vendor, key, origin, listed, budget, wire, store, report, queries>>

(* The spot adapters drop their last error when they have any print, and   *)
(* cross_check_envelopes writes a row for every instrument.                *)
SpotError == IF DOMAIN prints # {} THEN "none"
             ELSE IF lastError # "none" THEN lastError ELSE "parse_error"

CrossCheck ==
    [i \in NameSet |-> IF i \in DOMAIN prints THEN "value"
                       ELSE IF SpotError # "none" THEN SpotError ELSE "parse_error"]

Asked ==
    /\ pc = "ask" /\ left = <<>>
    /\ rows' = IF vendor \in Spot THEN CrossCheck ELSE rows
    /\ lastError' = IF vendor \in Spot THEN SpotError ELSE lastError
    /\ pc' = "rows"
    /\ UNCHANGED <<vendor, key, origin, listed, left, attempt, budget, wire, prints, store, report, queries>>

(* envelopes_from_fixture: the rows of a file that lists some instruments, *)
(* knows the value of some of these and may name one error.                *)
FileRows(names, known, class) ==
    LET gap == IF class = "none" THEN "parse_error" ELSE class IN
    CASE vendor = "edgar" /\ names = {} -> Set(Nothing, {"EDGAR"}, gap)
      [] vendor = "polygon" /\ class = "none" -> Set(Nothing, known, "value")
      [] OTHER -> Set(Set(Nothing, known, "value"), names \ known, gap)

(* A FRED block has an error of its own only when the key was missing.     *)
FileClasses == {"none", "missing_env"} \cup (IF vendor = "fred" THEN {} ELSE Retryable)

Replay(names, known, class) ==
    /\ pc = "idle" /\ origin # "vendor" /\ queries < MaxQueries
    /\ known \subseteq names
    /\ class \in FileClasses /\ (class = "missing_env" => known = {})
    /\ queries' = queries + 1
    /\ origin' = "file" /\ listed' = names
    /\ prints' = Set(Nothing, known, "value")
    /\ rows' = FileRows(names, known, class)
    /\ report' = NoReport
    /\ pc' = "rows"
    /\ UNCHANGED <<vendor, key, left, attempt, budget, wire, lastError, store>>

-----------------------------------------------------------------------------
(* closure_for: never CLOSED; without a database only ever ELIGIBLE.       *)
Closure(noDb, persisted) == IF noDb \/ persisted THEN "ELIGIBLE" ELSE "OPEN"

(* verdict_for, may_publish_value: only ok_gov and ok_attr are let out.    *)
MayPublish == vendor \in Publishable

(* published_rows: the values a licence lets out.                          *)
Shown == IF MayPublish THEN {i \in DOMAIN rows : rows[i] = "value"} ELSE {}

(* run_fred_stack and run_edgar_stack take the rows of their vendor, if    *)
(* there are any.                                                          *)
Stacked == vendor \in {"fred", "edgar"} /\ rows # Nothing

(* With --no-db: an artifact, no row.                                      *)
StackDry ==
    /\ pc = "rows" /\ origin = "file"
    /\ report' = IF Stacked
                 THEN [closure |-> Closure(TRUE, FALSE), cited |-> FALSE, shown |-> Shown, printed |-> TRUE]
                 ELSE [NoReport EXCEPT !.printed = TRUE]
    /\ pc' = "idle"
    /\ UNCHANGED <<vendor, key, origin, listed, left, attempt, budget, wire, prints, rows, lastError, store, queries>>

(* persist_envelopes, within the session of the command.                   *)
Persist ==
    /\ pc = "rows" /\ origin = "file"
    /\ store' = [store EXCEPT !.session = TRUE, !.rows = @ \cup DOMAIN rows]
    /\ pc' = "persist"
    /\ UNCHANGED <<vendor, key, origin, listed, left, attempt, budget, wire, prints, rows, lastError, report, queries>>

(* The stack persists its own rows again and cites a run.                  *)
Stack ==
    /\ pc = "persist"
    /\ report' = IF Stacked
                 THEN [closure |-> Closure(FALSE, TRUE), cited |-> TRUE, shown |-> Shown, printed |-> FALSE]
                 ELSE report
    /\ pc' = "commit"
    /\ UNCHANGED <<vendor, key, origin, listed, left, attempt, budget, wire, prints, rows, lastError, store, queries>>

(* session_scope: the summary is printed after the commit, and a failure   *)
(* on the way rolls back and prints nothing.                               *)
Commit ==
    /\ pc = "commit"
    /\ store' = [session |-> FALSE, rows |-> store.rows, durable |-> store.rows]
    /\ report' = [report EXCEPT !.printed = TRUE]
    /\ pc' = "idle"
    /\ UNCHANGED <<vendor, key, origin, listed, left, attempt, budget, wire, prints, rows, lastError, queries>>

Rollback ==
    /\ pc \in {"persist", "commit"}
    /\ store' = [session |-> FALSE, rows |-> store.durable, durable |-> store.durable]
    /\ report' = NoReport
    /\ pc' = "idle"
    /\ UNCHANGED <<vendor, key, origin, listed, left, attempt, budget, wire, prints, rows, lastError, queries>>

Next ==
    \/ Query \/ Ask \/ Exhausted
    \/ \E class \in Retryable : Retry(class)
    \/ \E class \in Retryable \cup Terminal : Fail(class)
    \/ \E known \in SUBSET NameSet : Answer(known)
    \/ \E names, known \in SUBSET NameSet, class \in Gaps \cup {"none"} : Replay(names, known, class)
    \/ Asked \/ StackDry \/ Persist \/ Stack \/ Commit \/ Rollback

Spec == Init /\ [][Next]_vars

-----------------------------------------------------------------------------
Collected == pc \in {"rows", "persist", "commit"}

(* Degrade, never invent: an instrument without a value has a row with the *)
(* class of its gap; a Polygon gap has at least a last error, unless the   *)
(* vendor answered that it has no bars.                                    *)
GapIsShown == Collected =>
    /\ vendor # "polygon" /\ listed # {} => DOMAIN rows = listed
    /\ vendor = "edgar" => rows # Nothing
    /\ \A i \in DOMAIN rows : rows[i] = "value" <=> i \in DOMAIN prints
    /\ vendor = "polygon" /\ budget.skipped > 0 => lastError # "none"
    /\ vendor = "polygon" /\ origin = "vendor" /\ ~key => lastError = "missing_env" /\ rows = Nothing

(* A vendor without its key is never asked, and the requests of an adapter *)
(* are bounded by its budget and the attempts of one GET.                  *)
BudgetIsKept ==
    /\ vendor \in Keyed /\ ~key => wire = 0
    /\ wire <= budget.used * Attempts
    /\ budget.skipped > 0 => budget.used = Rpm

(* No artifact shows a value of a vendor whose licence forbids it, none is *)
(* cited without persisted rows, and a printed summary is durable.         *)
ReportIsAllowed ==
    /\ report.shown # {} => vendor \in Publishable
    /\ report.shown \subseteq DOMAIN prints
    /\ report.cited => report.closure = "ELIGIBLE"
    /\ report.cited /\ report.printed => DOMAIN rows \subseteq store.durable
    /\ report.closure # "CLOSED"
    /\ pc = "idle" => store.rows = store.durable

FeedsAreHonest ==
    /\ GapIsShown
    /\ BudgetIsKept
    /\ ReportIsAllowed
=============================================================================
