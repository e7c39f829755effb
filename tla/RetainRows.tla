------------------------------ MODULE RetainRows ------------------------------
(***************************************************************************)
(* What one run of lab retain morning or proof fetches and makes of it     *)
(* (mvp_retain.py, capture_mvp_retain): the perpetuals of Hyperliquid, one *)
(* grouped-daily body of Polygon found by walking back over empty          *)
(* weekdays, and the spot pair of the price-only name.  Every name of the  *)
(* membership becomes a row; the equity rows are dumped to a file, all     *)
(* rows are persisted, and the brief of the same job prints what qualifies *)
(* in the file.  Who else captures is MorningCapture.  Day d is a Monday   *)
(* where d % 7 = 0.                                                        *)
(***************************************************************************)
EXTENDS Naturals, FiniteSets, FiniteSetsExt

CONSTANTS Stocks,    \* the tickers retained
          Metrics,   \* metrics of a bound perpetual, here of one
          Bodies,    \* non-empty grouped bodies: Stocks -> "bar", "untimed", "hollow" or "none"
          Today,     \* New York dates a capture may be taken on
          Walk,      \* GROUPED_EMPTY_WALK: bodies asked for at most
          Rpm,       \* requests the adapter's budget allows
          Reach      \* bound: days back for which the vendor still publishes

VARIABLES pc,
          date, late, proof,  \* New York date, whether the cash session is over, kind
          grouped,            \* day -> its grouped body, for the days that have one
          atStart,            \* history: days that had a body when the walk began
          day, asked,         \* the day asked for next, bodies asked for
          answer,             \* [error, session]: what the walk ended with
          body,               \* the body it found
          known, pair,        \* metrics the perpetual has, whether one entry is the pair
          rows,               \* name -> row, once built
          file, stored,       \* the dumped tickers, and whether the rows committed
          lines               \* tickers the brief prints

vars == <<pc, date, late, proof, grouped, atStart, day, asked, answer, body, known, pair, rows,
          file, stored, lines>>

Days == 1..Max(Today)
Weekday(d) == d % 7 < 5
Before(d) == Max({e \in Days : e < d /\ Weekday(e)})

(* expected_equity_session for the morning, us_cash_session_date for a     *)
(* proof: the last session whose 16:00 has passed.                         *)
Expected == Before(date)
Session == IF proof /\ late /\ Weekday(date) THEN date ELSE Expected

NoAnswer == [error |-> "none", session |-> 0]
NoBody == [s \in Stocks |-> "none"]
NoRow == [n \in {} |-> "none"]

TypeOK ==
    /\ pc \in {"idle", "walk", "spot", "dump", "persist", "brief", "done"}
    /\ DOMAIN grouped \subseteq Days /\ atStart \subseteq DOMAIN grouped
    /\ day \in Days /\ asked \in 0..Walk
    /\ answer.error \in {"none", "rate_limited", "http_error", "missing_env"}
    /\ known \subseteq Metrics /\ pair \in BOOLEAN
    /\ DOMAIN rows \in {{}, Stocks \cup Metrics \cup {"price"}}
    /\ file \subseteq Stocks /\ lines \subseteq Stocks

Init ==
    /\ pc = "idle"
    /\ date \in Today /\ late \in BOOLEAN /\ proof \in BOOLEAN
    /\ grouped = [d \in {} |-> NoBody] /\ atStart = {}
    /\ day = 1 /\ asked = 0 /\ answer = NoAnswer /\ body = NoBody
    /\ known = {} /\ pair = FALSE
    /\ rows = NoRow /\ file = {} /\ stored = FALSE /\ lines = {}

-----------------------------------------------------------------------------
(* Polygon publishes the body of a session, at any time after it.          *)
Publish(d, b) ==
    /\ d \in Days \ DOMAIN grouped /\ Weekday(d)
    /\ d + Reach >= date /\ d <= date
    /\ pc \in {"idle", "walk"}
    /\ grouped' = [e \in DOMAIN grouped \cup {d} |-> IF e = d THEN b ELSE grouped[e]]
    /\ UNCHANGED <<pc, date, late, proof, atStart, day, asked, answer, body, known, pair, rows,
                   file, stored, lines>>

(* metaAndAssetCtxs, called first; what it lacks is missing.               *)
Perps(m) ==
    /\ pc = "idle"
    /\ known' = m
    /\ pc' = "walk" /\ day' = Session /\ atStart' = DOMAIN grouped
    /\ UNCHANGED <<date, late, proof, grouped, asked, answer, body, pair, rows, file, stored, lines>>

Ended(error, session, found) ==
    /\ answer' = [error |-> error, session |-> session]
    /\ body' = found
    /\ pc' = "spot"

(* _read_grouped_session: the first body with bars wins, an empty one      *)
(* sends it back a weekday, the budget and any error end it.               *)
Found ==
    /\ pc = "walk" /\ asked < Walk /\ asked < Rpm /\ day \in DOMAIN grouped
    /\ asked' = asked + 1
    /\ Ended("none", day, grouped[day])
    /\ UNCHANGED <<date, late, proof, grouped, atStart, day, known, pair, rows, file, stored, lines>>

WalkBack ==
    /\ pc = "walk" /\ asked < Walk /\ asked < Rpm /\ day \notin DOMAIN grouped
    /\ asked' = asked + 1 /\ day' = Before(day)
    /\ UNCHANGED <<pc, date, late, proof, grouped, atStart, answer, body, known, pair, rows,
                   file, stored, lines>>

WalkEnds ==
    /\ pc = "walk"
    /\ \E error \in CASE asked = Walk -> {"none"}
                      [] asked < Walk /\ asked = Rpm -> {"rate_limited"}
                      [] OTHER -> IF asked = 0 THEN {"missing_env", "http_error"} ELSE {"http_error"} :
           Ended(error, Session, NoBody)
    /\ UNCHANGED <<date, late, proof, grouped, atStart, day, asked, known, pair, rows, file,
                   stored, lines>>

(* _equity_envelopes: one row for each ticker, from the body found.        *)
Equity(s) ==
    LET got == IF answer.error = "none" THEN body[s] ELSE "none" IN
    [value |-> got \in {"bar", "untimed"},
     session |-> answer.session,
     quality |-> IF got # "bar" THEN "partial"
                 ELSE IF answer.session < Session THEN "stale" ELSE "ok",
     from |-> IF answer.error # "none" THEN "failed"
              ELSE IF got = "none" THEN "absent" ELSE "grouped"]

Quote(value) == [value |-> value, session |-> 0,
                 quality |-> IF value THEN "ok" ELSE "partial", from |-> "hyperliquid"]

(* spotMetaAndAssetCtxs, then build_retain_envelopes: the price-only name  *)
(* has a price only when exactly one entry is its pair.                    *)
Spot(one, mid) ==
    /\ pc = "spot"
    /\ mid => one
    /\ pair' = one
    /\ rows' = [n \in Stocks \cup Metrics \cup {"price"} |->
                  CASE n \in Stocks  -> Equity(n)
                    [] n \in Metrics -> Quote(n \in known)
                    [] n = "price"   -> Quote(mid)]
    /\ pc' = "dump"
    /\ UNCHANGED <<date, late, proof, grouped, atStart, day, asked, answer, body, known, file,
                   stored, lines>>

(* A Hyperliquid call raises: no row at all, whatever Polygon said.        *)
FetchFails ==
    /\ pc \in {"idle", "spot"}
    /\ pc' = "brief"
    /\ UNCHANGED <<date, late, proof, grouped, atStart, day, asked, answer, body, known, pair,
                   rows, file, stored, lines>>

(* EquityCaptureWriter: the file first, and a failing dump is passed over; *)
(* a proof has no such writer.                                             *)
Dump(ok) ==
    /\ pc = "dump"
    /\ file' = IF ok /\ ~proof THEN Stocks ELSE file
    /\ pc' = "persist"
    /\ UNCHANGED <<date, late, proof, grouped, atStart, day, asked, answer, body, known, pair,
                   rows, stored, lines>>

Persist(ok) ==
    /\ pc = "persist"
    /\ stored' = ok
    /\ pc' = "brief"
    /\ UNCHANGED <<date, late, proof, grouped, atStart, day, asked, answer, body, known, pair,
                   rows, file, lines>>

(* _qualify against the header date of a brief made on that date or, past  *)
(* midnight in New York, on the next.                                      *)
Qualifies(s, header) ==
    /\ s \in file /\ rows[s].from = "grouped"
    /\ rows[s].value /\ body[s] # "untimed" /\ rows[s].session = header

Brief(header) ==
    /\ pc = "brief" /\ ~proof
    /\ header = Expected \/ (Weekday(date) /\ header = date)
    /\ lines' = {s \in Stocks : Qualifies(s, header)}
    /\ pc' = "done"
    /\ UNCHANGED <<date, late, proof, grouped, atStart, day, asked, answer, body, known, pair,
                   rows, file, stored>>

Next ==
    \/ \E d \in Days, b \in Bodies : Publish(d, b)
    \/ \E m \in SUBSET Metrics : Perps(m)
    \/ Found \/ WalkBack \/ WalkEnds
    \/ \E one, mid \in BOOLEAN : Spot(one, mid)
    \/ FetchFails
    \/ \E ok \in BOOLEAN : Dump(ok) \/ Persist(ok)
    \/ \E header \in Days : Brief(header)

Spec == Init /\ [][Next]_vars

-----------------------------------------------------------------------------
Built == rows # NoRow

(* A close is the bar of the session its row names, and that session is    *)
(* the latest that had a body when the walk began: a published session is  *)
(* never skipped for an older one, also while the vendor goes on.          *)
CloseIsOfItsSession == Built => \A s \in Stocks : rows[s].value =>
    /\ rows[s].session \in DOMAIN grouped
    /\ grouped[rows[s].session][s] \in {"bar", "untimed"}
    /\ \A d \in atStart : d <= Session => d <= rows[s].session
    /\ rows[s].quality = "ok" => rows[s].session = Session

(* What could not be fetched, an error, an exhausted budget or an absent   *)
(* ticker, is a partial row of the session asked for, never an older close.*)
FailureIsPartial == Built =>
    /\ answer.error # "none" => \A s \in Stocks : ~rows[s].value /\ rows[s].session = Session
    /\ \A n \in DOMAIN rows : ~rows[n].value => rows[n].quality = "partial"
    /\ ~pair => ~rows["price"].value

(* The brief prints only closes of the very session the capture asked for: *)
(* an earlier session the walk fell back to, though kept in the store, is  *)
(* a gap in the brief, and so is every ticker of a capture past midnight.  *)
LinesAreOfTheHeader == pc = "done" =>
    \A s \in lines : rows[s].quality = "ok" /\ rows[s].session = Expected

RetainIsTrue == CloseIsOfItsSession /\ FailureIsPartial /\ LinesAreOfTheHeader
=============================================================================
