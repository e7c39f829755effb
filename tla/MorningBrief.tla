----------------------------- MODULE MorningBrief -----------------------------
(***************************************************************************)
(* mm_briefing: the Sydney morning brief (the US close).  Days pass, bars  *)
(* and prints arrive late or not at all, the morning capture keeps what it *)
(* saw, and a brief renders one row or one gap per slot, one health state  *)
(* per domain and one header date, from the same evidence but by separate  *)
(* paths.  Day d is a Monday where d % 7 = 0.                              *)
(***************************************************************************)
EXTENDS Naturals, FiniteSets, FiniteSetsExt

CONSTANTS Stocks,    \* rank-eligible equities of the capture
          FirstDay,  \* New York date of the first brief
          MaxDay     \* bound: last New York date

VARIABLES today,    \* New York date of the brief
          prints,   \* slot -> what the live fetch returns for it
          prior,    \* observation day of US10Y in the previous capture, 0: none
          keys,     \* vendors whose key is set
          input,    \* what else this brief reads: [reader, hl, closes]
          doc       \* the brief just rendered

vars == <<today, prints, prior, keys, input, doc>>

SessionSlots == {"ES", "CL"}        \* of ES, NQ, DXY and CL
Slots == SessionSlots \cup {"US10Y", "VIX", "BTC"}
Perps == {"BTC", "SOL"}
Keys == {"POLYGON", "FRED"}
Day == 0..MaxDay
NoDay == 0
Cells == {"move", "level", "no session", "no print", "n/a"}

Weekday(d) == d % 7 < 5

(* expected_equity_session: the weekday before the New York date.          *)
Before(d) == Max({e \in Day : e < d /\ Weekday(e)})
Expected == Before(today)

NoPrint == [num |-> FALSE, day |-> NoDay, pct |-> FALSE]
NoPerp == [mid |-> FALSE, prev |-> FALSE, oi |-> FALSE, funding |-> "none", priorOi |-> "none"]
NoDoc == [drawn |-> FALSE, header |-> NoDay, t1 |-> FALSE, rows |-> [s \in Slots |-> "none"],
          asof |-> FALSE, perps |-> {}, moves |-> {}, gaps |-> {}, funding |-> {}, oi |-> {},
          health |-> [s \in Slots |-> "unavailable"], lines |-> {}, missing |-> {}, env |-> {}]

(* What a source whose key is missing returns: nothing, and a note.        *)
Vendor(s) == CASE s \in SessionSlots -> "POLYGON" [] s = "US10Y" -> "FRED" [] OTHER -> "none"
Seen(s) == IF Vendor(s) \in Keys \ keys THEN NoPrint ELSE prints[s]

(* The prior capture can be read; the perps and their open interest; the   *)
(* rows of this capture a brief is given, if it is given any.              *)
hl == input.hl
reader == input.reader
NoInput == [reader |-> FALSE, hl |-> [p \in Perps |-> NoPerp], given |-> FALSE, closes |-> {}]

TypeOK ==
    /\ today \in FirstDay..MaxDay
    /\ \A s \in Slots : prints[s].num \in BOOLEAN /\ prints[s].day \in Day
    /\ prior \in Day
    /\ keys \subseteq Keys
    /\ DOMAIN hl = Perps /\ reader \in BOOLEAN
    /\ \A c \in input.closes : c.name \in Stocks /\ c.session \in Day /\ c.market \in Day
    /\ \A s \in Slots : doc.rows[s] \in Cells \cup {"none"}
    /\ doc.header \in Day /\ doc.lines \subseteq Stocks

Init ==
    /\ today = FirstDay
    /\ prints = [s \in Slots |-> NoPrint]
    /\ prior = NoDay
    /\ keys \in {Keys, {"FRED"}, {"POLYGON"}}
    /\ input = NoInput /\ doc = NoDoc

-----------------------------------------------------------------------------
(* The next New York weekday on which a brief is due.                      *)
NextDay ==
    /\ ~doc.drawn
    /\ \E d \in Day : d > today /\ Weekday(d)
    /\ today' = Min({d \in Day : d > today /\ Weekday(d)})
    /\ UNCHANGED <<prints, prior, keys, input, doc>>

(* A vendor publishes a later bar or print, or stops answering.            *)
Publish(s, d, pct) ==
    /\ ~doc.drawn /\ d > prints[s].day
    /\ s # "ES" => pct
    /\ prints' = [prints EXCEPT ![s] = [num |-> TRUE, day |-> d, pct |-> pct]]
    /\ UNCHANGED <<today, prior, keys, input, doc>>

Falls(s) ==
    /\ ~doc.drawn /\ prints[s].num
    /\ prints' = [prints EXCEPT ![s] = NoPrint]
    /\ UNCHANGED <<today, prior, keys, input, doc>>

(* The capture of that morning: the print later briefs read as the prior.  *)
Capture ==
    /\ ~doc.drawn /\ Seen("US10Y").num
    /\ prior' = Seen("US10Y").day
    /\ UNCHANGED <<today, prints, keys, input, doc>>

-----------------------------------------------------------------------------
(* _shared_session_date                                                    *)
Shared ==
    IF \E d \in Day : \A s \in SessionSlots : Seen(s).num /\ Seen(s).day = d
    THEN Seen("ES").day ELSE NoDay

(* read_prior, _did_not_roll: no reader and a failed read are no prior.    *)
DidNotRoll(s) == s = "US10Y" /\ reader /\ prior # NoDay /\ Seen(s).num /\ Seen(s).day = prior

(* _numeric_delta                                                          *)
Numeric(s) == IF Seen(s).pct THEN "move" ELSE "n/a"

(* _change_cell                                                            *)
Cell(s) ==
    CASE s \in SessionSlots /\ Seen(s).day < Expected -> "no session"
      [] s \in SessionSlots /\ Seen(s).day = Expected -> IF Seen(s).pct THEN "move" ELSE "level"
      [] DidNotRoll(s)                                -> "no print"
      [] OTHER                                        -> Numeric(s)

(* _price_rows: BTC has the mid of Hyperliquid when it has both prices.    *)
FromHl(s) == s = "BTC" /\ hl["BTC"].mid /\ hl["BTC"].prev
Row(s) == CASE FromHl(s) -> "move" [] ~FromHl(s) /\ Seen(s).num -> Cell(s) [] OTHER -> "none"

(* _us10y_asof_label                                                       *)
AsOf == Row("US10Y") \notin {"none", "no print"} /\ Shared # NoDay /\ Seen("US10Y").day # Shared

(* Mutant: the health line knows nothing of the prior capture.             *)
HealthOfPrint(s) ==
    CASE ~Seen(s).num -> "unavailable"
      [] Seen(s).num /\ s \in SessionSlots /\ Seen(s).day < Expected -> "stale"
      [] OTHER -> "fresh"

(* _assets_for_health, score_data_health: from the asset rows alone.       *)
HealthOf(s) ==
    CASE ~Seen(s).num                                  -> "unavailable"
      [] s \in SessionSlots /\ Seen(s).num             -> IF Seen(s).day < Expected THEN "stale" ELSE "fresh"
      [] s \notin SessionSlots /\ DidNotRoll(s)        -> "stale"
      [] OTHER                                         -> "fresh"

(* _positioning, _append_oi: nothing of a perp without a print; funding at *)
(* the baseline is silent; open interest only as a change.                 *)
HasPrint(p) == hl[p].mid \/ hl[p].prev \/ hl[p].oi \/ hl[p].funding # "none"

PositionGaps ==
    {<<p, "Funding">> : p \in {q \in Perps : HasPrint(q) /\ hl[q].funding = "none"}} \cup
    {<<p, "Open interest">> : p \in {q \in Perps : HasPrint(q) /\
        \/ reader /\ hl[q].priorOi = "zero"
        \/ reader /\ hl[q].priorOi # "none" /\ ~hl[q].oi}}

(* equity_close_print: rows of the expected session only.                  *)
Qualified == {n \in Stocks : [name |-> n, session |-> Expected, market |-> Expected] \in input.closes}

(* render_morning_close, then apply_equity_close on its body when the      *)
(* command was given the capture.                                          *)
Drawn ==
    [drawn |-> TRUE,
     header |-> Shared,
     t1 |-> Shared # NoDay /\ Shared = Expected,
     rows |-> [s \in Slots |-> Row(s)],
     asof |-> AsOf,
     perps |-> {p \in Perps \ Slots : hl[p].mid},
     moves |-> {p \in Perps \ Slots : hl[p].mid /\ hl[p].prev},
     gaps |-> {<<s, "last">> : s \in {x \in Slots : Row(x) = "none"}} \cup
              {<<p, "last">> : p \in {q \in Perps \ Slots : ~hl[q].mid}} \cup
              {<<p, "24h">> : p \in {q \in Perps \ Slots : hl[q].mid /\ ~hl[q].prev}} \cup
              PositionGaps,
     funding |-> {p \in Perps : HasPrint(p) /\ hl[p].funding = "off"},
     oi |-> {p \in Perps : HasPrint(p) /\ reader /\ hl[p].priorOi = "value" /\ hl[p].oi},
     health |-> [s \in Slots |-> HealthOf(s)],
     lines |-> IF input.given THEN Qualified ELSE {},
     missing |-> IF input.given THEN Stocks \ Qualified ELSE {},
     env |-> Keys \ keys]

Render(in) ==
    /\ ~doc.drawn
    /\ UNCHANGED <<today, prints, prior, keys>>
    /\ input' = in
    /\ doc' = Drawn'

(* The command ends with its document.                                     *)
Finish ==
    /\ doc.drawn
    /\ input' = NoInput /\ doc' = NoDoc
    /\ UNCHANGED <<today, prints, prior, keys>>

PerpStates == {NoPerp} \cup
    [mid : BOOLEAN, prev : BOOLEAN, oi : {TRUE}, funding : {"off"}, priorOi : {"value"}] \cup
    [mid : {TRUE}, prev : {TRUE}, oi : BOOLEAN, funding : {"none", "base"}, priorOi : {"none", "zero"}]

Rows == [name : Stocks, session : {Expected, Before(Expected)}, market : {Expected, Before(Expected)}]

(* Either one perp trades or the brief is given the rows of the capture.   *)
Trading(r, p, state) == [NoInput EXCEPT !.reader = r, !.hl[p] = state]
Given(S) == [NoInput EXCEPT !.given = TRUE, !.closes = S]

Inputs ==
    {Trading(r, p, state) : r \in BOOLEAN, p \in Perps, state \in PerpStates} \cup
    {Given(S) : S \in SUBSET Rows}

Next ==
    \/ NextDay
    \/ \E s \in {"ES", "CL", "US10Y"} : Falls(s)
    \/ \E s \in {"ES", "CL", "US10Y"}, d \in {Expected, Before(Expected)}, pct \in BOOLEAN : Publish(s, d, pct)
    \/ Capture
    \/ \E in \in Inputs : Render(in)
    \/ Finish

Spec == Init /\ [][Next]_vars

-----------------------------------------------------------------------------
(* The header's date is the date of every session slot's bar, and the line *)
(* that calls the bars T-1 is there only when they are the expected ones:  *)
(* no row below it then says that there was no new session.                *)
HeaderIsShared == doc.drawn =>
    /\ doc.header # NoDay => \A s \in SessionSlots : Seen(s).num /\ Seen(s).day = doc.header
    /\ doc.t1 => /\ doc.header = Expected
                 /\ \A s \in SessionSlots : doc.rows[s] \in {"move", "level"} /\ doc.health[s] = "fresh"

(* A repeated observation is never shown as a move, and the cell and the   *)
(* health line, computed apart, agree on which rows did not roll.          *)
RepeatIsNoMove == doc.drawn =>
    /\ \A s \in SessionSlots \cup {"US10Y"} :
           doc.health[s] = "stale" <=> doc.rows[s] \in {"no session", "no print"}
    /\ reader /\ prior # NoDay /\ Seen("US10Y").day = prior => doc.rows["US10Y"] # "move"

(* Every slot and every perp asked for is a row or a gap and never both; a *)
(* gap of a slot is never healthy; a missing key is named.                 *)
NothingIsDropped == doc.drawn =>
    /\ \A s \in Slots : (<<s, "last">> \in doc.gaps) <=> (doc.rows[s] = "none")
    /\ \A p \in Perps \ Slots : (<<p, "last">> \in doc.gaps) <=> (p \notin doc.perps)
    /\ \A s \in Slots : <<s, "last">> \in doc.gaps => doc.health[s] = "unavailable"
    /\ \A s \in SessionSlots : "POLYGON" \in doc.env => <<s, "last">> \in doc.gaps

(* The equity lines are all of the expected session, each name is a line   *)
(* or a gap, and a US10Y row dated unlike the header says its date.        *)
DatesAgree == doc.drawn =>
    /\ input.given => doc.lines \cap doc.missing = {} /\ doc.lines \cup doc.missing = Stocks
    /\ \A n \in doc.lines : \E c \in input.closes : c.name = n /\ c.session = Expected /\ c.market = c.session
    /\ doc.rows["US10Y"] = "move" /\ doc.header \notin {NoDay, Seen("US10Y").day} => doc.asof

MorningIsHonest == HeaderIsShared /\ RepeatIsNoMove /\ NothingIsDropped /\ DatesAgree
=============================================================================
