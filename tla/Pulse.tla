-------------------------------- MODULE Pulse --------------------------------
(***************************************************************************)
(* mm_briefing: one live Market Pulse brief.  The macro sources are asked  *)
(* one after another, the last answer for a slot wins, ages are gated, the *)
(* BTC slot is routed to the Hyperliquid mid of Market Memory or of the    *)
(* live body, the whole is given one quality, and the document is written  *)
(* to two paths and indexed.                                               *)
(***************************************************************************)
EXTENDS Naturals, Sequences, FiniteSets

CONSTANTS Ages,      \* ages in days an observation may have
          FredLag,   \* max_calendar_lag_days of the daily series
          QuoteLag,  \* days after which a quote of Stooq or Polygon is stale
          MaxRuns    \* bound: briefs of a behaviour

VARIABLES pc,
          turn,    \* the source asked, the path written
          kind,    \* "preopen" or "close"
          slots,   \* slot -> print, NoPrint until a source answered for it
          notes,   \* a source left a note
          hl,      \* Hyperliquid state of BTC: [metrics, mid, q, age]
          snapQ,   \* quality of the snapshot
          label,   \* quality of the document
          disk,    \* the four files: path -> number of the run that wrote it
          table,   \* rows of the brief table: [run, label]
          runs

vars == <<pc, turn, kind, slots, notes, hl, snapQ, label, disk, table, runs>>

Slots == {"ES", "VIX", "US10Y", "BTC"}
Sources == <<"stooq", "polygon", "fred", "coingecko">>
Qualities == <<"ok", "partial", "stale", "unavailable", "contradicted">>
Paths == <<"legacy.md", "legacy.sha256", "dod.md", "dod.sha256">>

NoPrint == [num |-> FALSE, q |-> "unavailable", src |-> "none", age |-> 0]
NoHl == [metrics |-> FALSE, mid |-> FALSE, q |-> "unavailable", age |-> 0]

Rank(q) == CHOOSE i \in DOMAIN Qualities : Qualities[i] = q

(* worst_quality                                                           *)
Worst(S) == Qualities[CHOOSE i \in DOMAIN Qualities :
    /\ i = 1 \/ \E q \in S : Rank(q) = i
    /\ \A q \in S : Rank(q) <= i]

(* pulse_quality and overall_pulse_quality                                 *)
Shown(q) == CASE q = "ok" -> "fresh" [] q = "contradicted" -> "unavailable" [] OTHER -> q

Overall(S) ==
    LET shown == {Shown(q) : q \in S} IN
    IF shown = {"fresh"}                       THEN "fresh"
    ELSE IF shown = {"unavailable"}            THEN "unavailable"
    ELSE IF shown \subseteq {"fresh", "stale"} THEN "stale"
    ELSE "partial"

(* storage_quality                                                         *)
Stored(q) == CASE q = "fresh" -> "ok" [] q = "unavailable" -> "partial" [] OTHER -> q

-----------------------------------------------------------------------------
(* What a source is asked for, how it labels a number of that age, and     *)
(* what it leaves for a slot it has no answer for: Polygon and CoinGecko a *)
(* row without a number, Stooq and FRED nothing.                           *)
Carries(s) == CASE s = "stooq" -> {"ES", "VIX"} [] s = "polygon" -> {"ES"}
                [] s = "fred" -> {"US10Y"}      [] s = "coingecko" -> {"BTC"}

QuoteQuality(s, age) ==
    CASE s \in {"stooq", "polygon"} -> IF age > QuoteLag THEN "stale" ELSE "ok"
      [] s = "fred"                 -> IF age > FredLag THEN "stale" ELSE "ok"
      [] OTHER                      -> "ok"

Answer(s, age) == [num |-> TRUE, q |-> QuoteQuality(s, age), src |-> s,
                   age |-> IF s = "coingecko" THEN 0 ELSE age]

Empty(s) == [NoPrint EXCEPT !.src = s]

(* The rows of a source: the answered slots, then the unanswered; the VIX  *)
(* of Polygon is structurally unavailable whatever else answered.          *)
Rows(s, answered, age) ==
    [x \in Slots |->
        IF x \in answered THEN Answer(s, age)
        ELSE IF s = "polygon" /\ x \in {"ES", "VIX"} THEN Empty(s)
        ELSE slots[x]]

(* complete_cross_asset with the freshness gate: a slot without a row gets *)
(* one without a number, FRED rows past their lag are stale.               *)
Gated(p) == IF p.src = "fred" /\ p.num /\ p.age > FredLag THEN [p EXCEPT !.q = Worst({p.q, "stale"})] ELSE p

(* Mutant: without a mid the macro source's price stays.                   *)
RoutedOrKept(p, escalated) ==
    IF hl.mid THEN [num |-> TRUE, src |-> "hyperliquid", age |-> hl.age, q |-> "ok"] ELSE p

(* apply_crypto_pulse_from_hl: the mid of Hyperliquid, or nothing.         *)
MidQuality == IF hl.q = "unavailable" THEN "ok" ELSE hl.q

Routed(p, escalated) ==
    IF hl.mid
    THEN [num |-> TRUE, src |-> "hyperliquid", age |-> hl.age,
          q |-> IF escalated THEN Worst({MidQuality, "partial"}) ELSE MidQuality]
    ELSE [NoPrint EXCEPT !.src = "hyperliquid"]

-----------------------------------------------------------------------------
TypeOK ==
    /\ pc \in {"idle", "ask", "merge", "memory", "live", "crypto", "quality", "write", "index"}
    /\ turn \in 0..Len(Sources)
    /\ kind \in {"preopen", "close"}
    /\ \A x \in Slots : slots[x].num \in BOOLEAN /\ slots[x].age \in Nat
    /\ notes \in BOOLEAN
    /\ label \in {"none", "fresh", "ok", "stale", "partial", "unavailable", "contradicted"}
    /\ \A i \in DOMAIN Paths : disk[i] \in 0..MaxRuns
    /\ \A r \in table : r.run \in 1..MaxRuns
    /\ runs \in 0..MaxRuns

Init ==
    /\ pc = "idle" /\ turn = 0 /\ kind = "preopen"
    /\ slots = [x \in Slots |-> NoPrint]
    /\ notes = FALSE
    /\ hl = NoHl
    /\ snapQ = "ok" /\ label = "none"
    /\ disk = [i \in DOMAIN Paths |-> 0]
    /\ table = {}
    /\ runs = 0

Begin(k) ==
    /\ pc = "idle" /\ runs < MaxRuns
    /\ pc' = "ask" /\ turn' = 1 /\ kind' = k
    /\ slots' = [x \in Slots |-> NoPrint]
    /\ notes' = FALSE /\ hl' = NoHl /\ snapQ' = "ok" /\ label' = "none"
    /\ runs' = runs + 1
    /\ UNCHANGED <<disk, table>>

(* LiveMacroFetcher.fetch, one source: what it does not answer leaves a    *)
(* note, except an id that CoinGecko's body lacks.                         *)
AskSource(answered, age) ==
    /\ pc = "ask" /\ answered \subseteq Carries(Sources[turn])
    /\ LET s == Sources[turn] IN
       /\ slots' = Rows(s, answered, age)
       /\ \/ notes' = (notes \/ s = "polygon" \/ answered # Carries(s))
          \/ s = "coingecko" /\ notes' = notes
    /\ IF turn = Len(Sources) THEN pc' = "merge" /\ turn' = 0 ELSE pc' = pc /\ turn' = turn + 1
    /\ UNCHANGED <<kind, hl, snapQ, label, disk, table, runs>>

(* An HTTP error that leaves a source's loop ends the fetch: the rows of   *)
(* that source and of those after it are missing.                          *)
FetchAborts ==
    /\ pc = "ask"
    /\ notes' = TRUE
    /\ pc' = "merge" /\ turn' = 0
    /\ UNCHANGED <<kind, slots, hl, snapQ, label, disk, table, runs>>

(* The quality of the rows and notes, the gate, the filled slots.          *)
Merge ==
    /\ pc = "merge"
    /\ slots' = [x \in Slots |-> Gated(slots[x])]
    /\ snapQ' = Worst({slots'[x].q : x \in Slots} \cup IF notes THEN {"partial"} ELSE {})
    /\ pc' = "memory"
    /\ UNCHANGED <<turn, kind, notes, hl, label, disk, table, runs>>

(* hl_from_memory: the latest observations, however old they are.          *)
FromMemory(found) ==
    /\ pc = "memory"
    /\ hl' = found
    /\ pc' = IF found.metrics THEN "crypto" ELSE "live"
    /\ UNCHANGED <<turn, kind, slots, notes, snapQ, label, disk, table, runs>>

(* hl_from_live_info, only asked when memory has no metric at all; the     *)
(* previous day's price alone makes the instrument's quality ok.           *)
FromLive(found) ==
    /\ pc = "live"
    /\ hl' = found
    /\ pc' = "crypto"
    /\ UNCHANGED <<turn, kind, slots, notes, snapQ, label, disk, table, runs>>

Memories == {NoHl} \cup {[metrics |-> TRUE, mid |-> m, q |-> q, age |-> a] :
                             m \in BOOLEAN, q \in {"ok", "contradicted"}, a \in Ages}

LiveBodies == {NoHl, [metrics |-> TRUE, mid |-> TRUE, q |-> "ok", age |-> 0],
                     [metrics |-> TRUE, mid |-> FALSE, q |-> "ok", age |-> 0]}

(* CoinGecko and the mid may differ by more than the threshold.            *)
Crypto(apart) ==
    /\ pc = "crypto"
    /\ apart => slots["BTC"].num /\ hl.mid
    /\ slots' = [slots EXCEPT !["BTC"] = Routed(@, apart)]
    /\ snapQ' = Worst({snapQ} \cup {slots'[x].q : x \in Slots})
    /\ pc' = "quality"
    /\ UNCHANGED <<turn, kind, notes, hl, label, disk, table, runs>>

Parts == {snapQ, hl.q} \cup {slots[x].q : x \in Slots}

(* The quality of the document: generate_preopen, generate_close.          *)
Label ==
    /\ pc = "quality"
    /\ label' = IF kind = "preopen" THEN Overall(Parts) ELSE Worst({snapQ, hl.q})
    /\ pc' = "write" /\ turn' = 1
    /\ UNCHANGED <<kind, slots, notes, hl, snapQ, disk, table, runs>>

(* write_brief: the document, its hash, and for the pre-market brief both  *)
(* again under the second path.                                            *)
Write(i) ==
    /\ pc = "write" /\ turn = i
    /\ disk' = [disk EXCEPT ![i] = runs]
    /\ IF i = (IF kind = "preopen" THEN 4 ELSE 2)
       THEN pc' = "index" /\ turn' = 0 ELSE pc' = pc /\ turn' = i + 1
    /\ UNCHANGED <<kind, slots, notes, hl, snapQ, label, table, runs>>

(* index_brief; a failure is only a warning.                               *)
Index ==
    /\ pc = "index"
    /\ \/ table' = table \cup {[run |-> runs, label |-> Stored(label)]}
       \/ UNCHANGED table
    /\ pc' = "idle"
    /\ UNCHANGED <<turn, kind, slots, notes, hl, snapQ, label, disk, runs>>

Die ==
    /\ pc # "idle"
    /\ pc' = "idle" /\ turn' = 0
    /\ UNCHANGED <<kind, slots, notes, hl, snapQ, label, disk, table, runs>>

Next ==
    \/ \E k \in {"preopen", "close"} : Begin(k)
    \/ \E answered \in SUBSET Slots, age \in Ages : AskSource(answered, age)
    \/ FetchAborts
    \/ Merge
    \/ \E found \in Memories : FromMemory(found)
    \/ \E found \in LiveBodies : FromLive(found)
    \/ \E apart \in BOOLEAN : Crypto(apart)
    \/ Label
    \/ \E i \in DOMAIN Paths : Write(i)
    \/ Index
    \/ Die

Spec == Init /\ [][Next]_vars

-----------------------------------------------------------------------------
Final == label # "none"

(* A slot that shows no number is labelled unavailable, also after rows    *)
(* were overwritten, filled in, gated and routed; so no gap looks fresh.   *)
GapIsShown == Final => \A x \in Slots : ~slots[x].num => Shown(slots[x].q) = "unavailable"

(* A document labelled fresh has a number in every slot, no note of any    *)
(* source, and no macro number older than its source may be.               *)
FreshMeansAll == label \in {"fresh", "ok"} =>
    /\ ~notes
    /\ \A x \in Slots : slots[x].num
    /\ slots["US10Y"].age <= FredLag /\ slots["ES"].age <= QuoteLag

(* BTC shows Hyperliquid's mid or nothing, never another source's price.   *)
CryptoIsRouted == Final => slots["BTC"].src = "hyperliquid"

(* A row of the table is of a document whose two files reached their path, *)
(* and a later run has only overwritten them with its own.                 *)
IndexedWasWritten == \A r \in table : disk[1] >= r.run /\ disk[2] >= r.run

PulseIsHonest == GapIsShown /\ FreshMeansAll /\ CryptoIsRouted /\ IndexedWasWritten
=============================================================================
