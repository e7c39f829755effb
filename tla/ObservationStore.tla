-------------------------- MODULE ObservationStore --------------------------
(***************************************************************************)
(* Market Memory under concurrent ingests (lab ingest, ingest-once).  An   *)
(* invocation reads the clock, fetches, and puts its envelopes one by one  *)
(* in one database session: the raw bytes go to the object store at once,  *)
(* the pointer row, the observation and its contradiction links wait for   *)
(* the commit at the end.  Readers ask what was known at a time T.         *)
(*                                                                         *)
(* A claim is a fact slot (source, instrument, metric, event time, extras) *)
(* and a value; its hash is the pair.  A live snapshot has no event time:  *)
(* its slot is the same at every poll.                                     *)
(***************************************************************************)
EXTENDS Naturals

CONSTANTS
    Sessions,      \* ingest invocations
    Slots,         \* fact slots
    Values,        \* values a vendor reports for a slot
    NoValue,       \* the vendor left the field out
    Payloads,      \* raw payloads a claim can be read from
    NoBytes,       \* no object under a key
    NoKey,         \* no raw pointer (--no-objects)
    DayLen,        \* clock ticks of one ingest day
    MaxClock,      \* bound: clock
    MaxBatch       \* bound: envelopes of one invocation

ASSUME StoreAssumption ==
    /\ NoValue \notin Values
    /\ NoBytes \notin Payloads
    /\ DayLen \in Nat \ {0}
    /\ MaxClock \in Nat
    /\ MaxBatch \in Nat \ {0}

VARIABLES
    clock,     \* lab time
    obs,       \* committed rows of observation
    links,     \* committed contradicts links: pairs of claims
    raws,      \* committed rows of raw_object
    objects,   \* bytes under each key of the object store
    session    \* each invocation's transaction and what it works on

vars == <<clock, obs, links, raws, objects, session>>

Clock == 0..MaxClock
Claim == Slots \X (Values \cup {NoValue})

(* The key holds the claim's hash and the day of ingest.                   *)
Keys == Claim \X (0..(MaxClock \div DayLen))
Key(claim, at) == <<claim, at \div DayLen>>

Qualities == {"ok", "partial", "contradicted"}
(* A missing field is partial; a live snapshot is as fresh as its ingest.  *)
Quality(claim) == IF claim[2] = NoValue THEN "partial" ELSE "ok"

Row == [claim: Claim, at: Clock, quality: Qualities,
        key: Keys \cup {NoKey}, sum: Payloads \cup {NoBytes}, by: Sessions]
Pointer == [key: Keys, sum: Payloads]
Envelope == [claim: Claim, payload: Payloads]

(* "before" is history: the invocations that had committed at the start.   *)
Session == [pc: {"idle", "next", "put", "done", "failed"}, at: Clock,
            durable: BOOLEAN, count: 0..MaxBatch, current: SUBSET Envelope,
            sawPointer: BOOLEAN, obs: SUBSET Row, links: SUBSET (Claim \X Claim),
            raws: SUBSET Pointer, marked: SUBSET Claim, before: SUBSET Sessions]

Closed == [pc |-> "idle", at |-> 0, durable |-> FALSE, count |-> 0,
           current |-> {}, sawPointer |-> FALSE, obs |-> {}, links |-> {},
           raws |-> {}, marked |-> {}, before |-> {}]

Init ==
    /\ clock = 0
    /\ obs = {} /\ links = {} /\ raws = {}
    /\ objects = [k \in Keys |-> NoBytes]
    /\ session = [s \in Sessions |-> Closed]

Open(s) == session[s].pc \in {"next", "put"}
Others(s) == {t \in Sessions \ {s} : Open(t)}

(* Read committed: what is committed, and what the session wrote.          *)
Visible(s) == obs \cup session[s].obs
Claims(rows) == {o.claim : o \in rows}
PointerKeys(rows) == {p.key : p \in rows}

Current(s) == CHOOSE e \in session[s].current : TRUE
CurrentKey(s) == IF session[s].durable THEN Key(Current(s).claim, session[s].at)
                                       ELSE NoKey

-----------------------------------------------------------------------------
(* now = utcnow() comes first, the fetches after it.                       *)
Begin(s, durable) ==
    /\ session[s].pc = "idle"
    /\ session' = [session EXCEPT ![s].pc = "next", ![s].at = clock,
                     ![s].durable = durable,
                     ![s].before = {t \in Sessions : session[t].pc = "done"}]
    /\ UNCHANGED <<clock, obs, links, raws, objects>>

(* The next envelope: its bytes are in the object store from here on,      *)
(* whatever becomes of the transaction; then the pointer row is looked up. *)
Store(s, e) ==
    /\ session[s].pc = "next" /\ session[s].count < MaxBatch
    /\ LET key == Key(e.claim, session[s].at) IN
       /\ objects' = IF session[s].durable
                       THEN [objects EXCEPT ![key] = e.payload] ELSE objects
       /\ session' = [session EXCEPT ![s].pc = "put", ![s].current = {e},
                        ![s].sawPointer = key \in PointerKeys(raws \cup session[s].raws)]
    /\ UNCHANGED <<clock, obs, links, raws>>

Rollback(s) ==
    session' = [session EXCEPT ![s] =
                  [Closed EXCEPT !.pc = "failed", !.at = session[s].at,
                                 !.before = session[s].before]]

(* put_object raised: the exception leaves through session_scope.          *)
StoreRaised(s, e) == Rollback(s)

StoreFails(s, e) ==
    /\ session[s].pc = "next" /\ session[s].count < MaxBatch /\ session[s].durable
    /\ StoreRaised(s, e)
    /\ UNCHANGED <<clock, obs, links, raws, objects>>

-----------------------------------------------------------------------------
(* ObservationRepository.put_observation                                   *)

(* Mutant: the watermark is the claim's own event time.                    *)
EventTime(s) == 0

(* as_of_knowledge = ingested_at, read before the fetch.                   *)
Watermark(s) == session[s].at

(* Mutant: only rows that are still ok are contradicted.                   *)
OkRivals(s, claim) ==
    {o \in Visible(s) : o.claim[1] = claim[1] /\ o.claim # claim /\ o.quality = "ok"}

(* _link_contradictions: rows of the same slot with another value.         *)
Rivals(s, claim) ==
    {o \in Visible(s) : o.claim[1] = claim[1] /\ o.claim # claim}

Contradict(rows, claims) ==
    {IF o.claim \in claims /\ o.quality = "ok"
       THEN [o EXCEPT !.quality = "contradicted"] ELSE o : o \in rows}

(* Mutant: the existing row is not looked for.                             *)
Always(s) == TRUE
IsNew(s) == Current(s).claim \notin Claims(Visible(s))

(* An insert waits for the open transaction that holds the same key or the *)
(* same claim, an update for the one that holds the row.                   *)
Waits(s) ==
    LET claim == Current(s).claim IN
    \E t \in Others(s) :
        \/ CurrentKey(s) # NoKey /\ ~session[s].sawPointer
              /\ CurrentKey(s) \in PointerKeys(session[t].raws)
        \/ IsNew(s) /\ claim \in Claims(session[t].obs)
        \/ IsNew(s) /\ \E o \in Rivals(s, claim) :
              o.quality = "ok" /\ o.claim \in session[t].marked

(* record_raw_object selects, then inserts: a row committed in between     *)
(* under the same key is an IntegrityError that ends the invocation.       *)
PointerTaken(s) ==
    CurrentKey(s) # NoKey /\ ~session[s].sawPointer /\ CurrentKey(s) \in PointerKeys(raws)

PutRefused(s) ==
    /\ session[s].pc = "put" /\ ~Waits(s) /\ PointerTaken(s)
    /\ Rollback(s)
    /\ UNCHANGED <<clock, obs, links, raws, objects>>

(* Mutant: the empty key of a NullObjectStore becomes a row too.           *)
PutAnyPointer(s) ==
    session[s].raws \cup {[key |-> CurrentKey(s), sum |-> Current(s).payload]}

PutPointer(s) ==
    IF CurrentKey(s) = NoKey \/ session[s].sawPointer THEN session[s].raws
    ELSE session[s].raws \cup {[key |-> CurrentKey(s), sum |-> Current(s).payload]}

NewRow(s) ==
    LET claim == Current(s).claim IN
    [claim |-> claim, at |-> Watermark(s),
     quality |-> IF Rivals(s, claim) # {} /\ Quality(claim) = "ok"
                   THEN "contradicted" ELSE Quality(claim),
     key |-> CurrentKey(s),
     sum |-> IF session[s].durable THEN Current(s).payload ELSE NoBytes,
     by |-> s]

(* The raw pointer is recorded before the claim is known to be new.        *)
Put(s) ==
    /\ session[s].pc = "put" /\ ~Waits(s) /\ ~PointerTaken(s)
    /\ LET claim == Current(s).claim
           rivals == Claims(Rivals(s, claim)) IN
       session' = [session EXCEPT
           ![s].pc = "next", ![s].count = @ + 1, ![s].current = {},
           ![s].sawPointer = FALSE,
           ![s].raws = PutPointer(s),
           ![s].obs = IF IsNew(s) THEN Contradict(@, rivals) \cup {NewRow(s)} ELSE @,
           ![s].links = IF IsNew(s)
                          THEN @ \cup ({claim} \X rivals) \cup (rivals \X {claim}) ELSE @,
           ![s].marked = IF IsNew(s) THEN @ \cup (rivals \cap Claims(obs)) ELSE @]
    /\ UNCHANGED <<clock, obs, links, raws, objects>>

-----------------------------------------------------------------------------
(* Mutant: a committed row takes the watermark of the last ingest.         *)
Refreshed(s) == {[o EXCEPT !.at = session[s].at] : o \in Contradict(obs, session[s].marked)}
Kept(s) == Contradict(obs, session[s].marked)

Commit(s) ==
    /\ session[s].pc = "next" /\ session[s].count > 0
    /\ obs' = Kept(s) \cup session[s].obs
    /\ links' = links \cup session[s].links
    /\ raws' = raws \cup session[s].raws
    /\ session' = [session EXCEPT ![s] =
                     [Closed EXCEPT !.pc = "done", !.at = session[s].at,
                                    !.before = session[s].before]]
    /\ UNCHANGED <<clock, objects>>

(* A fetch, a statement or the process fails; a deadlock has a victim.     *)
Fails(s) ==
    /\ Open(s)
    /\ Rollback(s)
    /\ UNCHANGED <<clock, obs, links, raws, objects>>

Tick ==
    /\ clock < MaxClock
    /\ clock' = clock + 1
    /\ UNCHANGED <<obs, links, raws, objects, session>>

Next ==
    \/ Tick
    \/ \E s \in Sessions :
          \/ \E durable \in BOOLEAN : Begin(s, durable)
          \/ \E e \in Envelope : Store(s, e) \/ StoreFails(s, e)
          \/ PutRefused(s) \/ Put(s) \/ Commit(s) \/ Fails(s)

Spec == Init /\ [][Next]_vars

-----------------------------------------------------------------------------
(* What readers rely on.                                                   *)

TypeOK ==
    /\ clock \in Clock
    /\ obs \subseteq Row /\ links \subseteq Claim \X Claim /\ raws \subseteq Pointer
    /\ objects \in [Keys -> Payloads \cup {NoBytes}]
    /\ \A s \in Sessions : session[s] \in Session

(* what_did_we_know(T)                                                     *)
Known(T) == {[claim |-> o.claim, at |-> o.at, key |-> o.key, sum |-> o.sum] :
                o \in {o \in obs : o.at <= T}}

(* docs/runbooks/ingest.md: "Duplicate claims collapse on unique           *)
(* claim_hash", also when two sessions insert the claim at the same time.  *)
OneRowPerClaim == \A o, p \in obs : o.claim = p.claim => o = p

(* No pointer without bytes: whatever fails between the upload and the     *)
(* commit, and whoever commits first, a key in the database has an object. *)
PointerHasBytes ==
    /\ \A o \in obs : o.key # NoKey => objects[o.key] # NoBytes
    /\ \A p \in raws : objects[p.key] # NoBytes

(* A contradiction is known on both sides: links join committed rows of    *)
(* one slot in both directions, a linked row is not ok any more, and a row *)
(* flagged contradicted has a link that says by what.                      *)
LinksMatchFlags ==
    /\ \A l \in links :
          /\ <<l[2], l[1]>> \in links
          /\ l[1] \in Claims(obs) /\ l[1][1] = l[2][1] /\ l[1] # l[2]
    /\ \A o \in obs : (o.quality = "ok") => \A l \in links : l[1] # o.claim
    /\ \A o \in obs : o.quality = "contradicted" => \E l \in links : l[1] = o.claim

(* "Same fact slot with a different value is linked as contradicts": two   *)
(* rows of one slot are unlinked only if their ingests overlapped, so that *)
(* neither could see the other's row.                                      *)
UnlinkedMeansConcurrent ==
    \A o, p \in obs :
        /\ o.claim[1] = p.claim[1] /\ o.claim # p.claim
        /\ o.by = p.by \/ o.by \in session[p.by].before
        => <<o.claim, p.claim>> \in links

(* What was known stays known as it was: no ingest drops a row, moves its  *)
(* watermark or its pointer.                                               *)
KnowledgeIsAppendOnly ==
    [][\A T \in Clock : Known(T) \subseteq Known(T)']_vars

(* "A claim ingested at 00:05 is unknown at 00:00": once every invocation  *)
(* that read the clock by T has ended, nothing is added to what was known. *)
PastIsSettled ==
    [][\A T \in Clock :
          T < clock /\ (\A s \in Sessions : Open(s) => session[s].at > T)
             => Known(T)' = Known(T)]_vars

(* The checksum on a row is the one of the bytes under its key.            *)
ChecksumMatches ==
    \A o \in obs : o.key # NoKey => objects[o.key] = o.sum

(* A row can be believed: its bytes are there, its quality agrees with its *)
(* links, and only concurrent ingests leave a contradiction unlinked.      *)
RowsAreSound == PointerHasBytes /\ LinksMatchFlags /\ UnlinkedMeansConcurrent

(* What was known at a time neither shrinks nor, once settled, grows.      *)
PastIsKept == KnowledgeIsAppendOnly /\ PastIsSettled
=============================================================================
