----------------------- MODULE ObservationStore_proofs -----------------------
(***************************************************************************)
(* Theorems about ObservationStore for any number of ingest invocations,   *)
(* slots, values and payloads, any length of a day and of a batch.         *)
(***************************************************************************)
EXTENDS ObservationStore, TLAPS

-----------------------------------------------------------------------------
(* The inductive invariant, conjunct by conjunct.                          *)

(* Outside a transaction nothing waits for a commit, and an envelope is in *)
(* hand when its put is next.                                              *)
Transactions ==
    /\ session \in [Sessions -> Session]
    /\ \A s \in Sessions :
          /\ ~Open(s) => /\ session[s].obs = {} /\ session[s].raws = {}
                         /\ session[s].links = {} /\ session[s].marked = {}
          /\ session[s].pc = "put" => session[s].current # {} /\ session[s].count < MaxBatch

(* The bytes are uploaded before anything that points to them is written.  *)
BytesComeFirst ==
    \A s \in Sessions :
        /\ session[s].pc = "put" /\ session[s].durable =>
              objects[Key(Current(s).claim, session[s].at)] # NoBytes
        /\ \A o \in session[s].obs : o.key # NoKey => objects[o.key] # NoBytes
        /\ \A p \in session[s].raws : objects[p.key] # NoBytes

(* Who wrote a row, and when it was read.                                  *)
Authors ==
    /\ \A o \in obs : session[o.by].pc = "done"
    /\ \A s \in Sessions : \A t \in session[s].before : session[t].pc = "done"
    /\ \A s \in Sessions : \A o \in session[s].obs : o.by = s /\ o.at = session[s].at

(* A claim has one inserter, committed or not.                             *)
OneInserter ==
    /\ \A s \in Sessions : \A o, p \in session[s].obs : o.claim = p.claim => o = p
    /\ \A s \in Sessions : \A o \in session[s].obs : o.claim \notin Claims(obs)
    /\ \A s, t \in Sessions : s # t =>
          \A o \in session[s].obs : o.claim \notin Claims(session[t].obs)

(* The links a transaction is about to commit match the flags it leaves on *)
(* its own rows, and those it is about to set on committed ones.           *)
LinksHeld(s) ==
    /\ \A l \in session[s].links :
          /\ <<l[2], l[1]>> \in session[s].links
          /\ l[1][1] = l[2][1] /\ l[1] # l[2]
          /\ \/ l[1] \in session[s].marked
             \/ \E o \in session[s].obs : o.claim = l[1] /\ o.quality # "ok"
    /\ \A c \in session[s].marked :
          c \in Claims(obs) /\ \E l \in session[s].links : l[1] = c
    /\ \A o \in session[s].obs : o.quality = "ok" =>
          \A l \in session[s].links : l[1] # o.claim
    /\ \A o \in session[s].obs : o.quality = "contradicted" =>
          \E l \in session[s].links : l[1] = o.claim

PendingLinks == \A s \in Sessions : LinksHeld(s)

(* A transaction links its rows to each other and to what was committed    *)
(* when it began.                                                          *)
PendingRowsLinked ==
    \A s \in Sessions : \A p \in session[s].obs : \A o \in Visible(s) :
        /\ o.claim[1] = p.claim[1] /\ o.claim # p.claim
        /\ o.by = s \/ o.by \in session[s].before
        => <<o.claim, p.claim>> \in session[s].links

IInv ==
    /\ TypeOK
    /\ Transactions
    /\ BytesComeFirst
    /\ Authors
    /\ OneInserter
    /\ PendingLinks
    /\ PendingRowsLinked
    /\ OneRowPerClaim
    /\ RowsAreSound

-----------------------------------------------------------------------------
(* The operators.                                                          *)

(* The day of a tick is a day of the model.                                *)
LEMMA KeyType ==
  ASSUME NEW claim \in Claim, NEW at \in Clock
  PROVE  Key(claim, at) \in Keys
  <1>1. MaxClock \in Nat /\ DayLen \in Nat \ {0} /\ at \in Nat /\ at <= MaxClock
      BY StoreAssumption DEF Clock
  <1>2. at \div DayLen \in 0..(MaxClock \div DayLen)
      BY <1>1
  <1> QED
      BY <1>2 DEF Key, Keys

(* What _link_contradictions makes of one row.                             *)
Flagged(o, claims) ==
    IF o.claim \in claims /\ o.quality = "ok"
      THEN [o EXCEPT !.quality = "contradicted"] ELSE o

(* Only the flag changes, and only from ok to contradicted.                *)
LEMMA FlaggedRow ==
  ASSUME NEW o \in Row, NEW claims
  PROVE  /\ Flagged(o, claims) \in Row
         /\ Flagged(o, claims).claim = o.claim /\ Flagged(o, claims).at = o.at
         /\ Flagged(o, claims).key = o.key /\ Flagged(o, claims).sum = o.sum
         /\ Flagged(o, claims).by = o.by
         /\ Flagged(o, claims).quality = "ok" <=>
              o.quality = "ok" /\ o.claim \notin claims
         /\ Flagged(o, claims).quality = "contradicted" <=>
              o.quality = "contradicted" \/ (o.quality = "ok" /\ o.claim \in claims)
  BY DEF Flagged, Row, Qualities

LEMMA ContradictRows ==
  ASSUME NEW rows, NEW claims
  PROVE  Contradict(rows, claims) = {Flagged(o, claims) : o \in rows}
  BY DEF Contradict, Flagged

(* Flagging neither adds nor loses a claim.                                *)
LEMMA ContradictKeepsClaims ==
  ASSUME NEW rows \in SUBSET Row, NEW claims
  PROVE  /\ Contradict(rows, claims) \subseteq Row
         /\ Claims(Contradict(rows, claims)) = Claims(rows)
  BY ContradictRows, FlaggedRow DEF Claims

-----------------------------------------------------------------------------
(* The initial states satisfy the invariant.                               *)
LEMMA ClosedType == Closed \in Session
  BY StoreAssumption DEF Closed, Session, Clock

LEMMA InitIInv == Init => IInv
  <1> SUFFICES ASSUME Init PROVE IInv
      OBVIOUS
  <1>1. /\ clock = 0 /\ obs = {} /\ links = {} /\ raws = {}
        /\ objects = [k \in Keys |-> NoBytes]
        /\ session = [s \in Sessions |-> Closed]
      BY DEF Init
  <1>2. \A s \in Sessions : /\ session[s].pc = "idle" /\ session[s].obs = {}
                            /\ session[s].raws = {} /\ session[s].links = {}
                            /\ session[s].marked = {} /\ session[s].before = {}
      BY <1>1 DEF Closed
  <1>3. Transactions
      BY <1>1, <1>2, ClosedType DEF Transactions
  <1>4. TypeOK
      BY <1>1, ClosedType, StoreAssumption DEF TypeOK, Clock
  <1>5. BytesComeFirst /\ Authors /\ OneInserter /\ PendingLinks /\ PendingRowsLinked
      BY <1>1, <1>2 DEF BytesComeFirst, Authors, OneInserter, PendingLinks,
                        LinksHeld, PendingRowsLinked
  <1>6. OneRowPerClaim /\ RowsAreSound
      BY <1>1 DEF OneRowPerClaim, RowsAreSound, PointerHasBytes, LinksMatchFlags,
                  UnlinkedMeansConcurrent
  <1> QED
      BY <1>3, <1>4, <1>5, <1>6 DEF IInv

-----------------------------------------------------------------------------
(* Steps that commit nothing and write no row.                             *)

(* One invocation keeps what it holds for the commit, or holds nothing;    *)
(* the others and the database are as they were, and no bytes are lost.    *)
LEMMA NothingWritten ==
  ASSUME IInv, NEW s \in Sessions,
         UNCHANGED <<obs, links, raws>>, clock' \in Clock,
         objects' \in [Keys -> Payloads \cup {NoBytes}],
         \A k \in Keys : objects[k] # NoBytes => objects'[k] # NoBytes,
         session' \in [Sessions -> Session],
         \A t \in Sessions \ {s} : session'[t] = session[t],
         session[s].pc # "done",
         \A t \in session'[s].before : session[t].pc = "done",
         \/ /\ session'[s].obs = {} /\ session'[s].raws = {}
            /\ session'[s].links = {} /\ session'[s].marked = {}
         \/ /\ session'[s].obs = session[s].obs /\ session'[s].raws = session[s].raws
            /\ session'[s].links = session[s].links
            /\ session'[s].marked = session[s].marked
            /\ session'[s].at = session[s].at /\ session'[s].before = session[s].before
            /\ session'[s].pc \in {"next", "put"},
         session'[s].pc = "put" =>
            /\ session'[s].current # {} /\ session'[s].count < MaxBatch
            /\ session'[s].durable =>
                 objects'[Key(Current(s)'.claim, session'[s].at)] # NoBytes
  PROVE  IInv'
  <1> USE DEF IInv
  <1>1. TypeOK'
      BY DEF TypeOK
  <1>2. Transactions'
      BY DEF Transactions, Open
  <1>3. /\ \A t \in Sessions : session[t].before \subseteq Sessions
        /\ \A o \in obs : o.by \in Sessions \ {s} /\ session'[o.by] = session[o.by]
        /\ \A t \in Sessions : \A o \in session[t].obs : o \in Row
        /\ \A t \in Sessions : session[t].raws \subseteq Pointer
      BY DEF TypeOK, Row, Session, Transactions, Authors
  <1>4. \A t \in Sessions \ {s} : Current(t)' = Current(t) /\ Visible(t)' = Visible(t)
      BY DEF Current, Visible
  <1>5. BytesComeFirst'
      <2>1. \A t \in Sessions :
               /\ \A o \in session'[t].obs : o.key # NoKey => objects'[o.key] # NoBytes
               /\ \A p \in session'[t].raws : objects'[p.key] # NoBytes
          BY <1>3 DEF BytesComeFirst, Row, Pointer
      <2>2. \A t \in Sessions \ {s} : session[t].pc = "put" =>
               Current(t).claim \in Claim /\ session[t].at \in Clock
          BY DEF Transactions, Current, Session, Envelope
      <2>3. \A t \in Sessions \ {s} : session'[t].pc = "put" /\ session'[t].durable =>
               objects'[Key(Current(t)'.claim, session'[t].at)] # NoBytes
          BY <1>4, <2>2, KeyType DEF BytesComeFirst
      <2> QED
          BY <2>1, <2>3 DEF BytesComeFirst
  <1>6. Authors'
      <2>1. \A t \in Sessions : \A u \in session'[t].before :
               u \in Sessions /\ session[u].pc = "done"
          BY <1>3 DEF Authors, Session
      <2>2. \A t \in Sessions : \A o \in session'[t].obs : o.by = t /\ o.at = session'[t].at
          BY DEF Authors
      <2> QED
          BY <1>3, <2>1, <2>2 DEF Authors
  <1>7. OneInserter'
      BY DEF OneInserter, Claims
  <1>8. PendingLinks'
      <2>1. \A t \in Sessions :
               \/ /\ session'[t].obs = {} /\ session'[t].links = {}
                  /\ session'[t].marked = {}
               \/ /\ session'[t].obs = session[t].obs /\ session'[t].links = session[t].links
                  /\ session'[t].marked = session[t].marked
          OBVIOUS
      <2>2. Claims(obs)' = Claims(obs)
          BY DEF Claims
      <2> SUFFICES ASSUME NEW t \in Sessions PROVE LinksHeld(t)'
          BY DEF PendingLinks
      <2>3. LinksHeld(t)
          BY DEF PendingLinks
      <2> QED
          BY <2>1, <2>2, <2>3 DEF LinksHeld
  <1>9. PendingRowsLinked'
      BY <1>4 DEF PendingRowsLinked, Visible
  <1>10. OneRowPerClaim'
      BY DEF OneRowPerClaim
  <1>11. RowsAreSound'
      <2>1. PointerHasBytes'
          BY DEF RowsAreSound, PointerHasBytes, TypeOK, Row, Pointer
      <2>2. LinksMatchFlags'
          BY DEF RowsAreSound, LinksMatchFlags, Claims
      <2>3. UnlinkedMeansConcurrent'
          BY <1>3 DEF RowsAreSound, UnlinkedMeansConcurrent
      <2> QED
          BY <2>1, <2>2, <2>3 DEF RowsAreSound
  <1> QED
      BY <1>1, <1>2, <1>5, <1>6, <1>7, <1>8, <1>9, <1>10, <1>11

(* Only the clock moves.                                                   *)
LEMMA SameStore ==
  ASSUME IInv, clock' \in Clock, UNCHANGED <<obs, links, raws, objects, session>>
  PROVE  IInv'
  <1> USE DEF IInv
  <1>1. TypeOK' /\ Transactions'
      BY DEF TypeOK, Transactions, Open
  <1>2. BytesComeFirst' /\ Authors'
      BY DEF BytesComeFirst, Current, Authors
  <1>3. OneInserter' /\ PendingLinks' /\ PendingRowsLinked'
      BY DEF OneInserter, PendingLinks, LinksHeld, PendingRowsLinked, Visible, Claims
  <1>4. OneRowPerClaim' /\ RowsAreSound'
      BY DEF OneRowPerClaim, RowsAreSound, PointerHasBytes, LinksMatchFlags,
             UnlinkedMeansConcurrent, Claims
  <1> QED
      BY <1>1, <1>2, <1>3, <1>4

LEMMA TickStep ==
  ASSUME IInv, Tick
  PROVE  IInv'
  <1>1. clock' \in Clock /\ UNCHANGED <<obs, links, raws, objects, session>>
      BY StoreAssumption DEF IInv, TypeOK, Tick, Clock
  <1> QED
      BY <1>1, SameStore

LEMMA BeginStep ==
  ASSUME IInv, NEW s \in Sessions, NEW durable \in BOOLEAN, Begin(s, durable)
  PROVE  IInv'
  <1> DEFINE begun == [session[s] EXCEPT !.pc = "next", !.at = clock, !.durable = durable,
                         !.before = {t \in Sessions : session[t].pc = "done"}]
  <1>1. /\ session[s].pc = "idle" /\ session[s] \in Session
        /\ UNCHANGED <<clock, obs, links, raws, objects>>
        /\ session' = [session EXCEPT ![s] = begun]
      BY DEF Begin, IInv, Transactions
  <1>2. /\ begun \in Session /\ begun.pc = "next"
        /\ begun.before = {t \in Sessions : session[t].pc = "done"}
        /\ begun.obs = session[s].obs /\ begun.raws = session[s].raws
        /\ begun.links = session[s].links /\ begun.marked = session[s].marked
      BY <1>1 DEF Session, IInv, TypeOK
  <1>3. /\ session[s].obs = {} /\ session[s].raws = {}
        /\ session[s].links = {} /\ session[s].marked = {}
      BY <1>1 DEF IInv, Transactions, Open
  <1> HIDE DEF begun
  <1>4. /\ session' \in [Sessions -> Session] /\ session'[s] = begun
        /\ \A t \in Sessions \ {s} : session'[t] = session[t]
      BY <1>1, <1>2 DEF IInv, Transactions
  <1> QED
      BY <1>1, <1>2, <1>3, <1>4, NothingWritten DEF IInv, TypeOK

LEMMA RollbackStep ==
  ASSUME IInv, NEW s \in Sessions, Open(s), Rollback(s),
         UNCHANGED <<clock, obs, links, raws, objects>>
  PROVE  IInv'
  <1> DEFINE failed == [Closed EXCEPT !.pc = "failed", !.at = session[s].at,
                          !.before = session[s].before]
  <1>1. session' = [session EXCEPT ![s] = failed] /\ session[s] \in Session
      BY DEF Rollback, IInv, Transactions
  <1>2. /\ failed \in Session /\ failed.pc = "failed" /\ failed.before = session[s].before
        /\ failed.obs = {} /\ failed.raws = {}
        /\ failed.links = {} /\ failed.marked = {}
      BY <1>1, ClosedType DEF Session, Closed
  <1> HIDE DEF failed
  <1>3. /\ session' \in [Sessions -> Session] /\ session'[s] = failed
        /\ \A t \in Sessions \ {s} : session'[t] = session[t]
      BY <1>1, <1>2 DEF IInv, Transactions
  <1>4. session[s].pc # "done" /\ \A t \in session[s].before : session[t].pc = "done"
      BY DEF Open, IInv, Authors
  <1> QED
      BY <1>2, <1>3, <1>4, NothingWritten DEF IInv, TypeOK

LEMMA StoreStep ==
  ASSUME IInv, NEW s \in Sessions, NEW e \in Envelope, Store(s, e)
  PROVE  IInv'
  <1> DEFINE key == Key(e.claim, session[s].at)
             saw == key \in PointerKeys(raws \cup session[s].raws)
             held == [session[s] EXCEPT !.pc = "put", !.current = {e}, !.sawPointer = saw]
  <1>1. /\ session[s].pc = "next" /\ session[s].count < MaxBatch
        /\ session[s] \in Session
        /\ UNCHANGED <<clock, obs, links, raws>>
        /\ objects' = IF session[s].durable
                        THEN [objects EXCEPT ![key] = e.payload] ELSE objects
        /\ session' = [session EXCEPT ![s] = held]
      BY DEF Store, IInv, Transactions
  <1>2. key \in Keys /\ e.payload \in Payloads /\ e.payload # NoBytes
      BY <1>1, KeyType, StoreAssumption DEF Envelope, Session
  <1> saw \in BOOLEAN
      OBVIOUS
  <1> HIDE DEF saw
  <1>3. /\ held \in Session /\ held.pc = "put" /\ held.current = {e}
        /\ held.count = session[s].count /\ held.durable = session[s].durable
        /\ held.at = session[s].at /\ held.before = session[s].before
        /\ held.obs = session[s].obs /\ held.raws = session[s].raws
        /\ held.links = session[s].links /\ held.marked = session[s].marked
      BY <1>1 DEF Session
  <1> HIDE DEF held
  <1>4. /\ session' \in [Sessions -> Session] /\ session'[s] = held
        /\ \A t \in Sessions \ {s} : session'[t] = session[t]
      BY <1>1, <1>3 DEF IInv, Transactions
  <1>5. Current(s)' = e
      BY <1>3, <1>4 DEF Current
  <1> HIDE DEF key
  <1>6. /\ objects' \in [Keys -> Payloads \cup {NoBytes}]
        /\ \A k \in Keys : objects[k] # NoBytes => objects'[k] # NoBytes
        /\ session[s].durable => objects'[key] # NoBytes
      BY <1>1, <1>2 DEF IInv, TypeOK
  <1>7. \A t \in session[s].before : session[t].pc = "done"
      BY DEF IInv, Authors
  <1> QED
      BY <1>1, <1>3, <1>4, <1>5, <1>6, <1>7, NothingWritten DEF IInv, TypeOK, key

-----------------------------------------------------------------------------
(* put_observation.                                                        *)

(* The rows that contradict a claim have other claims on its slot.         *)
LEMMA RivalClaims ==
  ASSUME IInv, NEW s \in Sessions, NEW claim \in Claim
  PROVE  /\ Claims(Rivals(s, claim)) \subseteq Claim \ {claim}
         /\ \A c \in Claims(Rivals(s, claim)) : c[1] = claim[1] /\ c \in Claims(Visible(s))
         /\ \A o \in Visible(s) : o.claim[1] = claim[1] /\ o.claim # claim
                                    => o.claim \in Claims(Rivals(s, claim))
  <1>1. Visible(s) \subseteq Row
      BY DEF Visible, IInv, TypeOK, Session
  <1> QED
      BY <1>1 DEF Claims, Rivals, Row

(* The row that is inserted.                                               *)
LEMMA NewRowIs ==
  ASSUME IInv, NEW s \in Sessions, session[s].pc = "put"
  PROVE  /\ Current(s) \in Envelope /\ Current(s).claim \in Claim
         /\ NewRow(s) \in Row
         /\ NewRow(s).claim = Current(s).claim /\ NewRow(s).by = s
         /\ NewRow(s).at = session[s].at /\ NewRow(s).key = CurrentKey(s)
         /\ NewRow(s).quality = "ok" => Rivals(s, Current(s).claim) = {}
         /\ NewRow(s).quality = "contradicted" => Rivals(s, Current(s).claim) # {}
         /\ CurrentKey(s) # NoKey => /\ CurrentKey(s) \in Keys
                                     /\ objects[CurrentKey(s)] # NoBytes
  <1>1. session[s] \in Session /\ session[s].current # {}
      BY DEF IInv, Transactions
  <1>2. Current(s) \in Envelope
      BY <1>1 DEF Current, Session
  <1>3. Current(s).claim \in Claim /\ Current(s).payload \in Payloads
      BY <1>2 DEF Envelope
  <1>4. Key(Current(s).claim, session[s].at) \in Keys
      BY <1>1, <1>3, KeyType DEF Session
  <1>5. CurrentKey(s) \in Keys \cup {NoKey}
      BY <1>4 DEF CurrentKey
  <1>6. CurrentKey(s) # NoKey => /\ CurrentKey(s) \in Keys
                                 /\ objects[CurrentKey(s)] # NoBytes
      BY <1>4 DEF CurrentKey, IInv, BytesComeFirst
  <1>7. Quality(Current(s).claim) \in {"partial", "ok"}
      BY DEF Quality
  <1>8. NewRow(s) \in Row
      BY <1>1, <1>3, <1>5, <1>7 DEF NewRow, Row, Qualities, Watermark, Session
  <1>9. /\ NewRow(s).quality = "ok" => Rivals(s, Current(s).claim) = {}
        /\ NewRow(s).quality = "contradicted" => Rivals(s, Current(s).claim) # {}
      BY <1>7 DEF NewRow
  <1> QED
      BY <1>2, <1>3, <1>6, <1>8, <1>9 DEF NewRow, Watermark

(* What a put leaves in the transaction.                                   *)
LEMMA PutEffect ==
  ASSUME IInv, NEW s \in Sessions, Put(s),
         NEW R, R = Claims(Rivals(s, Current(s).claim))
  PROVE  /\ session' \in [Sessions -> Session]
         /\ session'[s].pc = "next"
         /\ session'[s].at = session[s].at /\ session'[s].before = session[s].before
         /\ session'[s].raws = PutPointer(s)
         /\ session'[s].obs = IF IsNew(s) THEN Contradict(session[s].obs, R) \cup {NewRow(s)}
                                          ELSE session[s].obs
         /\ session'[s].links = IF IsNew(s)
                THEN session[s].links \cup ({Current(s).claim} \X R)
                                      \cup (R \X {Current(s).claim})
                ELSE session[s].links
         /\ session'[s].marked = IF IsNew(s) THEN session[s].marked \cup (R \cap Claims(obs))
                                             ELSE session[s].marked
         /\ \A t \in Sessions \ {s} : session'[t] = session[t]
         /\ \A p \in PutPointer(s) : p \in session[s].raws \/ objects[p.key] # NoBytes
  <1> DEFINE c == Current(s).claim
             newObs == IF IsNew(s) THEN Contradict(session[s].obs, R) \cup {NewRow(s)}
                                   ELSE session[s].obs
             newLinks == IF IsNew(s) THEN session[s].links \cup ({c} \X R) \cup (R \X {c})
                                     ELSE session[s].links
             newMarked == IF IsNew(s) THEN session[s].marked \cup (R \cap Claims(obs))
                                      ELSE session[s].marked
             newRaws == PutPointer(s)
             rec == [session[s] EXCEPT !.pc = "next", !.count = @ + 1, !.current = {},
                       !.sawPointer = FALSE, !.raws = newRaws, !.obs = newObs,
                       !.links = newLinks, !.marked = newMarked]
  <1>1. session[s].pc = "put" /\ session[s] \in Session /\ session[s].count < MaxBatch
      BY DEF Put, IInv, Transactions
  <1>2. session' = [session EXCEPT ![s] = rec]
      BY DEF Put, IInv, Transactions
  <1>3. c \in Claim /\ NewRow(s) \in Row /\ R \subseteq Claim
      BY <1>1, NewRowIs, RivalClaims
  <1>4. newObs \subseteq Row /\ newLinks \subseteq Claim \X Claim /\ newMarked \subseteq Claim
      BY <1>1, <1>3, ContradictKeepsClaims DEF Session
  <1>5. /\ newRaws \subseteq Pointer
        /\ \A p \in newRaws : p \in session[s].raws \/ objects[p.key] # NoBytes
      <2>1. Current(s).payload \in Payloads
          BY <1>1, NewRowIs DEF Envelope
      <2>2. CurrentKey(s) # NoKey => CurrentKey(s) \in Keys /\ objects[CurrentKey(s)] # NoBytes
          BY <1>1, NewRowIs
      <2> QED
          BY <1>1, <2>1, <2>2 DEF PutPointer, Pointer, Session
  <1>6. session[s].count + 1 \in 0..MaxBatch
      BY <1>1, StoreAssumption DEF Session
  <1> HIDE DEF newObs, newLinks, newMarked, newRaws
  <1>7. /\ rec \in Session /\ rec.pc = "next"
        /\ rec.at = session[s].at /\ rec.before = session[s].before
        /\ rec.raws = newRaws /\ rec.obs = newObs /\ rec.links = newLinks
        /\ rec.marked = newMarked
      BY <1>1, <1>4, <1>5, <1>6 DEF Session
  <1> HIDE DEF rec
  <1>8. /\ session' \in [Sessions -> Session] /\ session'[s] = rec
        /\ \A t \in Sessions \ {s} : session'[t] = session[t]
      BY <1>2, <1>7 DEF IInv, Transactions
  <1> QED
      BY <1>5, <1>7, <1>8 DEF newObs, newLinks, newMarked, newRaws

(* The links of a transaction that inserts a new claim.                    *)
LEMMA PutLinks ==
  ASSUME IInv, NEW s \in Sessions, Put(s), IsNew(s)
  PROVE  LinksHeld(s)'
  <1> DEFINE c == Current(s).claim
             R == Claims(Rivals(s, c))
             K == Contradict(session[s].obs, R)
  <1>1. session[s].pc = "put" /\ session[s].obs \in SUBSET Row /\ obs' = obs
      BY DEF Put, IInv, Transactions, Session
  <1>2. /\ session'[s].obs = K \cup {NewRow(s)}
        /\ session'[s].links = session[s].links \cup ({c} \X R) \cup (R \X {c})
        /\ session'[s].marked = session[s].marked \cup (R \cap Claims(obs))
      BY PutEffect
  <1>3. /\ c \in Claim /\ NewRow(s).claim = c
        /\ NewRow(s).quality = "ok" => R = {}
        /\ NewRow(s).quality = "contradicted" => R # {}
      BY <1>1, NewRowIs DEF Claims
  <1>4. /\ R \subseteq Claim \ {c}
        /\ \A r \in R : r[1] = c[1] /\ r \in Claims(obs) \cup Claims(session[s].obs)
      BY <1>3, RivalClaims DEF Visible, Claims
  <1>5. \A o \in session[s].obs : o.claim # c
      BY DEF IsNew, Visible, Claims
  <1>6. /\ \A k \in K : \E o \in session[s].obs :
              /\ k.claim = o.claim
              /\ k.quality = "ok" => o.quality = "ok" /\ o.claim \notin R
              /\ k.quality = "contradicted" =>
                   o.quality = "contradicted" \/ o.claim \in R
        /\ \A o \in session[s].obs : \E k \in K :
              /\ k.claim = o.claim
              /\ k.quality = "ok" => o.quality = "ok" /\ o.claim \notin R
      BY <1>1, ContradictRows, FlaggedRow
  <1>7. LinksHeld(s)
      BY DEF IInv, PendingLinks
  <1> HIDE DEF c, R, K
  <1>8. ASSUME NEW l \in session'[s].links
        PROVE  /\ <<l[2], l[1]>> \in session'[s].links
               /\ l[1][1] = l[2][1] /\ l[1] # l[2]
               /\ \/ l[1] \in session'[s].marked
                  \/ \E o \in session'[s].obs : o.claim = l[1] /\ o.quality # "ok"
      <2>1. CASE l \in session[s].links
          <3>1. /\ <<l[2], l[1]>> \in session[s].links
                /\ l[1][1] = l[2][1] /\ l[1] # l[2]
                /\ \/ l[1] \in session[s].marked
                   \/ \E o \in session[s].obs : o.claim = l[1] /\ o.quality # "ok"
              BY <1>7, <2>1 DEF LinksHeld
          <3>2. (\E o \in session[s].obs : o.claim = l[1] /\ o.quality # "ok")
                   => \E k \in K : k.claim = l[1] /\ k.quality # "ok"
              BY <1>6
          <3> QED
              BY <1>2, <3>1, <3>2
      <2>2. CASE l \in {c} \X R
          <3>1. l[1] = c /\ l[2] \in R /\ l = <<l[1], l[2]>>
              BY <2>2
          <3>2. NewRow(s).quality # "ok"
              BY <1>3, <3>1
          <3> QED
              BY <1>2, <1>3, <1>4, <3>1, <3>2
      <2>3. CASE l \in R \X {c}
          <3>1. l[2] = c /\ l[1] \in R /\ l = <<l[1], l[2]>>
              BY <2>3
          <3>2. l[1] \in R \cap Claims(obs) \/ \E k \in K : k.claim = l[1] /\ k.quality # "ok"
              <4>1. CASE l[1] \in Claims(obs)
                  BY <3>1, <4>1
              <4>2. CASE l[1] \in Claims(session[s].obs)
                  BY <1>6, <3>1, <4>2 DEF Claims
              <4> QED
                  BY <1>4, <3>1, <4>1, <4>2
          <3> QED
              BY <1>2, <1>4, <3>1, <3>2
      <2> QED
          BY <1>2, <2>1, <2>2, <2>3
  <1>9. ASSUME NEW m \in session'[s].marked
        PROVE  m \in Claims(obs)' /\ \E l \in session'[s].links : l[1] = m
      <2>1. Claims(obs)' = Claims(obs)
          BY <1>1 DEF Claims
      <2>2. CASE m \in session[s].marked
          BY <1>2, <1>7, <2>1, <2>2 DEF LinksHeld
      <2>3. CASE m \in R \cap Claims(obs)
          <3>1. <<m, c>> \in session'[s].links
              BY <1>2, <2>3
          <3> QED
              BY <2>1, <2>3, <3>1
      <2> QED
          BY <1>2, <2>2, <2>3
  <1>10. ASSUME NEW o \in session'[s].obs, o.quality = "ok",
                NEW l \in session'[s].links
         PROVE  l[1] # o.claim
      <2>1. CASE o \in K
          <3>1. PICK q \in session[s].obs : /\ o.claim = q.claim /\ q.quality = "ok"
                                            /\ q.claim \notin R
              BY <1>6, <1>10, <2>1
          <3>2. \A x \in session[s].links : x[1] # q.claim
              BY <1>7, <3>1 DEF LinksHeld
          <3> QED
              BY <1>2, <1>5, <3>1, <3>2
      <2>2. CASE o = NewRow(s)
          <3>1. R = {} /\ o.claim = c
              BY <1>3, <1>10, <2>2
          <3>2. l \in session[s].links
              BY <1>2, <3>1
          <3>3. c \notin session[s].marked
              BY <1>7 DEF LinksHeld, IsNew, Visible, Claims, c
          <3>4. \/ l[1] \in session[s].marked
                \/ \E q \in session[s].obs : q.claim = l[1]
              BY <1>7, <3>2 DEF LinksHeld
          <3> QED
              BY <1>5, <3>1, <3>3, <3>4
      <2> QED
          BY <1>2, <2>1, <2>2
  <1>11. ASSUME NEW o \in session'[s].obs, o.quality = "contradicted"
         PROVE  \E l \in session'[s].links : l[1] = o.claim
      <2>1. CASE o \in K
          <3>1. PICK q \in session[s].obs :
                   o.claim = q.claim /\ (q.quality = "contradicted" \/ q.claim \in R)
              BY <1>6, <1>11, <2>1
          <3>2. CASE q.quality = "contradicted"
              BY <1>2, <1>7, <3>1, <3>2 DEF LinksHeld
          <3>3. CASE q.claim \in R
              <4>1. <<q.claim, c>> \in session'[s].links
                  BY <1>2, <3>3
              <4> QED
                  BY <3>1, <4>1
          <3> QED
              BY <3>1, <3>2, <3>3
      <2>2. CASE o = NewRow(s)
          <3>1. PICK r \in R : TRUE
              BY <1>3, <1>11, <2>2
          <3>2. <<c, r>> \in session'[s].links
              BY <1>2, <3>1
          <3> QED
              BY <1>3, <2>2, <3>2
      <2> QED
          BY <1>2, <2>1, <2>2
  <1> QED
      BY <1>8, <1>9, <1>10, <1>11 DEF LinksHeld

LEMMA PutStep ==
  ASSUME IInv, NEW s \in Sessions, Put(s)
  PROVE  IInv'
  <1> DEFINE c == Current(s).claim
             R == Claims(Rivals(s, c))
             K == Contradict(session[s].obs, R)
  <1>1. /\ session[s].pc = "put" /\ session[s].obs \in SUBSET Row /\ ~Waits(s)
        /\ UNCHANGED <<clock, obs, links, raws, objects>>
      BY DEF Put, IInv, Transactions, Session
  <1>2. /\ session' \in [Sessions -> Session] /\ session'[s].pc = "next"
        /\ session'[s].at = session[s].at /\ session'[s].before = session[s].before
        /\ session'[s].raws = PutPointer(s)
        /\ session'[s].obs = IF IsNew(s) THEN K \cup {NewRow(s)} ELSE session[s].obs
        /\ session'[s].links = IF IsNew(s)
               THEN session[s].links \cup ({c} \X R) \cup (R \X {c})
               ELSE session[s].links
        /\ session'[s].marked = IF IsNew(s) THEN session[s].marked \cup (R \cap Claims(obs))
                                            ELSE session[s].marked
        /\ \A t \in Sessions \ {s} : session'[t] = session[t]
        /\ \A p \in PutPointer(s) : p \in session[s].raws \/ objects[p.key] # NoBytes
      BY PutEffect
  <1>3. /\ c \in Claim /\ NewRow(s) \in Row
        /\ NewRow(s).claim = c /\ NewRow(s).by = s /\ NewRow(s).at = session[s].at
        /\ NewRow(s).key # NoKey => objects[NewRow(s).key] # NoBytes
      BY <1>1, NewRowIs
  <1>4. /\ \A k \in K : \E o \in session[s].obs : k = Flagged(o, R)
        /\ \A o \in session[s].obs :
              /\ Flagged(o, R).claim = o.claim /\ Flagged(o, R).by = o.by
              /\ Flagged(o, R).at = o.at /\ Flagged(o, R).key = o.key
      BY <1>1, ContradictRows, FlaggedRow
  <1>5. \A k \in K : \E o \in session[s].obs :
           k.claim = o.claim /\ k.by = o.by /\ k.at = o.at /\ k.key = o.key
      BY <1>4
  <1>6. IsNew(s) => /\ \A o \in Visible(s) : o.claim # c
                    /\ \A t \in Sessions \ {s} : \A o \in session[t].obs : o.claim # c
      <2>1. ASSUME IsNew(s), NEW t \in Sessions \ {s}, NEW o \in session[t].obs
            PROVE  o.claim # c
          <3>1. Open(t)
              BY <2>1 DEF IInv, Transactions
          <3>2. t \in Others(s)
              BY <3>1 DEF Others
          <3> QED
              BY <1>1, <2>1, <3>2 DEF Waits, Claims
      <2>2. IsNew(s) => \A o \in Visible(s) : o.claim # c
          BY DEF IsNew, Claims
      <2> QED
          BY <2>1, <2>2
  <1>7. \A o \in Visible(s) : o.claim[1] = c[1] /\ o.claim # c => o.claim \in R
      BY <1>3, RivalClaims
  <1> HIDE DEF c, R, K
  <1>8. \A o \in obs : o.by \in Sessions \ {s} /\ session'[o.by] = session[o.by]
      BY <1>1, <1>2 DEF IInv, TypeOK, Row, Authors
  <1>9. TypeOK' /\ Transactions'
      BY <1>1, <1>2 DEF IInv, TypeOK, Transactions, Open
  <1>10. BytesComeFirst'
      <2>1. \A t \in Sessions \ {s} : Current(t)' = Current(t)
          BY <1>2 DEF Current
      <2>2. \A o \in session'[s].obs : o.key # NoKey => objects[o.key] # NoBytes
          BY <1>2, <1>3, <1>5 DEF IInv, BytesComeFirst
      <2>3. \A p \in session'[s].raws : objects[p.key] # NoBytes
          BY <1>2 DEF IInv, BytesComeFirst
      <2> QED
          BY <1>1, <1>2, <2>1, <2>2, <2>3 DEF IInv, BytesComeFirst
  <1>11. Authors'
      <2>1. \A t \in Sessions : \A u \in session'[t].before :
               u \in Sessions /\ session[u].pc = "done"
          BY <1>2 DEF IInv, Authors, Transactions, Session
      <2>2. \A o \in session'[s].obs : o.by = s /\ o.at = session'[s].at
          BY <1>2, <1>3, <1>5 DEF IInv, Authors
      <2>3. \A u \in Sessions : session[u].pc = "done" => session'[u].pc = "done"
          BY <1>1, <1>2
      <2> QED
          BY <1>1, <1>2, <1>8, <2>1, <2>2, <2>3 DEF IInv, Authors
  <1>12. OneInserter'
      <2>1. Claims(obs)' = Claims(obs)
          BY <1>1 DEF Claims
      <2>2. \A o, p \in session'[s].obs : o.claim = p.claim => o = p
          <3>1. CASE ~IsNew(s)
              BY <1>2, <3>1 DEF IInv, OneInserter
          <3>2. CASE IsNew(s)
              <4>1. \A o, p \in K : o.claim = p.claim => o = p
                  BY <1>4 DEF IInv, OneInserter
              <4>2. \A o \in K : o.claim # c
                  BY <1>5, <1>6, <3>2 DEF Visible
              <4> QED
                  BY <1>2, <1>3, <3>2, <4>1, <4>2
          <3> QED
              BY <3>1, <3>2
      <2>3. \A o \in session'[s].obs : o.claim \notin Claims(obs)
          BY <1>2, <1>3, <1>5, <1>6 DEF IInv, OneInserter, Visible, Claims
      <2>4. \A t \in Sessions \ {s} : \A o \in session'[s].obs, p \in session[t].obs :
               o.claim # p.claim
          BY <1>2, <1>3, <1>5, <1>6 DEF IInv, OneInserter, Claims
      <2>5. \A t, u \in Sessions : t # u =>
               \A o \in session'[t].obs, p \in session'[u].obs : o.claim # p.claim
          <3> SUFFICES ASSUME NEW t \in Sessions, NEW u \in Sessions, t # u,
                              NEW o \in session'[t].obs, NEW p \in session'[u].obs
                       PROVE  o.claim # p.claim
              OBVIOUS
          <3>1. CASE t = s
              BY <1>2, <2>4, <3>1
          <3>2. CASE u = s
              BY <1>2, <2>4, <3>2
          <3>3. CASE t # s /\ u # s
              BY <1>2, <3>3 DEF IInv, OneInserter, Claims
          <3> QED
              BY <3>1, <3>2, <3>3
      <2>6. \A t \in Sessions : \A o, p \in session'[t].obs : o.claim = p.claim => o = p
          BY <1>2, <2>2 DEF IInv, OneInserter
      <2>7. \A t \in Sessions : \A o \in session'[t].obs : o.claim \notin Claims(obs)
          BY <1>2, <2>3 DEF IInv, OneInserter
      <2> QED
          BY <2>1, <2>5, <2>6, <2>7 DEF OneInserter, Claims
  <1>13. PendingLinks'
      <2>1. ASSUME NEW t \in Sessions, t # s \/ ~IsNew(s)
            PROVE  LinksHeld(t)'
          <3>1. /\ session'[t].obs = session[t].obs /\ session'[t].links = session[t].links
                /\ session'[t].marked = session[t].marked
              BY <1>2, <2>1
          <3>2. LinksHeld(t) /\ Claims(obs)' = Claims(obs)
              BY <1>1 DEF IInv, PendingLinks, Claims
          <3> QED
              BY <3>1, <3>2 DEF LinksHeld
      <2> QED
          BY <2>1, PutLinks DEF PendingLinks
  <1>14. PendingRowsLinked'
      <2> SUFFICES ASSUME NEW t \in Sessions,
                          NEW p \in session'[t].obs, NEW o \in Visible(t)',
                          o.claim[1] = p.claim[1], o.claim # p.claim,
                          o.by = t \/ o.by \in session'[t].before
                   PROVE  <<o.claim, p.claim>> \in session'[t].links
          BY DEF PendingRowsLinked
      <2>1. CASE t # s \/ ~IsNew(s)
          <3>1. /\ session'[t].obs = session[t].obs /\ session'[t].links = session[t].links
                /\ session'[t].before = session[t].before
              BY <1>2, <2>1
          <3>2. o \in Visible(t) /\ p \in session[t].obs
              BY <1>1, <3>1 DEF Visible
          <3> QED
              BY <3>1, <3>2 DEF IInv, PendingRowsLinked
      <2>2. CASE t = s /\ IsNew(s)
          <3>1. /\ session'[s].obs = K \cup {NewRow(s)}
                /\ session'[s].links = session[s].links \cup ({c} \X R) \cup (R \X {c})
                /\ session'[s].before = session[s].before
              BY <1>2, <2>2
          <3>2. p \in K \cup {NewRow(s)} /\ o \in obs \cup K \cup {NewRow(s)}
              BY <1>1, <2>2, <3>1 DEF Visible
          <3>3. o \in obs \cup K => \E q \in Visible(s) : q.claim = o.claim /\ q.by = o.by
              BY <1>5 DEF Visible
          <3>4. p \in K => \E q \in session[s].obs : q.claim = p.claim
              BY <1>5
          <3>5. CASE p \in K /\ o \in obs \cup K
              <4>1. PICK x \in session[s].obs : x.claim = p.claim
                  BY <3>4, <3>5
              <4>2. PICK y \in Visible(s) : y.claim = o.claim /\ y.by = o.by
                  BY <3>3, <3>5
              <4>3. <<y.claim, x.claim>> \in session[s].links
                  BY <2>2, <3>1, <4>1, <4>2 DEF IInv, PendingRowsLinked
              <4> QED
                  BY <2>2, <3>1, <4>1, <4>2, <4>3
          <3>6. CASE p \in K /\ o = NewRow(s)
              <4>1. p.claim \in R
                  BY <1>3, <1>7, <3>4, <3>6 DEF Visible
              <4> QED
                  BY <1>3, <2>2, <3>1, <3>6, <4>1
          <3>7. CASE p = NewRow(s) /\ o \in obs \cup K
              <4>1. o.claim \in R
                  BY <1>3, <1>7, <3>3, <3>7
              <4> QED
                  BY <1>3, <2>2, <3>1, <3>7, <4>1
          <3> QED
              BY <3>2, <3>5, <3>6, <3>7
      <2> QED
          BY <2>1, <2>2
  <1>15. OneRowPerClaim'
      BY <1>1 DEF IInv, OneRowPerClaim
  <1>16. RowsAreSound'
      <2>1. PointerHasBytes' /\ LinksMatchFlags'
          BY <1>1 DEF IInv, RowsAreSound, PointerHasBytes, LinksMatchFlags, Claims
      <2>2. UnlinkedMeansConcurrent'
          BY <1>1, <1>8 DEF IInv, RowsAreSound, UnlinkedMeansConcurrent
      <2> QED
          BY <2>1, <2>2 DEF RowsAreSound
  <1> QED
      BY <1>9, <1>10, <1>11, <1>12, <1>13, <1>14, <1>15, <1>16 DEF IInv

-----------------------------------------------------------------------------
(* The commit.                                                             *)

(* What a commit leaves in the table: each old row, flagged or not, and    *)
(* the rows of the transaction.                                            *)
LEMMA CommitRows ==
  ASSUME IInv, NEW s \in Sessions, Commit(s)
  PROVE  /\ obs' = Kept(s) \cup session[s].obs
         /\ \A k \in Kept(s) : \E o \in obs :
               /\ k = Flagged(o, session[s].marked)
               /\ k.claim = o.claim /\ k.at = o.at /\ k.key = o.key
               /\ k.sum = o.sum /\ k.by = o.by
               /\ k.quality = "ok" => o.quality = "ok" /\ o.claim \notin session[s].marked
               /\ k.quality = "contradicted" =>
                    o.quality = "contradicted" \/ o.claim \in session[s].marked
         /\ \A o \in obs : \E k \in Kept(s) :
               /\ k.claim = o.claim /\ k.at = o.at /\ k.key = o.key
               /\ k.sum = o.sum /\ k.by = o.by
         /\ obs' \subseteq Row
         /\ Claims(obs') = Claims(obs) \cup Claims(session[s].obs)
  <1>1. obs \subseteq Row /\ session[s].obs \subseteq Row
      BY DEF IInv, TypeOK, Transactions, Session
  <1>2. obs' = Kept(s) \cup session[s].obs
      BY DEF Commit
  <1>3. \A k \in Kept(s) : \E o \in obs :
           /\ k = Flagged(o, session[s].marked)
           /\ k.claim = o.claim /\ k.at = o.at /\ k.key = o.key
           /\ k.sum = o.sum /\ k.by = o.by
           /\ k.quality = "ok" => o.quality = "ok" /\ o.claim \notin session[s].marked
           /\ k.quality = "contradicted" =>
                o.quality = "contradicted" \/ o.claim \in session[s].marked
      BY <1>1, ContradictRows, FlaggedRow DEF Kept
  <1>4. \A o \in obs : \E k \in Kept(s) :
           /\ k.claim = o.claim /\ k.at = o.at /\ k.key = o.key
           /\ k.sum = o.sum /\ k.by = o.by
      BY <1>1, ContradictRows, FlaggedRow DEF Kept
  <1>5. Kept(s) \subseteq Row /\ Claims(Kept(s)) = Claims(obs)
      BY <1>1, ContradictKeepsClaims DEF Kept
  <1>6. Claims(obs') = Claims(Kept(s)) \cup Claims(session[s].obs)
      BY <1>2 DEF Claims
  <1> QED
      BY <1>1, <1>2, <1>3, <1>4, <1>5, <1>6

LEMMA CommitSession ==
  ASSUME IInv, NEW s \in Sessions, Commit(s)
  PROVE  /\ session' \in [Sessions -> Session]
         /\ session[s].pc = "next" /\ session'[s].pc = "done"
         /\ session'[s].at = session[s].at /\ session'[s].before = session[s].before
         /\ session'[s].obs = {} /\ session'[s].raws = {}
         /\ session'[s].links = {} /\ session'[s].marked = {}
         /\ \A t \in Sessions \ {s} : session'[t] = session[t]
  <1> DEFINE done == [Closed EXCEPT !.pc = "done", !.at = session[s].at,
                        !.before = session[s].before]
  <1>1. session' = [session EXCEPT ![s] = done] /\ session[s] \in Session
      BY DEF Commit, IInv, Transactions
  <1>2. /\ done \in Session /\ done.pc = "done" /\ done.before = session[s].before
        /\ done.at = session[s].at /\ done.obs = {} /\ done.raws = {}
        /\ done.links = {} /\ done.marked = {}
      BY <1>1, ClosedType DEF Session, Closed
  <1> HIDE DEF done
  <1>3. /\ session' \in [Sessions -> Session] /\ session'[s] = done
        /\ \A t \in Sessions \ {s} : session'[t] = session[t]
      BY <1>1, <1>2 DEF IInv, Transactions
  <1> QED
      BY <1>2, <1>3 DEF Commit

LEMMA CommitStep ==
  ASSUME IInv, NEW s \in Sessions, Commit(s)
  PROVE  IInv'
  <1> DEFINE S == session[s].obs
             L == session[s].links
             M == session[s].marked
  <1>1. /\ obs' = Kept(s) \cup S
        /\ \A k \in Kept(s) : \E o \in obs :
              /\ k = Flagged(o, M)
              /\ k.claim = o.claim /\ k.at = o.at /\ k.key = o.key
              /\ k.sum = o.sum /\ k.by = o.by
              /\ k.quality = "ok" => o.quality = "ok" /\ o.claim \notin M
              /\ k.quality = "contradicted" => o.quality = "contradicted" \/ o.claim \in M
        /\ obs' \subseteq Row
        /\ Claims(obs') = Claims(obs) \cup Claims(S)
      BY CommitRows
  <1>2. /\ session' \in [Sessions -> Session]
        /\ session[s].pc = "next" /\ session'[s].pc = "done"
        /\ session'[s].at = session[s].at /\ session'[s].before = session[s].before
        /\ session'[s].obs = {} /\ session'[s].raws = {}
        /\ session'[s].links = {} /\ session'[s].marked = {}
        /\ \A t \in Sessions \ {s} : session'[t] = session[t]
      BY CommitSession
  <1>3. /\ links' = links \cup L /\ raws' = raws \cup session[s].raws
        /\ clock' = clock /\ objects' = objects
      BY DEF Commit
  <1>4. /\ \A o \in S : o.by = s /\ o.claim \notin Claims(obs)
        /\ \A o, p \in S : o.claim = p.claim => o = p
      BY DEF IInv, Authors, OneInserter
  <1>5. LinksHeld(s)
      BY DEF IInv, PendingLinks
  <1>6. \A o \in obs : /\ o.by \in Sessions \ {s} /\ session[o.by].pc = "done"
                       /\ session'[o.by] = session[o.by]
      BY <1>2 DEF IInv, TypeOK, Row, Authors
  <1>7. \A t \in Sessions : \A u \in session[t].before :
           u \in Sessions \ {s} /\ session[u].pc = "done"
      BY <1>2 DEF IInv, Authors, Transactions, Session
  <1>8. TypeOK' /\ Transactions'
      BY <1>1, <1>2, <1>3 DEF IInv, TypeOK, Transactions, Session, Open
  <1>9. BytesComeFirst'
      <2>1. \A t \in Sessions \ {s} : Current(t)' = Current(t)
          BY <1>2 DEF Current
      <2> QED
          BY <1>2, <1>3, <2>1 DEF IInv, BytesComeFirst
  <1>10. Authors'
      <2>1. \A o \in obs' : session'[o.by].pc = "done"
          BY <1>1, <1>2, <1>4, <1>6
      <2> QED
          BY <1>2, <1>7, <2>1 DEF IInv, Authors
  <1>11. OneInserter'
      <2>1. \A t \in Sessions \ {s} : \A o \in session[t].obs : o.claim \notin Claims(obs')
          BY <1>1 DEF IInv, OneInserter
      <2> QED
          BY <1>2, <2>1 DEF IInv, OneInserter, Claims
  <1>12. PendingLinks'
      <2> SUFFICES ASSUME NEW t \in Sessions PROVE LinksHeld(t)'
          BY DEF PendingLinks
      <2>1. CASE t = s
          BY <1>2, <2>1 DEF LinksHeld
      <2>2. CASE t # s
          <3>1. LinksHeld(t) /\ session'[t] = session[t] /\ Claims(obs) \subseteq Claims(obs)'
              BY <1>1, <1>2, <2>2 DEF IInv, PendingLinks, Claims
          <3> QED
              BY <3>1 DEF LinksHeld
      <2> QED
          BY <2>1, <2>2
  <1>13. PendingRowsLinked'
      <2> SUFFICES ASSUME NEW t \in Sessions \ {s},
                          NEW p \in session[t].obs, NEW o \in Visible(t)',
                          o.claim[1] = p.claim[1], o.claim # p.claim,
                          o.by = t \/ o.by \in session[t].before
                   PROVE  <<o.claim, p.claim>> \in session[t].links
          BY <1>2 DEF PendingRowsLinked
      <2>1. o \in Kept(s) \cup S \cup session[t].obs
          BY <1>1, <1>2 DEF Visible
      <2>2. o \notin S
          BY <1>4, <1>7
      <2>3. \E q \in Visible(t) : q.claim = o.claim /\ q.by = o.by
          BY <1>1, <2>1, <2>2 DEF Visible
      <2> QED
          BY <2>3 DEF IInv, PendingRowsLinked
  <1>14. OneRowPerClaim'
      <2>1. \A o, p \in Kept(s) : o.claim = p.claim => o = p
          BY <1>1 DEF IInv, OneRowPerClaim
      <2>2. \A o \in Kept(s), p \in S : o.claim # p.claim
          BY <1>1, <1>4 DEF Claims
      <2> QED
          BY <1>1, <1>4, <2>1, <2>2 DEF OneRowPerClaim
  <1>15. PointerHasBytes'
      <2>1. \A o \in obs' : o.key # NoKey => objects[o.key] # NoBytes
          BY <1>1 DEF IInv, RowsAreSound, PointerHasBytes, BytesComeFirst
      <2>2. \A p \in raws' : objects[p.key] # NoBytes
          BY <1>3 DEF IInv, RowsAreSound, PointerHasBytes, BytesComeFirst
      <2> QED
          BY <1>3, <2>1, <2>2 DEF PointerHasBytes
  <1>16. LinksMatchFlags'
      <2> USE DEF IInv, RowsAreSound, LinksMatchFlags
      <2>1. ASSUME NEW l \in links'
            PROVE  /\ <<l[2], l[1]>> \in links'
                   /\ l[1] \in Claims(obs') /\ l[1][1] = l[2][1] /\ l[1] # l[2]
          <3>1. CASE l \in links
              BY <1>1, <1>3, <3>1
          <3>2. CASE l \in L
              <4>1. /\ <<l[2], l[1]>> \in L /\ l[1][1] = l[2][1] /\ l[1] # l[2]
                    /\ l[1] \in M \/ \E o \in S : o.claim = l[1]
                  BY <1>5, <3>2 DEF LinksHeld
              <4>2. M \subseteq Claims(obs) /\ \A o \in S : o.claim \in Claims(S)
                  BY <1>5 DEF LinksHeld, Claims
              <4> QED
                  BY <1>1, <1>3, <4>1, <4>2
          <3> QED
              BY <1>3, <3>1, <3>2
      <2>2. ASSUME NEW o \in obs', o.quality = "ok", NEW l \in links'
            PROVE  l[1] # o.claim
          <3>1. CASE o \in Kept(s)
              <4>1. PICK q \in obs : q.claim = o.claim /\ q.quality = "ok" /\ q.claim \notin M
                  BY <1>1, <2>2, <3>1
              <4>2. \A x \in L : x[1] # q.claim
                  <5>1. \A x \in L : x[1] \in M \/ \E y \in S : y.claim = x[1]
                      BY <1>5 DEF LinksHeld
                  <5>2. q.claim \in Claims(obs)
                      BY <4>1 DEF Claims
                  <5> QED
                      BY <1>4, <4>1, <5>1, <5>2
              <4> QED
                  BY <1>3, <4>1, <4>2
          <3>2. CASE o \in S
              <4>1. \A x \in L : x[1] # o.claim
                  BY <1>5, <2>2, <3>2 DEF LinksHeld
              <4>2. \A x \in links : x[1] # o.claim
                  BY <1>4, <3>2
              <4> QED
                  BY <1>3, <4>1, <4>2
          <3> QED
              BY <1>1, <3>1, <3>2
      <2>3. ASSUME NEW o \in obs', o.quality = "contradicted"
            PROVE  \E l \in links' : l[1] = o.claim
          <3>1. CASE o \in Kept(s)
              <4>1. PICK q \in obs : /\ q.claim = o.claim
                                     /\ q.quality = "contradicted" \/ q.claim \in M
                  BY <1>1, <2>3, <3>1
              <4>2. CASE q.quality = "contradicted"
                  BY <1>3, <4>1, <4>2
              <4>3. CASE q.claim \in M
                  BY <1>3, <1>5, <4>1, <4>3 DEF LinksHeld
              <4> QED
                  BY <4>1, <4>2, <4>3
          <3>2. CASE o \in S
              BY <1>3, <1>5, <2>3, <3>2 DEF LinksHeld
          <3> QED
              BY <1>1, <3>1, <3>2
      <2>4. Claims(obs)' = Claims(obs')
          BY DEF Claims
      <2> QED
          BY <2>1, <2>2, <2>3, <2>4
  <1>17. UnlinkedMeansConcurrent'
      <2> SUFFICES ASSUME NEW o \in obs', NEW p \in obs',
                          o.claim[1] = p.claim[1], o.claim # p.claim,
                          o.by = p.by \/ o.by \in session'[p.by].before
                   PROVE  <<o.claim, p.claim>> \in links'
          BY DEF UnlinkedMeansConcurrent
      <2>1. CASE p \in Kept(s)
          <3>1. PICK y \in obs : y.claim = p.claim /\ y.by = p.by
              BY <1>1, <2>1
          <3>2. session'[p.by].before = session[p.by].before /\ p.by \in Sessions \ {s}
              BY <1>6, <3>1
          <3>3. o \notin S
              BY <1>4, <1>7, <3>2
          <3>4. PICK x \in obs : x.claim = o.claim /\ x.by = o.by
              BY <1>1, <3>3
          <3>5. <<x.claim, y.claim>> \in links
              BY <3>1, <3>2, <3>4 DEF IInv, RowsAreSound, UnlinkedMeansConcurrent
          <3> QED
              BY <1>3, <3>1, <3>4, <3>5
      <2>2. CASE p \in S
          <3>1. p.by = s /\ session'[s].before = session[s].before
              BY <1>2, <1>4, <2>2
          <3>2. \E x \in Visible(s) : x.claim = o.claim /\ x.by = o.by
              BY <1>1 DEF Visible
          <3>3. <<o.claim, p.claim>> \in L
              BY <2>2, <3>1, <3>2 DEF IInv, PendingRowsLinked
          <3> QED
              BY <1>3, <3>3
      <2> QED
          BY <1>1, <2>1, <2>2
  <1> QED
      BY <1>8, <1>9, <1>10, <1>11, <1>12, <1>13, <1>14, <1>15, <1>16, <1>17
      DEF IInv, RowsAreSound

-----------------------------------------------------------------------------
(* Every step.                                                             *)
LEMMA StepIInv == IInv /\ [Next]_vars => IInv'
  <1> SUFFICES ASSUME IInv, [Next]_vars PROVE IInv'
      OBVIOUS
  <1>1. CASE UNCHANGED vars
      BY <1>1, SameStore DEF vars, IInv, TypeOK
  <1>2. CASE Tick
      BY <1>2, TickStep
  <1>3. ASSUME NEW s \in Sessions, NEW e \in Envelope, StoreFails(s, e)
        PROVE  IInv'
      BY <1>3, RollbackStep DEF StoreFails, StoreRaised, Open
  <1>4. ASSUME NEW s \in Sessions, PutRefused(s)
        PROVE  IInv'
      BY <1>4, RollbackStep DEF PutRefused, Open
  <1>5. ASSUME NEW s \in Sessions, Fails(s)
        PROVE  IInv'
      BY <1>5, RollbackStep DEF Fails
  <1> QED
      BY <1>1, <1>2, <1>3, <1>4, <1>5, BeginStep, StoreStep, PutStep, CommitStep DEF Next

(* The inductive invariant holds in every reachable state.                 *)
THEOREM Invariance == Spec => []IInv
  BY InitIInv, StepIInv, PTL DEF Spec

-----------------------------------------------------------------------------
(* The theorems.                                                           *)

(* Every variable keeps its type: keys stay within the days of the model   *)
(* and a batch within its bound.                                           *)
THEOREM TypeCorrect == Spec => []TypeOK
  BY Invariance, PTL DEF IInv

(* However many invocations insert at once, a claim has one row.           *)
THEOREM OneRow == Spec => []OneRowPerClaim
  BY Invariance, PTL DEF IInv

(* Whatever fails between upload and commit, a pointer has its bytes; the  *)
(* contradiction flags and the links agree; and two values of one slot are *)
(* left unlinked only by invocations that overlapped.                      *)
THEOREM RowsSound == Spec => []RowsAreSound
  BY Invariance, PTL DEF IInv

(* Only a commit changes what is known: it keeps every row, and adds rows  *)
(* read at the time of its own invocation.                                 *)
LEMMA KnownGrows ==
  ASSUME IInv, NEW s \in Sessions, Commit(s), NEW T \in Clock
  PROVE  /\ Known(T) \subseteq Known(T)'
         /\ session[s].at > T => Known(T)' = Known(T)
  <1>1. /\ obs' = Kept(s) \cup session[s].obs
        /\ \A k \in Kept(s) : \E o \in obs :
              k.claim = o.claim /\ k.at = o.at /\ k.key = o.key /\ k.sum = o.sum
        /\ \A o \in obs : \E k \in Kept(s) :
              k.claim = o.claim /\ k.at = o.at /\ k.key = o.key /\ k.sum = o.sum
      BY CommitRows
  <1>2. \A o \in session[s].obs : o.at = session[s].at
      BY DEF IInv, Authors
  <1>3. Known(T) \subseteq Known(T)'
      <2> SUFFICES ASSUME NEW o \in obs, o.at <= T
                   PROVE  [claim |-> o.claim, at |-> o.at, key |-> o.key, sum |-> o.sum]
                             \in Known(T)'
          BY DEF Known
      <2>1. PICK k \in obs' : k.claim = o.claim /\ k.at = o.at /\ k.key = o.key /\ k.sum = o.sum
          BY <1>1
      <2> QED
          BY <2>1 DEF Known
  <1>4. ASSUME session[s].at > T
        PROVE  Known(T)' \subseteq Known(T)
      <2> SUFFICES ASSUME NEW k \in obs', k.at <= T
                   PROVE  [claim |-> k.claim, at |-> k.at, key |-> k.key, sum |-> k.sum]
                             \in Known(T)
          BY DEF Known
      <2>1. k \notin session[s].obs
          BY <1>2, <1>4 DEF IInv, Transactions, Session, Clock
      <2>2. PICK o \in obs : k.claim = o.claim /\ k.at = o.at /\ k.key = o.key /\ k.sum = o.sum
          BY <1>1, <2>1
      <2> QED
          BY <2>2 DEF Known
  <1> QED
      BY <1>3, <1>4

(* A step that is not a commit leaves the rows alone.                      *)
LEMMA OnlyCommitWrites ==
  ASSUME [Next]_vars
  PROVE  obs' = obs \/ \E s \in Sessions : Commit(s) /\ Open(s)
  <1>1. CASE UNCHANGED vars
      BY <1>1 DEF vars
  <1>2. CASE Tick
      BY <1>2 DEF Tick
  <1>3. ASSUME NEW s \in Sessions, NEW durable \in BOOLEAN, Begin(s, durable)
        PROVE  obs' = obs
      BY <1>3 DEF Begin
  <1>4. ASSUME NEW s \in Sessions, NEW e \in Envelope, Store(s, e) \/ StoreFails(s, e)
        PROVE  obs' = obs
      BY <1>4 DEF Store, StoreFails
  <1>5. ASSUME NEW s \in Sessions, PutRefused(s) \/ Put(s) \/ Fails(s)
        PROVE  obs' = obs
      BY <1>5 DEF PutRefused, Put, Fails
  <1>6. ASSUME NEW s \in Sessions, Commit(s)
        PROVE  Open(s)
      BY <1>6 DEF Commit, Open
  <1> QED
      BY <1>1, <1>2, <1>3, <1>4, <1>5, <1>6 DEF Next

(* What was known at T is known as it was after every step; and once each  *)
(* invocation that read the clock by T has ended, nothing is added to it.  *)
THEOREM PastKept == Spec => PastIsKept
  <1>1. IInv /\ [Next]_vars => [\A T \in Clock : Known(T) \subseteq Known(T)']_vars
      <2> SUFFICES ASSUME IInv, [Next]_vars, NEW T \in Clock
                   PROVE  Known(T) \subseteq Known(T)'
          OBVIOUS
      <2>1. CASE obs' = obs
          BY <2>1 DEF Known
      <2> QED
          BY <2>1, OnlyCommitWrites, KnownGrows
  <1>2. IInv /\ [Next]_vars =>
          [\A T \in Clock :
              T < clock /\ (\A s \in Sessions : Open(s) => session[s].at > T)
                 => Known(T)' = Known(T)]_vars
      <2> SUFFICES ASSUME IInv, [Next]_vars, NEW T \in Clock,
                          \A s \in Sessions : Open(s) => session[s].at > T
                   PROVE  Known(T)' = Known(T)
          OBVIOUS
      <2>1. CASE obs' = obs
          BY <2>1 DEF Known
      <2> QED
          BY <2>1, OnlyCommitWrites, KnownGrows
  <1>3. Spec => KnowledgeIsAppendOnly
      BY <1>1, Invariance, PTL DEF Spec, KnowledgeIsAppendOnly
  <1>4. Spec => PastIsSettled
      BY <1>2, Invariance, PTL DEF Spec, PastIsSettled
  <1> QED
      BY <1>3, <1>4 DEF PastIsKept
=============================================================================
