------------------------------ MODULE DeskMesh ------------------------------
(***************************************************************************)
(* The desk mesh over Postgres: mm_desks.mesh, mm_desks.pg,                *)
(* mm_memory.envelope_repository, mm_memory.notify and lab mesh dry.       *)
(*                                                                         *)
(* One run of lab mesh dry opens one session and, in that one transaction, *)
(* does two rounds.  A round runs the desks of a fixture, puts one         *)
(* envelope per desk that was not killed, then assembles the pack: for     *)
(* each desk the latest envelope of the store, or a FAILED one that it     *)
(* puts itself, and at the end the coordinator's own.  A put is            *)
(* find_duplicate, INSERT, SELECT of the desk's health row and its upsert; *)
(* the NOTIFY of a put goes out on another connection, before the commit.  *)
(*                                                                         *)
(* All fixtures here have the same as_of (those of the tests do), so       *)
(* their envelopes meet in the store.  Time is the order of transactions.  *)
(***************************************************************************)
EXTENDS Naturals, Sequences, FiniteSets

CONSTANTS
    Runs,        \* invocations of lab mesh dry against one database
    Order,       \* the publishing desks in roster order, Intel first
    Ops,         \* the desk whose envelope holds the assembled pack
    Fixtures,    \* fixtures of one as_of
    Listening,   \* whether a mesh worker is connected and drains the bus
    MayFail,     \* bound: whether connections may be lost
    NoRow        \* no row

Desks == {Order[i] : i \in 1..Len(Order)}

ErrorClasses == {"desk_killed", "desk_missing"}

ASSUME DeskAssumption ==
    /\ Order \in Seq(Desks) /\ Len(Order) > 0 /\ Ops \notin Desks
    /\ \A i, j \in 1..Len(Order) : Order[i] = Order[j] => i = j
    /\ Listening \in BOOLEAN /\ MayFail \in BOOLEAN
    /\ IsFiniteSet(Runs) /\ Fixtures \cap ErrorClasses = {}

Rounds == 2

(* A round is a list of positions: publish each desk, then take each desk  *)
(* into the pack, then put the pack itself.                                *)
Width == Len(Order)
Final == 2 * Width + 1
DeskAt(p) == IF p <= Width THEN Order[p] ELSE IF p < Final THEN Order[p - Width] ELSE Ops

(* What an output says: the fixture it was computed from or an error class,*)
(* and whether Intel's regime tag was there to be copied.                  *)
Outputs == [by : Fixtures \cup ErrorClasses, tag : BOOLEAN]

Envelopes ==
    [desk : Desks, content : Outputs, run : Runs, n : 1..(Rounds * Final)]
      \cup [desk : {Ops}, content : [Desks -> Outputs], run : Runs, n : 1..(Rounds * Final)]

ASSUME NoRowAssumption == NoRow \notin Envelopes /\ NoRow \notin Outputs

MaybeEnvelope == Envelopes \cup {NoRow}
Packs == [Desks -> Outputs \cup {NoRow}]
Health == [Desks \cup {Ops} -> MaybeEnvelope]

RunStates ==
    [pc : {"idle", "next", "find", "insert", "select", "upsert", "notify", "commit",
           "done", "failed"},
     start : 0..Cardinality(Runs), round : 1..Rounds, at : 1..Final,
     fixture : Fixtures \cup {NoRow}, killed : SUBSET Desks,
     new : MaybeEnvelope, dup : MaybeEnvelope, had : BOOLEAN,
     pack : Packs, packs : Seq([Desks -> Outputs])]

VARIABLES
    run,     \* per run: see RunStates
    table,   \* committed rows of desk_envelope
    health,  \* committed desk_health: the envelope row each desk refers to
    draft,   \* per run: rows it inserted and has not committed
    touched, \* per run: health rows it wrote and has not committed
    sent,    \* ids announced so far
    events,  \* notifications on their way to the worker
    heard    \* the worker's own health table

vars == <<run, table, health, draft, touched, sent, events, heard>>

Fresh == [pc |-> "idle", start |-> 0, round |-> 1, at |-> 1, fixture |-> NoRow,
          killed |-> {}, new |-> NoRow, dup |-> NoRow, had |-> FALSE,
          pack |-> [d \in Desks |-> NoRow], packs |-> <<>>]

-----------------------------------------------------------------------------
Open(r) == run[r].pc \notin {"idle", "done", "failed"}
Here(r) == DeskAt(run[r].at)
Assembling(r) == run[r].at > Width
Taking(r) == Assembling(r) /\ run[r].at < Final

(* Read committed: what others committed and what the run itself wrote.    *)
Visible(r) == table \cup draft[r]

HealthOf(r, d) == IF touched[r][d] # NoRow THEN touched[r][d] ELSE health[d]

(* created_at is the start of the inserting transaction; ids break ties.   *)
Newer(e, f) ==
    \/ run[e.run].start > run[f.run].start
    \/ run[e.run].start = run[f.run].start /\ e.n > f.n

Candidates(r, d) == {e \in Visible(r) : e.desk = d}
Latest(r, d) ==
    LET all == Candidates(r, d)
    IN  CHOOSE e \in all : \A f \in all \ {e} : Newer(e, f)

(* envelope_from_output: a fresh id, here the run and the put's number.    *)
Envelope(r, d, content) ==
    [desk |-> d, content |-> content, run |-> r, n |-> (run[r].round - 1) * Final + run[r].at]

IntelTag(r) ==
    IF Assembling(r)
      THEN run[r].pack[Order[1]] # NoRow /\ run[r].pack[Order[1]].by \in Fixtures
      ELSE Order[1] \notin run[r].killed

Published(r) == [by |-> run[r].fixture, tag |-> IntelTag(r)]
Failed(r, error) == [by |-> error, tag |-> IntelTag(r)]

-----------------------------------------------------------------------------
Init ==
    /\ run = [r \in Runs |-> Fresh]
    /\ table = {}
    /\ health = [d \in Desks \cup {Ops} |-> NoRow]
    /\ draft = [r \in Runs |-> {}]
    /\ touched = [r \in Runs |-> [d \in Desks \cup {Ops} |-> NoRow]]
    /\ sent = {} /\ events = <<>>
    /\ heard = [d \in Desks \cup {Ops} |-> NoRow]

Begun == {r \in Runs : run[r].pc # "idle"}

Begin(r, fixture, killed) ==
    /\ run[r].pc = "idle"
    /\ run' = [run EXCEPT ![r].pc = "next", ![r].start = Cardinality(Begun) + 1,
                          ![r].fixture = fixture, ![r].killed = killed]
    /\ UNCHANGED <<table, health, draft, touched, sent, events, heard>>

(* Publish: skip the killed desks, stamp and put the others.               *)
Publish(r) ==
    /\ run[r].pc = "next" /\ ~Assembling(r)
    /\ run' = IF Here(r) \in run[r].killed
                THEN [run EXCEPT ![r].at = @ + 1]
                ELSE [run EXCEPT ![r].pc = "find",
                                 ![r].new = Envelope(r, Here(r), Published(r))]
    /\ UNCHANGED <<table, health, draft, touched, sent, events, heard>>

(* Mutant: a desk without an envelope is left out of the pack.             *)
TakeOrLeave(r) ==
    /\ run[r].pc = "next" /\ Taking(r)
    /\ LET d == Here(r) IN
       run' = IF d \notin run[r].killed /\ Candidates(r, d) # {}
                THEN [run EXCEPT ![r].pack[d] = Latest(r, d).content, ![r].at = @ + 1]
                ELSE [run EXCEPT ![r].at = @ + 1]
    /\ UNCHANGED <<table, health, draft, touched, sent, events, heard>>

(* Assemble: the latest envelope of the store, or a FAILED one.            *)
Take(r) ==
    /\ run[r].pc = "next" /\ Taking(r)
    /\ LET d == Here(r) IN
       run' = IF d \notin run[r].killed /\ Candidates(r, d) # {}
                THEN [run EXCEPT ![r].pack[d] = Latest(r, d).content, ![r].at = @ + 1]
                ELSE LET error == IF d \in run[r].killed THEN "desk_killed"
                                                         ELSE "desk_missing"
                     IN  [run EXCEPT ![r].pc = "find", ![r].pack[d] = Failed(r, error),
                                     ![r].new = Envelope(r, d, Failed(r, error))]
    /\ UNCHANGED <<table, health, draft, touched, sent, events, heard>>

PutPack(r) ==
    /\ run[r].pc = "next" /\ run[r].at = Final
    /\ run' = [run EXCEPT ![r].pc = "find", ![r].new = Envelope(r, Ops, run[r].pack)]
    /\ UNCHANGED <<table, health, draft, touched, sent, events, heard>>

-----------------------------------------------------------------------------
(* A put, statement by statement.                                          *)

SameKey(e, f) == e.desk = f.desk /\ e.content = f.content

(* find_duplicate.                                                         *)
Find(r) ==
    /\ run[r].pc = "find"
    /\ LET same == {e \in Visible(r) : SameKey(e, run[r].new)} IN
       run' = [run EXCEPT ![r].pc = "insert",
                          ![r].dup = IF same = {} THEN NoRow ELSE CHOOSE e \in same : TRUE]
    /\ UNCHANGED <<table, health, draft, touched, sent, events, heard>>

(* Mutant: health refers to the envelope just built, stored or not.        *)
StoredOrNot(r) == run[r].new

(* The row the health row will refer to.                                   *)
Stored(r) == IF run[r].dup = NoRow THEN run[r].new ELSE run[r].dup

(* An index entry or a health row of an open transaction locks others out. *)
HoldsKey(s, r) == s # r /\ \E e \in draft[s] : SameKey(e, run[r].new)
HoldsHealth(s, r) == s # r /\ touched[s][Here(r)] # NoRow
Holders(r) ==
    CASE run[r].pc = "insert" /\ run[r].dup = NoRow -> {s \in Runs : HoldsKey(s, r)}
      [] run[r].pc = "upsert" -> {s \in Runs : HoldsHealth(s, r)}
      [] OTHER -> {}

(* Mutant: a session that failed is never closed.                          *)
EndsIfSaved(r) ==
    IF run[r].pc \in {"notify", "commit"}
      THEN /\ draft' = [draft EXCEPT ![r] = {}]
           /\ touched' = [touched EXCEPT ![r] = [d \in Desks \cup {Ops} |-> NoRow]]
      ELSE UNCHANGED <<draft, touched>>

(* The transaction ends: with its rows, or without.                        *)
Ends(r) ==
    /\ draft' = [draft EXCEPT ![r] = {}]
    /\ touched' = [touched EXCEPT ![r] = [d \in Desks \cup {Ops} |-> NoRow]]

Rollback(r) ==
    /\ run' = [run EXCEPT ![r].pc = "failed"]
    /\ Ends(r)
    /\ UNCHANGED <<table, health, sent, events, heard>>

Save(r) ==
    /\ table' = table \cup draft[r]
    /\ health' = [d \in Desks \cup {Ops} |-> HealthOf(r, d)]

(* Mutant: desk_envelope has no unique constraint.                         *)
InsertUnchecked(r) ==
    /\ run[r].pc = "insert"
    /\ run' = [run EXCEPT ![r].pc = "select"]
    /\ draft' = IF run[r].dup # NoRow THEN draft
                 ELSE [draft EXCEPT ![r] = @ \cup {run[r].new}]
    /\ UNCHANGED <<table, health, touched, sent, events, heard>>

(* INSERT, unless a duplicate was found; another run may have committed    *)
(* the same envelope since, and the unique constraint refuses this one.    *)
Insert(r) ==
    /\ run[r].pc = "insert" /\ Holders(r) = {}
    /\ run[r].dup # NoRow \/ \A e \in table : ~SameKey(e, run[r].new)
    /\ run' = [run EXCEPT ![r].pc = "select"]
    /\ draft' = IF run[r].dup # NoRow THEN draft
                 ELSE [draft EXCEPT ![r] = @ \cup {run[r].new}]
    /\ UNCHANGED <<table, health, touched, sent, events, heard>>

Refused(r) ==
    /\ run[r].pc = "insert" /\ Holders(r) = {}
    /\ run[r].dup = NoRow /\ \E e \in table : SameKey(e, run[r].new)
    /\ Rollback(r)

(* _upsert_health: read the row, then insert or update it.                 *)
Select(r) ==
    /\ run[r].pc = "select"
    /\ run' = [run EXCEPT ![r].pc = "upsert", ![r].had = HealthOf(r, Here(r)) # NoRow]
    /\ UNCHANGED <<table, health, draft, touched, sent, events, heard>>

Upsert(r) ==
    /\ run[r].pc = "upsert" /\ Holders(r) = {}
    /\ run[r].had \/ health[Here(r)] = NoRow
    /\ touched' = [touched EXCEPT ![r][Here(r)] = Stored(r)]
    /\ run' = [run EXCEPT ![r].pc = "notify"]
    /\ UNCHANGED <<table, health, draft, sent, events, heard>>

RefusedHealth(r) ==
    /\ run[r].pc = "upsert" /\ Holders(r) = {}
    /\ ~run[r].had /\ health[Here(r)] # NoRow
    /\ Rollback(r)

(* A new envelope is announced; coord.assemble is announced in any case,   *)
(* under the id of the envelope just built.                                *)
Announces(r) == run[r].dup = NoRow \/ run[r].at = Final

Notify(r) ==
    /\ run[r].pc = "notify"
    /\ sent' = IF Announces(r) THEN sent \cup {run[r].new} ELSE sent
    /\ events' = IF Listening /\ Announces(r) THEN Append(events, run[r].new) ELSE events
    /\ run' = IF run[r].at < Final
                THEN [run EXCEPT ![r].pc = "next", ![r].at = @ + 1]
                ELSE [run EXCEPT ![r].packs = Append(@, run[r].pack),
                                 ![r].pack = Fresh.pack, ![r].at = 1,
                                 ![r].round = IF @ < Rounds THEN @ + 1 ELSE @,
                                 ![r].pc = IF run[r].round < Rounds THEN "next" ELSE "commit"]
    /\ UNCHANGED <<table, health, draft, touched, heard>>

(* The connection of the NOTIFY fails.  dispatch_mesh leaves the session   *)
(* by __exit__(None, None, None), so that the put is committed all the same. *)
NotifyFails(r) ==
    /\ MayFail /\ run[r].pc = "notify" /\ Announces(r)
    /\ Save(r) /\ Ends(r)
    /\ run' = [run EXCEPT ![r].pc = "failed"]
    /\ UNCHANGED <<sent, events, heard>>

Commit(r) ==
    /\ run[r].pc = "commit"
    /\ Save(r) /\ Ends(r)
    /\ run' = [run EXCEPT ![r].pc = "done"]
    /\ UNCHANGED <<sent, events, heard>>

(* The process dies or loses its session.                                  *)
Die(r) == MayFail /\ Open(r) /\ Rollback(r)

(* Postgres aborts a transaction of a cycle of waiting ones.               *)
Deadlocked(r) ==
    \E ring \in SUBSET Runs :
        /\ r \in ring
        /\ \A s \in ring : /\ Holders(s) \cap ring # {}
                           /\ \E t \in ring : s \in Holders(t)

Abort(r) == Open(r) /\ Deadlocked(r) /\ Rollback(r)

(* drain / on_event of the worker, on a session that sees the table.       *)
Hear ==
    /\ events # <<>>
    /\ LET e == Head(events)
       IN  heard' = IF e \in table THEN [heard EXCEPT ![e.desk] = e] ELSE heard
    /\ events' = Tail(events)
    /\ UNCHANGED <<run, table, health, draft, touched, sent>>

Step(r) ==
    \/ Publish(r) \/ Take(r) \/ PutPack(r)
    \/ Find(r) \/ Insert(r) \/ Refused(r) \/ Select(r) \/ Upsert(r) \/ RefusedHealth(r)
    \/ Notify(r) \/ Commit(r) \/ Abort(r)

Next ==
    \/ \E r \in Runs :
          \/ \E fixture \in Fixtures, killed \in SUBSET Desks : Begin(r, fixture, killed)
          \/ Step(r) \/ NotifyFails(r) \/ Die(r)
    \/ Hear

Spec == Init /\ [][Next]_vars

(* A run that was started goes on; nobody has to start one.                *)
FairSpec == Spec /\ \A r \in Runs : WF_vars(Step(r))

-----------------------------------------------------------------------------
(* Properties.                                                             *)

(* The shape of the state; a pack is filled in the order of its desks.     *)
TypeOK ==
    /\ run \in [Runs -> RunStates]
    /\ table \subseteq Envelopes /\ sent \subseteq Envelopes
    /\ health \in Health /\ heard \in Health
    /\ draft \in [Runs -> SUBSET Envelopes]
    /\ touched \in [Runs -> Health]
    /\ events \in Seq(Envelopes)

(* desk_envelope is idempotent on (desk, as_of, content_hash), although    *)
(* runs look for a duplicate before they insert and may both find none.    *)
OneRowPerEnvelope == \A e, f \in table : SameKey(e, f) => e = f

(* A desk_health row refers to a committed envelope of its desk, whatever  *)
(* runs put the same envelope, die, or are refused.                        *)
HealthFollowsStore == \A d \in Desks \cup {Ops} :
    health[d] # NoRow => health[d] \in table /\ health[d].desk = d

(* The worker's health shows committed envelopes only: one that was rolled *)
(* back after its NOTIFY is never believed.                                *)
HeardIsCommitted == \A d \in Desks \cup {Ops} : heard[d] # NoRow => heard[d] \in table

(* A desk that ran in a round is not missing from the pack of that round.  *)
PublisherIsNeverMissing == \A r \in Runs : \A d \in Desks :
    run[r].pack[d] # NoRow => run[r].pack[d].by # "desk_missing"

(* Every run that began ends: waiting on one another, runs are aborted,    *)
(* never stuck.                                                            *)
EveryRunEnds == \A r \in Runs : Open(r) ~> ~Open(r)

(* What readers of the mesh are shown is what runs committed: health and   *)
(* the worker's view follow the table, and a desk that ran is in its pack. *)
MeshShowsTheStore == HealthFollowsStore /\ HeardIsCommitted /\ PublisherIsNeverMissing
=============================================================================
