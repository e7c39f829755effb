--------------------------- MODULE MorningCapture ---------------------------
(***************************************************************************)
(* lab retain morning and lab retain proof (mvp_retain.py): one capture of *)
(* the watched instruments per Sydney anchor date.  The body runs in a     *)
(* thread: count the anchor's rows, read the clock, read the prior capture,*)
(* fetch, write every row in one session, count them back (a proof reads   *)
(* the clock first of all and does not count the anchor).  The main        *)
(* thread waits for it at most 90 seconds, prints one CAPTURE line and     *)
(* exits; a body that is still running goes on until then.  Each query is  *)
(* a session of its own, and nothing but the order of the runs keeps two   *)
(* captures of one anchor apart.                                           *)
(***************************************************************************)
EXTENDS Naturals, FiniteSets

CONSTANTS
    Runs,        \* invocations: workflow jobs and people
    Anchors,     \* Sydney anchor dates
    Names        \* instrument and metric pairs of one capture (the spec: 75)

(* persist_mvp_retain refuses an empty capture.                            *)
ASSUME CaptureAssumption ==
    /\ IsFiniteSet(Runs)
    /\ IsFiniteSet(Names) /\ Names # {}
    /\ Anchors # {}

VARIABLES
    clock,       \* the last captured_at: bounded by the number of runs
    rows,        \* committed retain rows of observation
    run          \* what each invocation does and printed

vars == <<clock, rows, run>>

Times == 0..Cardinality(Runs)        \* 0: no capture
Body == {"count", "clock", "prior", "persist", "readBack"}

Row == [name: Names, proof: BOOLEAN, anchor: Anchors, at: Times, prior: Times,
        by: Runs]

(* "before" is history: the invocations that had exited at the start.      *)
Run == [pc: Body \cup {"idle", "ended", "exited"}, proof: BOOLEAN,
        anchor: Anchors, at: Times, prior: Times,
        line: {"none", "failed", "exists", "rows"},
        count: 0..Cardinality(Runs \X Names), before: SUBSET Runs]

Init ==
    /\ clock = 0
    /\ rows = {}
    /\ run \in [Runs -> [pc: {"idle"}, proof: {FALSE}, anchor: {CHOOSE a \in Anchors : TRUE},
                         at: {0}, prior: {0}, line: {"none"}, count: {0}, before: {{}}]]

(* The workflow passes the stamp's scheduled_for, which a re-run keeps.    *)
Start(r, proof, anchor) ==
    /\ run[r].pc = "idle"
    /\ run' = [run EXCEPT ![r].pc = IF proof THEN "clock" ELSE "count",
                 ![r].proof = proof, ![r].anchor = anchor,
                 ![r].before = {q \in Runs : run[q].pc = "exited"}]
    /\ UNCHANGED <<clock, rows>>

(* The body returns; after a timeout nobody takes its result.              *)
Return(r, line, count) ==
    run' = [run EXCEPT ![r].pc = "ended",
              ![r].line = IF @ = "none" THEN line ELSE @,
              ![r].count = IF run[r].line = "none" THEN count ELSE @]

(* ANCHOR_EXISTS_SQL                                                       *)
OfAnchor(anchor) == {o \in rows : ~o.proof /\ o.anchor = anchor}

Count(r) ==
    /\ run[r].pc = "count"
    /\ IF OfAnchor(run[r].anchor) # {}
         THEN Return(r, "exists", 0)
         ELSE run' = [run EXCEPT ![r].pc = "clock"]
    /\ UNCHANGED <<clock, rows>>

(* captured_at, with microseconds: no two captures share it.               *)
ReadClock(r) ==
    /\ run[r].pc = "clock"
    /\ clock' = clock + 1
    /\ run' = [run EXCEPT ![r].pc = "prior", ![r].at = clock + 1]
    /\ UNCHANGED rows

Latest(times) == IF times = {} THEN 0 ELSE CHOOSE t \in times : \A u \in times : u <= t

(* Mutant: the prior is looked for among proofs too.                       *)
PriorOrProof(r) == Latest({o.at : o \in {o \in rows :
    o.anchor # run[r].anchor /\ o.at < run[r].at}})

(* PRIOR_CAPTURE_SQL                                                       *)
PriorOf(r) == Latest({o.at : o \in {o \in rows :
    ~o.proof /\ o.anchor # run[r].anchor /\ o.at < run[r].at}})

(* The fetch follows: what a vendor leaves out is a partial row, not a     *)
(* missing one, so that it only fails or goes on.                          *)
Prior(r) ==
    /\ run[r].pc = "prior"
    /\ run' = [run EXCEPT ![r].pc = "persist", ![r].prior = PriorOf(r)]
    /\ UNCHANGED <<clock, rows>>

Capture(r) ==
    {[name |-> n, proof |-> run[r].proof, anchor |-> run[r].anchor,
      at |-> run[r].at, prior |-> run[r].prior, by |-> r] : n \in Names}

(* One transaction; its commit may succeed though the answer is lost.      *)
Written(r, acked) == Capture(r)

Persist(r, acked) ==
    /\ run[r].pc = "persist"
    /\ rows' = rows \cup Written(r, acked)
    /\ IF acked THEN run' = [run EXCEPT ![r].pc = "readBack"]
                ELSE Return(r, "failed", 0)
    /\ UNCHANGED clock

(* CAPTURE_ROWS_SQL by captured_at, PROOF_ROWS_SQL by capture_id.          *)
CountOfCapture(r) ==
    Cardinality({o \in rows : IF run[r].proof THEN o.proof /\ o.by = r
                                              ELSE o.at = run[r].at})

ReadBack(r) ==
    /\ run[r].pc = "readBack"
    /\ Return(r, "rows", CountOfCapture(r))
    /\ UNCHANGED <<clock, rows>>

(* Mutant: a body that failed is tried again.                              *)
BodyRetried(r) ==
    /\ run[r].pc \in Body
    /\ run' = [run EXCEPT ![r].pc = "count"]
    /\ UNCHANGED <<clock, rows>>

(* A query, a fetch or the session raises: FAILED, nothing committed.      *)
BodyFails(r) ==
    /\ run[r].pc \in Body
    /\ Return(r, "failed", 0)
    /\ UNCHANGED <<clock, rows>>

(* thread.join(90) gave up; the body is still running.                     *)
Timeout(r) ==
    /\ run[r].pc \in Body /\ run[r].line = "none"
    /\ run' = [run EXCEPT ![r].line = "failed"]
    /\ UNCHANGED <<clock, rows>>

(* The line is printed, the process ends, and its daemon thread with it.   *)
Exit(r) ==
    /\ run[r].pc \in Body \cup {"ended"} /\ run[r].line # "none"
    /\ run' = [run EXCEPT ![r].pc = "exited"]
    /\ UNCHANGED <<clock, rows>>

(* Killed without a line: the step prints FAILED capture step itself.      *)
Die(r) ==
    /\ run[r].pc \in Body \cup {"ended"}
    /\ run' = [run EXCEPT ![r].pc = "exited",
                 ![r].line = "failed"]
    /\ UNCHANGED <<clock, rows>>

BodyStep(r) ==
    \/ Count(r) \/ ReadClock(r) \/ Prior(r) \/ ReadBack(r) \/ BodyFails(r)
    \/ \E acked \in BOOLEAN : Persist(r, acked)

Next == \E r \in Runs :
    \/ BodyStep(r) \/ Timeout(r) \/ Exit(r) \/ Die(r)
    \/ \E proof \in BOOLEAN, anchor \in Anchors : Start(r, proof, anchor)

Spec == Init /\ [][Next]_vars

-----------------------------------------------------------------------------
(* Properties                                                              *)

TypeOK ==
    /\ clock \in Times
    /\ rows \subseteq Row
    /\ run \in [Runs -> Run]

(* A committed capture has every row of the membership, whatever failed.   *)
CaptureIsWhole ==
    \A o \in rows : {p.name : p \in {p \in rows : p.by = o.by}} = Names

(* "One capture per Sydney anchor date": two morning captures of an anchor *)
(* are of runs that overlapped.  The workflow's concurrency group keeps    *)
(* its own runs apart.                                                     *)
OneCapturePerAnchor ==
    \A o, p \in rows :
        ~o.proof /\ ~p.proof /\ o.anchor = p.anchor /\ o.by # p.by
            => o.by \notin run[p.by].before

(* The interval stored on a row reaches back to the latest morning capture *)
(* of another anchor, never to a proof: a capture of a run that had exited *)
(* when this one started is not skipped.                                   *)
PriorIsLatest ==
    \A o \in rows :
        /\ o.prior # 0 => \E p \in rows :
              ~p.proof /\ p.anchor # o.anchor /\ p.at = o.prior /\ p.at < o.at
        /\ \A p \in rows :
              ~p.proof /\ p.anchor # o.anchor /\ p.by \in run[o.by].before
                  => p.at <= o.prior

(* The CAPTURE line of the DM is true: the count it gives is what the      *)
(* capture has in the table, and "exists" means that a morning capture of  *)
(* that anchor is there.  FAILED promises nothing: a commit whose answer   *)
(* was lost, or one after the timeout, may have landed.                    *)
LineIsTrue ==
    \A r \in Runs :
        /\ run[r].line = "rows" =>
              run[r].count = Cardinality({o \in rows : o.by = r}) /\ run[r].count > 0
        /\ run[r].line = "exists" =>
              \E o \in rows : ~o.proof /\ o.anchor = run[r].anchor /\ o.by # r

(* A capture is whole, alone on its anchor but for runs that overlapped,   *)
(* reaches back to the right prior, and its line says what is there.       *)
CaptureIsTrue == CaptureIsWhole /\ OneCapturePerAnchor /\ PriorIsLatest /\ LineIsTrue
=============================================================================
