--------------------------- MODULE CompletionLog ---------------------------
(***************************************************************************)
(* The completion log and the miss sweep over it (mm_desks.scheduler,      *)
(* mm_desks.completions, mm_memory.heartbeat_repository, lab schedule).    *)
(*                                                                         *)
(* A recorder (lab schedule heartbeat, lab brief, lab deliver) stamps a    *)
(* fire, links one file per run into the box's completions directory and   *)
(* then tries to persist a row in schedule_heartbeat.  The Actions runs    *)
(* commit their files to the branch, and the box pulls them.  A check      *)
(* (lab schedule miss-check) reads the table, then the directory, then the *)
(* known-missed baseline, may extend the baseline, and reports.            *)
(*                                                                         *)
(* One routine: every store is keyed by routine_id and the sweep treats    *)
(* routines one by one.  Time is counted in ticks, DayLen to a local day.  *)
(***************************************************************************)
EXTENDS Naturals, FiniteSets

CONSTANTS
    Recorders,   \* processes of lab that record a fire on the box
    BoxRuns,     \* run ids they are given
    ActionsRuns, \* run ids of the workflow
    Checkers,    \* processes of lab schedule miss-check
    NoRow,       \* no row of schedule_heartbeat
    NoCutoff,    \* a check without --baseline-before
    LastTick,    \* bound: the clock runs over 0..LastTick
    DayLen,      \* ticks of a local day
    AnchorAt,    \* the catalog's local_time
    Weekdays,    \* the local days on which the routine is scheduled
    LateAfter, MissAfter, Lookback

Times == 0..LastTick
Days == 0..(LastTick \div DayLen)
Runs == BoxRuns \cup ActionsRuns

(* A completion row: everything else in it is computed from fired_at_ts.   *)
Row == [run : Runs, fired : Times]

(* routine_from_mapping reads miss_after_seconds: 0 as the default.        *)
ASSUME ConstantsAssumption ==
    /\ LastTick \in Nat /\ DayLen \in Nat \ {0} /\ AnchorAt \in 0..(DayLen - 1)
    /\ LateAfter \in Nat /\ MissAfter \in Nat \ {0} /\ Lookback \in Nat
    /\ Weekdays \subseteq Days
    /\ BoxRuns \cap ActionsRuns = {}
    /\ NoRow \notin Row /\ NoCutoff \notin Days

VARIABLES
    now,
    recorder,  \* per recorder: [pc, row, seen]
    disk,      \* rows in the completions directory of the box
    remote,    \* rows committed to the branch by the workflow
    db,        \* schedule_heartbeat: one row per anchor, or NoRow
    baseline,  \* anchors in the known-missed baseline file
    check,     \* per checker: [pc, time, useDb, cutoff, rows, known, durable]
    report     \* per checker: its last report

vars == <<now, recorder, disk, remote, db, baseline, check, report>>

-----------------------------------------------------------------------------
(* The pure part of scheduler.py.                                          *)

(* Mutant: an unscheduled day walks back to the last scheduled one.        *)
SlotWalksBack(fired) ==
    LET due == {d \in Weekdays : d <= fired \div DayLen}
    IN  IF due = {} THEN fired \div DayLen ELSE CHOOSE d \in due : \A e \in due : e <= d

(* The anchor of a fire is the one of its own local day.                   *)
Slot(fired) == fired \div DayLen

AnchorTs(d) == d * DayLen + AnchorAt

(* Grace is symmetric around the anchor.                                   *)
Status(fired) ==
    LET anchor == AnchorTs(Slot(fired))
    IN  IF fired > anchor + LateAfter THEN "late"
        ELSE IF fired + LateAfter < anchor THEN "early" ELSE "ok"

Rank == [ok |-> 5, late |-> 4, early |-> 3]

(* Mutant: the days the catalog does not schedule are swept too.           *)
ClosedEveryDay(t) == {d \in Days : /\ AnchorTs(d) + Lookback >= t
                                   /\ AnchorTs(d) + MissAfter <= t}

(* Anchors within the lookback whose window has closed.                    *)
Closed(t) == {d \in Weekdays : /\ AnchorTs(d) + Lookback >= t
                               /\ AnchorTs(d) + MissAfter <= t}

RowsOf(rows, d) == {r \in rows : Slot(r.fired) = d}

(* _index_completions: the best status of an anchor wins.                  *)
Indexed(rows, d) ==
    LET statuses == {Status(r.fired) : r \in RowsOf(rows, d)}
    IN  CHOOSE s \in statuses : \A t \in statuses : Rank[t] <= Rank[s]

(* --baseline-before: anchors of earlier local days are labelled.          *)
BeforeCutoff(d, cutoff) == cutoff # NoCutoff /\ d < cutoff

(* miss_sweep.                                                             *)
Sweep(t, rows, known, cutoff) ==
    LET fired == {d \in Closed(t) : RowsOf(rows, d) # {}}
        silent == Closed(t) \ fired
        labelled == {d \in silent : d \in known \/ BeforeCutoff(d, cutoff)}
    IN  [missed |-> silent \ labelled, known |-> labelled,
         ok    |-> {d \in fired : Indexed(rows, d) = "ok"},
         late  |-> {d \in fired : Indexed(rows, d) = "late"},
         early |-> {d \in fired : Indexed(rows, d) = "early"}]

Buckets == [missed : SUBSET Weekdays, known : SUBSET Weekdays, ok : SUBSET Weekdays,
            late : SUBSET Weekdays, early : SUBSET Weekdays]
CheckStates ==
    [pc : {"idle", "db", "disk", "baseline", "label", "reread", "report"}, time : Times,
     useDb : BOOLEAN, cutoff : Days \cup {NoCutoff}, rows : SUBSET Row,
     known : SUBSET Weekdays, durable : SUBSET Days]

NoBuckets == [missed |-> {}, known |-> {}, ok |-> {}, late |-> {}, early |-> {}]
Idle == [pc |-> "idle", time |-> 0, useDb |-> FALSE, cutoff |-> NoCutoff, rows |-> {},
         known |-> {}, durable |-> {}]

-----------------------------------------------------------------------------
TypeOK ==
    /\ now \in Times
    /\ recorder \in [Recorders ->
          [pc : {"idle", "select", "persist", "persisted", "refused", "skipped"},
           row : Row \cup {NoRow}, seen : Row \cup {NoRow}]]
    /\ disk \subseteq Row
    /\ remote \subseteq Row
    /\ db \in [Days -> Row \cup {NoRow}]
    /\ baseline \subseteq Weekdays
    /\ check \in [Checkers -> CheckStates]
    /\ report \in [Checkers -> [time : Times, buckets : Buckets, durable : SUBSET Days]]

Init ==
    /\ now = 0
    /\ recorder = [w \in Recorders |-> [pc |-> "idle", row |-> NoRow, seen |-> NoRow]]
    /\ disk = {} /\ remote = {}
    /\ db = [d \in Days |-> NoRow]
    /\ baseline = {}
    /\ check = [c \in Checkers |-> Idle]
    /\ report = [c \in Checkers |-> [time |-> 0, buckets |-> NoBuckets, durable |-> {}]]

Tick ==
    /\ now < LastTick
    /\ now' = now + 1
    /\ UNCHANGED <<recorder, disk, remote, db, baseline, check, report>>

-----------------------------------------------------------------------------
(* Recording a fire.                                                       *)

(* write_completion: one file per run and anchor, never replaced.          *)
Linked(rows, row) ==
    IF \E r \in rows : r.run = row.run /\ Slot(r.fired) = Slot(row.fired)
      THEN rows ELSE rows \cup {row}

(* Mutant: the file is written only by a recorder that skips the table.    *)
LinkedUnlessDb(row, useDb) == IF useDb THEN disk ELSE Linked(disk, row)

LinkedFirst(row, useDb) == Linked(disk, row)

(* record_cli_completion up to the file: a fire of now, or --fired-at.     *)
(* A fire on an unscheduled day is refused and writes nothing.             *)
Record(w, run, fired, useDb) ==
    /\ recorder[w].pc = "idle"
    /\ fired <= now
    /\ LET row == [run |-> run, fired |-> fired] IN
       IF Slot(fired) \in Weekdays
         THEN /\ recorder' = [recorder EXCEPT ![w].row = row,
                                 ![w].pc = IF useDb THEN "select" ELSE "skipped"]
              /\ disk' = LinkedFirst(row, useDb)
         ELSE /\ recorder' = [recorder EXCEPT ![w].pc = "refused"]
              /\ UNCHANGED disk
    /\ UNCHANGED <<now, remote, db, baseline, check, report>>

DayOf(w) == Slot(recorder[w].row.fired)

(* persist_heartbeat ranks with a table of its own, without "early".       *)
DbRank(row) ==
    CASE Status(row.fired) = "ok" -> 4 [] Status(row.fired) = "late" -> 3
      [] Status(row.fired) = "early" -> 0

(* persist_heartbeat reads the row of the anchor ...                       *)
Select(w) ==
    /\ recorder[w].pc = "select"
    /\ recorder' = [recorder EXCEPT ![w].seen = db[DayOf(w)], ![w].pc = "persist"]
    /\ UNCHANGED <<now, disk, remote, db, baseline, check, report>>

(* ... and inserts or overwrites it.  The unique and the check constraint  *)
(* of the table can refuse; the caller swallows the refusal.               *)
Persist(w) ==
    /\ recorder[w].pc = "persist"
    /\ LET row == recorder[w].row
           seen == recorder[w].seen
           wins == seen = NoRow \/ DbRank(row) >= DbRank(seen)
           refused == Status(row.fired) = "early" \/ (seen = NoRow /\ db[DayOf(w)] # NoRow)
       IN  db' = IF wins /\ ~refused THEN [db EXCEPT ![DayOf(w)] = row] ELSE db
    /\ recorder' = [recorder EXCEPT ![w].pc = "persisted"]
    /\ UNCHANGED <<now, disk, remote, baseline, check, report>>

(* No database, no table, or the process dies: the file is kept.           *)
PersistFails(w) ==
    /\ recorder[w].pc \in {"select", "persist"}
    /\ recorder' = [recorder EXCEPT ![w].pc = "skipped"]
    /\ UNCHANGED <<now, disk, remote, db, baseline, check, report>>

(* stage1-stamp commits a row to the branch; git pull brings it here.      *)
ActionsFire(run) ==
    /\ Slot(now) \in Weekdays
    /\ remote' = Linked(remote, [run |-> run, fired |-> now])
    /\ UNCHANGED <<now, recorder, disk, db, baseline, check, report>>

Pull ==
    /\ disk' = disk \cup remote
    /\ UNCHANGED <<now, recorder, remote, db, baseline, check, report>>

-----------------------------------------------------------------------------
(* lab schedule miss-check.                                                *)

(* now is read before the stores are.  "durable" is kept for a property.   *)
CheckStart(c, useDb, cutoff) ==
    /\ check[c].pc = "idle"
    /\ cutoff \in (0..Slot(now)) \cup {NoCutoff}
    /\ check' = [check EXCEPT ![c] =
          [pc |-> "db", time |-> now, useDb |-> useDb, cutoff |-> cutoff, rows |-> {},
           known |-> {}, durable |-> {Slot(r.fired) : r \in disk}]]
    /\ UNCHANGED <<now, recorder, disk, remote, db, baseline, report>>

(* The table, unless --no-db; a failure to read it is a warning.           *)
CheckDb(c, up) ==
    /\ check[c].pc = "db"
    /\ check' = [check EXCEPT ![c].pc = "disk",
                    ![c].rows = IF check[c].useDb /\ up
                                  THEN {db[d] : d \in Days} \ {NoRow} ELSE {}]
    /\ UNCHANGED <<now, recorder, disk, remote, db, baseline, report>>

Merged(c) == check[c].rows \cup disk

CheckDisk(c) ==
    /\ check[c].pc = "disk"
    /\ check' = [check EXCEPT ![c].pc = "baseline", ![c].rows = Merged(c)]
    /\ UNCHANGED <<now, recorder, disk, remote, db, baseline, report>>

CheckBaseline(c) ==
    /\ check[c].pc = "baseline"
    /\ check' = [check EXCEPT ![c].known = baseline,
                    ![c].pc = IF check[c].cutoff # NoCutoff THEN "label" ELSE "report"]
    /\ UNCHANGED <<now, recorder, disk, remote, db, baseline, report>>

Result(c) == Sweep(check[c].time, check[c].rows, check[c].known, check[c].cutoff)

(* Mutant: the file holds the windows of this check only.                  *)
WrittenWithoutExisting(c) == Result(c).known

(* write_known_missed_baseline: union with what was read.                  *)
Written(c) == check[c].known \cup Result(c).known

CheckLabel(c) ==
    /\ check[c].pc = "label"
    /\ baseline' = Written(c)
    /\ check' = [check EXCEPT ![c].pc = "reread"]
    /\ UNCHANGED <<now, recorder, disk, remote, db, report>>

(* The sweep is repeated over the file as it is now.                       *)
CheckReread(c) ==
    /\ check[c].pc = "reread"
    /\ check' = [check EXCEPT ![c].known = baseline, ![c].pc = "report"]
    /\ UNCHANGED <<now, recorder, disk, remote, db, baseline, report>>

CheckReport(c) ==
    /\ check[c].pc = "report"
    /\ report' = [report EXCEPT ![c] = [time |-> check[c].time, buckets |-> Result(c),
                                         durable |-> check[c].durable]]
    /\ check' = [check EXCEPT ![c] = Idle]
    /\ UNCHANGED <<now, recorder, disk, remote, db, baseline>>

Next ==
    \/ Tick \/ Pull
    \/ \E w \in Recorders :
          \/ Select(w) \/ Persist(w) \/ PersistFails(w)
          \/ \E run \in BoxRuns, fired \in Times, useDb \in BOOLEAN :
                Record(w, run, fired, useDb)
    \/ \E run \in ActionsRuns : ActionsFire(run)
    \/ \E c \in Checkers :
          \/ \E useDb \in BOOLEAN, cutoff \in Days \cup {NoCutoff} : CheckStart(c, useDb, cutoff)
          \/ \E up \in BOOLEAN : CheckDb(c, up)
          \/ CheckDisk(c) \/ CheckBaseline(c)
          \/ CheckLabel(c) \/ CheckReread(c) \/ CheckReport(c)

Spec == Init /\ [][Next]_vars

-----------------------------------------------------------------------------
(* Properties.                                                             *)

LocalDay(t) == t \div DayLen
FiredOn(d) == \E r \in disk : LocalDay(r.fired) = d
Fired(buckets) == buckets.ok \cup buckets.late \cup buckets.early

(* The table is a copy: an anchor with a row has a file on the box.  The   *)
(* miss sweep is only as good without the database as with it because of   *)
(* the order in which record_cli_completion writes.                        *)
DbIsBackedByDisk == \A d \in Days : db[d] # NoRow => FiredOn(d)

(* A report and the log agree on silence: an anchor is reported as fired   *)
(* only if something fired on its own local day, and a closed anchor with  *)
(* no file is listed, as missed or as known-missed.                        *)
ReportMatchesLog ==
    \A c \in Checkers :
        LET b == report[c].buckets IN
        /\ \A d \in Fired(b) : FiredOn(d)
        /\ \A d \in Closed(report[c].time) \ Fired(b) : d \in b.missed \cup b.known

(* A fire that had its file when the check began is not escalated, though  *)
(* the table, the directory and the baseline are read one after another    *)
(* while recorders write and the box pulls.                                *)
DurableFireNotEscalated ==
    \A c \in Checkers :
        (report[c].buckets.missed \cup report[c].buckets.known) \cap report[c].durable = {}

(* What one check reported as fired, a later one reports as fired while    *)
(* the anchor is in its lookback, with the database or without it.         *)
FireStaysFired ==
    [][\A c \in Checkers :
         report'[c] # report[c] =>
            \A d \in Fired(report[c].buckets) :
               d \in Closed(report'[c].time) => d \in Fired(report'[c].buckets)]_vars

(* --baseline-before today hides no anchor of the current local day.       *)
TodayIsNeverLabelled == \A d \in baseline : d < LocalDay(now)

(* "Labeled, not deleted": the baseline file only grows.                   *)
LabelsKept == [][baseline \subseteq baseline']_vars

(* The sweep is right about both silences: what fired is never escalated,  *)
(* what did not is listed, and no label hides the current day.             *)
SweepIsRight == ReportMatchesLog /\ DurableFireNotEscalated /\ TodayIsNeverLabelled

(* Neither a report nor the baseline forgets.                              *)
LogOnlyGrows == FireStaysFired /\ LabelsKept
=============================================================================
