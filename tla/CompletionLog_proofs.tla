------------------------ MODULE CompletionLog_proofs ------------------------
(***************************************************************************)
(* Theorems about CompletionLog for any number of recorders, runs and      *)
(* checkers, any clock, and any schedule of the routine.                   *)
(***************************************************************************)
EXTENDS CompletionLog, TLAPS

-----------------------------------------------------------------------------
(* The inductive invariant, conjunct by conjunct.                          *)

(* A recorder writes the table only after its file is on the disk.         *)
FileFirst ==
    \A w \in Recorders : recorder[w].pc \in {"select", "persist"} =>
        recorder[w].row \in Row /\ FiredOn(DayOf(w))

(* A row of the table is of its own anchor, and there is a file for it.    *)
RowsHaveFiles ==
    \A d \in Days : db[d] # NoRow => Slot(db[d].fired) = d /\ FiredOn(d)

(* The days a check has read a row of.                                     *)
DaysRead(c) == {Slot(r.fired) : r \in check[c].rows}

(* What a check knows, it knows of the log of now or of earlier; having    *)
(* read the directory, it knows of every fire that was durable when it     *)
(* began and of every fire it reported before.                             *)
CheckOf(c) ==
    /\ check[c].time <= now
    /\ check[c].cutoff # NoCutoff => check[c].cutoff <= LocalDay(now)
    /\ \A d \in check[c].known : d < LocalDay(now)
    /\ \A d \in DaysRead(c) : FiredOn(d)
    /\ \A d \in check[c].durable : FiredOn(d)
    /\ check[c].pc \in {"baseline", "label", "reread", "report"} =>
          /\ check[c].durable \subseteq DaysRead(c)
          /\ Fired(report[c].buckets) \subseteq DaysRead(c)
Checking == \A c \in Checkers : CheckOf(c)

IInv ==
    /\ TypeOK
    /\ FileFirst
    /\ RowsHaveFiles
    /\ Checking
    /\ SweepIsRight

(* With one checker, a label it has not read is not in the file.           *)
LabelsRead == \A c \in Checkers : check[c].pc = "label" => baseline \subseteq check[c].known

-----------------------------------------------------------------------------
(* Days and anchors.                                                       *)

(* A local day is a day of the clock, and later days come later.           *)
LEMMA DaysOfTheClock ==
  /\ \A t \in Times : Slot(t) \in Days /\ Slot(t) \in Nat /\ LocalDay(t) = Slot(t)
  /\ \A s, t \in Times : s <= t => LocalDay(s) <= LocalDay(t)
  /\ \A d \in Days : d \in Nat
  <1>1. \A a, b \in Nat : a <= b => a \div DayLen <= b \div DayLen
      <2> SUFFICES ASSUME NEW a \in Nat, NEW b \in Nat, a <= b
                   PROVE  a \div DayLen <= b \div DayLen
          OBVIOUS
      <2>1. DayLen \in Nat \ {0}
          BY ConstantsAssumption
      <2> QED
          BY <2>1, SMT
  <1>2. \A a \in Nat : a \div DayLen \in Nat
      <2>1. DayLen \in Nat \ {0}
          BY ConstantsAssumption
      <2> QED
          BY <2>1, SMT
  <1>3. LastTick \in Nat /\ \A t \in Times : t \in Nat /\ t <= LastTick
      BY ConstantsAssumption DEF Times
  <1>4. \A t \in Times : Slot(t) \in Days /\ Slot(t) \in Nat /\ LocalDay(t) = Slot(t)
      <2> SUFFICES ASSUME NEW t \in Times
                   PROVE  t \div DayLen \in 0..(LastTick \div DayLen) /\ t \div DayLen \in Nat
          BY DEF Slot, LocalDay, Days
      <2>1. t \div DayLen \in Nat /\ LastTick \div DayLen \in Nat
          BY <1>2, <1>3
      <2>2. t \div DayLen <= LastTick \div DayLen
          BY <1>1, <1>3
      <2> HIDE DEF Times
      <2> QED
          BY <2>1, <2>2
  <1>5. \A s, t \in Times : s <= t => LocalDay(s) <= LocalDay(t)
      BY <1>1, <1>3 DEF LocalDay
  <1>6. \A d \in Days : d \in Nat
      BY DEF Days
  <1> QED
      BY <1>4, <1>5, <1>6

LEMMA ClosedIsScheduled ==
  ASSUME NEW t
  PROVE  Closed(t) \subseteq Weekdays /\ Closed(t) \subseteq Days
  BY ConstantsAssumption DEF Closed

(* An anchor with a row has a status, one of the three.                    *)
LEMMA IndexedIs ==
  ASSUME NEW rows, NEW d, RowsOf(rows, d) # {}
  PROVE  Indexed(rows, d) \in {"ok", "late", "early"}
  <1> DEFINE S == {Status(r.fired) : r \in RowsOf(rows, d)}
  <1>1. S # {} /\ \A s \in S : s \in {"ok", "late", "early"}
      BY DEF Status
  <1>2. Rank["ok"] = 5 /\ Rank["late"] = 4 /\ Rank["early"] = 3
      BY DEF Rank
  <1> HIDE DEF S
  <1>3. \E s \in S : \A t \in S : Rank[t] <= Rank[s]
      <2>1. CASE "ok" \in S
          BY <1>1, <1>2, <2>1
      <2>2. CASE "ok" \notin S /\ "late" \in S
          BY <1>1, <1>2, <2>2
      <2>3. CASE "ok" \notin S /\ "late" \notin S
          BY <1>1, <1>2, <2>3
      <2> QED
          BY <2>1, <2>2, <2>3
  <1>4. (CHOOSE s \in S : \A t \in S : Rank[t] <= Rank[s]) \in S
      BY <1>3
  <1> QED
      BY <1>1, <1>4 DEF Indexed, S

(* What a sweep says: every closed anchor is in the bucket its rows, the   *)
(* baseline and the cutoff call for.                                       *)
LEMMA SweepIs ==
  ASSUME NEW t, NEW rows, NEW known, NEW cutoff
  PROVE  LET b == Sweep(t, rows, known, cutoff)
             read == {Slot(r.fired) : r \in rows}
         IN  /\ b \in Buckets
             /\ Fired(b) = Closed(t) \cap read
             /\ b.missed \cup b.known = Closed(t) \ read
             /\ \A d \in b.known : d \in known \/ BeforeCutoff(d, cutoff)
  <1> DEFINE b == Sweep(t, rows, known, cutoff)
             read == {Slot(r.fired) : r \in rows}
             fired == {d \in Closed(t) : RowsOf(rows, d) # {}}
             silent == Closed(t) \ fired
             labelled == {d \in silent : d \in known \/ BeforeCutoff(d, cutoff)}
  <1>1. b = [missed |-> silent \ labelled, known |-> labelled,
             ok    |-> {d \in fired : Indexed(rows, d) = "ok"},
             late  |-> {d \in fired : Indexed(rows, d) = "late"},
             early |-> {d \in fired : Indexed(rows, d) = "early"}]
      BY DEF Sweep
  <1>2. fired = Closed(t) \cap read
      BY DEF RowsOf
  <1>3. b \in Buckets
      BY <1>1, ClosedIsScheduled DEF Buckets
  <1>4. Fired(b) = fired
      BY <1>1, IndexedIs DEF Fired
  <1>5. b.missed \cup b.known = silent /\ \A d \in b.known : d \in known \/ BeforeCutoff(d, cutoff)
      BY <1>1
  <1> QED
      BY <1>2, <1>3, <1>4, <1>5
-----------------------------------------------------------------------------
(* The initial states satisfy the invariant.                               *)
LEMMA InitIInv == Init => IInv
  <1> SUFFICES ASSUME Init PROVE IInv
      OBVIOUS
  <1>1. /\ now = 0 /\ disk = {} /\ remote = {} /\ baseline = {}
        /\ recorder = [w \in Recorders |-> [pc |-> "idle", row |-> NoRow, seen |-> NoRow]]
        /\ db = [d \in Days |-> NoRow]
        /\ check = [c \in Checkers |-> Idle]
        /\ report = [c \in Checkers |-> [time |-> 0, buckets |-> NoBuckets, durable |-> {}]]
      BY DEF Init
  <1>2. 0 \in Times
      BY ConstantsAssumption DEF Times
  <1>3. TypeOK
      BY <1>1, <1>2 DEF TypeOK, Idle, CheckStates, Buckets, NoBuckets
  <1>4. FileFirst /\ RowsHaveFiles
      BY <1>1 DEF FileFirst, RowsHaveFiles
  <1>5. Checking
      BY <1>1 DEF Checking, CheckOf, DaysRead, Idle
  <1>6. Closed(0) = {}
      <2>1. \A d \in Weekdays : AnchorTs(d) \in Nat
          <3>1. \A d \in Weekdays : d \in Nat
              BY ConstantsAssumption, DaysOfTheClock
          <3> QED
              BY <3>1, ConstantsAssumption DEF AnchorTs
      <2>2. \A n \in Nat : ~(n + MissAfter <= 0)
          BY ConstantsAssumption
      <2> QED
          BY <2>1, <2>2 DEF Closed
  <1>7. SweepIsRight
      BY <1>1, <1>6 DEF SweepIsRight, ReportMatchesLog, DurableFireNotEscalated,
                        TodayIsNeverLabelled, Fired, NoBuckets
  <1> QED
      BY <1>3, <1>4, <1>5, <1>7 DEF IInv

-----------------------------------------------------------------------------
(* The log grows under a check.                                            *)

(* A fire stays on the disk, and its day stays past.                       *)
LEMMA LogGrows ==
  ASSUME TypeOK, TypeOK', disk \subseteq disk', now <= now'
  PROVE  /\ \A d : FiredOn(d) => FiredOn(d)'
         /\ \A d \in Nat : d < LocalDay(now) => d < LocalDay(now')
         /\ \A d \in Nat : d <= LocalDay(now) => d <= LocalDay(now')
         /\ LocalDay(now) \in Nat /\ LocalDay(now') \in Nat
  <1>1. \A d : FiredOn(d) => FiredOn(d)'
      BY DEF FiredOn, LocalDay
  <1>2. now \in Times /\ now' \in Times
      BY DEF TypeOK
  <1>3. LocalDay(now) \in Nat /\ LocalDay(now') \in Nat /\ LocalDay(now) <= LocalDay(now')
      BY <1>2, DaysOfTheClock
  <1> QED
      BY <1>1, <1>3

(* Days of the labels and the cutoffs are numbers.                         *)
LEMMA DaysAreNumbers ==
  ASSUME TypeOK
  PROVE  /\ \A d \in baseline : d \in Nat
         /\ \A c \in Checkers : /\ \A d \in check[c].known : d \in Nat
                                /\ check[c].cutoff # NoCutoff => check[c].cutoff \in Nat
                                /\ check[c].time \in Nat
         /\ now \in Nat
  <1>1. Weekdays \subseteq Nat /\ Days \subseteq Nat /\ Times \subseteq Nat
      BY ConstantsAssumption, DaysOfTheClock DEF Times
  <1> QED
      BY <1>1 DEF TypeOK, CheckStates

(* A report is as right about a longer log.                                *)
LEMMA ReportsStand ==
  ASSUME TypeOK, TypeOK', disk \subseteq disk', now <= now', SweepIsRight,
         UNCHANGED report, baseline' = baseline
  PROVE  SweepIsRight'
  <1>1. ReportMatchesLog'
      BY LogGrows DEF SweepIsRight, ReportMatchesLog, Closed, AnchorTs, Fired
  <1>2. DurableFireNotEscalated'
      BY DEF SweepIsRight, DurableFireNotEscalated
  <1>3. TodayIsNeverLabelled'
      BY LogGrows, DaysAreNumbers DEF SweepIsRight, TodayIsNeverLabelled
  <1> QED
      BY <1>1, <1>2, <1>3 DEF SweepIsRight

(* What a checker knows stands while it does nothing.                      *)
LEMMA ChecksStand ==
  ASSUME TypeOK, TypeOK', disk \subseteq disk', now <= now', NEW c \in Checkers,
         check'[c] = check[c], report'[c] = report[c], CheckOf(c)
  PROVE  CheckOf(c)'
  <1>1. check[c].time <= now'
      <2>1. now \in Nat /\ now' \in Nat /\ check[c].time \in Nat
          BY ConstantsAssumption, DaysAreNumbers DEF TypeOK, Times
      <2> QED
          BY <2>1 DEF CheckOf
  <1>2. check[c].cutoff # NoCutoff => check[c].cutoff <= LocalDay(now')
      BY LogGrows, DaysAreNumbers DEF CheckOf
  <1>3. \A d \in check[c].known : d < LocalDay(now')
      BY LogGrows, DaysAreNumbers DEF CheckOf
  <1>4. DaysRead(c)' = DaysRead(c)
      BY DEF DaysRead, Slot
  <1>5. (\A d \in DaysRead(c) : FiredOn(d)') /\ (\A d \in check[c].durable : FiredOn(d)')
      BY LogGrows DEF CheckOf
  <1>6. LocalDay(now)' = LocalDay(now')
      BY DEF LocalDay
  <1> QED
      BY <1>1, <1>2, <1>3, <1>4, <1>5, <1>6 DEF CheckOf, Fired

-----------------------------------------------------------------------------
(* The recorders, the workflow and the clock.                              *)

LEMMA LogStep ==
  ASSUME IInv, TypeOK', disk \subseteq disk', now <= now', UNCHANGED <<check, report, baseline>>,
         FileFirst', RowsHaveFiles'
  PROVE  IInv'
  <1>1. SweepIsRight'
      BY ReportsStand DEF IInv
  <1>2. Checking'
      BY ChecksStand DEF IInv, Checking
  <1> QED
      BY <1>1, <1>2 DEF IInv

(* Recorders that rest, and a table that does, keep what they know.        *)
LEMMA RecordersStand ==
  ASSUME TypeOK, TypeOK', disk \subseteq disk', now <= now'
  PROVE  /\ FileFirst /\ recorder' = recorder => FileFirst'
         /\ RowsHaveFiles /\ db' = db => RowsHaveFiles'
         /\ \A d \in Days : FiredOn(d) => FiredOn(d)'
  <1>1. \A d : FiredOn(d) => FiredOn(d)'
      BY LogGrows
  <1>2. recorder' = recorder => \A w \in Recorders : DayOf(w)' = DayOf(w)
      BY DEF DayOf, Slot
  <1> QED
      BY <1>1, <1>2 DEF FileFirst, RowsHaveFiles, Slot

LEMMA TickStep ==
  ASSUME IInv, Tick
  PROVE  IInv'
  <1>1. /\ now' = now + 1 /\ now < LastTick
        /\ UNCHANGED <<recorder, disk, remote, db, baseline, check, report>>
      BY DEF Tick
  <1>2. now' \in Times /\ now <= now'
      BY <1>1, ConstantsAssumption DEF IInv, TypeOK, Times
  <1>3. TypeOK'
      BY <1>1, <1>2 DEF IInv, TypeOK
  <1> QED
      BY <1>1, <1>2, <1>3, RecordersStand, LogStep DEF IInv

LEMMA PullStep ==
  ASSUME IInv, Pull
  PROVE  IInv'
  <1>1. /\ disk' = disk \cup remote
        /\ UNCHANGED <<now, recorder, remote, db, baseline, check, report>>
      BY DEF Pull
  <1>2. now <= now'
      BY <1>1, DaysAreNumbers DEF IInv
  <1>3. TypeOK'
      BY <1>1 DEF IInv, TypeOK
  <1> QED
      BY <1>1, <1>2, <1>3, RecordersStand, LogStep DEF IInv

LEMMA ActionsFireStep ==
  ASSUME IInv, NEW r \in ActionsRuns, ActionsFire(r)
  PROVE  IInv'
  <1>1. /\ remote' = Linked(remote, [run |-> r, fired |-> now])
        /\ UNCHANGED <<now, recorder, disk, db, baseline, check, report>>
      BY DEF ActionsFire
  <1>2. now <= now' /\ remote' \subseteq Row
      BY <1>1, DaysAreNumbers DEF IInv, TypeOK, Linked, Row, Runs
  <1>3. TypeOK'
      BY <1>1, <1>2 DEF IInv, TypeOK
  <1> QED
      BY <1>1, <1>2, <1>3, RecordersStand, LogStep DEF IInv

(* Linking a row leaves a file of its day, this one or an earlier one.     *)
LEMMA LinkedIs ==
  ASSUME NEW rows \in SUBSET Row, NEW row \in Row
  PROVE  /\ rows \subseteq Linked(rows, row) /\ Linked(rows, row) \subseteq Row
         /\ \E r \in Linked(rows, row) : Slot(r.fired) = Slot(row.fired)
  BY DEF Linked

LEMMA RecordStep ==
  ASSUME IInv, NEW w \in Recorders, NEW r \in BoxRuns, NEW fired \in Times,
         NEW useDb \in BOOLEAN, Record(w, r, fired, useDb)
  PROVE  IInv'
  <1> DEFINE row == [run |-> r, fired |-> fired]
             pc == IF useDb THEN "select" ELSE "skipped"
  <1>1. UNCHANGED <<now, remote, db, baseline, check, report>> /\ now <= now'
      BY DaysAreNumbers DEF Record, IInv
  <1>2. row \in Row
      BY DEF Row, Runs
  <1>3. CASE Slot(fired) \in Weekdays
      <2>1. /\ recorder' = [recorder EXCEPT ![w].row = row, ![w].pc = pc]
            /\ disk' = Linked(disk, row)
          BY <1>3 DEF Record, LinkedFirst
      <2>2. /\ disk \subseteq disk' /\ disk' \subseteq Row
            /\ \E x \in disk' : Slot(x.fired) = Slot(fired)
          BY <1>2, <2>1, LinkedIs DEF IInv, TypeOK
      <2>3. FiredOn(Slot(fired))'
          BY <2>2 DEF FiredOn, LocalDay, Slot
      <2>4. /\ recorder'[w].row = row /\ recorder'[w].pc = pc
            /\ \A v \in Recorders \ {w} : recorder'[v] = recorder[v]
          BY <2>1 DEF IInv, TypeOK
      <2>5. TypeOK'
          <3>1. pc \in {"select", "skipped"}
              OBVIOUS
          <3> DEFINE rec == [recorder[w] EXCEPT !.row = row, !.pc = pc]
                     States == [pc : {"idle", "select", "persist", "persisted", "refused",
                                      "skipped"},
                                row : Row \cup {NoRow}, seen : Row \cup {NoRow}]
          <3> HIDE DEF row, pc
          <3>2. recorder' = [recorder EXCEPT ![w] = rec] /\ recorder \in [Recorders -> States]
              BY <2>1 DEF IInv, TypeOK
          <3>3. rec \in States
              BY <1>2, <3>1, <3>2
          <3>4. recorder' \in [Recorders -> States]
              BY <3>2, <3>3
          <3> QED
              BY <1>1, <2>2, <3>4 DEF IInv, TypeOK
      <2>6. FileFirst'
          <3>1. DayOf(w)' = Slot(fired) /\ \A v \in Recorders \ {w} : DayOf(v)' = DayOf(v)
              BY <2>4 DEF DayOf, Slot
          <3>2. \A d : FiredOn(d) => FiredOn(d)'
              BY <1>1, <2>2, <2>5, LogGrows DEF IInv
          <3> QED
              BY <1>2, <2>3, <2>4, <3>1, <3>2 DEF IInv, FileFirst
      <2> QED
          BY <1>1, <2>2, <2>5, <2>6, RecordersStand, LogStep DEF IInv
  <1>4. CASE Slot(fired) \notin Weekdays
      <2>1. recorder' = [recorder EXCEPT ![w].pc = "refused"] /\ disk' = disk
          BY <1>4 DEF Record
      <2>2. TypeOK'
          BY <1>1, <2>1 DEF IInv, TypeOK
      <2>3. FileFirst'
          BY <1>1, <2>1, <2>2, LogGrows DEF IInv, TypeOK, FileFirst, DayOf, Slot
      <2> QED
          BY <1>1, <2>1, <2>2, <2>3, RecordersStand, LogStep DEF IInv
  <1> QED
      BY <1>3, <1>4

LEMMA SelectStep ==
  ASSUME IInv, NEW w \in Recorders, Select(w)
  PROVE  IInv'
  <1>1. /\ recorder[w].pc = "select"
        /\ recorder' = [recorder EXCEPT ![w].seen = db[DayOf(w)], ![w].pc = "persist"]
        /\ UNCHANGED <<now, disk, remote, db, baseline, check, report>> /\ now <= now'
      BY DaysAreNumbers DEF Select, IInv
  <1>2. DayOf(w) \in Days
      BY <1>1, DaysOfTheClock DEF IInv, FileFirst, DayOf, Row
  <1>3. TypeOK'
      <2> DEFINE seen == db[DayOf(w)]
      <2>1. seen \in Row \cup {NoRow}
          BY <1>2 DEF IInv, TypeOK
      <2> HIDE DEF seen
      <2> QED
          BY <1>1, <2>1 DEF IInv, TypeOK
  <1>4. FileFirst'
      <2>1. \A v \in Recorders : recorder'[v].row = recorder[v].row /\ DayOf(v)' = DayOf(v)
          BY <1>1 DEF IInv, TypeOK, DayOf, Slot
      <2>2. \A v \in Recorders : recorder'[v].pc \in {"select", "persist"}
                                   => recorder[v].pc \in {"select", "persist"}
          BY <1>1 DEF IInv, TypeOK
      <2>3. \A d : FiredOn(d) => FiredOn(d)'
          BY <1>1, <1>3, LogGrows DEF IInv
      <2> QED
          BY <2>1, <2>2, <2>3 DEF IInv, FileFirst
  <1> QED
      BY <1>1, <1>3, <1>4, RecordersStand, LogStep DEF IInv

LEMMA PersistStep ==
  ASSUME IInv, NEW w \in Recorders, Persist(w)
  PROVE  IInv'
  <1>1. /\ recorder[w].pc = "persist"
        /\ recorder' = [recorder EXCEPT ![w].pc = "persisted"]
        /\ db' = db \/ db' = [db EXCEPT ![DayOf(w)] = recorder[w].row]
        /\ UNCHANGED <<now, disk, remote, baseline, check, report>> /\ now <= now'
      BY DaysAreNumbers DEF Persist, IInv
  <1>2. recorder[w].row \in Row /\ FiredOn(DayOf(w))
      BY <1>1 DEF IInv, FileFirst
  <1>3. TypeOK'
      <2> DEFINE row == recorder[w].row
      <2>1. db' \in [Days -> Row \cup {NoRow}]
          <3> HIDE DEF row
          <3>1. row \in Row /\ (db' = db \/ db' = [db EXCEPT ![DayOf(w)] = row])
              BY <1>1, <1>2 DEF row
          <3> QED
              BY <3>1 DEF IInv, TypeOK
      <2>2. recorder' \in [Recorders ->
               [pc : {"idle", "select", "persist", "persisted", "refused", "skipped"},
                row : Row \cup {NoRow}, seen : Row \cup {NoRow}]]
          <3> DEFINE rec == [recorder[w] EXCEPT !.pc = "persisted"]
          <3>1. rec \in [pc : {"idle", "select", "persist", "persisted", "refused", "skipped"},
                          row : Row \cup {NoRow}, seen : Row \cup {NoRow}]
              BY DEF IInv, TypeOK
          <3>2. recorder' = [recorder EXCEPT ![w] = rec]
              BY <1>1
          <3> HIDE DEF rec
          <3> QED
              BY <3>1, <3>2 DEF IInv, TypeOK
      <2> QED
          BY <1>1, <2>1, <2>2 DEF IInv, TypeOK
  <1>4. FileFirst'
      <2>1. \A v \in Recorders : recorder'[v].row = recorder[v].row /\ DayOf(v)' = DayOf(v)
          BY <1>1 DEF IInv, TypeOK, DayOf, Slot
      <2>2. \A v \in Recorders : recorder'[v].pc \in {"select", "persist"}
                                   => recorder[v].pc \in {"select", "persist"}
          BY <1>1 DEF IInv, TypeOK
      <2>3. \A d : FiredOn(d) => FiredOn(d)'
          BY <1>1, <1>3, LogGrows DEF IInv
      <2> QED
          BY <2>1, <2>2, <2>3 DEF IInv, FileFirst
  <1>5. RowsHaveFiles'
      <2>1. Slot(recorder[w].row.fired) = DayOf(w)
          BY DEF DayOf
      <2>2. \A d \in Days : db'[d] = db[d] \/ (d = DayOf(w) /\ db'[d] = recorder[w].row)
          BY <1>1 DEF IInv, TypeOK
      <2>3. \A d : FiredOn(d) => FiredOn(d)'
          BY <1>1, <1>3, LogGrows DEF IInv
      <2> QED
          BY <1>2, <2>1, <2>2, <2>3 DEF IInv, RowsHaveFiles, Slot
  <1> QED
      BY <1>1, <1>3, <1>4, <1>5, LogStep

LEMMA PersistFailsStep ==
  ASSUME IInv, NEW w \in Recorders, PersistFails(w)
  PROVE  IInv'
  <1>1. /\ recorder' = [recorder EXCEPT ![w].pc = "skipped"]
        /\ UNCHANGED <<now, disk, remote, db, baseline, check, report>> /\ now <= now'
      BY DaysAreNumbers DEF PersistFails, IInv
  <1>2. TypeOK'
      BY <1>1 DEF IInv, TypeOK
  <1>3. FileFirst'
      BY <1>1, <1>2, LogGrows DEF IInv, TypeOK, FileFirst, DayOf, Slot
  <1> QED
      BY <1>1, <1>2, <1>3, RecordersStand, LogStep DEF IInv
-----------------------------------------------------------------------------
(* The checkers.                                                           *)

(* One checker goes on; a step that leaves the reports and the baseline    *)
(* alone has to answer for what that checker knows only.                   *)
LEMMA CheckerStep ==
  ASSUME IInv, NEW c \in Checkers, NEW rec \in CheckStates, check' = [check EXCEPT ![c] = rec],
         UNCHANGED <<now, recorder, disk, remote, db, report>>,
         baseline' \subseteq Weekdays, TodayIsNeverLabelled', CheckOf(c)'
  PROVE  IInv'
  <1>1. TypeOK'
      BY DEF IInv, TypeOK
  <1>2. disk \subseteq disk' /\ now <= now'
      BY DaysAreNumbers DEF IInv
  <1>3. FileFirst' /\ RowsHaveFiles'
      BY <1>1, <1>2, RecordersStand DEF IInv
  <1>4. Checking'
      <2>1. \A x \in Checkers \ {c} : check'[x] = check[x] /\ report'[x] = report[x]
          BY DEF IInv, TypeOK
      <2> QED
          BY <1>1, <1>2, <2>1, ChecksStand DEF IInv, Checking
  <1>5. SweepIsRight'
      BY DEF IInv, SweepIsRight, ReportMatchesLog, FiredOn, LocalDay, Closed, AnchorTs,
             Fired, DurableFireNotEscalated
  <1> QED
      BY <1>1, <1>3, <1>4, <1>5 DEF IInv

(* Steps that leave the baseline file alone label nothing.                 *)
LEMMA NothingLabelled ==
  ASSUME IInv, UNCHANGED <<now, baseline>>
  PROVE  baseline' \subseteq Weekdays /\ TodayIsNeverLabelled'
  BY DEF IInv, TypeOK, SweepIsRight, TodayIsNeverLabelled, LocalDay

LEMMA CheckStartStep ==
  ASSUME IInv, NEW c \in Checkers, NEW useDb \in BOOLEAN, NEW cutoff \in Days \cup {NoCutoff},
         CheckStart(c, useDb, cutoff)
  PROVE  IInv'
  <1> DEFINE durable == {Slot(r.fired) : r \in disk}
             rec == [pc |-> "db", time |-> now, useDb |-> useDb, cutoff |-> cutoff, rows |-> {},
                     known |-> {}, durable |-> durable]
  <1>1. /\ check' = [check EXCEPT ![c] = rec]
        /\ cutoff # NoCutoff => cutoff \in 0..Slot(now)
        /\ UNCHANGED <<now, recorder, disk, remote, db, baseline, report>>
      BY DEF CheckStart
  <1>2. durable \subseteq Days /\ \A d \in durable : FiredOn(d)
      BY DaysOfTheClock DEF IInv, TypeOK, Row, FiredOn, LocalDay, Slot
  <1> HIDE DEF durable
  <1>3. rec \in CheckStates
      BY <1>2 DEF CheckStates, IInv, TypeOK
  <1>4. check'[c] = rec
      BY <1>1 DEF IInv, TypeOK
  <1>5. CheckOf(c)'
      <2>1. now <= now /\ Slot(now) \in Nat /\ LocalDay(now) = Slot(now)
          BY DaysAreNumbers, DaysOfTheClock DEF IInv, TypeOK
      <2> QED
          BY <1>1, <1>2, <1>4, <2>1 DEF CheckOf, DaysRead, FiredOn, LocalDay
  <1> QED
      BY <1>1, <1>3, <1>5, NothingLabelled, CheckerStep

LEMMA CheckDbStep ==
  ASSUME IInv, NEW c \in Checkers, NEW up \in BOOLEAN, CheckDb(c, up)
  PROVE  IInv'
  <1> DEFINE rows == IF check[c].useDb /\ up THEN {db[d] : d \in Days} \ {NoRow} ELSE {}
             rec == [check[c] EXCEPT !.pc = "disk", !.rows = rows]
  <1>1. /\ check' = [check EXCEPT ![c] = rec] /\ check[c] \in CheckStates
        /\ UNCHANGED <<now, recorder, disk, remote, db, baseline, report>>
      BY DEF CheckDb, IInv, TypeOK
  <1>2. rows \subseteq Row /\ \A r \in rows : FiredOn(Slot(r.fired))
      BY DEF IInv, TypeOK, RowsHaveFiles
  <1> HIDE DEF rows
  <1>3. /\ rec \in CheckStates /\ rec.pc = "disk" /\ rec.rows = rows
        /\ rec.time = check[c].time /\ rec.cutoff = check[c].cutoff
        /\ rec.known = check[c].known /\ rec.durable = check[c].durable
      BY <1>1, <1>2 DEF CheckStates
  <1> HIDE DEF rec
  <1>4. check'[c] = rec /\ CheckOf(c)
      BY <1>1 DEF IInv, TypeOK, Checking
  <1>5. CheckOf(c)'
      BY <1>1, <1>2, <1>3, <1>4 DEF CheckOf, DaysRead, FiredOn, LocalDay, Slot
  <1> QED
      BY <1>1, <1>3, <1>5, NothingLabelled, CheckerStep

(* Reading the directory shows a checker all that was durable before.      *)
LEMMA CheckDiskStep ==
  ASSUME IInv, NEW c \in Checkers, CheckDisk(c)
  PROVE  IInv'
  <1> DEFINE rec == [check[c] EXCEPT !.pc = "baseline", !.rows = Merged(c)]
  <1>1. /\ check' = [check EXCEPT ![c] = rec] /\ check[c] \in CheckStates
        /\ UNCHANGED <<now, recorder, disk, remote, db, baseline, report>>
      BY DEF CheckDisk, IInv, TypeOK
  <1>2. Merged(c) \subseteq Row
      BY <1>1 DEF Merged, CheckStates, IInv, TypeOK
  <1>3. /\ rec \in CheckStates /\ rec.pc = "baseline" /\ rec.rows = Merged(c)
        /\ rec.time = check[c].time /\ rec.cutoff = check[c].cutoff
        /\ rec.known = check[c].known /\ rec.durable = check[c].durable
      BY <1>1, <1>2 DEF CheckStates
  <1> HIDE DEF rec
  <1>4. check'[c] = rec /\ CheckOf(c)
      BY <1>1 DEF IInv, TypeOK, Checking
  <1>5. \A d : FiredOn(d) => \E r \in Merged(c) : Slot(r.fired) = d
      BY DEF FiredOn, Merged, LocalDay, Slot
  <1>6. \A r \in Merged(c) : FiredOn(Slot(r.fired))
      BY <1>4 DEF CheckOf, DaysRead, Merged, FiredOn, LocalDay, Slot
  <1>7. \A d \in Fired(report[c].buckets) : FiredOn(d)
      BY DEF IInv, SweepIsRight, ReportMatchesLog
  <1>8. CheckOf(c)'
      <2>1. DaysRead(c)' = {Slot(r.fired) : r \in Merged(c)}
          BY <1>3, <1>4 DEF DaysRead, Slot
      <2> QED
          BY <1>1, <1>3, <1>4, <1>5, <1>6, <1>7, <2>1
          DEF CheckOf, FiredOn, LocalDay, Fired
  <1> QED
      BY <1>1, <1>3, <1>8, NothingLabelled, CheckerStep

(* The baseline is read once before the sweep, and again after a label.    *)
LEMMA CheckBaselineStep ==
  ASSUME IInv, NEW c \in Checkers, CheckBaseline(c) \/ CheckReread(c)
  PROVE  IInv'
  <1> DEFINE pc == check'[c].pc
             rec == [check[c] EXCEPT !.known = baseline, !.pc = pc]
  <1>1. /\ check' = [check EXCEPT ![c] = rec] /\ check[c] \in CheckStates
        /\ pc \in {"label", "report"} /\ check[c].pc \in {"baseline", "reread"}
        /\ UNCHANGED <<now, recorder, disk, remote, db, baseline, report>>
      <2>1. check \in [Checkers -> CheckStates]
          BY DEF IInv, TypeOK
      <2>2. CASE CheckBaseline(c)
          BY <2>1, <2>2 DEF CheckBaseline, CheckStates
      <2>3. CASE CheckReread(c)
          BY <2>1, <2>3 DEF CheckReread, CheckStates
      <2> QED
          BY <2>2, <2>3
  <1> HIDE DEF pc
  <1>2. /\ rec \in CheckStates /\ rec.pc = pc /\ rec.rows = check[c].rows
        /\ rec.time = check[c].time /\ rec.cutoff = check[c].cutoff
        /\ rec.known = baseline /\ rec.durable = check[c].durable
      BY <1>1 DEF CheckStates, IInv, TypeOK
  <1> HIDE DEF rec
  <1>3. check'[c] = rec /\ CheckOf(c)
      BY <1>1 DEF IInv, TypeOK, Checking
  <1>4. DaysRead(c)' = DaysRead(c)
      BY <1>2, <1>3 DEF DaysRead, Slot
  <1>5. \A d \in baseline : d < LocalDay(now)
      BY DEF IInv, SweepIsRight, TodayIsNeverLabelled
  <1>6. CheckOf(c)'
      BY <1>1, <1>2, <1>3, <1>4, <1>5 DEF CheckOf, FiredOn, LocalDay, Fired
  <1> QED
      BY <1>1, <1>2, <1>6, NothingLabelled, CheckerStep

(* What a check would report and write.                                    *)
LEMMA ResultIs ==
  ASSUME IInv, NEW c \in Checkers
  PROVE  /\ Result(c) \in Buckets
         /\ Fired(Result(c)) = Closed(check[c].time) \cap DaysRead(c)
         /\ Result(c).missed \cup Result(c).known = Closed(check[c].time) \ DaysRead(c)
         /\ \A d \in Result(c).known : d < LocalDay(now)
  <1>1. CheckOf(c)
      BY DEF IInv, Checking
  <1>2. /\ Result(c) \in Buckets
        /\ Fired(Result(c)) = Closed(check[c].time) \cap DaysRead(c)
        /\ Result(c).missed \cup Result(c).known = Closed(check[c].time) \ DaysRead(c)
        /\ \A d \in Result(c).known : d \in check[c].known \/ BeforeCutoff(d, check[c].cutoff)
      BY SweepIs DEF Result, DaysRead
  <1>3. ASSUME NEW d \in Result(c).known, BeforeCutoff(d, check[c].cutoff)
        PROVE  d < LocalDay(now)
      <2>1. d \in Weekdays
          BY <1>2 DEF Buckets
      <2>2. d \in Nat /\ LocalDay(now) \in Nat
          BY <2>1, ConstantsAssumption, DaysOfTheClock DEF IInv, TypeOK
      <2>3. check[c].cutoff \in Nat /\ d < check[c].cutoff /\ check[c].cutoff <= LocalDay(now)
          BY <1>1, <1>3, DaysAreNumbers DEF BeforeCutoff, CheckOf, IInv
      <2> QED
          BY <2>2, <2>3
  <1> QED
      BY <1>1, <1>2, <1>3 DEF CheckOf

LEMMA CheckLabelStep ==
  ASSUME IInv, NEW c \in Checkers, CheckLabel(c)
  PROVE  IInv'
  <1> DEFINE rec == [check[c] EXCEPT !.pc = "reread"]
  <1>1. /\ check' = [check EXCEPT ![c] = rec] /\ check[c] \in CheckStates
        /\ check[c].pc = "label" /\ baseline' = check[c].known \cup Result(c).known
        /\ UNCHANGED <<now, recorder, disk, remote, db, report>>
      BY DEF CheckLabel, Written, IInv, TypeOK
  <1>2. /\ rec \in CheckStates /\ rec.pc = "reread" /\ rec.rows = check[c].rows
        /\ rec.time = check[c].time /\ rec.cutoff = check[c].cutoff
        /\ rec.known = check[c].known /\ rec.durable = check[c].durable
      BY <1>1 DEF CheckStates
  <1> HIDE DEF rec
  <1>3. check'[c] = rec /\ CheckOf(c)
      BY <1>1 DEF IInv, TypeOK, Checking
  <1>4. DaysRead(c)' = DaysRead(c)
      BY <1>2, <1>3 DEF DaysRead, Slot
  <1>5. CheckOf(c)'
      BY <1>1, <1>2, <1>3, <1>4 DEF CheckOf, FiredOn, LocalDay, Fired
  <1>6. baseline' \subseteq Weekdays /\ TodayIsNeverLabelled'
      BY <1>1, <1>3, ResultIs DEF CheckStates, Buckets, CheckOf, TodayIsNeverLabelled, LocalDay
  <1> QED
      BY <1>1, <1>2, <1>5, <1>6, CheckerStep

LEMMA CheckReportStep ==
  ASSUME IInv, NEW c \in Checkers, CheckReport(c)
  PROVE  IInv'
  <1> DEFINE new == [time |-> check[c].time, buckets |-> Result(c), durable |-> check[c].durable]
  <1>1. /\ check' = [check EXCEPT ![c] = Idle] /\ check[c] \in CheckStates
        /\ report' = [report EXCEPT ![c] = new] /\ check[c].pc = "report"
        /\ UNCHANGED <<now, recorder, disk, remote, db, baseline>>
      BY DEF CheckReport, IInv, TypeOK
  <1>2. CheckOf(c)
      BY DEF IInv, Checking
  <1>3. /\ check'[c] = Idle /\ report'[c] = new
        /\ \A x \in Checkers \ {c} : check'[x] = check[x] /\ report'[x] = report[x]
      BY <1>1 DEF IInv, TypeOK
  <1>4. TypeOK'
      <2>1. Idle \in CheckStates
          BY ConstantsAssumption DEF Idle, CheckStates, Times
      <2>2. new \in [time : Times, buckets : Buckets, durable : SUBSET Days]
          BY <1>1, ResultIs DEF CheckStates
      <2> QED
          BY <1>1, <2>1, <2>2 DEF IInv, TypeOK
  <1>5. disk \subseteq disk' /\ now <= now'
      BY <1>1, DaysAreNumbers DEF IInv
  <1>6. FileFirst' /\ RowsHaveFiles'
      BY <1>1, <1>4, <1>5, RecordersStand DEF IInv
  <1>7. Checking'
      <2>1. CheckOf(c)'
          <3>1. 0 <= now
              BY DaysAreNumbers DEF IInv
          <3> QED
              BY <1>1, <1>3, <3>1 DEF CheckOf, DaysRead, Idle
      <2> QED
          BY <1>3, <1>4, <1>5, <2>1, ChecksStand DEF IInv, Checking
  <1>8. ReportMatchesLog'
      <2>1. \A d : FiredOn(d)' <=> FiredOn(d)
          BY <1>1 DEF FiredOn, LocalDay
      <2>2. /\ \A d \in Fired(Result(c)) : FiredOn(d)
            /\ \A d \in Closed(check[c].time) \ Fired(Result(c)) :
                  d \in Result(c).missed \cup Result(c).known
          BY <1>2, ResultIs DEF CheckOf
      <2>3. \A x \in Checkers \ {c} :
                LET b == report[x].buckets IN
                /\ \A d \in Fired(b) : FiredOn(d)
                /\ \A d \in Closed(report[x].time) \ Fired(b) : d \in b.missed \cup b.known
          BY DEF IInv, SweepIsRight, ReportMatchesLog
      <2>4. \A x \in Checkers :
                LET b == report'[x].buckets IN
                /\ \A d \in Fired(b) : FiredOn(d)
                /\ \A d \in Closed(report'[x].time) \ Fired(b) : d \in b.missed \cup b.known
          BY <1>3, <2>2, <2>3
      <2> QED
          BY <2>1, <2>4 DEF ReportMatchesLog, Fired, Closed, AnchorTs
  <1>9. DurableFireNotEscalated'
      <2>1. (Result(c).missed \cup Result(c).known) \cap check[c].durable = {}
          BY <1>1, <1>2, ResultIs DEF CheckOf
      <2> QED
          BY <1>3, <2>1 DEF IInv, SweepIsRight, DurableFireNotEscalated
  <1>10. TodayIsNeverLabelled'
      BY <1>1, NothingLabelled
  <1> QED
      BY <1>4, <1>6, <1>7, <1>8, <1>9, <1>10 DEF IInv, SweepIsRight

-----------------------------------------------------------------------------
(* Every step keeps the invariant.                                         *)
LEMMA StutterStep ==
  ASSUME IInv, UNCHANGED vars
  PROVE  IInv'
  <1>1. UNCHANGED <<now, recorder, disk, remote, db, baseline, check, report>>
      BY DEF vars
  <1>2. now <= now' /\ TypeOK'
      BY <1>1, DaysAreNumbers DEF IInv, TypeOK
  <1> QED
      BY <1>1, <1>2, RecordersStand, LogStep DEF IInv

LEMMA StepIInv == IInv /\ [Next]_vars => IInv'
  <1> SUFFICES ASSUME IInv, [Next]_vars PROVE IInv'
      OBVIOUS
  <1>1. CASE UNCHANGED vars
      BY <1>1, StutterStep
  <1>2. CASE Tick
      BY <1>2, TickStep
  <1>3. CASE Pull
      BY <1>3, PullStep
  <1>4. ASSUME NEW r \in ActionsRuns, ActionsFire(r) PROVE IInv'
      BY <1>4, ActionsFireStep
  <1>5. ASSUME NEW w \in Recorders, NEW r \in BoxRuns, NEW fired \in Times,
               NEW useDb \in BOOLEAN, Record(w, r, fired, useDb)
        PROVE  IInv'
      BY <1>5, RecordStep
  <1>6. ASSUME NEW w \in Recorders, Select(w) PROVE IInv'
      BY <1>6, SelectStep
  <1>7. ASSUME NEW w \in Recorders, Persist(w) PROVE IInv'
      BY <1>7, PersistStep
  <1>8. ASSUME NEW w \in Recorders, PersistFails(w) PROVE IInv'
      BY <1>8, PersistFailsStep
  <1>9. ASSUME NEW c \in Checkers, NEW useDb \in BOOLEAN, NEW cutoff \in Days \cup {NoCutoff},
               CheckStart(c, useDb, cutoff)
        PROVE  IInv'
      BY <1>9, CheckStartStep
  <1>10. ASSUME NEW c \in Checkers, NEW up \in BOOLEAN, CheckDb(c, up) PROVE IInv'
      BY <1>10, CheckDbStep
  <1>11. ASSUME NEW c \in Checkers, CheckDisk(c) PROVE IInv'
      BY <1>11, CheckDiskStep
  <1>12. ASSUME NEW c \in Checkers, CheckBaseline(c) \/ CheckReread(c) PROVE IInv'
      BY <1>12, CheckBaselineStep
  <1>13. ASSUME NEW c \in Checkers, CheckLabel(c) PROVE IInv'
      BY <1>13, CheckLabelStep
  <1>14. ASSUME NEW c \in Checkers, CheckReport(c) PROVE IInv'
      BY <1>14, CheckReportStep
  <1> QED
      BY <1>1, <1>2, <1>3, <1>4, <1>5, <1>6, <1>7, <1>8, <1>9, <1>10, <1>11, <1>12, <1>13,
         <1>14 DEF Next

(* The inductive invariant holds in every reachable state.                 *)
THEOREM Invariance == Spec => []IInv
  BY InitIInv, StepIInv, PTL DEF Spec

(* The stores, the recorders and the checks keep their shape: a row of the *)
(* table, a label and a report are of days the clock has.                  *)
THEOREM TypeCorrect == Spec => []TypeOK
  <1>1. IInv => TypeOK
      BY DEF IInv
  <1> QED
      BY Invariance, <1>1, PTL

(* An anchor with a row in schedule_heartbeat has a file on the box, for   *)
(* any number of recorders that may die between the two.                   *)
THEOREM DbBacked == Spec => []DbIsBackedByDisk
  <1>1. IInv => DbIsBackedByDisk
      BY DEF IInv, RowsHaveFiles, DbIsBackedByDisk
  <1> QED
      BY Invariance, <1>1, PTL

(* A report agrees with the log on silence, escalates no fire that was     *)
(* durable when the check began, and no label hides the current day, for   *)
(* any number of recorders, pulls and checks at a time.                    *)
THEOREM SweepCorrect == Spec => []SweepIsRight
  <1>1. IInv => SweepIsRight
      BY DEF IInv
  <1> QED
      BY Invariance, <1>1, PTL

-----------------------------------------------------------------------------
(* What a report and the baseline remember.                                *)

LEMMA ReportKeeps ==
  ASSUME IInv, [Next]_vars, NEW c \in Checkers, report'[c] # report[c],
         NEW d \in Fired(report[c].buckets), d \in Closed(report'[c].time)
  PROVE  d \in Fired(report'[c].buckets)
  <1>1. PICK x \in Checkers : CheckReport(x)
      <2>1. ~UNCHANGED vars
          BY DEF vars
      <2> QED
          BY <2>1 DEF Next, Tick, Pull, Select, Persist, PersistFails, Record, ActionsFire,
             CheckStart, CheckDb, CheckDisk, CheckBaseline, CheckLabel, CheckReread
  <1>2. /\ x = c /\ check[c].pc = "report"
        /\ report'[c] = [time |-> check[c].time, buckets |-> Result(c),
                         durable |-> check[c].durable]
      BY <1>1 DEF CheckReport, IInv, TypeOK
  <1>3. d \in DaysRead(c)
      BY <1>2 DEF IInv, Checking, CheckOf
  <1> QED
      BY <1>2, <1>3, ResultIs

(* What a check reported as fired it reports as fired as long as the       *)
(* anchor is in its lookback, with the database or without it.             *)
THEOREM FiresStay == Spec => FireStaysFired
  <1>1. IInv /\ [Next]_vars => [\A c \in Checkers :
             report'[c] # report[c] =>
                \A d \in Fired(report[c].buckets) :
                   d \in Closed(report'[c].time) => d \in Fired(report'[c].buckets)]_vars
      BY ReportKeeps
  <1> QED
      BY <1>1, Invariance, PTL DEF Spec, FireStaysFired

(* The labels of a check are lost only to another check.                   *)
LEMMA LabelsReadStep ==
  ASSUME \A c, d \in Checkers : c = d, IInv, LabelsRead, [Next]_vars
  PROVE  LabelsRead' /\ baseline \subseteq baseline'
  <1>1. ASSUME NEW c \in Checkers, CheckLabel(c)
        PROVE  LabelsRead' /\ baseline \subseteq baseline'
      <2>1. /\ check[c].pc = "label" /\ check' = [check EXCEPT ![c].pc = "reread"]
            /\ baseline' = check[c].known \cup Result(c).known
          BY <1>1 DEF CheckLabel, Written
      <2>2. check'[c].pc = "reread"
          BY <2>1 DEF IInv, TypeOK, CheckStates
      <2> QED
          BY <2>1, <2>2 DEF LabelsRead
  <1>2. ASSUME NEW c \in Checkers, CheckBaseline(c)
        PROVE  LabelsRead' /\ baseline' = baseline
      <2>1. baseline' = baseline /\ check'[c].known = baseline
          BY <1>2 DEF CheckBaseline, IInv, TypeOK, CheckStates
      <2> QED
          BY <2>1 DEF LabelsRead
  <1>3. ASSUME NEW c \in Checkers, baseline' = baseline,
               check'[c].pc # "label"
        PROVE  LabelsRead'
      BY <1>3 DEF LabelsRead
  <1>4. ASSUME NEW c \in Checkers, NEW useDb \in BOOLEAN, NEW cutoff \in Days \cup {NoCutoff},
               CheckStart(c, useDb, cutoff)
        PROVE  check'[c].pc # "label" /\ baseline' = baseline
      BY <1>4 DEF CheckStart, IInv, TypeOK
  <1>5. ASSUME NEW c \in Checkers, NEW up \in BOOLEAN, CheckDb(c, up)
        PROVE  check'[c].pc # "label" /\ baseline' = baseline
      BY <1>5 DEF CheckDb, IInv, TypeOK, CheckStates
  <1>6. ASSUME NEW c \in Checkers, CheckDisk(c) \/ CheckReread(c) \/ CheckReport(c)
        PROVE  check'[c].pc # "label" /\ baseline' = baseline
      BY <1>6 DEF CheckDisk, CheckReread, CheckReport, Idle, IInv, TypeOK, CheckStates
  <1>7. ASSUME check' = check, baseline' = baseline
        PROVE  LabelsRead'
      BY <1>7 DEF LabelsRead
  <1>8. CASE UNCHANGED vars
      BY <1>7, <1>8 DEF vars
  <1>9. CASE Tick \/ Pull \/ \E r \in ActionsRuns : ActionsFire(r)
      BY <1>7, <1>9 DEF Tick, Pull, ActionsFire
  <1>10. ASSUME NEW w \in Recorders,
                \/ Select(w) \/ Persist(w) \/ PersistFails(w)
                \/ \E r \in BoxRuns, fired \in Times, useDb \in BOOLEAN : Record(w, r, fired, useDb)
         PROVE  LabelsRead' /\ baseline' = baseline
      BY <1>7, <1>10 DEF Select, Persist, PersistFails, Record
  <1> QED
      BY <1>1, <1>2, <1>3, <1>4, <1>5, <1>6, <1>8, <1>9, <1>10 DEF Next, Tick, Pull, ActionsFire,
         vars

(* With one check at a time neither the reports nor the baseline forgets:  *)
(* write_known_missed_baseline replaces the file by a union with what the  *)
(* check read, so that no other check may write in between.                *)
THEOREM LogIsKept ==
  ASSUME \A c, d \in Checkers : c = d
  PROVE  Spec => LogOnlyGrows
  <1>1. Init => LabelsRead
      BY DEF Init, LabelsRead, Idle
  <1>2. IInv /\ LabelsRead /\ [Next]_vars => LabelsRead'
      BY LabelsReadStep
  <1>3. IInv /\ LabelsRead /\ [Next]_vars => [baseline \subseteq baseline']_vars
      BY LabelsReadStep
  <1>4. Spec => LabelsKept
      BY <1>1, <1>2, <1>3, Invariance, PTL DEF Spec, LabelsKept
  <1> QED
      BY <1>4, FiresStay DEF LogOnlyGrows
=============================================================================
