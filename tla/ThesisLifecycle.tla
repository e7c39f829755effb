-------------------------- MODULE ThesisLifecycle --------------------------
(* One thesis workspace, research/YYYY/THESIS-XXXX/, under the commands      *)
(*   lab thesis new | link-evidence | advance                                *)
(*   lab skeptic open | record                                               *)
(*   lab paper open | close                                                  *)
(* of packages/research_kit, packages/paper and apps/lab-cli, and the rows   *)
(* of thesis, thesis_evidence and paper_trade that index it in Postgres.     *)
(*                                                                           *)
(* A command is a program: the sequence of gates, file writes and commits    *)
(* its code goes through. A process runs one command at a time, one step of  *)
(* its program per action; it may be killed, or raise, between two steps.    *)
(* The files are not transactional, and only `lab thesis advance` holds its  *)
(* row in Postgres while it writes them.                                     *)
EXTENDS Naturals, Sequences, FiniteSets, SequencesExt

CONSTANTS
    Procs,     \* concurrent invocations of the CLI
    Trades,    \* ids that `lab paper open` may draw
    NoFile,    \* a file that is not there
    NoRow,     \* a row that is not there
    MayDie     \* whether a command may be killed or raise in the middle

ASSUME AbsentIsNoStatus ==
    {NoFile, NoRow} \cap
        {"draft", "in_research", "in_skeptic", "paper", "rejected", "retired",
         "pass", "revise", "reject", "none", "open", "closed"} = {}
ASSUME MayDieIsBoolean == MayDie \in BOOLEAN

VARIABLES
    intent,    \* Status of intent.md
    thesis,    \* Status / version of thesis.md
    plan,      \* whether research-plan.md exists
    links,     \* whether evidence/links.md lists an observation
    review,    \* Verdict of skeptic-review.md
    paper,     \* what paper/ holds of each trade
    row,       \* status of the thesis row
    linked,    \* whether the thesis has a row in thesis_evidence
    trades,    \* status of each trade's row in paper_trade
    todo       \* the steps each process has left

files == <<intent, thesis, plan, links, review, paper>>
rows == <<row, linked, trades>>
vars == <<files, rows, todo>>

----------------------------------------------------------------------------
(* The status machine                                                        *)

Statuses == {"draft", "in_research", "in_skeptic", "paper", "rejected", "retired"}
Verdicts == {"pass", "revise", "reject"}

\* Rejected and retired have no way out; "live" is refused by every gate.
Transitions ==
    {"draft"} \X {"in_research", "rejected"}
      \cup {"in_research"} \X {"in_skeptic", "rejected", "draft"}
      \cup {"in_skeptic"} \X {"in_research", "rejected", "retired", "paper"}
      \cup {"paper"} \X {"rejected", "retired"}

\* Mutant: read_status without its fallback.
StatusOfThesis == thesis

\* thesis.md has the last word; before it exists intent.md has.
Status == IF thesis # NoFile THEN thesis ELSE intent

\* Some file of paper/ names an invalidation and a max loss. The markdown is
\* first a copy of the template, which names neither.
PaperComplete == \E t \in Trades : paper[t] \in {"filled", "open", "closed"}

\* Mutant: the gate of paper without the verdict.
PaperReadyUnreviewed == links /\ PaperComplete

PaperReady == review = "pass" /\ links /\ PaperComplete

\* Marking a thesis with the status it has repeats the gate of that status
\* and asks nothing else.
CanMark(s) ==
    /\ s = Status \/ <<Status, s>> \in Transitions
    /\ s \in {"in_research", "in_skeptic"} /\ s # Status => thesis # NoFile
    /\ s = "in_skeptic" => links
    /\ s = "in_skeptic" /\ s # Status => plan
    /\ s = "paper" => PaperReady

----------------------------------------------------------------------------
(* The programs                                                              *)

Do(op, to) == [op |-> op, to |-> to]

\* advance_status: gate, then every file that carries the status. Nobody
\* reads the status research-plan.md carries, so that write is left out.
AdvanceTo(s) == <<Do("gate", s), Do("mark thesis", s), Do("mark intent", s)>>

\* Each file is a copy of its template before it is filled in.
NewFiles ==
    << Do("intent", "draft"), Do("intent", "in_research"),
       Do("thesis", "draft"), Do("thesis", "in_research"),
       Do("plan", NoFile), Do("empty links", NoFile), Do("review", NoFile) >>

NewTrade(t) ==
    << Do("blank", t), Do("filled", t), Do("open", t), Do("advance unless", "paper") >>

InsertTrade(t) == << Do("insert", t) >>

\* Mutant: the row before the artifact.
CloseRowFirst(t, db) ==
    (IF db THEN << Do("settle", t) >> ELSE << >>) \o << Do("closed", t) >>

\* The close of the artifact, then of its row.
CloseTrade(t, db) ==
    << Do("closed", t) >> \o (IF db THEN << Do("settle", t) >> ELSE << >>)

\* The upsert of the thesis row, with a status the command knows or, for
\* NoFile, with the one it reads from the workspace just before.
Index(s, db) == IF db THEN << Do("index", s) >> ELSE << >>

Start(p, program) ==
    /\ todo[p] = << >>
    /\ todo' = [todo EXCEPT ![p] = program]
    /\ UNCHANGED <<files, rows>>

\* A workspace of its own, or the one of an intent written before.
ThesisNew(p) == \E db \in BOOLEAN :
    /\ thesis = NoFile
    /\ Start(p, NewFiles \o Index("in_research", db))

\* With a session, the row of thesis_evidence is committed with the upsert.
LinkEvidence(p) == \E db \in BOOLEAN :
    /\ intent # NoFile
    /\ Start(p, << Do("link", NoFile) >> \o (IF db THEN << Do("index link", NoFile) >> ELSE << >>))

\* With a session, the thesis row is upserted first and stays locked until
\* the status event and the new status are committed.
ThesisAdvance(p) == \E s \in Statuses :
    /\ intent # NoFile
    /\ \/ Start(p, AdvanceTo(s))
       \/ Start(p, << Do("lock", NoFile) >> \o AdvanceTo(s) \o << Do("save", s) >>)

SkepticOpen(p) == \E db \in BOOLEAN :
    /\ intent # NoFile
    /\ links
    /\ Start(p, AdvanceTo("in_skeptic") \o << Do("stamp", NoFile) >> \o Index("in_skeptic", db))

\* What a verdict does to the status. A revise of a thesis that is not in
\* skeptic, and a reject of a rejected one, leave it alone.
VerdictMoves(v) ==
    CASE v = "pass" -> AdvanceTo("in_skeptic")
      [] v = "revise" /\ Status = "in_skeptic" -> AdvanceTo("in_research")
      [] v = "reject" /\ Status # "rejected" -> AdvanceTo("rejected")
      [] OTHER -> << >>

SkepticRecord(p) == \E v \in Verdicts, db \in BOOLEAN :
    /\ intent # NoFile
    /\ Status = "rejected" => v = "reject"
    /\ v = "pass" => links
    /\ Start(p, VerdictMoves(v) \o << Do("verdict", v) >> \o Index(NoFile, db))

\* A fresh id: no file and no running command has it.
Unused(t) ==
    paper[t] = "none" /\ \A q \in Procs : ~ Contains(todo[q], Do("blank", t))

PaperOpen(p) == \E t \in Trades, db \in BOOLEAN :
    /\ intent # NoFile
    /\ Unused(t)
    /\ review = "pass"
    /\ Start(p, NewTrade(t) \o (IF db THEN InsertTrade(t) ELSE << >>))

PaperClose(p) == \E t \in Trades, db \in BOOLEAN :
    /\ paper[t] = "open"
    /\ Start(p, CloseTrade(t, db))

----------------------------------------------------------------------------
(* The steps                                                                 *)

At(p, ops) == todo[p] # << >> /\ Head(todo[p]).op \in ops
To(p) == Head(todo[p]).to
Continue(p) == todo' = [todo EXCEPT ![p] = Tail(@)]
Stop(p) == todo' = [todo EXCEPT ![p] = << >>]

Gate(p) ==
    /\ At(p, {"gate"})
    /\ IF CanMark(To(p)) THEN Continue(p) ELSE Stop(p)
    /\ UNCHANGED <<files, rows>>

\* A paper trade on a thesis that is in paper already passes no gate.
AdvanceUnless(p) ==
    /\ At(p, {"advance unless"})
    /\ todo' = [todo EXCEPT ![p] =
                   (IF Status = To(p) THEN << >> ELSE AdvanceTo(To(p))) \o Tail(@)]
    /\ UNCHANGED <<files, rows>>

WriteThesis(p) ==
    /\ At(p, {"thesis", "mark thesis"})
    /\ thesis' = IF At(p, {"mark thesis"}) /\ thesis = NoFile THEN NoFile ELSE To(p)
    /\ Continue(p)
    /\ UNCHANGED <<intent, plan, links, review, paper, rows>>

WriteIntent(p) ==
    /\ At(p, {"intent", "mark intent"})
    /\ intent' = To(p)
    /\ Continue(p)
    /\ UNCHANGED <<thesis, plan, links, review, paper, rows>>

WritePlan(p) ==
    /\ At(p, {"plan"})
    /\ plan' = TRUE
    /\ Continue(p)
    /\ UNCHANGED <<intent, thesis, links, review, paper, rows>>

WriteLinks(p) ==
    /\ At(p, {"empty links", "link"})
    /\ links' = At(p, {"link"})
    /\ Continue(p)
    /\ UNCHANGED <<intent, thesis, plan, review, paper, rows>>

NewReview(p) ==
    /\ At(p, {"review"})
    /\ review' = "none"
    /\ Continue(p)
    /\ UNCHANGED <<intent, thesis, plan, links, paper, rows>>

\* Opening a review stamps the reviewer and leaves the verdict it finds;
\* without the file the command stops, the status being advanced already.
WriteReview(p) ==
    /\ At(p, {"stamp", "verdict"})
    /\ IF review = NoFile THEN Stop(p) ELSE Continue(p)
    /\ review' = IF At(p, {"verdict"}) /\ review # NoFile THEN To(p) ELSE review
    /\ UNCHANGED <<intent, thesis, plan, links, paper, rows>>

WritePaper(p) ==
    /\ At(p, {"blank", "filled", "open", "closed"})
    /\ paper' = [paper EXCEPT ![To(p)] = Head(todo[p]).op]
    /\ Continue(p)
    /\ UNCHANGED <<intent, thesis, plan, links, review, rows>>

----------------------------------------------------------------------------
(* Postgres                                                                  *)

HoldsRow(p) ==
    todo[p] # << >> /\ Last(todo[p]).op = "save" /\ Head(todo[p]).op # "lock"
RowIsFree(p) == \A q \in Procs \ {p} : ~ HoldsRow(q)

LockRow(p) ==
    /\ At(p, {"lock"})
    /\ RowIsFree(p)
    /\ Continue(p)
    /\ UNCHANGED <<files, rows>>

UpsertThesis(p) ==
    /\ At(p, {"index", "index link", "save"})
    /\ RowIsFree(p)
    /\ row' = IF To(p) = NoFile THEN Status ELSE To(p)
    /\ linked' = (linked \/ At(p, {"index link"}))
    /\ Continue(p)
    /\ UNCHANGED <<files, trades>>

\* A thesis without a row refuses the trade, whose files stay.
InsertRow(p) ==
    /\ At(p, {"insert"})
    /\ RowIsFree(p)
    /\ Continue(p)
    /\ IF row = NoRow
       THEN UNCHANGED <<row, trades>>
       ELSE /\ row' = Status
            /\ trades' = [trades EXCEPT ![To(p)] = "open"]
    /\ UNCHANGED <<files, linked>>

\* A trade without a row is an unknown id.
SettleRow(p) ==
    /\ At(p, {"settle"})
    /\ Continue(p)
    /\ trades' = [trades EXCEPT ![To(p)] = IF @ = NoRow THEN NoRow ELSE "closed"]
    /\ UNCHANGED <<files, row, linked>>

\* A kill, an exception, a lost database: the transaction rolls back, the
\* files stay as they are.
Die(p) ==
    /\ MayDie
    /\ todo[p] # << >>
    /\ Stop(p)
    /\ UNCHANGED <<files, rows>>

----------------------------------------------------------------------------
\* An empty folder, or one in which a person has written the intent.
Init ==
    /\ intent \in {NoFile, "draft"}
    /\ thesis = NoFile
    /\ plan = FALSE
    /\ links = FALSE
    /\ review = NoFile
    /\ paper = [t \in Trades |-> "none"]
    /\ row = NoRow
    /\ linked = FALSE
    /\ trades = [t \in Trades |-> NoRow]
    /\ todo = [p \in Procs |-> << >>]

Command(p) ==
    \/ ThesisNew(p) \/ LinkEvidence(p) \/ ThesisAdvance(p)
    \/ SkepticOpen(p) \/ SkepticRecord(p) \/ PaperOpen(p) \/ PaperClose(p)

Step(p) ==
    \/ Gate(p) \/ AdvanceUnless(p) \/ WriteThesis(p) \/ WriteIntent(p)
    \/ WritePlan(p) \/ WriteLinks(p) \/ NewReview(p) \/ WriteReview(p)
    \/ WritePaper(p) \/ LockRow(p) \/ UpsertThesis(p) \/ InsertRow(p) \/ SettleRow(p)

Next == \E p \in Procs : Command(p) \/ Step(p) \/ Die(p)

Spec == Init /\ [][Next]_vars

----------------------------------------------------------------------------
(* Properties                                                                *)

Ops ==
    {"gate", "advance unless", "thesis", "mark thesis", "intent", "mark intent",
     "plan", "empty links", "link", "review", "stamp", "verdict",
     "blank", "filled", "open", "closed",
     "lock", "index", "index link", "save", "insert", "settle"}
Steps == [op : Ops, to : Statuses \cup Verdicts \cup Trades \cup {NoFile}]

\* Every file holds what its writers put there, and no status is ever "live":
\* the gate of advance_status, the fallback of read_status and the status
\* column of the thesis row agree on the six statuses in use.
TypeOK ==
    /\ intent \in Statuses \cup {NoFile}
    /\ thesis \in Statuses \cup {NoFile}
    /\ plan \in BOOLEAN
    /\ links \in BOOLEAN
    /\ review \in Verdicts \cup {"none", NoFile}
    /\ paper \in [Trades -> {"none", "blank", "filled", "open", "closed"}]
    /\ row \in Statuses \cup {NoRow}
    /\ linked \in BOOLEAN
    /\ trades \in [Trades -> {NoRow, "open", "closed"}]
    /\ todo \in [Procs -> Seq(Steps)]

\* However commands are cut short, the workspace they leave has no artifact
\* without its predecessor and no skeptic or paper status without evidence:
\* what check_workspace (scripts/check-lifecycle.sh) refuses on these grounds.
PredecessorGates ==
    /\ thesis # NoFile => intent # NoFile
    /\ plan => thesis # NoFile
    /\ review # NoFile => plan
    /\ (\E t \in Trades : paper[t] # "none") => review # NoFile
    /\ Status \in {"in_skeptic", "paper"} => links

\* thesis.md enters paper only while the recorded verdict is a pass, evidence
\* is linked and a paper artifact is complete, also when an earlier command
\* died between its writes or left a trade behind (_assert_paper_ready).
PaperNeedsPass ==
    [][thesis' = "paper" /\ thesis # "paper"
          => review = "pass" /\ links /\ PaperComplete]_vars

\* thesis.md only ever moves along ALLOWED_TRANSITIONS, in particular never
\* out of rejected or retired, also when a rerun finds the files of a command
\* that died halfway.
ThesisFollowsGraph ==
    [][thesis' # thesis => thesis = NoFile \/ <<thesis, thesis'>> \in Transitions]_vars

\* A trade has a row only if its thesis has been indexed as paper, and the
\* thesis row never goes back to a research status after that.
TradeRowsArePaper ==
    (\E t \in Trades : trades[t] # NoRow) => row \in {"paper", "rejected", "retired"}

\* Postgres never runs ahead of git: the row of a trade is closed only if its
\* artifact is, and open only if its artifact was written.
LedgerFollowsFiles == \A t \in Trades :
    /\ trades[t] = "open" => paper[t] \in {"open", "closed"}
    /\ trades[t] = "closed" => paper[t] = "closed"

----------------------------------------------------------------------------
(* What the documents say and the code does not do                           *)

\* "Revival requires a new intent, not a silent reopen." What is rejected
\* stays rejected.
RejectedStays == [][Status = "rejected" => Status' = "rejected"]_vars

(* The rows of Postgres never say more than the files of the workspace.    *)
IndexFollowsWorkspace == TradeRowsArePaper /\ LedgerFollowsFiles

(* However commands are cut short, a workspace has no artifact without its *)
(* predecessor, and the rows of Postgres never say more than its files.    *)
WorkspaceIsOrdered == PredecessorGates /\ IndexFollowsWorkspace

(* thesis.md moves along the graph of its statuses, and into paper only    *)
(* past a passed review, evidence and a complete artifact.                 *)
StatusIsEarned == PaperNeedsPass /\ ThesisFollowsGraph
=============================================================================
