--------------------------- MODULE SydneyMorning ---------------------------
(***************************************************************************)
(* The morning workflow (.github/workflows/hybrid-sydney-morning.yml) and  *)
(* the Python it calls: a trigger queues a run in the one concurrency      *)
(* group; the run stamps a completion row for the Sydney anchor of the day *)
(* and pushes it to its branch; a second job checks the branch for a       *)
(* deliver receipt, composes the brief, pings the dead-man URL, POSTs the  *)
(* DM chunk by chunk, pings again, writes the receipt and pushes it.       *)
(*                                                                         *)
(* A run is a GitHub run id.  An anchor is identified with its local day:  *)
(* the catalogue has one 06:30 anchor per weekday.  The branch tips, the   *)
(* Principal's chat and the ping vendor outlive a run; everything else of  *)
(* a run (checkout, local commit, dedupe store) is lost with its runner.   *)
(***************************************************************************)
EXTENDS Naturals, FiniteSets

CONSTANTS
    Runs,          \* GitHub run ids
    NoRun,         \* no run
    Branches,      \* branches the workflow can be run on
    MainBranch,    \* the default branch, where the crons fire
    LastDay,       \* bound: local days 1..LastDay
    Weekdays,      \* days on which the routine is scheduled
    Chunks,        \* sendMessage chunks of one DM
    MaxAttempts,   \* attempts of one POST (telegram.yaml: 2)
    MaxPush,       \* attempts of one push loop (the workflow: 5)
    MaxReruns      \* bound: manual re-runs of one run

Days == 1..LastDay

ASSUME ConstantsAssumption ==
    /\ NoRun \notin Runs
    /\ MainBranch \in Branches
    /\ LastDay \in Nat \ {0}
    /\ Weekdays \subseteq Days
    /\ Chunks \in Nat \ {0}
    /\ MaxAttempts \in Nat \ {0}
    /\ MaxPush \in Nat \ {0}
    /\ MaxReruns \in Nat

VARIABLES
    day,       \* the local day
    active,    \* the runs in progress
    pending,   \* the one run waiting behind them
    pc,        \* step each run is at, or how it ended
    job,       \* inputs and job outputs of each run
    net,       \* scratch of the loop each run is in
    stamps,    \* completion rows on each branch tip: pairs <<anchor, run>>
    receipts,  \* per branch and anchor, the run whose receipt is on the tip
    chat,      \* every chunk Telegram put into the Principal's DM
    vendor     \* anchors whose start / success ping the vendor received

vars == <<day, active, pending, pc, job, net, stamps, receipts, chat, vendor>>

(* "send" is a schedule fire or a dispatch with i_mean_it_deliver; "stamp" *)
(* is a dispatch without it; "proof" is capture_proof or render_proof.     *)
Modes == {"send", "stamp", "proof"}

Steps == {"proof", "stamp", "pushStamp", "gate", "brief", "startPing",
          "post", "successPing", "pushReceipt"}
Green == {"stamp_only", "soft_skip", "already_delivered", "delivered"}
Ended == Green \cup {"proved", "failed", "cancelled"}

Job == [mode: Modes, branch: Branches, anchor: Days \cup {0},
        stamped: BOOLEAN, reruns: 0..MaxReruns]
Net == [push: 0..MaxPush, landed: BOOLEAN, greeted: BOOLEAN,
        chunk: 1..(Chunks + 1), try: 0..MaxAttempts]
FreshNet == [push |-> 0, landed |-> FALSE, greeted |-> FALSE,
             chunk |-> 1, try |-> 0]

(* One accepted sendMessage.  "attempt" is the run attempt, "missing" says *)
(* whether the text carries the DEADMAN: MISSING line.                     *)
Message == [branch: Branches, anchor: Days, run: Runs, attempt: 0..MaxReruns,
            chunk: 1..Chunks, try: 1..MaxAttempts, missing: BOOLEAN]

TypeOK ==
    /\ day \in Days
    /\ active \subseteq Runs
    /\ pending \in Runs \cup {NoRun}
    /\ pc \in [Runs -> {"idle", "queued"} \cup Steps \cup Ended]
    /\ job \in [Runs -> Job]
    /\ net \in [Runs -> Net]
    /\ stamps \in [Branches -> SUBSET (Days \X Runs)]
    /\ receipts \in [Branches -> [Days -> Runs \cup {NoRun}]]
    /\ chat \subseteq Message
    /\ vendor \in [start: SUBSET Days, success: SUBSET Days]

Init ==
    /\ day = 1
    /\ active = {}
    /\ pending = NoRun
    /\ pc = [r \in Runs |-> "idle"]
    /\ job = [r \in Runs |-> [mode |-> "send", branch |-> MainBranch,
                              anchor |-> 0, stamped |-> FALSE, reruns |-> 0]]
    /\ net = [r \in Runs |-> FreshNet]
    /\ stamps = [b \in Branches |-> {}]
    /\ receipts = [b \in Branches |-> [d \in Days |-> NoRun]]
    /\ chat = {}
    /\ vendor = [start |-> {}, success |-> {}]

Anchor(r) == job[r].anchor
Branch(r) == job[r].branch
Receipt(r) == receipts[Branch(r)][Anchor(r)]

-----------------------------------------------------------------------------
(* The concurrency group: a run starts when none is in progress, and one   *)
(* waits.  GitHub cancels the pending run when another one is queued.      *)

(* Mutant: no concurrency group, a queued run starts at once.              *)
GroupIgnored == TRUE

GroupFree == active = {}

(* A free group takes its pending run before anything else is queued.      *)
Enqueue(r) ==
    /\ GroupFree => pending = NoRun
    /\ pending' = r
    /\ pc' = [x \in Runs |-> IF x = r THEN "queued"
                             ELSE IF x = pending THEN "cancelled" ELSE pc[x]]
    /\ UNCHANGED <<day, active, net, stamps, receipts, chat, vendor>>

(* A cron, the host's dispatch, its retry, or a person starts run r.       *)
Trigger(r, m, b) ==
    /\ pc[r] = "idle"
    /\ Enqueue(r)
    /\ job' = [job EXCEPT ![r].mode = m, ![r].branch = b]

(* "Re-run all jobs" and "Re-run failed jobs" keep the run id.  The second *)
(* reuses the outputs of a stamp job that succeeded.                       *)
Rerun(r, all) ==
    /\ pc[r] \in Ended
    /\ ~all => pc[r] = "failed" /\ job[r].stamped
    /\ job[r].reruns < MaxReruns
    /\ Enqueue(r)
    /\ job' = [job EXCEPT ![r].reruns = @ + 1, ![r].stamped = ~all]

StartPending ==
    /\ GroupFree /\ pending # NoRun
    /\ active' = active \cup {pending}
    /\ pending' = NoRun
    /\ pc' = [pc EXCEPT ![pending] =
                IF job[pending].mode = "proof" THEN "proof"
                ELSE IF job[pending].stamped THEN "gate" ELSE "stamp"]
    /\ net' = [net EXCEPT ![pending] = FreshNet]
    /\ UNCHANGED <<day, job, stamps, receipts, chat, vendor>>

At(r, step) == r \in active /\ pc[r] = step

Goto(r, step) == pc' = [pc EXCEPT ![r] = step] /\ UNCHANGED active

(* Mutant: a run that failed keeps the group.                              *)
EndLeaksGroup(r, how) ==
    /\ pc' = [pc EXCEPT ![r] = how]
    /\ active' = IF how = "failed" THEN active ELSE active \ {r}

End(r, how) == pc' = [pc EXCEPT ![r] = how] /\ active' = active \ {r}

-----------------------------------------------------------------------------
(* Job stage1-stamp.                                                       *)

(* lab schedule heartbeat: the anchor is the slot of the fire's local day; *)
(* an unscheduled weekday raises WrongAnchorError and writes no row.       *)
Stamp(r) ==
    /\ At(r, "stamp")
    /\ IF day \in Weekdays
         THEN /\ job' = [job EXCEPT ![r].anchor = day]
              /\ Goto(r, "pushStamp")
         ELSE /\ UNCHANGED job
              /\ End(r, "failed")
    /\ UNCHANGED <<day, pending, net, stamps, receipts, chat, vendor>>

(* Mutants: exit 0 after the last attempt; no last attempt.                *)
PushExhaustedExitsZero(r) ==
    IF pc[r] = "pushStamp" THEN Goto(r, "gate") ELSE End(r, "delivered")
PushRetriesForever(r) == UNCHANGED <<pc, active>>

(* After the last attempt the job exits 1, whether or not one landed.      *)
PushExhausted(r) == End(r, "failed")

(* One attempt of "git push || git pull --rebase".  landed says this job's *)
(* commit is on the tip already (an earlier attempt whose answer was       *)
(* lost): the next push is then up to date.  taken says the tip has that   *)
(* path from another commit: the rebase conflicts and every attempt fails. *)
PushAttempt(r, accepted, acked, taken, onAck) ==
    /\ accepted => net[r].landed \/ ~taken
    /\ acked => accepted
    /\ net' = [net EXCEPT ![r].push = @ + 1,
                          ![r].landed = net[r].landed \/ accepted]
    /\ \/ acked /\ onAck
       \/ ~acked /\ net[r].push + 1 < MaxPush /\ UNCHANGED <<pc, active>>
       \/ ~acked /\ net[r].push + 1 = MaxPush /\ PushExhausted(r)

(* The checkout of this job is the event's commit, older than any stamp of *)
(* an earlier attempt of the same run.                                     *)
PushStamp(r, accepted, acked) ==
    /\ At(r, "pushStamp")
    /\ PushAttempt(r, accepted, acked, <<Anchor(r), r>> \in stamps[Branch(r)],
                   IF job[r].mode = "send" THEN Goto(r, "gate")
                                           ELSE End(r, "stamp_only"))
    /\ stamps' = IF accepted
                   THEN [stamps EXCEPT ![Branch(r)] = @ \cup {<<Anchor(r), r>>}]
                   ELSE stamps
    /\ job' = [job EXCEPT ![r].stamped = acked]
    /\ UNCHANGED <<day, pending, receipts, chat, vendor>>

-----------------------------------------------------------------------------
(* Job brief-and-deliver.                                                  *)

(* Mutant: the start ping is sent without its /start suffix.               *)
HeardWithoutSuffix(r, kind, heard) ==
    vendor' = IF heard THEN [vendor EXCEPT !.success = @ \cup {Anchor(r)}]
                       ELSE vendor

(* A ping the vendor received; ping_deadman never raises.                  *)
Heard(r, kind, heard) ==
    vendor' = IF heard THEN [vendor EXCEPT ![kind] = @ \cup {Anchor(r)}]
                       ELSE vendor

(* Mutant: the gate looks at the commit the run was queued with.           *)
GateReadsQueuedCommit(r) == NoRun

(* decide_deliver on the branch tip fetched by this job, not on the commit *)
(* the run was queued with.                                                *)
GateReads(r) == Receipt(r)

(* No Telegram secrets: green, nothing sent.                               *)
GateSoftSkip(r) ==
    /\ At(r, "gate")
    /\ End(r, "soft_skip")
    /\ UNCHANGED <<day, pending, job, net, stamps, receipts, chat, vendor>>

(* A usable receipt for the anchor on the branch tip: success ping only.   *)
GateAlreadyDelivered(r, heard) ==
    /\ At(r, "gate")
    /\ GateReads(r) # NoRun
    /\ Heard(r, "success", heard)
    /\ End(r, "already_delivered")
    /\ UNCHANGED <<day, pending, job, net, stamps, receipts, chat>>

GateProceed(r) ==
    /\ At(r, "gate")
    /\ GateReads(r) = NoRun
    /\ Goto(r, "brief")
    /\ net' = [net EXCEPT ![r] = FreshNet]
    /\ UNCHANGED <<day, pending, job, stamps, receipts, chat, vendor>>

(* Retain (its failure is not the job's) and lab brief close.              *)
Brief(r) ==
    /\ At(r, "brief")
    /\ Goto(r, "startPing")
    /\ UNCHANGED <<day, pending, job, net, stamps, receipts, chat, vendor>>

(* The vendor may have received a ping whose OK the job never saw.         *)
StartPing(r, heard, ok) ==
    /\ At(r, "startPing")
    /\ ok => heard
    /\ Heard(r, "start", heard)
    /\ net' = [net EXCEPT ![r].greeted = ok]
    /\ Goto(r, "post")
    /\ UNCHANGED <<day, pending, job, stamps, receipts, chat>>

(* Mutant: the exit code of the send is not looked at.                     *)
NotSentIgnored(r) == Goto(r, "successPing")

(* accept_delivery is false: no receipt, the anchor stays open, exit 1.    *)
NotSent(r) == End(r, "failed")

(* One attempt to POST the current chunk.  Telegram may put it in the chat *)
(* though the answer is lost (result "retry": timeout, 5xx, 429) or is not *)
(* understood (result "fatal").                                            *)
Post(r, accepted, result) ==
    /\ At(r, "post")
    /\ result = "ok" => accepted
    /\ chat' = IF accepted
                 THEN chat \cup {[branch |-> Branch(r), anchor |-> Anchor(r),
                                  run |-> r, attempt |-> job[r].reruns,
                                  chunk |-> net[r].chunk, try |-> net[r].try + 1,
                                  missing |-> ~net[r].greeted]}
                 ELSE chat
    /\ \/ /\ result = "ok"
          /\ net' = [net EXCEPT ![r].chunk = @ + 1, ![r].try = 0]
          /\ IF net[r].chunk < Chunks THEN UNCHANGED <<pc, active>>
                                      ELSE Goto(r, "successPing")
       \/ /\ result = "retry" /\ net[r].try + 1 < MaxAttempts
          /\ net' = [net EXCEPT ![r].try = @ + 1]
          /\ UNCHANGED <<pc, active>>
       \/ /\ \/ result = "retry" /\ net[r].try + 1 = MaxAttempts
             \/ result = "fatal"
          /\ NotSent(r)
          /\ UNCHANGED net
    /\ UNCHANGED <<day, pending, job, stamps, receipts, vendor>>

(* After sent true.  The receipt is then written in the runner's checkout. *)
SuccessPing(r, heard) ==
    /\ At(r, "successPing")
    /\ Heard(r, "success", heard)
    /\ Goto(r, "pushReceipt")
    /\ UNCHANGED <<day, pending, job, net, stamps, receipts, chat>>

PushReceipt(r, accepted, acked) ==
    /\ At(r, "pushReceipt")
    /\ PushAttempt(r, accepted, acked, Receipt(r) # NoRun, End(r, "delivered"))
    /\ receipts' = IF accepted
                     THEN [receipts EXCEPT ![Branch(r)][Anchor(r)] = r]
                     ELSE receipts
    /\ UNCHANGED <<day, pending, job, stamps, chat, vendor>>

-----------------------------------------------------------------------------
(* The proof jobs hold the concurrency group and touch nothing here.       *)
Prove(r) ==
    /\ At(r, "proof")
    /\ End(r, "proved")
    /\ UNCHANGED <<day, pending, job, net, stamps, receipts, chat, vendor>>

(* A step exits nonzero, the runner is lost, or a person cancels the run.  *)
StepFails(r) ==
    /\ r \in active
    /\ End(r, "failed")
    /\ UNCHANGED <<day, pending, job, net, stamps, receipts, chat, vendor>>

NextDay ==
    /\ day < LastDay
    /\ day' = day + 1
    /\ UNCHANGED <<active, pending, pc, job, net, stamps, receipts, chat, vendor>>

(* What the runner of r does next.                                         *)
Work(r) ==
    \/ Stamp(r) \/ GateSoftSkip(r) \/ GateProceed(r) \/ Brief(r)
    \/ Prove(r) \/ StepFails(r)
    \/ \E heard, ok \in BOOLEAN :
          \/ PushStamp(r, heard, ok) \/ PushReceipt(r, heard, ok)
          \/ StartPing(r, heard, ok)
    \/ \E heard \in BOOLEAN : GateAlreadyDelivered(r, heard) \/ SuccessPing(r, heard)
    \/ \E accepted \in BOOLEAN, result \in {"ok", "retry", "fatal"} :
          Post(r, accepted, result)

Next ==
    \/ \E r \in Runs :
          \/ Work(r)
          \/ \E m \in Modes, b \in Branches : Trigger(r, m, b)
          \/ \E all \in BOOLEAN : Rerun(r, all)
    \/ StartPending
    \/ NextDay

Spec == Init /\ [][Next]_vars

(* GitHub starts a pending run once the group is free, and a runner keeps  *)
(* going until its job ends or its timeout kills it.                       *)
Fairness == WF_vars(StartPending) /\ \A r \in Runs : WF_vars(Work(r))

FairSpec == Spec /\ Fairness

-----------------------------------------------------------------------------
(* Properties.                                                             *)

(* Every chunk of a DM for the anchor d was put in the chat by run r.      *)
WholeDm(r, b, d) ==
    \A c \in 1..Chunks : \E m \in chat :
        m.run = r /\ m.branch = b /\ m.anchor = d /\ m.chunk = c

(* A deliver receipt on a branch tip names a run whose whole DM reached    *)
(* the Principal: accept_delivery, write_deliver_receipt and the push come *)
(* after the last chunk's answer, in a run that can die at any step.       *)
ReceiptMeansDelivered ==
    \A b \in Branches, d \in Days :
        receipts[b][d] # NoRun => WholeDm(receipts[b][d], b, d)

(* Nothing is sent by a run whose completion row is not on its branch:     *)
(* brief-and-deliver needs stage1-stamp, which fails if its push fails.    *)
SentOnlyAfterDurableStamp ==
    \A m \in chat : <<m.anchor, m.run>> \in stamps[m.branch]

(* A green run left what its colour claims on the branch: its row, and,    *)
(* when it says delivered or already_delivered, a receipt for its anchor.  *)
GreenIsDurable ==
    \A r \in Runs : pc[r] \in Green =>
        /\ <<Anchor(r), r>> \in stamps[Branch(r)]
        /\ pc[r] = "already_delivered" => Receipt(r) # NoRun
        /\ pc[r] = "delivered" => Receipt(r) = r

(* The vendor hears a success ping for an anchor only if some run put the  *)
(* whole DM in the chat, on the send path and on the receipt path alike.   *)
SuccessPingMeansDelivered ==
    \A d \in vendor.success : \E r \in Runs, b \in Branches : WholeDm(r, b, d)

(* A DM without the DEADMAN: MISSING line was sent under a timer that the  *)
(* vendor did start for that anchor.                                       *)
CleanDmMeansTimerStarted ==
    \A m \in chat : ~m.missing => m.anchor \in vendor.start

(* Once a receipt for an anchor is on the branch, no run on that branch    *)
(* sends for the anchor again, though the gate reads the tip several steps *)
(* before the POST: the concurrency group keeps the runs serial.           *)
NoDmAfterReceipt ==
    [][\A m \in chat' \ chat : receipts[m.branch][m.anchor] = NoRun]_vars

(* The workflow implements the promise: at least one whole DM before the   *)
(* anchor closes, none after, however runs fail, repeat and queue.         *)
Promise == INSTANCE AnchorDelivery
             WITH chat <- chat, receipts <- receipts, Days <- Days,
                  Message <- Message
KeepsPromise == Promise!Spec

(* Every trigger comes to an end: none waits forever behind a stuck run.   *)
EveryFireSettles == \A r \in Runs : pc[r] = "queued" ~> pc[r] \in Ended

(* docs/runbooks/host-dispatch.md: "the DM stays one per Sydney day".      *)
OneDmPerDay ==
    \A m, n \in chat : m.anchor = n.anchor /\ m.chunk = n.chunk => m = n
=============================================================================
