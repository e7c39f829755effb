------------------------ MODULE SydneyMorning_proofs ------------------------
(***************************************************************************)
(* Theorems about SydneyMorning for any number of runs, branches, days,    *)
(* chunks, attempts and re-runs.                                           *)
(***************************************************************************)
EXTENDS SydneyMorning, TLAPS

-----------------------------------------------------------------------------
(* The inductive invariant, conjunct by conjunct.                          *)

(* The concurrency group: at most one run in progress, and the steps of a  *)
(* run are taken exactly by the runs in progress.                          *)
Serial ==
    /\ \A r, s \in active : r = s
    /\ \A r \in Runs : r \in active <=> pc[r] \in Steps
    /\ \A r \in Runs : pc[r] = "queued" <=> pending = r

(* Where the loops stand.                                                  *)
LoopsInBounds ==
    \A r \in active :
        /\ pc[r] # "gate" => net[r].push < MaxPush
        /\ net[r].try < MaxAttempts
        /\ pc[r] \notin {"successPing", "pushReceipt"} => net[r].chunk <= Chunks
        /\ pc[r] \in {"brief", "startPing"} => net[r].chunk = 1

(* Past the stamp job the run's row is on its branch.                      *)
PastStamp == {"gate", "brief", "startPing", "post", "successPing", "pushReceipt"}
StampDurable ==
    \A r \in Runs :
        /\ pc[r] = "pushStamp" => Anchor(r) \in Days
        /\ pc[r] \in PastStamp \/ job[r].stamped \/ pc[r] \in Green
             => /\ Anchor(r) \in Days
                /\ <<Anchor(r), r>> \in stamps[Branch(r)]
        /\ pc[r] \in {"idle", "stamp"} => ~job[r].stamped

(* Between the gate and the landing of its own receipt, the anchor of the  *)
(* run in progress is open.                                                *)
OpenWhileSending ==
    \A r \in active :
        /\ pc[r] \in {"brief", "startPing", "post", "successPing"} =>
             Receipt(r) = NoRun /\ ~net[r].landed
        /\ pc[r] = "pushReceipt" =>
             Receipt(r) = IF net[r].landed THEN r ELSE NoRun

(* The chunks before the current one are in the chat.                      *)
ChunksPosted ==
    \A r \in active :
        /\ pc[r] = "post" => \A c \in 1..(net[r].chunk - 1) : \E m \in chat :
             m.run = r /\ m.branch = Branch(r) /\ m.anchor = Anchor(r) /\ m.chunk = c
        /\ pc[r] \in {"successPing", "pushReceipt"} =>
             WholeDm(r, Branch(r), Anchor(r))

TimerKnown ==
    \A r \in active : pc[r] = "post" /\ net[r].greeted => Anchor(r) \in vendor.start

(* What is durable outside a runner, and what is claimed about it.         *)
Durable ==
    /\ ReceiptMeansDelivered
    /\ SentOnlyAfterDurableStamp
    /\ SuccessPingMeansDelivered
    /\ CleanDmMeansTimerStarted

IInv ==
    /\ TypeOK
    /\ Serial
    /\ LoopsInBounds
    /\ StampDurable
    /\ OpenWhileSending
    /\ ChunksPosted
    /\ TimerKnown
    /\ Durable
    /\ GreenIsDurable

-----------------------------------------------------------------------------
(* The initial states satisfy the invariant.                               *)
LEMMA InitIInv == Init => IInv
  <1> SUFFICES ASSUME Init PROVE IInv
      OBVIOUS
  <1> USE ConstantsAssumption DEF Init
  <1>1. TypeOK
      BY DEF TypeOK, Days, Job, Modes, Net, FreshNet, Message
  <1>2. Serial /\ LoopsInBounds /\ OpenWhileSending /\ ChunksPosted /\ TimerKnown
      BY DEF Serial, Steps, LoopsInBounds, OpenWhileSending, ChunksPosted, TimerKnown
  <1>3. StampDurable /\ GreenIsDurable
      BY DEF StampDurable, GreenIsDurable, PastStamp, Green
  <1>4. ReceiptMeansDelivered
      BY DEF ReceiptMeansDelivered
  <1>5. SentOnlyAfterDurableStamp /\ SuccessPingMeansDelivered /\ CleanDmMeansTimerStarted
      BY DEF SentOnlyAfterDurableStamp, SuccessPingMeansDelivered, CleanDmMeansTimerStarted
  <1> QED
      BY <1>1, <1>2, <1>3, <1>4, <1>5 DEF IInv, Durable

-----------------------------------------------------------------------------
(* What the control operators do to the control part of the invariant.     *)

(* Ending the run in progress leaves the group free.                       *)
LEMMA EndControl ==
  ASSUME TypeOK, Serial, NEW r \in active, NEW how \in Ended, End(r, how),
         pending' = pending
  PROVE  /\ active' = {}
         /\ pc'[r] = how
         /\ \A x \in Runs \ {r} : pc'[x] = pc[x]
         /\ pc' \in [Runs -> {"idle", "queued"} \cup Steps \cup Ended]
         /\ Serial' /\ LoopsInBounds' /\ OpenWhileSending'
         /\ ChunksPosted' /\ TimerKnown'
  <1>1. active' = {} /\ r \in Runs
      BY DEF TypeOK, Serial, End
  <1>2. pc'[r] = how /\ \A x \in Runs \ {r} : pc'[x] = pc[x]
      BY <1>1 DEF TypeOK, End
  <1>3. pc' \in [Runs -> {"idle", "queued"} \cup Steps \cup Ended]
      BY <1>1 DEF TypeOK, End
  <1>4. Serial'
      <2>1. how \notin Steps /\ how # "queued"
          BY DEF Ended, Green, Steps
      <2>2. \A x \in Runs : pc'[x] \notin Steps
          BY <1>1, <1>2, <2>1 DEF Serial
      <2>3. \A x \in Runs : pc'[x] = "queued" <=> pc[x] = "queued"
          BY <1>1, <1>2, <2>1 DEF Serial, Steps
      <2> QED
          BY <1>1, <2>2, <2>3 DEF Serial
  <1> QED
      BY <1>1, <1>2, <1>3, <1>4
      DEF LoopsInBounds, OpenWhileSending, ChunksPosted, TimerKnown

(* Going on to another step keeps the run the only one in progress.        *)
LEMMA GotoControl ==
  ASSUME TypeOK, Serial, NEW r \in active, NEW step \in Steps, Goto(r, step),
         pending' = pending
  PROVE  /\ active' = {r}
         /\ pc'[r] = step
         /\ \A x \in Runs \ {r} : pc'[x] = pc[x]
         /\ pc' \in [Runs -> {"idle", "queued"} \cup Steps \cup Ended]
         /\ Serial'
  <1>1. active' = {r} /\ active = {r} /\ r \in Runs
      BY DEF TypeOK, Serial, Goto
  <1>2. pc'[r] = step /\ \A x \in Runs \ {r} : pc'[x] = pc[x]
      BY <1>1 DEF TypeOK, Goto
  <1>3. pc' \in [Runs -> {"idle", "queued"} \cup Steps \cup Ended]
      BY <1>1 DEF TypeOK, Goto
  <1>4. Serial'
      BY <1>1, <1>2 DEF Serial, Steps
  <1> QED
      BY <1>1, <1>2, <1>3, <1>4

(* What is durable stays true while nothing durable changes.             *)
LEMMA DurableFrame ==
  ASSUME Durable, UNCHANGED <<stamps, receipts, chat, vendor>>
  PROVE  Durable'
  BY DEF Durable, ReceiptMeansDelivered, SentOnlyAfterDurableStamp, WholeDm,
         SuccessPingMeansDelivered, CleanDmMeansTimerStarted

-----------------------------------------------------------------------------
(* One lemma per action: it preserves the inductive invariant.             *)

(* Entering the queue disturbs only the run itself and the run it evicts.  *)
LEMMA EnqueueControl ==
  ASSUME TypeOK, Serial, NEW r \in Runs, pc[r] \notin Steps, Enqueue(r)
  PROVE  /\ r \notin active
         /\ pc'[r] = "queued"
         /\ \A x \in Runs \ {r} : pc'[x] = pc[x] \/ pc'[x] = "cancelled"
         /\ \A x \in active : pc'[x] = pc[x]
         /\ pc' \in [Runs -> {"idle", "queued"} \cup Steps \cup Ended]
         /\ Serial'
  <1>1. r \notin active /\ active' = active /\ pending' = r
      BY DEF Serial, Enqueue
  <1>2. \A x \in Runs : pc'[x] = IF x = r THEN "queued"
                                 ELSE IF x = pending THEN "cancelled" ELSE pc[x]
      BY DEF Enqueue
  <1>3. \A x \in active : x # pending
      BY DEF TypeOK, Serial, Steps
  <1>4. pc' \in [Runs -> {"idle", "queued"} \cup Steps \cup Ended]
      BY DEF TypeOK, Enqueue, Ended
  <1>5. Serial'
      <2>1. \A x \in Runs : x \in active <=> pc'[x] \in Steps
          BY <1>1, <1>2, <1>3 DEF Serial, Steps
      <2>2. \A x \in Runs : pc'[x] = "queued" <=> x = r
          BY <1>2 DEF Serial
      <2> QED
          BY <1>1, <2>1, <2>2 DEF Serial
  <1> QED
      BY <1>1, <1>2, <1>3, <1>4, <1>5 DEF TypeOK

(* A run that enters the queue may change its own inputs and outputs, but  *)
(* it may only keep a stamped flag it had, with anchor and branch.         *)
LEMMA EnqueueStep ==
  ASSUME IInv, NEW r \in Runs, pc[r] \notin Steps, Enqueue(r),
         job' \in [Runs -> Job],
         \A x \in Runs \ {r} : job'[x] = job[x],
         job'[r].stamped => /\ job[r].stamped
                            /\ Anchor(r)' = Anchor(r)
                            /\ Branch(r)' = Branch(r)
  PROVE  IInv'
  <1>1. /\ r \notin active
        /\ pc'[r] = "queued"
        /\ \A x \in Runs \ {r} : pc'[x] = pc[x] \/ pc'[x] = "cancelled"
        /\ \A x \in active : pc'[x] = pc[x]
        /\ pc' \in [Runs -> {"idle", "queued"} \cup Steps \cup Ended]
        /\ Serial'
      BY EnqueueControl DEF IInv
  <1>2. active' = active /\ pending' = r
        /\ UNCHANGED <<day, net, stamps, receipts, chat, vendor>>
      BY DEF Enqueue
  <1>3. \A x \in active : /\ x \in Runs
                          /\ Anchor(x)' = Anchor(x)
                          /\ Branch(x)' = Branch(x)
      BY <1>1 DEF Anchor, Branch, IInv, TypeOK
  <1>4. TypeOK'
      BY <1>1, <1>2 DEF IInv, TypeOK
  <1>5. LoopsInBounds'
      BY <1>1, <1>2 DEF IInv, LoopsInBounds
  <1>6. StampDurable'
      BY <1>1, <1>2 DEF IInv, StampDurable, PastStamp, Green, Anchor, Branch
  <1>7. OpenWhileSending'
      BY <1>1, <1>2, <1>3 DEF IInv, OpenWhileSending, Receipt
  <1>8. ChunksPosted' /\ TimerKnown'
      BY <1>1, <1>2, <1>3 DEF IInv, ChunksPosted, WholeDm, TimerKnown
  <1>9. Durable'
      BY <1>2, DurableFrame DEF IInv
  <1>10. GreenIsDurable'
      BY <1>1, <1>2 DEF IInv, GreenIsDurable, Green, Receipt, Anchor, Branch
  <1> QED
      BY <1>1, <1>4, <1>5, <1>6, <1>7, <1>8, <1>9, <1>10 DEF IInv

(* A trigger queues a run; the run it displaces is cancelled.            *)
LEMMA TriggerStep ==
  ASSUME IInv, NEW r \in Runs, NEW m \in Modes, NEW b \in Branches, Trigger(r, m, b)
  PROVE  IInv'
  <1>1. job' \in [Runs -> Job] /\ \A x \in Runs \ {r} : job'[x] = job[x]
      <2> DEFINE rec == [job[r] EXCEPT !.mode = m, !.branch = b]
      <2>1. job \in [Runs -> Job] /\ job[r] \in Job
          BY DEF IInv, TypeOK
      <2>2. rec \in Job
          BY <2>1 DEF Job
      <2>3. job' = [job EXCEPT ![r] = rec]
          BY <2>1 DEF Trigger
      <2> HIDE DEF rec
      <2> QED
          BY <2>1, <2>2, <2>3
  <1>2. pc[r] \notin Steps /\ Enqueue(r)
      BY DEF Trigger, Steps
  <1>3. ~job'[r].stamped
      BY DEF IInv, TypeOK, StampDurable, Trigger, Job
  <1> QED
      BY <1>1, <1>2, <1>3, EnqueueStep

(* A re-run keeps the run id, and the stamp unless that job is repeated. *)
LEMMA RerunStep ==
  ASSUME IInv, NEW r \in Runs, NEW all \in BOOLEAN, Rerun(r, all)
  PROVE  IInv'
  <1>1. job' \in [Runs -> Job] /\ \A x \in Runs \ {r} : job'[x] = job[x]
      <2>1. job[r].reruns + 1 \in 0..MaxReruns
          BY ConstantsAssumption DEF IInv, TypeOK, Rerun, Job
      <2>2. (~all) \in BOOLEAN
          OBVIOUS
      <2>3. \A x \in Runs \ {r} : job'[x] = job[x]
          BY DEF IInv, TypeOK, Rerun
      <2> DEFINE again == job[r].reruns + 1
      <2>4. job' = [job EXCEPT ![r] = [@ EXCEPT !.reruns = again, !.stamped = ~all]]
          BY DEF IInv, TypeOK, Rerun
      <2> HIDE DEF again
      <2>5. job'[r] \in Job
          BY <2>1, <2>2, <2>4 DEF IInv, TypeOK, Job, again
      <2> QED
          BY <2>3, <2>4, <2>5 DEF IInv, TypeOK
  <1>2. pc[r] \notin Steps /\ Enqueue(r)
      BY DEF Rerun, Steps, Ended, Green
  <1>3. /\ job'[r].stamped => job[r].stamped
        /\ Anchor(r)' = Anchor(r)
        /\ Branch(r)' = Branch(r)
      BY DEF IInv, TypeOK, Rerun, Job, Anchor, Branch
  <1> QED
      BY <1>1, <1>2, <1>3, EnqueueStep

(* Only a free group starts its pending run: the run is alone.           *)
LEMMA StartPendingStep ==
  ASSUME IInv, StartPending
  PROVE  IInv'
  <1> DEFINE r == pending
  <1>1. r \in Runs /\ active' = {r} /\ pending' = NoRun /\ NoRun \notin Runs
      BY ConstantsAssumption DEF IInv, TypeOK, StartPending, GroupFree
  <1>2. /\ pc[r] = "queued"
        /\ pc'[r] \in {"proof", "stamp", "gate"}
        /\ pc'[r] = "gate" => job[r].stamped
        /\ pc'[r] = "stamp" => ~job[r].stamped
        /\ \A x \in Runs \ {r} : pc'[x] = pc[x]
      BY <1>1 DEF IInv, TypeOK, Serial, StartPending
  <1>3. UNCHANGED <<day, job, stamps, receipts, chat, vendor>>
      BY DEF StartPending
  <1>4. net'[r] = FreshNet /\ FreshNet \in Net /\ net' \in [Runs -> Net]
      <2>1. FreshNet \in Net
          BY ConstantsAssumption DEF FreshNet, Net
      <2> QED
          BY <1>1, <2>1 DEF IInv, TypeOK, StartPending
  <1>5. TypeOK'
      <2>1. pc' \in [Runs -> {"idle", "queued"} \cup Steps \cup Ended]
          BY <1>1 DEF IInv, TypeOK, StartPending, Steps
      <2> QED
          BY <1>1, <1>3, <1>4, <2>1 DEF IInv, TypeOK
  <1>6. Serial'
      BY <1>1, <1>2 DEF IInv, Serial, Steps, StartPending, GroupFree
  <1>7. LoopsInBounds'
      BY <1>1, <1>4, ConstantsAssumption DEF LoopsInBounds, FreshNet
  <1>8. StampDurable'
      BY <1>1, <1>2, <1>3 DEF IInv, StampDurable, PastStamp, Green, Anchor, Branch
  <1>9. OpenWhileSending' /\ ChunksPosted' /\ TimerKnown'
      BY <1>1, <1>2 DEF OpenWhileSending, ChunksPosted, TimerKnown
  <1>10. Durable'
      BY <1>3, DurableFrame DEF IInv
  <1>11. GreenIsDurable'
      BY <1>2, <1>3 DEF IInv, GreenIsDurable, Green, Receipt, Anchor, Branch
  <1> QED
      BY <1>5, <1>6, <1>7, <1>8, <1>9, <1>10, <1>11 DEF IInv

(* A run that ends without touching anything durable must be entitled to   *)
(* its colour.                                                             *)
LEMMA EndStep ==
  ASSUME IInv, NEW r \in active, NEW how \in Ended, End(r, how),
         UNCHANGED <<day, pending, job, net, stamps, receipts, chat>>,
         Durable', vendor' \in [start : SUBSET Days, success : SUBSET Days],
         how \in Green => pc[r] \in PastStamp,
         how = "already_delivered" => Receipt(r) # NoRun,
         how = "delivered" => Receipt(r) = r
  PROVE  IInv'
  <1>1. /\ active' = {}
        /\ pc'[r] = how
        /\ \A x \in Runs \ {r} : pc'[x] = pc[x]
        /\ pc' \in [Runs -> {"idle", "queued"} \cup Steps \cup Ended]
        /\ Serial' /\ LoopsInBounds' /\ OpenWhileSending'
        /\ ChunksPosted' /\ TimerKnown'
      BY EndControl DEF IInv
  <1>2. TypeOK'
      BY <1>1 DEF IInv, TypeOK
  <1>3. how \notin PastStamp /\ how \notin {"idle", "stamp", "pushStamp"} /\ r \in Runs
      BY DEF Ended, Green, PastStamp, IInv, TypeOK
  <1>4. StampDurable'
      BY <1>1, <1>3 DEF IInv, StampDurable, Anchor, Branch
  <1>5. GreenIsDurable'
      BY <1>1, <1>3 DEF IInv, GreenIsDurable, StampDurable, Receipt, Anchor, Branch
  <1> QED
      BY <1>1, <1>2, <1>4, <1>5 DEF IInv

(* A step that fails, or a lost runner, does no more than free the group.*)
LEMMA StepFailsStep ==
  ASSUME IInv, NEW r \in Runs, StepFails(r)
  PROVE  IInv'
  <1>1. "failed" \in Ended /\ "failed" \notin Green
      BY DEF Ended, Green
  <1>2. Durable' /\ vendor' = vendor
      BY DurableFrame DEF IInv, StepFails
  <1> QED
      BY <1>1, <1>2, EndStep DEF StepFails, IInv, TypeOK

(* A proof job ends and changes nothing else.                            *)
LEMMA ProveStep ==
  ASSUME IInv, NEW r \in Runs, Prove(r)
  PROVE  IInv'
  <1>1. "proved" \in Ended /\ "proved" \notin Green
      BY DEF Ended, Green
  <1>2. Durable' /\ vendor' = vendor
      BY DurableFrame DEF IInv, Prove
  <1> QED
      BY <1>1, <1>2, EndStep DEF Prove, At, IInv, TypeOK

(* Without secrets the run ends green, its stamp on its branch.          *)
LEMMA GateSoftSkipStep ==
  ASSUME IInv, NEW r \in Runs, GateSoftSkip(r)
  PROVE  IInv'
  <1>1. "soft_skip" \in Ended /\ pc[r] \in PastStamp
      BY DEF Ended, Green, GateSoftSkip, At, PastStamp
  <1>2. Durable' /\ vendor' = vendor
      BY DurableFrame DEF IInv, GateSoftSkip
  <1> QED
      BY <1>1, <1>2, EndStep DEF GateSoftSkip, At, IInv, TypeOK

(* The anchor is the scheduled local day, or the job fails.              *)
LEMMA StampStep ==
  ASSUME IInv, NEW r \in Runs, Stamp(r)
  PROVE  IInv'
  <1>1. /\ r \in active /\ pc[r] = "stamp" /\ ~job[r].stamped
        /\ UNCHANGED <<day, pending, net, stamps, receipts, chat, vendor>>
      BY DEF Stamp, At, IInv, StampDurable
  <1>2. Durable'
      BY <1>1, DurableFrame DEF IInv
  <1>3. CASE day \notin Weekdays
      <2>1. UNCHANGED job /\ End(r, "failed") /\ "failed" \in Ended /\ "failed" \notin Green
          BY <1>3 DEF Stamp, Ended, Green
      <2> QED
          BY <1>1, <1>2, <2>1, EndStep DEF IInv, TypeOK
  <1>4. CASE day \in Weekdays
      <2>1. Goto(r, "pushStamp") /\ "pushStamp" \in Steps /\ pending' = pending
          BY <1>1, <1>4 DEF Stamp, Steps
      <2>2. /\ active' = {r}
            /\ pc'[r] = "pushStamp"
            /\ \A x \in Runs \ {r} : pc'[x] = pc[x]
            /\ pc' \in [Runs -> {"idle", "queued"} \cup Steps \cup Ended]
            /\ Serial'
          BY <1>1, <2>1, GotoControl DEF IInv
      <2>3. /\ job' = [job EXCEPT ![r].anchor = day] /\ day \in Days
            /\ job' \in [Runs -> Job]
          <3>1. job' = [job EXCEPT ![r].anchor = day] /\ day \in Days
              BY <1>4 DEF Stamp, IInv, TypeOK
          <3> QED
              BY <3>1 DEF IInv, TypeOK, Job
      <2>4. /\ Anchor(r)' = day /\ job'[r].stamped = job[r].stamped
            /\ \A x \in Runs \ {r} : job'[x] = job[x]
          BY <2>3 DEF Anchor, IInv, TypeOK, Job
      <2>5. TypeOK'
          BY <1>1, <2>2, <2>3 DEF IInv, TypeOK
      <2>6. LoopsInBounds'
          BY <1>1, <2>2 DEF IInv, LoopsInBounds
      <2>7. StampDurable'
          BY <1>1, <2>2, <2>3, <2>4
          DEF IInv, StampDurable, PastStamp, Green, Anchor, Branch
      <2>8. OpenWhileSending' /\ ChunksPosted' /\ TimerKnown'
          BY <2>2 DEF OpenWhileSending, ChunksPosted, TimerKnown
      <2>9. GreenIsDurable'
          BY <1>1, <2>2, <2>4 DEF IInv, GreenIsDurable, Green, Receipt, Anchor, Branch
      <2> QED
          BY <1>2, <2>2, <2>5, <2>6, <2>7, <2>8, <2>9 DEF IInv
  <1> QED
      BY <1>3, <1>4

(* One attempt of either push loop: the loop's counter stays below its     *)
(* bound while the run stays in the loop, and otherwise the run moves on.  *)
LEMMA PushAttemptControl ==
  ASSUME TypeOK, LoopsInBounds, NEW r \in active, pc[r] # "gate",
         NEW accepted \in BOOLEAN, NEW acked \in BOOLEAN,
         NEW STATE taken, NEW ACTION onAck,
         PushAttempt(r, accepted, acked, taken, onAck)
  PROVE  /\ net' \in [Runs -> Net]
         /\ net'[r].landed = (net[r].landed \/ accepted)
         /\ net'[r].push = net[r].push + 1
         /\ net'[r].try = net[r].try
         /\ net'[r].chunk = net[r].chunk
         /\ \/ acked /\ onAck
            \/ UNCHANGED <<pc, active>> /\ ~acked /\ net'[r].push < MaxPush
            \/ End(r, "failed") /\ ~acked
  <1>1. r \in Runs /\ net[r] \in Net /\ net[r].push < MaxPush
      BY DEF TypeOK, LoopsInBounds
  <1> DEFINE p == net[r].push + 1
             l == net[r].landed \/ accepted
  <1>2. p \in 0..MaxPush /\ l \in BOOLEAN
      BY <1>1, ConstantsAssumption DEF Net
  <1>3. net' = [net EXCEPT ![r] = [@ EXCEPT !.push = p, !.landed = l]]
      BY <1>1 DEF PushAttempt, TypeOK
  <1>4. p = net[r].push + 1 /\ l = (net[r].landed \/ accepted)
      OBVIOUS
  <1> HIDE DEF p, l
  <1>5. /\ net'[r] \in Net /\ net'[r].push = p /\ net'[r].landed = l
        /\ net'[r].try = net[r].try /\ net'[r].chunk = net[r].chunk
        /\ net' \in [Runs -> Net]
      BY <1>1, <1>2, <1>3 DEF TypeOK, Net
  <1>6. \/ acked /\ onAck
        \/ UNCHANGED <<pc, active>> /\ ~acked /\ p < MaxPush
        \/ End(r, "failed") /\ ~acked
      BY <1>4 DEF PushAttempt, PushExhausted
  <1> QED
      BY <1>4, <1>5, <1>6

(* Only an acknowledged stamp push goes on: its row is on the tip.       *)
LEMMA PushStampStep ==
  ASSUME IInv, NEW r \in Runs, NEW accepted \in BOOLEAN, NEW acked \in BOOLEAN,
         PushStamp(r, accepted, acked)
  PROVE  IInv'
  <1>1. /\ r \in active /\ pc[r] = "pushStamp" /\ Anchor(r) \in Days
        /\ UNCHANGED <<day, pending, receipts, chat, vendor>>
        /\ acked => accepted
      BY DEF PushStamp, PushAttempt, At, IInv, StampDurable
  <1> DEFINE onAck == IF job[r].mode = "send" THEN Goto(r, "gate") ELSE End(r, "stamp_only")
             taken == <<Anchor(r), r>> \in stamps[Branch(r)]
  <1>2. PushAttempt(r, accepted, acked, taken, onAck)
      BY DEF PushStamp
  <1>3. /\ net' \in [Runs -> Net]
        /\ net'[r].try = net[r].try
        /\ net'[r].chunk = net[r].chunk
        /\ \/ acked /\ onAck
           \/ UNCHANGED <<pc, active>> /\ ~acked /\ net'[r].push < MaxPush
           \/ End(r, "failed") /\ ~acked
      <2> HIDE DEF onAck, taken
      <2> QED
          BY <1>1, <1>2, PushAttemptControl DEF IInv
  <1>4. /\ job' = [job EXCEPT ![r].stamped = acked]
        /\ job' \in [Runs -> Job]
        /\ \A x \in Runs : Anchor(x)' = Anchor(x) /\ Branch(x)' = Branch(x)
        /\ \A x \in Runs \ {r} : job'[x] = job[x]
        /\ job'[r].stamped = acked
      BY DEF PushStamp, IInv, TypeOK, Job, Anchor, Branch
  <1>5. /\ stamps' \in [Branches -> SUBSET (Days \X Runs)]
        /\ \A b \in Branches : stamps[b] \subseteq stamps'[b]
        /\ accepted => <<Anchor(r), r>> \in stamps'[Branch(r)]
      <2>1. Branch(r) \in Branches /\ <<Anchor(r), r>> \in Days \X Runs
          BY <1>1 DEF IInv, TypeOK, Job, Branch
      <2>2. CASE accepted
          BY <2>1, <2>2 DEF PushStamp, IInv, TypeOK
      <2>3. CASE ~accepted
          BY <2>3 DEF PushStamp, IInv, TypeOK
      <2> QED
          BY <2>2, <2>3
  <1>6. \A x \in Runs : Branch(x) \in Branches
      BY DEF IInv, TypeOK, Job, Branch
  <1>7. Durable'
      <2>1. ReceiptMeansDelivered' /\ SuccessPingMeansDelivered' /\ CleanDmMeansTimerStarted'
          BY <1>1 DEF IInv, Durable, ReceiptMeansDelivered, SuccessPingMeansDelivered,
                      CleanDmMeansTimerStarted, WholeDm
      <2>2. SentOnlyAfterDurableStamp'
          BY <1>1, <1>5 DEF IInv, TypeOK, Message, Durable, SentOnlyAfterDurableStamp
      <2> QED
          BY <2>1, <2>2 DEF Durable
  (* The run stays in its loop, goes on to the gate, or ends.              *)
  <1>8. CASE UNCHANGED <<pc, active>> /\ ~acked /\ net'[r].push < MaxPush
      <2>1. active = {r} /\ \A x \in Runs \ {r} : pc'[x] = pc[x]
          BY <1>1, <1>8 DEF IInv, Serial
      <2>2. TypeOK' /\ Serial'
          BY <1>1, <1>3, <1>4, <1>5, <1>8 DEF IInv, TypeOK, Serial
      <2>3. LoopsInBounds'
          BY <1>1, <1>3, <1>8, <2>1 DEF IInv, LoopsInBounds
      <2>4. StampDurable'
          BY <1>1, <1>4, <1>5, <1>6, <1>8
          DEF IInv, StampDurable, PastStamp, Green, Anchor, Branch
      <2>5. OpenWhileSending' /\ ChunksPosted' /\ TimerKnown'
          BY <1>1, <1>8, <2>1 DEF OpenWhileSending, ChunksPosted, TimerKnown
      <2>6. GreenIsDurable'
          BY <1>1, <1>4, <1>5, <1>6, <1>8 DEF IInv, GreenIsDurable, Green, Receipt
      <2> QED
          BY <1>7, <2>2, <2>3, <2>4, <2>5, <2>6 DEF IInv
  <1>9. CASE acked /\ Goto(r, "gate")
      <2>1. /\ active' = {r}
            /\ pc'[r] = "gate"
            /\ \A x \in Runs \ {r} : pc'[x] = pc[x]
            /\ pc' \in [Runs -> {"idle", "queued"} \cup Steps \cup Ended]
            /\ Serial'
          BY <1>1, <1>9, GotoControl DEF IInv, Steps
      <2>2. TypeOK'
          BY <1>1, <1>3, <1>4, <1>5, <2>1 DEF IInv, TypeOK
      <2>3. LoopsInBounds'
          BY <1>1, <1>3, <2>1 DEF IInv, LoopsInBounds
      <2>4. StampDurable'
          BY <1>1, <1>4, <1>5, <1>6, <1>9, <2>1
          DEF IInv, StampDurable, PastStamp, Green, Anchor, Branch
      <2>5. OpenWhileSending' /\ ChunksPosted' /\ TimerKnown'
          BY <2>1 DEF OpenWhileSending, ChunksPosted, TimerKnown
      <2>6. GreenIsDurable'
          BY <1>1, <1>4, <1>5, <1>6, <2>1 DEF IInv, GreenIsDurable, Green, Receipt
      <2> QED
          BY <1>7, <2>1, <2>2, <2>3, <2>4, <2>5, <2>6 DEF IInv
  <1>10. ASSUME NEW how \in {"failed", "stamp_only"}, End(r, how), acked <=> how = "stamp_only"
         PROVE  IInv'
      <2>1. /\ active' = {}
            /\ pc'[r] = how
            /\ \A x \in Runs \ {r} : pc'[x] = pc[x]
            /\ pc' \in [Runs -> {"idle", "queued"} \cup Steps \cup Ended]
            /\ Serial' /\ LoopsInBounds' /\ OpenWhileSending'
            /\ ChunksPosted' /\ TimerKnown'
          BY <1>1, <1>10, EndControl DEF IInv, Ended, Green
      <2>2. TypeOK'
          BY <1>1, <1>3, <1>4, <1>5, <2>1 DEF IInv, TypeOK
      <2>3. StampDurable'
          BY <1>1, <1>4, <1>5, <1>6, <1>10, <2>1
          DEF IInv, StampDurable, PastStamp, Green, Anchor, Branch
      <2>4. GreenIsDurable'
          BY <1>1, <1>4, <1>5, <1>6, <1>10, <2>1 DEF IInv, GreenIsDurable, Green, Receipt
      <2> QED
          BY <1>7, <2>1, <2>2, <2>3, <2>4 DEF IInv
  <1> QED
      BY <1>3, <1>8, <1>9, <1>10

(* A receipt on the tip entitles the run to a success ping.              *)
LEMMA GateAlreadyDeliveredStep ==
  ASSUME IInv, NEW r \in Runs, NEW heard \in BOOLEAN, GateAlreadyDelivered(r, heard)
  PROVE  IInv'
  <1>1. /\ "already_delivered" \in Ended /\ pc[r] \in PastStamp
        /\ End(r, "already_delivered") /\ r \in active
        /\ UNCHANGED <<day, pending, job, net, stamps, receipts, chat>>
        /\ Receipt(r) # NoRun
      BY DEF Ended, Green, GateAlreadyDelivered, GateReads, At, PastStamp
  <1>2. Anchor(r) \in Days /\ Branch(r) \in Branches
      BY <1>1 DEF IInv, TypeOK, Job, StampDurable, Branch
  <1>3. \E s \in Runs, b \in Branches : WholeDm(s, b, Anchor(r))
      BY <1>1, <1>2 DEF IInv, TypeOK, Durable, ReceiptMeansDelivered, Receipt
  <1>4. /\ vendor' \in [start : SUBSET Days, success : SUBSET Days]
        /\ vendor'.start = vendor.start
        /\ vendor'.success \subseteq vendor.success \cup {Anchor(r)}
      BY <1>2 DEF GateAlreadyDelivered, Heard, IInv, TypeOK
  <1>5. Durable'
      <2>1. ReceiptMeansDelivered' /\ SentOnlyAfterDurableStamp' /\ CleanDmMeansTimerStarted'
          BY <1>1, <1>4 DEF IInv, Durable, ReceiptMeansDelivered, WholeDm,
                            SentOnlyAfterDurableStamp, CleanDmMeansTimerStarted
      <2>2. SuccessPingMeansDelivered'
          BY <1>1, <1>3, <1>4 DEF IInv, Durable, SuccessPingMeansDelivered, WholeDm
      <2> QED
          BY <2>1, <2>2 DEF Durable
  <1> QED
      BY <1>1, <1>4, <1>5, EndStep

(* No receipt on the tip: the anchor is open, the loops start afresh.    *)
LEMMA GateProceedStep ==
  ASSUME IInv, NEW r \in Runs, GateProceed(r)
  PROVE  IInv'
  <1>1. /\ r \in active /\ pc[r] = "gate" /\ Receipt(r) = NoRun
        /\ UNCHANGED <<day, pending, job, stamps, receipts, chat, vendor>>
        /\ net' = [net EXCEPT ![r] = FreshNet]
      BY DEF GateProceed, GateReads, At
  <1>2. /\ active' = {r}
        /\ pc'[r] = "brief"
        /\ \A x \in Runs \ {r} : pc'[x] = pc[x]
        /\ pc' \in [Runs -> {"idle", "queued"} \cup Steps \cup Ended]
        /\ Serial'
      BY <1>1, GotoControl DEF GateProceed, IInv, Steps
  <1>3. net'[r] = FreshNet /\ net' \in [Runs -> Net]
      <2>1. FreshNet \in Net
          BY ConstantsAssumption DEF FreshNet, Net
      <2> QED
          BY <1>1, <2>1 DEF IInv, TypeOK
  <1>4. TypeOK'
      BY <1>1, <1>2, <1>3 DEF IInv, TypeOK
  <1>5. LoopsInBounds'
      BY <1>2, <1>3, ConstantsAssumption DEF LoopsInBounds, FreshNet
  <1>6. StampDurable'
      BY <1>1, <1>2 DEF IInv, StampDurable, PastStamp, Green, Anchor, Branch
  <1>7. OpenWhileSending' /\ ChunksPosted' /\ TimerKnown'
      BY <1>1, <1>2, <1>3 DEF OpenWhileSending, ChunksPosted, TimerKnown,
                              Receipt, Anchor, Branch, FreshNet
  <1>8. Durable'
      BY <1>1, DurableFrame DEF IInv
  <1>9. GreenIsDurable'
      BY <1>1, <1>2 DEF IInv, GreenIsDurable, Green, Receipt, Anchor, Branch
  <1> QED
      BY <1>2, <1>4, <1>5, <1>6, <1>7, <1>8, <1>9 DEF IInv

(* The brief changes only the step the run is at.                        *)
LEMMA BriefStep ==
  ASSUME IInv, NEW r \in Runs, Brief(r)
  PROVE  IInv'
  <1>1. /\ r \in active /\ pc[r] = "brief"
        /\ UNCHANGED <<day, pending, job, net, stamps, receipts, chat, vendor>>
      BY DEF Brief, At
  <1>2. /\ active' = {r}
        /\ pc'[r] = "startPing"
        /\ \A x \in Runs \ {r} : pc'[x] = pc[x]
        /\ pc' \in [Runs -> {"idle", "queued"} \cup Steps \cup Ended]
        /\ Serial'
      BY <1>1, GotoControl DEF Brief, IInv, Steps
  <1>3. TypeOK'
      BY <1>1, <1>2 DEF IInv, TypeOK
  <1>4. LoopsInBounds'
      BY <1>1, <1>2 DEF IInv, LoopsInBounds
  <1>5. StampDurable'
      BY <1>1, <1>2 DEF IInv, StampDurable, PastStamp, Green, Anchor, Branch
  <1>6. OpenWhileSending' /\ ChunksPosted' /\ TimerKnown'
      BY <1>1, <1>2 DEF IInv, OpenWhileSending, ChunksPosted, TimerKnown,
                        Receipt, Anchor, Branch
  <1>7. Durable'
      BY <1>1, DurableFrame DEF IInv
  <1>8. GreenIsDurable'
      BY <1>1, <1>2 DEF IInv, GreenIsDurable, Green, Receipt, Anchor, Branch
  <1> QED
      BY <1>2, <1>3, <1>4, <1>5, <1>6, <1>7, <1>8 DEF IInv

(* An OK of the start ping means that the vendor started the timer.      *)
LEMMA StartPingStep ==
  ASSUME IInv, NEW r \in Runs, NEW heard \in BOOLEAN, NEW ok \in BOOLEAN,
         StartPing(r, heard, ok)
  PROVE  IInv'
  <1>1. /\ r \in active /\ r \in Runs /\ pc[r] = "startPing"
        /\ UNCHANGED <<day, pending, job, stamps, receipts, chat>>
        /\ net' = [net EXCEPT ![r].greeted = ok]
        /\ Anchor(r) \in Days
      BY DEF StartPing, At, IInv, StampDurable, PastStamp
  <1>2. /\ active' = {r}
        /\ pc'[r] = "post"
        /\ \A x \in Runs \ {r} : pc'[x] = pc[x]
        /\ pc' \in [Runs -> {"idle", "queued"} \cup Steps \cup Ended]
        /\ Serial'
      BY <1>1, GotoControl DEF StartPing, IInv, Steps
  <1>3. /\ net' \in [Runs -> Net]
        /\ net'[r].push = net[r].push /\ net'[r].try = net[r].try
        /\ net'[r].chunk = net[r].chunk /\ net'[r].landed = net[r].landed
        /\ net'[r].greeted = ok
      BY <1>1 DEF IInv, TypeOK, Net
  <1>4. /\ vendor' \in [start : SUBSET Days, success : SUBSET Days]
        /\ vendor'.success = vendor.success
        /\ vendor.start \subseteq vendor'.start
        /\ ok => Anchor(r) \in vendor'.start
      BY <1>1 DEF StartPing, Heard, IInv, TypeOK
  <1>5. TypeOK'
      BY <1>1, <1>2, <1>3, <1>4 DEF IInv, TypeOK
  <1>6. LoopsInBounds'
      BY <1>1, <1>2, <1>3 DEF IInv, LoopsInBounds
  <1>7. StampDurable'
      BY <1>1, <1>2 DEF IInv, StampDurable, PastStamp, Green, Anchor, Branch
  <1>8. OpenWhileSending'
      BY <1>1, <1>2, <1>3 DEF IInv, OpenWhileSending, Receipt, Anchor, Branch
  <1>9. ChunksPosted'
      BY <1>1, <1>2, <1>3 DEF IInv, LoopsInBounds, ChunksPosted
  <1>10. TimerKnown'
      BY <1>1, <1>2, <1>3, <1>4 DEF TimerKnown, Anchor
  <1>11. Durable'
      <2>1. ReceiptMeansDelivered' /\ SentOnlyAfterDurableStamp' /\ SuccessPingMeansDelivered'
          BY <1>1, <1>4 DEF IInv, Durable, ReceiptMeansDelivered, WholeDm,
                            SentOnlyAfterDurableStamp, SuccessPingMeansDelivered
      <2>2. CleanDmMeansTimerStarted'
          BY <1>1, <1>4 DEF IInv, Durable, CleanDmMeansTimerStarted
      <2> QED
          BY <2>1, <2>2 DEF Durable
  <1>12. GreenIsDurable'
      BY <1>1, <1>2 DEF IInv, GreenIsDurable, Green, Receipt, Anchor, Branch
  <1> QED
      BY <1>2, <1>5, <1>6, <1>7, <1>8, <1>9, <1>10, <1>11, <1>12 DEF IInv

(* What a POST may add to the chat, and what it leaves alone.              *)
LEMMA PostChat ==
  ASSUME IInv, NEW r \in Runs, NEW accepted \in BOOLEAN, NEW result, Post(r, accepted, result)
  PROVE  /\ chat \subseteq chat' /\ chat' \subseteq Message
         /\ \A m \in chat' \ chat : /\ m.run = r /\ m.branch = Branch(r)
                                    /\ m.anchor = Anchor(r)
                                    /\ m.missing = ~net[r].greeted
         /\ result = "ok" => \E m \in chat' : /\ m.run = r /\ m.branch = Branch(r)
                                              /\ m.anchor = Anchor(r)
                                              /\ m.chunk = net[r].chunk
  <1> DEFINE new == [branch |-> Branch(r), anchor |-> Anchor(r), run |-> r,
                     attempt |-> job[r].reruns, chunk |-> net[r].chunk,
                     try |-> net[r].try + 1, missing |-> ~net[r].greeted]
  <1>1. chat' = IF accepted THEN chat \cup {new} ELSE chat
      BY DEF Post
  <1>2. r \in active /\ pc[r] = "post" /\ (result = "ok" => accepted)
      BY DEF Post, At
  <1>3. new \in Message
      <2>1. Branch(r) \in Branches /\ Anchor(r) \in Days /\ job[r].reruns \in 0..MaxReruns
          BY <1>2 DEF IInv, TypeOK, Job, StampDurable, PastStamp, Branch
      <2>2. net[r].chunk \in 1..Chunks
          BY <1>2, ConstantsAssumption DEF IInv, TypeOK, Net, LoopsInBounds
      <2>3. net[r].try + 1 \in 1..MaxAttempts
          BY <1>2, ConstantsAssumption DEF IInv, TypeOK, Net, LoopsInBounds
      <2>4. (~net[r].greeted) \in BOOLEAN
          BY DEF IInv, TypeOK, Net
      <2> QED
          BY <2>1, <2>2, <2>3, <2>4 DEF Message
  <1>4. /\ new.run = r /\ new.branch = Branch(r) /\ new.anchor = Anchor(r)
        /\ new.missing = ~net[r].greeted /\ new.chunk = net[r].chunk
      OBVIOUS
  <1> HIDE DEF new
  <1> QED
      BY <1>1, <1>2, <1>3, <1>4 DEF IInv, TypeOK

(* A POST adds at most one chunk; the last OK completes the DM.          *)
LEMMA PostStep ==
  ASSUME IInv, NEW r \in Runs, NEW accepted \in BOOLEAN, NEW result,
         Post(r, accepted, result)
  PROVE  IInv'
  <1>1. /\ r \in active /\ pc[r] = "post" /\ active = {r}
        /\ UNCHANGED <<day, pending, job, stamps, receipts, vendor>>
        /\ Branch(r) \in Branches /\ Anchor(r) \in Days
        /\ <<Anchor(r), r>> \in stamps[Branch(r)]
      BY DEF Post, At, IInv, Serial, StampDurable, PastStamp, TypeOK, Job, Branch
  <1>2. \A x \in Runs : Anchor(x)' = Anchor(x) /\ Branch(x)' = Branch(x)
      BY <1>1 DEF Anchor, Branch
  <1>3. Durable'
      <2>1. ReceiptMeansDelivered' /\ SuccessPingMeansDelivered'
          BY <1>1, PostChat DEF IInv, Durable, ReceiptMeansDelivered,
                                SuccessPingMeansDelivered, WholeDm
      <2>2. SentOnlyAfterDurableStamp'
          <3> SUFFICES ASSUME NEW m \in chat' PROVE <<m.anchor, m.run>> \in stamps[m.branch]
              BY <1>1 DEF SentOnlyAfterDurableStamp
          <3>1. CASE m \in chat
              BY <3>1 DEF IInv, Durable, SentOnlyAfterDurableStamp
          <3>2. CASE m \notin chat
              BY <1>1, <3>2, PostChat
          <3> QED
              BY <3>1, <3>2
      <2>3. CleanDmMeansTimerStarted'
          <3> SUFFICES ASSUME NEW m \in chat', ~m.missing PROVE m.anchor \in vendor.start
              BY <1>1 DEF CleanDmMeansTimerStarted
          <3>1. CASE m \in chat
              BY <3>1 DEF IInv, Durable, CleanDmMeansTimerStarted
          <3>2. CASE m \notin chat
              <4>1. m.anchor = Anchor(r) /\ net[r].greeted
                  <5>1. net[r].greeted \in BOOLEAN
                      BY DEF IInv, TypeOK, Net
                  <5>2. m.anchor = Anchor(r) /\ m.missing = ~net[r].greeted
                      BY <3>2, PostChat
                  <5> QED
                      BY <5>1, <5>2
              <4> QED
                  BY <1>1, <4>1 DEF IInv, TimerKnown
          <3> QED
              BY <3>1, <3>2
      <2> QED
          BY <2>1, <2>2, <2>3 DEF Durable
  <1>4. \A b \in Branches, d \in Days, x \in Runs : WholeDm(x, b, d) => WholeDm(x, b, d)'
      BY PostChat DEF WholeDm
  (* The POST is answered, retried, or given up.                           *)
  <1>5. CASE /\ result = "ok"
             /\ net' = [net EXCEPT ![r].chunk = @ + 1, ![r].try = 0]
             /\ IF net[r].chunk < Chunks THEN UNCHANGED <<pc, active>>
                                         ELSE Goto(r, "successPing")
      <2>1. net[r].chunk \in 1..Chunks /\ net[r].chunk \in Nat
          BY <1>1, ConstantsAssumption DEF IInv, TypeOK, Net, LoopsInBounds
      <2>2. /\ net' \in [Runs -> Net]
            /\ net'[r].chunk = net[r].chunk + 1 /\ net'[r].try = 0
            /\ net'[r].push = net[r].push /\ net'[r].landed = net[r].landed
            /\ net'[r].greeted = net[r].greeted
          <3> DEFINE c == net[r].chunk + 1
          <3>1. c \in 1..(Chunks + 1) /\ 0 \in 0..MaxAttempts
              BY <2>1, ConstantsAssumption
          <3>2. net' = [net EXCEPT ![r] = [@ EXCEPT !.chunk = c, !.try = 0]]
              BY <1>5 DEF IInv, TypeOK
          <3>3. c = net[r].chunk + 1
              OBVIOUS
          <3> HIDE DEF c
          <3> QED
              BY <3>1, <3>2, <3>3 DEF IInv, TypeOK, Net
      <2>3. \A c \in 1..net[r].chunk : \E m \in chat' :
              m.run = r /\ m.branch = Branch(r) /\ m.anchor = Anchor(r) /\ m.chunk = c
          BY <1>1, <2>1, PostChat, <1>5 DEF IInv, ChunksPosted
      <2>4. CASE net[r].chunk < Chunks
          <3>1. UNCHANGED <<pc, active>>
              BY <1>5, <2>4
          <3>2. TypeOK' /\ Serial'
              BY <1>1, <2>2, <3>1, PostChat DEF IInv, TypeOK, Serial
          <3>3. LoopsInBounds'
              BY <1>1, <2>1, <2>2, <2>4, <3>1, ConstantsAssumption DEF IInv, LoopsInBounds
          <3>4. StampDurable' /\ GreenIsDurable'
              BY <1>1, <3>1 DEF IInv, StampDurable, GreenIsDurable, Receipt, Anchor, Branch
          <3>5. OpenWhileSending' /\ TimerKnown'
              BY <1>1, <1>2, <2>2, <3>1 DEF IInv, OpenWhileSending, TimerKnown, Receipt
          <3>6. ChunksPosted'
              BY <1>1, <1>2, <2>1, <2>2, <2>3, <3>1 DEF ChunksPosted
          <3> QED
              BY <1>3, <3>2, <3>3, <3>4, <3>5, <3>6 DEF IInv
      <2>5. CASE ~(net[r].chunk < Chunks)
          <3>1. /\ active' = {r}
                /\ pc'[r] = "successPing"
                /\ \A x \in Runs \ {r} : pc'[x] = pc[x]
                /\ pc' \in [Runs -> {"idle", "queued"} \cup Steps \cup Ended]
                /\ Serial'
              BY <1>1, <1>5, <2>5, GotoControl DEF IInv, Steps
          <3>2. TypeOK'
              BY <1>1, <2>2, <3>1, PostChat DEF IInv, TypeOK
          <3>3. LoopsInBounds'
              BY <1>1, <2>2, <3>1, ConstantsAssumption DEF IInv, LoopsInBounds
          <3>4. StampDurable' /\ GreenIsDurable'
              BY <1>1, <1>2, <3>1
              DEF IInv, StampDurable, GreenIsDurable, Receipt, PastStamp, Green
          <3>5. OpenWhileSending' /\ TimerKnown'
              BY <1>1, <1>2, <2>2, <3>1 DEF IInv, OpenWhileSending, TimerKnown, Receipt
          <3>6. net[r].chunk = Chunks
              BY <2>1, <2>5, ConstantsAssumption
          <3>7. ChunksPosted'
              BY <1>1, <1>2, <2>3, <3>1, <3>6 DEF ChunksPosted, WholeDm
          <3> QED
              BY <1>3, <3>1, <3>2, <3>3, <3>4, <3>5, <3>7 DEF IInv
      <2> QED
          BY <2>4, <2>5
  <1>6. CASE /\ net[r].try + 1 < MaxAttempts
             /\ net' = [net EXCEPT ![r].try = @ + 1]
             /\ UNCHANGED <<pc, active>>
      <2>1. /\ net' \in [Runs -> Net]
            /\ net'[r].chunk = net[r].chunk /\ net'[r].try = net[r].try + 1
            /\ net'[r].push = net[r].push /\ net'[r].landed = net[r].landed
            /\ net'[r].greeted = net[r].greeted
          <3> DEFINE t == net[r].try + 1
          <3>1. t \in 0..MaxAttempts
              BY <1>6, ConstantsAssumption DEF IInv, TypeOK, Net
          <3>2. net' = [net EXCEPT ![r] = [@ EXCEPT !.try = t]]
              BY <1>6 DEF IInv, TypeOK
          <3>3. t = net[r].try + 1
              OBVIOUS
          <3> HIDE DEF t
          <3> QED
              BY <3>1, <3>2, <3>3 DEF IInv, TypeOK, Net
      <2>2. TypeOK' /\ Serial'
          BY <1>1, <1>6, <2>1, PostChat DEF IInv, TypeOK, Serial
      <2>3. LoopsInBounds'
          BY <1>1, <1>6, <2>1 DEF IInv, LoopsInBounds
      <2>4. StampDurable' /\ GreenIsDurable'
          BY <1>1, <1>6 DEF IInv, StampDurable, GreenIsDurable, Receipt, Anchor, Branch
      <2>5. OpenWhileSending' /\ TimerKnown'
          BY <1>1, <1>2, <1>6, <2>1 DEF IInv, OpenWhileSending, TimerKnown, Receipt
      <2>6. ChunksPosted'
          BY <1>1, <1>2, <1>6, <2>1, PostChat DEF IInv, ChunksPosted
      <2> QED
          BY <1>3, <2>2, <2>3, <2>4, <2>5, <2>6 DEF IInv
  <1>7. CASE End(r, "failed") /\ UNCHANGED net
      <2>1. /\ active' = {}
            /\ pc'[r] = "failed"
            /\ \A x \in Runs \ {r} : pc'[x] = pc[x]
            /\ pc' \in [Runs -> {"idle", "queued"} \cup Steps \cup Ended]
            /\ Serial' /\ LoopsInBounds' /\ OpenWhileSending'
            /\ ChunksPosted' /\ TimerKnown'
          BY <1>1, <1>7, EndControl DEF IInv, Ended
      <2>2. TypeOK'
          BY <1>1, <1>7, <2>1, PostChat DEF IInv, TypeOK
      <2>3. StampDurable' /\ GreenIsDurable'
          BY <1>1, <1>2, <2>1
          DEF IInv, StampDurable, GreenIsDurable, Receipt, PastStamp, Green
      <2> QED
          BY <1>3, <2>1, <2>2, <2>3 DEF IInv
  <1> QED
      BY <1>5, <1>6, <1>7 DEF Post, NotSent

(* The success ping is sent behind a whole DM.                           *)
LEMMA SuccessPingStep ==
  ASSUME IInv, NEW r \in Runs, NEW heard \in BOOLEAN, SuccessPing(r, heard)
  PROVE  IInv'
  <1>1. /\ r \in active /\ pc[r] = "successPing"
        /\ UNCHANGED <<day, pending, job, net, stamps, receipts, chat>>
        /\ Anchor(r) \in Days /\ Branch(r) \in Branches
      BY DEF SuccessPing, At, IInv, TypeOK, Job, StampDurable, PastStamp, Branch
  <1>2. /\ active' = {r}
        /\ pc'[r] = "pushReceipt"
        /\ \A x \in Runs \ {r} : pc'[x] = pc[x]
        /\ pc' \in [Runs -> {"idle", "queued"} \cup Steps \cup Ended]
        /\ Serial'
      BY <1>1, GotoControl DEF SuccessPing, IInv, Steps
  <1>3. /\ vendor' \in [start : SUBSET Days, success : SUBSET Days]
        /\ vendor'.start = vendor.start
        /\ vendor'.success \subseteq vendor.success \cup {Anchor(r)}
      BY <1>1 DEF SuccessPing, Heard, IInv, TypeOK
  <1>4. TypeOK'
      BY <1>1, <1>2, <1>3 DEF IInv, TypeOK
  <1>5. LoopsInBounds'
      BY <1>1, <1>2 DEF IInv, LoopsInBounds
  <1>6. StampDurable' /\ GreenIsDurable'
      BY <1>1, <1>2
      DEF IInv, StampDurable, GreenIsDurable, PastStamp, Green, Receipt, Anchor, Branch
  <1>7. OpenWhileSending'
      BY <1>1, <1>2 DEF IInv, OpenWhileSending, Receipt, Anchor, Branch
  <1>8. ChunksPosted' /\ TimerKnown'
      BY <1>1, <1>2 DEF IInv, ChunksPosted, TimerKnown, WholeDm, Anchor, Branch
  <1>9. Durable'
      <2>1. ReceiptMeansDelivered' /\ SentOnlyAfterDurableStamp' /\ CleanDmMeansTimerStarted'
          BY <1>1, <1>3 DEF IInv, Durable, ReceiptMeansDelivered, WholeDm,
                            SentOnlyAfterDurableStamp, CleanDmMeansTimerStarted
      <2>2. WholeDm(r, Branch(r), Anchor(r))
          BY <1>1 DEF IInv, ChunksPosted
      <2>3. SuccessPingMeansDelivered'
          BY <1>1, <1>3, <2>2 DEF IInv, Durable, SuccessPingMeansDelivered, WholeDm
      <2> QED
          BY <2>1, <2>3 DEF Durable
  <1> QED
      BY <1>2, <1>4, <1>5, <1>6, <1>7, <1>8, <1>9 DEF IInv

(* An accepted receipt push closes the anchor of the run.                  *)
LEMMA ReceiptPushed ==
  ASSUME IInv, NEW r \in Runs, NEW accepted \in BOOLEAN, NEW acked \in BOOLEAN,
         PushReceipt(r, accepted, acked)
  PROVE  /\ receipts' \in [Branches -> [Days -> Runs \cup {NoRun}]]
         /\ \A b \in Branches, d \in Days :
               \/ receipts'[b][d] = receipts[b][d]
               \/ /\ accepted /\ b = Branch(r) /\ d = Anchor(r)
                  /\ receipts'[b][d] = r
                  /\ receipts[b][d] \in {NoRun, r}
         /\ Receipt(r) \in {NoRun, r}
         /\ Receipt(r)' = IF accepted \/ net[r].landed THEN r ELSE NoRun
         /\ WholeDm(r, Branch(r), Anchor(r))
  <1>1. /\ r \in active /\ pc[r] = "pushReceipt" /\ job' = job
        /\ Anchor(r) \in Days /\ Branch(r) \in Branches
      BY DEF PushReceipt, At, IInv, TypeOK, Job, StampDurable, PastStamp, Branch
  <1>2. Receipt(r) = IF net[r].landed THEN r ELSE NoRun
      BY <1>1 DEF IInv, OpenWhileSending
  <1>3. WholeDm(r, Branch(r), Anchor(r))
      BY <1>1 DEF IInv, ChunksPosted
  <1>4. Anchor(r)' = Anchor(r) /\ Branch(r)' = Branch(r)
      BY <1>1 DEF Anchor, Branch
  <1>5. CASE accepted
      <2>1. receipts' = [receipts EXCEPT ![Branch(r)][Anchor(r)] = r]
          BY <1>5 DEF PushReceipt
      <2>2. /\ receipts' \in [Branches -> [Days -> Runs \cup {NoRun}]]
            /\ receipts'[Branch(r)][Anchor(r)] = r
            /\ \A b \in Branches, d \in Days :
                  (b # Branch(r) \/ d # Anchor(r)) => receipts'[b][d] = receipts[b][d]
          BY <1>1, <2>1 DEF IInv, TypeOK
      <2> QED
          BY <1>2, <1>3, <1>4, <1>5, <2>2 DEF Receipt
  <1>6. CASE ~accepted
      BY <1>2, <1>3, <1>4, <1>6 DEF PushReceipt, Receipt, IInv, TypeOK
  <1> QED
      BY <1>5, <1>6

(* The receipt push: what lands on the tip is behind a whole DM.         *)
LEMMA PushReceiptStep ==
  ASSUME IInv, NEW r \in Runs, NEW accepted \in BOOLEAN, NEW acked \in BOOLEAN,
         PushReceipt(r, accepted, acked)
  PROVE  IInv'
  <1>1. /\ r \in active /\ pc[r] = "pushReceipt" /\ active = {r}
        /\ UNCHANGED <<day, pending, job, stamps, chat, vendor>>
        /\ acked => accepted
      BY DEF PushReceipt, PushAttempt, At, IInv, Serial
  <1> DEFINE onAck == End(r, "delivered")
             taken == Receipt(r) # NoRun
  <1>2. PushAttempt(r, accepted, acked, taken, onAck)
      BY DEF PushReceipt
  <1>3. /\ net' \in [Runs -> Net]
        /\ net'[r].landed = (net[r].landed \/ accepted)
        /\ net'[r].try = net[r].try
        /\ net'[r].chunk = net[r].chunk
        /\ \/ acked /\ onAck
           \/ UNCHANGED <<pc, active>> /\ ~acked /\ net'[r].push < MaxPush
           \/ End(r, "failed") /\ ~acked
      <2> HIDE DEF onAck, taken
      <2> QED
          BY <1>1, <1>2, PushAttemptControl DEF IInv
  <1>4. \A x \in Runs : Anchor(x)' = Anchor(x) /\ Branch(x)' = Branch(x)
      BY <1>1 DEF Anchor, Branch
  <1>5. Durable'
      <2>1. SentOnlyAfterDurableStamp' /\ SuccessPingMeansDelivered' /\ CleanDmMeansTimerStarted'
          BY <1>1 DEF IInv, Durable, WholeDm, SentOnlyAfterDurableStamp,
                      SuccessPingMeansDelivered, CleanDmMeansTimerStarted
      <2>2. ReceiptMeansDelivered'
          BY <1>1, ReceiptPushed DEF IInv, Durable, ReceiptMeansDelivered, WholeDm
      <2> QED
          BY <2>1, <2>2 DEF Durable
  (* No other run loses the receipt its colour rests on.                   *)
  <1>6. \A x \in Runs \ {r} : pc'[x] = pc[x] =>
            (pc'[x] \in Green => /\ <<Anchor(x), x>> \in stamps[Branch(x)]
                                 /\ pc'[x] = "already_delivered" => Receipt(x)' # NoRun
                                 /\ pc'[x] = "delivered" => Receipt(x)' = x)
      <2> SUFFICES ASSUME NEW x \in Runs \ {r}, pc'[x] = pc[x], pc[x] \in Green
                   PROVE  /\ <<Anchor(x), x>> \in stamps[Branch(x)]
                          /\ pc[x] = "already_delivered" => Receipt(x)' # NoRun
                          /\ pc[x] = "delivered" => Receipt(x)' = x
          OBVIOUS
      <2>1. Branch(x) \in Branches /\ Anchor(x) \in Days
          BY DEF IInv, TypeOK, Job, StampDurable, Branch
      <2>2. \/ Receipt(x)' = Receipt(x)
            \/ Receipt(x)' = r /\ Receipt(x) \in {NoRun, r}
          BY <1>4, <2>1, ReceiptPushed DEF Receipt
      <2> QED
          BY <2>2, ConstantsAssumption DEF IInv, GreenIsDurable
  <1>7. CASE UNCHANGED <<pc, active>> /\ ~acked /\ net'[r].push < MaxPush
      <2>1. TypeOK' /\ Serial'
          BY <1>1, <1>3, <1>7, ReceiptPushed DEF IInv, TypeOK, Serial
      <2>2. LoopsInBounds'
          BY <1>1, <1>3, <1>7 DEF IInv, LoopsInBounds
      <2>3. StampDurable'
          BY <1>1, <1>4, <1>7 DEF IInv, StampDurable
      <2>4. OpenWhileSending'
          <3>1. Receipt(r)' = IF net'[r].landed THEN r ELSE NoRun
              <4>1. Receipt(r)' = IF accepted \/ net[r].landed THEN r ELSE NoRun
                  BY ReceiptPushed
              <4> QED
                  BY <1>3, <4>1
          <3>2. \A x \in active' : x = r /\ pc'[x] = "pushReceipt"
              BY <1>1, <1>7
          <3> QED
              BY <3>1, <3>2 DEF OpenWhileSending
      <2>5. ChunksPosted' /\ TimerKnown'
          BY <1>1, <1>4, <1>7 DEF IInv, ChunksPosted, TimerKnown, WholeDm
      <2>6. GreenIsDurable'
          BY <1>1, <1>4, <1>6, <1>7 DEF GreenIsDurable, Green
      <2> QED
          BY <1>5, <2>1, <2>2, <2>3, <2>4, <2>5, <2>6 DEF IInv
  <1>8. ASSUME NEW how \in {"failed", "delivered"}, End(r, how), how = "delivered" => acked
        PROVE  IInv'
      <2>1. /\ active' = {}
            /\ pc'[r] = how
            /\ \A x \in Runs \ {r} : pc'[x] = pc[x]
            /\ pc' \in [Runs -> {"idle", "queued"} \cup Steps \cup Ended]
            /\ Serial' /\ LoopsInBounds' /\ OpenWhileSending'
            /\ ChunksPosted' /\ TimerKnown'
          BY <1>1, <1>8, EndControl DEF IInv, Ended, Green
      <2>2. TypeOK'
          BY <1>1, <1>3, <2>1, ReceiptPushed DEF IInv, TypeOK
      <2>3. StampDurable'
          BY <1>1, <1>4, <2>1 DEF IInv, StampDurable, PastStamp, Green
      <2>4. <<Anchor(r), r>> \in stamps[Branch(r)] /\ (how = "delivered" => Receipt(r)' = r)
          BY <1>1, <1>8, ReceiptPushed DEF IInv, StampDurable, PastStamp
      <2>5. GreenIsDurable'
          BY <1>1, <1>4, <1>6, <2>1, <2>4 DEF GreenIsDurable, Green
      <2> QED
          BY <1>5, <2>1, <2>2, <2>3, <2>5 DEF IInv
  <1> QED
      BY <1>3, <1>7, <1>8

(* Midnight passes between two steps of a run and disturbs nothing.      *)
LEMMA NextDayStep ==
  ASSUME IInv, NextDay
  PROVE  IInv'
  <1>1. day' \in Days /\ UNCHANGED <<active, pending, pc, job, net, stamps, receipts, chat, vendor>>
      BY ConstantsAssumption DEF NextDay, IInv, TypeOK, Days
  <1>2. TypeOK'
      BY <1>1 DEF IInv, TypeOK
  <1>3. Serial' /\ LoopsInBounds' /\ StampDurable' /\ OpenWhileSending' /\ TimerKnown'
      BY <1>1 DEF IInv, Serial, LoopsInBounds, StampDurable, OpenWhileSending,
                  TimerKnown, Receipt, Anchor, Branch
  <1>4. ChunksPosted' /\ GreenIsDurable'
      BY <1>1 DEF IInv, ChunksPosted, GreenIsDurable, WholeDm, Receipt, Anchor, Branch
  <1>5. Durable'
      BY <1>1, DurableFrame DEF IInv
  <1> QED
      BY <1>2, <1>3, <1>4, <1>5 DEF IInv

(* A stuttering step.                                                    *)
LEMMA StutterStep ==
  ASSUME IInv, UNCHANGED vars
  PROVE  IInv'
  <1>1. TypeOK'
      BY DEF IInv, TypeOK, vars
  <1>2. Serial' /\ LoopsInBounds' /\ StampDurable' /\ OpenWhileSending' /\ TimerKnown'
      BY DEF IInv, Serial, LoopsInBounds, StampDurable, OpenWhileSending,
             TimerKnown, Receipt, Anchor, Branch, vars
  <1>3. ChunksPosted' /\ GreenIsDurable'
      BY DEF IInv, ChunksPosted, GreenIsDurable, WholeDm, Receipt, Anchor, Branch, vars
  <1>4. Durable'
      BY DurableFrame DEF IInv, vars
  <1> QED
      BY <1>1, <1>2, <1>3, <1>4 DEF IInv

-----------------------------------------------------------------------------
(* The invariant is inductive.                                           *)
LEMMA StepIInv == IInv /\ [Next]_vars => IInv'
  <1> SUFFICES ASSUME IInv, [Next]_vars PROVE IInv'
      OBVIOUS
  <1>1. CASE UNCHANGED vars
      BY <1>1, StutterStep
  <1>2. CASE StartPending
      BY <1>2, StartPendingStep
  <1>3. CASE NextDay
      BY <1>3, NextDayStep
  <1>4. ASSUME NEW r \in Runs, NEW m \in Modes, NEW b \in Branches, Trigger(r, m, b)
        PROVE  IInv'
      BY <1>4, TriggerStep
  <1>5. ASSUME NEW r \in Runs, NEW all \in BOOLEAN, Rerun(r, all)
        PROVE  IInv'
      BY <1>5, RerunStep
  <1>6. ASSUME NEW r \in Runs, Work(r)
        PROVE  IInv'
      <2>1. CASE Stamp(r) \/ GateSoftSkip(r) \/ GateProceed(r)
          BY <2>1, StampStep, GateSoftSkipStep, GateProceedStep
      <2>2. CASE Brief(r) \/ Prove(r) \/ StepFails(r)
          BY <2>2, BriefStep, ProveStep, StepFailsStep
      <2>3. ASSUME NEW heard \in BOOLEAN, NEW ok \in BOOLEAN,
                   PushStamp(r, heard, ok) \/ PushReceipt(r, heard, ok) \/ StartPing(r, heard, ok)
            PROVE  IInv'
          BY <2>3, PushStampStep, PushReceiptStep, StartPingStep
      <2>4. ASSUME NEW heard \in BOOLEAN, GateAlreadyDelivered(r, heard) \/ SuccessPing(r, heard)
            PROVE  IInv'
          BY <2>4, GateAlreadyDeliveredStep, SuccessPingStep
      <2>5. ASSUME NEW accepted \in BOOLEAN, NEW result \in {"ok", "retry", "fatal"},
                   Post(r, accepted, result)
            PROVE  IInv'
          BY <2>5, PostStep
      <2> QED
          BY <1>6, <2>1, <2>2, <2>3, <2>4, <2>5 DEF Work
  <1> QED
      BY <1>1, <1>2, <1>3, <1>4, <1>5, <1>6 DEF Next

(* The inductive invariant holds in every reachable state.               *)
THEOREM Invariance == Spec => []IInv
  <1>1. Init => IInv
      BY InitIInv
  <1>2. IInv /\ [Next]_vars => IInv'
      BY StepIInv
  <1> QED
      BY <1>1, <1>2, PTL DEF Spec

-----------------------------------------------------------------------------
(* The theorems.                                                           *)

(* Every variable keeps its type, for any number of runs and any bounds:   *)
(* the loops of the workflow stop at their last attempt.                   *)
THEOREM TypeCorrect == Spec => []TypeOK
  BY Invariance, PTL DEF IInv

(* A deliver receipt on a branch tip is only ever left by a run whose      *)
(* whole DM reached the Principal.                                         *)
THEOREM ReceiptCorrect == Spec => []ReceiptMeansDelivered
  <1>1. IInv => ReceiptMeansDelivered
      BY DEF IInv, Durable
  <1> QED
      BY <1>1, Invariance, PTL

(* Nothing is sent by a run whose completion row is not on its branch.     *)
THEOREM StampCorrect == Spec => []SentOnlyAfterDurableStamp
  <1>1. IInv => SentOnlyAfterDurableStamp
      BY DEF IInv, Durable
  <1> QED
      BY <1>1, Invariance, PTL

(* A green run left on its branch what its colour claims.                  *)
THEOREM GreenCorrect == Spec => []GreenIsDurable
  <1>1. IInv => GreenIsDurable
      BY DEF IInv
  <1> QED
      BY <1>1, Invariance, PTL

(* The dead-man vendor hears success only of an anchor some run delivered. *)
THEOREM PingsCorrect == Spec => []SuccessPingMeansDelivered
  <1>1. IInv => SuccessPingMeansDelivered
      BY DEF IInv, Durable
  <1> QED
      BY <1>1, Invariance, PTL

(* A DM without the DEADMAN: MISSING line had its timer started, whatever  *)
(* runs fire, are re-run or cancelled for the same anchor.                 *)
THEOREM TimerCorrect == Spec => []CleanDmMeansTimerStarted
  <1>1. IInv => CleanDmMeansTimerStarted
      BY DEF IInv, Durable
  <1> QED
      BY <1>1, Invariance, PTL

(* A message enters the chat only while its anchor has no receipt.         *)
LEMMA NewMessageOpen ==
  ASSUME IInv, [Next]_vars, NEW m \in chat' \ chat
  PROVE  /\ receipts[m.branch][m.anchor] = NoRun
         /\ \E r \in Runs, accepted \in BOOLEAN, result \in {"ok", "retry", "fatal"} :
               Post(r, accepted, result)
  <1>1. PICK r \in Runs, accepted \in BOOLEAN, result \in {"ok", "retry", "fatal"} :
          Post(r, accepted, result)
      <2>1. ~UNCHANGED vars /\ ~StartPending /\ ~NextDay
          BY DEF vars, StartPending, NextDay
      <2>2. \A r \in Runs : /\ \A x \in Modes, b \in Branches : ~Trigger(r, x, b)
                           /\ \A all \in BOOLEAN : ~Rerun(r, all)
          BY DEF Trigger, Rerun, Enqueue
      <2>3. PICK r \in Runs : Work(r)
          BY <2>1, <2>2 DEF Next
      <2>4. ~Stamp(r) /\ ~GateSoftSkip(r) /\ ~GateProceed(r) /\ ~Brief(r) /\ ~Prove(r) /\ ~StepFails(r)
          BY DEF Stamp, GateSoftSkip, GateProceed, Brief, Prove, StepFails
      <2>5. \A x, y \in BOOLEAN : ~PushStamp(r, x, y) /\ ~PushReceipt(r, x, y) /\ ~StartPing(r, x, y)
          BY DEF PushStamp, PushReceipt, StartPing
      <2>6. \A x \in BOOLEAN : ~GateAlreadyDelivered(r, x) /\ ~SuccessPing(r, x)
          BY DEF GateAlreadyDelivered, SuccessPing
      <2> QED
          BY <2>3, <2>4, <2>5, <2>6 DEF Work
  <1>2. r \in active /\ pc[r] = "post"
      BY <1>1 DEF Post, At
  <1>3. Receipt(r) = NoRun
      BY <1>2 DEF IInv, OpenWhileSending
  <1>4. m.branch = Branch(r) /\ m.anchor = Anchor(r)
      BY <1>1, PostChat
  <1> QED
      BY <1>1, <1>3, <1>4 DEF Receipt

(* Once the receipt of an anchor is on a branch, no run on that branch     *)
(* sends for the anchor again.                                             *)
THEOREM NoResend == Spec => NoDmAfterReceipt
  <1>1. IInv /\ [Next]_vars =>
          [\A m \in chat' \ chat : receipts[m.branch][m.anchor] = NoRun]_vars
      BY NewMessageOpen
  <1> QED
      BY <1>1, Invariance, PTL DEF Spec, NoDmAfterReceipt

(* A POST is, for the abstract anchor, a chunk that appears or nothing.    *)
LEMMA PostRefines ==
  ASSUME IInv, NEW r \in Runs, NEW accepted \in BOOLEAN, NEW result,
         Post(r, accepted, result)
  PROVE  (\E m \in Message : Promise!Appear(m)) \/ UNCHANGED <<chat, receipts>>
  <1>1. Receipt(r) = NoRun /\ receipts' = receipts
      BY DEF Post, At, IInv, OpenWhileSending
  <1>2. CASE chat' = chat
      BY <1>1, <1>2
  <1>3. CASE chat' # chat
      <2>1. PICK m : chat' = chat \cup {m} /\ m \notin chat
          BY <1>3 DEF Post
      <2>2. m \in Message /\ m.branch = Branch(r) /\ m.anchor = Anchor(r)
          BY <2>1, PostChat
      <2>3. Promise!Appear(m)
          BY <1>1, <2>1, <2>2 DEF Promise!Appear, Promise!Open, Receipt
      <2> QED
          BY <2>2, <2>3
  <1> QED
      BY <1>2, <1>3

(* A receipt push is, for the abstract anchor, its closing or nothing.     *)
LEMMA PushReceiptRefines ==
  ASSUME IInv, NEW r \in Runs, NEW accepted \in BOOLEAN, NEW acked \in BOOLEAN,
         PushReceipt(r, accepted, acked)
  PROVE  \/ \E b \in Branches, d \in Days, s \in Runs : Promise!Close(b, d, s)
         \/ UNCHANGED <<chat, receipts>>
  <1>1. Anchor(r) \in Days /\ Branch(r) \in Branches /\ chat' = chat
      BY DEF PushReceipt, At, IInv, TypeOK, Job, StampDurable, PastStamp, Branch
  <1>2. WholeDm(r, Branch(r), Anchor(r)) /\ Receipt(r) \in {NoRun, r}
      BY ReceiptPushed
  <1>3. CASE ~accepted
      BY <1>1, <1>3 DEF PushReceipt
  <1>4. CASE accepted /\ Receipt(r) = r
      <2>1. receipts' = [receipts EXCEPT ![Branch(r)][Anchor(r)] = receipts[Branch(r)][Anchor(r)]]
          BY <1>4 DEF PushReceipt, Receipt
      <2>2. receipts' = receipts
          BY <1>1, <2>1 DEF IInv, TypeOK
      <2> QED
          BY <1>1, <2>2
  <1>5. CASE accepted /\ Receipt(r) = NoRun
      <2>1. receipts' = [receipts EXCEPT ![Branch(r)][Anchor(r)] = r]
          BY <1>5 DEF PushReceipt
      <2>2. Promise!Close(Branch(r), Anchor(r), r)
          BY <1>1, <1>2, <1>5, <2>1 DEF Promise!Close, Promise!Open, Receipt, WholeDm
      <2> QED
          BY <1>1, <2>2
  <1> QED
      BY <1>2, <1>3, <1>4, <1>5

(* The workflow implements the promise: whatever fails, is retried, queued *)
(* or re-run, an anchor is closed once, and only by a whole DM.            *)
THEOREM Refinement == Spec => KeepsPromise
  <1>1. Init => Promise!Init
      BY DEF Init, Promise!Init
  <1>2. IInv /\ [Next]_vars => [Promise!Next]_(Promise!vars)
      <2> SUFFICES ASSUME IInv, [Next]_vars
                   PROVE  Promise!Next \/ UNCHANGED <<chat, receipts>>
          BY DEF Promise!vars
      <2>1. CASE UNCHANGED vars \/ StartPending \/ NextDay
          BY <2>1 DEF vars, StartPending, NextDay
      <2>2. ASSUME NEW r \in Runs,
                   \/ \E m \in Modes, b \in Branches : Trigger(r, m, b)
                   \/ \E all \in BOOLEAN : Rerun(r, all)
            PROVE  UNCHANGED <<chat, receipts>>
          BY <2>2 DEF Trigger, Rerun, Enqueue
      <2>3. ASSUME NEW r \in Runs, Work(r)
            PROVE  Promise!Next \/ UNCHANGED <<chat, receipts>>
          <3>1. CASE Stamp(r) \/ GateSoftSkip(r) \/ GateProceed(r) \/ Brief(r) \/ Prove(r) \/ StepFails(r)
              BY <3>1 DEF Stamp, GateSoftSkip, GateProceed, Brief, Prove, StepFails
          <3>2. ASSUME NEW x \in BOOLEAN, NEW y \in BOOLEAN,
                       PushStamp(r, x, y) \/ StartPing(r, x, y)
                PROVE  UNCHANGED <<chat, receipts>>
              BY <3>2 DEF PushStamp, StartPing
          <3>3. ASSUME NEW x \in BOOLEAN, GateAlreadyDelivered(r, x) \/ SuccessPing(r, x)
                PROVE  UNCHANGED <<chat, receipts>>
              BY <3>3 DEF GateAlreadyDelivered, SuccessPing
          <3>4. ASSUME NEW x \in BOOLEAN, NEW y \in BOOLEAN, PushReceipt(r, x, y)
                PROVE  Promise!Next \/ UNCHANGED <<chat, receipts>>
              BY <3>4, PushReceiptRefines DEF Promise!Next
          <3>5. ASSUME NEW accepted \in BOOLEAN, NEW result \in {"ok", "retry", "fatal"},
                       Post(r, accepted, result)
                PROVE  Promise!Next \/ UNCHANGED <<chat, receipts>>
              BY <3>5, PostRefines DEF Promise!Next
          <3> QED
              BY <2>3, <3>1, <3>2, <3>3, <3>4, <3>5 DEF Work
      <2> QED
          BY <2>1, <2>2, <2>3 DEF Next
  <1> QED
      BY <1>1, <1>2, Invariance, PTL DEF Spec, KeepsPromise, Promise!Spec
=============================================================================
