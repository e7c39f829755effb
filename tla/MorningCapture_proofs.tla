----------------------- MODULE MorningCapture_proofs -----------------------
(***************************************************************************)
(* Theorems about MorningCapture for any number of invocations, anchors    *)
(* and rows of a capture.                                                  *)
(***************************************************************************)
EXTENDS MorningCapture, FiniteSetTheorems, TLAPS

-----------------------------------------------------------------------------
(* The inductive invariant, conjunct by conjunct.                          *)

(* The invocations that have read the clock.                               *)
Stamped == {r \in Runs : run[r].at # 0}

RowsOf(r) == {o \in rows : o.by = r}

(* The clock counts the invocations that have read it, each at a tick of   *)
(* its own, and an invocation reads it after those that had exited.        *)
ClockTicks ==
    /\ clock = Cardinality(Stamped)
    /\ \A r \in Runs : run[r].at <= clock
    /\ \A r, s \in Stamped : run[r].at = run[s].at => r = s
    /\ \A r \in Runs :
          /\ run[r].pc \in {"idle", "count", "clock"} => run[r].at = 0
          /\ run[r].pc \in {"prior", "persist", "readBack"} => run[r].at # 0
    /\ \A r \in Stamped : \A q \in run[r].before : run[q].at < run[r].at

(* What had exited at the start of an invocation has exited.               *)
History == \A r \in Runs : \A q \in run[r].before : run[q].pc = "exited"

(* The rows of an invocation are all of its capture or none, and none      *)
(* before it persists.                                                     *)
Committed == {"readBack", "ended", "exited"}
RowsAreCaptures ==
    /\ \A o \in rows : run[o.by].pc \in Committed /\ o \in Capture(o.by)
    /\ \A o \in rows : run[o.by].at # 0 /\ Capture(o.by) \subseteq rows
    /\ \A r \in Runs : run[r].pc = "readBack" => Capture(r) \subseteq rows

(* A morning capture that counted no row of its anchor meets there only    *)
(* rows of invocations that overlap it.                                    *)
AnchorWasFree ==
    \A r \in Runs : ~run[r].proof /\ run[r].pc \in {"clock", "prior", "persist"} =>
        \A o \in OfAnchor(run[r].anchor) : o.by \notin run[r].before

(* The prior an invocation is about to write.                              *)
PriorFound ==
    \A r \in Runs : run[r].pc = "persist" =>
        /\ run[r].prior # 0 => \E p \in rows :
              ~p.proof /\ p.anchor # run[r].anchor /\ p.at = run[r].prior
                /\ p.at < run[r].at
        /\ \A p \in rows :
              ~p.proof /\ p.anchor # run[r].anchor /\ p.by \in run[r].before
                  => p.at <= run[r].prior

(* A line other than FAILED is the last thing a body does.                 *)
LineComesLast ==
    \A r \in Runs :
        /\ run[r].line \in {"rows", "exists"} => run[r].pc \in {"ended", "exited"}
        /\ run[r].line = "rows" => Capture(r) \subseteq rows

IInv ==
    /\ TypeOK
    /\ ClockTicks
    /\ History
    /\ RowsAreCaptures
    /\ AnchorWasFree
    /\ PriorFound
    /\ LineComesLast
    /\ OneCapturePerAnchor
    /\ PriorIsLatest
    /\ LineIsTrue

-----------------------------------------------------------------------------
(* Counting.                                                               *)

(* There are finitely many invocations, and the ticks are numbers.         *)
LEMMA TimesAreNumbers == Cardinality(Runs) \in Nat /\ Times \subseteq Nat
  BY CaptureAssumption, FS_CardinalityType DEF Times

(* One more invocation reads the clock.                                    *)
LEMMA OneMoreStamp ==
  ASSUME NEW S \in SUBSET Runs, NEW r \in Runs \ S
  PROVE  /\ Cardinality(S \cup {r}) = Cardinality(S) + 1
         /\ Cardinality(S) \in Nat
         /\ Cardinality(S) + 1 <= Cardinality(Runs)
  <1>1. IsFiniteSet(S) /\ Cardinality(S) \in Nat
      BY CaptureAssumption, FS_Subset, FS_CardinalityType
  <1>2. Cardinality(S \cup {r}) = Cardinality(S) + 1
      BY <1>1, FS_AddElement
  <1>3. Cardinality(S \cup {r}) <= Cardinality(Runs)
      BY CaptureAssumption, FS_Subset
  <1> QED
      BY <1>1, <1>2, <1>3

(* A capture has at least one row, and no more than the count's type says. *)
LEMMA CaptureSize ==
  ASSUME NEW r \in Runs
  PROVE  /\ Cardinality(Capture(r)) \in 0..Cardinality(Runs \X Names)
         /\ Cardinality(Capture(r)) > 0
  <1> DEFINE f == [o \in Capture(r) |-> <<r, o.name>>]
  <1>1. IsFiniteSet(Runs \X Names) /\ Cardinality(Runs \X Names) \in Nat
      BY CaptureAssumption, FS_Product, FS_CardinalityType
  <1>2. f \in Injection(Capture(r), Runs \X Names)
      <2>1. f \in [Capture(r) -> Runs \X Names]
          BY DEF Capture
      <2>2. ASSUME NEW o \in Capture(r), NEW p \in Capture(r), f[o] = f[p]
            PROVE  o = p
          <3>1. o.name = p.name
              BY <2>2
          <3> QED
              BY <3>1 DEF Capture
      <2>3. \A o, p \in Capture(r) : f[o] = f[p] => o = p
          BY <2>2
      <2> HIDE DEF f
      <2> QED
          BY <2>1, <2>3 DEF Injection, IsInjective
  <1>3. /\ IsFiniteSet(Capture(r))
        /\ Cardinality(Capture(r)) <= Cardinality(Runs \X Names)
      BY <1>1, <1>2, FS_Injection
  <1>4. Capture(r) # {}
      BY CaptureAssumption DEF Capture
  <1> QED
      BY <1>1, <1>3, <1>4, FS_EmptySet, FS_CardinalityType

(* The rows of an invocation, once there, are its capture.                 *)
LEMMA RowsOfCapture ==
  ASSUME RowsAreCaptures, TypeOK, NEW r \in Runs, Capture(r) \subseteq rows
  PROVE  RowsOf(r) = Capture(r)
  <1>1. \A o \in Capture(r) : o.by = r
      BY DEF Capture
  <1> QED
      BY <1>1 DEF RowsOf, RowsAreCaptures

-----------------------------------------------------------------------------
(* The prior query: ORDER BY captured_at DESC LIMIT 1.                     *)

(* Of some ticks there is a last one.                                      *)
LEMMA LastTick ==
  ASSUME NEW times \in SUBSET Times, times # {}
  PROVE  \E t \in times : \A u \in times : u <= t
  <1> DEFINE R == OpToRel(<, Nat)
             n == Cardinality(Runs)
             T == {n - t : t \in times}
  <1>1. n \in Nat /\ \A t \in times : t \in Nat /\ t <= n
      BY TimesAreNumbers DEF Times
  <1>2. T \subseteq Nat /\ T # {}
      BY <1>1
  <1>3. IsWellFoundedOn(R, Nat)
      BY NatLessThanWellFounded
  <1>4. \E x \in T : \A y \in T : ~(<<y, x>> \in R)
      <2> HIDE DEF R, T
      <2> QED
          BY <1>2, <1>3, WFMin
  <1>5. PICK t \in times : \A u \in times : ~(<<n - u, n - t>> \in R)
      BY <1>4
  <1>6. \A u \in times : ~(n - u < n - t)
      BY <1>1, <1>2, <1>5 DEF OpToRel
  <1> QED
      BY <1>1, <1>6

(* What the query returns: the last of the ticks, or none.                 *)
LEMMA LatestIs ==
  ASSUME NEW times \in SUBSET Times
  PROVE  /\ times = {} => Latest(times) = 0
         /\ times # {} => Latest(times) \in times
         /\ \A u \in times : u <= Latest(times)
  <1>1. CASE times = {}
      BY <1>1 DEF Latest
  <1>2. CASE times # {}
      BY <1>2, LastTick DEF Latest
  <1> QED
      BY <1>1, <1>2

-----------------------------------------------------------------------------
(* The initial states satisfy the invariant.                               *)
LEMMA InitIInv == Init => IInv
  <1> SUFFICES ASSUME Init PROVE IInv
      OBVIOUS
  <1> USE CaptureAssumption, TimesAreNumbers DEF Init
  <1>1. \A r \in Runs : /\ run[r].pc = "idle" /\ run[r].proof = FALSE
                        /\ run[r].anchor \in Anchors /\ run[r].at = 0
                        /\ run[r].prior = 0 /\ run[r].line = "none"
                        /\ run[r].count = 0 /\ run[r].before = {}
      OBVIOUS
  <1>2. TypeOK
      <2>1. Cardinality(Runs \X Names) \in Nat
          BY FS_Product, FS_CardinalityType
      <2>2. 0 \in Times /\ 0 \in 0..Cardinality(Runs \X Names)
          BY <2>1 DEF Times
      <2>3. [pc: {"idle"}, proof: {FALSE}, anchor: {CHOOSE a \in Anchors : TRUE},
             at: {0}, prior: {0}, line: {"none"}, count: {0}, before: {{}}] \subseteq Run
          <3>1. (CHOOSE a \in Anchors : TRUE) \in Anchors
              OBVIOUS
          <3> QED
              BY <2>2, <3>1 DEF Run
      <2>4. run \in [Runs -> Run]
          BY <2>3
      <2> QED
          BY <2>2, <2>4 DEF TypeOK
  <1>3. ClockTicks
      <2>1. Stamped = {}
          BY <1>1 DEF Stamped
      <2> QED
          BY <1>1, <2>1, FS_EmptySet DEF ClockTicks
  <1>4. History /\ RowsAreCaptures /\ AnchorWasFree /\ PriorFound /\ LineComesLast
      BY <1>1
      DEF History, RowsAreCaptures, AnchorWasFree, OfAnchor, PriorFound, LineComesLast
  <1>5. OneCapturePerAnchor /\ PriorIsLatest /\ LineIsTrue
      BY <1>1 DEF OneCapturePerAnchor, PriorIsLatest, LineIsTrue
  <1> QED
      BY <1>2, <1>3, <1>4, <1>5 DEF IInv

-----------------------------------------------------------------------------
(* What a step of one invocation leaves alone.                             *)

(* Who captured what, of which anchor and when, is as it was.              *)
SameCaptures ==
    \A q \in Runs :
        /\ run'[q].proof = run[q].proof /\ run'[q].anchor = run[q].anchor
        /\ run'[q].at = run[q].at /\ run'[q].prior = run[q].prior
        /\ run'[q].before = run[q].before

(* r goes on to pc and nothing is written: a step that ends the body, and  *)
(* one after the body, keeps what is known of the table.                   *)
LEMMA QuietStep ==
  ASSUME IInv, NEW r \in Runs, rows' = rows, clock' = clock, SameCaptures,
         run[r].pc \notin {"idle", "exited"},
         run'[r].pc \in {run[r].pc, "ended", "exited"},
         \A q \in Runs \ {r} : run'[q].pc = run[q].pc
  PROVE  /\ ClockTicks' /\ History' /\ RowsAreCaptures' /\ AnchorWasFree'
         /\ PriorFound' /\ OneCapturePerAnchor' /\ PriorIsLatest'
  <1> USE DEF IInv, SameCaptures
  <1>1. \A q \in Runs : Capture(q)' = Capture(q)
      BY DEF Capture
  <1>2. \A o \in rows : o.by \in Runs
      BY DEF TypeOK, Row
  <1>3. ClockTicks'
      <2>1. Stamped' = Stamped
          BY DEF Stamped
      <2>2. \A q \in Runs : run[q].before \subseteq Runs
          BY DEF TypeOK, Run
      <2>3. \A q \in Stamped : q \in Runs
          BY DEF Stamped
      <2>4. \A q \in Runs : /\ run'[q].pc \in {"idle", "count", "clock"} =>
                                 run'[q].at = 0
                            /\ run'[q].pc \in {"prior", "persist", "readBack"} =>
                                 run'[q].at # 0
          BY DEF ClockTicks
      <2> QED
          BY <2>1, <2>2, <2>3, <2>4 DEF ClockTicks
  <1>4. History'
      <2>1. \A q \in Runs : run[q].before \subseteq Runs
          BY DEF TypeOK, Run
      <2> QED
          BY <2>1 DEF History
  <1>5. RowsAreCaptures'
      BY <1>1, <1>2 DEF RowsAreCaptures, Committed
  <1>6. AnchorWasFree'
      BY DEF AnchorWasFree, OfAnchor
  <1>7. PriorFound'
      BY DEF PriorFound
  <1>8. OneCapturePerAnchor' /\ PriorIsLatest'
      BY <1>2 DEF OneCapturePerAnchor, PriorIsLatest
  <1> QED
      BY <1>3, <1>4, <1>5, <1>6, <1>7, <1>8

-----------------------------------------------------------------------------
(* The steps of an invocation.                                             *)

(* Returning keeps the type and the captures, and touches one invocation.  *)
LEMMA ReturnEffect ==
  ASSUME TypeOK, NEW r \in Runs, NEW line \in {"failed", "exists", "rows"},
         NEW count \in 0..Cardinality(Runs \X Names), Return(r, line, count)
  PROVE  /\ run' \in [Runs -> Run]
         /\ SameCaptures
         /\ run'[r].pc = "ended"
         /\ run'[r].line = IF run[r].line = "none" THEN line ELSE run[r].line
         /\ run'[r].count = IF run[r].line = "none" THEN count ELSE run[r].count
         /\ \A q \in Runs \ {r} : run'[q] = run[q]
  <1> DEFINE ended == [run[r] EXCEPT !.pc = "ended",
                         !.line = IF @ = "none" THEN line ELSE @,
                         !.count = IF run[r].line = "none" THEN count ELSE @]
  <1>1. run[r] \in Run
      BY DEF TypeOK
  <1>2. ended \in Run
      BY <1>1 DEF Run
  <1>3. run' = [run EXCEPT ![r] = ended]
      BY DEF TypeOK, Return
  <1>4. run' \in [Runs -> Run]
      BY <1>2, <1>3 DEF TypeOK
  <1>5. run'[r] = ended /\ \A q \in Runs \ {r} : run'[q] = run[q]
      BY <1>3 DEF TypeOK
  <1>6. SameCaptures
      <2>1. /\ ended.proof = run[r].proof /\ ended.anchor = run[r].anchor
            /\ ended.at = run[r].at /\ ended.prior = run[r].prior
            /\ ended.before = run[r].before
          BY <1>1 DEF Run
      <2> HIDE DEF ended
      <2> QED
          BY <1>5, <2>1 DEF SameCaptures
  <1> QED
      BY <1>1, <1>4, <1>5, <1>6 DEF Run

(* A step that ends the body, or follows it, keeps the invariant when its  *)
(* own line is true.                                                       *)
LEMMA EndingStep ==
  ASSUME IInv, NEW r \in Runs, rows' = rows, clock' = clock, SameCaptures,
         run' \in [Runs -> Run],
         run[r].pc \notin {"idle", "exited"},
         run'[r].pc \in {run[r].pc, "ended", "exited"},
         \A q \in Runs \ {r} : run'[q] = run[q],
         run'[r].line = "rows" =>
            /\ run'[r].pc \in {"ended", "exited"}
            /\ Capture(r) \subseteq rows
            /\ run'[r].count = Cardinality(RowsOf(r)) /\ run'[r].count > 0,
         run'[r].line = "exists" =>
            /\ run'[r].pc \in {"ended", "exited"}
            /\ \E o \in rows : ~o.proof /\ o.anchor = run[r].anchor /\ o.by # r
  PROVE  IInv'
  <1>1. /\ ClockTicks' /\ History' /\ RowsAreCaptures' /\ AnchorWasFree'
        /\ PriorFound' /\ OneCapturePerAnchor' /\ PriorIsLatest'
      BY QuietStep
  <1>2. TypeOK'
      BY DEF IInv, TypeOK
  <1>3. \A q \in Runs : Capture(q)' = Capture(q)
      BY DEF Capture, SameCaptures
  <1>4. LineComesLast'
      BY <1>3 DEF IInv, LineComesLast
  <1>5. LineIsTrue'
      <2>1. ASSUME NEW q \in Runs
            PROVE  /\ run'[q].line = "rows" =>
                         run'[q].count = Cardinality(RowsOf(q)) /\ run'[q].count > 0
                   /\ run'[q].line = "exists" =>
                         \E o \in rows : ~o.proof /\ o.anchor = run'[q].anchor /\ o.by # q
          <3>1. CASE q = r
              BY <3>1 DEF SameCaptures
          <3>2. CASE q # r
              BY <3>2 DEF IInv, LineIsTrue, RowsOf
          <3> QED
              BY <3>1, <3>2
      <2> QED
          BY <2>1 DEF LineIsTrue, RowsOf
  <1> QED
      BY <1>1, <1>2, <1>4, <1>5 DEF IInv

LEMMA StartStep ==
  ASSUME IInv, NEW r \in Runs, NEW proof \in BOOLEAN, NEW anchor \in Anchors,
         Start(r, proof, anchor)
  PROVE  IInv'
  <1> USE DEF IInv
  <1>1. /\ run[r].pc = "idle" /\ rows' = rows /\ clock' = clock
        /\ run'[r].pc = IF proof THEN "clock" ELSE "count"
        /\ run'[r].proof = proof /\ run'[r].anchor = anchor
        /\ run'[r].before = {q \in Runs : run[q].pc = "exited"}
        /\ run'[r].at = run[r].at /\ run'[r].prior = run[r].prior
        /\ run'[r].line = run[r].line /\ run'[r].count = run[r].count
        /\ \A q \in Runs \ {r} : run'[q] = run[q]
      BY DEF Start, TypeOK, Run
  <1>2. TypeOK'
      <2> DEFINE started == [run[r] EXCEPT !.pc = IF proof THEN "clock" ELSE "count",
                               !.proof = proof, !.anchor = anchor,
                               !.before = {q \in Runs : run[q].pc = "exited"}]
      <2>1. run[r] \in Run
          BY DEF TypeOK
      <2>2. started \in Run
          BY <2>1 DEF Run, Body
      <2>3. run' = [run EXCEPT ![r] = started]
          BY DEF Start, TypeOK
      <2>4. run' \in [Runs -> Run]
          BY <2>2, <2>3 DEF TypeOK
      <2> QED
          BY <1>1, <2>4 DEF TypeOK
  <1>3. \A q \in Runs \ {r} : Capture(q)' = Capture(q)
      BY <1>1 DEF Capture
  <1>4. /\ \A o \in rows : o.by \in Runs \ {r}
        /\ run[r].line \notin {"rows", "exists"} /\ run[r].at = 0
      BY <1>1 DEF TypeOK, Row, RowsAreCaptures, Committed, LineComesLast, ClockTicks
  <1>5. \A q \in Runs : run[q].before \subseteq Runs /\ r \notin run[q].before
      BY <1>1 DEF TypeOK, Run, History
  <1>6. ClockTicks'
      <2>1. \A q \in Runs : run'[q].at = run[q].at
          BY <1>1
      <2>2. Stamped' = Stamped /\ r \notin Stamped
          BY <2>1, <1>4 DEF Stamped
      <2>3. \A q \in Stamped : q \in Runs /\ run'[q] = run[q]
          BY <1>1, <2>2 DEF Stamped
      <2>4. \A q \in Runs : /\ run'[q].pc \in {"idle", "count", "clock"} =>
                                 run'[q].at = 0
                            /\ run'[q].pc \in {"prior", "persist", "readBack"} =>
                                 run'[q].at # 0
          BY <1>1, <1>4 DEF ClockTicks
      <2> QED
          BY <1>1, <1>5, <2>1, <2>2, <2>3, <2>4 DEF ClockTicks
  <1>7. History'
      BY <1>1, <1>5 DEF History
  <1>8. RowsAreCaptures'
      BY <1>1, <1>3, <1>4 DEF RowsAreCaptures, Committed
  <1>9. AnchorWasFree'
      BY <1>1, <1>4 DEF AnchorWasFree, OfAnchor
  <1>10. PriorFound'
      BY <1>1 DEF PriorFound
  <1>11. LineComesLast'
      BY <1>1, <1>3, <1>4 DEF LineComesLast
  <1>12. OneCapturePerAnchor' /\ PriorIsLatest'
      BY <1>1, <1>4 DEF OneCapturePerAnchor, PriorIsLatest
  <1>13. LineIsTrue'
      BY <1>1, <1>4 DEF LineIsTrue
  <1> QED
      BY <1>2, <1>6, <1>7, <1>8, <1>9, <1>10, <1>11, <1>12, <1>13

LEMMA CountStep ==
  ASSUME IInv, NEW r \in Runs, Count(r)
  PROVE  IInv'
  <1> USE DEF IInv
  <1>1. run[r].pc = "count" /\ rows' = rows /\ clock' = clock
      BY DEF Count
  <1>2. CASE OfAnchor(run[r].anchor) # {}
      <2>1. Return(r, "exists", 0)
          BY <1>2 DEF Count
      <2>2. 0 \in 0..Cardinality(Runs \X Names)
          BY CaptureAssumption, FS_Product, FS_CardinalityType
      <2>3. run[r].line \notin {"rows", "exists"}
          BY <1>1 DEF LineComesLast
      <2>4. \E o \in rows : ~o.proof /\ o.anchor = run[r].anchor /\ o.by # r
          BY <1>1, <1>2 DEF OfAnchor, RowsAreCaptures, Committed
      <2>5. /\ run' \in [Runs -> Run] /\ SameCaptures
            /\ run'[r].pc = "ended"
            /\ run'[r].line = IF run[r].line = "none" THEN "exists" ELSE run[r].line
            /\ \A q \in Runs \ {r} : run'[q] = run[q]
          BY <2>1, <2>2, ReturnEffect
      <2> QED
          BY <1>1, <2>3, <2>4, <2>5, EndingStep
  <1>3. CASE OfAnchor(run[r].anchor) = {}
      <2> DEFINE free == [run[r] EXCEPT !.pc = "clock"]
      <2>1. run' = [run EXCEPT ![r] = free] /\ run[r] \in Run
          BY <1>3 DEF Count, TypeOK
      <2>2. free \in Run
          BY <2>1 DEF Run, Body
      <2>3. TypeOK'
          BY <1>1, <2>1, <2>2 DEF TypeOK
      <2>4. /\ run'[r].pc = "clock" /\ run'[r].line = run[r].line
            /\ run'[r].count = run[r].count
            /\ \A q \in Runs \ {r} : run'[q] = run[q]
          BY <2>1 DEF TypeOK, Run
      <2>5. SameCaptures
          <3>1. /\ free.proof = run[r].proof /\ free.anchor = run[r].anchor
                /\ free.at = run[r].at /\ free.prior = run[r].prior
                /\ free.before = run[r].before
              BY <2>1 DEF Run
          <3>2. run'[r] = free
              BY <2>1 DEF TypeOK
          <3> HIDE DEF free
          <3> QED
              BY <2>4, <3>1, <3>2 DEF SameCaptures
      <2>6. \A q \in Runs : Capture(q)' = Capture(q) /\ run[q].before \subseteq Runs
          BY <2>5 DEF Capture, SameCaptures, TypeOK, Run
      <2>7. \A o \in rows : o.by \in Runs \ {r}
          BY <1>1 DEF TypeOK, Row, RowsAreCaptures, Committed
      <2>8. ClockTicks'
          <3>1. Stamped' = Stamped
              BY <2>5 DEF Stamped, SameCaptures
          <3>2. \A q \in Stamped : q \in Runs
              BY DEF Stamped
          <3>3. \A q \in Runs : /\ run'[q].pc \in {"idle", "count", "clock"} =>
                                     run'[q].at = 0
                                /\ run'[q].pc \in {"prior", "persist", "readBack"} =>
                                     run'[q].at # 0
              BY <1>1, <2>4, <2>5 DEF ClockTicks, SameCaptures
          <3> QED
              BY <1>1, <2>5, <2>6, <3>1, <3>2, <3>3 DEF ClockTicks, SameCaptures
      <2>9. History'
          BY <1>1, <2>4, <2>5, <2>6 DEF History, SameCaptures
      <2>10. RowsAreCaptures'
          BY <1>1, <2>4, <2>6, <2>7, <2>5 DEF RowsAreCaptures, Committed, SameCaptures
      <2>11. AnchorWasFree'
          BY <1>1, <1>3, <2>4, <2>5 DEF AnchorWasFree, OfAnchor, SameCaptures
      <2>12. PriorFound'
          BY <1>1, <2>4, <2>5 DEF PriorFound, SameCaptures
      <2>13. LineComesLast'
          BY <1>1, <2>4, <2>6 DEF LineComesLast
      <2>14. OneCapturePerAnchor' /\ PriorIsLatest'
          BY <1>1, <2>7, <2>5 DEF OneCapturePerAnchor, PriorIsLatest, SameCaptures
      <2>15. LineIsTrue'
          BY <1>1, <2>4, <2>5 DEF LineIsTrue, SameCaptures, LineComesLast
      <2> QED
          BY <2>3, <2>8, <2>9, <2>10, <2>11, <2>12, <2>13, <2>14, <2>15
  <1> QED
      BY <1>2, <1>3

LEMMA ReadClockStep ==
  ASSUME IInv, NEW r \in Runs, ReadClock(r)
  PROVE  IInv'
  <1> USE DEF IInv
  <1> DEFINE ticked == [run[r] EXCEPT !.pc = "prior", !.at = clock + 1]
  <1>1. /\ run[r].pc = "clock" /\ rows' = rows /\ clock' = clock + 1
        /\ run' = [run EXCEPT ![r] = ticked] /\ run[r] \in Run
      BY DEF ReadClock, TypeOK
  <1>2. /\ run[r].at = 0 /\ run[r].line \notin {"rows", "exists"}
        /\ \A o \in rows : o.by \in Runs \ {r}
        /\ \A q \in Runs : run[q].before \subseteq Runs /\ r \notin run[q].before
      BY <1>1 DEF ClockTicks, LineComesLast, TypeOK, Row, Run, RowsAreCaptures,
                  Committed, History
  <1>3. /\ run'[r].pc = "prior" /\ run'[r].at = clock + 1
        /\ run'[r].proof = run[r].proof /\ run'[r].anchor = run[r].anchor
        /\ run'[r].prior = run[r].prior /\ run'[r].line = run[r].line
        /\ run'[r].count = run[r].count /\ run'[r].before = run[r].before
      BY <1>1 DEF TypeOK, Run
  <1>4. \A q \in Runs \ {r} : run'[q] = run[q] /\ Capture(q)' = Capture(q)
      BY <1>1 DEF TypeOK, Capture
  <1>5. /\ clock \in Nat /\ clock + 1 \in Times
        /\ Cardinality(Stamped \cup {r}) = clock + 1
      <2>1. Stamped \in SUBSET Runs /\ r \in Runs \ Stamped
          BY <1>2 DEF Stamped
      <2>2. /\ Cardinality(Stamped \cup {r}) = Cardinality(Stamped) + 1
            /\ Cardinality(Stamped) \in Nat
            /\ Cardinality(Stamped) + 1 <= Cardinality(Runs)
          BY <2>1, OneMoreStamp
      <2> QED
          BY <2>2, TimesAreNumbers DEF ClockTicks, Times
  <1>6. TypeOK'
      <2>1. ticked \in Run
          BY <1>1, <1>5 DEF Run, Body
      <2> QED
          BY <1>1, <1>5, <2>1 DEF TypeOK
  <1>7. ClockTicks'
      <2>1. Stamped' = Stamped \cup {r}
          BY <1>3, <1>4, <1>5 DEF Stamped
      <2>2. \A q \in Runs : run[q].at \in Nat /\ run[q].at <= clock
          BY TimesAreNumbers DEF ClockTicks, TypeOK, Run
      <2>3. \A q \in Runs : run'[q].at <= clock'
          BY <1>1, <1>3, <1>4, <1>5, <2>2
      <2>4. \A p, q \in Stamped' : run'[p].at = run'[q].at => p = q
          BY <1>3, <1>4, <1>5, <2>1, <2>2 DEF ClockTicks, Stamped
      <2>5. \A q \in Runs : /\ run'[q].pc \in {"idle", "count", "clock"} =>
                                 run'[q].at = 0
                            /\ run'[q].pc \in {"prior", "persist", "readBack"} =>
                                 run'[q].at # 0
          BY <1>3, <1>4, <1>5 DEF ClockTicks
      <2>6. \A p \in Stamped' : \A q \in run'[p].before : run'[q].at < run'[p].at
          BY <1>2, <1>3, <1>4, <1>5, <2>1, <2>2 DEF ClockTicks, Stamped
      <2> QED
          BY <1>1, <1>5, <2>1, <2>3, <2>4, <2>5, <2>6 DEF ClockTicks
  <1>8. History'
      BY <1>1, <1>2, <1>3, <1>4 DEF History
  <1>9. RowsAreCaptures'
      BY <1>1, <1>2, <1>3, <1>4 DEF RowsAreCaptures, Committed
  <1>10. AnchorWasFree'
      BY <1>1, <1>3, <1>4 DEF AnchorWasFree, OfAnchor
  <1>11. PriorFound'
      BY <1>1, <1>3, <1>4 DEF PriorFound
  <1>12. LineComesLast'
      BY <1>1, <1>2, <1>3, <1>4 DEF LineComesLast
  <1>13. OneCapturePerAnchor' /\ PriorIsLatest'
      BY <1>1, <1>2, <1>4 DEF OneCapturePerAnchor, PriorIsLatest
  <1>14. LineIsTrue'
      BY <1>1, <1>2, <1>3, <1>4 DEF LineIsTrue
  <1> QED
      BY <1>6, <1>7, <1>8, <1>9, <1>10, <1>11, <1>12, <1>13, <1>14

LEMMA PriorStep ==
  ASSUME IInv, NEW r \in Runs, Prior(r)
  PROVE  IInv'
  <1> USE DEF IInv
  <1> DEFINE found == [run[r] EXCEPT !.pc = "persist", !.prior = PriorOf(r)]
             older == {o \in rows : ~o.proof /\ o.anchor # run[r].anchor
                                      /\ o.at < run[r].at}
             times == {o.at : o \in older}
  <1>1. /\ run[r].pc = "prior" /\ rows' = rows /\ clock' = clock
        /\ run' = [run EXCEPT ![r] = found] /\ run[r] \in Run
      BY DEF Prior, TypeOK
  <1>2. /\ run[r].at # 0 /\ run[r].line \notin {"rows", "exists"}
        /\ \A o \in rows : o.by \in Runs \ {r}
        /\ \A q \in Runs : run[q].before \subseteq Runs /\ r \notin run[q].before
      BY <1>1 DEF ClockTicks, LineComesLast, TypeOK, Row, Run, RowsAreCaptures,
                  Committed, History
  <1>3. /\ PriorOf(r) = 0 \/ PriorOf(r) \in times
        /\ \A t \in times : t <= PriorOf(r)
        /\ PriorOf(r) \in Times
      <2>1. times \in SUBSET Times
          BY DEF TypeOK, Row
      <2>2. PriorOf(r) = Latest(times)
          BY DEF PriorOf
      <2>3. 0 \in Times
          BY TimesAreNumbers DEF Times
      <2> HIDE DEF times
      <2> QED
          BY <2>1, <2>2, <2>3, LatestIs
  <1>4. /\ run'[r].pc = "persist" /\ run'[r].prior = PriorOf(r)
        /\ run'[r].proof = run[r].proof /\ run'[r].anchor = run[r].anchor
        /\ run'[r].at = run[r].at /\ run'[r].line = run[r].line
        /\ run'[r].count = run[r].count /\ run'[r].before = run[r].before
      BY <1>1 DEF TypeOK, Run
  <1>5. \A q \in Runs \ {r} : run'[q] = run[q] /\ Capture(q)' = Capture(q)
      BY <1>1 DEF TypeOK, Capture
  <1>6. TypeOK'
      <2>1. found \in Run
          BY <1>1, <1>3 DEF Run, Body
      <2> QED
          BY <1>1, <2>1 DEF TypeOK
  <1>7. ClockTicks'
      <2>1. \A q \in Runs : run'[q].at = run[q].at /\ run'[q].before = run[q].before
          BY <1>4, <1>5
      <2>2. Stamped' = Stamped
          BY <2>1 DEF Stamped
      <2>3. \A q \in Runs : /\ run'[q].pc \in {"idle", "count", "clock"} =>
                                 run'[q].at = 0
                            /\ run'[q].pc \in {"prior", "persist", "readBack"} =>
                                 run'[q].at # 0
          BY <1>2, <1>4, <1>5 DEF ClockTicks
      <2>4. \A q \in Stamped : q \in Runs
          BY DEF Stamped
      <2> QED
          BY <1>1, <1>2, <2>1, <2>2, <2>3, <2>4 DEF ClockTicks
  <1>8. History'
      BY <1>1, <1>2, <1>4, <1>5 DEF History
  <1>9. RowsAreCaptures'
      BY <1>1, <1>2, <1>4, <1>5 DEF RowsAreCaptures, Committed
  <1>10. AnchorWasFree'
      BY <1>1, <1>4, <1>5 DEF AnchorWasFree, OfAnchor
  <1>11. PriorFound'
      <2>1. PriorOf(r) # 0 => \E o \in rows :
               ~o.proof /\ o.anchor # run[r].anchor /\ o.at = PriorOf(r) /\ o.at < run[r].at
          BY <1>3
      <2>2. ASSUME NEW o \in rows, ~o.proof, o.anchor # run[r].anchor,
                   o.by \in run[r].before
            PROVE  o.at <= PriorOf(r)
          <3>1. o.at = run[o.by].at
              BY DEF RowsAreCaptures, Capture
          <3>2. run[o.by].at < run[r].at
              BY <1>2, <2>2 DEF ClockTicks, Stamped
          <3> QED
              BY <1>3, <2>2, <3>1, <3>2
      <2> QED
          BY <1>1, <1>4, <1>5, <2>1, <2>2 DEF PriorFound
  <1>12. LineComesLast'
      BY <1>1, <1>2, <1>4, <1>5 DEF LineComesLast
  <1>13. OneCapturePerAnchor' /\ PriorIsLatest'
      BY <1>1, <1>2, <1>5 DEF OneCapturePerAnchor, PriorIsLatest
  <1>14. LineIsTrue'
      BY <1>1, <1>2, <1>4, <1>5 DEF LineIsTrue
  <1> QED
      BY <1>6, <1>7, <1>8, <1>9, <1>10, <1>11, <1>12, <1>13, <1>14

(* The rows are committed; whether the answer came back decides the pc.    *)
LEMMA PersistStep ==
  ASSUME IInv, NEW r \in Runs, NEW acked \in BOOLEAN, Persist(r, acked)
  PROVE  IInv'
  <1> USE DEF IInv
  <1>1. run[r].pc = "persist" /\ rows' = rows \cup Capture(r) /\ clock' = clock
      BY DEF Persist, Written
  <1>2. /\ run[r].at # 0 /\ run[r].line \notin {"rows", "exists"}
        /\ \A o \in rows : o.by \in Runs \ {r}
        /\ \A q \in Runs : run[q].before \subseteq Runs /\ r \notin run[q].before
      BY <1>1 DEF ClockTicks, LineComesLast, TypeOK, Row, Run, RowsAreCaptures,
                  Committed, History
  <1>3. /\ run' \in [Runs -> Run] /\ SameCaptures
        /\ run'[r].pc \in {"readBack", "ended"}
        /\ run'[r].line \notin {"rows", "exists"}
        /\ \A q \in Runs \ {r} : run'[q] = run[q]
      <2>1. CASE acked
          <3> DEFINE written == [run[r] EXCEPT !.pc = "readBack"]
          <3>1. run' = [run EXCEPT ![r] = written] /\ run[r] \in Run
              BY <2>1 DEF Persist, TypeOK
          <3>2. /\ written \in Run /\ written.pc = "readBack"
                /\ written.line = run[r].line
                /\ written.proof = run[r].proof /\ written.anchor = run[r].anchor
                /\ written.at = run[r].at /\ written.prior = run[r].prior
                /\ written.before = run[r].before
              BY <3>1 DEF Run, Body
          <3>3. run'[r] = written /\ \A q \in Runs \ {r} : run'[q] = run[q]
              BY <3>1 DEF TypeOK
          <3>4. run' \in [Runs -> Run]
              BY <3>1, <3>2 DEF TypeOK
          <3> HIDE DEF written
          <3> QED
              BY <1>2, <3>2, <3>3, <3>4 DEF SameCaptures
      <2>2. CASE ~acked
          <3>1. 0 \in 0..Cardinality(Runs \X Names)
              BY CaptureAssumption, FS_Product, FS_CardinalityType
          <3>2. Return(r, "failed", 0)
              BY <2>2 DEF Persist
          <3> QED
              BY <1>2, <3>1, <3>2, ReturnEffect
      <2> QED
          BY <2>1, <2>2
  <1>4. \A q \in Runs : Capture(q)' = Capture(q)
      BY <1>3 DEF Capture, SameCaptures
  <1>5. \A o \in Capture(r) :
           /\ o.by = r /\ o.proof = run[r].proof /\ o.anchor = run[r].anchor
           /\ o.at = run[r].at /\ o.prior = run[r].prior
      BY DEF Capture
  <1>6. TypeOK'
      <2>1. Capture(r) \subseteq Row
          BY DEF Capture, Row, TypeOK, Run
      <2> QED
          BY <1>1, <1>3, <2>1 DEF TypeOK
  <1>7. ClockTicks'
      <2>1. Stamped' = Stamped
          BY <1>3 DEF Stamped, SameCaptures
      <2>2. \A q \in Runs : /\ run'[q].pc \in {"idle", "count", "clock"} =>
                                 run'[q].at = 0
                            /\ run'[q].pc \in {"prior", "persist", "readBack"} =>
                                 run'[q].at # 0
          BY <1>2, <1>3 DEF ClockTicks, SameCaptures
      <2>3. \A q \in Stamped : q \in Runs
          BY DEF Stamped
      <2> QED
          BY <1>1, <1>2, <1>3, <2>1, <2>2, <2>3 DEF ClockTicks, SameCaptures
  <1>8. History'
      BY <1>2, <1>3 DEF History, SameCaptures
  <1>9. RowsAreCaptures'
      <2>1. \A o \in rows' : run'[o.by].pc \in Committed /\ o \in Capture(o.by)'
          BY <1>1, <1>2, <1>3, <1>4, <1>5 DEF RowsAreCaptures, Committed
      <2>2. \A o \in rows' : run'[o.by].at # 0 /\ Capture(o.by)' \subseteq rows'
          BY <1>1, <1>2, <1>3, <1>4, <1>5 DEF RowsAreCaptures, SameCaptures
      <2>3. \A q \in Runs : run'[q].pc = "readBack" => Capture(q)' \subseteq rows'
          BY <1>1, <1>3, <1>4 DEF RowsAreCaptures
      <2> QED
          BY <2>1, <2>2, <2>3 DEF RowsAreCaptures
  <1>10. AnchorWasFree'
      BY <1>1, <1>2, <1>3, <1>5 DEF AnchorWasFree, OfAnchor, SameCaptures
  <1>11. PriorFound'
      <2>1. ASSUME NEW q \in Runs, run'[q].pc = "persist"
            PROVE  /\ q # r /\ run[q].pc = "persist" /\ run'[q] = run[q]
          BY <1>3, <2>1
      <2> QED
          BY <1>1, <1>2, <1>5, <2>1 DEF PriorFound
  <1>12. LineComesLast'
      BY <1>1, <1>3, <1>4 DEF LineComesLast
  <1>13. OneCapturePerAnchor'
      <2>1. \A o \in rows, p \in Capture(r) :
               ~o.proof /\ ~p.proof /\ o.anchor = p.anchor => o.by \notin run[r].before
          BY <1>1, <1>5 DEF AnchorWasFree, OfAnchor
      <2> QED
          BY <1>1, <1>2, <1>3, <1>5, <2>1 DEF OneCapturePerAnchor, SameCaptures
  <1>14. PriorIsLatest'
      <2>1. ASSUME NEW o \in rows
            PROVE  /\ o.prior # 0 => \E p \in rows :
                        ~p.proof /\ p.anchor # o.anchor /\ p.at = o.prior /\ p.at < o.at
                   /\ \A p \in rows \cup Capture(r) :
                        ~p.proof /\ p.anchor # o.anchor /\ p.by \in run[o.by].before
                            => p.at <= o.prior
          BY <1>2, <1>5 DEF PriorIsLatest
      <2>2. ASSUME NEW o \in Capture(r)
            PROVE  /\ o.prior # 0 => \E p \in rows :
                        ~p.proof /\ p.anchor # o.anchor /\ p.at = o.prior /\ p.at < o.at
                   /\ \A p \in rows \cup Capture(r) :
                        ~p.proof /\ p.anchor # o.anchor /\ p.by \in run[o.by].before
                            => p.at <= o.prior
          BY <1>1, <1>2, <1>5 DEF PriorFound
      <2>3. \A o \in rows' : run'[o.by].before = run[o.by].before
          BY <1>1, <1>2, <1>3, <1>5 DEF SameCaptures
      <2> QED
          BY <1>1, <2>1, <2>2, <2>3 DEF PriorIsLatest
  <1>15. LineIsTrue'
      <2>1. \A q \in Runs \ {r} : {o \in rows' : o.by = q} = {o \in rows : o.by = q}
          BY <1>1, <1>5
      <2> QED
          BY <1>1, <1>3, <2>1 DEF LineIsTrue
  <1> QED
      BY <1>6, <1>7, <1>8, <1>9, <1>10, <1>11, <1>12, <1>13, <1>14, <1>15

(* Counting by captured_at, or by capture_id, counts the run's own rows.   *)
LEMMA CountIsOwn ==
  ASSUME IInv, NEW r \in Runs, run[r].at # 0
  PROVE  CountOfCapture(r) = Cardinality(RowsOf(r))
  <1>1. ASSUME NEW o \in rows
        PROVE  (IF run[r].proof THEN o.proof /\ o.by = r ELSE o.at = run[r].at)
                 <=> o.by = r
      <2>1. o \in Capture(o.by) /\ o.by \in Stamped
          BY DEF IInv, RowsAreCaptures, TypeOK, Row, Stamped
      <2>2. o.at = run[o.by].at /\ o.proof = run[o.by].proof
          BY <2>1 DEF Capture
      <2>3. o.at = run[r].at => o.by = r
          BY <2>1, <2>2 DEF IInv, ClockTicks, Stamped
      <2> QED
          BY <2>2, <2>3
  <1> QED
      BY <1>1 DEF CountOfCapture, RowsOf

LEMMA ReadBackStep ==
  ASSUME IInv, NEW r \in Runs, ReadBack(r)
  PROVE  IInv'
  <1> USE DEF IInv
  <1>1. run[r].pc = "readBack" /\ rows' = rows /\ clock' = clock
      BY DEF ReadBack
  <1>2. Capture(r) \subseteq rows /\ run[r].line \notin {"rows", "exists"}
      BY <1>1 DEF RowsAreCaptures, LineComesLast
  <1>3. /\ CountOfCapture(r) = Cardinality(RowsOf(r))
        /\ CountOfCapture(r) \in 0..Cardinality(Runs \X Names)
        /\ CountOfCapture(r) > 0
      <2>1. CountOfCapture(r) = Cardinality(RowsOf(r))
          BY <1>1, CountIsOwn DEF ClockTicks
      <2>2. RowsOf(r) = Capture(r)
          BY <1>2, RowsOfCapture
      <2> QED
          BY <2>1, <2>2, CaptureSize
  <1>4. /\ run' \in [Runs -> Run] /\ SameCaptures
        /\ run'[r].pc = "ended"
        /\ run'[r].line = IF run[r].line = "none" THEN "rows" ELSE run[r].line
        /\ run'[r].count = IF run[r].line = "none" THEN CountOfCapture(r)
                                                   ELSE run[r].count
        /\ \A q \in Runs \ {r} : run'[q] = run[q]
      BY <1>3, ReturnEffect DEF ReadBack
  <1> QED
      BY <1>1, <1>2, <1>3, <1>4, EndingStep

LEMMA BodyFailsStep ==
  ASSUME IInv, NEW r \in Runs, BodyFails(r)
  PROVE  IInv'
  <1>1. run[r].pc \in Body /\ rows' = rows /\ clock' = clock /\ Return(r, "failed", 0)
      BY DEF BodyFails
  <1>2. 0 \in 0..Cardinality(Runs \X Names)
      BY CaptureAssumption, FS_Product, FS_CardinalityType
  <1>3. run[r].line \notin {"rows", "exists"}
      BY <1>1 DEF IInv, LineComesLast, Body
  <1>4. /\ run' \in [Runs -> Run] /\ SameCaptures
        /\ run'[r].pc = "ended"
        /\ run'[r].line = IF run[r].line = "none" THEN "failed" ELSE run[r].line
        /\ \A q \in Runs \ {r} : run'[q] = run[q]
      BY <1>1, <1>2, ReturnEffect DEF IInv
  <1> QED
      BY <1>1, <1>3, <1>4, EndingStep DEF Body

(* The main thread's steps change the line and the pc alone.               *)
LEMMA MainThreadEffect ==
  ASSUME IInv, NEW r \in Runs,
         NEW pc \in Body \cup {"ended", "exited"},
         NEW line \in {"none", "failed", "exists", "rows"},
         run' = [run EXCEPT ![r] = [run[r] EXCEPT !.pc = pc, !.line = line]]
  PROVE  /\ run' \in [Runs -> Run] /\ SameCaptures
         /\ run'[r].pc = pc /\ run'[r].line = line
         /\ run'[r].count = run[r].count
         /\ \A q \in Runs \ {r} : run'[q] = run[q]
  <1> DEFINE told == [run[r] EXCEPT !.pc = pc, !.line = line]
  <1>1. run[r] \in Run
      BY DEF IInv, TypeOK
  <1>2. /\ told \in Run /\ told.pc = pc /\ told.line = line
        /\ told.count = run[r].count
        /\ told.proof = run[r].proof /\ told.anchor = run[r].anchor
        /\ told.at = run[r].at /\ told.prior = run[r].prior
        /\ told.before = run[r].before
      BY <1>1 DEF Run
  <1>3. run'[r] = told /\ \A q \in Runs \ {r} : run'[q] = run[q]
      BY DEF IInv, TypeOK
  <1>4. run' \in [Runs -> Run]
      BY <1>2 DEF IInv, TypeOK
  <1> HIDE DEF told
  <1> QED
      BY <1>2, <1>3, <1>4 DEF SameCaptures

LEMMA TimeoutStep ==
  ASSUME IInv, NEW r \in Runs, Timeout(r)
  PROVE  IInv'
  <1>1. run[r].pc \in Body /\ rows' = rows /\ clock' = clock
      BY DEF Timeout
  <1>2. run' = [run EXCEPT ![r] = [run[r] EXCEPT !.pc = run[r].pc, !.line = "failed"]]
      BY DEF Timeout, IInv, TypeOK, Run
  <1>3. /\ run' \in [Runs -> Run] /\ SameCaptures
        /\ run'[r].pc = run[r].pc /\ run'[r].line = "failed"
        /\ \A q \in Runs \ {r} : run'[q] = run[q]
      BY <1>1, <1>2, MainThreadEffect
  <1> QED
      BY <1>1, <1>3, EndingStep DEF Body

LEMMA ExitStep ==
  ASSUME IInv, NEW r \in Runs, Exit(r)
  PROVE  IInv'
  <1>1. run[r].pc \in Body \cup {"ended"} /\ rows' = rows /\ clock' = clock
      BY DEF Exit
  <1>2. /\ run' = [run EXCEPT ![r] = [run[r] EXCEPT !.pc = "exited", !.line = run[r].line]]
        /\ run[r].line \in {"none", "failed", "exists", "rows"}
      BY DEF Exit, IInv, TypeOK, Run
  <1>3. /\ run' \in [Runs -> Run] /\ SameCaptures
        /\ run'[r].pc = "exited" /\ run'[r].line = run[r].line
        /\ run'[r].count = run[r].count
        /\ \A q \in Runs \ {r} : run'[q] = run[q]
      <2> DEFINE line == run[r].line
      <2>1. /\ run' = [run EXCEPT ![r] = [run[r] EXCEPT !.pc = "exited", !.line = line]]
            /\ line \in {"none", "failed", "exists", "rows"}
          BY <1>2
      <2>2. "exited" \in Body \cup {"ended", "exited"}
          OBVIOUS
      <2> HIDE DEF line
      <2>3. /\ run' \in [Runs -> Run] /\ SameCaptures
            /\ run'[r].pc = "exited" /\ run'[r].line = line
            /\ run'[r].count = run[r].count
            /\ \A q \in Runs \ {r} : run'[q] = run[q]
          BY <2>1, <2>2, MainThreadEffect
      <2> QED
          BY <2>3 DEF line
  <1>4. /\ run[r].line = "rows" =>
             /\ Capture(r) \subseteq rows
             /\ run[r].count = Cardinality(RowsOf(r)) /\ run[r].count > 0
        /\ run[r].line = "exists" =>
             \E o \in rows : ~o.proof /\ o.anchor = run[r].anchor /\ o.by # r
      BY DEF IInv, LineComesLast, LineIsTrue, RowsOf
  <1> QED
      BY <1>1, <1>3, <1>4, EndingStep DEF Body

LEMMA DieStep ==
  ASSUME IInv, NEW r \in Runs, Die(r)
  PROVE  IInv'
  <1>1. run[r].pc \in Body \cup {"ended"} /\ rows' = rows /\ clock' = clock
      BY DEF Die
  <1>2. run' = [run EXCEPT ![r] = [run[r] EXCEPT !.pc = "exited", !.line = "failed"]]
      BY DEF Die, IInv, TypeOK, Run
  <1>3. /\ run' \in [Runs -> Run] /\ SameCaptures
        /\ run'[r].pc = "exited" /\ run'[r].line = "failed"
        /\ \A q \in Runs \ {r} : run'[q] = run[q]
      BY <1>2, MainThreadEffect
  <1> QED
      BY <1>1, <1>3, EndingStep DEF Body

LEMMA StutterStep ==
  ASSUME IInv, UNCHANGED vars
  PROVE  IInv'
  BY DEF IInv, vars, TypeOK, ClockTicks, Stamped, History, RowsAreCaptures, Capture,
         AnchorWasFree, OfAnchor, PriorFound, LineComesLast, OneCapturePerAnchor,
         PriorIsLatest, LineIsTrue

LEMMA StepIInv == IInv /\ [Next]_vars => IInv'
  <1> SUFFICES ASSUME IInv, [Next]_vars PROVE IInv'
      OBVIOUS
  <1>1. CASE UNCHANGED vars
      BY <1>1, StutterStep
  <1>2. ASSUME NEW r \in Runs, BodyStep(r)
        PROVE  IInv'
      BY <1>2, CountStep, ReadClockStep, PriorStep, PersistStep, ReadBackStep,
         BodyFailsStep DEF BodyStep
  <1>3. ASSUME NEW r \in Runs, Timeout(r) \/ Exit(r) \/ Die(r)
        PROVE  IInv'
      BY <1>3, TimeoutStep, ExitStep, DieStep
  <1> QED
      BY <1>1, <1>2, <1>3, StartStep DEF Next

(* The inductive invariant holds in every reachable state.                 *)
THEOREM Invariance == Spec => []IInv
  <1> QED
      BY InitIInv, StepIInv, PTL DEF Spec

-----------------------------------------------------------------------------
(* The theorems.                                                           *)

(* Every variable keeps its type: the clock is read at most once by each   *)
(* invocation, and the count of a line is at most the capture's size.      *)
THEOREM TypeCorrect == Spec => []TypeOK
  BY Invariance, PTL DEF IInv

(* For any number of invocations that overlap, fail, time out and die, any *)
(* anchors and any membership: a committed capture is whole, alone on its  *)
(* anchor but for invocations it overlapped, reaches back to the latest    *)
(* morning capture of another anchor, and the CAPTURE line is true.        *)
THEOREM CaptureCorrect == Spec => []CaptureIsTrue
  <1>1. IInv => CaptureIsWhole
      <2> SUFFICES ASSUME IInv, NEW o \in rows
                   PROVE  {p.name : p \in {p \in rows : p.by = o.by}} = Names
          BY DEF CaptureIsWhole
      <2>1. o.by \in Runs /\ Capture(o.by) \subseteq rows
          BY DEF IInv, TypeOK, Row, RowsAreCaptures
      <2>2. {p \in rows : p.by = o.by} = Capture(o.by)
          BY <2>1, RowsOfCapture DEF IInv, RowsOf
      <2>3. \A p \in Capture(o.by) : p.name \in Names
          BY DEF Capture
      <2>4. ASSUME NEW n \in Names
            PROVE  \E p \in Capture(o.by) : p.name = n
          <3> DEFINE q == run[o.by]
                     p == [name |-> n, proof |-> q.proof, anchor |-> q.anchor,
                           at |-> q.at, prior |-> q.prior, by |-> o.by]
          <3>1. p \in Capture(o.by) /\ p.name = n
              BY DEF Capture
          <3> QED
              BY <3>1
      <2> QED
          BY <2>2, <2>3, <2>4
  <1>2. IInv => CaptureIsTrue
      BY <1>1 DEF IInv, CaptureIsTrue
  <1> QED
      BY <1>2, Invariance, PTL
=============================================================================
