-------------------------- MODULE DeskMesh_proofs --------------------------
(***************************************************************************)
(* Theorems about DeskMesh for any number of runs, desks and fixtures.     *)
(***************************************************************************)
EXTENDS DeskMesh, FiniteSetTheorems, TLAPS

-----------------------------------------------------------------------------
(* The inductive invariant, conjunct by conjunct.                          *)

Putting == {"find", "insert", "select", "upsert", "notify"}
Writing == {"next", "commit"} \cup Putting

(* The number of the put at hand: it grows through both rounds.            *)
Number(r) == (run[r].round - 1) * Final + run[r].at

(* Runs begin one after the other, each with a fixture.                    *)
Beginnings ==
    /\ \A r \in Begun : run[r].start <= Cardinality(Begun) /\ run[r].fixture \in Fixtures
    /\ \A r, s \in Begun : run[r].start = run[s].start => r = s
    /\ \A r \in Runs : run[r].pc = "idle" => run[r].at = 1

(* The envelope at hand, and the row it will be, or is, stored as.         *)
HandOf(r) ==
    /\ run[r].pc \in Putting =>
          /\ run[r].new \in Envelopes
          /\ run[r].new.desk = Here(r) /\ run[r].new.run = r /\ run[r].new.n = Number(r)
    /\ run[r].pc \in Putting \ {"find"} /\ run[r].dup # NoRow =>
          run[r].dup \in Visible(r) /\ SameKey(run[r].dup, run[r].new)
    /\ run[r].pc = "insert" /\ run[r].dup = NoRow =>
          \A e \in draft[r] : ~SameKey(e, run[r].new)
    /\ run[r].pc \in {"select", "upsert", "notify"} /\ run[r].dup = NoRow =>
          run[r].new \in draft[r]
InHand == \A r \in Runs : HandOf(r)

(* A row is told by its run and number; what is committed is of runs that  *)
(* ended.                                                                  *)
Numbered(rows) == \A e, f \in rows : e.run = f.run /\ e.n = f.n => e = f
NumbersOf(r) ==
    \A e \in draft[r] :
        /\ e.run = r
        /\ run[r].pc \in {"next", "find", "insert"} => e.n < Number(r)
        /\ run[r].pc \in {"select", "upsert", "notify"} => e.n <= Number(r)
Numbering ==
    /\ \A r \in Runs : NumbersOf(r) /\ Numbered(draft[r])
    /\ Numbered(table)
    /\ \A e \in table : run[e.run].pc \in {"done", "failed"}
    /\ \A r \in Runs : run[r].pc \notin Writing =>
          draft[r] = {} /\ \A d \in Desks \cup {Ops} : touched[r][d] = NoRow

(* A key is in one row, committed or not.                                  *)
OneRowPerKey ==
    /\ \A r \in Runs : \A e, f \in draft[r] : SameKey(e, f) => e = f
    /\ \A r \in Runs : \A e \in draft[r], f \in table : ~SameKey(e, f)
    /\ \A r, s \in Runs : r # s => \A e \in draft[r], f \in draft[s] : ~SameKey(e, f)

(* A run writes the health rows of rows it sees.                           *)
TouchedFollows ==
    \A r \in Runs : \A d \in Desks \cup {Ops} : touched[r][d] # NoRow =>
        touched[r][d] \in Visible(r) /\ touched[r][d].desk = d

(* How far a round has come.                                               *)
ProgressOf(r) ==
    \A i \in 1..Width :
        /\ run[r].pc \in {"next"} \cup Putting /\ i < run[r].at =>
              Order[i] \in run[r].killed \/ \E e \in Visible(r) : e.desk = Order[i]
        /\ \/ run[r].pc = "next" /\ Width + i < run[r].at
           \/ run[r].pc \in Putting /\ Width + i <= run[r].at
           => run[r].pack[Order[i]] \in Outputs
Progress == \A r \in Runs : ProgressOf(r)

(* No desk's envelope says that the desk was missing.                      *)
Present(e) == e.desk \in Desks => e.content.by # "desk_missing"
NoneMissing ==
    /\ \A e \in table : Present(e)
    /\ \A r \in Runs : /\ \A e \in draft[r] : Present(e)
                       /\ run[r].new # NoRow => Present(run[r].new)

IInv ==
    /\ TypeOK
    /\ Beginnings
    /\ InHand
    /\ Numbering
    /\ OneRowPerKey
    /\ TouchedFollows
    /\ Progress
    /\ NoneMissing
    /\ OneRowPerEnvelope
    /\ MeshShowsTheStore

-----------------------------------------------------------------------------
(* The roster and the numbers.                                             *)

LEMMA Roster ==
  /\ Width \in Nat /\ Width > 0 /\ Final \in Nat /\ Final = 2 * Width + 1
  /\ \A i \in 1..Width : Order[i] \in Desks
  /\ \A d \in Desks : \E i \in 1..Width : d = Order[i]
  /\ Ops \notin Desks
  BY DeskAssumption DEF Width, Final, Desks

(* Whose envelope each position of a round puts.                           *)
LEMMA Positions ==
  ASSUME NEW p \in 1..Final
  PROVE  /\ p <= Width => DeskAt(p) = Order[p] /\ DeskAt(p) \in Desks
         /\ Width < p /\ p < Final => /\ p - Width \in 1..Width
                                      /\ DeskAt(p) = Order[p - Width] /\ DeskAt(p) \in Desks
         /\ p = Final => DeskAt(p) = Ops
         /\ DeskAt(p) \in Desks \cup {Ops}
  BY Roster DEF DeskAt

LEMMA Numbers ==
  ASSUME TypeOK, NEW r \in Runs
  PROVE  /\ Number(r) \in 1..(Rounds * Final)
         /\ run[r].round = 1 => Number(r) = run[r].at
         /\ run[r].round = 2 => Number(r) = Final + run[r].at
         /\ run[r].round \in {1, 2} /\ run[r].at \in 1..Final
  <1>1. run[r].round \in {1, 2} /\ run[r].at \in 1..Final
      BY DEF TypeOK, RunStates, Rounds
  <1>2. CASE run[r].round = 1
      BY <1>1, <1>2, Roster DEF Number, Rounds
  <1>3. CASE run[r].round = 2
      BY <1>1, <1>3, Roster DEF Number, Rounds
  <1> QED
      BY <1>1, <1>2, <1>3

(* An envelope of a desk holds an output, the pack's holds one per desk.   *)
LEMMA EnvelopeIs ==
  ASSUME NEW e \in Envelopes
  PROVE  /\ e # NoRow /\ e.desk \in Desks \cup {Ops} /\ e.run \in Runs
         /\ e.n \in 1..(Rounds * Final)
         /\ e.desk \in Desks => e.content \in Outputs
  BY NoRowAssumption, Roster DEF Envelopes

-----------------------------------------------------------------------------
(* The latest envelope of a desk.                                          *)

(* A set of bounded numbers has a largest one.                             *)
LEMMA Largest ==
  ASSUME NEW n \in Nat, NEW S \in SUBSET (0..n), S # {}
  PROVE  \E m \in S : \A x \in S : x <= m
  <1> DEFINE R == OpToRel(<, Nat)
             T == {n - x : x \in S}
  <1>1. T \subseteq Nat /\ T # {}
      <2>1. \A x \in S : n - x \in Nat
          OBVIOUS
      <2>2. PICK x \in S : TRUE
          OBVIOUS
      <2>3. n - x \in T
          OBVIOUS
      <2> QED
          BY <2>1, <2>3
  <1>2. IsWellFoundedOn(R, Nat)
      BY NatLessThanWellFounded
  <1>3. \E x \in T : \A y \in T : ~(<<y, x>> \in R)
      <2> HIDE DEF R, T
      <2> QED
          BY <1>1, <1>2, WFMin
  <1>4. PICK m \in S : \A x \in S : ~(<<n - x, n - m>> \in R)
      BY <1>3
  <1>5. \A x \in S : ~(n - x < n - m)
      BY <1>1, <1>4 DEF OpToRel
  <1> QED
      BY <1>5

(* Rows of different transactions differ in created_at, rows of one in     *)
(* their number, so that a desk with a row has a latest one.               *)
LEMMA LatestIs ==
  ASSUME IInv, NEW r \in Runs, run[r].pc \in Writing, NEW d, Candidates(r, d) # {}
  PROVE  Latest(r, d) \in Candidates(r, d)
  <1> DEFINE all == Candidates(r, d)
             start(e) == run[e.run].start
  <1>1. \A e \in all : e \in Envelopes /\ e \in table \cup draft[r]
      BY DEF Candidates, Visible, IInv, TypeOK
  <1>2. \A e \in all : e.run \in Begun
      BY <1>1, EnvelopeIs DEF IInv, Numbering, NumbersOf, Begun, Writing, Putting
  <1>3. \A e \in all : start(e) \in 0..Cardinality(Runs)
      BY <1>1, EnvelopeIs DEF IInv, TypeOK, RunStates
  <1>4. PICK e0 \in all : \A f \in all : start(f) <= start(e0)
      <2>1. Cardinality(Runs) \in Nat
          BY DeskAssumption, FS_CardinalityType
      <2>2. {start(e) : e \in all} \in SUBSET (0..Cardinality(Runs))
          BY <1>3
      <2>3. {start(e) : e \in all} # {}
          OBVIOUS
      <2>4. \E m \in {start(e) : e \in all} : \A x \in {start(e) : e \in all} : x <= m
          BY <2>1, <2>2, <2>3, Largest
      <2> QED
          BY <2>4
  <1>5. \A e, f \in all : e.run = f.run /\ e.n = f.n => e = f
      <2>1. \A e \in all : e \in draft[r] => e.run = r
          BY DEF IInv, Numbering, NumbersOf
      <2>2. \A e \in all : e \in table => e.run # r
          BY DEF IInv, Numbering, Writing, Putting
      <2> QED
          BY <1>1, <2>1, <2>2 DEF IInv, Numbering, Numbered
  <1> DEFINE last == {e \in all : start(e) = start(e0)}
  <1>6. PICK e1 \in last : \A f \in last : f.n <= e1.n
      <2>1. Rounds * Final \in Nat
          BY Roster DEF Rounds
      <2>2. {e.n : e \in last} \in SUBSET (0..(Rounds * Final))
          BY <1>1, <2>1, EnvelopeIs
      <2>3. {e.n : e \in last} # {}
          OBVIOUS
      <2>4. \E m \in {e.n : e \in last} : \A x \in {e.n : e \in last} : x <= m
          BY <2>1, <2>2, <2>3, Largest
      <2> QED
          BY <2>4
  <1>7. ASSUME NEW f \in all \ {e1}
        PROVE  Newer(e1, f)
      <2>1. start(e1) = start(e0) /\ start(f) <= start(e1) /\ e1 \in all
          BY <1>4
      <2>2. CASE start(f) < start(e1)
          BY <2>2 DEF Newer
      <2>3. CASE start(f) = start(e1)
          <3>1. f.run = e1.run
              BY <1>2, <2>1, <2>3 DEF IInv, Beginnings
          <3>2. f.n <= e1.n /\ f.n # e1.n
              BY <1>5, <1>6, <2>1, <2>3, <3>1
          <3>3. e1.n > f.n
              BY <1>1, <2>1, <3>2, EnvelopeIs
          <3> QED
              BY <2>3, <3>3 DEF Newer
      <2> QED
          BY <1>3, <2>1, <2>2, <2>3
  <1>8. \E e \in all : \A f \in all \ {e} : Newer(e, f)
      BY <1>6, <1>7
  <1> HIDE DEF all
  <1>9. Latest(r, d) \in all
      BY <1>8 DEF Latest, all
  <1> QED
      BY <1>9 DEF all

-----------------------------------------------------------------------------
(* The initial states satisfy the invariant.                               *)
LEMMA InitIInv == Init => IInv
  <1> SUFFICES ASSUME Init PROVE IInv
      OBVIOUS
  <1>1. /\ run = [r \in Runs |-> Fresh] /\ table = {} /\ sent = {} /\ events = <<>>
        /\ health = [d \in Desks \cup {Ops} |-> NoRow]
        /\ heard = [d \in Desks \cup {Ops} |-> NoRow]
        /\ draft = [r \in Runs |-> {}]
        /\ touched = [r \in Runs |-> [d \in Desks \cup {Ops} |-> NoRow]]
      BY DEF Init
  <1>2. \A r \in Runs : run[r].pc = "idle" /\ run[r].new = NoRow /\ run[r].at = 1
                          /\ run[r].pack = [d \in Desks |-> NoRow]
      BY <1>1 DEF Fresh
  <1>3. TypeOK
      <2>1. Fresh \in RunStates
          <3>1. Cardinality(Runs) \in Nat
              BY DeskAssumption, FS_CardinalityType
          <3> QED
              BY <3>1, Roster DEF Fresh, RunStates, Rounds, MaybeEnvelope, Packs
      <2> QED
          BY <1>1, <2>1 DEF TypeOK, Health, MaybeEnvelope
  <1>4. Beginnings /\ InHand /\ Progress
      BY <1>2 DEF Beginnings, Begun, InHand, HandOf, Progress, ProgressOf, Putting
  <1>5. Numbering /\ OneRowPerKey /\ TouchedFollows /\ NoneMissing
      BY <1>1, <1>2 DEF Numbering, NumbersOf, Numbered, OneRowPerKey, TouchedFollows,
                        NoneMissing
  <1>6. OneRowPerEnvelope /\ MeshShowsTheStore
      BY <1>1, <1>2 DEF OneRowPerEnvelope, MeshShowsTheStore, HealthFollowsStore,
                        HeardIsCommitted, PublisherIsNeverMissing
  <1> QED
      BY <1>3, <1>4, <1>5, <1>6 DEF IInv

-----------------------------------------------------------------------------
(* Steps that leave the database and the transactions alone.               *)

(* What is known of a run depends on that run and on what it sees.         *)
LEMMA SameRun ==
  ASSUME NEW s, run'[s] = run[s], draft'[s] = draft[s], table \subseteq table'
  PROVE  /\ HandOf(s) => HandOf(s)'
         /\ NumbersOf(s) => NumbersOf(s)'
         /\ ProgressOf(s) => ProgressOf(s)'
  <1>1. HandOf(s) => HandOf(s)'
      BY DEF HandOf, Here, Number, Visible
  <1>2. NumbersOf(s) => NumbersOf(s)'
      BY DEF NumbersOf, Number
  <1>3. ProgressOf(s) => ProgressOf(s)'
      BY DEF ProgressOf, Visible
  <1> QED
      BY <1>1, <1>2, <1>3

(* One run goes on within its transaction.                                 *)
LEMMA RunStep ==
  ASSUME IInv, NEW r \in Runs,
         UNCHANGED <<table, health, draft, touched, heard>>,
         sent' \subseteq Envelopes, events' \in Seq(Envelopes),
         run' \in [Runs -> RunStates], \A s \in Runs \ {r} : run'[s] = run[s],
         run[r].pc \in Writing, run'[r].pc \in Writing,
         run'[r].start = run[r].start, run'[r].fixture = run[r].fixture,
         HandOf(r)', NumbersOf(r)', ProgressOf(r)',
         run'[r].new # NoRow => Present(run'[r].new),
         \A d \in Desks : run'[r].pack[d] # NoRow => run'[r].pack[d].by # "desk_missing"
  PROVE  IInv'
  <1> USE DEF IInv
  <1>1. TypeOK'
      BY DEF TypeOK
  <1>2. Beginnings'
      <2>1. Begun' = Begun /\ \A s \in Begun : run'[s].start = run[s].start
                                              /\ run'[s].fixture = run[s].fixture
          BY DEF Begun, Writing, Putting
      <2>2. run'[r].pc # "idle"
          BY DEF Writing, Putting
      <2> QED
          BY <2>1, <2>2 DEF Beginnings
  <1>3. \A s \in Runs \ {r} : HandOf(s)' /\ NumbersOf(s)' /\ ProgressOf(s)'
      BY SameRun DEF InHand, Numbering, Progress
  <1>4. InHand' /\ Progress'
      BY <1>3 DEF InHand, Progress
  <1>5. Numbering'
      <2>1. \A e \in table : e.run \in Runs \ {r}
          BY EnvelopeIs DEF TypeOK, Numbering, Writing, Putting
      <2> QED
          BY <1>3, <2>1 DEF Numbering, Numbered
  <1>6. OneRowPerKey' /\ TouchedFollows'
      BY DEF OneRowPerKey, SameKey, TouchedFollows, Visible
  <1>7. NoneMissing'
      BY DEF NoneMissing, Present
  <1>8. OneRowPerEnvelope' /\ MeshShowsTheStore'
      BY DEF OneRowPerEnvelope, SameKey, MeshShowsTheStore, HealthFollowsStore,
             HeardIsCommitted, PublisherIsNeverMissing
  <1> QED
      BY <1>1, <1>2, <1>4, <1>5, <1>6, <1>7, <1>8

LEMMA BeginStep ==
  ASSUME IInv, NEW r \in Runs, NEW fixture \in Fixtures, NEW killed \in SUBSET Desks,
         Begin(r, fixture, killed)
  PROVE  IInv'
  <1> USE DEF IInv
  <1> DEFINE n == Cardinality(Begun)
             begun == [run[r] EXCEPT !.pc = "next", !.start = n + 1,
                                     !.fixture = fixture, !.killed = killed]
  <1>1. /\ run[r].pc = "idle" /\ run[r] \in RunStates
        /\ run' = [run EXCEPT ![r] = begun]
        /\ UNCHANGED <<table, health, draft, touched, sent, events, heard>>
      BY DEF Begin, TypeOK
  <1>2. /\ n \in Nat /\ n + 1 <= Cardinality(Runs)
        /\ Cardinality(Begun \cup {r}) = n + 1
      <2>1. Begun \subseteq Runs /\ r \notin Begun
          BY <1>1 DEF Begun
      <2>2. IsFiniteSet(Begun) /\ n \in Nat
          BY <2>1, DeskAssumption, FS_Subset, FS_CardinalityType
      <2>3. Cardinality(Begun \cup {r}) = n + 1
          BY <2>1, <2>2, FS_AddElement
      <2>4. Cardinality(Begun \cup {r}) <= Cardinality(Runs)
          BY <2>1, DeskAssumption, FS_Subset
      <2> QED
          BY <2>2, <2>3, <2>4
  <1>3. Cardinality(Runs) \in Nat
      BY DeskAssumption, FS_CardinalityType
  <1> HIDE DEF n
  <1>4. /\ begun \in RunStates /\ begun.pc = "next" /\ begun.start = n + 1
        /\ begun.at = run[r].at
        /\ begun.fixture = fixture /\ begun.new = run[r].new /\ begun.pack = run[r].pack
      <2>1. n + 1 \in 0..Cardinality(Runs)
          BY <1>2, <1>3
      <2>2. begun \in RunStates
          BY <1>1, <2>1 DEF RunStates
      <2> QED
          BY <1>1, <2>2 DEF RunStates
  <1> HIDE DEF begun
  <1>5. /\ run' \in [Runs -> RunStates] /\ run'[r] = begun
        /\ \A s \in Runs \ {r} : run'[s] = run[s]
      BY <1>1, <1>4 DEF TypeOK
  <1>6. TypeOK'
      BY <1>1, <1>5 DEF TypeOK
  <1>7. draft[r] = {} /\ \A e \in table : e.run \in Runs \ {r}
      BY <1>1, EnvelopeIs DEF Numbering, TypeOK, Writing, Putting
  <1>8. Beginnings'
      <2>1. Begun' = Begun \cup {r} /\ r \notin Begun
          BY <1>1, <1>4, <1>5 DEF Begun
      <2>2. \A s \in Begun : s \in Runs \ {r} /\ run[s].start \in Nat /\ run[s].start <= n
          <3>1. \A s \in Begun : s \in Runs \ {r} /\ run[s].start <= n
              BY <1>1 DEF Begun, Beginnings, n
          <3>2. \A s \in Runs : run[s].start \in 0..Cardinality(Runs)
              BY DEF TypeOK, RunStates
          <3> QED
              BY <1>3, <3>1, <3>2
      <2>3. \A s \in Begun : run'[s] = run[s]
          BY <1>5, <2>2
      <2>4. \A s \in Begun' : run'[s].start <= n + 1 /\ run'[s].fixture \in Fixtures
          BY <1>2, <1>4, <1>5, <2>1, <2>2, <2>3 DEF Beginnings
      <2>5. \A s, t \in Begun' : run'[s].start = run'[t].start => s = t
          BY <1>2, <1>4, <1>5, <2>1, <2>2, <2>3 DEF Beginnings
      <2> QED
          BY <1>2, <1>4, <1>5, <2>1, <2>4, <2>5 DEF Beginnings
  <1>9. \A s \in Runs \ {r} : HandOf(s)' /\ NumbersOf(s)' /\ ProgressOf(s)'
      BY <1>1, <1>5, SameRun DEF InHand, Numbering, Progress
  <1>10. HandOf(r)' /\ NumbersOf(r)' /\ ProgressOf(r)'
      <2>1. run'[r].at = 1 /\ run'[r].pc = "next"
          BY <1>1, <1>4, <1>5 DEF Beginnings
      <2>2. HandOf(r)' /\ NumbersOf(r)'
          BY <1>1, <1>4, <1>5, <1>7 DEF HandOf, NumbersOf, Putting
      <2>3. \A i \in 1..Width : ~(i < 1) /\ ~(Width + i < 1)
          BY Roster
      <2>4. ProgressOf(r)'
          BY <2>1, <2>3 DEF ProgressOf, Putting
      <2> QED
          BY <2>2, <2>4
  <1>11. InHand' /\ Progress'
      BY <1>9, <1>10 DEF InHand, Progress
  <1>12. Numbering'
      BY <1>1, <1>4, <1>5, <1>7, <1>9, <1>10 DEF Numbering, Numbered, Writing, Putting
  <1>13. OneRowPerKey' /\ TouchedFollows'
      BY <1>1 DEF OneRowPerKey, SameKey, TouchedFollows, Visible
  <1>14. NoneMissing'
      BY <1>1, <1>4, <1>5 DEF NoneMissing, Present
  <1>15. OneRowPerEnvelope' /\ MeshShowsTheStore'
      BY <1>1, <1>4, <1>5 DEF OneRowPerEnvelope, SameKey, MeshShowsTheStore,
         HealthFollowsStore, HeardIsCommitted, PublisherIsNeverMissing
  <1> QED
      BY <1>6, <1>8, <1>11, <1>12, <1>13, <1>14, <1>15

(* A desk is skipped, or its envelope is built.                            *)
LEMMA BuiltEnvelope ==
  ASSUME TypeOK, NEW r \in Runs, NEW content,
         \/ Here(r) \in Desks /\ content \in Outputs
         \/ Here(r) = Ops /\ content \in [Desks -> Outputs]
  PROVE  /\ Envelope(r, Here(r), content) \in Envelopes
         /\ Envelope(r, Here(r), content).desk = Here(r)
         /\ Envelope(r, Here(r), content).content = content
         /\ Envelope(r, Here(r), content).run = r
         /\ Envelope(r, Here(r), content).n = Number(r)
  BY Numbers DEF Envelope, Envelopes, Number

LEMMA TagIsBoolean ==
  ASSUME NEW r \in Runs
  PROVE  IntelTag(r) \in BOOLEAN
  BY DEF IntelTag

LEMMA PublishStep ==
  ASSUME IInv, NEW r \in Runs, Publish(r)
  PROVE  IInv'
  <1>1. /\ run[r].pc = "next" /\ run[r] \in RunStates
        /\ run[r].at \in Nat /\ run[r].at <= Width
        /\ Here(r) = Order[run[r].at] /\ Here(r) \in Desks
        /\ UNCHANGED <<table, health, draft, touched, sent, events, heard>>
      BY Numbers, Positions, Roster DEF Publish, Assembling, Here, IInv, TypeOK
  <1>2. /\ HandOf(r) /\ NumbersOf(r) /\ ProgressOf(r)
        /\ run[r].new # NoRow => Present(run[r].new)
        /\ \A d \in Desks : run[r].pack[d] # NoRow => run[r].pack[d].by # "desk_missing"
      BY DEF IInv, InHand, Numbering, Progress, NoneMissing, MeshShowsTheStore,
             PublisherIsNeverMissing
  <1>3. CASE Here(r) \in run[r].killed
      <2> DEFINE rec == [run[r] EXCEPT !.at = @ + 1]
      <2>1. run' = [run EXCEPT ![r] = rec]
          BY <1>3 DEF Publish, IInv, TypeOK
      <2>2. run[r].at + 1 \in 1..Final
          BY <1>1, Roster
      <2>3. /\ rec \in RunStates /\ rec.pc = "next" /\ rec.at = run[r].at + 1
            /\ rec.round = run[r].round /\ rec.killed = run[r].killed
            /\ rec.start = run[r].start /\ rec.fixture = run[r].fixture
            /\ rec.new = run[r].new /\ rec.pack = run[r].pack
          BY <1>1, <2>2 DEF RunStates
      <2> HIDE DEF rec
      <2>4. /\ run' \in [Runs -> RunStates] /\ run'[r] = rec
            /\ \A s \in Runs \ {r} : run'[s] = run[s]
          BY <2>1, <2>3 DEF IInv, TypeOK
      <2>5. HandOf(r)'
          BY <2>3, <2>4 DEF HandOf, Putting
      <2>6. NumbersOf(r)'
          <3>1. Number(r)' = Number(r) + 1 /\ Number(r) \in Nat
              BY <1>1, <2>3, <2>4, Numbers, Roster DEF Number, IInv, Rounds
          <3>2. \A e \in draft[r] : e.n \in Nat /\ e.n < Number(r) /\ e.run = r
              BY <1>1, <1>2, EnvelopeIs DEF NumbersOf, IInv, TypeOK
          <3> QED
              BY <1>1, <2>3, <2>4, <3>1, <3>2 DEF NumbersOf
      <2>7. ProgressOf(r)'
          BY <1>1, <1>2, <1>3, <2>3, <2>4, Roster DEF ProgressOf, Visible, Putting
      <2> QED
          BY <1>1, <1>2, <2>3, <2>4, <2>5, <2>6, <2>7, RunStep
          DEF IInv, TypeOK, Writing, Putting
  <1>4. CASE Here(r) \notin run[r].killed
      <2> DEFINE env == Envelope(r, Here(r), Published(r))
                 rec == [run[r] EXCEPT !.pc = "find", !.new = env]
      <2>1. run' = [run EXCEPT ![r] = rec]
          BY <1>4 DEF Publish, IInv, TypeOK
      <2>2. Published(r) \in Outputs /\ Published(r).by \in Fixtures
          BY <1>1, TagIsBoolean DEF Published, Outputs, IInv, Beginnings, Begun
      <2>3. /\ env \in Envelopes /\ env.desk = Here(r) /\ env.content = Published(r)
            /\ env.run = r /\ env.n = Number(r)
          BY <1>1, <2>2, BuiltEnvelope DEF IInv
      <2>4. Present(env)
          BY <2>2, <2>3, DeskAssumption DEF Present, ErrorClasses
      <2> HIDE DEF env
      <2>5. /\ rec \in RunStates /\ rec.pc = "find" /\ rec.new = env
            /\ rec.at = run[r].at /\ rec.round = run[r].round
            /\ rec.killed = run[r].killed /\ rec.pack = run[r].pack
            /\ rec.start = run[r].start /\ rec.fixture = run[r].fixture
          BY <1>1, <2>3 DEF RunStates, MaybeEnvelope
      <2> HIDE DEF rec
      <2>6. /\ run' \in [Runs -> RunStates] /\ run'[r] = rec
            /\ \A s \in Runs \ {r} : run'[s] = run[s]
          BY <2>1, <2>5 DEF IInv, TypeOK
      <2>7. Number(r)' = Number(r) /\ Here(r)' = Here(r) /\ Visible(r)' = Visible(r)
          BY <1>1, <2>5, <2>6 DEF Number, Here, Visible
      <2>8. HandOf(r)' /\ NumbersOf(r)'
          BY <1>1, <1>2, <2>3, <2>5, <2>6, <2>7 DEF HandOf, NumbersOf, Putting
      <2>9. ProgressOf(r)'
          BY <1>1, <1>2, <2>5, <2>6, <2>7, Roster DEF ProgressOf, Putting
      <2> QED
          BY <1>1, <1>2, <2>4, <2>5, <2>6, <2>8, <2>9, RunStep
          DEF IInv, TypeOK, Writing, Putting
  <1> QED
      BY <1>3, <1>4

LEMMA TakeStep ==
  ASSUME IInv, NEW r \in Runs, Take(r)
  PROVE  IInv'
  <1> DEFINE d == Here(r)
             i0 == run[r].at - Width
  <1>1. /\ run[r].pc = "next" /\ run[r] \in RunStates
        /\ run[r].at \in Nat /\ Width < run[r].at /\ run[r].at < Final
        /\ i0 \in 1..Width /\ d = Order[i0] /\ d \in Desks
        /\ UNCHANGED <<table, health, draft, touched, sent, events, heard>>
      BY Numbers, Positions, Roster DEF Take, Taking, Assembling, Here, IInv, TypeOK
  <1>2. /\ HandOf(r) /\ NumbersOf(r) /\ ProgressOf(r)
        /\ run[r].new # NoRow => Present(run[r].new)
        /\ \A x \in Desks : run[r].pack[x] # NoRow => run[r].pack[x].by # "desk_missing"
      BY DEF IInv, InHand, Numbering, Progress, NoneMissing, MeshShowsTheStore,
             PublisherIsNeverMissing
  <1>3. run[r].pack \in [Desks -> Outputs \cup {NoRow}]
      BY <1>1 DEF RunStates, Packs
  <1>4. CASE d \notin run[r].killed /\ Candidates(r, d) # {}
      <2> DEFINE content == Latest(r, d).content
                 filled == [run[r].pack EXCEPT ![d] = content]
                 rec == [run[r] EXCEPT !.pack = filled, !.at = @ + 1]
      <2>1. run' = [run EXCEPT ![r] = rec]
          BY <1>4 DEF Take, IInv, TypeOK
      <2>2. /\ Latest(r, d) \in Envelopes /\ Latest(r, d).desk = d
            /\ Latest(r, d) \in table \cup draft[r]
          <3>1. Latest(r, d) \in Candidates(r, d)
              BY <1>1, <1>4, LatestIs DEF Writing
          <3> QED
              BY <3>1 DEF Candidates, Visible, IInv, TypeOK
      <2>3. content \in Outputs /\ content.by # "desk_missing"
          BY <1>1, <2>2, EnvelopeIs DEF IInv, NoneMissing, Present
      <2> HIDE DEF content
      <2>4. /\ filled \in Packs /\ filled[d] = content
            /\ \A x \in Desks : filled[x] = content \/ filled[x] = run[r].pack[x]
          BY <1>1, <1>3, <2>3 DEF Packs
      <2> HIDE DEF filled
      <2>5. run[r].at + 1 \in 1..Final
          BY <1>1, Roster
      <2>6. /\ rec \in RunStates /\ rec.pc = "next" /\ rec.at = run[r].at + 1
            /\ rec.round = run[r].round /\ rec.killed = run[r].killed
            /\ rec.start = run[r].start /\ rec.fixture = run[r].fixture
            /\ rec.new = run[r].new /\ rec.pack = filled
          BY <1>1, <2>4, <2>5 DEF RunStates
      <2> HIDE DEF rec
      <2>7. /\ run' \in [Runs -> RunStates] /\ run'[r] = rec
            /\ \A s \in Runs \ {r} : run'[s] = run[s]
          BY <2>1, <2>6 DEF IInv, TypeOK
      <2>8. HandOf(r)'
          BY <2>6, <2>7 DEF HandOf, Putting
      <2>9. NumbersOf(r)'
          <3>1. Number(r)' = Number(r) + 1 /\ Number(r) \in Nat
              BY <1>1, <2>6, <2>7, Numbers, Roster DEF Number, IInv, Rounds
          <3>2. \A e \in draft[r] : e.n \in Nat /\ e.n < Number(r) /\ e.run = r
              BY <1>1, <1>2, EnvelopeIs DEF NumbersOf, IInv, TypeOK
          <3> QED
              BY <1>1, <2>6, <2>7, <3>1, <3>2 DEF NumbersOf
      <2>10. ProgressOf(r)'
          <3> SUFFICES ASSUME NEW i \in 1..Width
                       PROVE  /\ Order[i] \in run[r].killed
                                   \/ \E e \in Visible(r) : e.desk = Order[i]
                              /\ Width + i < run[r].at + 1 => filled[Order[i]] \in Outputs
              BY <1>1, <2>6, <2>7 DEF ProgressOf, Visible, Putting
          <3>1. i < run[r].at
              BY <1>1, Roster
          <3>2. CASE i = i0
              BY <1>1, <1>2, <2>3, <2>4, <3>1, <3>2 DEF ProgressOf
          <3>3. CASE i # i0
              <4>1. Width + i < run[r].at + 1 => Width + i < run[r].at
                  BY <1>1, <3>3, Roster
              <4> QED
                  BY <1>1, <1>2, <2>3, <2>4, <3>1, <4>1, Roster DEF ProgressOf
          <3> QED
              BY <3>2, <3>3
      <2>11. \A x \in Desks : filled[x] # NoRow => filled[x].by # "desk_missing"
          BY <1>2, <2>3, <2>4
      <2> QED
          BY <1>1, <1>2, <2>6, <2>7, <2>8, <2>9, <2>10, <2>11, RunStep
          DEF IInv, TypeOK, Writing
  <1>5. CASE ~(d \notin run[r].killed /\ Candidates(r, d) # {})
      <2> DEFINE error == IF d \in run[r].killed THEN "desk_killed" ELSE "desk_missing"
                 content == Failed(r, error)
                 env == Envelope(r, d, content)
                 filled == [run[r].pack EXCEPT ![d] = content]
                 rec == [run[r] EXCEPT !.pc = "find", !.pack = filled, !.new = env]
      <2>1. run' = [run EXCEPT ![r] = rec]
          BY <1>5 DEF Take, IInv, TypeOK
      <2>2. error = "desk_killed"
          <3>1. i0 < run[r].at
              BY <1>1, Roster
          <3>2. d \in run[r].killed \/ \E e \in Visible(r) : e.desk = d
              BY <1>1, <1>2, <3>1 DEF ProgressOf
          <3> QED
              BY <1>5, <3>2 DEF Candidates
      <2>3. content \in Outputs /\ content.by # "desk_missing"
          BY <2>2, TagIsBoolean DEF Failed, Outputs, ErrorClasses
      <2> HIDE DEF content
      <2>4. /\ env \in Envelopes /\ env.desk = d /\ env.content = content
            /\ env.run = r /\ env.n = Number(r) /\ Present(env)
          BY <1>1, <2>3, BuiltEnvelope DEF IInv, Present
      <2>5. /\ filled \in Packs /\ filled[d] = content
            /\ \A x \in Desks : filled[x] = content \/ filled[x] = run[r].pack[x]
          BY <1>1, <1>3, <2>3 DEF Packs
      <2> HIDE DEF filled, env
      <2>6. /\ rec \in RunStates /\ rec.pc = "find" /\ rec.at = run[r].at
            /\ rec.round = run[r].round /\ rec.killed = run[r].killed
            /\ rec.start = run[r].start /\ rec.fixture = run[r].fixture
            /\ rec.new = env /\ rec.pack = filled
          BY <1>1, <2>4, <2>5 DEF RunStates, MaybeEnvelope
      <2> HIDE DEF rec
      <2>7. /\ run' \in [Runs -> RunStates] /\ run'[r] = rec
            /\ \A s \in Runs \ {r} : run'[s] = run[s]
          BY <2>1, <2>6 DEF IInv, TypeOK
      <2>8. Number(r)' = Number(r) /\ Here(r)' = Here(r) /\ Visible(r)' = Visible(r)
          BY <1>1, <2>6, <2>7 DEF Number, Here, Visible
      <2>9. HandOf(r)' /\ NumbersOf(r)'
          BY <1>1, <1>2, <2>4, <2>6, <2>7, <2>8 DEF HandOf, NumbersOf, Putting
      <2>10. ProgressOf(r)'
          <3> SUFFICES ASSUME NEW i \in 1..Width
                       PROVE  /\ Order[i] \in run[r].killed
                                   \/ \E e \in Visible(r) : e.desk = Order[i]
                              /\ Width + i <= run[r].at => filled[Order[i]] \in Outputs
              BY <1>1, <2>6, <2>7, <2>8 DEF ProgressOf, Putting
          <3>1. i < run[r].at
              BY <1>1, Roster
          <3>2. CASE i = i0
              BY <1>1, <1>2, <2>3, <2>5, <3>1, <3>2 DEF ProgressOf
          <3>3. CASE i # i0
              <4>1. Width + i <= run[r].at => Width + i < run[r].at
                  BY <1>1, <3>3, Roster
              <4> QED
                  BY <1>1, <1>2, <2>3, <2>5, <3>1, <4>1, Roster DEF ProgressOf
          <3> QED
              BY <3>2, <3>3
      <2>11. \A x \in Desks : filled[x] # NoRow => filled[x].by # "desk_missing"
          BY <1>2, <2>3, <2>5
      <2> QED
          BY <1>1, <1>2, <2>4, <2>6, <2>7, <2>9, <2>10, <2>11, RunStep
          DEF IInv, TypeOK, Writing, Putting
  <1> QED
      BY <1>4, <1>5

LEMMA PutPackStep ==
  ASSUME IInv, NEW r \in Runs, PutPack(r)
  PROVE  IInv'
  <1> DEFINE env == Envelope(r, Ops, run[r].pack)
             rec == [run[r] EXCEPT !.pc = "find", !.new = env]
  <1>1. /\ run[r].pc = "next" /\ run[r] \in RunStates
        /\ run[r].at = Final /\ Here(r) = Ops
        /\ run' = [run EXCEPT ![r] = rec]
        /\ UNCHANGED <<table, health, draft, touched, sent, events, heard>>
      BY Numbers, Positions DEF PutPack, Here, IInv, TypeOK
  <1>2. /\ HandOf(r) /\ NumbersOf(r) /\ ProgressOf(r)
        /\ \A x \in Desks : run[r].pack[x] # NoRow => run[r].pack[x].by # "desk_missing"
      BY DEF IInv, InHand, Numbering, Progress, MeshShowsTheStore, PublisherIsNeverMissing
  <1>3. run[r].pack \in [Desks -> Outputs]
      <2>1. \A i \in 1..Width : run[r].pack[Order[i]] \in Outputs
          BY <1>1, <1>2, Roster DEF ProgressOf
      <2>2. \A d \in Desks : run[r].pack[d] \in Outputs
          BY <2>1, Roster
      <2> QED
          BY <1>1, <2>2 DEF RunStates, Packs
  <1>4. /\ env \in Envelopes /\ env.desk = Here(r) /\ env.run = r /\ env.n = Number(r)
        /\ Present(env)
      BY <1>1, <1>3, BuiltEnvelope, Roster DEF IInv, Present
  <1> HIDE DEF env
  <1>5. /\ rec \in RunStates /\ rec.pc = "find" /\ rec.new = env
        /\ rec.at = run[r].at /\ rec.round = run[r].round
        /\ rec.killed = run[r].killed /\ rec.pack = run[r].pack
        /\ rec.start = run[r].start /\ rec.fixture = run[r].fixture
      BY <1>1, <1>4 DEF RunStates, MaybeEnvelope
  <1> HIDE DEF rec
  <1>6. /\ run' \in [Runs -> RunStates] /\ run'[r] = rec
        /\ \A s \in Runs \ {r} : run'[s] = run[s]
      BY <1>1, <1>5 DEF IInv, TypeOK
  <1>7. Number(r)' = Number(r) /\ Here(r)' = Here(r) /\ Visible(r)' = Visible(r)
      BY <1>1, <1>5, <1>6 DEF Number, Here, Visible
  <1>8. HandOf(r)' /\ NumbersOf(r)'
      BY <1>1, <1>2, <1>4, <1>5, <1>6, <1>7 DEF HandOf, NumbersOf, Putting
  <1>9. ProgressOf(r)'
      <2> SUFFICES ASSUME NEW i \in 1..Width
                   PROVE  /\ i < run[r].at => Order[i] \in run[r].killed
                               \/ \E e \in Visible(r) : e.desk = Order[i]
                          /\ run[r].pack[Order[i]] \in Outputs
          BY <1>5, <1>6, <1>7 DEF ProgressOf
      <2> QED
          BY <1>1, <1>2, <1>3, Roster DEF ProgressOf
  <1> QED
      BY <1>1, <1>2, <1>4, <1>5, <1>6, <1>8, <1>9, RunStep
      DEF IInv, TypeOK, Writing, Putting

LEMMA FindStep ==
  ASSUME IInv, NEW r \in Runs, Find(r)
  PROVE  IInv'
  <1> DEFINE same == {e \in Visible(r) : SameKey(e, run[r].new)}
             dup == IF same = {} THEN NoRow ELSE CHOOSE e \in same : TRUE
             rec == [run[r] EXCEPT !.pc = "insert", !.dup = dup]
  <1>1. /\ run[r].pc = "find" /\ run[r] \in RunStates
        /\ run' = [run EXCEPT ![r] = rec]
        /\ UNCHANGED <<table, health, draft, touched, sent, events, heard>>
      BY DEF Find, IInv, TypeOK
  <1>2. /\ HandOf(r) /\ NumbersOf(r) /\ ProgressOf(r)
        /\ run[r].new # NoRow => Present(run[r].new)
        /\ \A x \in Desks : run[r].pack[x] # NoRow => run[r].pack[x].by # "desk_missing"
      BY DEF IInv, InHand, Numbering, Progress, NoneMissing, MeshShowsTheStore,
             PublisherIsNeverMissing
  <1>3. \A e \in Visible(r) : e \in Envelopes
      BY DEF Visible, IInv, TypeOK
  <1>4. /\ dup # NoRow => dup \in Visible(r) /\ SameKey(dup, run[r].new)
        /\ dup = NoRow => \A e \in draft[r] : ~SameKey(e, run[r].new)
        /\ dup \in MaybeEnvelope
      <2>1. CASE same = {}
          BY <2>1 DEF Visible, MaybeEnvelope
      <2>2. CASE same # {}
          <3>1. dup \in same
              BY <2>2
          <3> QED
              BY <1>3, <3>1, EnvelopeIs DEF MaybeEnvelope
      <2> QED
          BY <2>1, <2>2
  <1> HIDE DEF dup
  <1>5. /\ rec \in RunStates /\ rec.pc = "insert" /\ rec.new = run[r].new /\ rec.dup = dup
        /\ rec.at = run[r].at /\ rec.round = run[r].round
        /\ rec.killed = run[r].killed /\ rec.pack = run[r].pack
        /\ rec.start = run[r].start /\ rec.fixture = run[r].fixture
      BY <1>1, <1>4 DEF RunStates
  <1> HIDE DEF rec
  <1>6. /\ run' \in [Runs -> RunStates] /\ run'[r] = rec
        /\ \A s \in Runs \ {r} : run'[s] = run[s]
      BY <1>1, <1>5 DEF IInv, TypeOK
  <1>7. Number(r)' = Number(r) /\ Here(r)' = Here(r) /\ Visible(r)' = Visible(r)
      BY <1>1, <1>5, <1>6 DEF Number, Here, Visible
  <1>8. HandOf(r)'
      <2>1. /\ run[r].new \in Envelopes
            /\ run[r].new.desk = Here(r) /\ run[r].new.run = r /\ run[r].new.n = Number(r)
          BY <1>1, <1>2 DEF HandOf, Putting
      <2> QED
          BY <1>1, <1>4, <1>5, <1>6, <1>7, <2>1 DEF HandOf, SameKey, Putting
  <1>9. NumbersOf(r)' /\ ProgressOf(r)'
      BY <1>1, <1>2, <1>5, <1>6, <1>7 DEF NumbersOf, ProgressOf, Putting
  <1> QED
      BY <1>1, <1>2, <1>5, <1>6, <1>8, <1>9, RunStep DEF IInv, TypeOK, Writing, Putting

LEMMA SelectStep ==
  ASSUME IInv, NEW r \in Runs, Select(r)
  PROVE  IInv'
  <1> DEFINE had == HealthOf(r, Here(r)) # NoRow
             rec == [run[r] EXCEPT !.pc = "upsert", !.had = had]
  <1>1. /\ run[r].pc = "select" /\ run[r] \in RunStates
        /\ run' = [run EXCEPT ![r] = rec]
        /\ UNCHANGED <<table, health, draft, touched, sent, events, heard>>
      BY DEF Select, IInv, TypeOK
  <1>2. /\ HandOf(r) /\ NumbersOf(r) /\ ProgressOf(r)
        /\ run[r].new # NoRow => Present(run[r].new)
        /\ \A x \in Desks : run[r].pack[x] # NoRow => run[r].pack[x].by # "desk_missing"
      BY DEF IInv, InHand, Numbering, Progress, NoneMissing, MeshShowsTheStore,
             PublisherIsNeverMissing
  <1> had \in BOOLEAN
      OBVIOUS
  <1> HIDE DEF had
  <1>3. /\ rec \in RunStates /\ rec.pc = "upsert" /\ rec.new = run[r].new
        /\ rec.dup = run[r].dup /\ rec.at = run[r].at /\ rec.round = run[r].round
        /\ rec.killed = run[r].killed /\ rec.pack = run[r].pack
        /\ rec.start = run[r].start /\ rec.fixture = run[r].fixture
      BY <1>1 DEF RunStates
  <1> HIDE DEF rec
  <1>4. /\ run' \in [Runs -> RunStates] /\ run'[r] = rec
        /\ \A s \in Runs \ {r} : run'[s] = run[s]
      BY <1>1, <1>3 DEF IInv, TypeOK
  <1>5. Number(r)' = Number(r) /\ Here(r)' = Here(r) /\ Visible(r)' = Visible(r)
      BY <1>1, <1>3, <1>4 DEF Number, Here, Visible
  <1>6. HandOf(r)'
      BY <1>1, <1>2, <1>3, <1>4, <1>5 DEF HandOf, SameKey, Putting
  <1>7. NumbersOf(r)' /\ ProgressOf(r)'
      BY <1>1, <1>2, <1>3, <1>4, <1>5 DEF NumbersOf, ProgressOf, Putting
  <1> QED
      BY <1>1, <1>2, <1>3, <1>4, <1>6, <1>7, RunStep DEF IInv, TypeOK, Writing, Putting

(* What a put stored is seen by its run, and is of the desk it was for.    *)
LEMMA StoredIs ==
  ASSUME IInv, NEW r \in Runs, run[r].pc \in {"select", "upsert", "notify"}
  PROVE  /\ Stored(r) \in Visible(r) /\ Stored(r) \in Envelopes
         /\ Stored(r).desk = Here(r) /\ Here(r) \in Desks \cup {Ops}
  <1>1. HandOf(r)
      BY DEF IInv, InHand
  <1>2. Stored(r) \in Visible(r) /\ Stored(r).desk = Here(r)
      BY <1>1 DEF HandOf, Stored, Visible, SameKey, Putting
  <1>3. Stored(r) \in Envelopes
      BY <1>2 DEF Visible, IInv, TypeOK
  <1> QED
      BY <1>2, <1>3, EnvelopeIs

LEMMA NotifyStep ==
  ASSUME IInv, NEW r \in Runs, Notify(r)
  PROVE  IInv'
  <1>1. /\ run[r].pc = "notify" /\ run[r] \in RunStates
        /\ UNCHANGED <<table, health, draft, touched, heard>>
      BY DEF Notify, IInv, TypeOK
  <1>2. /\ HandOf(r) /\ NumbersOf(r) /\ ProgressOf(r)
        /\ run[r].new # NoRow => Present(run[r].new)
        /\ \A x \in Desks : run[r].pack[x] # NoRow => run[r].pack[x].by # "desk_missing"
      BY DEF IInv, InHand, Numbering, Progress, NoneMissing, MeshShowsTheStore,
             PublisherIsNeverMissing
  <1>3. run[r].new \in Envelopes
      BY <1>1, <1>2 DEF HandOf, Putting
  <1>4. sent' \subseteq Envelopes /\ events' \in Seq(Envelopes)
      BY <1>3 DEF Notify, IInv, TypeOK
  <1>5. /\ Number(r) \in 1..(Rounds * Final) /\ run[r].at \in 1..Final
        /\ run[r].round \in {1, 2}
        /\ \A e \in draft[r] : e.n \in Nat /\ e.n <= Number(r) /\ e.run = r
      BY <1>1, <1>2, Numbers, EnvelopeIs DEF NumbersOf, IInv, TypeOK
  <1>6. CASE run[r].at < Final
      <2> DEFINE rec == [run[r] EXCEPT !.pc = "next", !.at = @ + 1]
      <2>1. run' = [run EXCEPT ![r] = rec]
          BY <1>6 DEF Notify, IInv, TypeOK
      <2>2. run[r].at + 1 \in 1..Final
          BY <1>5, <1>6, Roster
      <2>3. /\ rec \in RunStates /\ rec.pc = "next" /\ rec.at = run[r].at + 1
            /\ rec.round = run[r].round /\ rec.killed = run[r].killed
            /\ rec.start = run[r].start /\ rec.fixture = run[r].fixture
            /\ rec.new = run[r].new /\ rec.pack = run[r].pack
          BY <1>1, <2>2 DEF RunStates
      <2> HIDE DEF rec
      <2>4. /\ run' \in [Runs -> RunStates] /\ run'[r] = rec
            /\ \A s \in Runs \ {r} : run'[s] = run[s]
          BY <2>1, <2>3 DEF IInv, TypeOK
      <2>5. HandOf(r)'
          BY <2>3, <2>4 DEF HandOf, Putting
      <2>6. NumbersOf(r)'
          <3>1. Number(r)' = Number(r) + 1 /\ Number(r) \in Nat
              BY <1>5, <2>3, <2>4, Roster DEF Number, Rounds
          <3> QED
              BY <1>1, <1>5, <2>3, <2>4, <3>1 DEF NumbersOf
      <2>7. ProgressOf(r)'
          <3> SUFFICES ASSUME NEW i \in 1..Width
                       PROVE  /\ i < run[r].at + 1 => Order[i] \in run[r].killed
                                   \/ \E e \in Visible(r) : e.desk = Order[i]
                              /\ Width + i < run[r].at + 1 => run[r].pack[Order[i]] \in Outputs
              BY <1>1, <2>3, <2>4 DEF ProgressOf, Visible, Putting
          <3>1. i < run[r].at + 1 => i < run[r].at \/ i = run[r].at
              BY <1>5
          <3>2. i = run[r].at => \E e \in Visible(r) : e.desk = Order[i]
              BY <1>1, <1>5, StoredIs, Positions DEF Here
          <3>3. Width + i < run[r].at + 1 => Width + i <= run[r].at
              BY <1>5, Roster
          <3> QED
              BY <1>1, <1>2, <3>1, <3>2, <3>3 DEF ProgressOf, Putting
      <2> QED
          BY <1>1, <1>2, <1>4, <2>3, <2>4, <2>5, <2>6, <2>7, RunStep DEF Writing, Putting
  <1>7. CASE ~(run[r].at < Final)
      <2> DEFINE round == IF run[r].round < Rounds THEN run[r].round + 1 ELSE run[r].round
                 pc == IF run[r].round < Rounds THEN "next" ELSE "commit"
                 packs == Append(run[r].packs, run[r].pack)
                 rec == [run[r] EXCEPT !.packs = packs, !.pack = Fresh.pack, !.at = 1,
                                       !.round = round, !.pc = pc]
      <2>1. run' = [run EXCEPT ![r] = rec]
          BY <1>7 DEF Notify, IInv, TypeOK
      <2>2. run[r].at = Final /\ Fresh.pack = [d \in Desks |-> NoRow]
          BY <1>5, <1>7, Roster DEF Fresh
      <2>3. /\ 1 \in 1..Final /\ round \in 1..Rounds /\ pc \in {"next", "commit"}
            /\ pc = "next" => run[r].round = 1 /\ round = 2
          BY <1>5, Roster DEF Rounds
      <2>4. packs \in Seq([Desks -> Outputs])
          <3>1. \A i \in 1..Width : run[r].pack[Order[i]] \in Outputs
              BY <1>1, <1>2, <2>2, Roster DEF ProgressOf, Putting
          <3>2. run[r].pack \in [Desks -> Outputs]
              BY <1>1, <3>1, Roster DEF RunStates, Packs
          <3> QED
              BY <1>1, <3>2 DEF RunStates
      <2> HIDE DEF round, pc, packs
      <2>5. /\ rec \in RunStates /\ rec.pc = pc /\ rec.at = 1
            /\ rec.round = round /\ rec.killed = run[r].killed
            /\ rec.start = run[r].start /\ rec.fixture = run[r].fixture
            /\ rec.new = run[r].new /\ rec.pack = [d \in Desks |-> NoRow]
          BY <1>1, <2>2, <2>3, <2>4 DEF RunStates, Packs
      <2> HIDE DEF rec
      <2>6. /\ run' \in [Runs -> RunStates] /\ run'[r] = rec
            /\ \A s \in Runs \ {r} : run'[s] = run[s]
          BY <2>1, <2>5 DEF IInv, TypeOK
      <2>7. HandOf(r)'
          BY <2>3, <2>5, <2>6 DEF HandOf, Putting
      <2>8. NumbersOf(r)'
          <3>1. ASSUME pc = "next"
                PROVE  Number(r)' = Final + 1 /\ Number(r) = Final
              BY <2>2, <2>3, <2>5, <2>6, <3>1, Roster DEF Number
          <3> QED
              BY <1>1, <1>5, <2>3, <2>5, <2>6, <3>1, Roster DEF NumbersOf
      <2>9. ProgressOf(r)'
          <3>1. \A i \in 1..Width : ~(i < 1) /\ ~(Width + i < 1) /\ ~(Width + i <= 1)
              BY Roster
          <3> QED
              BY <2>5, <2>6, <3>1 DEF ProgressOf
      <2> QED
          BY <1>1, <1>2, <1>4, <2>3, <2>5, <2>6, <2>7, <2>8, <2>9, RunStep
          DEF Writing, Putting
  <1> QED
      BY <1>6, <1>7
-----------------------------------------------------------------------------
(* Steps that write a row.                                                 *)

LEMMA InsertStep ==
  ASSUME IInv, NEW r \in Runs, Insert(r)
  PROVE  IInv'
  <1> DEFINE rec == [run[r] EXCEPT !.pc = "select"]
             new == run[r].new
  <1>1. /\ run[r].pc = "insert" /\ run[r] \in RunStates
        /\ run' = [run EXCEPT ![r] = rec]
        /\ UNCHANGED <<table, health, touched, sent, events, heard>>
      BY DEF Insert, IInv, TypeOK
  <1>2. /\ HandOf(r) /\ NumbersOf(r) /\ ProgressOf(r)
        /\ run[r].new # NoRow => Present(run[r].new)
        /\ \A x \in Desks : run[r].pack[x] # NoRow => run[r].pack[x].by # "desk_missing"
      BY DEF IInv, InHand, Numbering, Progress, NoneMissing, MeshShowsTheStore,
             PublisherIsNeverMissing
  <1>3. /\ new \in Envelopes /\ new # NoRow
        /\ new.desk = Here(r) /\ new.run = r /\ new.n = Number(r) /\ Number(r) \in Nat
      BY <1>1, <1>2, EnvelopeIs, Numbers, Roster DEF HandOf, Putting, IInv, Rounds
  <1>4. /\ rec \in RunStates /\ rec.pc = "select" /\ rec.new = run[r].new
        /\ rec.dup = run[r].dup /\ rec.at = run[r].at /\ rec.round = run[r].round
        /\ rec.killed = run[r].killed /\ rec.pack = run[r].pack
        /\ rec.start = run[r].start /\ rec.fixture = run[r].fixture
      BY <1>1 DEF RunStates
  <1> HIDE DEF rec
  <1>5. /\ run' \in [Runs -> RunStates] /\ run'[r] = rec
        /\ \A s \in Runs \ {r} : run'[s] = run[s]
      BY <1>1, <1>4 DEF IInv, TypeOK
  <1>6. Number(r)' = Number(r) /\ Here(r)' = Here(r)
      BY <1>4, <1>5 DEF Number, Here
  <1>7. CASE run[r].dup # NoRow
      <2>1. draft' = draft
          BY <1>7 DEF Insert
      <2>2. HandOf(r)'
          BY <1>1, <1>2, <1>4, <1>5, <1>6, <1>7, <2>1 DEF HandOf, SameKey, Visible, Putting
      <2>3. NumbersOf(r)' /\ ProgressOf(r)'
          <3>1. \A e \in draft[r] : e.n \in Nat
              BY EnvelopeIs DEF IInv, TypeOK
          <3> QED
              BY <1>1, <1>2, <1>3, <1>4, <1>5, <1>6, <2>1, <3>1
              DEF NumbersOf, ProgressOf, Visible, Putting
      <2> QED
          BY <1>1, <1>2, <1>4, <1>5, <2>1, <2>2, <2>3, RunStep
          DEF IInv, TypeOK, Writing, Putting
  <1>8. CASE run[r].dup = NoRow
      <2>1. /\ draft' = [draft EXCEPT ![r] = @ \cup {new}]
            /\ \A e \in table : ~SameKey(e, new)
            /\ \A s \in Runs \ {r} : \A e \in draft[s] : ~SameKey(e, new)
          BY <1>1, <1>8 DEF Insert, Holders, HoldsKey
      <2>2. /\ draft' \in [Runs -> SUBSET Envelopes] /\ draft'[r] = draft[r] \cup {new}
            /\ \A s \in Runs \ {r} : draft'[s] = draft[s]
          BY <1>3, <2>1 DEF IInv, TypeOK
      <2>3. \A e \in draft[r] : e.n < Number(r) /\ e.n \in Nat /\ e.run = r
          BY <1>1, <1>2, EnvelopeIs DEF NumbersOf, IInv, TypeOK
      <2>4. \A s \in Runs : draft[s] \subseteq draft'[s]
          BY <2>2
      <2>5. TypeOK'
          BY <1>1, <1>5, <2>2 DEF IInv, TypeOK
      <2>6. Beginnings'
          <3>1. Begun' = Begun /\ \A s \in Begun : run'[s].start = run[s].start
                                                  /\ run'[s].fixture = run[s].fixture
              BY <1>1, <1>4, <1>5 DEF Begun
          <3> QED
              BY <1>4, <1>5, <3>1 DEF IInv, Beginnings
      <2>7. \A s \in Runs \ {r} : HandOf(s)' /\ NumbersOf(s)' /\ ProgressOf(s)'
          BY <1>1, <1>5, <2>2, SameRun DEF IInv, InHand, Numbering, Progress
      <2>8. InHand'
          <3>1. HandOf(r)'
              BY <1>3, <1>4, <1>5, <1>6, <1>8, <2>2 DEF HandOf, Putting
          <3> QED
              BY <2>7, <3>1 DEF InHand
      <2>9. Progress'
          <3>1. ProgressOf(r)'
              BY <1>1, <1>2, <1>4, <1>5, <2>2 DEF ProgressOf, Visible, Putting
          <3> QED
              BY <2>7, <3>1 DEF Progress
      <2>10. Numbering'
          <3>1. NumbersOf(r)'
              BY <1>3, <1>4, <1>5, <1>6, <2>2, <2>3 DEF NumbersOf
          <3>2. Numbered(draft[r])'
              BY <1>3, <2>2, <2>3 DEF Numbered, IInv, Numbering
          <3>3. \A e \in table : e.run \in Runs \ {r}
              BY <1>1, EnvelopeIs DEF IInv, TypeOK, Numbering
          <3>4. \A s \in Runs : run'[s].pc \notin Writing =>
                  draft'[s] = {} /\ \A d \in Desks \cup {Ops} : touched'[s][d] = NoRow
              BY <1>1, <1>4, <1>5, <2>2 DEF IInv, Numbering, Writing, Putting
          <3> QED
              BY <1>1, <1>5, <2>2, <2>7, <3>1, <3>2, <3>3, <3>4 DEF IInv, Numbering, Numbered
      <2>11. OneRowPerKey'
          <3>1. \A e \in draft[r] : ~SameKey(e, new)
              BY <1>1, <1>2, <1>8 DEF HandOf
          <3>2. \A e, f : SameKey(e, f) => SameKey(f, e)
              BY DEF SameKey
          <3>3. \A e, f : SameKey(e, f)' <=> SameKey(e, f)
              BY DEF SameKey
          <3>4. \A s \in Runs : \A e, f \in draft'[s] : SameKey(e, f) => e = f
              BY <2>2, <3>1, <3>2 DEF IInv, OneRowPerKey
          <3>5. \A s \in Runs : \A e \in draft'[s], f \in table : ~SameKey(e, f)
              BY <2>1, <2>2, <3>2 DEF IInv, OneRowPerKey
          <3>6. \A s, t \in Runs : s # t => \A e \in draft'[s], f \in draft'[t] : ~SameKey(e, f)
              BY <2>1, <2>2, <3>2 DEF IInv, OneRowPerKey
          <3> QED
              BY <1>1, <3>3, <3>4, <3>5, <3>6 DEF OneRowPerKey
      <2>12. TouchedFollows'
          BY <1>1, <2>4 DEF IInv, TouchedFollows, Visible
      <2>13. NoneMissing'
          BY <1>1, <1>2, <1>3, <1>4, <1>5, <2>2 DEF IInv, NoneMissing, Present
      <2>14. OneRowPerEnvelope' /\ MeshShowsTheStore'
          BY <1>1, <1>4, <1>5 DEF IInv, OneRowPerEnvelope, SameKey, MeshShowsTheStore,
             HealthFollowsStore, HeardIsCommitted, PublisherIsNeverMissing
      <2> QED
          BY <2>5, <2>6, <2>8, <2>9, <2>10, <2>11, <2>12, <2>13, <2>14 DEF IInv
  <1> QED
      BY <1>7, <1>8

LEMMA UpsertStep ==
  ASSUME IInv, NEW r \in Runs, Upsert(r)
  PROVE  IInv'
  <1> DEFINE rec == [run[r] EXCEPT !.pc = "notify"]
             h == Here(r)
  <1>1. /\ run[r].pc = "upsert" /\ run[r] \in RunStates
        /\ run' = [run EXCEPT ![r] = rec]
        /\ touched' = [touched EXCEPT ![r][h] = Stored(r)]
        /\ UNCHANGED <<table, health, draft, sent, events, heard>>
      BY DEF Upsert, IInv, TypeOK
  <1>2. /\ HandOf(r) /\ NumbersOf(r) /\ ProgressOf(r)
        /\ run[r].new # NoRow => Present(run[r].new)
        /\ \A x \in Desks : run[r].pack[x] # NoRow => run[r].pack[x].by # "desk_missing"
      BY DEF IInv, InHand, Numbering, Progress, NoneMissing, MeshShowsTheStore,
             PublisherIsNeverMissing
  <1>3. /\ Stored(r) \in Visible(r) /\ Stored(r) \in Envelopes
        /\ Stored(r).desk = h /\ h \in Desks \cup {Ops}
      BY <1>1, StoredIs
  <1>4. /\ rec \in RunStates /\ rec.pc = "notify" /\ rec.new = run[r].new
        /\ rec.dup = run[r].dup /\ rec.at = run[r].at /\ rec.round = run[r].round
        /\ rec.killed = run[r].killed /\ rec.pack = run[r].pack
        /\ rec.start = run[r].start /\ rec.fixture = run[r].fixture
      BY <1>1 DEF RunStates
  <1> HIDE DEF rec, h
  <1>5. /\ run' \in [Runs -> RunStates] /\ run'[r] = rec
        /\ \A s \in Runs \ {r} : run'[s] = run[s]
      BY <1>1, <1>4 DEF IInv, TypeOK
  <1>6. /\ touched' \in [Runs -> Health]
        /\ \A s \in Runs \ {r} : touched'[s] = touched[s]
        /\ \A d \in Desks \cup {Ops} :
              touched'[r][d] = IF d = h THEN Stored(r) ELSE touched[r][d]
      BY <1>1, <1>3 DEF IInv, TypeOK, Health, MaybeEnvelope
  <1>7. Number(r)' = Number(r) /\ Here(r)' = Here(r) /\ Visible(r)' = Visible(r)
      BY <1>1, <1>4, <1>5 DEF Number, Here, Visible
  <1>8. HandOf(r)' /\ NumbersOf(r)' /\ ProgressOf(r)'
      <2>1. HandOf(r)'
          BY <1>1, <1>2, <1>4, <1>5, <1>7 DEF HandOf, SameKey, Putting
      <2> QED
          BY <1>1, <1>2, <1>4, <1>5, <1>7, <2>1 DEF NumbersOf, ProgressOf, Putting
  <1>9. \A s \in Runs : HandOf(s)' /\ NumbersOf(s)' /\ ProgressOf(s)'
      BY <1>1, <1>5, <1>8, SameRun DEF IInv, InHand, Numbering, Progress
  <1>10. TypeOK'
      BY <1>1, <1>5, <1>6 DEF IInv, TypeOK
  <1>11. Beginnings'
      <2>1. Begun' = Begun /\ \A s \in Begun : run'[s].start = run[s].start
                                              /\ run'[s].fixture = run[s].fixture
          BY <1>1, <1>4, <1>5 DEF Begun
      <2> QED
          BY <1>4, <1>5, <2>1 DEF IInv, Beginnings
  <1>12. Numbering'
      <2>1. \A e \in table : e.run \in Runs \ {r}
          BY <1>1, EnvelopeIs DEF IInv, TypeOK, Numbering
      <2>2. \A s \in Runs : run'[s].pc \notin Writing =>
              draft'[s] = {} /\ \A d \in Desks \cup {Ops} : touched'[s][d] = NoRow
          BY <1>1, <1>4, <1>5, <1>6 DEF IInv, Numbering, Writing, Putting
      <2> QED
          BY <1>1, <1>5, <1>9, <2>1, <2>2 DEF IInv, Numbering, Numbered
  <1>13. OneRowPerKey'
      BY <1>1 DEF IInv, OneRowPerKey, SameKey
  <1>14. TouchedFollows'
      BY <1>1, <1>3, <1>6 DEF IInv, TouchedFollows, Visible
  <1>15. NoneMissing'
      BY <1>1, <1>2, <1>4, <1>5 DEF IInv, NoneMissing, Present
  <1>16. OneRowPerEnvelope' /\ MeshShowsTheStore'
      BY <1>1, <1>4, <1>5 DEF IInv, OneRowPerEnvelope, SameKey, MeshShowsTheStore,
         HealthFollowsStore, HeardIsCommitted, PublisherIsNeverMissing
  <1> QED
      BY <1>9, <1>10, <1>11, <1>12, <1>13, <1>14, <1>15, <1>16 DEF IInv, InHand, Progress

-----------------------------------------------------------------------------
(* The end of a transaction.                                               *)

(* Whatever ends a transaction, rows added to the table are its own.       *)
LEMMA EndStep ==
  ASSUME IInv, NEW r \in Runs, run[r].pc \in Writing, Ends(r),
         NEW pc \in {"done", "failed"}, run' = [run EXCEPT ![r].pc = pc],
         table' \in {table, table \cup draft[r]},
         health' \in Health, HealthFollowsStore',
         UNCHANGED <<sent, events, heard>>
  PROVE  IInv'
  <1> DEFINE rec == [run[r] EXCEPT !.pc = pc]
  <1>1. run[r] \in RunStates /\ run' = [run EXCEPT ![r] = rec]
      BY DEF IInv, TypeOK
  <1>2. /\ rec \in RunStates /\ rec.pc = pc /\ rec.new = run[r].new
        /\ rec.at = run[r].at /\ rec.pack = run[r].pack
        /\ rec.start = run[r].start /\ rec.fixture = run[r].fixture
      BY <1>1 DEF RunStates
  <1> HIDE DEF rec
  <1>3. /\ run' \in [Runs -> RunStates] /\ run'[r] = rec
        /\ \A s \in Runs \ {r} : run'[s] = run[s]
      BY <1>1, <1>2 DEF IInv, TypeOK
  <1>4. /\ draft' \in [Runs -> SUBSET Envelopes] /\ draft'[r] = {}
        /\ \A s \in Runs \ {r} : draft'[s] = draft[s]
        /\ touched' \in [Runs -> Health] /\ \A d \in Desks \cup {Ops} : touched'[r][d] = NoRow
        /\ \A s \in Runs \ {r} : touched'[s] = touched[s]
      BY DEF Ends, IInv, TypeOK, Health, MaybeEnvelope
  <1>5. table \subseteq table' /\ table' \subseteq table \cup draft[r]
      OBVIOUS
  <1>6. TypeOK'
      BY <1>3, <1>4, <1>5 DEF IInv, TypeOK
  <1>7. Beginnings'
      <2>1. Begun' = Begun /\ \A s \in Begun : run'[s].start = run[s].start
                                              /\ run'[s].fixture = run[s].fixture
          BY <1>2, <1>3 DEF Begun, Writing, Putting
      <2> QED
          BY <1>2, <1>3, <2>1 DEF IInv, Beginnings
  <1>8. \A s \in Runs \ {r} : HandOf(s)' /\ NumbersOf(s)' /\ ProgressOf(s)'
      BY <1>3, <1>4, <1>5, SameRun DEF IInv, InHand, Numbering, Progress
  <1>9. HandOf(r)' /\ NumbersOf(r)' /\ ProgressOf(r)'
      BY <1>2, <1>3, <1>4 DEF HandOf, NumbersOf, ProgressOf, Putting
  <1>10. InHand' /\ Progress'
      BY <1>8, <1>9 DEF InHand, Progress
  <1>11. Numbering'
      <2>1. Numbered(draft[r])' /\ \A s \in Runs \ {r} : Numbered(draft[s])'
          BY <1>4 DEF IInv, Numbering, Numbered
      <2>2. \A e \in draft[r] : e.run = r
          BY DEF IInv, Numbering, NumbersOf
      <2>3. \A e \in table : e.run \in Runs \ {r}
          BY EnvelopeIs DEF IInv, TypeOK, Numbering, Writing, Putting
      <2>4. Numbered(table)'
          BY <1>5, <2>2, <2>3 DEF IInv, Numbering, Numbered
      <2>5. \A e \in table' : run'[e.run].pc \in {"done", "failed"}
          BY <1>2, <1>3, <1>5, <2>2, <2>3 DEF IInv, Numbering
      <2>6. \A s \in Runs : run'[s].pc \notin Writing =>
              draft'[s] = {} /\ \A d \in Desks \cup {Ops} : touched'[s][d] = NoRow
          BY <1>3, <1>4 DEF IInv, Numbering
      <2> QED
          BY <1>8, <1>9, <2>1, <2>4, <2>5, <2>6 DEF Numbering
  <1>12. OneRowPerKey' /\ OneRowPerEnvelope'
      <2>1. \A e, f : (SameKey(e, f)' <=> SameKey(e, f)) /\ (SameKey(e, f) => SameKey(f, e))
          BY DEF SameKey
      <2>2. \A s \in Runs : \A e, f \in draft'[s] : SameKey(e, f) => e = f
          BY <1>4 DEF IInv, OneRowPerKey
      <2>3. \A s \in Runs : \A e \in draft'[s], f \in table' : ~SameKey(e, f)
          BY <1>4, <1>5 DEF IInv, OneRowPerKey
      <2>4. \A s, t \in Runs : s # t => \A e \in draft'[s], f \in draft'[t] : ~SameKey(e, f)
          BY <1>4 DEF IInv, OneRowPerKey
      <2>5. \A e, f \in table' : SameKey(e, f) => e = f
          BY <1>5, <2>1 DEF IInv, OneRowPerKey, OneRowPerEnvelope
      <2> QED
          BY <2>1, <2>2, <2>3, <2>4, <2>5 DEF OneRowPerKey, OneRowPerEnvelope
  <1>13. TouchedFollows'
      BY <1>4, <1>5 DEF IInv, TouchedFollows, Visible
  <1>14. NoneMissing'
      BY <1>2, <1>3, <1>4, <1>5 DEF IInv, NoneMissing, Present
  <1>15. MeshShowsTheStore'
      <2>1. HeardIsCommitted' /\ PublisherIsNeverMissing'
          BY <1>2, <1>3, <1>5 DEF IInv, MeshShowsTheStore, HeardIsCommitted,
             PublisherIsNeverMissing
      <2> QED
          BY <2>1 DEF MeshShowsTheStore
  <1> QED
      BY <1>6, <1>7, <1>10, <1>11, <1>12, <1>13, <1>14, <1>15 DEF IInv

LEMMA RollbackStep ==
  ASSUME IInv, NEW r \in Runs, run[r].pc \in Writing, Rollback(r)
  PROVE  IInv'
  <1>1. /\ Ends(r) /\ run' = [run EXCEPT ![r].pc = "failed"]
        /\ UNCHANGED <<table, health, sent, events, heard>>
      BY DEF Rollback
  <1>2. health' \in Health /\ HealthFollowsStore'
      BY <1>1 DEF IInv, TypeOK, MeshShowsTheStore, HealthFollowsStore
  <1> QED
      BY <1>1, <1>2, EndStep

LEMMA SaveStep ==
  ASSUME IInv, NEW r \in Runs, run[r].pc \in Writing, Save(r), Ends(r),
         NEW pc \in {"done", "failed"}, run' = [run EXCEPT ![r].pc = pc],
         UNCHANGED <<sent, events, heard>>
  PROVE  IInv'
  <1>1. table' = table \cup draft[r] /\ health' = [d \in Desks \cup {Ops} |-> HealthOf(r, d)]
      BY DEF Save
  <1>2. health' \in Health
      BY <1>1 DEF HealthOf, IInv, TypeOK, Health, MaybeEnvelope
  <1>3. HealthFollowsStore'
      BY <1>1 DEF HealthOf, IInv, TouchedFollows, Visible, MeshShowsTheStore,
                  HealthFollowsStore
  <1> QED
      BY <1>1, <1>2, <1>3, EndStep

-----------------------------------------------------------------------------
(* The worker.                                                             *)

LEMMA HearStep ==
  ASSUME IInv, Hear
  PROVE  IInv'
  <1> DEFINE e == Head(events)
  <1>1. /\ events # <<>> /\ events' = Tail(events)
        /\ heard' = IF e \in table THEN [heard EXCEPT ![e.desk] = e] ELSE heard
        /\ UNCHANGED <<run, table, health, draft, touched, sent>>
      BY DEF Hear
  <1>2. e \in Envelopes /\ events' \in Seq(Envelopes)
      BY <1>1 DEF IInv, TypeOK
  <1> HIDE DEF e
  <1>3. e.desk \in Desks \cup {Ops}
      BY <1>2, EnvelopeIs
  <1>4. TypeOK' /\ HeardIsCommitted'
      BY <1>1, <1>2, <1>3 DEF IInv, TypeOK, Health, MaybeEnvelope, MeshShowsTheStore,
                              HeardIsCommitted
  <1>5. Beginnings' /\ Numbering'
      BY <1>1 DEF IInv, Beginnings, Begun, Numbering, Numbered, NumbersOf, Number
  <1>6. InHand' /\ Progress'
      BY <1>1, SameRun DEF IInv, InHand, Progress
  <1>7. OneRowPerKey' /\ TouchedFollows' /\ NoneMissing' /\ OneRowPerEnvelope'
      BY <1>1 DEF IInv, OneRowPerKey, SameKey, TouchedFollows, Visible, NoneMissing, Present,
                  OneRowPerEnvelope
  <1>8. HealthFollowsStore' /\ PublisherIsNeverMissing'
      BY <1>1 DEF IInv, MeshShowsTheStore, HealthFollowsStore, PublisherIsNeverMissing
  <1> QED
      BY <1>4, <1>5, <1>6, <1>7, <1>8 DEF IInv, MeshShowsTheStore

LEMMA StutterStep ==
  ASSUME IInv, UNCHANGED vars
  PROVE  IInv'
  <1>1. UNCHANGED <<run, table, health, draft, touched, sent, events, heard>>
      BY DEF vars
  <1>2. TypeOK' /\ Beginnings' /\ Numbering'
      BY <1>1 DEF IInv, TypeOK, Beginnings, Begun, Numbering, Numbered, NumbersOf, Number
  <1>3. InHand' /\ Progress'
      BY <1>1, SameRun DEF IInv, InHand, Progress
  <1>4. OneRowPerKey' /\ TouchedFollows' /\ NoneMissing' /\ OneRowPerEnvelope'
      BY <1>1 DEF IInv, OneRowPerKey, SameKey, TouchedFollows, Visible, NoneMissing, Present,
                  OneRowPerEnvelope
  <1>5. MeshShowsTheStore'
      BY <1>1 DEF IInv, MeshShowsTheStore, HealthFollowsStore, HeardIsCommitted,
                  PublisherIsNeverMissing
  <1> QED
      BY <1>2, <1>3, <1>4, <1>5 DEF IInv

-----------------------------------------------------------------------------
(* Every step keeps the invariant.                                         *)
LEMMA StepIInv == IInv /\ [Next]_vars => IInv'
  <1> SUFFICES ASSUME IInv, [Next]_vars PROVE IInv'
      OBVIOUS
  <1>1. ASSUME NEW r \in Runs, NEW fixture \in Fixtures, NEW killed \in SUBSET Desks,
               Begin(r, fixture, killed)
        PROVE  IInv'
      BY <1>1, BeginStep
  <1>2. ASSUME NEW r \in Runs, Publish(r) PROVE IInv'
      BY <1>2, PublishStep
  <1>3. ASSUME NEW r \in Runs, Take(r) PROVE IInv'
      BY <1>3, TakeStep
  <1>4. ASSUME NEW r \in Runs, PutPack(r) PROVE IInv'
      BY <1>4, PutPackStep
  <1>5. ASSUME NEW r \in Runs, Find(r) PROVE IInv'
      BY <1>5, FindStep
  <1>6. ASSUME NEW r \in Runs, Insert(r) PROVE IInv'
      BY <1>6, InsertStep
  <1>7. ASSUME NEW r \in Runs, Refused(r) \/ RefusedHealth(r) PROVE IInv'
      BY <1>7, RollbackStep DEF Refused, RefusedHealth, Writing, Putting
  <1>8. ASSUME NEW r \in Runs, Select(r) PROVE IInv'
      BY <1>8, SelectStep
  <1>9. ASSUME NEW r \in Runs, Upsert(r) PROVE IInv'
      BY <1>9, UpsertStep
  <1>10. ASSUME NEW r \in Runs, Notify(r) PROVE IInv'
      BY <1>10, NotifyStep
  <1>11. ASSUME NEW r \in Runs, Commit(r) PROVE IInv'
      BY <1>11, SaveStep DEF Commit, Writing, Putting
  <1>12. ASSUME NEW r \in Runs, NotifyFails(r) PROVE IInv'
      BY <1>12, SaveStep DEF NotifyFails, Writing, Putting
  <1>13. ASSUME NEW r \in Runs, Die(r) \/ Abort(r) PROVE IInv'
      <2>1. Open(r) /\ Rollback(r)
          BY <1>13 DEF Die, Abort
      <2>2. run[r].pc \in Writing
          BY <2>1 DEF Open, IInv, TypeOK, RunStates, Writing, Putting
      <2> QED
          BY <2>1, <2>2, RollbackStep
  <1>14. CASE Hear
      BY <1>14, HearStep
  <1>15. CASE UNCHANGED vars
      BY <1>15, StutterStep
  <1> QED
      BY <1>1, <1>2, <1>3, <1>4, <1>5, <1>6, <1>7, <1>8, <1>9, <1>10, <1>11, <1>12, <1>13,
         <1>14, <1>15 DEF Next, Step

(* The inductive invariant holds in every reachable state.                 *)
THEOREM Invariance == Spec => []IInv
  BY InitIInv, StepIInv, PTL DEF Spec

(* The state keeps its shape: runs of the mesh stay within their rounds    *)
(* and positions, every pack that was assembled is whole, and nothing but  *)
(* envelopes of the roster reaches the store or the bus.                   *)
THEOREM TypeCorrect == Spec => []TypeOK
  <1>1. IInv => TypeOK
      BY DEF IInv
  <1> QED
      BY Invariance, <1>1, PTL

(* desk_envelope holds one row per desk and content, for any number of     *)
(* runs that look for a duplicate and then insert.                         *)
THEOREM OneRow == Spec => []OneRowPerEnvelope
  <1>1. IInv => OneRowPerEnvelope
      BY DEF IInv
  <1> QED
      BY Invariance, <1>1, PTL

(* desk_health and the worker's view refer to committed envelopes, and a   *)
(* desk that ran is never missing from the pack of its round.              *)
THEOREM MeshCorrect == Spec => []MeshShowsTheStore
  <1>1. IInv => MeshShowsTheStore
      BY DEF IInv
  <1> QED
      BY Invariance, <1>1, PTL
=============================================================================
