---------------------------- MODULE Research_proofs ----------------------------
(***************************************************************************)
(* Theorems about Research, part by part: the thesis workspace, one command*)
(* at a time; the playbook run, the Quant Review Board, the decay watch,   *)
(* the improvement queue and the gates of an idea.  A part's lemmas are    *)
(* about its own specification, its theorem about the composition.         *)
(* BaseRates_proofs goes on with the other three parts.                    *)
(***************************************************************************)
EXTENDS Research, FiniteSetTheorems, SequenceTheorems, TLAPS

(* The code that is not atomic is run by one operator: with two commands   *)
(* at a time a gate may be passed on files that the other one rewrites.    *)
OneCommand == \A p, q \in Procs : p = q

-----------------------------------------------------------------------------
(* What programs are made of.                                              *)

(* The steps, each with what it is given.                                  *)
Pieces ==
    {a \in Steps :
        /\ a.op \in {"lock", "plan", "empty links", "review", "link", "stamp", "index link"} =>
               a.to = NoFile
        /\ a.op \in {"gate", "mark thesis", "mark intent", "save"} => a.to \in Statuses
        /\ a.op \in {"intent", "thesis"} => a.to \in {"draft", "in_research"}
        /\ a.op = "index" => a.to \in {"in_research", "in_skeptic", NoFile}
        /\ a.op = "verdict" => a.to \in Verdicts
        /\ a.op \in {"blank", "filled", "open", "closed", "insert", "settle"} => a.to \in Trades
        /\ a.op = "advance unless" => a.to = "paper"}

Is(a, op, to) == a.op = op /\ a.to = to

(* Which step may follow which in a program.                               *)
Link(a, b) ==
    /\ a.op \notin {"index", "index link", "save", "insert", "settle"}
    /\ a.op = "lock" => b.op = "gate"
    /\ a.op = "gate" => Is(b, "mark thesis", a.to)
    /\ a.op = "mark thesis" => Is(b, "mark intent", a.to)
    /\ a.op = "mark intent" => \/ Is(b, "save", a.to)
                               \/ b.op = "verdict"
                               \/ b.op = "stamp" /\ a.to = "in_skeptic"
                               \/ b.op = "insert" /\ a.to = "paper"
    /\ a.op = "stamp" => Is(b, "index", "in_skeptic")
    /\ a.op = "verdict" => Is(b, "index", NoFile)
    /\ a.op = "intent" /\ a.to = "draft" => Is(b, "intent", "in_research")
    /\ a.op = "intent" /\ a.to = "in_research" => Is(b, "thesis", "draft")
    /\ a.op = "thesis" /\ a.to = "draft" => Is(b, "thesis", "in_research")
    /\ a.op = "thesis" /\ a.to = "in_research" => Is(b, "plan", NoFile)
    /\ a.op = "plan" => Is(b, "empty links", NoFile)
    /\ a.op = "empty links" => Is(b, "review", NoFile)
    /\ a.op = "review" => Is(b, "index", "in_research")
    /\ a.op = "blank" => Is(b, "filled", a.to)
    /\ a.op = "filled" => Is(b, "open", a.to)
    /\ a.op = "open" => Is(b, "advance unless", "paper")
    /\ a.op = "advance unless" => b.op = "insert"
    /\ a.op = "closed" => Is(b, "settle", a.to)
    /\ a.op = "link" => Is(b, "index link", NoFile)

Linked(s) == \A i \in 1..(Len(s) - 1) : Link(s[i], s[i + 1])

(* What a step relies on: what the gates asked for and the steps before it *)
(* have written. First the files that carry the status.                    *)
StatusReady(a) ==
    /\ a.op # "intent" => intent # NoFile
    /\ a.op = "mark thesis" => CanMark(a.to)
    /\ a.op = "mark intent" => thesis \in {a.to, NoFile}
    /\ a.op = "mark intent" /\ a.to \in {"in_skeptic", "paper"} => links
    /\ a.op = "stamp" => Status = "in_skeptic"
    /\ a.op \in {"save", "index"} => a.to = NoFile \/ Status = a.to
    /\ a.op = "insert" => Status = "paper"

(* The files of a new workspace, in their order.                           *)
NewReady(a) ==
    /\ a.op = "intent" => thesis = NoFile
    /\ a.op = "thesis" /\ a.to = "draft" => thesis = NoFile
    /\ a.op = "thesis" /\ a.to = "in_research" => thesis = "draft"
    /\ a.op \in {"plan", "empty links", "review"} => thesis = "in_research"
    /\ a.op \in {"empty links", "review"} => plan

(* The artifact of a trade.                                                *)
TradeReady(a) ==
    /\ a.op \in {"blank", "filled", "open", "closed", "advance unless"} => review # NoFile
    /\ a.op = "blank" => paper[a.to] = "none"
    /\ a.op = "filled" => paper[a.to] = "blank"
    /\ a.op = "open" => paper[a.to] = "filled"
    /\ a.op = "settle" => paper[a.to] = "closed"

Pre(a) == StatusReady(a) /\ NewReady(a) /\ TradeReady(a)

(* A trade whose row is to be inserted has an open artifact, or will have  *)
(* one before that.                                                        *)
Carried(s) ==
    \A i \in 1..Len(s) : s[i].op = "insert" =>
        \/ paper[s[i].to] = "open"
        \/ \E j \in 1..(i - 1) : s[j] = Do("open", s[i].to)

-----------------------------------------------------------------------------
(* The inductive invariant.                                                *)

Programs ==
    \A p \in Procs :
        /\ todo[p] \in Seq(Pieces)
        /\ Linked(todo[p])
        /\ todo[p] # << >> => Pre(Head(todo[p]))
        /\ Carried(todo[p])

(* A thesis with a trade in Postgres has been in paper.                    *)
TradesMeanPaper ==
    (\E t \in Trades : trades[t] # NoRow) =>
        Status \in {"paper", "rejected", "retired"} /\ row \in {"paper", "rejected", "retired"}

IInv ==
    /\ TypeOK
    /\ Programs
    /\ PredecessorGates
    /\ LedgerFollowsFiles
    /\ TradesMeanPaper
-----------------------------------------------------------------------------
(* Programs as sequences.                                                  *)

LEMMA Fields ==
    ASSUME NEW o, NEW x
    PROVE  Do(o, x).op = o /\ Do(o, x).to = x
  BY DEF Do

LEMMA PieceTyped ==
    ASSUME NEW a \in Pieces
    PROVE  /\ a \in Steps
           /\ a = Do(a.op, a.to)
           /\ a.op \in {"gate", "mark thesis", "mark intent", "save"} => a.to \in Statuses
           /\ a.op \in {"intent", "thesis"} => a.to \in {"draft", "in_research"}
           /\ a.op = "index" => a.to \in {"in_research", "in_skeptic", NoFile}
           /\ a.op = "verdict" => a.to \in Verdicts
           /\ a.op \in {"blank", "filled", "open", "closed", "insert", "settle"} => a.to \in Trades
           /\ a.op = "advance unless" => a.to = "paper"
           /\ a.op = "index link" => a.to = NoFile
  <1> DEFINE Tos == Statuses \cup Verdicts \cup Trades \cup {NoFile}
  <1>1. a \in [op : Ops, to : Tos]
    BY DEF Pieces, Steps
  <1>2. a = Do(a.op, a.to)
    <2> HIDE DEF Tos
    <2> QED
      BY <1>1 DEF Do
  <1> QED
    BY <1>2 DEF Pieces

(* A program of pieces is a program.                                       *)
LEMMA PiecesTyped ==
    ASSUME NEW s \in Seq(Pieces)
    PROVE  s \in Seq(Steps)
  <1>1. Pieces \subseteq Steps
    BY PieceTyped
  <1> QED
    BY <1>1

(* What is left of a program is linked, and its first step may follow the  *)
(* one just done.                                                          *)
LEMMA LinkedTail ==
    ASSUME NEW s \in Seq(Pieces), s # << >>, Linked(s)
    PROVE  /\ Head(s) \in Pieces /\ Tail(s) \in Seq(Pieces)
           /\ Linked(Tail(s))
           /\ Tail(s) # << >> => Head(Tail(s)) \in Pieces /\ Link(Head(s), Head(Tail(s)))
  <1>1. /\ Head(s) \in Pieces /\ Tail(s) \in Seq(Pieces)
        /\ Len(s) \in Nat /\ Len(s) >= 1
        /\ Len(Tail(s)) = Len(s) - 1
        /\ \A i \in 1..(Len(s) - 1) : Tail(s)[i] = s[i + 1]
    BY HeadTailProperties
  <1>2. Linked(Tail(s))
    <2> SUFFICES ASSUME NEW i \in 1..(Len(Tail(s)) - 1)
                 PROVE  Link(Tail(s)[i], Tail(s)[i + 1])
      BY DEF Linked
    <2>1. Tail(s)[i] = s[i + 1] /\ Tail(s)[i + 1] = s[(i + 1) + 1]
      BY <1>1
    <2>2. Link(s[i + 1], s[(i + 1) + 1])
      BY <1>1 DEF Linked
    <2> QED
      BY <2>1, <2>2
  <1>3. ASSUME Tail(s) # << >>
        PROVE  Head(Tail(s)) \in Pieces /\ Link(Head(s), Head(Tail(s)))
    <2>1. Len(Tail(s)) >= 1
      BY <1>1, <1>3
    <2>2. Head(Tail(s)) = s[2] /\ Head(s) = s[1]
      BY <1>1, <2>1
    <2>3. Link(s[1], s[1 + 1])
      BY <1>1, <2>1 DEF Linked
    <2> QED
      BY <1>1, <1>3, <2>2, <2>3, HeadTailProperties
  <1> QED
    BY <1>1, <1>2, <1>3

(* The writes of a status are linked, and start when there is an intent.   *)
LEMMA Advancing ==
    ASSUME NEW s \in Statuses
    PROVE  /\ AdvanceTo(s) \in Seq(Pieces) /\ Len(AdvanceTo(s)) = 3 /\ Linked(AdvanceTo(s))
           /\ AdvanceTo(s) # << >> /\ Head(AdvanceTo(s)) = Do("gate", s)
           /\ AdvanceTo(s)[3].op = "mark intent" /\ AdvanceTo(s)[3].to = s
           /\ \A i \in 1..3 : AdvanceTo(s)[i].op \notin {"insert", "open"}
  <1> DEFINE g == Do("gate", s)
             m == Do("mark thesis", s)
             n == Do("mark intent", s)
  <1>1. g \in Pieces /\ m \in Pieces /\ n \in Pieces
    BY DEF Pieces, Steps, Do, Ops
  <1>2. /\ g.op = "gate" /\ g.to = s /\ m.op = "mark thesis" /\ m.to = s
        /\ n.op = "mark intent" /\ n.to = s
    BY Fields
  <1>3. Link(g, m) /\ Link(m, n)
    BY <1>2 DEF Link, Is
  <1> HIDE DEF g, m, n
  <1>4. AdvanceTo(s) = <<g, m, n>>
    BY DEF AdvanceTo, g, m, n
  <1>5. Linked(<<g, m, n>>)
    BY <1>3 DEF Linked
  <1>6. /\ <<g, m, n>> \in Seq(Pieces) /\ Len(<<g, m, n>>) = 3 /\ <<g, m, n>> # << >>
        /\ Head(<<g, m, n>>) = g /\ <<g, m, n>>[3] = n
    BY <1>1
  <1>7. \A i \in 1..3 : <<g, m, n>>[i].op \notin {"insert", "open"}
    <2>1. <<g, m, n>>[1] = g /\ <<g, m, n>>[2] = m /\ <<g, m, n>>[3] = n
      OBVIOUS
    <2>2. \A i \in 1..3 : i = 1 \/ i = 2 \/ i = 3
      OBVIOUS
    <2> QED
      BY <1>2, <2>1, <2>2, Zenon
  <1> QED
    BY <1>2, <1>4, <1>5, <1>6, <1>7 DEF g

LEMMA GateReady ==
    ASSUME NEW s \in Statuses, intent # NoFile
    PROVE  Pre(Do("gate", s))
  <1> DEFINE g == Do("gate", s)
  <1>1. g.op = "gate"
    BY Fields
  <1> HIDE DEF g
  <1>2. StatusReady(g) /\ NewReady(g) /\ TradeReady(g)
    BY <1>1 DEF StatusReady, NewReady, TradeReady
  <1> QED
    BY <1>2 DEF Pre, g

(* Two programs, the second of which may follow the first.                 *)
LEMMA LinkedConcat ==
    ASSUME NEW s \in Seq(Pieces), NEW r \in Seq(Pieces), Linked(s), Linked(r), s # << >>,
           r # << >> => Link(s[Len(s)], Head(r))
    PROVE  /\ s \o r \in Seq(Pieces) /\ Linked(s \o r)
           /\ s \o r # << >> /\ Head(s \o r) = Head(s)
  <1> DEFINE w == s \o r
  <1>1. /\ w \in Seq(Pieces) /\ Len(w) = Len(s) + Len(r)
        /\ Len(s) \in Nat /\ Len(s) >= 1 /\ Len(r) \in Nat
        /\ \A i \in 1..Len(s) : w[i] = s[i]
        /\ \A i \in 1..Len(r) : w[Len(s) + i] = r[i]
    BY ConcatProperties
  <1> HIDE DEF w
  <1>2. w # << >> /\ Head(w) = Head(s)
    BY <1>1
  <1>3. Linked(w)
    <2> SUFFICES ASSUME NEW i \in 1..(Len(w) - 1)
                 PROVE  Link(w[i], w[i + 1])
      BY DEF Linked
    <2>1. CASE i < Len(s)
      BY <1>1, <2>1 DEF Linked
    <2>2. CASE i = Len(s)
      <3>1. r # << >> /\ Head(r) = r[1] /\ w[Len(s) + 1] = r[1]
        BY <1>1, <2>2
      <3> QED
        BY <1>1, <2>2, <3>1
    <2>3. CASE i > Len(s)
      <3> DEFINE j == i - Len(s)
      <3>1. j \in 1..(Len(r) - 1)
        BY <1>1, <2>3
      <3>2. w[i] = r[j] /\ w[i + 1] = r[j + 1]
        <4>1. w[Len(s) + j] = r[j] /\ w[Len(s) + (j + 1)] = r[j + 1]
          <5>1. j \in 1..Len(r) /\ j + 1 \in 1..Len(r)
            BY <1>1, <3>1
          <5> HIDE DEF j
          <5> QED
            BY <1>1, <5>1
        <4>2. Len(s) + j = i /\ Len(s) + (j + 1) = i + 1
          BY <1>1
        <4> QED
          BY <4>1, <4>2
      <3> QED
        BY <3>1, <3>2 DEF Linked
    <2> QED
      BY <1>1, <2>1, <2>2, <2>3
  <1> QED
    BY <1>1, <1>2, <1>3 DEF w

(* A program without an insert carries nothing.                            *)
LEMMA CarriesNothing ==
    ASSUME NEW s, \A i \in 1..Len(s) : s[i].op # "insert"
    PROVE  Carried(s)
  BY DEF Carried

(* A step done: the rest of the program is still ready for its insert.     *)
LEMMA CarriedTail ==
    ASSUME NEW s \in Seq(Pieces), s # << >>, Carried(s),
           Head(s).op = "open" => paper'[Head(s).to] = "open",
           \A t \in Trades : paper[t] = "open" => paper'[t] = "open"
               \/ \A i \in 1..Len(Tail(s)) : Tail(s)[i].op # "insert"
    PROVE  \A i \in 1..Len(Tail(s)) : Tail(s)[i].op = "insert" =>
               \/ paper'[Tail(s)[i].to] = "open"
               \/ \E j \in 1..(i - 1) : Tail(s)[j] = Do("open", Tail(s)[i].to)
  <1>1. /\ Tail(s) \in Seq(Pieces)
        /\ Len(s) \in Nat /\ Len(s) >= 1 /\ Head(s) = s[1]
        /\ Len(Tail(s)) = Len(s) - 1
        /\ \A i \in 1..(Len(s) - 1) : Tail(s)[i] = s[i + 1]
    BY HeadTailProperties
  <1> SUFFICES ASSUME NEW i \in 1..Len(Tail(s)), Tail(s)[i].op = "insert",
                      paper'[Tail(s)[i].to] # "open"
               PROVE  \E j \in 1..(i - 1) : Tail(s)[j] = Do("open", Tail(s)[i].to)
    OBVIOUS
  <1> DEFINE t == Tail(s)[i].to
  <1>2. Tail(s)[i] = s[i + 1] /\ i + 1 \in 1..Len(s) /\ s[i + 1] \in Pieces
    BY <1>1
  <1>3. t \in Trades
    BY <1>2, PieceTyped
  <1>4. paper[t] # "open"
    BY <1>3
  <1>5. PICK j \in 1..i : s[j] = Do("open", t)
    BY <1>2, <1>4 DEF Carried
  <1>6. j # 1
    <2>1. s[j].op = "open" /\ s[j].to = t
      BY <1>5, Fields
    <2> QED
      BY <1>1, <1>3, <2>1
  <1>7. j - 1 \in 1..(i - 1) /\ Tail(s)[j - 1] = s[j]
    <2>1. j - 1 \in 1..(i - 1) /\ j - 1 \in 1..(Len(s) - 1) /\ (j - 1) + 1 = j
      BY <1>1, <1>6
    <2> QED
      BY <1>1, <2>1
  <1> QED
    BY <1>5, <1>7

(* A program put before one that is ready for its insert.                  *)
LEMMA CarriedConcat ==
    ASSUME NEW s \in Seq(Pieces), NEW r \in Seq(Pieces), Carried(r),
           \A i \in 1..Len(s) : s[i].op # "insert"
    PROVE  Carried(s \o r)
  <1> DEFINE w == s \o r
  <1>1. /\ w \in Seq(Pieces) /\ Len(w) = Len(s) + Len(r)
        /\ Len(s) \in Nat /\ Len(r) \in Nat
        /\ \A i \in 1..Len(s) : w[i] = s[i]
        /\ \A i \in 1..Len(r) : w[Len(s) + i] = r[i]
    BY ConcatProperties
  <1> HIDE DEF w
  <1> SUFFICES ASSUME NEW i \in 1..Len(w), w[i].op = "insert", paper[w[i].to] # "open"
               PROVE  \E j \in 1..(i - 1) : w[j] = Do("open", w[i].to)
    BY DEF Carried, w
  <1> DEFINE k == i - Len(s)
  <1>2. i > Len(s)
    BY <1>1
  <1>3. k \in 1..Len(r) /\ Len(s) + k = i
    BY <1>1, <1>2
  <1> HIDE DEF k
  <1>4. w[i] = r[k]
    BY <1>1, <1>3
  <1>5. PICK j \in 1..(k - 1) : r[j] = Do("open", r[k].to)
    BY <1>3, <1>4 DEF Carried
  <1>6. w[Len(s) + j] = r[j]
    <2>1. j \in 1..Len(r)
      BY <1>1, <1>3
    <2> QED
      BY <1>1, <2>1
  <1>7. Len(s) + j \in 1..(i - 1)
    BY <1>1, <1>3
  <1> QED
    BY <1>4, <1>5, <1>6, <1>7

-----------------------------------------------------------------------------
(* Starting, continuing and stopping the one program there is.             *)

(* A step that changes nothing but the program.                            *)
LEMMA OnlyTodo ==
    ASSUME IInv, UNCHANGED <<files, rows>>, Programs',
           todo' \in [Procs -> Seq(Steps)]
    PROVE  IInv'
  <1>1. UNCHANGED <<intent, thesis, plan, links, review, paper, row, linked, trades>>
    BY DEF files, rows
  <1>2. TypeOK'
    BY <1>1 DEF IInv, TypeOK
  <1>3. PredecessorGates'
    BY <1>1 DEF IInv, PredecessorGates, Status
  <1>4. LedgerFollowsFiles' /\ TradesMeanPaper'
    BY <1>1 DEF IInv, LedgerFollowsFiles, TradesMeanPaper, Status
  <1> QED
    BY <1>2, <1>3, <1>4 DEF IInv

(* A program whose first step can be taken is started.                     *)
LEMMA Replaced ==
    ASSUME OneCommand, IInv, NEW p \in Procs, NEW program \in Seq(Pieces),
           Linked(program), Carried(program), program # << >>, Pre(Head(program)),
           todo' = [todo EXCEPT ![p] = program], UNCHANGED <<files, rows>>
    PROVE  IInv'
  <1>1. /\ todo' = [todo EXCEPT ![p] = program]
        /\ UNCHANGED <<files, rows>>
    OBVIOUS
  <1>2. UNCHANGED <<intent, thesis, plan, links, review, paper, row, linked, trades>>
    BY <1>1 DEF files, rows
  <1>3. todo' \in [Procs -> Seq(Steps)]
    BY <1>1, PiecesTyped DEF IInv, TypeOK
  <1>4. todo'[p] = program
    BY <1>1 DEF IInv, TypeOK
  <1>5. ASSUME NEW a \in Pieces, Pre(a)
        PROVE  Pre(a)'
    <2>1. Status' = Status
      BY <1>2 DEF Status
    <2>2. CanMark(a.to) => CanMark(a.to)'
      BY <1>2, <2>1 DEF CanMark, PaperReady, PaperComplete
    <2>3. StatusReady(a)'
      BY <1>2, <1>5, <2>1, <2>2 DEF Pre, StatusReady
    <2>4. NewReady(a)'
      BY <1>2, <1>5 DEF Pre, NewReady
    <2>5. TradeReady(a)'
      BY <1>2, <1>5 DEF Pre, TradeReady
    <2> QED
      BY <2>3, <2>4, <2>5 DEF Pre
  <1>6. Programs'
    <2> SUFFICES ASSUME NEW q \in Procs
                 PROVE  /\ todo'[q] \in Seq(Pieces)
                        /\ Linked(todo[q])'
                        /\ todo'[q] # << >> => Pre(Head(todo[q]))'
                        /\ Carried(todo[q])'
      BY DEF Programs
    <2>1. todo'[q] = program
      BY <1>4 DEF OneCommand
    <2>2. Head(program) \in Pieces
      BY HeadTailProperties
    <2>3. Pre(Head(program))'
      BY <1>5, <2>2
    <2>4. Carried(program)'
      BY <1>2 DEF Carried
    <2>5. Linked(program)'
      BY DEF Linked
    <2> QED
      BY <2>1, <2>3, <2>4, <2>5
  <1> QED
    BY <1>1, <1>3, <1>6, OnlyTodo

(* A program goes on when every step that may follow can be taken.         *)
LEMMA Continued ==
    ASSUME OneCommand, IInv, NEW p \in Procs, todo[p] # << >>, Continue(p),
           \A b \in Pieces : Link(Head(todo[p]), b) => Pre(b)',
           Head(todo[p]).op = "open" => paper'[Head(todo[p]).to] = "open",
           \A t \in Trades : paper[t] = "open" => paper'[t] = "open"
               \/ \A i \in 1..Len(Tail(todo[p])) : Tail(todo[p])[i].op # "insert"
    PROVE  /\ Programs'
           /\ todo' \in [Procs -> Seq(Steps)]
  <1> DEFINE s == todo[p]
             r == Tail(s)
  <1>1. s \in Seq(Pieces) /\ s # << >> /\ Linked(s) /\ Carried(s)
    BY DEF IInv, Programs
  <1>2. /\ r \in Seq(Pieces) /\ Linked(r)
        /\ r # << >> => Head(r) \in Pieces /\ Link(Head(s), Head(r))
    BY <1>1, LinkedTail
  <1>3. todo' = [todo EXCEPT ![p] = r]
    BY DEF Continue
  <1>4. todo'[p] = r
    BY <1>3 DEF IInv, TypeOK
  <1>5. \A i \in 1..Len(r) : r[i].op = "insert" =>
               \/ paper'[r[i].to] = "open"
               \/ \E j \in 1..(i - 1) : r[j] = Do("open", r[i].to)
    BY <1>1, CarriedTail
  <1>6. r # << >> => Pre(Head(todo[p]))'
    BY <1>2, <1>4
  <1> HIDE DEF s, r
  <1>7. todo' \in [Procs -> Seq(Steps)]
    BY <1>2, <1>3, PiecesTyped DEF IInv, TypeOK
  <1>8. Programs'
    <2> SUFFICES ASSUME NEW q \in Procs
                 PROVE  /\ todo'[q] \in Seq(Pieces)
                        /\ Linked(todo[q])'
                        /\ todo'[q] # << >> => Pre(Head(todo[q]))'
                        /\ Carried(todo[q])'
      BY DEF Programs
    <2>1. q = p
      BY DEF OneCommand
    <2>2. Linked(todo[q])'
      <3>1. Linked(todo'[q])
        BY <1>2, <1>4, <2>1
      <3> QED
        BY <3>1 DEF Linked
    <2>3. Carried(todo[q])'
      BY <1>4, <1>5, <2>1 DEF Carried
    <2> QED
      BY <1>2, <1>4, <1>6, <2>1, <2>2, <2>3
  <1> QED
    BY <1>7, <1>8

(* A program that is given up leaves nothing to do.                        *)
LEMMA Stopped ==
    ASSUME OneCommand, IInv, NEW p \in Procs, Stop(p)
    PROVE  /\ Programs'
           /\ todo' \in [Procs -> Seq(Steps)]
  <1>1. /\ todo' \in [Procs -> Seq(Steps)]
        /\ \A q \in Procs : todo'[q] = << >>
    BY DEF Stop, IInv, TypeOK, OneCommand
  <1>2. Programs'
    BY <1>1 DEF Programs, Linked, Carried
  <1> QED
    BY <1>1, <1>2

-----------------------------------------------------------------------------
(* The steps.                                                              *)

(* What a running program may count on, and where the new workspace stands *)
(* while it is written.                                                    *)
LEMMA Running ==
    ASSUME IInv, NEW p \in Procs, todo[p] # << >>
    PROVE  /\ Head(todo[p]) \in Pieces
           /\ StatusReady(Head(todo[p])) /\ NewReady(Head(todo[p])) /\ TradeReady(Head(todo[p]))
           /\ todo[p] \in Seq(Pieces) /\ Linked(todo[p]) /\ Carried(todo[p])
  <1>1. /\ todo[p] \in Seq(Pieces) /\ Linked(todo[p]) /\ Carried(todo[p])
        /\ Pre(Head(todo[p]))
    BY DEF IInv, Programs
  <1>2. Head(todo[p]) \in Pieces
    BY <1>1, HeadTailProperties
  <1> QED
    BY <1>1, <1>2 DEF Pre

LEMMA NoTradeYet ==
    ASSUME IInv, thesis = NoFile \/ Status \in {"draft", "in_research", "in_skeptic"}
    PROVE  \A t \in Trades : trades[t] = NoRow
  <1>1. CASE thesis = NoFile
    <2>1. \A t \in Trades : paper[t] = "none"
      BY <1>1 DEF IInv, PredecessorGates
    <2> QED
      BY <2>1 DEF IInv, TypeOK, LedgerFollowsFiles
  <1>2. CASE Status \in {"draft", "in_research", "in_skeptic"}
    BY <1>2 DEF IInv, TradesMeanPaper
  <1> QED
    BY <1>1, <1>2

LEMMA GateStep ==
    ASSUME OneCommand, IInv, NEW p \in Procs, Gate(p)
    PROVE  IInv'
  <1> DEFINE a == Head(todo[p])
  <1>1. todo[p] # << >> /\ a.op = "gate" /\ UNCHANGED <<files, rows>>
    BY DEF Gate, At
  <1>2. UNCHANGED <<intent, thesis, plan, links, review, paper, row, linked, trades>>
    BY <1>1 DEF files, rows
  <1>3. a \in Pieces /\ StatusReady(a) /\ a.to \in Statuses
    BY <1>1, Running, PieceTyped
  <1>4. CASE CanMark(a.to)
    <2>1. Continue(p)
      BY <1>4 DEF Gate, To
    <2>2. ASSUME NEW b \in Pieces, Link(a, b)
          PROVE  Pre(b)'
      <3>2. b.op = "mark thesis" /\ b.to = a.to
        BY <1>1, <2>2 DEF Link, Is
      <3>3. CanMark(b.to)'
        BY <1>2, <1>4, <3>2 DEF CanMark, PaperReady, PaperComplete, Status
      <3>4. StatusReady(b)'
        BY <1>1, <1>2, <1>3, <3>2, <3>3 DEF StatusReady
      <3>5. NewReady(b)' /\ TradeReady(b)'
        BY <3>2, Fields DEF NewReady, TradeReady
      <3> QED
        BY <3>4, <3>5 DEF Pre
    <2> QED
      BY <1>1, <1>2, <2>1, <2>2, Continued, OnlyTodo
  <1>5. CASE ~ CanMark(a.to)
    BY <1>1, <1>5, Stopped, OnlyTodo DEF Gate, To
  <1> QED
    BY <1>4, <1>5

LEMMA AdvanceUnlessStep ==
    ASSUME OneCommand, IInv, NEW p \in Procs, AdvanceUnless(p)
    PROVE  IInv'
  <1> DEFINE a == Head(todo[p])
             r == Tail(todo[p])
             adv == AdvanceTo("paper")
  <1>1. todo[p] # << >> /\ a.op = "advance unless" /\ UNCHANGED <<files, rows>>
    BY DEF AdvanceUnless, At
  <1>2. UNCHANGED <<intent, thesis, plan, links, review, paper, row, linked, trades>>
    BY <1>1 DEF files, rows
  <1>3. /\ a \in Pieces /\ StatusReady(a) /\ TradeReady(a) /\ a.to = "paper"
        /\ todo[p] \in Seq(Pieces) /\ Linked(todo[p]) /\ Carried(todo[p])
    BY <1>1, Running, PieceTyped
  <1>4. intent # NoFile
    BY <1>1, <1>3 DEF StatusReady
  <1>5. /\ r \in Seq(Pieces) /\ Linked(r)
        /\ r # << >> => Head(r) \in Pieces /\ Head(r).op = "insert"
    BY <1>1, <1>3, LinkedTail DEF Link, Is
  <1>6. CASE Status = "paper"
    <2>1. Continue(p)
      <3>1. << >> \o r = r
        BY <1>5
      <3> QED
        BY <1>3, <1>6, <3>1 DEF AdvanceUnless, Continue, To
    <2>2. ASSUME NEW b \in Pieces, Link(a, b)
          PROVE  Pre(b)'
      <3>1. b.op = "insert"
        BY <1>1, <2>2 DEF Link, Is
      <3>2. StatusReady(b)'
        BY <1>2, <1>4, <1>6, <3>1 DEF StatusReady, Status
      <3>3. NewReady(b)' /\ TradeReady(b)'
        BY <3>1 DEF NewReady, TradeReady
      <3> QED
        BY <3>2, <3>3 DEF Pre
    <2> QED
      BY <1>1, <1>2, <2>1, <2>2, Continued, OnlyTodo
  <1>7. CASE Status # "paper"
    <2>1. todo' = [todo EXCEPT ![p] = adv \o r]
      BY <1>3, <1>7 DEF AdvanceUnless, To
    <2>2. /\ adv \in Seq(Pieces) /\ Len(adv) = 3 /\ Linked(adv) /\ adv # << >>
          /\ Head(adv) = Do("gate", "paper")
          /\ adv[3].op = "mark intent" /\ adv[3].to = "paper"
          /\ \A i \in 1..3 : adv[i].op # "insert"
      BY Advancing DEF Statuses
    <2>3. r # << >> => Link(adv[Len(adv)], Head(r))
      BY <1>5, <2>2 DEF Link, Is
    <2>4. /\ adv \o r \in Seq(Pieces) /\ Linked(adv \o r)
          /\ adv \o r # << >> /\ Head(adv \o r) = Do("gate", "paper")
      BY <1>5, <2>2, <2>3, LinkedConcat
    <2>5. Carried(r)
      <3>1. \A i \in 1..Len(r) : r[i].op = "insert" =>
               \/ paper'[r[i].to] = "open"
               \/ \E j \in 1..(i - 1) : r[j] = Do("open", r[i].to)
        BY <1>1, <1>2, <1>3, CarriedTail
      <3> QED
        BY <1>2, <3>1 DEF Carried
    <2>6. Carried(adv \o r)
      BY <1>5, <2>2, <2>5, CarriedConcat
    <2>7. Pre(Head(adv \o r))
      <3>1. "paper" \in Statuses
        BY DEF Statuses
      <3> QED
        BY <1>4, <2>4, <3>1, GateReady
    <2> QED
      BY <1>1, <2>1, <2>4, <2>6, <2>7, Replaced
  <1> QED
    BY <1>6, <1>7

(* The graph of the statuses: what is in paper or past it stays so.        *)
LEMMA PastPaper ==
    ASSUME NEW s \in Statuses, Status \in {"paper", "rejected", "retired"}, CanMark(s)
    PROVE  s \in {"paper", "rejected", "retired"}
  BY DEF CanMark, Transitions, Statuses

LEMMA WriteThesisStep ==
    ASSUME OneCommand, IInv, NEW p \in Procs, WriteThesis(p)
    PROVE  IInv'
  <1> DEFINE a == Head(todo[p])
  <1>1. /\ todo[p] # << >> /\ a.op \in {"thesis", "mark thesis"}
        /\ thesis' = IF a.op = "mark thesis" /\ thesis = NoFile THEN NoFile ELSE a.to
        /\ Continue(p)
        /\ UNCHANGED <<intent, plan, links, review, paper, row, linked, trades>>
    BY DEF WriteThesis, At, To, rows
  <1>2. a \in Pieces /\ StatusReady(a) /\ NewReady(a)
    BY <1>1, Running
  <1>3. a.op = "thesis" => a.to \in {"draft", "in_research"}
    BY <1>2, PieceTyped
  <1>4. a.op = "mark thesis" => a.to \in Statuses /\ CanMark(a.to)
    BY <1>2, PieceTyped DEF StatusReady
  <1>5. a.to \in Statuses /\ intent # NoFile /\ NoFile \notin Statuses
    BY <1>1, <1>2, <1>3, <1>4, AbsentIsNoStatus DEF Statuses, StatusReady
  <1>6. a.to \in {"in_skeptic", "paper"} => links
    BY <1>1, <1>3, <1>4 DEF CanMark, PaperReady
  <1>7. \/ thesis = NoFile /\ thesis' = NoFile
        \/ thesis' = a.to /\ Status' = a.to
    BY <1>1, <1>5 DEF Status
  <1>8. PredecessorGates'
    BY <1>1, <1>5, <1>6, <1>7 DEF IInv, PredecessorGates, Status
  <1>9. LedgerFollowsFiles'
    BY <1>1 DEF IInv, LedgerFollowsFiles
  <1>10. TradesMeanPaper'
    <2> SUFFICES ASSUME \E t \in Trades : trades[t] # NoRow
                 PROVE  /\ Status' \in {"paper", "rejected", "retired"}
                        /\ row \in {"paper", "rejected", "retired"}
      BY <1>1 DEF TradesMeanPaper
    <2>1. /\ Status \in {"paper", "rejected", "retired"}
          /\ row \in {"paper", "rejected", "retired"}
      BY DEF IInv, TradesMeanPaper
    <2>2. thesis # NoFile /\ thesis # "draft"
      BY <2>1, NoTradeYet DEF Status
    <2>3. a.op = "mark thesis"
      BY <1>1, <1>2, <1>3, <2>2 DEF NewReady
    <2>4. a.to \in {"paper", "rejected", "retired"}
      BY <1>4, <2>1, <2>3, PastPaper
    <2> QED
      BY <1>7, <2>1, <2>2, <2>4
  <1>11. ASSUME NEW b \in Pieces, Link(a, b)
         PROVE  Pre(b)'
    <2>1. CASE a.op = "thesis" /\ a.to = "draft"
      <3>1. b.op = "thesis" /\ b.to = "in_research"
        BY <1>11, <2>1 DEF Link, Is
      <3>2. thesis' = "draft"
        BY <1>1, <2>1
      <3>3. StatusReady(b)' /\ NewReady(b)' /\ TradeReady(b)'
        BY <1>1, <1>5, <3>1, <3>2 DEF StatusReady, NewReady, TradeReady
      <3> QED
        BY <3>3 DEF Pre
    <2>2. CASE a.op = "thesis" /\ a.to = "in_research"
      <3>1. b.op = "plan"
        BY <1>11, <2>2 DEF Link, Is
      <3>2. thesis' = "in_research"
        BY <1>1, <2>2
      <3>3. StatusReady(b)' /\ NewReady(b)' /\ TradeReady(b)'
        BY <1>1, <1>5, <3>1, <3>2 DEF StatusReady, NewReady, TradeReady
      <3> QED
        BY <3>3 DEF Pre
    <2>3. CASE a.op = "mark thesis"
      <3>1. b.op = "mark intent" /\ b.to = a.to
        BY <1>11, <2>3 DEF Link, Is
      <3>2. StatusReady(b)' /\ NewReady(b)' /\ TradeReady(b)'
        BY <1>1, <1>5, <1>6, <1>7, <3>1 DEF StatusReady, NewReady, TradeReady
      <3> QED
        BY <3>2 DEF Pre
    <2> QED
      BY <1>1, <1>3, <2>1, <2>2, <2>3
  <1>12. /\ Programs'
         /\ todo' \in [Procs -> Seq(Steps)]
    BY <1>1, <1>11, Continued
  <1>13. TypeOK'
    BY <1>1, <1>5, <1>7, <1>12 DEF IInv, TypeOK
  <1> QED
    BY <1>8, <1>9, <1>10, <1>12, <1>13 DEF IInv

LEMMA WriteIntentStep ==
    ASSUME OneCommand, IInv, NEW p \in Procs, WriteIntent(p)
    PROVE  IInv'
  <1> DEFINE a == Head(todo[p])
  <1>1. /\ todo[p] # << >> /\ a.op \in {"intent", "mark intent"}
        /\ intent' = a.to
        /\ Continue(p)
        /\ UNCHANGED <<thesis, plan, links, review, paper, row, linked, trades>>
    BY DEF WriteIntent, At, To, rows
  <1>2. a \in Pieces /\ StatusReady(a) /\ NewReady(a)
    BY <1>1, Running
  <1>3. a.op = "intent" => a.to \in {"draft", "in_research"} /\ thesis = NoFile
    BY <1>2, PieceTyped DEF NewReady
  <1>4. a.op = "mark intent" =>
            /\ a.to \in Statuses /\ thesis \in {a.to, NoFile}
            /\ a.to \in {"in_skeptic", "paper"} => links
    BY <1>2, PieceTyped DEF StatusReady
  <1>5. a.to \in Statuses /\ intent' # NoFile
    BY <1>1, <1>3, <1>4, AbsentIsNoStatus DEF Statuses
  <1>6. a.to \in {"in_skeptic", "paper"} => links
    BY <1>1, <1>3, <1>4
  <1>7. Status' = a.to /\ (thesis = NoFile \/ Status' = Status)
    BY <1>1, <1>3, <1>4 DEF Status
  <1>8. PredecessorGates'
    BY <1>1, <1>5, <1>6, <1>7 DEF IInv, PredecessorGates
  <1>9. LedgerFollowsFiles'
    BY <1>1 DEF IInv, LedgerFollowsFiles
  <1>10. TradesMeanPaper'
    BY <1>1, <1>7, NoTradeYet DEF IInv, TradesMeanPaper
  <1>11. ASSUME NEW b \in Pieces, Link(a, b)
         PROVE  Pre(b)'
    <2>1. CASE a.op = "intent"
      <3>1. b.op = "intent" \/ (b.op = "thesis" /\ b.to = "draft")
        BY <1>3, <1>11, <2>1 DEF Link, Is
      <3>2. StatusReady(b)' /\ NewReady(b)' /\ TradeReady(b)'
        BY <1>1, <1>3, <1>5, <2>1, <3>1 DEF StatusReady, NewReady, TradeReady
      <3> QED
        BY <3>2 DEF Pre
    <2>2. CASE a.op = "mark intent"
      <3>1. \/ b.op = "save" /\ b.to = a.to
            \/ b.op = "verdict"
            \/ b.op = "stamp" /\ a.to = "in_skeptic"
            \/ b.op = "insert" /\ a.to = "paper"
        BY <1>11, <2>2 DEF Link, Is
      <3>2. StatusReady(b)' /\ NewReady(b)' /\ TradeReady(b)'
        BY <1>1, <1>5, <1>7, <3>1 DEF StatusReady, NewReady, TradeReady
      <3> QED
        BY <3>2 DEF Pre
    <2> QED
      BY <1>1, <2>1, <2>2
  <1>12. /\ Programs'
         /\ todo' \in [Procs -> Seq(Steps)]
    BY <1>1, <1>11, Continued
  <1>13. TypeOK'
    BY <1>1, <1>5, <1>12 DEF IInv, TypeOK
  <1> QED
    BY <1>8, <1>9, <1>10, <1>12, <1>13 DEF IInv

LEMMA WritePlanStep ==
    ASSUME OneCommand, IInv, NEW p \in Procs, WritePlan(p)
    PROVE  IInv'
  <1> DEFINE a == Head(todo[p])
  <1>1. /\ todo[p] # << >> /\ a.op = "plan"
        /\ plan' = TRUE
        /\ Continue(p)
        /\ UNCHANGED <<intent, thesis, links, review, paper, row, linked, trades>>
    BY DEF WritePlan, At, rows
  <1>2. StatusReady(a) /\ NewReady(a)
    BY <1>1, Running
  <1>3. thesis = "in_research" /\ intent # NoFile /\ Status' = Status
    BY <1>1, <1>2 DEF StatusReady, NewReady, Status
  <1>4. PredecessorGates'
    BY <1>1, <1>3, AbsentIsNoStatus DEF IInv, PredecessorGates
  <1>5. LedgerFollowsFiles' /\ TradesMeanPaper'
    BY <1>1, <1>3 DEF IInv, LedgerFollowsFiles, TradesMeanPaper
  <1>6. ASSUME NEW b \in Pieces, Link(a, b)
        PROVE  Pre(b)'
    <2>1. b.op = "empty links"
      BY <1>1, <1>6 DEF Link, Is
    <2>2. StatusReady(b)' /\ NewReady(b)' /\ TradeReady(b)'
      BY <1>1, <1>3, <2>1 DEF StatusReady, NewReady, TradeReady
    <2> QED
      BY <2>2 DEF Pre
  <1>7. /\ Programs'
        /\ todo' \in [Procs -> Seq(Steps)]
    BY <1>1, <1>6, Continued
  <1>8. TypeOK'
    BY <1>1, <1>7 DEF IInv, TypeOK
  <1> QED
    BY <1>4, <1>5, <1>7, <1>8 DEF IInv

LEMMA WriteLinksStep ==
    ASSUME OneCommand, IInv, NEW p \in Procs, WriteLinks(p)
    PROVE  IInv'
  <1> DEFINE a == Head(todo[p])
  <1>1. /\ todo[p] # << >> /\ a.op \in {"empty links", "link"}
        /\ links' = (a.op = "link")
        /\ Continue(p)
        /\ UNCHANGED <<intent, thesis, plan, review, paper, row, linked, trades>>
    BY DEF WriteLinks, At, rows
  <1>2. StatusReady(a) /\ NewReady(a)
    BY <1>1, Running
  <1>3. intent # NoFile /\ Status' = Status
    BY <1>1, <1>2 DEF StatusReady, Status
  <1>4. a.op = "empty links" => thesis = "in_research" /\ Status = "in_research" /\ plan
    BY <1>2, AbsentIsNoStatus DEF NewReady, Status
  <1>5. PredecessorGates'
    BY <1>1, <1>3, <1>4 DEF IInv, PredecessorGates
  <1>6. LedgerFollowsFiles' /\ TradesMeanPaper'
    BY <1>1, <1>3 DEF IInv, LedgerFollowsFiles, TradesMeanPaper
  <1>7. ASSUME NEW b \in Pieces, Link(a, b)
        PROVE  Pre(b)'
    <2>1. \/ b.op = "index link"
          \/ b.op = "review" /\ a.op = "empty links"
      BY <1>1, <1>7 DEF Link, Is
    <2>2. StatusReady(b)' /\ NewReady(b)' /\ TradeReady(b)'
      BY <1>1, <1>3, <1>4, <2>1 DEF StatusReady, NewReady, TradeReady
    <2> QED
      BY <2>2 DEF Pre
  <1>8. /\ Programs'
        /\ todo' \in [Procs -> Seq(Steps)]
    BY <1>1, <1>7, Continued
  <1>9. TypeOK'
    BY <1>1, <1>8 DEF IInv, TypeOK
  <1> QED
    BY <1>5, <1>6, <1>8, <1>9 DEF IInv

LEMMA NewReviewStep ==
    ASSUME OneCommand, IInv, NEW p \in Procs, NewReview(p)
    PROVE  IInv'
  <1> DEFINE a == Head(todo[p])
  <1>1. /\ todo[p] # << >> /\ a.op = "review"
        /\ review' = "none"
        /\ Continue(p)
        /\ UNCHANGED <<intent, thesis, plan, links, paper, row, linked, trades>>
    BY DEF NewReview, At, rows
  <1>2. StatusReady(a) /\ NewReady(a)
    BY <1>1, Running
  <1>3. /\ thesis = "in_research" /\ plan /\ intent # NoFile
        /\ Status = "in_research" /\ Status' = Status
    BY <1>1, <1>2, AbsentIsNoStatus DEF StatusReady, NewReady, Status
  <1>4. PredecessorGates'
    BY <1>1, <1>3, AbsentIsNoStatus DEF IInv, PredecessorGates
  <1>5. LedgerFollowsFiles' /\ TradesMeanPaper'
    BY <1>1, <1>3 DEF IInv, LedgerFollowsFiles, TradesMeanPaper
  <1>6. ASSUME NEW b \in Pieces, Link(a, b)
        PROVE  Pre(b)'
    <2>1. b.op = "index" /\ b.to = "in_research"
      BY <1>1, <1>6 DEF Link, Is
    <2>2. StatusReady(b)' /\ NewReady(b)' /\ TradeReady(b)'
      BY <1>1, <1>3, <2>1 DEF StatusReady, NewReady, TradeReady
    <2> QED
      BY <2>2 DEF Pre
  <1>7. /\ Programs'
        /\ todo' \in [Procs -> Seq(Steps)]
    BY <1>1, <1>6, Continued
  <1>8. TypeOK'
    BY <1>1, <1>7 DEF IInv, TypeOK
  <1> QED
    BY <1>4, <1>5, <1>7, <1>8 DEF IInv

LEMMA WriteReviewStep ==
    ASSUME OneCommand, IInv, NEW p \in Procs, WriteReview(p)
    PROVE  IInv'
  <1> DEFINE a == Head(todo[p])
  <1>1. /\ todo[p] # << >> /\ a.op \in {"stamp", "verdict"}
        /\ IF review = NoFile THEN Stop(p) ELSE Continue(p)
        /\ review' = IF a.op = "verdict" /\ review # NoFile THEN a.to ELSE review
        /\ UNCHANGED <<intent, thesis, plan, links, paper, row, linked, trades>>
    BY DEF WriteReview, At, To, rows
  <1>2. a \in Pieces /\ StatusReady(a)
    BY <1>1, Running
  <1>3. a.op = "verdict" => a.to \in Verdicts
    BY <1>2, PieceTyped
  <1>4. /\ intent # NoFile /\ Status' = Status /\ (review' = NoFile <=> review = NoFile)
        /\ a.op = "stamp" => Status = "in_skeptic"
    BY <1>1, <1>2, <1>3, AbsentIsNoStatus DEF StatusReady, Status, Verdicts
  <1>5. PredecessorGates'
    BY <1>1, <1>4 DEF IInv, PredecessorGates
  <1>6. LedgerFollowsFiles' /\ TradesMeanPaper'
    BY <1>1, <1>4 DEF IInv, LedgerFollowsFiles, TradesMeanPaper
  <1>7. ASSUME NEW b \in Pieces, Link(a, b)
        PROVE  Pre(b)'
    <2>1. /\ b.op = "index"
          /\ \/ b.to = NoFile
             \/ b.to = "in_skeptic" /\ a.op = "stamp"
      BY <1>1, <1>7 DEF Link, Is
    <2>2. StatusReady(b)' /\ NewReady(b)' /\ TradeReady(b)'
      BY <1>1, <1>4, <2>1 DEF StatusReady, NewReady, TradeReady
    <2> QED
      BY <2>2 DEF Pre
  <1>8. /\ Programs'
        /\ todo' \in [Procs -> Seq(Steps)]
    BY <1>1, <1>7, Continued, Stopped
  <1>9. TypeOK'
    BY <1>1, <1>3, <1>8 DEF IInv, TypeOK
  <1> QED
    BY <1>5, <1>6, <1>8, <1>9 DEF IInv

LEMMA WritePaperStep ==
    ASSUME OneCommand, IInv, NEW p \in Procs, WritePaper(p)
    PROVE  IInv'
  <1> DEFINE a == Head(todo[p])
             t == a.to
  <1>1. /\ todo[p] # << >> /\ a.op \in {"blank", "filled", "open", "closed"}
        /\ paper' = [paper EXCEPT ![t] = a.op]
        /\ Continue(p)
        /\ UNCHANGED <<intent, thesis, plan, links, review, row, linked, trades>>
    BY DEF WritePaper, At, To, rows
  <1>2. /\ a \in Pieces /\ StatusReady(a) /\ TradeReady(a)
        /\ todo[p] \in Seq(Pieces) /\ Linked(todo[p])
    BY <1>1, Running
  <1>3. t \in Trades
    BY <1>1, <1>2, PieceTyped
  <1>4. /\ intent # NoFile /\ review # NoFile /\ Status' = Status
        /\ a.op = "blank" => paper[t] = "none"
        /\ a.op = "filled" => paper[t] = "blank"
        /\ a.op = "open" => paper[t] = "filled"
    BY <1>1, <1>2 DEF StatusReady, TradeReady, Status
  <1>5. /\ paper \in [Trades -> {"none", "blank", "filled", "open", "closed"}]
        /\ paper'[t] = a.op
        /\ \A u \in Trades \ {t} : paper'[u] = paper[u]
        /\ paper' \in [Trades -> {"none", "blank", "filled", "open", "closed"}]
    BY <1>1, <1>3 DEF IInv, TypeOK
  <1>6. PredecessorGates'
    BY <1>1, <1>4 DEF IInv, PredecessorGates
  <1>7. LedgerFollowsFiles'
    <2> SUFFICES ASSUME NEW u \in Trades
                 PROVE  /\ trades[u] = "open" => paper'[u] \in {"open", "closed"}
                        /\ trades[u] = "closed" => paper'[u] = "closed"
      BY <1>1 DEF LedgerFollowsFiles
    <2>1. /\ trades[u] = "open" => paper[u] \in {"open", "closed"}
          /\ trades[u] = "closed" => paper[u] = "closed"
      BY DEF IInv, LedgerFollowsFiles
    <2>2. CASE u # t
      BY <1>5, <2>1, <2>2
    <2>3. CASE u = t
      BY <1>1, <1>4, <1>5, <2>1, <2>3
    <2> QED
      BY <2>2, <2>3
  <1>8. TradesMeanPaper'
    BY <1>1, <1>4 DEF IInv, TradesMeanPaper
  <1>9. ASSUME NEW b \in Pieces, Link(a, b)
        PROVE  Pre(b)'
    <2>1. \/ b.op = "filled" /\ b.to = t /\ a.op = "blank"
          \/ b.op = "open" /\ b.to = t /\ a.op = "filled"
          \/ b.op = "advance unless"
          \/ b.op = "settle" /\ b.to = t /\ a.op = "closed"
      BY <1>1, <1>9 DEF Link, Is
    <2>2. StatusReady(b)' /\ NewReady(b)' /\ TradeReady(b)'
      BY <1>1, <1>4, <1>5, <2>1 DEF StatusReady, NewReady, TradeReady
    <2> QED
      BY <2>2 DEF Pre
  <1>10. a.op = "closed" => \A i \in 1..Len(Tail(todo[p])) : Tail(todo[p])[i].op # "insert"
    <2> SUFFICES ASSUME a.op = "closed"
                 PROVE  \A i \in 1..Len(Tail(todo[p])) : Tail(todo[p])[i].op # "insert"
      OBVIOUS
    <2> DEFINE r == Tail(todo[p])
    <2>1. /\ r \in Seq(Pieces) /\ Linked(r)
          /\ r # << >> => Head(r).op = "settle"
      BY <1>1, <1>2, LinkedTail DEF Link, Is
    <2> HIDE DEF r
    <2>2. Len(r) \in Nat /\ (Len(r) >= 1 => r[1].op = "settle")
      BY <2>1
    <2>3. Len(r) <= 1
      <3> SUFFICES ASSUME Len(r) > 1
                   PROVE  FALSE
        BY <2>2
      <3>1. Link(r[1], r[1 + 1])
        BY <2>1, <2>2 DEF Linked
      <3>2. r[1].op = "settle"
        BY <2>2
      <3> QED
        BY <3>1, <3>2 DEF Link
    <2>4. \A i \in 1..Len(r) : i = 1
      BY <2>2, <2>3
    <2>5. \A i \in 1..Len(r) : r[i].op # "insert"
      BY <2>2, <2>4
    <2> QED
      BY <2>5 DEF r
  <1>11. /\ a.op = "open" => paper'[a.to] = "open"
         /\ \A u \in Trades : paper[u] = "open" => paper'[u] = "open"
               \/ \A i \in 1..Len(Tail(todo[p])) : Tail(todo[p])[i].op # "insert"
    <2>1. CASE a.op = "closed"
      BY <1>10, <2>1
    <2>2. CASE a.op # "closed"
      BY <1>1, <1>4, <1>5, <2>2
    <2> QED
      BY <2>1, <2>2
  <1>12. /\ Programs'
         /\ todo' \in [Procs -> Seq(Steps)]
    BY <1>1, <1>9, <1>11, Continued
  <1>13. TypeOK'
    BY <1>1, <1>5, <1>12 DEF IInv, TypeOK
  <1> QED
    BY <1>6, <1>7, <1>8, <1>12, <1>13 DEF IInv

LEMMA LockRowStep ==
    ASSUME OneCommand, IInv, NEW p \in Procs, LockRow(p)
    PROVE  IInv'
  <1> DEFINE a == Head(todo[p])
  <1>1. todo[p] # << >> /\ a.op = "lock" /\ Continue(p) /\ UNCHANGED <<files, rows>>
    BY DEF LockRow, At
  <1>2. UNCHANGED <<intent, thesis, plan, links, review, paper, row, linked, trades>>
    BY <1>1 DEF files, rows
  <1>3. intent # NoFile
    BY <1>1, Running DEF StatusReady
  <1>4. ASSUME NEW b \in Pieces, Link(a, b)
        PROVE  Pre(b)'
    <2>1. b.op = "gate"
      BY <1>1, <1>4 DEF Link
    <2>2. StatusReady(b)' /\ NewReady(b)' /\ TradeReady(b)'
      BY <1>2, <1>3, <2>1 DEF StatusReady, NewReady, TradeReady
    <2> QED
      BY <2>2 DEF Pre
  <1> QED
    BY <1>1, <1>2, <1>4, Continued, OnlyTodo

(* The last step of a program: nothing follows it.                         *)
LEMMA LastStep ==
    ASSUME OneCommand, IInv, NEW p \in Procs, todo[p] # << >>, Continue(p), paper' = paper,
           Head(todo[p]).op \in {"index", "index link", "save", "insert", "settle"}
    PROVE  /\ Programs'
           /\ todo' \in [Procs -> Seq(Steps)]
  <1>1. \A b \in Pieces : ~ Link(Head(todo[p]), b)
    BY DEF Link
  <1> QED
    BY <1>1, Continued

LEMMA UpsertThesisStep ==
    ASSUME OneCommand, IInv, NEW p \in Procs, UpsertThesis(p)
    PROVE  IInv'
  <1> DEFINE a == Head(todo[p])
  <1>1. /\ todo[p] # << >> /\ a.op \in {"index", "index link", "save"}
        /\ row' = IF a.to = NoFile THEN Status ELSE a.to
        /\ linked' = (linked \/ At(p, {"index link"}))
        /\ Continue(p)
        /\ UNCHANGED <<intent, thesis, plan, links, review, paper, trades>>
    BY DEF UpsertThesis, At, To, files
  <1>2. a \in Pieces /\ StatusReady(a)
    BY <1>1, Running
  <1>3. intent # NoFile /\ (a.to = NoFile \/ Status = a.to)
    BY <1>1, <1>2, PieceTyped DEF StatusReady
  <1>4. row' = Status /\ Status \in Statuses /\ Status' = Status
    BY <1>1, <1>3 DEF IInv, TypeOK, Status
  <1>5. PredecessorGates' /\ LedgerFollowsFiles'
    BY <1>1, <1>4 DEF IInv, PredecessorGates, LedgerFollowsFiles
  <1>6. TradesMeanPaper'
    BY <1>1, <1>4 DEF IInv, TradesMeanPaper
  <1>7. /\ Programs'
        /\ todo' \in [Procs -> Seq(Steps)]
    BY <1>1, LastStep
  <1>8. TypeOK'
    <2>1. linked' \in BOOLEAN
      BY <1>1
    <2> QED
      BY <1>1, <1>4, <1>7, <2>1 DEF IInv, TypeOK
  <1> QED
    BY <1>5, <1>6, <1>7, <1>8 DEF IInv

LEMMA InsertRowStep ==
    ASSUME OneCommand, IInv, NEW p \in Procs, InsertRow(p)
    PROVE  IInv'
  <1> DEFINE a == Head(todo[p])
             t == a.to
  <1>1. /\ todo[p] # << >> /\ a.op = "insert" /\ Continue(p)
        /\ IF row = NoRow
           THEN UNCHANGED <<row, trades>>
           ELSE row' = Status /\ trades' = [trades EXCEPT ![t] = "open"]
        /\ UNCHANGED <<intent, thesis, plan, links, review, paper, linked>>
    BY DEF InsertRow, At, To, files
  <1>2. /\ a \in Pieces /\ StatusReady(a)
        /\ todo[p] \in Seq(Pieces) /\ Carried(todo[p])
    BY <1>1, Running
  <1>3. t \in Trades
    BY <1>1, <1>2, PieceTyped
  <1>4. Status = "paper" /\ Status' = Status
    BY <1>1, <1>2 DEF StatusReady, Status
  <1>5. paper[t] = "open"
    <2>1. 1 \in 1..Len(todo[p]) /\ a = todo[p][1]
      BY <1>1, <1>2
    <2> QED
      BY <1>1, <2>1, <1>2 DEF Carried
  <1>6. trades \in [Trades -> {NoRow, "open", "closed"}]
    BY DEF IInv, TypeOK
  <1>7. PredecessorGates'
    BY <1>1, <1>4 DEF IInv, PredecessorGates
  <1>8. LedgerFollowsFiles'
    BY <1>1, <1>3, <1>5, <1>6 DEF IInv, LedgerFollowsFiles
  <1>9. TradesMeanPaper'
    BY <1>1, <1>4 DEF IInv, TradesMeanPaper
  <1>10. /\ Programs'
         /\ todo' \in [Procs -> Seq(Steps)]
    BY <1>1, LastStep
  <1>11. row' \in Statuses \cup {NoRow} /\ trades' \in [Trades -> {NoRow, "open", "closed"}]
    BY <1>1, <1>3, <1>4, <1>6 DEF IInv, TypeOK, Statuses
  <1>12. TypeOK'
    BY <1>1, <1>10, <1>11 DEF IInv, TypeOK
  <1> QED
    BY <1>7, <1>8, <1>9, <1>10, <1>12 DEF IInv

LEMMA SettleRowStep ==
    ASSUME OneCommand, IInv, NEW p \in Procs, SettleRow(p)
    PROVE  IInv'
  <1> DEFINE a == Head(todo[p])
             t == a.to
  <1>1. /\ todo[p] # << >> /\ a.op = "settle" /\ Continue(p)
        /\ trades' = [trades EXCEPT ![t] = IF @ = NoRow THEN NoRow ELSE "closed"]
        /\ UNCHANGED <<intent, thesis, plan, links, review, paper, row, linked>>
    BY DEF SettleRow, At, To, files
  <1>2. a \in Pieces /\ TradeReady(a)
    BY <1>1, Running
  <1>3. t \in Trades /\ paper[t] = "closed"
    BY <1>1, <1>2, PieceTyped DEF TradeReady
  <1>4. trades \in [Trades -> {NoRow, "open", "closed"}]
    BY DEF IInv, TypeOK
  <1>5. /\ trades' \in [Trades -> {NoRow, "open", "closed"}]
        /\ \A u \in Trades : trades'[u] = trades[u]
               \/ (u = t /\ trades[u] # NoRow /\ trades'[u] = "closed")
    BY <1>1, <1>3, <1>4
  <1>6. Status' = Status
    BY <1>1 DEF Status
  <1>7. PredecessorGates'
    BY <1>1, <1>6 DEF IInv, PredecessorGates
  <1>8. LedgerFollowsFiles'
    BY <1>1, <1>3, <1>5 DEF IInv, LedgerFollowsFiles
  <1>9. TradesMeanPaper'
    BY <1>1, <1>5, <1>6 DEF IInv, TradesMeanPaper
  <1>10. /\ Programs'
         /\ todo' \in [Procs -> Seq(Steps)]
    BY <1>1, LastStep
  <1>11. TypeOK'
    BY <1>1, <1>5, <1>10 DEF IInv, TypeOK
  <1> QED
    BY <1>7, <1>8, <1>9, <1>10, <1>11 DEF IInv

LEMMA DieStep ==
    ASSUME OneCommand, IInv, NEW p \in Procs, Die(p)
    PROVE  IInv'
  BY Stopped, OnlyTodo DEF Die

-----------------------------------------------------------------------------
(* The programs of the commands.                                           *)

(* A piece of a program that inserts no trade.                             *)
Chain(s) ==
    /\ s \in Seq(Pieces)
    /\ Linked(s)
    /\ \A i \in 1..Len(s) : s[i].op # "insert"

LEMMA Single ==
    ASSUME NEW a \in Pieces, a.op # "insert"
    PROVE  /\ Chain(<<a>>) /\ <<a>> # << >>
           /\ Head(<<a>>) = a /\ <<a>>[Len(<<a>>)] = a
  <1>1. <<a>> \in Seq(Pieces) /\ Len(<<a>>) = 1 /\ <<a>>[1] = a
    OBVIOUS
  <1>2. Linked(<<a>>) /\ \A i \in 1..Len(<<a>>) : <<a>>[i].op # "insert"
    BY <1>1 DEF Linked
  <1> QED
    BY <1>1, <1>2 DEF Chain

LEMMA Nothing == Chain(<< >>)
  BY DEF Chain, Linked

LEMMA Joined ==
    ASSUME NEW s, NEW r, Chain(s), Chain(r), s # << >>,
           r # << >> => Link(s[Len(s)], Head(r))
    PROVE  /\ Chain(s \o r) /\ s \o r # << >> /\ Head(s \o r) = Head(s)
           /\ r # << >> => (s \o r)[Len(s \o r)] = r[Len(r)]
  <1> DEFINE w == s \o r
  <1>1. /\ w \in Seq(Pieces) /\ Linked(w) /\ w # << >> /\ Head(w) = Head(s)
    BY LinkedConcat DEF Chain
  <1>2. /\ Len(w) = Len(s) + Len(r) /\ Len(s) \in Nat /\ Len(r) \in Nat
        /\ \A i \in 1..Len(s) : w[i] = s[i]
        /\ \A i \in 1..Len(r) : w[Len(s) + i] = r[i]
    BY ConcatProperties DEF Chain
  <1>3. r # << >> => Len(r) >= 1
    BY DEF Chain
  <1> HIDE DEF w
  <1>4. r # << >> => w[Len(w)] = r[Len(r)]
    <2> SUFFICES ASSUME r # << >>
                 PROVE  w[Len(w)] = r[Len(r)]
      OBVIOUS
    <2>1. Len(r) \in 1..Len(r)
      BY <1>2, <1>3
    <2> QED
      BY <1>2, <2>1
  <1>5. ASSUME NEW i \in 1..Len(w)
        PROVE  w[i].op # "insert"
    <2>1. CASE i <= Len(s)
      <3>1. i \in 1..Len(s)
        BY <2>1
      <3> QED
        BY <1>2, <3>1 DEF Chain
    <2>2. CASE i > Len(s)
      <3> DEFINE k == i - Len(s)
      <3>1. k \in 1..Len(r) /\ Len(s) + k = i
        BY <1>2, <2>2
      <3> HIDE DEF k
      <3> QED
        BY <1>2, <3>1 DEF Chain
    <2> QED
      BY <1>2, <2>1, <2>2
  <1> QED
    BY <1>1, <1>4, <1>5 DEF Chain, w

(* The upsert at the end of a command.                                     *)
LEMMA Indexing ==
    ASSUME NEW s \in {"in_research", "in_skeptic", NoFile}, NEW db \in BOOLEAN
    PROVE  /\ Chain(Index(s, db))
           /\ Index(s, db) # << >> => Is(Head(Index(s, db)), "index", s)
  <1> DEFINE a == Do("index", s)
  <1>1. a \in Pieces
    BY DEF Pieces, Steps, Do, Ops, Statuses
  <1>2. a.op = "index" /\ a.to = s
    BY DEF Do
  <1>3. Index(s, db) = IF db THEN <<a>> ELSE << >>
    BY DEF Index
  <1> HIDE DEF a
  <1>4. Chain(<<a>>) /\ Head(<<a>>) = a
    BY <1>1, <1>2, Single
  <1> QED
    BY <1>2, <1>3, <1>4, Nothing DEF Is

LEMMA AdvanceChain ==
    ASSUME NEW s \in Statuses
    PROVE  /\ Chain(AdvanceTo(s)) /\ AdvanceTo(s) # << >>
           /\ Head(AdvanceTo(s)) = Do("gate", s)
           /\ Is(AdvanceTo(s)[Len(AdvanceTo(s))], "mark intent", s)
  <1> DEFINE w == AdvanceTo(s)
  <1>1. /\ w \in Seq(Pieces) /\ Len(w) = 3 /\ Linked(w) /\ w # << >>
        /\ Head(w) = Do("gate", s)
        /\ w[3].op = "mark intent" /\ w[3].to = s
        /\ \A i \in 1..3 : w[i].op # "insert"
    BY Advancing
  <1> HIDE DEF w
  <1>2. Chain(w) /\ Is(w[Len(w)], "mark intent", s)
    BY <1>1 DEF Chain, Is
  <1> QED
    BY <1>1, <1>2 DEF w

(* A command that inserts no trade.                                        *)
LEMMA StartChain ==
    ASSUME OneCommand, IInv, NEW p \in Procs, NEW program, Chain(program), program # << >>,
           Pre(Head(program)), Start(p, program)
    PROVE  IInv'
  <1>1. program \in Seq(Pieces) /\ Linked(program) /\ Carried(program)
    BY CarriesNothing DEF Chain
  <1>2. todo' = [todo EXCEPT ![p] = program] /\ UNCHANGED <<files, rows>>
    BY DEF Start
  <1> QED
    BY <1>1, <1>2, Replaced

LEMMA NewFilesChain ==
    /\ Chain(NewFiles) /\ NewFiles # << >>
    /\ Head(NewFiles) = Do("intent", "draft")
    /\ NewFiles[Len(NewFiles)].op = "review"
  <1> DEFINE a1 == Do("intent", "draft")
             a2 == Do("intent", "in_research")
             a3 == Do("thesis", "draft")
             a4 == Do("thesis", "in_research")
             a5 == Do("plan", NoFile)
             a6 == Do("empty links", NoFile)
             a7 == Do("review", NoFile)
  <1>1. /\ Is(a1, "intent", "draft") /\ Is(a2, "intent", "in_research")
        /\ Is(a3, "thesis", "draft") /\ Is(a4, "thesis", "in_research")
        /\ Is(a5, "plan", NoFile) /\ Is(a6, "empty links", NoFile)
        /\ Is(a7, "review", NoFile)
    BY DEF Is, Do
  <1>2. a1 \in Pieces /\ a2 \in Pieces /\ a3 \in Pieces /\ a4 \in Pieces
    BY DEF Pieces, Steps, Do, Ops, Statuses
  <1>3. a5 \in Pieces /\ a6 \in Pieces /\ a7 \in Pieces
    BY DEF Pieces, Steps, Do, Ops
  <1> HIDE DEF a1, a2, a3, a4, a5, a6, a7
  <1>4. /\ Link(a1, a2) /\ Link(a2, a3) /\ Link(a3, a4)
        /\ Link(a4, a5) /\ Link(a5, a6) /\ Link(a6, a7)
    <2>1. Link(a1, a2)
      BY <1>1 DEF Link, Is
    <2>2. Link(a2, a3)
      BY <1>1 DEF Link, Is
    <2>3. Link(a3, a4)
      BY <1>1 DEF Link, Is
    <2>4. Link(a4, a5)
      BY <1>1 DEF Link, Is
    <2>5. Link(a5, a6)
      BY <1>1 DEF Link, Is
    <2>6. Link(a6, a7)
      BY <1>1 DEF Link, Is
    <2> QED
      BY <2>1, <2>2, <2>3, <2>4, <2>5, <2>6
  <1> DEFINE w == <<a1, a2, a3, a4, a5, a6, a7>>
  <1>5. NewFiles = w
    BY DEF NewFiles, a1, a2, a3, a4, a5, a6, a7
  <1>6. /\ w \in Seq(Pieces) /\ Len(w) = 7 /\ w # << >> /\ Head(w) = a1
        /\ w[1] = a1 /\ w[2] = a2 /\ w[3] = a3 /\ w[4] = a4
        /\ w[5] = a5 /\ w[6] = a6 /\ w[7] = a7
    BY <1>2, <1>3
  <1> HIDE DEF w
  <1>7. Linked(w)
    <2>1. \A i \in 1..6 : i = 1 \/ i = 2 \/ i = 3 \/ i = 4 \/ i = 5 \/ i = 6
      OBVIOUS
    <2>2. \A i \in 1..6 : Link(w[i], w[i + 1])
      BY <1>4, <1>6, <2>1
    <2> QED
      BY <1>6, <2>2 DEF Linked
  <1>8. \A i \in 1..Len(w) : w[i].op # "insert"
    <2>1. \A i \in 1..7 : \/ i = 1 \/ i = 2 \/ i = 3 \/ i = 4
                          \/ i = 5 \/ i = 6 \/ i = 7
      OBVIOUS
    <2> QED
      BY <1>1, <1>6, <2>1 DEF Is
  <1>9. w[Len(w)].op = "review"
    BY <1>1, <1>6 DEF Is
  <1> QED
    BY <1>5, <1>6, <1>7, <1>8, <1>9 DEF Chain, a1

LEMMA ThesisNewStep ==
    ASSUME OneCommand, IInv, NEW p \in Procs, ThesisNew(p)
    PROVE  IInv'
  <1>1. PICK db \in BOOLEAN :
            thesis = NoFile /\ Start(p, NewFiles \o Index("in_research", db))
    BY DEF ThesisNew
  <1> DEFINE r == Index("in_research", db)
  <1>2. Chain(r) /\ (r # << >> => Is(Head(r), "index", "in_research"))
    BY Indexing
  <1>3. r # << >> => Link(NewFiles[Len(NewFiles)], Head(r))
    BY <1>2, NewFilesChain DEF Link, Is
  <1>4. /\ Chain(NewFiles \o r) /\ NewFiles \o r # << >>
        /\ Head(NewFiles \o r) = Do("intent", "draft")
    BY <1>2, <1>3, NewFilesChain, Joined
  <1>5. Pre(Do("intent", "draft"))
    <2> DEFINE a == Do("intent", "draft")
    <2>1. a.op = "intent"
      BY DEF Do
    <2> HIDE DEF a
    <2>2. StatusReady(a) /\ NewReady(a) /\ TradeReady(a)
      BY <1>1, <2>1 DEF StatusReady, NewReady, TradeReady
    <2> QED
      BY <2>2 DEF Pre, a
  <1> QED
    BY <1>1, <1>4, <1>5, StartChain

LEMMA LinkEvidenceStep ==
    ASSUME OneCommand, IInv, NEW p \in Procs, LinkEvidence(p)
    PROVE  IInv'
  <1> DEFINE a == Do("link", NoFile)
             b == Do("index link", NoFile)
  <1>1. PICK db \in BOOLEAN :
            intent # NoFile /\ Start(p, <<a>> \o (IF db THEN <<b>> ELSE << >>))
    BY DEF LinkEvidence
  <1>2. a \in Pieces /\ b \in Pieces
    BY DEF Pieces, Steps, Do, Ops
  <1>3. Is(a, "link", NoFile) /\ Is(b, "index link", NoFile)
    BY DEF Is, Do
  <1> HIDE DEF a, b
  <1>4. Link(a, b)
    BY <1>3 DEF Link, Is
  <1> DEFINE r == IF db THEN <<b>> ELSE << >>
  <1>5. Chain(r) /\ (r # << >> => Head(r) = b)
    BY <1>2, <1>3, Single, Nothing DEF Is
  <1>6. Chain(<<a>>) /\ <<a>> # << >> /\ Head(<<a>>) = a /\ <<a>>[Len(<<a>>)] = a
    BY <1>2, <1>3, Single DEF Is
  <1> HIDE DEF r
  <1>7. Chain(<<a>> \o r) /\ <<a>> \o r # << >> /\ Head(<<a>> \o r) = a
    BY <1>4, <1>5, <1>6, Joined
  <1>8. Pre(a)
    <2>1. StatusReady(a) /\ NewReady(a) /\ TradeReady(a)
      BY <1>1, <1>3 DEF StatusReady, NewReady, TradeReady, Is
    <2> QED
      BY <2>1 DEF Pre
  <1> QED
    BY <1>1, <1>7, <1>8, StartChain DEF r

LEMMA ThesisAdvanceStep ==
    ASSUME OneCommand, IInv, NEW p \in Procs, ThesisAdvance(p)
    PROVE  IInv'
  <1>1. PICK s \in Statuses :
            /\ intent # NoFile
            /\ \/ Start(p, AdvanceTo(s))
               \/ Start(p, << Do("lock", NoFile) >> \o AdvanceTo(s) \o << Do("save", s) >>)
    BY DEF ThesisAdvance
  <1> DEFINE a == Do("lock", NoFile)
             b == Do("save", s)
             w == AdvanceTo(s)
  <1>2. /\ Chain(w) /\ w # << >> /\ Head(w) = Do("gate", s)
        /\ Is(w[Len(w)], "mark intent", s)
    BY AdvanceChain
  <1>3. CASE Start(p, w)
    BY <1>1, <1>2, <1>3, GateReady, StartChain
  <1>4. CASE Start(p, <<a>> \o w \o <<b>>)
    <2>1. a \in Pieces /\ b \in Pieces
      BY DEF Pieces, Steps, Do, Ops
    <2>2. Is(a, "lock", NoFile) /\ Is(b, "save", s) /\ Is(Head(w), "gate", s)
      <3>1. Is(Do("gate", s), "gate", s)
        BY DEF Is, Do
      <3>2. Is(a, "lock", NoFile) /\ Is(b, "save", s)
        BY DEF Is, Do
      <3> QED
        BY <1>2, <3>1, <3>2
    <2> HIDE DEF a, b, w
    <2>3. /\ Chain(<<a>>) /\ <<a>> # << >> /\ Head(<<a>>) = a /\ <<a>>[Len(<<a>>)] = a
          /\ Chain(<<b>>) /\ <<b>> # << >> /\ Head(<<b>>) = b
      BY <2>1, <2>2, Single DEF Is
    <2>4. Link(a, Head(w))
      BY <2>2 DEF Link, Is
    <2>5. Link(w[Len(w)], b)
      BY <1>2, <2>2 DEF Link, Is
    <2> DEFINE x == <<a>> \o w
    <2>6. Chain(x) /\ x # << >> /\ Head(x) = a /\ x[Len(x)] = w[Len(w)]
      BY <1>2, <2>3, <2>4, Joined
    <2> HIDE DEF x
    <2>7. Chain(x \o <<b>>) /\ x \o <<b>> # << >> /\ Head(x \o <<b>>) = a
      BY <2>3, <2>5, <2>6, Joined
    <2>8. Pre(a)
      <3>1. StatusReady(a) /\ NewReady(a) /\ TradeReady(a)
        BY <1>1, <2>2 DEF StatusReady, NewReady, TradeReady, Is
      <3> QED
        BY <3>1 DEF Pre
    <2> QED
      BY <1>4, <2>7, <2>8, StartChain DEF x
  <1> QED
    BY <1>1, <1>3, <1>4

LEMMA SkepticOpenStep ==
    ASSUME OneCommand, IInv, NEW p \in Procs, SkepticOpen(p)
    PROVE  IInv'
  <1> DEFINE a == Do("stamp", NoFile)
             w == AdvanceTo("in_skeptic")
  <1>1. PICK db \in BOOLEAN :
            intent # NoFile /\ Start(p, w \o <<a>> \o Index("in_skeptic", db))
    BY DEF SkepticOpen
  <1> DEFINE r == Index("in_skeptic", db)
  <1>2. "in_skeptic" \in Statuses
    BY DEF Statuses
  <1>3. /\ Chain(w) /\ w # << >> /\ Head(w) = Do("gate", "in_skeptic")
        /\ Is(w[Len(w)], "mark intent", "in_skeptic")
    BY <1>2, AdvanceChain
  <1>4. Chain(r) /\ (r # << >> => Is(Head(r), "index", "in_skeptic"))
    BY Indexing
  <1>5. a \in Pieces
    BY DEF Pieces, Steps, Do, Ops
  <1>6. Is(a, "stamp", NoFile)
    BY DEF Is, Do
  <1> HIDE DEF a, w, r
  <1>7. Chain(<<a>>) /\ <<a>> # << >> /\ Head(<<a>>) = a /\ <<a>>[Len(<<a>>)] = a
    BY <1>5, <1>6, Single DEF Is
  <1>8. Link(w[Len(w)], a)
    BY <1>3, <1>6 DEF Link, Is
  <1>9. r # << >> => Link(a, Head(r))
    BY <1>4, <1>6 DEF Link, Is
  <1> DEFINE x == w \o <<a>>
  <1>10. Chain(x) /\ x # << >> /\ Head(x) = Head(w) /\ x[Len(x)] = a
    BY <1>3, <1>7, <1>8, Joined
  <1> HIDE DEF x
  <1>11. Chain(x \o r) /\ x \o r # << >> /\ Head(x \o r) = Head(w)
    BY <1>4, <1>9, <1>10, Joined
  <1>12. Pre(Head(w))
    BY <1>1, <1>2, <1>3, GateReady
  <1> QED
    BY <1>1, <1>11, <1>12, StartChain DEF x, r

LEMMA SkepticRecordStep ==
    ASSUME OneCommand, IInv, NEW p \in Procs, SkepticRecord(p)
    PROVE  IInv'
  <1>1. PICK v \in Verdicts, db \in BOOLEAN :
            /\ intent # NoFile
            /\ Start(p, VerdictMoves(v) \o << Do("verdict", v) >> \o Index(NoFile, db))
    BY DEF SkepticRecord
  <1> DEFINE a == Do("verdict", v)
             w == VerdictMoves(v)
             r == Index(NoFile, db)
  <1>2. w = << >> \/ \E s \in Statuses : w = AdvanceTo(s)
    BY DEF VerdictMoves, Statuses, Verdicts
  <1>3. Chain(r) /\ (r # << >> => Is(Head(r), "index", NoFile))
    BY Indexing
  <1>4. a \in Pieces
    BY DEF Pieces, Steps, Do, Ops
  <1>5. Is(a, "verdict", v)
    BY DEF Is, Do
  <1> HIDE DEF a, w, r
  <1>6. Chain(<<a>>) /\ <<a>> # << >> /\ Head(<<a>>) = a /\ <<a>>[Len(<<a>>)] = a
    BY <1>4, <1>5, Single DEF Is
  <1>7. r # << >> => Link(a, Head(r))
    BY <1>3, <1>5 DEF Link, Is
  <1> DEFINE x == w \o <<a>>
  <1>8. Chain(x) /\ x # << >> /\ Pre(Head(x)) /\ x[Len(x)] = a
    <2>1. CASE w = << >>
      <3>1. x = <<a>>
        BY <1>4, <2>1
      <3>2. StatusReady(a) /\ NewReady(a) /\ TradeReady(a)
        BY <1>1, <1>5 DEF StatusReady, NewReady, TradeReady, Is
      <3> QED
        BY <1>6, <3>1, <3>2 DEF Pre
    <2>2. CASE \E s \in Statuses : w = AdvanceTo(s)
      <3>1. PICK s \in Statuses : w = AdvanceTo(s)
        BY <2>2
      <3>2. /\ Chain(w) /\ w # << >> /\ Head(w) = Do("gate", s)
            /\ Is(w[Len(w)], "mark intent", s)
        BY <3>1, AdvanceChain
      <3>3. Link(w[Len(w)], a)
        BY <1>5, <3>2 DEF Link, Is
      <3>4. Chain(x) /\ x # << >> /\ Head(x) = Head(w) /\ x[Len(x)] = a
        BY <1>6, <3>2, <3>3, Joined
      <3>5. Pre(Head(w))
        BY <1>1, <3>2, GateReady
      <3> QED
        BY <3>4, <3>5
    <2> QED
      BY <1>2, <2>1, <2>2
  <1> HIDE DEF x
  <1>9. Chain(x \o r) /\ x \o r # << >> /\ Head(x \o r) = Head(x)
    BY <1>3, <1>7, <1>8, Joined
  <1> QED
    BY <1>1, <1>8, <1>9, StartChain DEF x, w, a, r

LEMMA PaperOpenStep ==
    ASSUME OneCommand, IInv, NEW p \in Procs, PaperOpen(p)
    PROVE  IInv'
  <1>1. PICK t \in Trades, db \in BOOLEAN :
            /\ intent # NoFile
            /\ paper[t] = "none"
            /\ review = "pass"
            /\ Start(p, NewTrade(t) \o (IF db THEN InsertTrade(t) ELSE << >>))
    BY DEF PaperOpen, Unused
  <1> DEFINE a1 == Do("blank", t)
             a2 == Do("filled", t)
             a3 == Do("open", t)
             a4 == Do("advance unless", "paper")
             a5 == Do("insert", t)
             w == <<a1, a2, a3, a4>>
             r == IF db THEN <<a5>> ELSE << >>
  <1>2. /\ Is(a1, "blank", t) /\ Is(a2, "filled", t) /\ Is(a3, "open", t)
        /\ Is(a4, "advance unless", "paper") /\ Is(a5, "insert", t)
    BY DEF Is, Do
  <1>3. a1 \in Pieces /\ a2 \in Pieces /\ a3 \in Pieces /\ a4 \in Pieces /\ a5 \in Pieces
    BY DEF Pieces, Steps, Do, Ops, Statuses
  <1>4. w \o r = NewTrade(t) \o (IF db THEN InsertTrade(t) ELSE << >>)
    BY DEF NewTrade, InsertTrade
  <1>5. a3 = Do("open", t)
    OBVIOUS
  <1> HIDE DEF a1, a2, a3, a4, a5
  <1>6. Link(a1, a2) /\ Link(a2, a3) /\ Link(a3, a4) /\ Link(a4, a5)
    <2>1. Link(a1, a2)
      BY <1>2 DEF Link, Is
    <2>2. Link(a2, a3)
      BY <1>2 DEF Link, Is
    <2>3. Link(a3, a4)
      BY <1>2 DEF Link, Is
    <2>4. Link(a4, a5)
      BY <1>2 DEF Link, Is
    <2> QED
      BY <2>1, <2>2, <2>3, <2>4
  <1>7. /\ w \in Seq(Pieces) /\ Len(w) = 4 /\ w # << >> /\ Head(w) = a1
        /\ w[1] = a1 /\ w[2] = a2 /\ w[3] = a3 /\ w[4] = a4
    BY <1>3
  <1>8. r \in Seq(Pieces) /\ Len(r) <= 1 /\ Len(r) \in Nat
          /\ (r # << >> => Head(r) = a5 /\ r[1] = a5)
    BY <1>3
  <1> HIDE DEF w, r
  <1>9. Linked(w) /\ Linked(r)
    <2>1. \A i \in 1..3 : i = 1 \/ i = 2 \/ i = 3
      OBVIOUS
    <2>2. \A i \in 1..3 : Link(w[i], w[i + 1])
      BY <1>6, <1>7, <2>1
    <2>3. Linked(r)
      BY <1>8 DEF Linked
    <2> QED
      BY <1>7, <2>2, <2>3 DEF Linked
  <1> DEFINE x == w \o r
  <1>10. x \in Seq(Pieces) /\ Linked(x) /\ x # << >> /\ Head(x) = a1
    BY <1>6, <1>7, <1>8, <1>9, LinkedConcat
  <1>11. Carried(x)
    <2> SUFFICES ASSUME NEW i \in 1..Len(x), x[i].op = "insert"
                 PROVE  \E j \in 1..(i - 1) : x[j] = Do("open", x[i].to)
      BY DEF Carried
    <2>0. /\ Len(x) = Len(w) + Len(r)
          /\ \A j \in 1..Len(w) : x[j] = w[j]
          /\ \A j \in 1..Len(r) : x[Len(w) + j] = r[j]
      <3>1. w \in Seq(Pieces) /\ r \in Seq(Pieces)
        BY <1>7, <1>8
      <3> QED
        BY <3>1, ConcatProperties
    <2> HIDE DEF x
    <2>1. /\ Len(x) = 4 + Len(r)
          /\ \A j \in 1..4 : x[j] = w[j]
          /\ \A j \in 1..Len(r) : x[4 + j] = r[j]
      BY <1>7, <2>0
    <2>2. \A j \in 1..4 : w[j].op # "insert"
      <3>1. \A j \in 1..4 : j = 1 \/ j = 2 \/ j = 3 \/ j = 4
        OBVIOUS
      <3> QED
        BY <1>2, <1>7, <3>1 DEF Is
    <2>3. i = 5 /\ Len(r) = 1
      <3>1. i \notin 1..4
        BY <2>1, <2>2
      <3>2. Len(x) = 4 + Len(r) /\ Len(r) \in Nat /\ Len(r) <= 1
        BY <1>8, <2>1
      <3>3. \A n \in Nat : \A k \in 1..(4 + n) :
                n <= 1 /\ k \notin 1..4 => k = 5 /\ n = 1
        OBVIOUS
      <3> QED
        BY <3>1, <3>2, <3>3
    <2>4. x[5] = a5 /\ x[3] = a3
      <3>1. r # << >> /\ 1 \in 1..Len(r) /\ 3 \in 1..4 /\ 4 + 1 = 5
        BY <1>8, <2>3
      <3>2. x[4 + 1] = r[1] /\ x[3] = w[3]
        BY <2>1, <3>1
      <3> QED
        BY <1>7, <1>8, <3>1, <3>2
    <2>5. x[i].to = t
      BY <1>2, <2>3, <2>4 DEF Is
    <2>6. x[3] = Do("open", x[i].to) /\ 3 \in 1..(i - 1)
      BY <1>5, <2>3, <2>4, <2>5
    <2> QED
      BY <2>6
  <1>12. Pre(a1)
    <2>1. "pass" # NoFile
      BY AbsentIsNoStatus
    <2>2. StatusReady(a1) /\ NewReady(a1) /\ TradeReady(a1)
      BY <1>1, <1>2, <2>1 DEF StatusReady, NewReady, TradeReady, Is
    <2> QED
      BY <2>2 DEF Pre
  <1>13. todo' = [todo EXCEPT ![p] = x] /\ UNCHANGED <<files, rows>>
    BY <1>1, <1>4 DEF Start
  <1> HIDE DEF x
  <1> QED
    BY <1>10, <1>11, <1>12, <1>13, Replaced

LEMMA PaperCloseStep ==
    ASSUME OneCommand, IInv, NEW p \in Procs, PaperClose(p)
    PROVE  IInv'
  <1>1. PICK t \in Trades, db \in BOOLEAN :
            paper[t] = "open" /\ Start(p, CloseTrade(t, db))
    BY DEF PaperClose
  <1> DEFINE a == Do("closed", t)
             b == Do("settle", t)
             r == IF db THEN <<b>> ELSE << >>
  <1>2. a \in Pieces /\ b \in Pieces
    BY DEF Pieces, Steps, Do, Ops
  <1>3. Is(a, "closed", t) /\ Is(b, "settle", t)
    BY DEF Is, Do
  <1>4. CloseTrade(t, db) = <<a>> \o r
    BY DEF CloseTrade
  <1> HIDE DEF a, b
  <1>5. Link(a, b)
    BY <1>3 DEF Link, Is
  <1>6. Chain(r) /\ (r # << >> => Head(r) = b)
    BY <1>2, <1>3, Single, Nothing DEF Is
  <1>7. Chain(<<a>>) /\ <<a>> # << >> /\ Head(<<a>>) = a /\ <<a>>[Len(<<a>>)] = a
    BY <1>2, <1>3, Single DEF Is
  <1> HIDE DEF r
  <1>8. Chain(<<a>> \o r) /\ <<a>> \o r # << >> /\ Head(<<a>> \o r) = a
    BY <1>5, <1>6, <1>7, Joined
  <1>9. Pre(a)
    <2>1. review # NoFile /\ intent # NoFile
      BY <1>1 DEF IInv, PredecessorGates
    <2>2. StatusReady(a) /\ NewReady(a) /\ TradeReady(a)
      BY <1>3, <2>1 DEF StatusReady, NewReady, TradeReady, Is
    <2> QED
      BY <2>2 DEF Pre
  <1> QED
    BY <1>1, <1>4, <1>8, <1>9, StartChain

-----------------------------------------------------------------------------
(* The theorems.                                                           *)

LEMMA Starting == Init => IInv
  <1> SUFFICES ASSUME Init
               PROVE  IInv
    OBVIOUS
  <1>1. todo = [p \in Procs |-> << >>]
    BY DEF Init
  <1>2. Programs
    BY <1>1 DEF Programs, Linked, Carried
  <1>3. TypeOK
    <2>1. << >> \in Seq(Steps)
      OBVIOUS
    <2>2. todo \in [Procs -> Seq(Steps)]
      BY <1>1, <2>1
    <2>3. /\ paper \in [Trades -> {"none", "blank", "filled", "open", "closed"}]
          /\ trades \in [Trades -> {NoRow, "open", "closed"}]
      BY DEF Init
    <2>4. /\ intent \in Statuses \cup {NoFile} /\ thesis \in Statuses \cup {NoFile}
          /\ plan \in BOOLEAN /\ links \in BOOLEAN /\ linked \in BOOLEAN
          /\ review \in Verdicts \cup {"none", NoFile} /\ row \in Statuses \cup {NoRow}
      BY DEF Init, Statuses
    <2> QED
      BY <2>2, <2>3, <2>4 DEF TypeOK
  <1>4. PredecessorGates
    BY AbsentIsNoStatus DEF Init, PredecessorGates, Status
  <1>5. LedgerFollowsFiles /\ TradesMeanPaper
    BY AbsentIsNoStatus DEF Init, LedgerFollowsFiles, TradesMeanPaper
  <1> QED
    BY <1>2, <1>3, <1>4, <1>5 DEF IInv

LEMMA CommandKeeps ==
    ASSUME OneCommand, IInv, NEW p \in Procs, Command(p)
    PROVE  IInv'
  BY ThesisNewStep, LinkEvidenceStep, ThesisAdvanceStep, SkepticOpenStep, SkepticRecordStep,
     PaperOpenStep, PaperCloseStep DEF Command

LEMMA StepKeeps ==
    ASSUME OneCommand, IInv, NEW p \in Procs, Step(p)
    PROVE  IInv'
  BY GateStep, AdvanceUnlessStep, WriteThesisStep, WriteIntentStep, WritePlanStep,
     WriteLinksStep, NewReviewStep, WriteReviewStep, WritePaperStep, LockRowStep,
     UpsertThesisStep, InsertRowStep, SettleRowStep DEF Step

LEMMA StutterKeeps ==
    ASSUME IInv, UNCHANGED vars
    PROVE  IInv'
  <1>1. UNCHANGED <<files, rows>> /\ todo' = todo
    BY DEF vars
  <1>2. UNCHANGED <<intent, thesis, plan, links, review, paper>>
    BY <1>1 DEF files
  <1>3. todo' \in [Procs -> Seq(Steps)]
    BY <1>1 DEF IInv, TypeOK
  <1>4. ASSUME NEW a, Pre(a)
        PROVE  Pre(a)'
    <2>1. Status' = Status
      BY <1>2 DEF Status
    <2>2. CanMark(a.to) => CanMark(a.to)'
      BY <1>2, <2>1 DEF CanMark, PaperReady, PaperComplete
    <2>3. StatusReady(a)'
      BY <1>2, <1>4, <2>1, <2>2 DEF Pre, StatusReady
    <2>4. NewReady(a)' /\ TradeReady(a)'
      BY <1>2, <1>4 DEF Pre, NewReady, TradeReady
    <2> QED
      BY <2>3, <2>4 DEF Pre
  <1>5. Programs'
    <2> SUFFICES ASSUME NEW p \in Procs
                 PROVE  /\ todo'[p] \in Seq(Pieces)
                        /\ Linked(todo[p])'
                        /\ todo'[p] # << >> => Pre(Head(todo[p]))'
                        /\ Carried(todo[p])'
      BY DEF Programs
    <2>1. /\ todo[p] \in Seq(Pieces) /\ Linked(todo[p]) /\ Carried(todo[p])
          /\ todo[p] # << >> => Pre(Head(todo[p]))
      BY DEF IInv, Programs
    <2>2. Linked(todo[p])'
      BY <1>1, <2>1 DEF Linked
    <2>3. Carried(todo[p])'
      BY <1>1, <1>2, <2>1 DEF Carried
    <2>4. todo'[p] # << >> => Pre(Head(todo[p]))'
      BY <1>1, <1>4, <2>1
    <2> QED
      BY <1>1, <2>1, <2>2, <2>3, <2>4
  <1> QED
    BY <1>1, <1>3, <1>5, OnlyTodo

(* What the files, the rows and the program left to do say of each other,  *)
(* in every state that commands run one at a time can reach, a kill of any *)
(* of them between any two of its steps included.                          *)
THEOREM Invariance == OneCommand /\ Spec => []IInv
  <1> SUFFICES ASSUME OneCommand
               PROVE  Spec => []IInv
    OBVIOUS
  <1>1. IInv /\ [Next]_vars => IInv'
    <2> SUFFICES ASSUME IInv, [Next]_vars
                 PROVE  IInv'
      OBVIOUS
    <2>1. CASE UNCHANGED vars
      BY <2>1, StutterKeeps
    <2>2. CASE Next
      <3>1. PICK p \in Procs : Command(p) \/ Step(p) \/ Die(p)
        BY <2>2 DEF Next
      <3> QED
        BY <3>1, CommandKeeps, StepKeeps, DieStep
    <2> QED
      BY <2>1, <2>2
  <1> QED
    BY <1>1, Starting, PTL DEF Spec

(* Every file and every row holds what its writers put there: no status is *)
(* ever outside the six in use.                                            *)
THEOREM TypeCorrect == OneCommand /\ Spec => []TypeOK
  <1>1. IInv => TypeOK
    BY DEF IInv
  <1> QED
    BY <1>1, Invariance, PTL

(* However commands are cut short, a workspace has no artifact without its *)
(* predecessor and no skeptic or paper status without evidence, and the    *)
(* rows of Postgres never say more than its files.                         *)
THEOREM WorkspaceCorrect == OneCommand /\ Spec => []WorkspaceIsOrdered
  <1>1. IInv => WorkspaceIsOrdered
    BY DEF IInv, WorkspaceIsOrdered, IndexFollowsWorkspace, TradeRowsArePaper, TradesMeanPaper
  <1> QED
    BY <1>1, Invariance, PTL

(* thesis.md moves along the graph of its statuses, and into paper only    *)
(* while the recorded verdict is a pass, evidence is linked and a paper    *)
(* artifact is complete: never on a verdict read before and gone since.    *)
THEOREM StatusCorrect == OneCommand /\ Spec => StatusIsEarned
  <1> DEFINE Earned == thesis' = "paper" /\ thesis # "paper"
                           => review = "pass" /\ links /\ PaperComplete
             Along == thesis' # thesis =>
                           thesis = NoFile \/ <<thesis, thesis'>> \in Transitions
  <1>1. IInv /\ [Next]_vars => [Earned]_vars /\ [Along]_vars
    <2> SUFFICES ASSUME IInv, Next
                 PROVE  Earned /\ Along
      OBVIOUS
    <2>1. PICK p \in Procs : Command(p) \/ Step(p) \/ Die(p)
      BY DEF Next
    <2>2. CASE thesis' = thesis
      BY <2>2
    <2>3. CASE WriteThesis(p)
      <3> DEFINE a == Head(todo[p])
      <3>1. /\ todo[p] # << >> /\ a.op \in {"thesis", "mark thesis"}
            /\ thesis' = IF a.op = "mark thesis" /\ thesis = NoFile THEN NoFile ELSE a.to
        BY <2>3 DEF WriteThesis, At, To
      <3>2. a \in Pieces /\ StatusReady(a) /\ NewReady(a)
        BY <3>1, Running
      <3>3. CASE a.op = "thesis"
        <4>1. \/ a.to = "draft" /\ thesis = NoFile
              \/ a.to = "in_research" /\ thesis = "draft"
          BY <3>2, <3>3, PieceTyped DEF NewReady
        <4>2. thesis' = a.to
          BY <3>1, <3>3
        <4> QED
          BY <4>1, <4>2 DEF Transitions
      <3>4. CASE a.op = "mark thesis" /\ thesis # NoFile
        <4>1. CanMark(a.to) /\ thesis' = a.to /\ Status = thesis
          BY <3>1, <3>2, <3>4 DEF StatusReady, Status
        <4>2. Earned
          BY <4>1 DEF CanMark, PaperReady
        <4>3. Along
          BY <4>1 DEF CanMark
        <4> QED
          BY <4>2, <4>3
      <3>5. CASE a.op = "mark thesis" /\ thesis = NoFile
        BY <3>1, <3>5
      <3> QED
        BY <3>1, <3>3, <3>4, <3>5
    <2>4. WriteThesis(p) \/ thesis' = thesis
      BY <2>1 DEF Command, Step, Die, ThesisNew, LinkEvidence, ThesisAdvance, SkepticOpen,
           SkepticRecord, PaperOpen, PaperClose, Start, Gate, AdvanceUnless, WriteIntent,
           WritePlan, WriteLinks, NewReview, WriteReview, WritePaper, LockRow, UpsertThesis,
           InsertRow, SettleRow, files
    <2> QED
      BY <2>2, <2>3, <2>4
  <1> QED
    BY <1>1, Invariance, PTL DEF Spec, StatusIsEarned, PaperNeedsPass, ThesisFollowsGraph

-----------------------------------------------------------------------------
(* The playbook run (Playbook): the writer of a desk and its budget.       *)
(* What a run, a call and a refusal may be.                                *)
DeskRunRecords ==
    [pc : {"idle", "math", "edge", "brief", "state", "done"},
     ideas : Nat, noSetup : BOOLEAN, writer : BOOLEAN, mathLeft : Nat,
     status : {"OK", "DEGRADED", "FAILED"},
     error : {"none", "post_mortem_required", "trade_math_failed", "grounding_failed",
              "budget_exceeded", "llm_day_disabled", "schema_fail", "math_mismatch",
              "llm_on_no_setup"},
     gap : BOOLEAN, ops : {"none", "budget_exceeded", "llm_day_disabled"},
     edge : {"template", "prose"}, brief : {"template", "prose"}, permission : BOOLEAN]

DeskCalls == [art : {"EDGE_SCAN", "OFFICIAL_BRIEF"}, input : Nat, attempt : 1..(Retries + 1)]
DeskRows == [tokens : Nat, valid : BOOLEAN]
DeskBudgets == [usedRun : Nat, usedDay : Nat, disabled : BOOLEAN]
DeskResults == {"grounding_failed", "budget_exceeded", "llm_day_disabled", "schema_fail", "written"}

DeskTyped ==
    /\ flag \in BOOLEAN
    /\ budget \in DeskBudgets
    /\ ledger \in Seq(DeskRows)
    /\ asked \in Nat
    /\ desk \in DeskRunRecords
    /\ call \in DeskCalls \cup {L!NoCall}
    /\ deskRuns \in 0..MaxDeskRuns

(* f[i] is the sum of the tokens of the first i rows of s.                 *)
DeskSums(f, s) == f = [i \in 0..Len(s) |-> IF i = 0 THEN 0 ELSE f[i - 1] + s[i].tokens]

(* There are such sums, and all of them end in the run's tokens.           *)
DeskLedgerIsSummed ==
    /\ \E f : DeskSums(f, ledger)
    /\ \A f : DeskSums(f, ledger) => f[Len(ledger)] = budget.usedRun
    /\ budget.usedRun = budget.usedDay

(* A call is under way only for an artifact of a run with a setup, in a    *)
(* process that may ask.                                                   *)
DeskCallIsAllowed ==
    call # L!NoCall => desk.pc \in {"edge", "brief"} /\ ~desk.noSetup /\ ~budget.disabled

DeskAttempts == IF call = L!NoCall THEN 0 ELSE call.attempt

DeskAskedSoFar ==
    /\ desk.pc \in {"idle", "math"} => asked = 0
    /\ desk.pc = "edge" => asked = DeskAttempts
    /\ desk.pc = "brief" => asked <= 1 + Retries + DeskAttempts
    /\ asked <= 2 * (1 + Retries)

DeskPermissionIsLast == desk.permission => desk.pc = "done"

DeskIInv ==
    /\ DeskTyped /\ DeskLedgerIsSummed /\ DeskCallIsAllowed /\ DeskAskedSoFar
       /\ DeskPermissionIsLast
    /\ L!NoSetupMeansSilence /\ L!NotOkIsExplained

(* One more entry adds its tokens to the sum, whatever came before.          *)
LEMMA DeskSumOfAppend ==
    ASSUME NEW s \in Seq(DeskRows), NEW entry \in DeskRows, NEW n \in Nat,
           \E f : DeskSums(f, s), \A f : DeskSums(f, s) => f[Len(s)] = n
    PROVE  /\ \E f : DeskSums(f, Append(s, entry))
           /\ \A f : DeskSums(f, Append(s, entry)) => f[Len(Append(s, entry))] = n + entry.tokens
<1> DEFINE t == Append(s, entry)
<1>1. /\ Len(t) = Len(s) + 1 /\ Len(s) \in Nat
      /\ \A i \in 1..Len(s) : t[i] = s[i]
      /\ t[Len(s) + 1] = entry
  OBVIOUS
<1> HIDE DEF t
<1>2. \E f : DeskSums(f, t)
  <2>1. PICK f : DeskSums(f, s)
    OBVIOUS
  <2> DEFINE g == [i \in 0..Len(t) |-> IF i = Len(t) THEN n + entry.tokens ELSE f[i]]
  <2>2. f[Len(s)] = n
    BY <2>1
  <2>3. \A i \in 0..Len(s) : f[i] = IF i = 0 THEN 0 ELSE f[i - 1] + s[i].tokens
    BY <2>1 DEF DeskSums
  <2>4. ASSUME NEW i \in 0..Len(t)
        PROVE  g[i] = IF i = 0 THEN 0 ELSE g[i - 1] + t[i].tokens
    <3>1. CASE i = Len(t)
      <4>1. g[i] = n + entry.tokens /\ g[i - 1] = f[Len(s)] /\ t[i] = entry /\ i # 0
        BY <3>1, <1>1
      <4> QED
        BY <4>1, <2>2
    <3>2. CASE i # Len(t) /\ i # 0
      <4>1. i \in 1..Len(s) /\ i - 1 \in 0..Len(t) /\ i - 1 # Len(t)
        BY <3>2, <1>1
      <4>2. g[i] = f[i] /\ g[i - 1] = f[i - 1] /\ t[i] = s[i]
        BY <3>2, <4>1, <1>1
      <4> QED
        BY <4>1, <4>2, <2>3, <3>2
    <3>3. CASE i # Len(t) /\ i = 0
      BY <3>3, <1>1, <2>3
    <3> QED
      BY <3>1, <3>2, <3>3
  <2>5. g = [i \in 0..Len(t) |-> g[i]]
    OBVIOUS
  <2> HIDE DEF g
  <2>6. [i \in 0..Len(t) |-> g[i]] = [i \in 0..Len(t) |-> IF i = 0 THEN 0
          ELSE g[i - 1] + t[i].tokens]
    BY <2>4
  <2>7. DeskSums(g, t)
    BY <2>5, <2>6 DEF DeskSums
  <2> QED
    BY <2>7
<1>3. ASSUME NEW f, DeskSums(f, t) PROVE f[Len(t)] = n + entry.tokens
  <2> DEFINE g == [i \in 0..Len(s) |-> f[i]]
  <2>1. \A i \in 0..Len(t) : f[i] = IF i = 0 THEN 0 ELSE f[i - 1] + t[i].tokens
    BY <1>3 DEF DeskSums
  <2>2. ASSUME NEW i \in 0..Len(s)
        PROVE  g[i] = IF i = 0 THEN 0 ELSE g[i - 1] + s[i].tokens
    <3>1. CASE i = 0
      BY <3>1, <2>1, <1>1
    <3>2. CASE i # 0
      <4>1. i \in 1..Len(s) /\ i - 1 \in 0..Len(s) /\ i \in 0..Len(t)
        BY <3>2, <1>1
      <4>2. g[i] = f[i] /\ g[i - 1] = f[i - 1] /\ t[i] = s[i]
        BY <4>1, <1>1
      <4> QED
        BY <4>1, <4>2, <2>1, <3>2
    <3> QED
      BY <3>1, <3>2
  <2>3. g = [i \in 0..Len(s) |-> g[i]] /\ g[Len(s)] = f[Len(s)]
    BY <1>1
  <2> HIDE DEF g
  <2>4. [i \in 0..Len(s) |-> g[i]] = [i \in 0..Len(s) |-> IF i = 0 THEN 0
          ELSE g[i - 1] + s[i].tokens]
    BY <2>2
  <2>5. DeskSums(g, s)
    BY <2>3, <2>4 DEF DeskSums
  <2>6. f[Len(s)] = n
    BY <2>5, <2>3
  <2>7. Len(t) \in 0..Len(t) /\ Len(t) # 0 /\ Len(t) - 1 = Len(s) /\ t[Len(t)] = entry
    BY <1>1
  <2> QED
    BY <2>1, <2>6, <2>7
<1> QED
  BY <1>2, <1>3 DEF t

LEMMA DeskSumOfNothing ==
    /\ \E f : DeskSums(f, << >>)
    /\ \A f : DeskSums(f, << >>) => f[Len(<< >>)] = 0
<1> DEFINE g == [i \in 0..0 |-> 0]
<1>1. g = [i \in 0..Len(<< >>) |-> IF i = 0 THEN 0 ELSE g[i - 1] + (<< >>)[i].tokens]
  OBVIOUS
<1>2. DeskSums(g, << >>)
  BY <1>1 DEF DeskSums
<1>3. ASSUME NEW f, DeskSums(f, << >>) PROVE f[Len(<< >>)] = 0
  BY <1>3 DEF DeskSums
<1> QED
  BY <1>2, <1>3

(* The model's recursive sum is one of the sums.                           *)
LEMMA DeskSumIsBudget == DeskLedgerIsSummed => L!SumOf(ledger) = budget.usedRun
<1> SUFFICES ASSUME DeskLedgerIsSummed PROVE L!SumOf(ledger) = budget.usedRun
  OBVIOUS
<1> DEFINE h == CHOOSE f : DeskSums(f, ledger)
<1>1. DeskSums(h, ledger)
  BY DEF DeskLedgerIsSummed
<1>2. L!SumOf(ledger) = h[Len(ledger)]
  BY DEF L!SumOf, DeskSums
<1> HIDE DEF h
<1> QED
  BY <1>1, <1>2 DEF DeskLedgerIsSummed

LEMMA DeskInitIInv == L!Init => DeskIInv
<1> SUFFICES ASSUME L!Init PROVE DeskIInv
  OBVIOUS
<1>1. DeskTyped
  <2>1. flag \in BOOLEAN /\ budget \in DeskBudgets
    BY DEF L!Init, L!Fresh, DeskBudgets
  <2>2. desk \in DeskRunRecords
    BY DEF L!Init, L!Idle, DeskRunRecords
  <2> QED
    BY <2>1, <2>2, PlaybookAssumption DEF L!Init, DeskTyped
<1>2. DeskLedgerIsSummed
  BY DeskSumOfNothing DEF L!Init, L!Fresh, DeskLedgerIsSummed
<1>3. DeskCallIsAllowed /\ DeskAskedSoFar /\ DeskPermissionIsLast /\ L!NoSetupMeansSilence
        /\ L!NotOkIsExplained
  BY PlaybookAssumption DEF L!Init, L!Idle, DeskCallIsAllowed, DeskAskedSoFar, DeskAttempts,
     DeskPermissionIsLast, L!NoSetupMeansSilence,
     L!NotOkIsExplained
<1> QED
  BY <1>1, <1>2, <1>3 DEF DeskIInv

(* The gates leave a run that is at its math, without permission, and      *)
(* whose failure is explained.                                             *)
LEMMA DeskGatedIs ==
    ASSUME NEW n \in IdeaCounts, NEW ok \in OkFeeds, NEW mortem \in BOOLEAN, NEW writer \in BOOLEAN
    PROVE  LET g == [L!Gated(n, ok, mortem, writer) EXCEPT !.mathLeft = L!Gated(n, ok, mortem,
             writer).ideas]
           IN  /\ g \in DeskRunRecords
               /\ g.pc = "math" /\ ~g.permission
               /\ g.status # "OK" => g.error # "none" \/ g.gap
               /\ g.ops = "none"
<1>1. n \in Nat /\ L!Least(n, MaxShown) \in Nat
  BY PlaybookAssumption DEF L!Least
<1> DEFINE base == [L!Idle EXCEPT !.pc = "math", !.ideas = L!Least(n, MaxShown),
  !.noSetup = (n = 0),
                                  !.writer = writer]
<1>2. /\ base \in DeskRunRecords
      /\ base.pc = "math" /\ ~base.permission /\ base.status = "OK" /\ base.ops = "none"
  BY <1>1 DEF L!Idle, DeskRunRecords
<1> HIDE DEF base
<1>3. L!Gated(n, ok, mortem, writer) \in
         {base,
          [base EXCEPT !.ideas = 0, !.noSetup = TRUE, !.status = "FAILED",
            !.error = "post_mortem_required"],
          [base EXCEPT !.ideas = 0, !.noSetup = TRUE, !.status = "DEGRADED", !.gap = TRUE]}
  BY DEF L!Gated, base
<1> DEFINE g == L!Gated(n, ok, mortem, writer)
<1> HIDE DEF g
<1>4. /\ g \in DeskRunRecords /\ g.pc = "math" /\ ~g.permission /\ g.ops = "none"
      /\ g.status # "OK" => g.error # "none" \/ g.gap
  <2>1. CASE g = base
    BY <2>1, <1>2
  <2>2. CASE g = [base EXCEPT !.ideas = 0, !.noSetup = TRUE, !.status = "FAILED",
                              !.error = "post_mortem_required"]
    BY <2>2, <1>2 DEF DeskRunRecords
  <2>3. CASE g = [base EXCEPT !.ideas = 0, !.noSetup = TRUE, !.status = "DEGRADED", !.gap = TRUE]
    <3>1. g \in DeskRunRecords
      BY <2>3, <1>2 DEF DeskRunRecords
    <3>2. g.gap = TRUE /\ g.pc = base.pc /\ g.permission = base.permission /\ g.ops = base.ops
      BY <2>3, <1>2 DEF DeskRunRecords
    <3> QED
      BY <3>1, <3>2, <1>2
  <2> QED
    BY <1>3, <2>1, <2>2, <2>3 DEF g
<1> DEFINE h == [g EXCEPT !.mathLeft = g.ideas]
<1>5. /\ h \in DeskRunRecords /\ h.pc = g.pc /\ h.permission = g.permission /\ h.ops = g.ops
      /\ h.status = g.status /\ h.error = g.error /\ h.gap = g.gap
  BY <1>4 DEF DeskRunRecords
<1> QED
  BY <1>4, <1>5 DEF g

LEMMA DeskStartStep ==
    ASSUME DeskIInv, NEW n \in IdeaCounts, NEW ok \in OkFeeds, NEW mortem \in BOOLEAN,
           NEW writer \in BOOLEAN, NEW same \in BOOLEAN, L!StartRun(n, ok, mortem, writer, same)
    PROVE  DeskIInv'
<1> USE DEF DeskIInv
<1>1. /\ desk' \in DeskRunRecords
      /\ desk'.pc = "math" /\ ~desk'.permission
      /\ desk'.status # "OK" => desk'.error # "none" \/ desk'.gap
      /\ desk'.ops = "none"
  BY DeskGatedIs DEF L!StartRun
<1>2. asked' = 0 /\ deskRuns' = deskRuns + 1 /\ deskRuns < MaxDeskRuns /\ UNCHANGED <<flag, call>>
        /\ desk.pc \in {"idle", "done"}
  BY DEF L!StartRun
<1>3. call = L!NoCall
  BY <1>2 DEF DeskCallIsAllowed
<1>4. budget' \in DeskBudgets /\ ledger' \in Seq(DeskRows) /\ DeskLedgerIsSummed'
  <2>1. CASE same
    BY <2>1 DEF L!StartRun, DeskTyped, DeskLedgerIsSummed
  <2>2. CASE ~same
    <3>1. budget' = [L!Fresh EXCEPT !.disabled = flag] /\ ledger' = << >>
      BY <2>2 DEF L!StartRun
    <3>2. budget' \in DeskBudgets /\ budget'.usedRun = 0 /\ budget'.usedDay = 0
      BY <3>1 DEF L!Fresh, DeskBudgets, DeskTyped
    <3> QED
      BY <3>1, <3>2, DeskSumOfNothing DEF DeskLedgerIsSummed
  <2> QED
    BY <2>1, <2>2
<1>5. DeskTyped'
  BY <1>1, <1>2, <1>4, PlaybookAssumption DEF DeskTyped
<1>6. DeskAskedSoFar' /\ DeskCallIsAllowed'
  BY <1>1, <1>2, <1>3, PlaybookAssumption DEF DeskAskedSoFar, DeskCallIsAllowed, DeskAttempts
<1>7. DeskPermissionIsLast' /\ L!NoSetupMeansSilence' /\ L!NotOkIsExplained'
  BY <1>1, <1>2 DEF DeskPermissionIsLast, L!NoSetupMeansSilence, L!NotOkIsExplained
<1> QED
  BY <1>4, <1>5, <1>6, <1>7

LEMMA DeskMathStep ==
    ASSUME DeskIInv, L!Math \/ L!MathDone
    PROVE  DeskIInv'
<1> USE DEF DeskIInv
<1>1. desk.pc = "math" /\ UNCHANGED <<flag, budget, ledger, asked, call, deskRuns>>
  BY DEF L!Math, L!MathDone
<1>2. asked = 0 /\ ~desk.permission /\ call = L!NoCall
  BY <1>1 DEF DeskAskedSoFar, DeskPermissionIsLast, DeskCallIsAllowed
<1>3. \/ desk.mathLeft > 0 /\ desk' = [desk EXCEPT !.mathLeft = desk.mathLeft - 1]
      \/ desk' = [desk EXCEPT !.mathLeft = 0, !.status = "FAILED", !.error = "trade_math_failed",
                              !.noSetup = TRUE, !.ideas = 0]
      \/ desk' = [desk EXCEPT !.pc = "edge"]
  BY DEF L!Math, L!MathDone
<1>4. /\ desk' \in DeskRunRecords /\ desk'.pc \in {"math", "edge"} /\ ~desk'.permission
      /\ desk'.status # "OK" => desk'.error # "none" \/ desk'.gap
      /\ desk'.ops # "none" => desk'.status # "OK"
  <2>1. /\ desk \in DeskRunRecords
        /\ desk.status # "OK" => desk.error # "none" \/ desk.gap
        /\ desk.ops # "none" => desk.status # "OK"
    BY DEF DeskTyped, L!NotOkIsExplained
  <2>2. CASE desk.mathLeft > 0 /\ desk' = [desk EXCEPT !.mathLeft = desk.mathLeft - 1]
    BY <1>1, <1>2, <2>1, <2>2 DEF DeskRunRecords
  <2>3. CASE desk' = [desk EXCEPT !.mathLeft = 0, !.status = "FAILED",
               !.error = "trade_math_failed",
                                  !.noSetup = TRUE, !.ideas = 0]
    BY <1>1, <1>2, <2>1, <2>3 DEF DeskRunRecords
  <2>4. CASE desk' = [desk EXCEPT !.pc = "edge"]
    BY <1>1, <1>2, <2>1, <2>4 DEF DeskRunRecords
  <2> QED
    BY <1>3, <2>2, <2>3, <2>4
<1>5. DeskTyped' /\ DeskLedgerIsSummed'
  BY <1>1, <1>4 DEF DeskTyped, DeskLedgerIsSummed
<1>6. DeskCallIsAllowed' /\ DeskAskedSoFar' /\ DeskPermissionIsLast' /\ L!NoSetupMeansSilence'
        /\ L!NotOkIsExplained'
  BY <1>1, <1>2, <1>4 DEF DeskCallIsAllowed, DeskAskedSoFar, DeskAttempts, DeskPermissionIsLast,
     L!NoSetupMeansSilence,
     L!NotOkIsExplained
<1> QED
  BY <1>5, <1>6

LEMMA DeskTemplateStep ==
    ASSUME DeskIInv, L!Template
    PROVE  DeskIInv'
<1> USE DEF DeskIInv
<1>1. /\ desk.pc \in {"edge", "brief"} /\ call = L!NoCall
      /\ desk' = [desk EXCEPT !.pc = L!After(desk.pc)]
      /\ UNCHANGED <<flag, budget, ledger, asked, call, deskRuns>>
  BY DEF L!Template
<1>2. /\ desk' \in DeskRunRecords
      /\ desk.pc = "edge" => desk'.pc = "brief"
      /\ desk.pc = "brief" => desk'.pc = "state"
      /\ desk'.noSetup = desk.noSetup /\ desk'.permission = desk.permission /\ desk'.ops = desk.ops
      /\ desk'.status = desk.status /\ desk'.error = desk.error /\ desk'.gap = desk.gap
  BY <1>1 DEF DeskTyped, DeskRunRecords, L!After
<1>3. DeskTyped' /\ DeskLedgerIsSummed' /\ DeskCallIsAllowed'
  BY <1>1, <1>2 DEF DeskTyped, DeskLedgerIsSummed, DeskCallIsAllowed
<1>4. DeskAskedSoFar'
  BY <1>1, <1>2, PlaybookAssumption DEF DeskAskedSoFar, DeskAttempts, DeskTyped
<1>5. DeskPermissionIsLast' /\ L!NoSetupMeansSilence' /\ L!NotOkIsExplained'
  BY <1>1, <1>2 DEF DeskPermissionIsLast, L!NoSetupMeansSilence, L!NotOkIsExplained
<1> QED
  BY <1>3, <1>4, <1>5

LEMMA DeskAskStep ==
    ASSUME DeskIInv, NEW input \in Inputs, L!Ask(input)
    PROVE  DeskIInv'
<1> USE DEF DeskIInv
<1>1. /\ desk.pc \in {"edge", "brief"} /\ call = L!NoCall
      /\ ~desk.noSetup /\ ~budget.disabled
      /\ call' = [art |-> L!ArtOf(desk.pc), input |-> input, attempt |-> 1]
      /\ asked' = asked + 1
      /\ UNCHANGED <<flag, budget, ledger, desk, deskRuns>>
  BY DEF L!Ask, L!WantsWriter, L!AllowCall
<1>2. call' \in DeskCalls /\ call' # L!NoCall /\ call'.attempt = 1
  BY <1>1, PlaybookAssumption DEF L!ArtOf, DeskCalls, L!NoCall
<1>3. DeskTyped' /\ DeskLedgerIsSummed' /\ DeskCallIsAllowed'
  BY <1>1, <1>2 DEF DeskTyped, DeskLedgerIsSummed, DeskCallIsAllowed
<1>4. DeskAskedSoFar'
  BY <1>1, <1>2, PlaybookAssumption DEF DeskAskedSoFar, DeskAttempts, DeskTyped
<1>5. DeskPermissionIsLast' /\ L!NoSetupMeansSilence' /\ L!NotOkIsExplained'
  BY <1>1 DEF DeskPermissionIsLast, L!NoSetupMeansSilence, L!NotOkIsExplained
<1> QED
  BY <1>3, <1>4, <1>5

LEMMA DeskRetryStep ==
    ASSUME DeskIInv, L!SchemaRetry
    PROVE  DeskIInv'
<1> USE DEF DeskIInv
<1>1. /\ call # L!NoCall /\ call.attempt <= Retries
      /\ call' = [call EXCEPT !.attempt = call.attempt + 1]
      /\ asked' = asked + 1
      /\ UNCHANGED <<flag, budget, ledger, desk, deskRuns>>
  BY DEF L!SchemaRetry
<1>2. call \in DeskCalls
  BY <1>1 DEF DeskTyped
<1>3. call' \in DeskCalls /\ call' # L!NoCall /\ call'.attempt = call.attempt + 1
  BY <1>1, <1>2, PlaybookAssumption DEF DeskCalls, L!NoCall
<1>4. DeskTyped' /\ DeskLedgerIsSummed' /\ DeskCallIsAllowed'
  BY <1>1, <1>3 DEF DeskTyped, DeskLedgerIsSummed, DeskCallIsAllowed
<1>5. DeskAskedSoFar'
  <2>1. call.attempt \in Nat /\ desk.pc \in {"edge", "brief"}
    BY <1>1, <1>2, PlaybookAssumption DEF DeskCalls, DeskCallIsAllowed
  <2>2. asked \in Nat /\ DeskAttempts = call.attempt /\ DeskAttempts' = call.attempt + 1
    BY <1>1, <1>3 DEF DeskAttempts, DeskTyped
  <2>3. CASE desk.pc = "edge"
    <3>1. asked = call.attempt /\ desk'.pc = "edge" /\ asked' = DeskAttempts'
      BY <1>1, <2>2, <2>3 DEF DeskAskedSoFar
    <3> QED
      BY <1>1, <2>1, <2>2, <3>1, PlaybookAssumption DEF DeskAskedSoFar
  <2>4. CASE desk.pc = "brief"
    <3>1. asked <= 1 + Retries + call.attempt /\ desk'.pc = "brief"
      BY <1>1, <2>2, <2>4 DEF DeskAskedSoFar
    <3>2. asked' <= 1 + Retries + DeskAttempts' /\ asked' <= 2 * (1 + Retries)
      BY <1>1, <2>1, <2>2, <3>1, PlaybookAssumption
    <3> QED
      BY <3>1, <3>2 DEF DeskAskedSoFar
  <2> QED
    BY <2>1, <2>3, <2>4
<1>6. DeskPermissionIsLast' /\ L!NoSetupMeansSilence' /\ L!NotOkIsExplained'
  BY <1>1 DEF DeskPermissionIsLast, L!NoSetupMeansSilence, L!NotOkIsExplained, DeskCallIsAllowed
<1> QED
  BY <1>4, <1>5, <1>6

(* What a result makes of the run.                                         *)
LEMMA DeskReturnIs ==
    ASSUME DeskIInv, desk.pc \in {"edge", "brief"}, NEW result \in DeskResults, L!Return(result)
    PROVE  /\ desk' \in DeskRunRecords
           /\ desk.pc = "edge" => desk'.pc = "brief"
           /\ desk.pc = "brief" => desk'.pc = "state"
           /\ desk'.noSetup = desk.noSetup /\ ~desk'.permission
           /\ desk'.status # "OK" => desk'.error # "none" \/ desk'.gap
           /\ desk'.ops # "none" => desk'.status # "OK"
           /\ call' = L!NoCall /\ flag' \in BOOLEAN
<1> DEFINE r == L!Applied(desk, result)
<1>1. /\ r \in DeskRunRecords /\ r.pc = desk.pc
      /\ r.noSetup = desk.noSetup /\ r.permission = desk.permission
      /\ r.status # "OK" => r.error # "none" \/ r.gap
      /\ r.ops # "none" => r.status # "OK"
  <2>1. /\ desk \in DeskRunRecords
        /\ desk.status # "OK" => desk.error # "none" \/ desk.gap
        /\ desk.ops # "none" => desk.status # "OK"
    BY DEF DeskIInv, DeskTyped, L!NotOkIsExplained
  <2>2. CASE result = "grounding_failed"
    BY <2>1, <2>2 DEF L!Applied, DeskRunRecords
  <2>3. CASE result \in {"budget_exceeded", "llm_day_disabled"}
    <3>1. r = [desk EXCEPT !.status = "DEGRADED", !.error = result, !.ops = result]
      BY <2>3 DEF L!Applied
    <3> QED
      BY <2>1, <2>3, <3>1 DEF DeskRunRecords
  <2>4. CASE result = "schema_fail"
    <3>1. r = [desk EXCEPT !.status = IF desk.status = "OK" THEN "DEGRADED" ELSE desk.status,
                           !.error = IF desk.error = "none" THEN "schema_fail" ELSE desk.error]
      BY <2>4 DEF L!Applied
    <3> QED
      BY <2>1, <3>1 DEF DeskRunRecords
  <2>5. CASE result = "written"
    BY <2>1, <2>5 DEF L!Applied, DeskRunRecords
  <2> QED
    BY <2>2, <2>3, <2>4, <2>5 DEF DeskResults
<1>2. desk' = [r EXCEPT !.pc = L!After(r.pc)] /\ call' = L!NoCall
        /\ flag' = (flag \/ result = "llm_day_disabled")
  BY DEF L!Return
<1>3. ~desk.permission
  BY DEF DeskIInv, DeskPermissionIsLast
<1>4. flag' \in BOOLEAN
  BY <1>2, Zenon
<1> HIDE DEF r
<1> QED
  BY <1>1, <1>2, <1>3, <1>4 DEF DeskRunRecords, L!After

(* A complete() that returns leaves the invariant, whatever it booked.     *)
LEMMA DeskReturnStep ==
    ASSUME DeskIInv, desk.pc \in {"edge", "brief"}, NEW result \in DeskResults, L!Return(result),
           UNCHANGED <<asked, deskRuns>>, budget' \in DeskBudgets, ledger' \in Seq(DeskRows),
                       DeskLedgerIsSummed'
    PROVE  DeskIInv'
<1> USE DEF DeskIInv
<1>1. /\ desk' \in DeskRunRecords
      /\ desk.pc = "edge" => desk'.pc = "brief"
      /\ desk.pc = "brief" => desk'.pc = "state"
      /\ desk'.noSetup = desk.noSetup /\ ~desk'.permission
      /\ desk'.status # "OK" => desk'.error # "none" \/ desk'.gap
      /\ desk'.ops # "none" => desk'.status # "OK"
      /\ call' = L!NoCall /\ flag' \in BOOLEAN
  BY DeskReturnIs
<1>2. DeskTyped'
  BY <1>1 DEF DeskTyped
<1>3. DeskCallIsAllowed' /\ DeskPermissionIsLast' /\ L!NoSetupMeansSilence' /\ L!NotOkIsExplained'
  BY <1>1 DEF DeskCallIsAllowed, DeskPermissionIsLast, L!NoSetupMeansSilence, L!NotOkIsExplained
<1>4. DeskAskedSoFar'
  <2>1. DeskAttempts \in 0..(Retries + 1) /\ DeskAttempts' = 0
    BY <1>1, PlaybookAssumption DEF DeskAttempts, DeskTyped, DeskCalls
  <2> QED
    BY <1>1, <2>1, PlaybookAssumption DEF DeskAskedSoFar, DeskTyped
<1> QED
  BY <1>2, <1>3, <1>4

LEMMA DeskBookIs ==
    ASSUME DeskIInv, NEW tokens \in Nat, NEW valid \in BOOLEAN, L!Book(tokens, valid)
    PROVE  budget' \in DeskBudgets /\ ledger' \in Seq(DeskRows) /\ DeskLedgerIsSummed'
<1>1. budget \in DeskBudgets /\ ledger \in Seq(DeskRows)
  BY DEF DeskIInv, DeskTyped
<1> DEFINE entry == [tokens |-> tokens, valid |-> valid]
<1>2. entry \in DeskRows /\ entry.tokens = tokens
  BY DEF DeskRows
<1>3. ledger' = Append(ledger, entry)
  BY DEF L!Book
<1>4. /\ budget' \in DeskBudgets
      /\ budget'.usedRun = budget.usedRun + tokens
      /\ budget'.usedDay = budget.usedDay + tokens
  BY <1>1 DEF L!Book, L!Charged, DeskBudgets
<1> HIDE DEF entry
<1>5. budget.usedRun \in Nat
  BY <1>1 DEF DeskBudgets
<1>6. /\ \E f : DeskSums(f, ledger')
      /\ \A f : DeskSums(f, ledger') => f[Len(ledger')] = budget.usedRun + tokens
  BY <1>1, <1>2, <1>3, <1>5, DeskSumOfAppend DEF DeskIInv, DeskLedgerIsSummed
<1> QED
  BY <1>1, <1>2, <1>3, <1>4, <1>6 DEF DeskIInv, DeskLedgerIsSummed

LEMMA DeskRefusedStep ==
    ASSUME DeskIInv, NEW input \in Inputs, L!Refused(input)
    PROVE  DeskIInv'
<1> DEFINE entry == [tokens |-> 0, valid |-> FALSE]
           result == L!AllowCall(budget, input)
<1>1. desk.pc \in {"edge", "brief"} /\ L!Return(result) /\ ledger' = Append(ledger, entry)
      /\ UNCHANGED <<budget, asked, deskRuns>>
  BY DEF L!Refused
<1>2. result \in DeskResults
  BY DEF L!Refused, L!AllowCall, DeskResults
<1>3. entry \in DeskRows /\ entry.tokens = 0
  BY DEF DeskRows
<1>4. budget \in DeskBudgets /\ ledger \in Seq(DeskRows) /\ budget.usedRun \in Nat
  BY DEF DeskIInv, DeskTyped, DeskBudgets
<1> HIDE DEF entry, result
<1>5. /\ \E f : DeskSums(f, ledger')
      /\ \A f : DeskSums(f, ledger') => f[Len(ledger')] = budget.usedRun + 0
  BY <1>1, <1>3, <1>4, DeskSumOfAppend DEF DeskIInv, DeskLedgerIsSummed
<1>6. DeskLedgerIsSummed' /\ ledger' \in Seq(DeskRows)
  BY <1>1, <1>3, <1>4, <1>5 DEF DeskIInv, DeskLedgerIsSummed
<1> QED
  BY <1>1, <1>2, <1>4, <1>6, DeskReturnStep

LEMMA DeskAnsweredStep ==
    ASSUME DeskIInv, NEW output \in Outputs, NEW grounded \in BOOLEAN, L!Answered(output, grounded)
    PROVE  DeskIInv'
<1>1. call \in DeskCalls /\ desk.pc \in {"edge", "brief"}
  BY DEF DeskIInv, DeskTyped, L!Answered, DeskCallIsAllowed
<1>2. call.input + output \in Nat
  BY <1>1, PlaybookAssumption DEF DeskCalls
<1>3. L!Book(call.input + output, TRUE) /\ UNCHANGED <<asked, deskRuns>>
  BY DEF L!Answered
<1>4. budget' \in DeskBudgets /\ ledger' \in Seq(DeskRows) /\ DeskLedgerIsSummed'
  BY <1>2, <1>3, DeskBookIs
<1>5. \E result \in DeskResults : L!Return(result)
  BY DEF L!Answered, DeskResults
<1> QED
  BY <1>1, <1>3, <1>4, <1>5, DeskReturnStep

LEMMA DeskSchemaFailsStep ==
    ASSUME DeskIInv, L!SchemaFails
    PROVE  DeskIInv'
<1>1. call \in DeskCalls /\ desk.pc \in {"edge", "brief"}
  BY DEF DeskIInv, DeskTyped, L!SchemaFails, DeskCallIsAllowed
<1>2. call.input + 1 \in Nat
  BY <1>1 DEF DeskCalls
<1>3. L!Book(call.input + 1, FALSE) /\ UNCHANGED <<asked, deskRuns>> /\ L!Return("schema_fail")
  BY DEF L!SchemaFails
<1>4. budget' \in DeskBudgets /\ ledger' \in Seq(DeskRows) /\ DeskLedgerIsSummed'
  BY <1>2, <1>3, DeskBookIs
<1>5. "schema_fail" \in DeskResults
  BY DEF DeskResults
<1> QED
  BY <1>1, <1>3, <1>4, <1>5, DeskReturnStep

LEMMA DeskCloseStep ==
    ASSUME DeskIInv, NEW permitted \in BOOLEAN, NEW mismatch \in BOOLEAN,
      L!Close(permitted, mismatch)
    PROVE  DeskIInv'
<1> USE DEF DeskIInv
<1> DEFINE granted == permitted /\ ~desk.noSetup /\ desk.ideas > 0
           r == [desk EXCEPT !.pc = "done", !.permission = granted]
<1>1. granted \in BOOLEAN /\ (granted => ~desk.noSetup)
  OBVIOUS
<1> HIDE DEF granted
<1>2. /\ r \in DeskRunRecords /\ r.pc = "done" /\ r.noSetup = desk.noSetup
      /\ r.permission = granted /\ r.status = desk.status /\ r.error = desk.error
         /\ r.gap = desk.gap
      /\ r.ops = desk.ops
  BY <1>1 DEF DeskTyped, DeskRunRecords
<1>3. desk.pc = "state" /\ UNCHANGED <<flag, budget, ledger, asked, call, deskRuns>>
  BY DEF L!Close
<1>4. \/ desk' = r
      \/ desk' = [r EXCEPT !.status = "FAILED", !.error = "math_mismatch"]
      \/ desk' = [r EXCEPT !.status = "FAILED", !.error = "llm_on_no_setup"]
      \/ desk' = [[r EXCEPT !.status = "FAILED", !.error = "math_mismatch"]
                     EXCEPT !.status = "FAILED", !.error = "llm_on_no_setup"]
  BY DEF L!Close, granted
<1> HIDE DEF r
<1>5. /\ desk' \in DeskRunRecords /\ desk'.pc = "done" /\ desk'.noSetup = desk.noSetup
      /\ desk'.permission = granted /\ desk'.ops = desk.ops
      /\ \/ desk'.status = desk.status /\ desk'.error = desk.error /\ desk'.gap = desk.gap
         \/ desk'.status = "FAILED" /\ desk'.error # "none"
  BY <1>2, <1>4 DEF DeskRunRecords
<1>6. DeskTyped' /\ DeskLedgerIsSummed'
  BY <1>3, <1>5 DEF DeskTyped, DeskLedgerIsSummed
<1>7. DeskCallIsAllowed' /\ DeskAskedSoFar' /\ DeskPermissionIsLast'
  BY <1>3, <1>5 DEF DeskCallIsAllowed, DeskAskedSoFar, DeskAttempts, DeskPermissionIsLast
<1>8. L!NoSetupMeansSilence'
  BY <1>1, <1>3, <1>5 DEF L!NoSetupMeansSilence
<1>9. L!NotOkIsExplained'
  BY <1>3, <1>5 DEF L!NotOkIsExplained
<1> QED
  BY <1>6, <1>7, <1>8, <1>9

LEMMA DeskResetStep ==
    ASSUME DeskIInv, L!Reset
    PROVE  DeskIInv'
  BY DEF L!Reset, DeskIInv, DeskTyped, DeskLedgerIsSummed, DeskCallIsAllowed, DeskAskedSoFar,
     DeskAttempts, DeskPermissionIsLast,
     L!NoSetupMeansSilence, L!NotOkIsExplained

LEMMA DeskStepIInv == DeskIInv /\ [L!Next]_L!vars => DeskIInv'
<1> SUFFICES ASSUME DeskIInv, [L!Next]_L!vars PROVE DeskIInv'
  OBVIOUS
<1>1. ASSUME NEW n \in IdeaCounts, NEW ok \in OkFeeds, NEW mortem \in BOOLEAN,
             NEW writer \in BOOLEAN, NEW same \in BOOLEAN, L!StartRun(n, ok, mortem, writer, same)
      PROVE  DeskIInv'
  BY <1>1, DeskStartStep
<1>2. CASE L!Math \/ L!MathDone
  BY <1>2, DeskMathStep
<1>3. CASE L!Template
  BY <1>3, DeskTemplateStep
<1>4. ASSUME NEW i \in Inputs, L!Refused(i) PROVE DeskIInv'
  BY <1>4, DeskRefusedStep
<1>5. ASSUME NEW i \in Inputs, L!Ask(i) PROVE DeskIInv'
  BY <1>5, DeskAskStep
<1>6. ASSUME NEW o \in Outputs, NEW g \in BOOLEAN, L!Answered(o, g) PROVE DeskIInv'
  BY <1>6, DeskAnsweredStep
<1>7. CASE L!SchemaRetry
  BY <1>7, DeskRetryStep
<1>8. CASE L!SchemaFails
  BY <1>8, DeskSchemaFailsStep
<1>9. ASSUME NEW p \in BOOLEAN, NEW m \in BOOLEAN, L!Close(p, m) PROVE DeskIInv'
  BY <1>9, DeskCloseStep
<1>10. CASE L!Reset
  BY <1>10, DeskResetStep
<1>11. CASE UNCHANGED L!vars
  BY <1>11 DEF L!vars, DeskIInv, DeskTyped, DeskLedgerIsSummed, DeskCallIsAllowed, DeskAskedSoFar,
     DeskAttempts, DeskPermissionIsLast,
     L!NoSetupMeansSilence, L!NotOkIsExplained
<1> QED
  BY <1>1, <1>2, <1>3, <1>4, <1>5, <1>6, <1>7, <1>8, <1>9, <1>10, <1>11 DEF L!Next

LEMMA DeskIInvHolds == L!Spec => []DeskIInv
<1>1. L!Init => DeskIInv
  BY DeskInitIInv
<1>2. DeskIInv /\ [L!Next]_L!vars => DeskIInv'
  BY DeskStepIInv
<1> QED
  BY <1>1, <1>2, PTL DEF L!Spec

LEMMA DeskIInvIsBounded ==
    DeskIInv => /\ L!TypeOK /\ L!LedgerMatchesBudget /\ L!NoSetupMeansSilence /\ L!BoundedAsking
                /\ L!NotOkIsExplained
<1> SUFFICES ASSUME DeskIInv
             PROVE  /\ L!TypeOK /\ L!LedgerMatchesBudget /\ L!NoSetupMeansSilence /\ L!BoundedAsking
                    /\ L!NotOkIsExplained
  OBVIOUS
<1>1. L!TypeOK
  <2>1. call.art \in {"none", "EDGE_SCAN", "OFFICIAL_BRIEF"}
    BY DEF DeskIInv, DeskTyped, DeskCalls, L!NoCall
  <2>2. \A i \in DOMAIN ledger : ledger[i] \in [tokens : Nat, valid : BOOLEAN]
    <3>1. ledger \in Seq(DeskRows) /\ DOMAIN ledger = 1..Len(ledger)
      BY DEF DeskIInv, DeskTyped
    <3>2. \A i \in DOMAIN ledger : ledger[i] \in DeskRows
      BY <3>1
    <3> QED
      BY <3>2 DEF DeskRows
  <2> QED
    BY <2>1, <2>2 DEF DeskIInv, DeskTyped, L!TypeOK, DeskRunRecords, DeskBudgets
<1>2. L!LedgerMatchesBudget
  BY DeskSumIsBudget DEF DeskIInv, DeskLedgerIsSummed, L!LedgerMatchesBudget
<1>3. L!BoundedAsking
  BY DEF DeskIInv, DeskAskedSoFar, L!BoundedAsking
<1> QED
  BY <1>1, <1>2, <1>3 DEF DeskIInv

LEMMA DeskDisabledStep == DeskIInv /\ [L!Next]_L!vars => [budget.disabled => asked' <= asked]_L!vars
<1> SUFFICES ASSUME DeskIInv, L!Next, budget.disabled PROVE asked' <= asked
  OBVIOUS
<1>1. asked \in Nat /\ (call # L!NoCall => ~budget.disabled)
  BY DEF DeskIInv, DeskTyped, DeskCallIsAllowed
<1>2. ASSUME NEW n \in IdeaCounts, NEW ok \in OkFeeds, NEW mortem \in BOOLEAN,
             NEW writer \in BOOLEAN, NEW same \in BOOLEAN, L!StartRun(n, ok, mortem, writer, same)
      PROVE  asked' = 0
  BY <1>2 DEF L!StartRun
<1>3. ASSUME NEW i \in Inputs, L!Refused(i) \/ L!Ask(i) PROVE asked' = asked
  BY <1>3 DEF L!Refused, L!Ask, L!AllowCall
<1>4. ASSUME NEW o \in Outputs, NEW g \in BOOLEAN, L!Answered(o, g) PROVE asked' = asked
  BY <1>4 DEF L!Answered
<1>5. ASSUME NEW p \in BOOLEAN, NEW m \in BOOLEAN, L!Close(p, m) PROVE asked' = asked
  BY <1>5 DEF L!Close
<1>6. ASSUME L!Math \/ L!MathDone \/ L!Template \/ L!SchemaFails \/ L!Reset PROVE asked' = asked
  BY <1>6 DEF L!Math, L!MathDone, L!Template, L!SchemaFails, L!Reset
<1>7. ~L!SchemaRetry
  BY <1>1 DEF L!SchemaRetry
<1> QED
  BY <1>1, <1>2, <1>3, <1>4, <1>5, <1>6, <1>7 DEF L!Next

(* A step of the composition is one of this part, or leaves it alone.      *)
LEMMA DeskPart == ResearchSpec => L!Spec
<1>1. ResearchInit => L!Init
  BY DEF ResearchInit
<1>2. [ResearchNext]_researchVars => [L!Next]_L!vars
  BY DEF ResearchNext, researchVars, deskVars, L!vars
<1> QED
  BY <1>1, <1>2, PTL DEF ResearchSpec, L!Spec

(* The writer of a playbook is asked within its budget and the ledger      *)
(* tells of every token, a day without a setup is silent, and a run that   *)
(* is not OK says why: whatever feeds, ideas, budgets and answers there    *)
(* are, and whenever the process dies.                                     *)
THEOREM WriterCorrect == ResearchSpec => []WriterIsBounded
<1>1. DeskIInv => WriterIsBounded
  BY DeskIInvIsBounded DEF WriterIsBounded
<1> QED
  BY <1>1, DeskPart, DeskIInvHolds, PTL

(* A process that found the flag, or spent its day, asks no more.          *)
THEOREM SilenceCorrect == ResearchSpec => DisabledMeansSilence
<1>1. DeskIInv /\ [L!Next]_L!vars => [budget.disabled => asked' <= asked]_L!vars
  BY DeskDisabledStep
<1> QED
  BY <1>1, DeskPart, DeskIInvHolds, PTL DEF L!Spec, DisabledMeansSilence, L!DisabledMeansSilence

-----------------------------------------------------------------------------
(* The Quant Review Board (QuantBoard).                                    *)
(* The cards of a screened universe, before the cap.                       *)
BoardJudged(f) == [i \in Screen |-> B!CardOf(f[i])]

(* What the command has in hand: nothing, the capped cards of the universe *)
(* it read, or the prepared cards of the locked pass.                      *)
BoardCardsAreMade ==
    \/ cards = B!Nothing /\ facts = B!Nothing
    \/ kind = "screen" /\ facts \in [Screen -> Instruments] /\ cards = B!Capped(BoardJudged(facts))
    \/ /\ kind = "locked" /\ facts = B!Nothing /\ DOMAIN cards = Locked
       /\ \A i \in Locked : /\ cards[i].verdict \in B!Verdicts \ {"RESEARCH_PRIORITY"}
                            /\ cards[i].codes = {"NO_CATALYST"}

BoardFolders == [board : 0..MaxBoards, cards : [Screen \cup Locked -> 0..MaxBoards], meta :
  0..MaxBoards]

BoardTyped ==
    /\ qPc \in {"idle", "board", "cards", "meta", "stamp", "index"}
    /\ kind \in {"screen", "locked"}
    /\ reviewDay \in Days \cup {0} /\ (qPc # "idle" => reviewDay \in Days)
    /\ left \subseteq Screen \cup Locked
    /\ folder \in [Days -> BoardFolders]
    /\ table \subseteq 1..MaxBoards
    /\ boards \in 0..MaxBoards /\ (qPc # "idle" => boards > 0)

BoardUniverse == IF kind = "screen" THEN Screen ELSE Locked

(* Nothing on disk is of a run to come, and the run under way has written  *)
(* what its step says.                                                     *)
BoardWrittenSoFar ==
    /\ \A d \in Days : /\ folder[d].board <= boards /\ folder[d].meta <= boards
                       /\ \A i \in Screen \cup Locked : folder[d].cards[i] <= boards
    /\ qPc \in {"cards", "meta", "stamp", "index"} => folder[reviewDay].board = boards
    /\ qPc = "board" => left = BoardUniverse
    /\ qPc = "cards" => \A i \in BoardUniverse \ left : folder[reviewDay].cards[i] = boards
    /\ qPc = "meta" => \A i \in BoardUniverse : folder[reviewDay].cards[i] = boards
    /\ qPc \in {"stamp", "index"} => folder[reviewDay].meta = boards

BoardIInv == BoardTyped /\ BoardCardsAreMade /\ BoardWrittenSoFar /\ B!MetaIsLast
  /\ B!IndexedIsWritten

(* The cardinality that the module counts with is that of FiniteSets.      *)
LEMMA BoardSameCardinality == \A s : B!Cardinality(s) = Cardinality(s)
  BY DEF B!Cardinality, Cardinality

(* Of a finite set whose elements are ordered, before[i] being those ahead of   *)
(* i: those that have fewer than m ahead are m, or all there are.          *)
LEMMA FewAhead ==
    ASSUME NEW S, IsFiniteSet(S), NEW before \in [S -> SUBSET S], NEW m \in Nat,
           \A i \in S : i \notin before[i],
           \A i, j \in S : i \in before[j] => before[i] \subseteq before[j],
           \A i, j \in S : i = j \/ i \in before[j] \/ j \in before[i]
    PROVE  LET kept == {i \in S : Cardinality(before[i]) < m}
           IN  /\ IsFiniteSet(kept) /\ Cardinality(kept) <= m
               /\ kept # S => Cardinality(kept) = m
<1> DEFINE n == Cardinality(S)
           rank == [i \in S |-> Cardinality(before[i])]
           kept == {i \in S : Cardinality(before[i]) < m}
<1>1. n \in Nat /\ IsFiniteSet(kept) /\ Cardinality(kept) \in Nat
  <2>1. kept \in SUBSET S
    OBVIOUS
  <2> QED
    BY <2>1, FS_Subset, FS_CardinalityType
<1>2. \A i \in S : IsFiniteSet(before[i]) /\ Cardinality(before[i]) \in 0..(n - 1)
  <2> TAKE i \in S
  <2>1. IsFiniteSet(S \ {i}) /\ Cardinality(S \ {i}) = n - 1
    BY FS_RemoveElement
  <2>2. before[i] \in SUBSET (S \ {i})
    OBVIOUS
  <2>3. IsFiniteSet(before[i]) /\ Cardinality(before[i]) <= n - 1
    BY <2>1, <2>2, FS_Subset
  <2>4. Cardinality(before[i]) \in Nat
    BY <2>3, FS_CardinalityType
  <2> QED
    BY <2>3, <2>4, <1>1
<1>3. \A i, j \in S : i \in before[j] => Cardinality(before[i]) < Cardinality(before[j])
  <2> SUFFICES ASSUME NEW i \in S, NEW j \in S, i \in before[j]
               PROVE  Cardinality(before[i]) < Cardinality(before[j])
    OBVIOUS
  <2>1. before[i] \in SUBSET before[j] /\ before[i] # before[j]
    OBVIOUS
  <2>2. Cardinality(before[i]) <= Cardinality(before[j])
          /\ Cardinality(before[i]) # Cardinality(before[j])
    BY <2>1, <1>2, FS_Subset
  <2> QED
    BY <2>2, <1>2, <1>1
<1>4. \A i, j \in S : Cardinality(before[i]) = Cardinality(before[j]) => i = j
  BY <1>1, <1>2, <1>3
<1>5. rank \in Injection(S, 0..(n - 1))
  BY <1>2, <1>4 DEF Injection, IsInjective
<1>6. IsFiniteSet(0..(n - 1)) /\ Cardinality(0..(n - 1)) = n
  <2> HIDE DEF n
  <2>1. 0 \in Int /\ n - 1 \in Int /\ (IF 0 > n - 1 THEN 0 ELSE (n - 1) - 0 + 1) = n
    BY <1>1
  <2>2. \A a, b \in Int : /\ IsFiniteSet(a..b)
                          /\ Cardinality(a..b) = IF a > b THEN 0 ELSE b - a + 1
    BY FS_Interval
  <2> QED
    BY <2>1, <2>2
<1>7. rank \in Surjection(S, 0..(n - 1))
  BY <1>5, <1>6, FS_Injection
<1>8. CASE kept = S
  <2>1. [i \in S |-> Cardinality(before[i])] \in Injection(S, 0..(m - 1))
    BY <1>8, <1>1, <1>2, <1>4 DEF Injection, IsInjective
  <2>2. IsFiniteSet(0..(m - 1)) /\ Cardinality(0..(m - 1)) = m
    BY FS_Interval
  <2>3. Cardinality(S) <= m
    BY <2>1, <2>2, FS_Injection
  <2> QED
    BY <1>1, <1>8, <2>3
<1>9. CASE kept # S
  <2>1. PICK d \in S : ~(Cardinality(before[d]) < m)
    BY <1>9
  <2>2. m <= n - 1
    BY <2>1, <1>2, <1>1
  <2> DEFINE low == [i \in kept |-> Cardinality(before[i])]
  <2>3. low \in Injection(kept, 0..(m - 1))
    BY <1>1, <1>2, <1>4 DEF Injection, IsInjective
  <2>4. \A k \in 0..(m - 1) : \E i \in kept : low[i] = k
    <3> TAKE k \in 0..(m - 1)
    <3>1. k \in 0..(n - 1) /\ k < m
      BY <2>2, <1>1
    <3>2. PICK i \in S : rank[i] = k
      BY <3>1, <1>7 DEF Surjection
    <3> QED
      BY <3>1, <3>2
  <2>5. low \in Surjection(kept, 0..(m - 1))
    BY <2>3, <2>4 DEF Surjection, Injection
  <2>6. IsFiniteSet(0..(m - 1)) /\ Cardinality(0..(m - 1)) = m
    BY FS_Interval
  <2>7. Cardinality(kept) = m
    BY <2>3, <2>5, <2>6, FS_Injection
  <2> QED
    BY <1>1, <2>7
<1> QED
  BY <1>8, <1>9

(* The reasons of a case: none is the cap's, and those that the properties *)
(* speak of are among them.                                                *)
LEMMA BoardReasonsAre ==
    ASSUME NEW c
    PROVE  /\ B!CodesOf(c) \subseteq B!Codes \ {"ALREADY_PRICED"} /\ B!CodesOf(c) # {}
           /\ B!BetaCodes(c) \subseteq B!CodesOf(c)
           /\ c.role = "benchmark" => "NO_MISPRICING" \in B!CodesOf(c)
<1>1. B!ReasonsOf(c) \subseteq B!Codes \ {"ALREADY_PRICED"}
  BY DEF B!ReasonsOf, B!When, B!BetaCodes, B!Codes
<1>2. B!BetaCodes(c) \subseteq B!ReasonsOf(c)
  BY DEF B!ReasonsOf
<1>3. B!When(c.role = "benchmark", {"NO_MISPRICING"}) \subseteq B!ReasonsOf(c)
  BY DEF B!ReasonsOf
<1> QED
  BY <1>1, <1>2, <1>3 DEF B!CodesOf, B!When, B!Codes

(* The verdict of a case: a priority meets every criterion, a gap decides. *)
LEMMA BoardVerdictIs ==
    ASSUME NEW c
    PROVE  /\ B!VerdictOf(c) \in B!Verdicts
           /\ B!VerdictOf(c) = "RESEARCH_PRIORITY" => B!AllMet(c) /\ ~B!Missing(c)
           /\ B!Missing(c) => B!VerdictOf(c) = "INSUFFICIENT_DATA"
           /\ B!DownOnly(c) => B!VerdictOf(c) \in {"DEFER", "INSUFFICIENT_DATA"}
<1>1. B!DownOnly(c) => ~B!AllMet(c)
  BY DEF B!DownOnly, B!AllMet
<1>2. CASE B!Missing(c)
  <2>1. B!VerdictOf(c) = "INSUFFICIENT_DATA"
    BY <1>2 DEF B!VerdictOf
  <2> QED
    BY <2>1 DEF B!Verdicts
<1>3. CASE ~B!Missing(c) /\ B!AllMet(c)
  <2>1. B!VerdictOf(c) = "RESEARCH_PRIORITY"
    BY <1>3 DEF B!VerdictOf
  <2> QED
    BY <1>1, <1>3, <2>1 DEF B!Verdicts
<1>4. CASE ~B!Missing(c) /\ ~B!AllMet(c) /\ B!DownOnly(c)
  <2>1. B!VerdictOf(c) = "DEFER"
    BY <1>4 DEF B!VerdictOf
  <2> QED
    BY <1>4, <2>1 DEF B!Verdicts
<1>5. CASE ~B!Missing(c) /\ ~B!AllMet(c) /\ ~B!DownOnly(c)
  <2>1. B!VerdictOf(c) \in {"INSUFFICIENT_DATA", "MONITOR", "DEFER"}
    BY <1>5 DEF B!VerdictOf
  <2> QED
    BY <1>5, <2>1 DEF B!Verdicts
<1> QED
  BY <1>2, <1>3, <1>4, <1>5

(* What every criterion met says of the raw facts.                         *)
LEMMA BoardMetIsEarned ==
    ASSUME NEW c \in Instruments, B!AllMet(c)
    PROVE  /\ c.q = "ok" /\ ~c.old /\ B!HasPrint(c)
           /\ c.catalyst /\ c.invalidation /\ c.overlooked
           /\ c.liquid \/ c.adv \/ c.major
           /\ c.reclaim \/ c.arb \/ c.overlay = "wide" \/ c.move \in {"up", "crash"}
           /\ "dup" \in c.beta => "DUPLICATE_BETA" \in c.addressed
           /\ c.role = "benchmark" => "NO_MISPRICING" \in c.addressed
<1>1. c.q = "ok" /\ ~c.old /\ B!HasPrint(c)
  BY DEF B!AllMet, B!Stale, B!Quality
<1>2. c.catalyst /\ c.invalidation /\ c.overlooked
  BY DEF B!AllMet
<1>3. c.liquid \/ c.adv \/ c.major
  BY DEF B!AllMet, B!Liquid
<1>4. c.reclaim \/ c.arb \/ c.overlay = "wide" \/ c.move \in {"up", "crash"}
  BY DEF B!AllMet, B!Anomaly, B!Unusual, B!Executable
<1>5. ASSUME "dup" \in c.beta, "DUPLICATE_BETA" \notin c.addressed PROVE FALSE
  <2>1. "DUPLICATE_BETA" \in B!CodesOf(c)
    BY <1>5, BoardReasonsAre DEF B!BetaCodes
  <2>2. B!BetaIsClear(c)
    BY DEF B!AllMet
  <2> QED
    BY <1>5, <2>1, <2>2 DEF B!BetaIsClear
<1>6. ASSUME c.role = "benchmark" PROVE "NO_MISPRICING" \in c.addressed
  <2>1. "NO_MISPRICING" \in B!CodesOf(c) /\ B!Blocking(c) = {}
    BY <1>6, BoardReasonsAre DEF B!AllMet
  <2>2. "NO_MISPRICING" \notin {"UNEXECUTABLE_ARB"} \cup B!When(~c.reclaim, {"RECLAIM_UNCONFIRMED"})
    BY DEF B!When
  <2> QED
    BY <2>1, <2>2 DEF B!Blocking
<1> QED
  BY <1>1, <1>2, <1>3, <1>4, <1>5, <1>6

LEMMA BoardCardIs ==
    ASSUME NEW f \in [Screen -> Instruments], NEW i \in Screen
    PROVE  /\ BoardJudged(f)[i] = B!CardOf(f[i]) /\ DOMAIN BoardJudged(f) = Screen
           /\ B!CardOf(f[i]).verdict = B!VerdictOf(f[i]) /\ B!CardOf(f[i]).codes = B!CodesOf(f[i])
           /\ B!CardOf(f[i]).arb \in BOOLEAN
<1>1. B!CardOf(f[i]).arb = B!Executable(f[i])
  BY DEF B!CardOf
<1>2. B!Executable(f[i]) \in BOOLEAN
  BY Zenon DEF B!Executable
<1> QED
  BY <1>1, <1>2 DEF BoardJudged, B!CardOf

(* The cap of cards: who is demoted has MaxPriority ahead, and those kept  *)
(* are MaxPriority, or all.                                                *)
LEMMA BoardCapIs ==
    ASSUME NEW f \in [Screen -> Instruments]
    PROVE  LET cs == BoardJudged(f)
               out == B!Capped(cs)
               demoted == {i \in Screen : "ALREADY_PRICED" \in out[i].codes}
           IN  /\ DOMAIN out = Screen
               /\ \A i \in Screen : i \notin demoted => out[i] = cs[i]
               /\ \A i \in demoted : /\ cs[i].verdict = "RESEARCH_PRIORITY"
                                     /\ out[i].verdict = "MONITOR" /\ out[i].arb = cs[i].arb
                                     /\ out[i].codes = cs[i].codes \cup {"ALREADY_PRICED"}
               /\ B!Priorities(out) = B!Priorities(cs) \ demoted
               /\ Cardinality(B!Priorities(out)) <= MaxPriority
               /\ demoted # {} => Cardinality(B!Priorities(out)) = MaxPriority
               /\ \A i \in demoted, j \in B!Priorities(out) : out[i].arb => out[j].arb
<1> DEFINE cs == BoardJudged(f)
           out == B!Capped(cs)
           S == B!Priorities(cs)
           before == [i \in S |-> {j \in S : B!Ahead(cs, j, i)}]
           kept == {i \in S : Cardinality(before[i]) < MaxPriority}
           demoted == {i \in Screen : "ALREADY_PRICED" \in out[i].codes}
<1>1. DOMAIN cs = Screen /\ S \subseteq Screen /\ IsFiniteSet(S)
  <2>1. DOMAIN cs = Screen
    BY DEF BoardJudged
  <2>2. S \in SUBSET Screen
    BY <2>1 DEF B!Priorities
  <2> QED
    BY <2>1, <2>2, FS_Subset, BoardAssumption
<1>2. \A i \in Screen : cs[i] = B!CardOf(f[i]) /\ cs[i].arb \in BOOLEAN
        /\ "ALREADY_PRICED" \notin cs[i].codes
  BY BoardCardIs, BoardReasonsAre
<1>3. before \in [S -> SUBSET S]
  OBVIOUS
<1> HIDE DEF S
<1>4. \A i \in S : i \notin before[i]
  <2>1. \A i \in S : ~(i > i)
    BY <1>1, BoardAssumption
  <2> QED
    BY <2>1 DEF B!Ahead
<1>5. \A i, j, k \in S : B!Ahead(cs, i, j) /\ B!Ahead(cs, j, k) => B!Ahead(cs, i, k)
  <2>1. \A i, j, k \in S : i > j /\ j > k => i > k
    BY <1>1, BoardAssumption
  <2> QED
    BY <2>1, <1>1, <1>2 DEF B!Ahead
<1>6. \A i, j \in S : i = j \/ B!Ahead(cs, i, j) \/ B!Ahead(cs, j, i)
  <2>1. \A i, j \in S : i = j \/ i > j \/ j > i
    BY <1>1, BoardAssumption
  <2> QED
    BY <2>1, <1>1, <1>2 DEF B!Ahead
<1>7. \A i, j \in S : i \in before[j] => before[i] \subseteq before[j]
  BY <1>5
<1>8. \A i, j \in S : i = j \/ i \in before[j] \/ j \in before[i]
  BY <1>6
<1>9. /\ IsFiniteSet(kept) /\ Cardinality(kept) <= MaxPriority
      /\ kept # S => Cardinality(kept) = MaxPriority
  <2> HIDE DEF before
  <2> QED
    BY <1>1, <1>3, <1>4, <1>7, <1>8, BoardAssumption, FewAhead
<1>10. \A i \in S : before[i] = {j \in S : B!Ahead(cs, j, i)} /\ Cardinality(before[i]) \in Nat
  <2> TAKE i \in S
  <2>1. before[i] \in SUBSET S
    OBVIOUS
  <2>2. Cardinality(before[i]) \in Nat
    BY <2>1, <1>1, FS_Subset, FS_CardinalityType
  <2> QED
    BY <2>2
<1>11. DOMAIN out = Screen
  BY <1>1 DEF B!Capped
<1>12. \A i \in Screen : IF i \in S \ kept
                         THEN out[i] = [cs[i] EXCEPT !.verdict = "MONITOR",
                                                     !.codes = cs[i].codes \cup {"ALREADY_PRICED"}]
                         ELSE out[i] = cs[i]
  <2> TAKE i \in Screen
  <2>1. CASE i \in S
    <3>1. Cardinality({j \in S : B!Ahead(cs, j, i)}) >= MaxPriority <=> i \notin kept
      BY <2>1, <1>10, BoardAssumption
    <3> HIDE DEF kept
    <3> QED
      BY <2>1, <3>1, <1>1, BoardSameCardinality DEF B!Capped, S
  <2>2. CASE i \notin S
    BY <2>2, <1>1 DEF B!Capped, S
  <2> QED
    BY <2>1, <2>2
<1>13. \A i \in S : cs[i].verdict = "RESEARCH_PRIORITY"
  BY DEF B!Priorities, S
<1>14. \A i \in S \ kept : /\ out[i].verdict = "MONITOR" /\ out[i].arb = cs[i].arb
                           /\ out[i].codes = cs[i].codes \cup {"ALREADY_PRICED"}
  <2> TAKE i \in S \ kept
  <2>1. i \in Screen /\ cs[i] = B!CardOf(f[i])
    BY <1>1, <1>2
  <2>2. cs[i] = [verdict |-> cs[i].verdict, codes |-> cs[i].codes, arb |-> cs[i].arb]
    BY <2>1 DEF B!CardOf
  <2>3. out[i] = [cs[i] EXCEPT !.verdict = "MONITOR", !.codes = cs[i].codes \cup {"ALREADY_PRICED"}]
    BY <2>1, <1>12
  <2> HIDE DEF cs, out, kept, S
  <2> QED
    BY <2>2, <2>3
<1> HIDE DEF out, cs, kept, S, before
<1>15. demoted = S \ kept
  BY <1>1, <1>2, <1>12, <1>14
<1>16. B!Priorities(out) = S \ demoted /\ B!Priorities(out) = kept
  <2>1. \A i \in Screen : out[i].verdict = "RESEARCH_PRIORITY" <=> i \in kept
    <3> TAKE i \in Screen
    <3>1. CASE i \in S \ kept
      BY <3>1, <1>14
    <3>2. CASE i \notin S \ kept
      <4>1. out[i] = cs[i]
        BY <3>2, <1>12
      <4>2. cs[i].verdict = "RESEARCH_PRIORITY" <=> i \in S
        BY <1>1 DEF B!Priorities, S
      <4> QED
        BY <3>2, <4>1, <4>2 DEF kept
    <3> QED
      BY <3>1, <3>2
  <2>2. kept \subseteq S
    BY DEF kept
  <2> HIDE DEF demoted
  <2> QED
    BY <2>1, <2>2, <1>1, <1>11, <1>15 DEF B!Priorities
<1>17. \A i \in S \ kept, j \in kept : cs[i].arb => cs[j].arb
  <2> SUFFICES ASSUME NEW i \in S \ kept, NEW j \in kept, cs[i].arb, ~cs[j].arb PROVE FALSE
    OBVIOUS
  <2>1. i \in S /\ j \in S /\ B!Ahead(cs, i, j)
    BY DEF B!Ahead, kept
  <2>2. i \in before[j] /\ before[i] \in SUBSET before[j] /\ before[j] \in SUBSET S
    BY <2>1, <1>7, <1>10, <1>3
  <2>3. Cardinality(before[i]) <= Cardinality(before[j])
    BY <2>2, <1>1, FS_Subset
  <2> QED
    BY <2>1, <2>3, <1>10, BoardAssumption DEF kept
<1>18. \A i \in kept : out[i] = cs[i]
  BY <1>1, <1>12 DEF kept
<1> QED
  <2>1. \A i \in Screen : i \notin demoted => out[i] = cs[i]
    BY <1>12, <1>15
  <2>2. \A i \in demoted : /\ cs[i].verdict = "RESEARCH_PRIORITY"
                           /\ out[i].verdict = "MONITOR" /\ out[i].arb = cs[i].arb
                           /\ out[i].codes = cs[i].codes \cup {"ALREADY_PRICED"}
    BY <1>13, <1>14, <1>15
  <2>3. \A i \in demoted, j \in B!Priorities(out) : out[i].arb => out[j].arb
    BY <1>14, <1>15, <1>16, <1>17, <1>18
  <2>4. demoted # {} => kept # S
    BY <1>15
  <2>5. B!Priorities(out) = B!Priorities(cs) \ demoted
    BY <1>16 DEF S
  <2> HIDE DEF demoted
  <2> QED
    BY <2>1, <2>2, <2>3, <2>4, <2>5, <1>9, <1>11, <1>16 DEF cs, out, demoted

(* What the command has in hand is right, whatever the snapshot said.      *)
LEMMA BoardMadeCardsAreHonest ==
    ASSUME BoardTyped, BoardCardsAreMade
    PROVE  /\ B!PriorityIsEarned /\ B!BoardIsCapped /\ B!GapsDecide
           /\ \A i \in DOMAIN cards : cards[i].verdict \in B!Verdicts
              /\ cards[i].codes \subseteq B!Codes
<1>1. CASE cards = B!Nothing /\ facts = B!Nothing
  BY <1>1 DEF B!PriorityIsEarned, B!BoardIsCapped, B!GapsDecide, B!Nothing, B!Priorities
<1>2. CASE /\ kind = "locked" /\ facts = B!Nothing /\ DOMAIN cards = Locked
           /\ \A i \in Locked : /\ cards[i].verdict \in B!Verdicts \ {"RESEARCH_PRIORITY"}
                                /\ cards[i].codes = {"NO_CATALYST"}
  <2>1. B!Priorities(cards) = {}
    BY <1>2 DEF B!Priorities
  <2> QED
    BY <1>2, <2>1 DEF B!PriorityIsEarned, B!BoardIsCapped, B!GapsDecide, B!Nothing, B!Codes
<1>3. CASE kind = "screen" /\ facts \in [Screen -> Instruments]
             /\ cards = B!Capped(BoardJudged(facts))
  <2> DEFINE cs == BoardJudged(facts)
             demoted == {i \in Screen : "ALREADY_PRICED" \in cards[i].codes}
  <2>1. /\ DOMAIN cards = Screen
        /\ \A i \in Screen : i \notin demoted => cards[i] = cs[i]
        /\ \A i \in demoted : /\ cs[i].verdict = "RESEARCH_PRIORITY"
                              /\ cards[i].verdict = "MONITOR" /\ cards[i].arb = cs[i].arb
                              /\ cards[i].codes = cs[i].codes \cup {"ALREADY_PRICED"}
        /\ B!Priorities(cards) = B!Priorities(cs) \ demoted
        /\ Cardinality(B!Priorities(cards)) <= MaxPriority
        /\ demoted # {} => Cardinality(B!Priorities(cards)) = MaxPriority
        /\ \A i \in demoted, j \in B!Priorities(cards) : cards[i].arb => cards[j].arb
    BY <1>3, BoardCapIs
  <2>2. \A i \in Screen : /\ facts[i] \in Instruments
                          /\ cs[i].verdict = B!VerdictOf(facts[i])
                             /\ cs[i].codes = B!CodesOf(facts[i])
    BY <1>3, BoardCardIs
  <2>3. DOMAIN cs = Screen
    BY DEF BoardJudged
  <2> HIDE DEF cs
  <2>4. B!PriorityIsEarned
    <3> SUFFICES ASSUME NEW i \in B!Priorities(cards)
                 PROVE  LET c == facts[i] IN
                        /\ kind = "screen"
                        /\ c.q = "ok" /\ ~c.old /\ B!HasPrint(c)
                        /\ c.catalyst /\ c.invalidation /\ c.overlooked
                        /\ c.liquid \/ c.adv \/ c.major
                        /\ c.reclaim \/ c.arb \/ c.overlay = "wide" \/ c.move \in {"up", "crash"}
                        /\ "dup" \in c.beta => "DUPLICATE_BETA" \in c.addressed
                        /\ c.role = "benchmark" => "NO_MISPRICING" \in c.addressed
      BY DEF B!PriorityIsEarned
    <3>1. i \in Screen /\ B!VerdictOf(facts[i]) = "RESEARCH_PRIORITY"
      BY <2>1, <2>2, <2>3 DEF B!Priorities
    <3>2. facts[i] \in Instruments /\ B!AllMet(facts[i])
      BY <3>1, <2>2, BoardVerdictIs
    <3> QED
      BY <3>2, <1>3, BoardMetIsEarned
  <2>5. B!BoardIsCapped
    BY <2>1, BoardSameCardinality DEF B!BoardIsCapped
  <2>6. B!GapsDecide
    <3> SUFFICES ASSUME NEW i \in Screen
                 PROVE  /\ B!Missing(facts[i]) => cards[i].verdict = "INSUFFICIENT_DATA"
                        /\ B!DownOnly(facts[i])
                           => cards[i].verdict \in {"DEFER", "INSUFFICIENT_DATA"}
                        /\ cards[i].codes # {}
      BY <1>3 DEF B!GapsDecide
    <3>1. CASE i \in demoted
      <4>1. B!VerdictOf(facts[i]) = "RESEARCH_PRIORITY" /\ cards[i].codes # {}
        BY <3>1, <2>1, <2>2
      <4> QED
        BY <4>1, BoardVerdictIs
    <3>2. CASE i \notin demoted
      <4>1. cards[i].verdict = B!VerdictOf(facts[i]) /\ cards[i].codes = B!CodesOf(facts[i])
        BY <3>2, <2>1, <2>2
      <4> QED
        BY <4>1, BoardVerdictIs, BoardReasonsAre
    <3> QED
      BY <3>1, <3>2
  <2>7. \A i \in Screen : cards[i].verdict \in B!Verdicts /\ cards[i].codes \subseteq B!Codes
    <3> TAKE i \in Screen
    <3>1. B!VerdictOf(facts[i]) \in B!Verdicts /\ B!CodesOf(facts[i]) \subseteq B!Codes
      BY BoardVerdictIs, BoardReasonsAre
    <3>2. "MONITOR" \in B!Verdicts /\ "ALREADY_PRICED" \in B!Codes
      BY DEF B!Verdicts, B!Codes
    <3>3. CASE i \in demoted
      BY <3>1, <3>2, <3>3, <2>1, <2>2
    <3>4. CASE i \notin demoted
      BY <3>1, <3>4, <2>1, <2>2
    <3> QED
      BY <3>3, <3>4
  <2> QED
    BY <2>1, <2>4, <2>5, <2>6, <2>7
<1> QED
  BY <1>1, <1>2, <1>3 DEF BoardCardsAreMade

LEMMA BoardInitIInv == B!Init => BoardIInv
<1> SUFFICES ASSUME B!Init PROVE BoardIInv
  OBVIOUS
<1>1. BoardTyped
  <2>1. [board |-> 0, cards |-> [i \in Screen \cup Locked |-> 0], meta |-> 0] \in BoardFolders
    BY BoardAssumption DEF BoardFolders
  <2> QED
    BY <2>1, BoardAssumption DEF B!Init, BoardTyped
<1>2. BoardCardsAreMade /\ BoardWrittenSoFar /\ B!MetaIsLast /\ B!IndexedIsWritten
  BY DEF B!Init, BoardCardsAreMade, BoardWrittenSoFar, B!MetaIsLast, B!IndexedIsWritten
<1> QED
  BY <1>1, <1>2 DEF BoardIInv

LEMMA BoardRunStep ==
    ASSUME BoardIInv, NEW d \in Days,
           \/ \E f \in [Screen -> Instruments] : B!RunBoard(d, f)
           \/ \E v \in B!Prepared : B!LockedPass(d, v)
    PROVE  BoardIInv'
<1> USE DEF BoardIInv
<1>1. /\ qPc = "idle" /\ boards < MaxBoards /\ qPc' = "board" /\ reviewDay' = d
         /\ boards' = boards + 1
      /\ kind' \in {"screen", "locked"} /\ left' = BoardUniverse'
      /\ UNCHANGED <<folder, table>>
  BY DEF B!RunBoard, B!LockedPass, BoardUniverse
<1>2. BoardTyped'
  BY <1>1, BoardAssumption DEF BoardTyped, BoardUniverse
<1>3. BoardCardsAreMade'
  <2>1. ASSUME NEW f \in [Screen -> Instruments], B!RunBoard(d, f) PROVE BoardCardsAreMade'
    BY <2>1 DEF B!RunBoard, BoardCardsAreMade, BoardJudged
  <2>2. ASSUME NEW v \in B!Prepared, B!LockedPass(d, v) PROVE BoardCardsAreMade'
    <3>1. /\ kind' = "locked" /\ facts' = B!Nothing
          /\ cards' = [i \in Locked |-> [verdict |-> v[i], codes |-> {"NO_CATALYST"},
             arb |-> FALSE]]
      BY <2>2 DEF B!LockedPass
    <3>2. \A i \in Locked : v[i] \in B!Verdicts \ {"RESEARCH_PRIORITY"}
      BY DEF B!Prepared
    <3> QED
      BY <3>1, <3>2 DEF BoardCardsAreMade
  <2> QED
    BY <2>1, <2>2
<1>4. BoardWrittenSoFar'
  <2>1. \A dd \in Days : /\ folder[dd].board \in Nat /\ folder[dd].meta \in Nat
                         /\ \A i \in Screen \cup Locked : folder[dd].cards[i] \in Nat
    BY BoardAssumption DEF BoardTyped, BoardFolders
  <2>2. boards \in Nat
    BY BoardAssumption DEF BoardTyped
  <2> QED
    BY <1>1, <2>1, <2>2 DEF BoardWrittenSoFar
<1>5. B!MetaIsLast' /\ B!IndexedIsWritten'
  BY <1>1 DEF B!MetaIsLast, B!IndexedIsWritten
<1> QED
  BY <1>2, <1>3, <1>4, <1>5

LEMMA BoardWriteBoardStep ==
    ASSUME BoardIInv, B!WriteBoard
    PROVE  BoardIInv'
<1> USE DEF BoardIInv
<1>1. /\ qPc = "board" /\ qPc' = "cards" /\ reviewDay \in Days /\ boards \in 0..MaxBoards
         /\ left = BoardUniverse
      /\ folder' = [folder EXCEPT ![reviewDay].board = boards]
      /\ UNCHANGED <<kind, reviewDay, facts, cards, left, table, boards>>
  BY DEF B!WriteBoard, BoardTyped, BoardWrittenSoFar
<1>2. \A d \in Days : folder[d] \in BoardFolders
  BY DEF BoardTyped
<1>3. \A d \in Days : /\ folder'[d] \in BoardFolders
                      /\ folder'[d].board = IF d = reviewDay THEN boards ELSE folder[d].board
                      /\ folder'[d].cards = folder[d].cards /\ folder'[d].meta = folder[d].meta
  BY <1>1, <1>2 DEF BoardTyped, BoardFolders
<1>4. BoardTyped' /\ BoardCardsAreMade'
  BY <1>1, <1>3 DEF BoardTyped, BoardCardsAreMade
<1>5. BoardWrittenSoFar'
  BY <1>1, <1>3, BoardAssumption DEF BoardWrittenSoFar, BoardTyped, BoardUniverse
<1>6. B!MetaIsLast'
  BY <1>1, <1>2, <1>3, BoardAssumption DEF B!MetaIsLast, BoardWrittenSoFar, BoardTyped
<1>7. B!IndexedIsWritten'
  BY <1>1, <1>3 DEF B!IndexedIsWritten
<1> QED
  BY <1>4, <1>5, <1>6, <1>7

LEMMA BoardWriteCardStep ==
    ASSUME BoardIInv, NEW i \in Screen \cup Locked, B!WriteCard(i)
    PROVE  BoardIInv'
<1> USE DEF BoardIInv
<1>1. /\ qPc = "cards" /\ qPc' \in {"cards", "meta"} /\ reviewDay \in Days
         /\ boards \in 0..MaxBoards
      /\ left' = left \ {i} /\ (qPc' = "meta" => left' = {})
      /\ folder' = [folder EXCEPT ![reviewDay].cards[i] = boards]
      /\ UNCHANGED <<kind, reviewDay, facts, cards, table, boards>>
  BY DEF B!WriteCard, BoardTyped
<1>2. \A d \in Days : folder[d] \in BoardFolders
  BY DEF BoardTyped
<1>3. \A d \in Days : /\ folder'[d] \in BoardFolders
                      /\ folder'[d].board = folder[d].board /\ folder'[d].meta = folder[d].meta
                      /\ \A j \in Screen \cup Locked :
                            folder'[d].cards[j] = IF d = reviewDay /\ j = i THEN boards
                              ELSE folder[d].cards[j]
  <2> TAKE d \in Days
  <2>1. CASE d # reviewDay
    BY <1>1, <1>2, <2>1 DEF BoardTyped
  <2>2. CASE d = reviewDay
    <3>1. folder'[d] = [folder[d] EXCEPT !.cards = [folder[d].cards EXCEPT ![i] = boards]]
      BY <1>1, <2>2 DEF BoardTyped
    <3>2. /\ folder[d].board \in 0..MaxBoards /\ folder[d].meta \in 0..MaxBoards
          /\ folder[d].cards \in [Screen \cup Locked -> 0..MaxBoards]
          /\ folder[d] = [board |-> folder[d].board, cards |-> folder[d].cards,
             meta |-> folder[d].meta]
      BY <1>2 DEF BoardFolders
    <3>3. folder'[d] = [board |-> folder[d].board, cards |-> [folder[d].cards EXCEPT ![i] = boards],
                        meta |-> folder[d].meta]
      BY <3>1, <3>2
    <3>4. /\ [folder[d].cards EXCEPT ![i] = boards] \in [Screen \cup Locked -> 0..MaxBoards]
          /\ \A j \in Screen \cup Locked :
                [folder[d].cards EXCEPT ![i] = boards][j] = IF j = i THEN boards
                  ELSE folder[d].cards[j]
      BY <1>1, <3>2
    <3> QED
      BY <2>2, <3>2, <3>3, <3>4 DEF BoardFolders
  <2> QED
    BY <2>1, <2>2
<1>4. BoardTyped' /\ BoardCardsAreMade'
  BY <1>1, <1>3 DEF BoardTyped, BoardCardsAreMade
<1>5. BoardWrittenSoFar'
  <2>1. BoardUniverse \subseteq Screen \cup Locked /\ BoardUniverse' = BoardUniverse
    BY <1>1 DEF BoardUniverse
  <2>2. \A d \in Days : /\ folder'[d].board <= boards /\ folder'[d].meta <= boards
                        /\ \A j \in Screen \cup Locked : folder'[d].cards[j] <= boards
    BY <1>1, <1>3, BoardAssumption DEF BoardWrittenSoFar
  <2>3. folder'[reviewDay].board = boards /\ \A j \in BoardUniverse \ left' :
          folder'[reviewDay].cards[j] = boards
    BY <1>1, <1>3, <2>1 DEF BoardWrittenSoFar
  <2> QED
    BY <1>1, <2>1, <2>2, <2>3 DEF BoardWrittenSoFar
<1>6. B!MetaIsLast'
  <2>1. \A d \in Days, j \in Screen \cup Locked :
            folder[d].cards[j] \in Nat /\ folder'[d].cards[j] \in Nat /\ folder[d].meta \in Nat
    <3> TAKE d \in Days, j \in Screen \cup Locked
    <3>1. /\ folder[d].cards \in [Screen \cup Locked -> 0..MaxBoards]
             /\ folder[d].meta \in 0..MaxBoards
          /\ folder'[d].cards \in [Screen \cup Locked -> 0..MaxBoards]
      BY <1>2, <1>3 DEF BoardFolders
    <3> QED
      BY <3>1, BoardAssumption
  <2>2. \A d \in Days, j \in Screen \cup Locked : folder[d].cards[j] <= folder'[d].cards[j]
    BY <1>1, <1>3, <2>1, BoardAssumption DEF BoardWrittenSoFar
  <2>3. \A d \in Days, j \in Screen \cup Locked :
            folder[d].cards[j] >= folder[d].meta => folder'[d].cards[j] >= folder'[d].meta
    BY <1>3, <2>1, <2>2
  <2> QED
    BY <1>3, <2>3 DEF B!MetaIsLast
<1>7. B!IndexedIsWritten'
  BY <1>1, <1>3 DEF B!IndexedIsWritten
<1> QED
  BY <1>4, <1>5, <1>6, <1>7

LEMMA BoardWriteMetaStep ==
    ASSUME BoardIInv, B!WriteMeta
    PROVE  BoardIInv'
<1> USE DEF BoardIInv
<1>1. /\ qPc = "meta" /\ qPc' \in {"stamp", "index"} /\ reviewDay \in Days
         /\ boards \in 0..MaxBoards
      /\ folder' = [folder EXCEPT ![reviewDay].meta = boards]
      /\ UNCHANGED <<kind, reviewDay, facts, cards, left, table, boards>>
  BY DEF B!WriteMeta, BoardTyped
<1>2. \A d \in Days : folder[d] \in BoardFolders
  BY DEF BoardTyped
<1>3. \A d \in Days : /\ folder'[d] \in BoardFolders
                      /\ folder'[d].meta = IF d = reviewDay THEN boards ELSE folder[d].meta
                      /\ folder'[d].cards = folder[d].cards /\ folder'[d].board = folder[d].board
  BY <1>1, <1>2 DEF BoardTyped, BoardFolders
<1>4. BoardTyped' /\ BoardCardsAreMade'
  BY <1>1, <1>3 DEF BoardTyped, BoardCardsAreMade
<1>5. BoardWrittenSoFar'
  BY <1>1, <1>3, BoardAssumption DEF BoardWrittenSoFar, BoardTyped, BoardUniverse
<1>6. B!MetaIsLast'
  <2>1. folder'[reviewDay].board = boards /\ \A j \in BoardUniverse :
          folder'[reviewDay].cards[j] = boards
    BY <1>1, <1>3 DEF BoardWrittenSoFar
  <2>2. BoardUniverse \in {Screen, Locked}
    BY DEF BoardUniverse
  <2>3. \/ \A j \in Screen : folder'[reviewDay].cards[j] >= boards
        \/ \A j \in Locked : folder'[reviewDay].cards[j] >= boards
    BY <1>1, <2>1, <2>2, BoardAssumption
  <2> QED
    BY <1>1, <1>3, <2>1, <2>3, BoardAssumption DEF B!MetaIsLast
<1>7. B!IndexedIsWritten'
  <2>1. \A d \in Days : folder[d].meta \in Nat /\ folder'[d].meta \in Nat
          /\ folder[d].meta <= folder'[d].meta
    BY <1>1, <1>2, <1>3, BoardAssumption DEF BoardWrittenSoFar, BoardFolders
  <2>2. \A r \in table : r \in Nat
    BY BoardAssumption DEF BoardTyped
  <2> QED
    BY <1>1, <2>1, <2>2 DEF B!IndexedIsWritten
<1> QED
  BY <1>4, <1>5, <1>6, <1>7

LEMMA BoardEndStep ==
    ASSUME BoardIInv, B!StampMeta \/ B!Die \/ \E indexed \in BOOLEAN : B!IndexRun(indexed)
    PROVE  BoardIInv'
<1> USE DEF BoardIInv
<1>1. /\ qPc # "idle" /\ qPc' = "idle" /\ facts' = B!Nothing /\ cards' = B!Nothing /\ left' = {}
      /\ UNCHANGED <<kind, reviewDay, folder, boards>>
      /\ \/ table' = table
         \/ qPc = "index" /\ table' = table \cup {boards}
  BY DEF B!StampMeta, B!Die, B!IndexRun, B!Ended
<1>2. boards \in 1..MaxBoards /\ reviewDay \in Days
  BY <1>1, BoardAssumption DEF BoardTyped
<1>3. BoardTyped' /\ BoardCardsAreMade'
  BY <1>1, <1>2 DEF BoardTyped, BoardCardsAreMade
<1>4. BoardWrittenSoFar' /\ B!MetaIsLast'
  BY <1>1 DEF BoardWrittenSoFar, B!MetaIsLast
<1>5. B!IndexedIsWritten'
  <2>1. CASE table' = table
    BY <1>1, <2>1 DEF B!IndexedIsWritten
  <2>2. CASE qPc = "index" /\ table' = table \cup {boards}
    <3>1. folder'[reviewDay].meta = boards /\ boards >= boards
      BY <1>1, <1>2, <2>2 DEF BoardWrittenSoFar
    <3> QED
      BY <1>1, <1>2, <2>2, <3>1 DEF B!IndexedIsWritten
  <2> QED
    BY <1>1, <2>1, <2>2
<1> QED
  BY <1>3, <1>4, <1>5

LEMMA BoardStepIInv == BoardIInv /\ [B!Next]_B!vars => BoardIInv'
<1> SUFFICES ASSUME BoardIInv, [B!Next]_B!vars PROVE BoardIInv'
  OBVIOUS
<1>1. ASSUME NEW d \in Days, NEW f \in [Screen -> Instruments], B!RunBoard(d, f) PROVE BoardIInv'
  BY <1>1, BoardRunStep
<1>2. ASSUME NEW d \in Days, NEW v \in B!Prepared, B!LockedPass(d, v) PROVE BoardIInv'
  BY <1>2, BoardRunStep
<1>3. CASE B!WriteBoard
  BY <1>3, BoardWriteBoardStep
<1>4. ASSUME NEW i \in Screen \cup Locked, B!WriteCard(i) PROVE BoardIInv'
  BY <1>4, BoardWriteCardStep
<1>5. CASE B!WriteMeta
  BY <1>5, BoardWriteMetaStep
<1>6. CASE B!StampMeta \/ B!Die \/ \E indexed \in BOOLEAN : B!IndexRun(indexed)
  BY <1>6, BoardEndStep
<1>7. CASE UNCHANGED B!vars
  BY <1>7 DEF B!vars, BoardIInv, BoardTyped, BoardCardsAreMade, BoardWrittenSoFar, BoardUniverse,
     B!MetaIsLast, B!IndexedIsWritten
<1> QED
  BY <1>1, <1>2, <1>3, <1>4, <1>5, <1>6, <1>7 DEF B!Next

LEMMA BoardIInvHolds == B!Spec => []BoardIInv
<1>1. B!Init => BoardIInv
  BY BoardInitIInv
<1>2. BoardIInv /\ [B!Next]_B!vars => BoardIInv'
  BY BoardStepIInv
<1> QED
  BY <1>1, <1>2, PTL DEF B!Spec

LEMMA BoardIInvIsHonest == BoardIInv => B!TypeOK /\ B!BoardIsHonest
<1> SUFFICES ASSUME BoardIInv PROVE B!TypeOK /\ B!BoardIsHonest
  OBVIOUS
<1>1. B!TypeOK
  BY BoardMadeCardsAreHonest DEF BoardIInv, BoardTyped, B!TypeOK, BoardFolders
<1>2. B!BoardIsHonest
  BY BoardMadeCardsAreHonest DEF BoardIInv, B!BoardIsHonest
<1> QED
  BY <1>1, <1>2

(* A step of the composition is one of this part, or leaves it alone.      *)
LEMMA BoardPart == ResearchSpec => B!Spec
<1>1. ResearchInit => B!Init
  BY DEF ResearchInit
<1>2. [ResearchNext]_researchVars => [B!Next]_B!vars
  BY DEF ResearchNext, researchVars, boardVars, B!vars
<1> QED
  BY <1>1, <1>2, PTL DEF ResearchSpec, B!Spec

(* A research priority stands on the raw facts, the board is capped by     *)
(* rank, gaps decide, and the run record is written last: for every        *)
(* universe, every snapshot and every cap.                                 *)
THEOREM BoardCorrect == ResearchSpec => []BoardIsHonest
<1>1. BoardIInv => BoardIsHonest
  BY BoardIInvIsHonest DEF BoardIsHonest
<1> QED
  BY <1>1, BoardPart, BoardIInvHolds, PTL

-----------------------------------------------------------------------------
(* The decay watch and the scorecards (QuantWatch).                        *)
(* The run has its pins.                                                   *)
WatchPinned == wPc \in {"hash", "again", "publish", "json", "md", "sha"} \/ W!Done

(* It has hashed the files, and hashed them a second time.                 *)
WatchHashed == wPc \in {"again", "publish", "json", "md", "sha"} \/ W!Done
WatchHashedTwice == wPc \in {"publish", "json", "md", "sha"} \/ W!Done

WatchFirst(k) == {Files[i] : i \in 1..k}

WatchTyped ==
    /\ wPc \in {"idle", "score", "pins", "hash", "again", "publish", "json", "md", "sha"}
    /\ product \in W!Products
    /\ content \in [W!Watched -> 0..2] /\ pin \in [W!Watched -> 0..2]
    /\ tagged \in 0..2
    /\ watches \in 0..MaxWatches /\ edits \in 0..MaxChanges
    /\ artifacts \in [W!Products -> [1..3 -> 0..MaxWatches]]

(* What a run has read is still so, but for the files that were edited.    *)
WatchTagsAreRead == WatchPinned \/ wPc = "pins" => tagged = content[Tags] \/ Tags \in moved

WatchPinsAreRead ==
    /\ DOMAIN expected \in {W!Watched, {}}
    /\ WatchPinned => /\ DOMAIN expected = IF config THEN W!Watched ELSE {}
                      /\ \A f \in DOMAIN expected : expected[f] = pin[f] \/ f \in moved

WatchRowsAreRead ==
    /\ wPc \in {"score", "pins"} => DOMAIN hashed = {}
    /\ DOMAIN hashed \subseteq DOMAIN expected
    /\ \A f \in DOMAIN hashed : /\ hashed[f].pin = expected[f]
                                /\ hashed[f].version = content[f] \/ f \in moved
    /\ wPc = "hash" => \E k \in 0..Len(Files) : DOMAIN hashed = WatchFirst(k)
    /\ WatchHashed => DOMAIN hashed = DOMAIN expected

WatchHashedAgain ==
    /\ DOMAIN again \subseteq W!Watched
    /\ WatchHashedTwice => DOMAIN again \subseteq DOMAIN hashed
    /\ \A f \in DOMAIN again : again[f] = content[f] \/ f \in moved

(* What is told follows from what was read.                                *)
WatchConclusion ==
    /\ wPc \in {"score", "pins", "hash", "again", "publish"} => ~W!Done
    /\ W!Done => /\ told.status = W!StatusOf /\ told.overall = W!Overall(W!Seen)
                 /\ told.alert <=> product = "decay" /\ W!Overall(W!Seen) # "MATCH"
                 /\ told.signal <=> W!Signalled
    /\ told.overall \in W!Verdicts \cup {"none"}

WatchArtifacts ==
    /\ W!HashFollowsDocument
    /\ \A p \in W!Products, i \in 1..3 : artifacts[p][i] <= watches
    /\ wPc \in {"md", "sha"} => artifacts[product][1] = watches
    /\ wPc = "sha" => artifacts[product][2] = watches

WatchIInv == WatchTyped /\ WatchTagsAreRead /\ WatchPinsAreRead /\ WatchRowsAreRead
  /\ WatchHashedAgain /\ WatchConclusion /\ WatchArtifacts

(* The cardinality that the module counts with is that of FiniteSets.      *)
LEMMA WatchSameCardinality == \A s : W!Cardinality(s) = Cardinality(s)
  BY DEF W!Cardinality, Cardinality

LEMMA WatchFirstFiles ==
    ASSUME NEW k \in 0..Len(Files)
    PROVE  WatchFirst(k) \subseteq W!Watched /\ IsFiniteSet(WatchFirst(k))
             /\ Cardinality(WatchFirst(k)) = k
<1> DEFINE g == [i \in 1..k |-> Files[i]]
<1>1. k \in Nat /\ 1..k \subseteq 1..Len(Files)
  BY WatchAssumption
<1>2. g \in Bijection(1..k, WatchFirst(k))
  BY <1>1, WatchAssumption DEF Bijection, Injection, Surjection, IsInjective, WatchFirst
<1>3. IsFiniteSet(1..k) /\ Cardinality(1..k) = k
  <2>1. 1 \in Int /\ k \in Int /\ (IF 1 > k THEN 0 ELSE k - 1 + 1) = k
    BY <1>1
  <2>2. \A a, b \in Int : /\ IsFiniteSet(a..b)
                          /\ Cardinality(a..b) = IF a > b THEN 0 ELSE b - a + 1
    BY FS_Interval
  <2> QED
    BY <2>1, <2>2
<1>4. IsFiniteSet(WatchFirst(k)) /\ Cardinality(WatchFirst(k)) = Cardinality(1..k)
  BY <1>2, <1>3, FS_Bijection DEF ExistsBijection
<1>5. WatchFirst(k) \subseteq W!Watched
  BY <1>1 DEF WatchFirst, W!Watched
<1> QED
  BY <1>3, <1>4, <1>5

LEMMA WatchAllFiles == WatchFirst(Len(Files)) = W!Watched
  BY DEF WatchFirst, W!Watched

(* Every entry has one of the four verdicts, and their worst is a verdict.   *)
LEMMA WatchVerdictsAre ==
    /\ \A entry : W!Verdict(entry) \in W!Verdicts
    /\ W!Overall(W!Seen) \in W!Verdicts
    /\ (\E v \in W!Seen : v # "MATCH") => W!Overall(W!Seen) # "MATCH"
    /\ W!Seen = {} => W!Overall(W!Seen) = "MISSING"
<1>1. \A entry : W!Verdict(entry) \in W!Verdicts
  BY DEF W!Verdict, W!Verdicts
<1>2. W!Seen \subseteq {"MATCH", "MISMATCH", "MISSING", "UNPINNED"}
  BY <1>1 DEF W!Seen, W!Verdicts
<1>3. \A s : s \subseteq {"MATCH", "MISMATCH", "MISSING", "UNPINNED"} =>
          /\ W!Overall(s) \in W!Verdicts
          /\ s = {} => W!Overall(s) = "MISSING"
          /\ (\E v \in s : v # "MATCH") => W!Overall(s) # "MATCH"
  BY DEF W!Overall, W!Verdicts
<1> QED
  BY <1>1, <1>2, <1>3

(* A conclusion stays what it was while the rows of its run do.            *)
LEMMA WatchSameConclusion ==
    ASSUME WatchConclusion, UNCHANGED <<product, packs, hashed, told>>,
           wPc' = wPc \/ wPc' \notin {"score", "pins", "hash", "again", "publish"}
    PROVE  WatchConclusion'
<1>1. W!StatusOf' = W!StatusOf /\ W!Overall(W!Seen)' = W!Overall(W!Seen)
  BY DEF W!StatusOf, W!Overall, W!Seen, W!Visible
<1>2. (W!Done' <=> W!Done) /\ (W!Signalled' <=> W!Signalled)
  BY DEF W!Done, W!Signalled, W!Seen
<1> QED
  BY <1>1, <1>2 DEF WatchConclusion

LEMMA WatchInitIInv == W!Init => WatchIInv
<1> SUFFICES ASSUME W!Init PROVE WatchIInv
  OBVIOUS
<1>1. ~W!Done /\ ~WatchPinned /\ ~WatchHashed /\ ~WatchHashedTwice /\ wPc = "idle"
  BY DEF W!Init, W!Done, WatchPinned, WatchHashed, WatchHashedTwice, W!NoResult
<1>2. WatchTyped
  <2>1. <<0, 0, 0>> \in [1..3 -> 0..MaxWatches]
    BY WatchAssumption
  <2> QED
    BY <2>1, WatchAssumption DEF W!Init, WatchTyped, W!Products
<1>3. DOMAIN hashed = {} /\ DOMAIN expected = {} /\ DOMAIN again = {}
  BY DEF W!Init, W!Nothing
<1>4. WatchTagsAreRead /\ WatchPinsAreRead /\ WatchRowsAreRead /\ WatchHashedAgain
  BY <1>1, <1>3 DEF WatchTagsAreRead, WatchPinsAreRead, WatchRowsAreRead, WatchHashedAgain
<1>5. WatchConclusion
  BY <1>1 DEF WatchConclusion, W!Init, W!NoResult
<1>6. WatchArtifacts
  <2>1. \A p \in W!Products : artifacts[p][1] = 0 /\ artifacts[p][2] = 0 /\ artifacts[p][3] = 0
    BY DEF W!Init
  <2> QED
    BY <1>1, <2>1 DEF WatchArtifacts, W!HashFollowsDocument, W!Init
<1> QED
  BY <1>2, <1>4, <1>5, <1>6 DEF WatchIInv

LEMMA WatchStartStep ==
    ASSUME WatchIInv, NEW p \in W!Products, NEW fixture, W!Start(p, fixture)
    PROVE  WatchIInv'
<1> USE DEF WatchIInv
<1>1. /\ wPc' = "score" /\ product' = p /\ hashed' = W!Nothing /\ again' = W!Nothing
      /\ told' = W!NoResult /\ watches < MaxWatches /\ watches' = watches + 1
      /\ UNCHANGED <<content, pin, config, tagged, expected, artifacts, edits>>
  BY DEF W!Start
<1>2. ~W!Done' /\ ~WatchPinned' /\ ~WatchHashed' /\ ~WatchHashedTwice'
  BY <1>1 DEF W!Done, WatchPinned, WatchHashed, WatchHashedTwice, W!NoResult
<1>3. DOMAIN hashed' = {} /\ DOMAIN again' = {}
  BY <1>1 DEF W!Nothing
<1>4. WatchTyped'
  BY <1>1, WatchAssumption DEF WatchTyped
<1>5. WatchTagsAreRead' /\ WatchPinsAreRead' /\ WatchRowsAreRead' /\ WatchHashedAgain'
  BY <1>1, <1>2, <1>3 DEF WatchTagsAreRead, WatchPinsAreRead, WatchRowsAreRead, WatchHashedAgain
<1>6. WatchConclusion'
  BY <1>1, <1>2 DEF WatchConclusion, W!NoResult
<1>7. WatchArtifacts'
  <2>1. \A q \in W!Products, i \in 1..3 : artifacts[q][i] \in Nat
          /\ artifacts'[q][i] = artifacts[q][i]
    BY <1>1, WatchAssumption DEF WatchTyped
  <2>2. \A q \in W!Products, i \in 1..3 : artifacts'[q][i] <= watches'
    BY <1>1, <2>1, WatchAssumption DEF WatchArtifacts, WatchTyped
  <2> QED
    BY <1>1, <2>1, <2>2 DEF WatchArtifacts, W!HashFollowsDocument
<1> QED
  BY <1>4, <1>5, <1>6, <1>7

LEMMA WatchReadStep ==
    ASSUME WatchIInv, W!Score \/ W!ReadPins
    PROVE  WatchIInv'
<1> USE DEF WatchIInv
<1>1. /\ UNCHANGED <<product, content, pin, config, packs, hashed, again, told, artifacts, moved,
         watches, edits>>
      /\ DOMAIN hashed = {} /\ ~W!Done
      /\ \/ wPc = "score" /\ wPc' = "pins" /\ tagged' = content[Tags] /\ expected' = expected
         \/ /\ wPc = "pins" /\ wPc' = "hash" /\ tagged' = tagged
            /\ expected' = IF config THEN pin ELSE W!Nothing
  BY DEF W!Score, W!ReadPins, WatchRowsAreRead, WatchConclusion
<1>2. ~W!Done' /\ ~WatchHashed' /\ ~WatchHashedTwice' /\ (WatchPinned' => wPc' = "hash")
  BY <1>1 DEF W!Done, WatchPinned, WatchHashed, WatchHashedTwice
<1>3. WatchTyped'
  BY <1>1, WatchAssumption DEF WatchTyped
<1>4. WatchTagsAreRead'
  BY <1>1 DEF WatchTagsAreRead
<1>5. WatchPinsAreRead'
  BY <1>1, <1>2 DEF WatchPinsAreRead, WatchTyped, W!Nothing
<1>6. WatchRowsAreRead'
  <2>1. {} = WatchFirst(0) /\ 0 \in 0..Len(Files)
    BY WatchAssumption DEF WatchFirst
  <2> QED
    BY <1>1, <1>2, <2>1 DEF WatchRowsAreRead
<1>7. WatchHashedAgain'
  BY <1>1, <1>2 DEF WatchHashedAgain
<1>8. WatchConclusion' /\ WatchArtifacts'
  BY <1>1, <1>2 DEF WatchConclusion, WatchArtifacts, W!HashFollowsDocument
<1> QED
  BY <1>3, <1>4, <1>5, <1>6, <1>7, <1>8

LEMMA WatchHashStep ==
    ASSUME WatchIInv, W!Hash
    PROVE  WatchIInv'
<1> USE DEF WatchIInv
<1>1. /\ wPc = "hash" /\ ~W!Done
      /\ UNCHANGED <<product, content, pin, config, packs, tagged, expected, again, told,
                     artifacts, moved, watches, edits>>
  BY DEF W!Hash, WatchConclusion
<1>2. wPc' \in {"hash", "again"} /\ ~W!Done' /\ WatchPinned /\ ~WatchHashedTwice'
  BY <1>1 DEF W!Done, WatchPinned, WatchHashedTwice, W!Hash
<1>3. WatchTyped' /\ WatchTagsAreRead' /\ WatchPinsAreRead' /\ WatchHashedAgain' /\ WatchArtifacts'
  BY <1>1, <1>2 DEF WatchTyped, WatchTagsAreRead, WatchPinsAreRead, WatchHashedAgain,
     WatchArtifacts, W!HashFollowsDocument
<1>4. WatchConclusion'
  BY <1>1, <1>2 DEF WatchConclusion
<1>5. WatchRowsAreRead'
  <2>1. CASE DOMAIN hashed = DOMAIN expected
    <3>1. wPc' = "again" /\ hashed' = hashed
      BY <2>1 DEF W!Hash
    <3> QED
      BY <1>1, <2>1, <3>1 DEF WatchRowsAreRead
  <2>2. CASE DOMAIN hashed # DOMAIN expected
    <3>1. DOMAIN expected = W!Watched /\ DOMAIN hashed # W!Watched
      BY <2>2 DEF WatchPinsAreRead, WatchRowsAreRead
    <3>2. PICK k \in 0..Len(Files) : DOMAIN hashed = WatchFirst(k)
      BY <1>1 DEF WatchRowsAreRead
    <3>3. k # Len(Files) /\ k \in Nat /\ k + 1 \in 1..Len(Files)
      BY <3>1, <3>2, WatchAllFiles, WatchAssumption
    <3> DEFINE f == Files[k + 1]
    <3>4. Cardinality(DOMAIN hashed) + 1 = k + 1
      BY <3>2, WatchFirstFiles
    <3>5. /\ wPc' = "hash"
          /\ hashed' = [x \in DOMAIN hashed \cup {f} |->
                           IF x = f THEN [version |-> content[f], pin |-> expected[f]]
                             ELSE hashed[x]]
      BY <1>1, <2>2, <3>4, WatchSameCardinality DEF W!Hash
    <3>6. f \in W!Watched /\ DOMAIN hashed' = DOMAIN hashed \cup {f}
      BY <3>3, <3>5 DEF W!Watched
    <3>7. WatchFirst(k + 1) = WatchFirst(k) \cup {f}
      BY <3>3, WatchAssumption DEF WatchFirst
    <3>8. k + 1 \in 0..Len(Files) /\ DOMAIN hashed' = WatchFirst(k + 1)
      BY <3>2, <3>3, <3>6, <3>7, WatchAssumption
    <3>9. \A x \in DOMAIN hashed' : /\ hashed'[x].pin = expected[x]
                                    /\ hashed'[x].version = content[x] \/ x \in moved
      BY <3>5, <3>6 DEF WatchRowsAreRead
    <3>10. ~WatchHashed'
      BY <1>2, <3>5 DEF WatchHashed
    <3> QED
      BY <1>1, <3>1, <3>5, <3>6, <3>8, <3>9, <3>10 DEF WatchRowsAreRead
  <2> QED
    BY <2>1, <2>2
<1> QED
  BY <1>3, <1>4, <1>5

LEMMA WatchAgainStep ==
    ASSUME WatchIInv, W!Again
    PROVE  WatchIInv'
<1> USE DEF WatchIInv
<1>1. /\ wPc = "again" /\ wPc' = "publish" /\ ~W!Done
         /\ again' = [f \in DOMAIN hashed \ {Tags} |-> content[f]]
      /\ UNCHANGED <<product, content, pin, config, packs, tagged, expected, hashed, told,
                     artifacts, moved, watches, edits>>
  BY DEF W!Again, WatchConclusion
<1>2. WatchPinned /\ WatchHashed /\ ~W!Done'
  BY <1>1 DEF WatchPinned, WatchHashed, W!Done
<1>3. WatchTyped' /\ WatchTagsAreRead' /\ WatchPinsAreRead' /\ WatchRowsAreRead' /\ WatchArtifacts'
  BY <1>1, <1>2 DEF WatchTyped, WatchTagsAreRead, WatchPinsAreRead, WatchRowsAreRead,
     WatchArtifacts, W!HashFollowsDocument
<1>4. WatchHashedAgain'
  <2>1. DOMAIN hashed \subseteq W!Watched
    BY DEF WatchRowsAreRead, WatchPinsAreRead
  <2> QED
    BY <1>1, <2>1 DEF WatchHashedAgain
<1>5. WatchConclusion'
  BY <1>1, <1>2 DEF WatchConclusion
<1> QED
  BY <1>3, <1>4, <1>5

LEMMA WatchPublishStep ==
    ASSUME WatchIInv, W!Publish
    PROVE  WatchIInv'
<1> USE DEF WatchIInv
<1>1. /\ wPc = "publish" /\ wPc' = "json"
      /\ told' = [status |-> W!StatusOf, overall |-> W!Overall(W!Seen),
                  alert |-> product = "decay" /\ W!Overall(W!Seen) # "MATCH",
                    signal |-> W!Signalled]
      /\ UNCHANGED <<product, content, pin, config, packs, tagged, expected, hashed, again,
                     artifacts, moved, watches, edits>>
  BY DEF W!Publish
<1>2. WatchPinned /\ WatchHashed /\ WatchHashedTwice
  BY <1>1 DEF WatchPinned, WatchHashed, WatchHashedTwice
<1>3. WatchTyped' /\ WatchTagsAreRead' /\ WatchPinsAreRead' /\ WatchRowsAreRead'
        /\ WatchHashedAgain' /\ WatchArtifacts'
  BY <1>1, <1>2 DEF WatchTyped, WatchTagsAreRead, WatchPinsAreRead, WatchRowsAreRead,
     WatchHashedAgain, WatchArtifacts, W!HashFollowsDocument
<1>4. /\ W!StatusOf' = W!StatusOf /\ W!Overall(W!Seen)' = W!Overall(W!Seen)
         /\ (W!Signalled' <=> W!Signalled)
  BY <1>1 DEF W!StatusOf, W!Overall, W!Seen, W!Signalled, W!Visible
<1>5. WatchConclusion'
  <2>1. /\ told'.status = W!StatusOf' /\ told'.overall = W!Overall(W!Seen)'
    BY <1>1, <1>4
  <2>2. told'.alert <=> product' = "decay" /\ W!Overall(W!Seen)' # "MATCH"
    BY <1>1, <1>4
  <2>3. told'.signal <=> W!Signalled'
    BY <1>1, <1>4
  <2>4. told'.overall \in W!Verdicts \cup {"none"}
    BY <2>1, <1>4, WatchVerdictsAre
  <2> QED
    BY <1>1, <2>1, <2>2, <2>3, <2>4 DEF WatchConclusion
<1> QED
  BY <1>3, <1>5

(* A document written, or the command stopped: what was read stays.        *)
LEMMA WatchWriteStep ==
    ASSUME WatchIInv,
           \/ W!Write("json", 1, "md") \/ W!Write("md", 2, "sha") \/ W!Write("sha", 3, "idle")
           \/ W!Stop
    PROVE  WatchIInv'
<1> USE DEF WatchIInv
<1>1. UNCHANGED <<product, content, pin, config, packs, tagged, expected, hashed, again, told,
        moved, watches, edits>>
  BY DEF W!Write, W!Stop
<1>2. /\ wPc' \in {"md", "sha", "idle"}
      /\ wPc' \in {"md", "sha"} => WatchPinned /\ WatchHashed /\ WatchHashedTwice
      /\ W!Done' <=> W!Done
  BY <1>1 DEF W!Write, W!Stop, WatchPinned, WatchHashed, WatchHashedTwice, W!Done
<1>3. WatchTagsAreRead' /\ WatchPinsAreRead' /\ WatchRowsAreRead' /\ WatchHashedAgain'
  <2>1. (WatchPinned' => WatchPinned) /\ (WatchHashed' => WatchHashed)
          /\ (WatchHashedTwice' => WatchHashedTwice)
    BY <1>2 DEF WatchPinned, WatchHashed, WatchHashedTwice
  <2> QED
    BY <1>1, <1>2, <2>1 DEF WatchTagsAreRead, WatchPinsAreRead, WatchRowsAreRead, WatchHashedAgain
<1>4. WatchConclusion'
  <2>1. wPc' \notin {"score", "pins", "hash", "again", "publish"}
    BY <1>2
  <2> QED
    BY <1>1, <2>1, WatchSameConclusion
<1>5. watches \in 0..MaxWatches /\ watches \in Nat /\ product \in W!Products
  BY WatchAssumption DEF WatchTyped
<1>6. \A p \in W!Products : /\ artifacts[p][1] \in Nat /\ artifacts[p][2] \in Nat
        /\ artifacts[p][3] \in Nat
                            /\ artifacts[p][3] <= artifacts[p][2]
                               /\ artifacts[p][2] <= artifacts[p][1] /\ artifacts[p][1] <= watches
  BY WatchAssumption DEF WatchTyped, WatchArtifacts, W!HashFollowsDocument
<1>7. ASSUME NEW i \in 1..3, wPc = <<"json", "md", "sha">>[i], wPc' = <<"md", "sha", "idle">>[i],
             artifacts' = [artifacts EXCEPT ![product][i] = watches]
      PROVE  WatchTyped' /\ WatchArtifacts'
  <2>1. /\ artifacts' \in [W!Products -> [1..3 -> 0..MaxWatches]]
        /\ \A p \in W!Products, j \in 1..3 : artifacts'[p][j] = IF p = product
           /\ j = i THEN watches ELSE artifacts[p][j]
    BY <1>5, <1>7 DEF WatchTyped
  <2>2. WatchTyped'
    BY <1>1, <1>2, <2>1 DEF WatchTyped
  <2>3. \A p \in W!Products : artifacts'[p][3] <= artifacts'[p][2]
          /\ artifacts'[p][2] <= artifacts'[p][1] /\ artifacts'[p][1] <= watches
    <3> TAKE p \in W!Products
    <3>1. CASE p # product
      BY <2>1, <3>1, <1>6
    <3>2. CASE p = product
      BY <2>1, <3>2, <1>5, <1>6, <1>7 DEF WatchArtifacts
    <3> QED
      BY <3>1, <3>2
  <2>4. \A p \in W!Products, j \in 1..3 : artifacts'[p][j] <= watches
    BY <2>1, <1>5 DEF WatchArtifacts
  <2>5. /\ wPc' \in {"md", "sha"} => artifacts'[product][1] = watches
        /\ wPc' = "sha" => artifacts'[product][2] = watches
    BY <1>5, <1>7, <2>1 DEF WatchArtifacts
  <2> QED
    BY <1>1, <2>2, <2>3, <2>4, <2>5 DEF WatchArtifacts, W!HashFollowsDocument
<1>8. ASSUME W!Stop PROVE WatchTyped' /\ WatchArtifacts'
  <2>1. wPc' = "idle" /\ artifacts' = artifacts
    BY <1>8 DEF W!Stop
  <2>2. WatchTyped'
    BY <1>1, <2>1 DEF WatchTyped
  <2> QED
    BY <1>1, <2>1, <2>2 DEF WatchArtifacts, W!HashFollowsDocument
<1>9. WatchTyped' /\ WatchArtifacts'
  <2>1. CASE W!Write("json", 1, "md")
    BY <2>1, <1>7 DEF W!Write
  <2>2. CASE W!Write("md", 2, "sha")
    BY <2>2, <1>7 DEF W!Write
  <2>3. CASE W!Write("sha", 3, "idle")
    BY <2>3, <1>7 DEF W!Write
  <2> QED
    BY <2>1, <2>2, <2>3, <1>8
<1> QED
  BY <1>3, <1>4, <1>9

LEMMA WatchEditStep ==
    ASSUME WatchIInv, NEW f \in W!Watched, NEW v \in 0..2, W!Edit(f, v) \/ W!Repin(f, v)
    PROVE  WatchIInv'
<1> USE DEF WatchIInv
<1>1. /\ UNCHANGED <<wPc, product, config, packs, tagged, expected, hashed, again, told, artifacts,
         watches>>
      /\ edits < MaxChanges /\ edits' = edits + 1 /\ moved' = moved \cup {f}
      /\ \/ content' = [content EXCEPT ![f] = v] /\ pin' = pin
         \/ pin' = [pin EXCEPT ![f] = v] /\ content' = content
  BY DEF W!Edit, W!Repin
<1>2. /\ content' \in [W!Watched -> 0..2] /\ pin' \in [W!Watched -> 0..2]
      /\ \A g \in W!Watched : g \in moved' \/ (content'[g] = content[g] /\ pin'[g] = pin[g])
  BY <1>1 DEF WatchTyped
<1>3. WatchTyped'
  BY <1>1, <1>2, WatchAssumption DEF WatchTyped
<1>4. (WatchPinned' <=> WatchPinned) /\ (WatchHashed' <=> WatchHashed)
        /\ (WatchHashedTwice' <=> WatchHashedTwice) /\ (W!Done' <=> W!Done)
  BY <1>1 DEF WatchPinned, WatchHashed, WatchHashedTwice, W!Done
<1>5. WatchTagsAreRead'
  BY <1>1, <1>2, <1>4, WatchAssumption DEF WatchTagsAreRead
<1>6. WatchPinsAreRead'
  BY <1>1, <1>2, <1>4 DEF WatchPinsAreRead
<1>7. WatchRowsAreRead'
  <2>1. DOMAIN hashed \subseteq W!Watched
    BY DEF WatchRowsAreRead, WatchPinsAreRead
  <2> QED
    BY <1>1, <1>2, <1>4, <2>1 DEF WatchRowsAreRead
<1>8. WatchHashedAgain'
  BY <1>1, <1>2, <1>4 DEF WatchHashedAgain
<1>9. WatchConclusion'
  BY <1>1, WatchSameConclusion
<1>10. WatchArtifacts'
  BY <1>1 DEF WatchArtifacts, W!HashFollowsDocument
<1> QED
  BY <1>3, <1>5, <1>6, <1>7, <1>8, <1>9, <1>10

LEMMA WatchStepIInv == WatchIInv /\ [W!Next]_W!vars => WatchIInv'
<1> SUFFICES ASSUME WatchIInv, [W!Next]_W!vars PROVE WatchIInv'
  OBVIOUS
<1>1. ASSUME NEW p \in W!Products, NEW fixture \in PackLists, W!Start(p, fixture) PROVE WatchIInv'
  BY <1>1, WatchStartStep
<1>2. CASE W!Score \/ W!ReadPins
  BY <1>2, WatchReadStep
<1>3. CASE W!Hash
  BY <1>3, WatchHashStep
<1>4. CASE W!Again
  BY <1>4, WatchAgainStep
<1>5. CASE W!Publish
  BY <1>5, WatchPublishStep
<1>6. CASE \/ W!Write("json", 1, "md") \/ W!Write("md", 2, "sha") \/ W!Write("sha", 3, "idle")
           \/ W!Stop
  BY <1>6, WatchWriteStep
<1>7. ASSUME NEW f \in W!Watched, NEW v \in 0..2, W!Edit(f, v) \/ W!Repin(f, v) PROVE WatchIInv'
  BY <1>7, WatchEditStep
<1>8. CASE UNCHANGED W!vars
  <2>1. WatchConclusion'
    BY <1>8, WatchSameConclusion DEF W!vars, WatchIInv
  <2> QED
    BY <1>8, <2>1 DEF W!vars, WatchIInv, WatchTyped, WatchTagsAreRead, WatchPinsAreRead,
       WatchRowsAreRead, WatchHashedAgain, WatchArtifacts,
                     W!HashFollowsDocument, WatchPinned, WatchHashed, WatchHashedTwice, W!Done
<1> QED
  BY <1>1, <1>2, <1>3, <1>4, <1>5, <1>6, <1>7, <1>8 DEF W!Next

LEMMA WatchIInvHolds == W!Spec => []WatchIInv
<1>1. W!Init => WatchIInv
  BY WatchInitIInv
<1>2. WatchIInv /\ [W!Next]_W!vars => WatchIInv'
  BY WatchStepIInv
<1> QED
  BY <1>1, <1>2, PTL DEF W!Spec

LEMMA WatchIInvIsHonest == WatchIInv => W!TypeOK /\ W!WatchIsHonest
<1> SUFFICES ASSUME WatchIInv PROVE W!TypeOK /\ W!WatchIsHonest
  OBVIOUS
<1> USE DEF WatchIInv
<1>1. W!TypeOK
  <2>1. DOMAIN hashed \subseteq DOMAIN expected /\ DOMAIN expected \subseteq W!Watched
          /\ DOMAIN again \subseteq W!Watched
    BY DEF WatchRowsAreRead, WatchPinsAreRead, WatchHashedAgain
  <2>2. \A p \in W!Products : \A i \in 1..3 : artifacts[p][i] \in 0..MaxWatches
    BY DEF WatchTyped
  <2> QED
    BY <2>1, <2>2 DEF WatchTyped, WatchConclusion, W!TypeOK
<1>2. W!Done => /\ DOMAIN hashed = IF config THEN W!Watched ELSE {}
                /\ \A f \in DOMAIN hashed \ moved : hashed[f].version = content[f]
                   /\ hashed[f].pin = pin[f]
                /\ DOMAIN again \subseteq DOMAIN hashed
  BY DEF WatchPinned, WatchHashed, WatchHashedTwice, WatchPinsAreRead, WatchRowsAreRead,
     WatchHashedAgain
<1>3. W!DriftIsTold
  <2> SUFFICES ASSUME W!Done, product = "decay" PROVE
        /\ config => \A f \in W!Watched \ moved :
              content[f] # pin[f] \/ content[f] = 0
                => told.status # "OK" /\ told.alert /\ told.signal
        /\ ~config => told.alert /\ told.overall = "MISSING" /\ told.status # "OK"
        /\ told.signal => told.alert
    BY DEF W!DriftIsTold
  <2>1. /\ told.status = (IF W!Overall(W!Seen) = "MATCH" THEN "OK" ELSE "DEGRADED")
        /\ told.overall = W!Overall(W!Seen)
    BY DEF WatchConclusion, W!StatusOf
  <2>2. /\ told.alert <=> W!Overall(W!Seen) # "MATCH"
        /\ told.signal <=> \E v \in W!Seen : v # "MATCH"
    BY DEF WatchConclusion, W!Signalled
  <2>3. ASSUME config, NEW f \in W!Watched \ moved, content[f] # pin[f] \/ content[f] = 0
        PROVE  told.status # "OK" /\ told.alert /\ told.signal
    <3>1. W!Verdict(hashed[f]) # "MATCH" /\ W!Verdict(hashed[f]) \in W!Seen
      BY <1>2, <2>3 DEF W!Verdict, W!Seen
    <3>2. W!Overall(W!Seen) # "MATCH"
      BY <3>1, WatchVerdictsAre
    <3>3. told.status # "OK"
      BY <2>1, <3>2
    <3> QED
      BY <2>2, <3>1, <3>2, <3>3
  <2>4. ASSUME ~config PROVE told.alert /\ told.overall = "MISSING" /\ told.status # "OK"
    <3>1. W!Seen = {}
      BY <1>2, <2>4 DEF W!Seen
    <3>2. W!Overall(W!Seen) = "MISSING"
      BY <3>1, WatchVerdictsAre
    <3>3. told.overall = "MISSING" /\ told.status # "OK"
      BY <2>1, <3>2
    <3> QED
      BY <2>2, <3>2, <3>3
  <2>5. told.signal => told.alert
    BY <2>2, WatchVerdictsAre
  <2> QED
    BY <2>3, <2>4, <2>5
<1>4. W!HashesAgree
  BY <1>2 DEF W!HashesAgree, WatchHashedAgain
<1>5. W!LikeForLike
  <2> SUFFICES ASSUME W!Done, NEW p \in W!Scored PROVE
        /\ packs[p[1]].asOf <= Clock /\ packs[p[2]].asOf <= Clock
        /\ packs[p[1]].key = packs[p[2]].key
        /\ config /\ Tags \notin moved /\ hashed[Tags].version = 1
           /\ W!Verdict(hashed[Tags]) = "MATCH" =>
               ~packs[p[1]].tag /\ ~packs[p[2]].tag
    BY DEF W!LikeForLike
  <2>1. p[1] \in W!Visible /\ p[2] \in W!Visible /\ W!Comparable(packs[p[1]], packs[p[2]])
    BY DEF W!Scored, W!Pairs
  <2>2. packs[p[1]].asOf <= Clock /\ packs[p[2]].asOf <= Clock
    BY <2>1 DEF W!Visible
  <2>3. packs[p[1]].key = packs[p[2]].key
    BY <2>1 DEF W!Comparable
  <2>4. config /\ Tags \notin moved /\ hashed[Tags].version = 1 => tagged = 1
    BY <1>2, WatchAssumption DEF WatchTagsAreRead, WatchPinned
  <2>5. config /\ Tags \notin moved /\ hashed[Tags].version = 1
          => ~packs[p[1]].tag /\ ~packs[p[2]].tag
    BY <2>1, <2>4 DEF W!Comparable
  <2> QED
    BY <2>2, <2>3, <2>5
<1>6. W!HashFollowsDocument
  BY DEF WatchArtifacts
<1> QED
  BY <1>1, <1>3, <1>4, <1>5, <1>6 DEF W!WatchIsHonest

(* A step of the composition is one of this part, or leaves it alone.      *)
LEMMA WatchPart == ResearchSpec => W!Spec
<1>1. ResearchInit => W!Init
  BY DEF ResearchInit
<1>2. [ResearchNext]_researchVars => [W!Next]_W!vars
  BY DEF ResearchNext, researchVars, watchVars, W!vars
<1> QED
  BY <1>1, <1>2, PTL DEF ResearchSpec, W!Spec

-----------------------------------------------------------------------------
(* The improvement queue (QueueSlot).                                      *)
(* What the file says: the item of an incident is never in progress.       *)
QueueFiled ==
    /\ status \in [Q!All -> Q!ImplementationStatuses \cup Q!IncidentStatuses]
    /\ cited \subseteq Incidents
    /\ changes \in 0..MaxEdits
    /\ \A i \in Incidents : status[i] # "IN_PROGRESS"

(* What the operators were told, at the latest now.                        *)
QueueTold ==
    /\ said.ok \in BOOLEAN
    /\ said = [ok |-> said.ok, open |-> said.open] /\ said.open \in SUBSET Incidents
    /\ DOMAIN answer = Operators
    /\ \A o \in Operators : /\ answer[o] = [item |-> answer[o].item, at |-> answer[o].at]
                            /\ answer[o].item \in Items \cup {"none"}
                            /\ answer[o].at \in 0..changes

QueueRaced == raced \in BOOLEAN /\ (Cardinality(Q!InProgress) > 1 => raced)

QueueIInv == QueueFiled /\ QueueTold /\ Q!AnswerIsCurrent /\ QueueRaced

(* The cardinality that the module counts with is that of FiniteSets.      *)
LEMMA QueueSameCardinality == \A s : Q!Cardinality(s) = Cardinality(s)
  BY DEF Q!Cardinality, Cardinality

LEMMA QueueOneInTheSlot == IsFiniteSet(Q!InProgress) /\ Cardinality(Q!InProgress) \in Nat
<1>1. Q!InProgress \in SUBSET Items
  BY DEF Q!InProgress
<1> QED
  BY <1>1, FS_Subset, FS_CardinalityType, QueueAssumption

LEMMA QueueOneInTheSlotNext == IsFiniteSet(Q!InProgress') /\ Cardinality(Q!InProgress') \in Nat
<1>1. Q!InProgress' \in SUBSET Items
  BY DEF Q!InProgress
<1> QED
  BY <1>1, FS_Subset, FS_CardinalityType, QueueAssumption

LEMMA QueueInitIInv == Q!Init => QueueIInv
<1> SUFFICES ASSUME Q!Init PROVE QueueIInv
  OBVIOUS
<1>1. Q!InProgress = {} /\ Cardinality(Q!InProgress) = 0
  <2>1. Q!InProgress = {}
    BY DEF Q!Init, Q!InProgress, Q!All
  <2> QED
    BY <2>1, FS_EmptySet
<1>2. QueueFiled
  BY QueueAssumption DEF Q!Init, QueueFiled, Q!All, Q!ImplementationStatuses, Q!IncidentStatuses
<1>3. QueueTold
  BY QueueAssumption DEF Q!Init, QueueTold, Q!NoAnswer
<1>4. Q!AnswerIsCurrent
  BY DEF Q!Init, Q!AnswerIsCurrent, Q!NoAnswer
<1>5. raced \in BOOLEAN
  BY Zenon DEF Q!Init
<1>6. QueueRaced
  BY <1>1, <1>5 DEF QueueRaced
<1> QED
  BY <1>2, <1>3, <1>4, <1>6 DEF QueueIInv

LEMMA QueueLookStep ==
    ASSUME QueueIInv, NEW o \in Operators, NEW i \in Q!All, Q!Look(o, i)
    PROVE  QueueIInv'
<1> USE DEF QueueIInv
<1>1. UNCHANGED <<status, cited, raced, changes>>
  BY DEF Q!Look
<1>2. QueueFiled' /\ Q!InProgress' = Q!InProgress
  BY <1>1 DEF QueueFiled, Q!InProgress
<1>3. QueueRaced'
  <2>1. raced' \in BOOLEAN
    BY <1>1, Zenon DEF QueueRaced
  <2> QED
    BY <1>1, <1>2, <2>1 DEF QueueRaced
<1>4. /\ answer' = [answer EXCEPT ![o] = IF Q!CanStart(i) THEN [item |-> i, at |-> changes]
         ELSE Q!NoAnswer]
      /\ said' = [ok |-> ~Q!Errors, open |-> {x \in Incidents : status[x] = "OPEN"}]
  BY DEF Q!Look
<1>5. Q!CanStart(i) => /\ i \in Items /\ Q!InProgress = {} /\ status[i] = "READY"
                       /\ \A x \in Incidents : status[x] = "CLOSED" => x \in cited
  BY DEF Q!CanStart, Q!Errors, Q!InProgress
<1>6. \A oo \in Operators : \/ answer'[oo] = answer[oo]
                            \/ answer'[oo] = Q!NoAnswer
                            \/ answer'[oo] = [item |-> i, at |-> changes] /\ Q!CanStart(i)
  BY <1>4 DEF QueueTold
<1>7. QueueTold'
  <2>1. \A oo \in Operators : /\ answer'[oo] = [item |-> answer'[oo].item, at |-> answer'[oo].at]
                              /\ answer'[oo].item \in Items \cup {"none"}
                              /\ answer'[oo].at \in 0..changes'
    <3> TAKE oo \in Operators
    <3>1. changes \in Nat /\ changes' = changes
      BY <1>1, QueueAssumption DEF QueueFiled
    <3>2. CASE answer'[oo] = answer[oo]
      BY <3>1, <3>2 DEF QueueTold
    <3>3. CASE answer'[oo] = Q!NoAnswer
      BY <3>1, <3>3 DEF Q!NoAnswer
    <3>4. CASE answer'[oo] = [item |-> i, at |-> changes] /\ Q!CanStart(i)
      BY <3>1, <3>4, <1>5
    <3> QED
      BY <1>6, <3>2, <3>3, <3>4
  <2>2. said'.ok \in BOOLEAN
    BY <1>4
  <2> QED
    BY <1>4, <2>1, <2>2 DEF QueueTold
<1>8. Q!AnswerIsCurrent'
  <2> SUFFICES ASSUME NEW oo \in Operators, answer'[oo].item # "none", answer'[oo].at = changes
               PROVE  /\ Q!InProgress = {} /\ status[answer'[oo].item] = "READY"
                      /\ \A x \in Incidents : status[x] = "CLOSED" => x \in cited
    BY <1>1, <1>2 DEF Q!AnswerIsCurrent
  <2>1. CASE answer'[oo] = answer[oo]
    BY <2>1 DEF Q!AnswerIsCurrent
  <2>2. CASE answer'[oo] = [item |-> i, at |-> changes] /\ Q!CanStart(i)
    BY <2>2, <1>5
  <2> QED
    BY <2>1, <2>2, <1>6 DEF Q!NoAnswer
<1> QED
  BY <1>2, <1>3, <1>7, <1>8

(* After an edit every answer is outdated.                                 *)
LEMMA QueueEditOutdates ==
    ASSUME QueueIInv, changes' = changes + 1,
           \A o \in Operators : answer'[o] = answer[o] \/ answer'[o] = Q!NoAnswer
    PROVE  Q!AnswerIsCurrent'
<1>1. changes \in Nat /\ \A o \in Operators : answer[o].at \in 0..changes
  BY QueueAssumption DEF QueueIInv, QueueFiled, QueueTold
<1>2. \A o \in Operators : answer'[o].item = "none" \/ answer'[o].at # changes'
  BY <1>1 DEF Q!NoAnswer
<1> QED
  BY <1>2 DEF Q!AnswerIsCurrent

LEMMA QueueBeginStep ==
    ASSUME QueueIInv, NEW o \in Operators, Q!Begin(o)
    PROVE  QueueIInv'
<1> USE DEF QueueIInv
<1> DEFINE i == answer[o].item
<1>1. /\ i \in Items /\ changes < MaxEdits /\ changes' = changes + 1
      /\ status' = [status EXCEPT ![i] = "IN_PROGRESS"]
      /\ answer' = [answer EXCEPT ![o] = Q!NoAnswer]
      /\ raced' = (raced \/ answer[o].at # changes)
      /\ UNCHANGED <<cited, said>>
  BY DEF Q!Begin, Q!Edit, QueueTold
<1>2. QueueFiled'
  BY <1>1, QueueAssumption DEF QueueFiled, Q!All, Q!ImplementationStatuses
<1>3. \A oo \in Operators : answer'[oo] = answer[oo] \/ answer'[oo] = Q!NoAnswer
  BY <1>1 DEF QueueTold
<1>4. QueueTold'
  <2>1. said'.ok \in BOOLEAN
    BY <1>1, Zenon DEF QueueTold
  <2>2. changes \in Nat
    BY QueueAssumption DEF QueueFiled
  <2>3. \A oo \in Operators : /\ answer'[oo] = [item |-> answer'[oo].item, at |-> answer'[oo].at]
                              /\ answer'[oo].item \in Items \cup {"none"}
                              /\ answer'[oo].at \in 0..changes'
    BY <1>1, <1>3, <2>2 DEF QueueTold, Q!NoAnswer
  <2> QED
    BY <1>1, <2>1, <2>3 DEF QueueTold
<1>5. Q!AnswerIsCurrent'
  BY <1>1, <1>3, QueueEditOutdates
<1>6. QueueRaced'
  <2>1. raced' \in BOOLEAN
    BY <1>1
  <2>2. CASE answer[o].at # changes
    BY <1>1, <2>1, <2>2 DEF QueueRaced
  <2>3. CASE answer[o].at = changes
    <3>1. Q!InProgress = {}
      BY <1>1, <2>3, QueueAssumption DEF Q!AnswerIsCurrent
    <3>2. Q!InProgress' = {i}
      BY <1>1, <3>1 DEF Q!InProgress, QueueFiled, Q!All
    <3>3. Cardinality(Q!InProgress') = 1
      BY <3>2, FS_Singleton
    <3> QED
      BY <2>1, <3>3 DEF QueueRaced
  <2> QED
    BY <2>2, <2>3
<1> QED
  BY <1>2, <1>4, <1>5, <1>6

LEMMA QueueOtherEditStep ==
    ASSUME QueueIInv, NEW i \in Q!All, NEW s,
           \/ i \in Items /\ Q!Leave(i, s)
           \/ \E c \in BOOLEAN : Q!Incident(i, s, c)
    PROVE  QueueIInv'
<1> USE DEF QueueIInv
<1>1. /\ changes < MaxEdits /\ changes' = changes + 1
      /\ status' = [status EXCEPT ![i] = s] /\ s # "IN_PROGRESS"
      /\ s \in Q!ImplementationStatuses \cup Q!IncidentStatuses
      /\ cited' \subseteq Incidents
      /\ UNCHANGED <<said, answer, raced>>
  BY DEF Q!Leave, Q!Incident, Q!Edit, QueueFiled, Q!ImplementationStatuses, Q!IncidentStatuses
<1>2. QueueFiled'
  BY <1>1, QueueAssumption DEF QueueFiled
<1>3. QueueTold'
  <2>1. said'.ok \in BOOLEAN
    BY <1>1, Zenon DEF QueueTold
  <2>2. changes \in Nat
    BY QueueAssumption DEF QueueFiled
  <2> QED
    BY <1>1, <2>1, <2>2 DEF QueueTold
<1>4. Q!AnswerIsCurrent'
  BY <1>1, QueueEditOutdates
<1>5. QueueRaced'
  <2>1. raced' \in BOOLEAN
    BY <1>1, Zenon DEF QueueRaced
  <2>2. Q!InProgress' \in SUBSET Q!InProgress
    BY <1>1 DEF Q!InProgress, QueueFiled, Q!All
  <2>3. Cardinality(Q!InProgress') <= Cardinality(Q!InProgress)
    BY <2>2, QueueOneInTheSlot, FS_Subset
  <2> QED
    BY <1>1, <2>1, <2>3, QueueOneInTheSlot, QueueOneInTheSlotNext DEF QueueRaced
<1> QED
  BY <1>2, <1>3, <1>4, <1>5

LEMMA QueueStepIInv == QueueIInv /\ [Q!Next]_Q!vars => QueueIInv'
<1> SUFFICES ASSUME QueueIInv, [Q!Next]_Q!vars PROVE QueueIInv'
  OBVIOUS
<1>1. ASSUME NEW o \in Operators, Q!Begin(o) PROVE QueueIInv'
  BY <1>1, QueueBeginStep
<1>2. ASSUME NEW o \in Operators, NEW i \in Q!All, Q!Look(o, i) PROVE QueueIInv'
  BY <1>2, QueueLookStep
<1>3. ASSUME NEW i \in Items, NEW s \in {"READY", "PARKED", "DONE", "INTAKE_ONLY"}, Q!Leave(i, s)
      PROVE  QueueIInv'
  BY <1>3, QueueOtherEditStep DEF Q!All
<1>4. ASSUME NEW i \in Incidents, NEW s \in {"OPEN", "ELIGIBLE", "CLOSED"}, NEW c \in BOOLEAN,
             Q!Incident(i, s, c)
      PROVE  QueueIInv'
  BY <1>4, QueueOtherEditStep DEF Q!All
<1>5. CASE UNCHANGED Q!vars
  BY <1>5 DEF Q!vars, QueueIInv, QueueFiled, QueueTold, Q!AnswerIsCurrent, QueueRaced, Q!InProgress
<1> QED
  BY <1>1, <1>2, <1>3, <1>4, <1>5 DEF Q!Next

LEMMA QueueIInvHolds == Q!Spec => []QueueIInv
<1>1. Q!Init => QueueIInv
  BY QueueInitIInv
<1>2. QueueIInv /\ [Q!Next]_Q!vars => QueueIInv'
  BY QueueStepIInv
<1> QED
  BY <1>1, <1>2, PTL DEF Q!Spec

LEMMA QueueIInvIsHonest == QueueIInv => Q!TypeOK /\ Q!QueueIsHonest
<1> SUFFICES ASSUME QueueIInv PROVE Q!TypeOK /\ Q!QueueIsHonest
  OBVIOUS
<1>1. said \in [ok : BOOLEAN, open : SUBSET Incidents]
  BY DEF QueueIInv, QueueTold
<1>2. raced \in BOOLEAN
  BY Zenon DEF QueueIInv, QueueRaced
<1>3. \A o \in Operators : answer[o].item \in Q!All \cup {"none"} /\ answer[o].at \in 0..MaxEdits
  BY QueueAssumption DEF QueueIInv, QueueFiled, QueueTold, Q!All
<1>4. Q!TypeOK
  BY <1>1, <1>2, <1>3 DEF QueueIInv, QueueFiled, Q!TypeOK
<1>5. Q!QueueIsHonest
  BY QueueSameCardinality DEF QueueIInv, Q!QueueIsHonest, Q!SlotIsSingle, QueueFiled, QueueRaced
<1> QED
  BY <1>4, <1>5

(* A step of the composition is one of this part, or leaves it alone.      *)
LEMMA QueuePart == ResearchSpec => Q!Spec
<1>1. ResearchInit => Q!Init
  BY DEF ResearchInit
<1>2. [ResearchNext]_researchVars => [Q!Next]_Q!vars
  BY DEF ResearchNext, researchVars, queueVars, Q!vars
<1> QED
  BY <1>1, <1>2, PTL DEF ResearchSpec, Q!Spec

(* Drift of a watched file is told, numbers compare like with like, and    *)
(* the slot of the queue is single among operators who act on a current    *)
(* answer: for any files, pins, packs, items and operators, edited at any  *)
(* time.                                                                   *)
THEOREM OperatorsCorrect == ResearchSpec => []OperatorsAreTold
<1>1. WatchIInv /\ QueueIInv => OperatorsAreTold
  BY WatchIInvIsHonest, QueueIInvIsHonest DEF OperatorsAreTold
<1> QED
  BY <1>1, WatchPart, QueuePart, WatchIInvHolds, QueueIInvHolds, PTL

-----------------------------------------------------------------------------
(* The gates of an idea (IdeaGates).                                       *)
LEMMA IdeaSameCardinality == \A s : G!Cardinality(s) = Cardinality(s)
  BY DEF G!Cardinality, Cardinality

IdeaIdeas == [name : Names, horizon : Horizons, ok : BOOLEAN, size : G!Sizes]

IdeaRead ==
    /\ list \in Lists /\ tape \in TapeSet /\ day \in 0..MaxDay
    /\ open \in {"no", "refused", "yes"}
    /\ ideas \in Seq(IdeaIdeas)
    /\ open # "yes" => ideas = <<>>
    /\ open = "yes" => G!Loadable(list)

(* An idea of the round is as its gates and its policy were.               *)
IdeaJudged ==
    \A i \in 1..Len(ideas) :
        /\ ideas[i].ok <=> G!Reason(ideas[i].name, ideas[i].horizon) = "ok"
        /\ ideas[i].size = "cluster_capped" => G!Policy(ideas[i].name) = "cluster_capped"

(* The caps of the round, with the library's cardinality.                  *)
IdeaCapped ==
    /\ \A i \in G!Sized : Cardinality(G!SizedIn(list[ideas[i].name].cluster)) <= MaxPerCluster
    /\ \A r \in {list[n].round : n \in Names} :
          Cardinality({i \in G!Sized : list[ideas[i].name].round = r}) <= MaxPerRound
    /\ corr # "low" => G!SizedIn("semis_ai") = {} \/ G!SizedIn("index_futures") = {}

LEMMA IdeaCappedIs == IdeaCapped <=> G!RoundIsNetted
  BY DEF IdeaCapped, G!RoundIsNetted, G!Cardinality, Cardinality

LEMMA IdeaAtCapIs == \A n : G!AtCap(n) <=>
    \/ Cardinality(G!SizedIn(list[n].cluster)) >= MaxPerCluster
    \/ Cardinality({i \in G!Sized : list[ideas[i].name].round = list[n].round}) >= MaxPerRound
  BY DEF G!AtCap, G!Cardinality, Cardinality

IdeaIInv == IdeaRead /\ IdeaJudged /\ IdeaCapped

LEMMA IdeaInitIInv == G!Init => IdeaIInv
<1> SUFFICES ASSUME G!Init PROVE IdeaIInv
  OBVIOUS
<1>1. ideas = <<>> /\ Len(ideas) = 0 /\ DOMAIN ideas = {}
  BY DEF G!Init
<1>2. IdeaRead
  BY IdeaAssumption DEF G!Init, IdeaRead
<1>3. IdeaJudged
  BY <1>1 DEF IdeaJudged
<1>4. G!Sized = {}
  BY <1>1 DEF G!Sized
<1>5. IdeaCapped
  <2>1. \A r : {i \in G!Sized : list[ideas[i].name].round = r} = {}
    BY <1>4
  <2>2. \A c : G!SizedIn(c) = {}
    BY <1>4 DEF G!SizedIn
  <2>3. Cardinality({}) = 0 /\ MaxPerRound \in Nat
    BY IdeaSameCardinality, FS_EmptySet, IdeaAssumption
  <2>4. ASSUME NEW r PROVE Cardinality({i \in G!Sized :
                 list[ideas[i].name].round = r}) <= MaxPerRound
    <3> DEFINE s == {i \in G!Sized : list[ideas[i].name].round = r}
    <3>1. s = {}
      BY <2>1
    <3> HIDE DEF s
    <3>2. Cardinality(s) <= MaxPerRound
      BY <2>3, <3>1
    <3> QED
      BY <3>2 DEF s
  <2> QED
    BY <1>4, <2>2, <2>4 DEF IdeaCapped
<1> QED
  BY <1>2, <1>3, <1>5 DEF IdeaIInv

(* An idea more: the earlier ones are as they were.                        *)
LEMMA IdeaAppended ==
    ASSUME IdeaRead, NEW n \in Names, NEW h \in Horizons, G!Net(n, h)
    PROVE  LET k == Len(ideas) + 1
               x == G!Netted(n, h)
           IN  /\ k \in Nat /\ k \notin 1..Len(ideas) /\ 1..Len(ideas') = 1..Len(ideas) \cup {k}
               /\ ideas' \in Seq(IdeaIdeas) /\ ideas'[k] = x /\ \A i \in 1..Len(ideas) :
                  ideas'[i] = ideas[i]
               /\ x.name = n /\ x.horizon = h /\ (x.ok <=> G!Reason(n, h) = "ok")
               /\ x.size = (IF G!Policy(n) = "cluster_capped"
                  /\ (G!Nets(list[n].cluster) \/ G!AtCap(n))
                            THEN "UNSIZED" ELSE G!Policy(n))
<1> DEFINE k == Len(ideas) + 1
           x == G!Netted(n, h)
<1>1. ideas \in Seq(IdeaIdeas) /\ ideas' = Append(ideas, x)
  BY DEF IdeaRead, G!Net
<1>2. /\ x.name = n /\ x.horizon = h /\ x.ok = (G!Reason(n, h) = "ok")
      /\ x.size = (IF G!Policy(n) = "cluster_capped" /\ (G!Nets(list[n].cluster) \/ G!AtCap(n))
                   THEN "UNSIZED" ELSE G!Policy(n))
      /\ x = [name |-> x.name, horizon |-> x.horizon, ok |-> x.ok, size |-> x.size]
  BY DEF G!Netted
<1> HIDE DEF x
<1>3. (x.ok <=> G!Reason(n, h) = "ok") /\ x.ok \in BOOLEAN
  BY <1>2, Zenon
<1>4. G!Policy(n) \in G!Sizes
  BY DEF G!Policy, G!Sizes
<1>5. x.size \in G!Sizes
  BY <1>2, <1>4 DEF G!Sizes
<1>6. x \in IdeaIdeas
  <2>1. [name |-> n, horizon |-> h, ok |-> x.ok, size |-> x.size] \in IdeaIdeas
    BY <1>3, <1>5, Zenon DEF IdeaIdeas
  <2> QED
    BY <1>2, <2>1
<1>7. /\ k \in Nat /\ k \notin 1..Len(ideas) /\ 1..Len(ideas') = 1..Len(ideas) \cup {k}
      /\ ideas' \in Seq(IdeaIdeas) /\ ideas'[k] = x /\ \A i \in 1..Len(ideas) : ideas'[i] = ideas[i]
  BY <1>1, <1>6
<1> QED
  BY <1>2, <1>3, <1>7 DEF x

LEMMA IdeaSizedIs == ASSUME IdeaRead
                     PROVE  /\ DOMAIN ideas = 1..Len(ideas) /\ Len(ideas) \in Nat
                            /\ G!Sized \subseteq 1..Len(ideas) /\ IsFiniteSet(G!Sized)
                            /\ \A s : s \subseteq G!Sized
                               => IsFiniteSet(s) /\ Cardinality(s) \in Nat
<1>1. DOMAIN ideas = 1..Len(ideas) /\ Len(ideas) \in Nat
  BY DEF IdeaRead
<1>2. G!Sized \subseteq 1..Len(ideas)
  BY <1>1 DEF G!Sized
<1>3. IsFiniteSet(1..Len(ideas))
  BY <1>1, FS_Interval
<1>4. \A s : s \subseteq G!Sized => IsFiniteSet(s) /\ Cardinality(s) \in Nat
  BY <1>2, <1>3, IdeaSameCardinality, FS_Subset, FS_CardinalityType
<1> QED
  BY <1>1, <1>2, <1>4

LEMMA IdeaNetStep ==
    ASSUME IdeaIInv, NEW n \in Names, NEW h \in Horizons, G!Net(n, h)
    PROVE  IdeaIInv'
<1> USE DEF IdeaIInv
<1> DEFINE k == Len(ideas) + 1
           x == G!Netted(n, h)
<1>0. /\ UNCHANGED <<list, open, day, corr, tape>> /\ open = "yes"
  BY DEF G!Net
<1>1. /\ k \in Nat /\ k \notin 1..Len(ideas) /\ 1..Len(ideas') = 1..Len(ideas) \cup {k}
      /\ ideas' \in Seq(IdeaIdeas) /\ ideas'[k] = x /\ \A i \in 1..Len(ideas) : ideas'[i] = ideas[i]
      /\ x.name = n /\ x.horizon = h /\ (x.ok <=> G!Reason(n, h) = "ok")
      /\ x.size = (IF G!Policy(n) = "cluster_capped" /\ (G!Nets(list[n].cluster) \/ G!AtCap(n))
                   THEN "UNSIZED" ELSE G!Policy(n))
  BY IdeaAppended
<1> HIDE DEF x, k
<1>2. \A a, b : G!Reason(a, b)' = G!Reason(a, b) /\ G!Policy(a)' = G!Policy(a)
  BY <1>0 DEF G!Reason, G!Policy, G!Tier, G!LockedUp, G!Blocking, G!Window
<1>3. IdeaRead'
  BY <1>0, <1>1 DEF IdeaRead, G!Loadable, G!Tier
<1>4. IdeaJudged'
  <2> SUFFICES ASSUME NEW i \in 1..Len(ideas')
               PROVE  /\ ideas'[i].ok <=> G!Reason(ideas'[i].name, ideas'[i].horizon) = "ok"
                      /\ ideas'[i].size = "cluster_capped"
                         => G!Policy(ideas'[i].name) = "cluster_capped"
    <3>1. \A i : /\ G!Reason(ideas[i].name, ideas[i].horizon)'
                    = G!Reason(ideas'[i].name, ideas'[i].horizon)
                 /\ G!Policy(ideas[i].name)' = G!Policy(ideas'[i].name)
      BY <1>0 DEF G!Reason, G!Policy, G!Tier, G!LockedUp, G!Blocking, G!Window
    <3> QED
      BY <3>1 DEF IdeaJudged
  <2>1. CASE i \in 1..Len(ideas)
    BY <1>1, <2>1 DEF IdeaJudged
  <2>2. CASE i = k
    BY <1>1, <2>2
  <2> QED
    BY <1>1, <2>1, <2>2
<1>5. IdeaCapped'
  <2> DEFINE new == x.ok /\ x.size = "cluster_capped"
             inRound(r) == {i \in G!Sized : list[ideas[i].name].round = r}
             c == list[n].cluster
             q == list[n].round
  <2>1. /\ DOMAIN ideas = 1..Len(ideas) /\ DOMAIN ideas' = 1..Len(ideas')
           /\ G!Sized \subseteq 1..Len(ideas)
        /\ \A s : s \subseteq G!Sized => IsFiniteSet(s) /\ Cardinality(s) \in Nat
    BY <1>1, IdeaSizedIs
  <2>2. G!Sized' = G!Sized \cup {i \in {k} : new}
    BY <1>1, <2>1 DEF G!Sized
  <2>3. \A b : G!SizedIn(b)' = G!SizedIn(b) \cup {i \in {k} : new /\ c = b}
    BY <1>0, <1>1, <2>1, <2>2 DEF G!SizedIn
  <2>4. \A r : {i \in G!Sized' : list'[ideas'[i].name].round = r}
               = inRound(r) \cup {i \in {k} : new /\ q = r}
    BY <1>0, <1>1, <2>1, <2>2
  <2>5. CASE ~new
    <3>1. G!Sized' = G!Sized /\ (\A b : G!SizedIn(b)' = G!SizedIn(b))
          /\ \A r : {i \in G!Sized' : list'[ideas'[i].name].round = r} = inRound(r)
      BY <2>2, <2>3, <2>4, <2>5
    <3>2. \A i \in G!Sized' : Cardinality(G!SizedIn(list[ideas[i].name].cluster))' <= MaxPerCluster
      <4> SUFFICES ASSUME NEW i \in G!Sized
                   PROVE  Cardinality(G!SizedIn(list[ideas[i].name].cluster))' <= MaxPerCluster
        BY <3>1
      <4>1. ideas'[i] = ideas[i]
        BY <1>1, <2>1
      <4>2. G!SizedIn(list[ideas[i].name].cluster)' = G!SizedIn(list[ideas[i].name].cluster)
        <5>1. G!SizedIn(list[ideas[i].name].cluster)
              = {j \in G!Sized : list[ideas[j].name].cluster = list[ideas[i].name].cluster}
          BY DEF G!SizedIn
        <5>2. G!SizedIn(list[ideas[i].name].cluster)'
              = {j \in G!Sized' : list'[ideas'[j].name].cluster = list'[ideas'[i].name].cluster}
          BY DEF G!SizedIn
        <5>3. \A j \in G!Sized : ideas'[j] = ideas[j]
          BY <1>1, <2>1
        <5> QED
          BY <1>0, <3>1, <4>1, <5>1, <5>2, <5>3
      <4> QED
        BY <4>2 DEF IdeaCapped
    <3>3. \A r \in {list'[m].round : m \in Names} :
             Cardinality({i \in G!Sized' : list'[ideas'[i].name].round = r}) <= MaxPerRound
      <4> SUFFICES ASSUME NEW r \in {list[m].round : m \in Names}
                   PROVE  Cardinality({i \in G!Sized' :
                            list'[ideas'[i].name].round = r}) <= MaxPerRound
        BY <1>0
      <4>1. {i \in G!Sized' : list'[ideas'[i].name].round = r} = inRound(r)
        BY <3>1
      <4>2. Cardinality(inRound(r)) <= MaxPerRound
        BY DEF IdeaCapped
      <4> HIDE DEF inRound
      <4> QED
        BY <4>1, <4>2
    <3>4. corr' # "low" => G!SizedIn("semis_ai")' = {} \/ G!SizedIn("index_futures")' = {}
      BY <1>0, <3>1 DEF IdeaCapped
    <3> QED
      BY <3>2, <3>3, <3>4 DEF IdeaCapped
  <2>6. CASE new
    <3>1. ~G!Nets(c) /\ ~G!AtCap(n)
      BY <1>1, <2>6
    <3>2. /\ Cardinality(G!SizedIn(c)) + 1 <= MaxPerCluster
             /\ Cardinality(inRound(q)) + 1 <= MaxPerRound
      <4>1. G!SizedIn(c) \subseteq G!Sized /\ inRound(q) \subseteq G!Sized
        BY DEF G!SizedIn
      <4>2. Cardinality(G!SizedIn(c)) \in Nat /\ Cardinality(inRound(q)) \in Nat
        BY <2>1, <4>1
      <4> HIDE DEF inRound, c, q
      <4>3. ~(Cardinality(G!SizedIn(c)) >= MaxPerCluster)
              /\ ~(Cardinality(inRound(q)) >= MaxPerRound)
        BY <3>1, IdeaAtCapIs DEF inRound, c, q
      <4> QED
        BY <4>2, <4>3, IdeaAssumption
    <3>3. \A s : s \subseteq G!Sized => Cardinality(s \cup {k}) = Cardinality(s) + 1
      <4> SUFFICES ASSUME NEW s, s \subseteq G!Sized
        PROVE Cardinality(s \cup {k}) = Cardinality(s) + 1
        OBVIOUS
      <4>1. IsFiniteSet(s) /\ k \notin s
        BY <1>1, <2>1
      <4> QED
        BY <4>1, IdeaSameCardinality, FS_AddElement
    <3>4. \A b : /\ G!SizedIn(b) \subseteq G!Sized
                 /\ b = c => G!SizedIn(b)' = G!SizedIn(b) \cup {k}
                 /\ b # c => G!SizedIn(b)' = G!SizedIn(b)
      BY <2>3, <2>6 DEF G!SizedIn
    <3>5. \A i \in G!Sized' : Cardinality(G!SizedIn(list[ideas[i].name].cluster))' <= MaxPerCluster
      <4> SUFFICES ASSUME NEW i \in G!Sized'
                   PROVE  Cardinality(G!SizedIn(list[ideas[i].name].cluster))' <= MaxPerCluster
        OBVIOUS
      <4> DEFINE b == list[ideas'[i].name].cluster
                 now(z) == {j \in G!Sized' : list'[ideas'[j].name].cluster = z}
      <4>1. \A z : G!SizedIn(z)' = now(z)
        BY DEF G!SizedIn
      <4>2. G!SizedIn(list[ideas[i].name].cluster)' = now(b)
        BY <1>0 DEF G!SizedIn
      <4>4. CASE b = c
        <5>1. now(b) = G!SizedIn(c) \cup {k}
          BY <3>4, <4>1, <4>4
        <5> HIDE DEF now, b, c
        <5>2. Cardinality(now(b)) <= MaxPerCluster
          BY <3>2, <3>3, <3>4, <5>1
        <5> QED
          BY <4>2, <5>2
      <4>5. CASE b # c
        <5>1. now(b) = G!SizedIn(b) /\ i # k
          BY <1>1, <3>4, <4>1, <4>5
        <5>2. i \in G!Sized /\ ideas'[i] = ideas[i]
          BY <1>1, <2>1, <2>2, <5>1
        <5>3. Cardinality(G!SizedIn(b)) <= MaxPerCluster
          BY <5>2 DEF IdeaCapped
        <5> HIDE DEF now, b
        <5> QED
          BY <4>2, <5>1, <5>3
      <4> QED
        BY <4>4, <4>5
    <3>6. \A r \in {list'[m].round : m \in Names} :
             Cardinality({i \in G!Sized' : list'[ideas'[i].name].round = r}) <= MaxPerRound
      <4> SUFFICES ASSUME NEW r \in {list[m].round : m \in Names}
                   PROVE  Cardinality({i \in G!Sized' :
                            list'[ideas'[i].name].round = r}) <= MaxPerRound
        BY <1>0
      <4>0. {i \in G!Sized' : list'[ideas'[i].name].round = r}
            = inRound(r) \cup {i \in {k} : new /\ q = r}
        BY <2>4
      <4>1. inRound(r) \subseteq G!Sized
        OBVIOUS
      <4>2. Cardinality(inRound(r)) <= MaxPerRound
        BY DEF IdeaCapped
      <4>3. CASE q = r
        <5>1. {i \in {k} : new /\ q = r} = {k}
          BY <2>6, <4>3
        <5> HIDE DEF inRound, q, new
        <5> QED
          BY <3>2, <3>3, <4>0, <4>1, <4>3, <5>1
      <4>4. CASE q # r
        <5>1. {i \in {k} : new /\ q = r} = {}
          BY <4>4
        <5> HIDE DEF inRound, q, new
        <5>2. inRound(r) \cup {} = inRound(r)
          OBVIOUS
        <5> QED
          BY <4>0, <4>2, <5>1, <5>2
      <4> QED
        BY <4>3, <4>4
    <3>7. corr' # "low" => G!SizedIn("semis_ai")' = {} \/ G!SizedIn("index_futures")' = {}
      <4> SUFFICES ASSUME corr # "low"
                   PROVE  G!SizedIn("semis_ai")' = {} \/ G!SizedIn("index_futures")' = {}
        BY <1>0
      <4> HIDE DEF c
      <4>1. G!SizedIn("semis_ai") = {} \/ G!SizedIn("index_futures") = {}
        BY DEF IdeaCapped
      <4>2. c = "index_futures" => G!SizedIn("semis_ai") = {} /\ c # "semis_ai"
        BY <3>1 DEF G!Nets
      <4>3. c = "semis_ai" => G!SizedIn("index_futures") = {} /\ c # "index_futures"
        BY <3>1 DEF G!Nets
      <4> QED
        BY <3>4, <4>1, <4>2, <4>3
    <3> QED
      BY <3>5, <3>6, <3>7 DEF IdeaCapped
  <2> QED
    BY <2>5, <2>6
<1> QED
  BY <1>3, <1>4, <1>5

LEMMA IdeaRoundStays == UNCHANGED <<list, ideas, corr>> /\ IdeaCapped => IdeaCapped'
<1> SUFFICES ASSUME UNCHANGED <<list, ideas, corr>>, IdeaCapped PROVE IdeaCapped'
  OBVIOUS
<1>1. G!Sized' = G!Sized /\ \A b : G!SizedIn(b)' = G!SizedIn(b)
  BY DEF G!SizedIn, G!Sized
<1>2. \A i : G!SizedIn(list[ideas[i].name].cluster)' = G!SizedIn(list[ideas[i].name].cluster)
  BY DEF G!SizedIn, G!Sized
<1>3. \A r : {i \in G!Sized' : list'[ideas'[i].name].round = r} = {i \in G!Sized :
        list[ideas[i].name].round = r}
  BY <1>1
<1>4. \A r \in {list'[m].round : m \in Names} :
          Cardinality({i \in G!Sized' : list'[ideas'[i].name].round = r}) <= MaxPerRound
  <2> SUFFICES ASSUME NEW r \in {list[m].round : m \in Names}
               PROVE  Cardinality({i \in G!Sized' : list'[ideas'[i].name].round = r}) <= MaxPerRound
    OBVIOUS
  <2>1. Cardinality({i \in G!Sized : list[ideas[i].name].round = r}) <= MaxPerRound
    BY DEF IdeaCapped
  <2> QED
    BY <1>3, <2>1
<1> QED
  BY <1>1, <1>2, <1>4 DEF IdeaCapped

LEMMA IdeaOpenStep == IdeaIInv /\ G!Open => IdeaIInv'
<1> SUFFICES ASSUME IdeaIInv, G!Open PROVE IdeaIInv'
  OBVIOUS
<1> USE DEF IdeaIInv
<1>1. IdeaRead'
  BY DEF G!Open, IdeaRead, G!Loadable, G!Tier
<1>2. IdeaJudged'
  BY DEF G!Open, IdeaJudged, G!Reason, G!Policy, G!Tier, G!LockedUp, G!Blocking, G!Window
<1>3. IdeaCapped'
  BY IdeaRoundStays DEF G!Open
<1> QED
  BY <1>1, <1>2, <1>3

LEMMA IdeaNextDayStep == ASSUME NEW t \in TapeSet PROVE IdeaIInv /\ G!NextDay(t) => IdeaIInv'
<1> SUFFICES ASSUME IdeaIInv, G!NextDay(t) PROVE IdeaIInv'
  OBVIOUS
<1> USE DEF IdeaIInv
<1>1. ideas' = <<>> /\ Len(ideas') = 0 /\ DOMAIN ideas' = {} /\ UNCHANGED <<list, open, corr>>
      /\ tape' = t /\ day' = day + 1 /\ day < MaxDay
  BY DEF G!NextDay
<1>2. IdeaRead'
  BY <1>1, IdeaAssumption DEF IdeaRead, G!Loadable, G!Tier
<1>3. IdeaJudged'
  BY <1>1 DEF IdeaJudged
<1>4. G!Sized' = {}
  BY <1>1 DEF G!Sized
<1>5. IdeaCapped'
  <2>1. \A r : {i \in G!Sized' : list'[ideas'[i].name].round = r} = {}
    BY <1>4
  <2>2. \A c : G!SizedIn(c)' = {}
    BY <1>4 DEF G!SizedIn
  <2>3. Cardinality({}) = 0 /\ MaxPerRound \in Nat
    BY IdeaSameCardinality, FS_EmptySet, IdeaAssumption
  <2>4. \A r : Cardinality({i \in G!Sized' : list'[ideas'[i].name].round = r}) <= MaxPerRound
    BY <2>1, <2>3
  <2> QED
    BY <1>4, <2>2, <2>4 DEF IdeaCapped
<1> QED
  BY <1>2, <1>3, <1>5

LEMMA IdeaNextIInv == IdeaIInv /\ [G!Next]_G!vars => IdeaIInv'
<1> SUFFICES ASSUME IdeaIInv, [G!Next]_G!vars PROVE IdeaIInv'
  OBVIOUS
<1>1. CASE G!Open
  BY <1>1, IdeaOpenStep
<1>2. ASSUME NEW n \in Names, NEW h \in Horizons, G!Net(n, h) PROVE IdeaIInv'
  BY <1>2, IdeaNetStep
<1>3. ASSUME NEW t \in TapeSet, G!NextDay(t) PROVE IdeaIInv'
  BY <1>3, IdeaNextDayStep
<1>4. CASE UNCHANGED G!vars
  <2>1. IdeaRead'
    BY <1>4 DEF IdeaIInv, G!vars, IdeaRead, G!Loadable, G!Tier
  <2>2. IdeaJudged'
    BY <1>4 DEF IdeaIInv, G!vars, IdeaJudged, G!Reason, G!Policy, G!Tier, G!LockedUp, G!Blocking,
       G!Window
  <2>3. IdeaCapped'
    BY <1>4, IdeaRoundStays DEF IdeaIInv, G!vars
  <2> QED
    BY <2>1, <2>2, <2>3 DEF IdeaIInv
<1> QED
  BY <1>1, <1>2, <1>3, <1>4 DEF G!Next

LEMMA IdeaIInvHolds == G!Spec => []IdeaIInv
  BY IdeaInitIInv, IdeaNextIInv, PTL DEF G!Spec

(* What the gates say of an idea that is published.                        *)
LEMMA IdeaPassedGates ==
    ASSUME IdeaRead, NEW n \in Names, NEW h \in Horizons, G!Reason(n, h) = "ok"
    PROVE  ~G!LockedUp(n) /\ G!Blocking(n, h) = {} /\ list[n].resolved
             /\ G!Tier(list, n) # "blocked"
           /\ ~list[n].listing
<1> QED
  BY DEF G!Reason

LEMMA IdeaIInvIsGated == IdeaIInv => G!TypeOK /\ G!IdeasAreGated
<1> SUFFICES ASSUME IdeaIInv PROVE G!TypeOK /\ G!IdeasAreGated
  OBVIOUS
<1> USE DEF IdeaIInv
<1> DEFINE days(i) == IF ideas[i].horizon = G!Default THEN DefaultDays ELSE ideas[i].horizon
<1>1. /\ DOMAIN ideas = 1..Len(ideas) /\ Len(ideas) \in Nat
      /\ \A i \in 1..Len(ideas) : /\ ideas[i] \in IdeaIdeas /\ ideas[i].name \in Names
                                  /\ ideas[i].horizon \in Horizons /\ days(i) \in Int
                                  /\ ideas[i].size \in G!Sizes
  <2>1. DOMAIN ideas = 1..Len(ideas) /\ Len(ideas) \in Nat /\ \A i \in 1..Len(ideas) :
          ideas[i] \in IdeaIdeas
    BY DEF IdeaRead
  <2>2. \A i \in 1..Len(ideas) : ideas[i].name \in Names /\ ideas[i].horizon \in Horizons
          /\ ideas[i].size \in G!Sizes
    BY <2>1, Zenon DEF IdeaIdeas
  <2>3. \A i \in 1..Len(ideas) : days(i) \in Int
    <3>1. DefaultDays \in Int /\ \A h \in Horizons : h \in Int
      BY IdeaAssumption
    <3>2. \A i \in 1..Len(ideas) : ideas[i].horizon \in Int
      BY <2>2, <3>1
    <3> QED
      BY <3>1, <3>2
  <2> QED
    BY <2>1, <2>2, <2>3
<1>2. day \in Int /\ \A n \in Names : list[n].lockup \in Int
  BY IdeaAssumption DEF IdeaRead
<1>3. \A i \in 1..Len(ideas) : ideas[i].ok \in BOOLEAN
  BY <1>1, Zenon DEF IdeaIdeas
<1>4. G!TypeOK
  BY <1>1, <1>3 DEF IdeaRead, G!TypeOK
<1>5. \A i \in 1..Len(ideas) : G!Window(ideas[i].horizon) = day..(day + days(i))
  BY DEF G!Window
<1>6. G!SizedIsLocked
  <2> SUFFICES ASSUME NEW i \in G!Sized
               PROVE  [name |-> ideas[i].name, membership |-> "in_universe"] \in G!LockedWatchlist
    BY DEF G!SizedIsLocked
  <2> DEFINE n == ideas[i].name
  <2>1. i \in 1..Len(ideas) /\ G!Policy(n) = "cluster_capped" /\ n \in Names /\ ideas # <<>>
    BY <1>1 DEF G!Sized, IdeaJudged
  <2>2. G!Tier(list, n) # "blocked" /\ G!Tier(list, n) # "monitor"
    BY <2>1 DEF G!Policy
  <2>3. G!Tier(list, n) = "universe"
    BY <2>1, <2>2, IdeaAssumption DEF G!Tier, IdeaRead, G!Tiers
  <2>4. G!Membership(n) = "in_universe"
    BY <2>1, <2>3 DEF IdeaRead, G!Loadable
  <2> HIDE DEF n
  <2>5. n \in Universe.in
    BY <2>4 DEF G!Membership
  <2>6. n \in Universe.all \ Universe.deferred
    BY <2>5, IdeaAssumption
  <2>7. [name |-> n, membership |-> "in_universe"] \in G!LockedWatchlist
    BY <2>5, <2>6 DEF G!LockedWatchlist
  <2> QED
    BY <2>7 DEF n
<1>7. G!ShorterIsSafer
  <2> SUFFICES ASSUME NEW i \in 1..Len(ideas), NEW j \in 1..Len(ideas),
                      ideas[i].name = ideas[j].name, days(i) <= days(j), ideas[j].ok
               PROVE  ideas[i].ok
    BY <1>1 DEF G!ShorterIsSafer
  <2>1. G!Reason(ideas[j].name, ideas[j].horizon) = "ok"
    BY DEF IdeaJudged
  <2>2. G!Window(ideas[i].horizon) \subseteq G!Window(ideas[j].horizon)
    <3> HIDE DEF days
    <3>1. days(i) \in Int /\ days(j) \in Int /\ day \in Int /\ day + days(i) <= day + days(j)
      BY <1>1, <1>2
    <3> QED
      BY <1>5, <3>1
  <2>3. G!Blocking(ideas[i].name, ideas[i].horizon) \subseteq G!Blocking(ideas[j].name,
          ideas[j].horizon)
    BY <2>2 DEF G!Blocking
  <2>4. G!Reason(ideas[i].name, ideas[i].horizon) = "ok"
    BY <1>1, <2>1, <2>3 DEF G!Reason
  <2> QED
    BY <2>4 DEF IdeaJudged
<1>8. G!PublishedIsClear
  <2> SUFFICES ASSUME NEW i \in 1..Len(ideas), ideas[i].ok
               PROVE  /\ list[ideas[i].name].lockup <= day
                      /\ ~\E e \in Calendar :
                            /\ e.verified /\ G!Relevant(e)
                            /\ (ideas[i].name \in e.names \/ (e.names = {} /\ e.market))
                            /\ day <= e.day /\ e.day <= day + days(i)
    BY <1>1 DEF G!PublishedIsClear
  <2>1. G!Reason(ideas[i].name, ideas[i].horizon) = "ok" /\ ideas[i].name \in Names
    BY <1>1 DEF IdeaJudged
  <2>2. ~G!LockedUp(ideas[i].name) /\ G!Blocking(ideas[i].name, ideas[i].horizon) = {}
    BY <1>1, <2>1, IdeaPassedGates
  <2>3. list[ideas[i].name].lockup <= day
    BY <1>2, <2>1, <2>2 DEF G!LockedUp
  <2>4. ASSUME NEW e \in Calendar, e.verified, G!Relevant(e),
               ideas[i].name \in e.names \/ (e.names = {} /\ e.market),
               day <= e.day, e.day <= day + days(i)
        PROVE  FALSE
    <3>1. e.day \in Int /\ days(i) \in Int
      BY <1>1, IdeaAssumption
    <3>2. e.day \in G!Window(ideas[i].horizon)
      <4> HIDE DEF days
      <4>1. e.day \in day..(day + days(i))
        BY <1>2, <2>4, <3>1
      <4> QED
        BY <1>5, <4>1
    <3>3. e \in G!Blocking(ideas[i].name, ideas[i].horizon)
      BY <2>4, <3>2 DEF G!Blocking
    <3> QED
      BY <2>2, <3>3
  <2> QED
    BY <2>3, <2>4
<1>9. G!ScanIsHonest
  <2> SUFFICES ASSUME G!Asserted(list)
               PROVE  /\ G!ScanStatus = "OK" => \A n \in Names : tape[n] \in {"stale", "fresh"}
                      /\ G!Covered = G!Scannable =>
                            \A n \in Names : tape[n] \in {"none", "empty"}
                              => G!Tier(list, n) = "blocked"
    BY DEF G!ScanIsHonest
  <2>1. \A n \in Names : tape[n] \in G!TapeStates /\ list[n].resolved
    BY IdeaAssumption DEF IdeaRead, G!Asserted
  <2>2. ASSUME G!ScanStatus = "OK", NEW n \in Names PROVE tape[n] \in {"stale", "fresh"}
    <3>1. G!MonitorState(n) = "COVERED"
      BY <2>2 DEF G!ScanStatus
    <3> QED
      BY <2>1, <3>1 DEF G!MonitorState, G!TapeStates
  <2>3. ASSUME G!Covered = G!Scannable, NEW n \in Names, tape[n] \in {"none", "empty"},
               G!Tier(list, n) # "blocked"
        PROVE  FALSE
    <3>1. G!MonitorState(n) = "UNAVAILABLE"
      BY <2>1, <2>3 DEF G!MonitorState
    <3> QED
      BY <2>3, <3>1 DEF G!Covered, G!Scannable
  <2> QED
    BY <2>2, <2>3
<1> QED
  BY <1>4, <1>6, <1>7, <1>8, <1>9, IdeaCappedIs DEF G!IdeasAreGated

(* A step of the composition is one of this part, or leaves it alone.      *)
LEMMA IdeaPart == ResearchSpec => G!Spec
<1>1. ResearchInit => G!Init
  BY DEF ResearchInit
<1>2. [ResearchNext]_researchVars => [G!Next]_G!vars
  BY DEF ResearchNext, researchVars, ideaVars, G!vars
<1> QED
  BY <1>1, <1>2, PTL DEF ResearchSpec, G!Spec

(* What is sized is on the locked list and its caps, what is published is  *)
(* clear of the calendar over its horizon, a round is netted, and a scan   *)
(* that says OK covered its list: for every universe, every calendar and   *)
(* every tape.                                                             *)
THEOREM IdeasCorrect == ResearchSpec => []IdeasAreGated
<1>1. IdeaIInv => IdeasAreGated
  BY IdeaIInvIsGated DEF IdeasAreGated
<1> QED
  BY <1>1, IdeaPart, IdeaIInvHolds, PTL
=============================================================================
