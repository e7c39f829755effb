------------------------------- MODULE QuantWatch -------------------------------
(***************************************************************************)
(* The Quant sleeves decay and scorecard: mm_quant.scorecard compares      *)
(* packs under the tags file, mm_quant.decay hashes the watched files      *)
(* against their pins, mm_desks runs both, raises a notice and writes the  *)
(* artifacts.  Operators edit the files and the pins at any time.          *)
(***************************************************************************)
EXTENDS Naturals, FiniteSets, Sequences

CONSTANTS Files,     \* the watched files, in the order they are hashed
          Tags,      \* the one of them that scorecards read
          PackLists, \* sequences of packs a fixture may have
          Clock,     \* as_of_knowledge of the runs
          MaxRuns,   \* bound: runs
          MaxEdits   \* bound: edits of files and pins

VARIABLES pc, product,
          content,  \* file -> its version, 0 when absent
          pin,      \* file -> the version of its expected hash, 0 when unpinned
          config,   \* decay.yaml can be read
          packs, tagged, \* the fixture of the run, the version of Tags it read
          expected, \* file -> the pin that the run read
          rows,     \* file -> [version, pin] that the run hashed, in order
          again,    \* file -> the version hashed the second time
          told,     \* what the run concluded
          disk,     \* product -> the run that wrote each of its three files
          moved,    \* files edited since the run began (history)
          runs, edits

vars == <<pc, product, content, pin, config, packs, tagged, expected, rows, again, told, disk, moved, runs, edits>>

Watched == {Files[i] : i \in 1..Len(Files)}
Products == {"decay", "scorecard"}
Verdicts == {"MATCH", "MISMATCH", "MISSING", "UNPINNED"}
Nothing == [f \in {} |-> 0]
NoResult == [status |-> "none", overall |-> "none", alert |-> FALSE, signal |-> FALSE]

(* _verdict of a file with that version under that pin                     *)
Verdict(row) == IF row.version = 0 THEN "MISSING"
                ELSE IF row.pin = 0 THEN "UNPINNED"
                ELSE IF row.version = row.pin THEN "MATCH" ELSE "MISMATCH"

(* overall_verdict: the worst; no file at all is a missing one.            *)
Overall(verdicts) ==
    IF verdicts = {} THEN "MISSING"
    ELSE CASE "MISMATCH" \in verdicts -> "MISMATCH"
           [] "MISMATCH" \notin verdicts /\ "MISSING" \in verdicts -> "MISSING"
           [] verdicts \cap {"MISMATCH", "MISSING"} = {} /\ "UNPINNED" \in verdicts -> "UNPINNED"
           [] OTHER -> "MATCH"

Seen == {Verdict(rows[f]) : f \in DOMAIN rows}

-----------------------------------------------------------------------------
(* visible_packs: nothing of the future.                                   *)
Visible == {i \in 1..Len(packs) : packs[i].asOf <= Clock}

(* comparability_reasons: same product, anchor and universe, both hashed,  *)
(* neither under a tag that the version of the tags file knows.            *)
Comparable(l, r) ==
    /\ l.key = r.key
    /\ l.hashed /\ r.hashed
    /\ tagged = 1 => ~l.tag /\ ~r.tag

(* score_packs: each pair of visible packs, a number where comparable.     *)
Pairs == {p \in Visible \X Visible : p[1] < p[2]}
Scored == {p \in Pairs : Comparable(packs[p[1]], packs[p[2]])}

(* _status_for of each product                                             *)
StatusOf ==
    IF product = "scorecard"
    THEN IF packs = <<>> \/ Visible # 1..Len(packs) THEN "DEGRADED" ELSE "OK"
    ELSE IF Overall(Seen) = "MATCH" THEN "OK" ELSE "DEGRADED"

TypeOK ==
    /\ pc \in {"idle", "score", "pins", "hash", "again", "publish", "json", "md", "sha"}
    /\ product \in Products
    /\ content \in [Watched -> 0..2] /\ pin \in [Watched -> 0..2]
    /\ tagged \in 0..2
    /\ DOMAIN rows \subseteq DOMAIN expected /\ DOMAIN expected \subseteq Watched
    /\ DOMAIN again \subseteq Watched
    /\ told.overall \in Verdicts \cup {"none"}
    /\ \A p \in Products : \A i \in 1..3 : disk[p][i] \in 0..MaxRuns
    /\ runs \in 0..MaxRuns /\ edits \in 0..MaxEdits

Init ==
    /\ pc = "idle" /\ product = "decay"
    /\ content = [f \in Watched |-> 1] /\ pin = [f \in Watched |-> 1]
    /\ config \in BOOLEAN
    /\ packs = <<>> /\ tagged = 0 /\ expected = Nothing
    /\ rows = Nothing /\ again = Nothing /\ told = NoResult
    /\ disk = [p \in Products |-> <<0, 0, 0>>]
    /\ moved = {} /\ runs = 0 /\ edits = 0

(* lab scorecard compare, or lab decay watch with a scorecard fixture.     *)
Start(p, fixture) ==
    /\ pc = "idle" /\ runs < MaxRuns
    /\ pc' = "score" /\ product' = p /\ packs' = fixture
    /\ rows' = Nothing /\ again' = Nothing /\ told' = NoResult /\ moved' = {}
    /\ runs' = runs + 1
    /\ UNCHANGED <<content, pin, config, tagged, expected, disk, edits>>

(* load_incomparable_tags: a file that is absent has no tags.              *)
Score ==
    /\ pc = "score"
    /\ tagged' = content[Tags]
    /\ pc' = "pins"
    /\ UNCHANGED <<product, content, pin, config, packs, expected, rows, again, told, disk, moved, runs, edits>>

(* watched_specs: the pins of decay.yaml, none when it cannot be read.     *)
ReadPins ==
    /\ pc = "pins"
    /\ expected' = IF config THEN pin ELSE Nothing
    /\ pc' = "hash"
    /\ UNCHANGED <<product, content, pin, config, packs, tagged, rows, again, told, disk, moved, runs, edits>>

(* watch_rows: then the files are hashed one by one.                       *)
Hash ==
    /\ pc = "hash"
    /\ IF DOMAIN rows = DOMAIN expected
       THEN pc' = "again" /\ rows' = rows
       ELSE LET f == Files[Cardinality(DOMAIN rows) + 1] IN
            /\ rows' = [x \in DOMAIN rows \cup {f} |->
                           IF x = f THEN [version |-> content[f], pin |-> expected[f]] ELSE rows[x]]
            /\ pc' = pc
    /\ UNCHANGED <<product, content, pin, config, packs, tagged, expected, again, told, disk, moved, runs, edits>>

(* prompt_hashes: the payload hashes the prompts a second time.            *)
Again ==
    /\ pc = "again"
    /\ again' = [f \in DOMAIN rows \ {Tags} |-> content[f]]
    /\ pc' = "publish"
    /\ UNCHANGED <<product, content, pin, config, packs, tagged, expected, rows, told, disk, moved, runs, edits>>

(* queue_signal: some file did not match.                                  *)
Signalled == Seen \ {"MATCH"} # {}

(* The mesh notice: decay alone raises one, and without any file too.      *)
Publish ==
    /\ pc = "publish"
    /\ told' = [status |-> StatusOf, overall |-> Overall(Seen),
                alert |-> product = "decay" /\ Overall(Seen) # "MATCH",
                signal |-> Signalled]
    /\ pc' = "json"
    /\ UNCHANGED <<product, content, pin, config, packs, tagged, expected, rows, again, disk, moved, runs, edits>>

(* write_decay_artifacts, write_scorecard_artifacts                        *)
Write(step, i, next) ==
    /\ pc = step
    /\ disk' = [disk EXCEPT ![product][i] = runs]
    /\ pc' = next
    /\ UNCHANGED <<product, content, pin, config, packs, tagged, expected, rows, again, told, moved, runs, edits>>

(* The command stops, or was given no --out.                               *)
Stop ==
    /\ pc \notin {"idle"}
    /\ pc' = "idle"
    /\ UNCHANGED <<product, content, pin, config, packs, tagged, expected, rows, again, told, disk, moved, runs, edits>>

Edit(f, version) ==
    /\ edits < MaxEdits /\ content[f] # version
    /\ content' = [content EXCEPT ![f] = version]
    /\ moved' = moved \cup {f} /\ edits' = edits + 1
    /\ UNCHANGED <<pc, product, pin, config, packs, tagged, expected, rows, again, told, disk, runs>>

Repin(f, version) ==
    /\ edits < MaxEdits /\ pin[f] # version
    /\ pin' = [pin EXCEPT ![f] = version]
    /\ moved' = moved \cup {f} /\ edits' = edits + 1
    /\ UNCHANGED <<pc, product, content, config, packs, tagged, expected, rows, again, told, disk, runs>>

Next ==
    \/ \E p \in Products, fixture \in PackLists : Start(p, fixture)
    \/ Score \/ ReadPins \/ Hash \/ Again \/ Publish
    \/ Write("json", 1, "md") \/ Write("md", 2, "sha") \/ Write("sha", 3, "idle")
    \/ Stop
    \/ \E f \in Watched, v \in 0..2 : Edit(f, v) \/ Repin(f, v)

Spec == Init /\ [][Next]_vars

-----------------------------------------------------------------------------
Done == told.status # "none"

(* A file whose version is not the pinned one and that nobody touched      *)
(* while the run read it is told of by a decay run: not OK, alerted and    *)
(* signalled.  Without a readable configuration nothing passes as a match. *)
DriftIsTold == Done /\ product = "decay" =>
    /\ config => \A f \in Watched \ moved :
          content[f] # pin[f] \/ content[f] = 0 => told.status # "OK" /\ told.alert /\ told.signal
    /\ ~config => told.alert /\ told.overall = "MISSING" /\ told.status # "OK"
    /\ told.signal => told.alert

(* The two hashings of a run differ only in a file that was edited.        *)
HashesAgree == Done => \A f \in DOMAIN again : again[f] # rows[f].version => f \in moved

(* A number compares two packs of the past that are alike; with a tags     *)
(* file that the watch of the same run found pinned at its first version   *)
(* and that was not touched, no number compares a tagged pack.             *)
LikeForLike == Done => \A p \in Scored :
    /\ packs[p[1]].asOf <= Clock /\ packs[p[2]].asOf <= Clock
    /\ packs[p[1]].key = packs[p[2]].key
    /\ config /\ Tags \notin moved /\ rows[Tags].version = 1 /\ Verdict(rows[Tags]) = "MATCH" =>
           ~packs[p[1]].tag /\ ~packs[p[2]].tag

(* The hash file is never of a later run than the document it is of, and a *)
(* run that wrote it wrote all three.                                      *)
HashFollowsDocument == \A p \in Products :
    disk[p][3] <= disk[p][2] /\ disk[p][2] <= disk[p][1]

WatchIsHonest == DriftIsTold /\ HashesAgree /\ LikeForLike /\ HashFollowsDocument
=============================================================================
