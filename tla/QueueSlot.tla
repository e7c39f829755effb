-------------------------------- MODULE QueueSlot --------------------------------
(***************************************************************************)
(* mm_desks.queue over ops/improvement-queue.md: the helper reads the      *)
(* queue, reports on it and answers whether an item may start; it never    *)
(* writes.  The operators edit the file by hand, after an answer or        *)
(* without one, and between the answer and the edit others edit too.       *)
(***************************************************************************)
EXTENDS Naturals, FiniteSets

CONSTANTS Items,     \* implementation items
          Incidents, \* incident items
          Operators,
          MaxEdits   \* bound: edits of the file

VARIABLES status,  \* item -> its status in the file
          cited,   \* incidents whose entry cites a run_id
          report,  \* what the last reading of the file said
          answer,  \* operator -> the item it was told may start, and the
                   \* number of edits at that time
          raced,   \* an operator started on an outdated answer (history)
          edits

vars == <<status, cited, report, answer, raced, edits>>

All == Items \cup Incidents
IncidentStatuses == {"OPEN", "ELIGIBLE", "CLOSED", "RETIRED", "DONE", "PARKED"}
ImplementationStatuses == {"BACKLOG", "READY", "IN_PROGRESS", "IN_REVIEW", "DONE", "PARKED", "INTAKE_ONLY"}
NoAnswer == [item |-> "none", at |-> 0]

(* check_queue: the items in progress, and whether it has errors.          *)
InProgress == {i \in Items : status[i] = "IN_PROGRESS"}
Errors ==
    \/ Cardinality(InProgress) > 1
    \/ \E i \in Incidents : status[i] = "CLOSED" /\ i \notin cited
    \/ \E i \in Items : status[i] = "OPEN"

(* Mutant: an item may start whatever check_queue says.                    *)
CanStartAnyway(i) == i \in Items /\ status[i] = "READY" /\ InProgress \ {i} = {}

(* can_start: a READY implementation item, the slot free, no errors.       *)
CanStart(i) ==
    /\ i \in Items
    /\ status[i] = "READY"
    /\ InProgress \ {i} = {}
    /\ ~Errors

TypeOK ==
    /\ status \in [All -> ImplementationStatuses \cup IncidentStatuses]
    /\ cited \subseteq Incidents
    /\ report \in [ok : BOOLEAN, open : SUBSET Incidents]
    /\ \A o \in Operators : answer[o].item \in All \cup {"none"} /\ answer[o].at \in 0..MaxEdits
    /\ raced \in BOOLEAN /\ edits \in 0..MaxEdits

Init ==
    /\ status = [i \in All |-> IF i \in Items THEN "READY" ELSE "OPEN"]
    /\ cited = {}
    /\ report = [ok |-> TRUE, open |-> Incidents]
    /\ answer = [o \in Operators |-> NoAnswer]
    /\ raced = FALSE /\ edits = 0

(* lab queue check, lab queue can-start: the file is read, never written.  *)
Look(o, i) ==
    /\ report' = [ok |-> ~Errors, open |-> {x \in Incidents : status[x] = "OPEN"}]
    /\ answer' = [answer EXCEPT ![o] = IF CanStart(i) THEN [item |-> i, at |-> edits] ELSE NoAnswer]
    /\ UNCHANGED <<status, cited, raced, edits>>

Edit(i, s) ==
    /\ edits < MaxEdits
    /\ status' = [status EXCEPT ![i] = s]
    /\ edits' = edits + 1

(* An operator who was told yes moves the item to IN_PROGRESS.             *)
Begin(o) ==
    /\ answer[o].item # "none"
    /\ Edit(answer[o].item, "IN_PROGRESS")
    /\ raced' = (raced \/ answer[o].at # edits)
    /\ answer' = [answer EXCEPT ![o] = NoAnswer]
    /\ UNCHANGED <<cited, report>>

(* Every other edit: an item leaves the slot or becomes ready, an incident *)
(* is closed, with or without the run it should cite, or opened again.     *)
Leave(i, s) ==
    /\ i \in Items /\ s \in {"READY", "PARKED", "DONE", "INTAKE_ONLY"}
    /\ Edit(i, s)
    /\ UNCHANGED <<cited, report, answer, raced>>

Incident(i, s, cites) ==
    /\ i \in Incidents /\ s \in {"OPEN", "ELIGIBLE", "CLOSED"}
    /\ Edit(i, s)
    /\ cited' = IF cites THEN cited \cup {i} ELSE cited
    /\ UNCHANGED <<report, answer, raced>>

Next ==
    \/ \E o \in Operators : Begin(o) \/ \E i \in All : Look(o, i)
    \/ \E i \in Items, s \in {"READY", "PARKED", "DONE", "INTAKE_ONLY"} : Leave(i, s)
    \/ \E i \in Incidents, s \in {"OPEN", "ELIGIBLE", "CLOSED"}, c \in BOOLEAN : Incident(i, s, c)

Spec == Init /\ [][Next]_vars

-----------------------------------------------------------------------------
(* The slot is single-threaded among operators who act on an answer of the *)
(* file as it is: two items are in progress only after somebody acted on   *)
(* an outdated one, and never the item of an incident.                     *)
SlotIsSingle ==
    /\ Cardinality(InProgress) > 1 => raced
    /\ \A i \in Incidents : status[i] # "IN_PROGRESS"

(* An answer that is not outdated is right: the slot is free, and closing  *)
(* an incident without its run stops every start until it is mended.       *)
AnswerIsCurrent == \A o \in Operators :
    answer[o].item # "none" /\ answer[o].at = edits =>
        /\ InProgress = {}
        /\ status[answer[o].item] = "READY"
        /\ \A i \in Incidents : status[i] = "CLOSED" => i \in cited

QueueIsHonest == SlotIsSingle /\ AnswerIsCurrent
=============================================================================
