------------------------------ MODULE Playbook ------------------------------
(***************************************************************************)
(* mm_desks.playbook and mm_desks.llm: one run gates its ideas, computes   *)
(* the trade math, and may ask a writer for the prose of two artifacts     *)
(* under a token budget that lives as long as the process.  A flag on disk *)
(* keeps the writer off.                                                   *)
(***************************************************************************)
EXTENDS Naturals, Sequences, FiniteSets

CONSTANTS Feeds,          \* feeds of the inventory
          IdeaCounts,     \* how many eligible ideas a frozen day may hold
          OkFeeds,        \* how many feeds may be ok
          MaxIdeas,       \* ideas shown
          SlotsPerIdea,   \* fields of an idea in the completeness of a day
          RunTokens,      \* per_run_token_budget
          DayTokens,      \* per_day_token_budget
          CallTokens,     \* per_call_max_output_tokens
          CallInput,      \* per_call_max_input_tokens
          Inputs,         \* token counts a prompt may have
          Outputs,        \* token counts an answer may have
          Retries,        \* max_retries_on_schema
          MaxRuns         \* bound: runs of a behaviour

VARIABLES flag,    \* config/llm/disabled.flag exists
          budget,  \* TokenBudget of the process: used_run, used_day, day_disabled
          ledger,  \* LlmClient.records: [tokens, valid] of every complete()
          asked,   \* how often the completer was called for the running run
          run,     \* the running run
          call,    \* the running complete(), or NoCall
          runs

vars == <<flag, budget, ledger, asked, run, call, runs>>

NoCall == [art |-> "none", input |-> 0, attempt |-> 0]

Idle == [pc |-> "idle", ideas |-> 0, noSetup |-> TRUE, writer |-> FALSE, mathLeft |-> 0,
         status |-> "OK", error |-> "none", gap |-> FALSE, ops |-> "none", edge |-> "template",
         brief |-> "template", permission |-> FALSE]

Fresh == [usedRun |-> 0, usedDay |-> 0, disabled |-> FALSE]

Least(a, b) == IF a < b THEN a ELSE b

TypeOK ==
    /\ flag \in BOOLEAN
    /\ budget \in [usedRun : Nat, usedDay : Nat, disabled : BOOLEAN]
    /\ \A i \in DOMAIN ledger : ledger[i] \in [tokens : Nat, valid : BOOLEAN]
    /\ asked \in Nat
    /\ run.pc \in {"idle", "math", "edge", "brief", "state", "done"}
    /\ run.status \in {"OK", "DEGRADED", "FAILED"}
    /\ call.art \in {"none", "EDGE_SCAN", "OFFICIAL_BRIEF"}
    /\ runs \in 0..MaxRuns

Init ==
    /\ flag \in BOOLEAN
    /\ budget = [Fresh EXCEPT !.disabled = flag]
    /\ ledger = <<>>
    /\ asked = 0
    /\ run = Idle
    /\ call = NoCall
    /\ runs = 0

-----------------------------------------------------------------------------
(* Completeness of the day: the ideas that are cut count as expected, the  *)
(* shown ones as present.                                                  *)
Publishable(n, ok) ==
    10 * (ok + SlotsPerIdea * Least(n, MaxIdeas))
        >= 8 * (Feeds + SlotsPerIdea * (IF n = 0 THEN 1 ELSE n))

(* The gates before the trade math: the post-mortem of a closed idea of    *)
(* the instrument, then the completeness of the day.                       *)
Gated(n, ok, mortem, writer) ==
    LET shown == Least(n, MaxIdeas)
        base  == [Idle EXCEPT !.pc = "math", !.ideas = shown, !.noSetup = (n = 0),
                              !.writer = writer]
    IN  IF ~mortem
        THEN [base EXCEPT !.ideas = 0, !.noSetup = TRUE, !.status = "FAILED",
                          !.error = "post_mortem_required"]
        ELSE IF shown > 0 /\ ~Publishable(n, ok)
        THEN [base EXCEPT !.ideas = 0, !.noSetup = TRUE, !.status = "DEGRADED",
                          !.gap = TRUE]
        ELSE base

(* run_playbook: a new run in the same process, or in a new one, whose     *)
(* budget starts at nothing and whose only memory of the day is the flag.  *)
StartRun(n, ok, mortem, writer, sameProcess) ==
    /\ run.pc \in {"idle", "done"} /\ runs < MaxRuns
    /\ LET g == Gated(n, ok, mortem, writer)
       IN run' = [g EXCEPT !.mathLeft = g.ideas]
    /\ IF sameProcess
       THEN UNCHANGED <<budget, ledger>>
       ELSE budget' = [Fresh EXCEPT !.disabled = flag] /\ ledger' = <<>>
    /\ asked' = 0
    /\ runs' = runs + 1
    /\ UNCHANGED <<flag, call>>

(* The trade math of the next idea; the first one that cannot be computed  *)
(* fails the run and drops every idea.                                     *)
Math ==
    /\ run.pc = "math" /\ run.mathLeft > 0
    /\ \/ run' = [run EXCEPT !.mathLeft = @ - 1]
       \/ run' = [run EXCEPT !.mathLeft = 0, !.status = "FAILED", !.error = "trade_math_failed",
                             !.noSetup = TRUE, !.ideas = 0]
    /\ UNCHANGED <<flag, budget, ledger, asked, call, runs>>

MathDone ==
    /\ run.pc = "math" /\ run.mathLeft = 0
    /\ run' = [run EXCEPT !.pc = "edge"]
    /\ UNCHANGED <<flag, budget, ledger, asked, call, runs>>

-----------------------------------------------------------------------------
ArtOf(pc) == IF pc = "edge" THEN "EDGE_SCAN" ELSE "OFFICIAL_BRIEF"

After(pc) == IF pc = "edge" THEN "brief" ELSE "state"

WantsWriter(r) == r.ideas > 0 /\ ~r.noSetup /\ r.writer

(* The reservation that complete() asks for before it calls the completer. *)
Reserved(b) == Least(CallTokens, IF RunTokens > b.usedRun + 1 THEN RunTokens - b.usedRun ELSE 1)

(* Mutant: the flag is looked at by nobody.                                *)
AllowCallUnflagged(b, input) ==
    IF input > CallInput \/ b.usedRun + input + Reserved(b) > RunTokens THEN "budget_exceeded"
    ELSE IF b.usedDay + input + Reserved(b) > DayTokens                 THEN "llm_day_disabled"
    ELSE "ok"

(* The shares of budgets.yaml name no desk that owns an artifact, so they  *)
(* never refuse.                                                           *)
AllowCall(b, input) ==
    IF b.disabled                                                       THEN "llm_day_disabled"
    ELSE IF input > CallInput \/ b.usedRun + input + Reserved(b) > RunTokens
                                                                        THEN "budget_exceeded"
    ELSE IF b.usedDay + input + Reserved(b) > DayTokens                 THEN "llm_day_disabled"
    ELSE "ok"

(* Mutant: the day's tokens are not counted.                               *)
ChargedToRun(b, tokens) == [b EXCEPT !.usedRun = @ + tokens]

(* TokenBudget.record                                                      *)
Charged(b, tokens) ==
    [usedRun |-> b.usedRun + tokens, usedDay |-> b.usedDay + tokens,
     disabled |-> b.disabled \/ b.usedDay + tokens >= DayTokens]

(* _apply_writer: what an answer does to the run.  A refusal of the budget *)
(* sets DEGRADED whatever the status was; other failures never lower it.   *)
Applied(r, answer) ==
    CASE answer = "grounding_failed" ->
            [r EXCEPT !.status = "FAILED", !.error = "grounding_failed"]
      [] answer \in {"budget_exceeded", "llm_day_disabled"} ->
            [r EXCEPT !.status = "DEGRADED", !.error = answer, !.ops = answer]
      [] answer = "schema_fail" ->
            [r EXCEPT !.status = IF @ = "OK" THEN "DEGRADED" ELSE @,
                      !.error = IF @ = "none" THEN "schema_fail" ELSE @]
      [] answer = "written" ->
            IF r.pc = "edge" THEN [r EXCEPT !.edge = "prose"] ELSE [r EXCEPT !.brief = "prose"]

Return(answer) ==
    /\ run' = [Applied(run, answer) EXCEPT !.pc = After(@)]
    /\ flag' = (flag \/ answer = "llm_day_disabled")
    /\ call' = NoCall

(* Without ideas, or without a completer, the artifact is a template.      *)
Template ==
    /\ run.pc \in {"edge", "brief"} /\ call = NoCall
    /\ ~WantsWriter(run)
    /\ run' = [run EXCEPT !.pc = After(@)]
    /\ UNCHANGED <<flag, budget, ledger, asked, call, runs>>

(* complete() up to the completer: a refusal leaves a row without tokens.  *)
Refused(input) ==
    /\ run.pc \in {"edge", "brief"} /\ call = NoCall
    /\ WantsWriter(run) /\ AllowCall(budget, input) # "ok"
    /\ ledger' = Append(ledger, [tokens |-> 0, valid |-> FALSE])
    /\ Return(AllowCall(budget, input))
    /\ UNCHANGED <<budget, asked, runs>>

Ask(input) ==
    /\ run.pc \in {"edge", "brief"} /\ call = NoCall
    /\ WantsWriter(run) /\ AllowCall(budget, input) = "ok"
    /\ call' = [art |-> ArtOf(run.pc), input |-> input, attempt |-> 1]
    /\ asked' = asked + 1
    /\ UNCHANGED <<flag, budget, ledger, run, runs>>

Book(tokens, valid) ==
    /\ budget' = Charged(budget, tokens)
    /\ ledger' = Append(ledger, [tokens |-> tokens, valid |-> valid])

(* A valid answer is booked, then rendered against the evidence; a literal *)
(* digit, an unknown name or a figure of a missing feed fails the run.     *)
Answered(output, grounded) ==
    /\ call # NoCall
    /\ Book(call.input + output, TRUE)
    /\ Return(IF grounded THEN "written" ELSE "grounding_failed")
    /\ UNCHANGED <<asked, runs>>

(* An answer outside the schema is asked again without a new allowance;    *)
(* only the last attempt is booked.                                        *)
SchemaRetry ==
    /\ call # NoCall /\ call.attempt <= Retries
    /\ call' = [call EXCEPT !.attempt = @ + 1]
    /\ asked' = asked + 1
    /\ UNCHANGED <<flag, budget, ledger, run, runs>>

SchemaFails ==
    /\ call # NoCall /\ call.attempt > Retries
    /\ Book(call.input + 1, FALSE)
    /\ Return("schema_fail")
    /\ UNCHANGED <<asked, runs>>

(* The state card and the final checks: the ladder must inherit one math,  *)
(* and a day without a setup must have booked no tokens.                   *)
Close(permitted, mismatch) ==
    /\ run.pc = "state"
    /\ LET r == [run EXCEPT !.pc = "done",
                            !.permission = permitted /\ ~run.noSetup /\ run.ideas > 0]
           m == IF mismatch THEN [r EXCEPT !.status = "FAILED", !.error = "math_mismatch"] ELSE r
       IN run' = IF r.noSetup /\ \E i \in DOMAIN ledger : ledger[i].tokens > 0
                 THEN [m EXCEPT !.status = "FAILED", !.error = "llm_on_no_setup"] ELSE m
    /\ UNCHANGED <<flag, budget, ledger, asked, call, runs>>

(* The Principal deletes the flag.                                         *)
Reset ==
    /\ flag /\ run.pc \in {"idle", "done"}
    /\ flag' = FALSE
    /\ UNCHANGED <<budget, ledger, asked, run, call, runs>>

Next ==
    \/ \E n \in IdeaCounts, ok \in OkFeeds, mortem, writer, same \in BOOLEAN :
           StartRun(n, ok, mortem, writer, same)
    \/ Math
    \/ MathDone
    \/ Template
    \/ \E i \in Inputs : Refused(i) \/ Ask(i)
    \/ \E o \in Outputs, g \in BOOLEAN : Answered(o, g)
    \/ SchemaRetry
    \/ SchemaFails
    \/ \E p, m \in BOOLEAN : Close(p, m)
    \/ Reset

Spec == Init /\ [][Next]_vars

-----------------------------------------------------------------------------
SumOf(s) ==
    LET sum[i \in 0..Len(s)] == IF i = 0 THEN 0 ELSE sum[i - 1] + s[i].tokens
    IN sum[Len(s)]

(* The ledger and the budget tell the same story: every token the process  *)
(* counts against its run and its day stands in exactly one ledger row,    *)
(* also after refusals, retries and failed grounding.                      *)
LedgerMatchesBudget ==
    SumOf(ledger) = budget.usedRun /\ budget.usedRun = budget.usedDay

(* A day that ends without a setup, whatever took the ideas away, never    *)
(* asked the writer and grants no permission.                              *)
NoSetupMeansSilence ==
    run.noSetup => asked = 0 /\ ~run.permission

(* One call per artifact and one retry: a run never asks the completer     *)
(* more often, whatever it answers.                                        *)
BoundedAsking == asked <= 2 * (1 + Retries)

(* A run that is not OK says why, and a run that asked Coord for help is   *)
(* never OK.                                                               *)
NotOkIsExplained ==
    /\ run.status # "OK" => run.error # "none" \/ run.gap
    /\ run.ops # "none" => run.status # "OK"

(* While the flag was on disk when its process started, a run never asks.  *)
DisabledMeansSilence ==
    [][budget.disabled => asked' <= asked]_vars

=============================================================================
