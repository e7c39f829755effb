----------------------------- MODULE BriefWorker -----------------------------
(***************************************************************************)
(* apps/briefing-worker run: a process that sleeps towards the next Market *)
(* Pulse fire and generates it.  Time is a clock of ticks that runs        *)
(* between any two steps of the process.                                   *)
(***************************************************************************)
EXTENDS Integers, FiniteSetsExt

CONSTANTS Fires,       \* instants of the schedule's fires within the horizon
          Poll,        \* --poll-seconds, in ticks
          FrameLimit,  \* nested calls of cmd_run the interpreter allows
          MaxTime      \* bound: last tick

VARIABLES now,
          pc,
          once,    \* --once
          wake,    \* end of the sleep
          frames,  \* nested calls of cmd_run
          fire,    \* as_of of the brief being generated
          tried    \* fires taken up: [fire, at]

vars == <<now, pc, once, wake, frames, fire, tried>>

NoFire == -1

(* next_fire: the first fire that is not before now.                       *)
NextFire(t) == LET due == {f \in Fires : f >= t} IN IF due = {} THEN NoFire ELSE Min(due)

TypeOK ==
    /\ now \in 0..MaxTime /\ wake \in 0..(MaxTime + Poll)
    /\ pc \in {"looking", "asleep", "generating", "exited", "dead"}
    /\ once \in BOOLEAN /\ frames \in 1..(FrameLimit + 1)
    /\ fire \in Fires \cup {NoFire}
    /\ \A t \in tried : t.fire \in Fires /\ t.at \in 0..MaxTime

Init ==
    /\ now = 0
    /\ pc = "looking" /\ once \in BOOLEAN
    /\ wake = 0 /\ frames = 1 /\ fire = NoFire /\ tried = {}

Tick ==
    /\ now < MaxTime
    /\ now' = now + 1
    /\ UNCHANGED <<pc, once, wake, frames, fire, tried>>

(* cmd_run: one reading of the clock and the schedule.                     *)
Look ==
    /\ pc = "looking"
    /\ LET f == NextFire(now) IN
       \/ /\ f = NoFire
          /\ pc' = "exited"
          /\ UNCHANGED <<wake, fire, tried>>
       \/ /\ f > now /\ ~once
          /\ pc' = "asleep" /\ wake' = now + Min({f - now, Poll})
          /\ UNCHANGED <<fire, tried>>
       \/ /\ f # NoFire /\ (f = now \/ once)
          /\ pc' = "generating" /\ fire' = f
          /\ tried' = tried \cup {[fire |-> f, at |-> now]}
          /\ UNCHANGED wake
    /\ UNCHANGED <<now, once, frames>>

(* time.sleep returns no earlier than asked; cmd_run then calls itself,    *)
(* and the interpreter ends a process whose calls nest too deep.           *)
Wake ==
    /\ pc = "asleep" /\ now >= wake
    /\ frames' = frames + 1
    /\ pc' = IF frames < FrameLimit THEN "looking" ELSE "dead"
    /\ UNCHANGED <<now, once, wake, fire, tried>>

(* cmd_once, the last thing cmd_run does.                                  *)
Generate ==
    /\ pc = "generating"
    /\ pc' \in {"exited", "dead"}
    /\ UNCHANGED <<now, once, wake, frames, fire, tried>>

(* A supervisor starts the worker again once it ended.                     *)
Restart ==
    /\ pc \in {"exited", "dead"} /\ NextFire(now) # NoFire
    /\ pc' = "looking" /\ frames' = 1
    /\ UNCHANGED <<now, once, wake, fire, tried>>

Next == Tick \/ Look \/ Wake \/ Generate \/ Restart

Spec == Init /\ [][Next]_vars

-----------------------------------------------------------------------------
(* Without --once a brief is generated at its fire, never ahead of it with *)
(* an as-of in the future.                                                 *)
FireIsNotAhead == \A t \in tried : once \/ t.at = t.fire
=============================================================================
