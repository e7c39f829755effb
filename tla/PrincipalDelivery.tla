------------------------- MODULE PrincipalDelivery -------------------------
(***************************************************************************)
(* mm_delivery and `lab deliver`: one pack at a time is cut into chunks    *)
(* and posted to a Telegram chat.  The command line may post only to the   *)
(* Principal's direct message; a caller inside the process may fan a desk  *)
(* out to its own chat and to the Ops mirror with a dedupe store it keeps. *)
(***************************************************************************)
EXTENDS Naturals, Sequences, FiniteSets

CONSTANTS Envs,        \* the environments a process may start in
          Packs,       \* the packs to deliver: one content hash and as_of each
          Thin,        \* packs below min_completeness_pct
          ChunkCount,  \* number of chunks of each pack
          WithPng,     \* packs that carry a chart
          Budget,      \* rate_limit.max_requests_per_minute
          Attempts,    \* api.max_attempts
          MaxFaults,   \* bound: requests that fail, in a behaviour
          MaxRuns      \* bound: commands and fan-outs of a behaviour

VARIABLES env,     \* the merged environment: token, group, dm and desk chat ids
          night,   \* whether the Sydney clock is inside quiet hours
          todo,    \* the deliver() calls of the run, the first one running
          pos,     \* where the running call is: [chunk, used, attempt]
          chat,    \* transcript of every chat: what Telegram accepted, in order
          store,   \* DedupeStore kept by the in-process caller
          failed,  \* failed_sink: calls recorded as FAILED
          done,    \* results of the finished calls of the last command
          pings,   \* dead-man URLs pinged by the running command
          runs,
          faults   \* requests that failed so far

vars == <<env, night, todo, pos, chat, store, failed, done, pings, runs, faults>>

(* chunk_markdown_v2 makes one chunk even of an empty text.                *)
ASSUME DeliveryAssumption ==
    /\ Thin \subseteq Packs /\ WithPng \subseteq Packs
    /\ ChunkCount \in [Packs -> Nat \ {0}]
    /\ Budget \in Nat /\ Attempts \in Nat \ {0}
    /\ MaxFaults \in Nat /\ MaxRuns \in Nat

Desks == {"research", "ops"}
Chats == {"hive", "principal", "topic"}
Unset == ""

(* What the environment may hold; the Principal's id may be the group's by *)
(* mistake, and only the research desk has a chat of its own.              *)
Env == [token : BOOLEAN, group : {Unset, "hive"}, dm : {Unset, "hive", "principal"},
        topic : {Unset, "topic"}]

ASSUME EnvsAssumption == Envs \subseteq Env

(* A deliver() call, as the command line or a fan-out makes it.            *)
Calls == [desk : Desks, pack : Packs, dm : BOOLEAN, shared : BOOLEAN, cli : BOOLEAN,
          cmd : {"pack", "test", "fanout"}, ignoreQuiet : BOOLEAN, exitOk : BOOLEAN]

Keys == Desks \X Packs

Start == [chunk |-> 0, used |-> 0, attempt |-> 0]

Key(c) == <<c.desk, c.pack>>

(* A missing group chat and a dead one are the errors of the preflight of  *)
(* a dry deliver; a missing token is only a warning.                       *)
ErrorNames(dead) ==
    (IF env.group = Unset THEN {"chat"} ELSE {})
        \cup (IF env.group # Unset /\ env.token /\ dead THEN {"getchat"} ELSE {})

DmPreflightBlocks(dead) == \E e \in ErrorNames(dead) : e # "chat"

ExitOk(toDm, iMeanIt, dead) ==
    \/ ErrorNames(dead) = {}
    \/ toDm /\ ~(iMeanIt /\ DmPreflightBlocks(dead)) /\ ErrorNames(dead) \subseteq {"chat"}

(* The chat a call would post to; Unset when the route has none.           *)
ResolveChat(c) ==
    IF c.dm THEN env.dm
    ELSE IF c.desk = "research" /\ env.topic # Unset THEN env.topic ELSE env.group

(* Mutant: every call makes a store of its own.                            *)
SeenNever(c) == FALSE

(* Whether the call consults the store of an earlier call.                 *)
Seen(c) == c.shared /\ Key(c) \in store

(* evaluate_send_gates with the shipped thresholds, which name a number    *)
(* for every kind and enable every desk.                                   *)
Gate(c) ==
    IF c.pack \in Thin THEN "threshold_not_met"
    ELSE IF night /\ ~c.ignoreQuiet THEN "quiet_hours" ELSE "ok"

(* deliver() up to its first POST: the first refusal that applies.         *)
Refusal(c) ==
    IF Gate(c) # "ok"                            THEN Gate(c)
    ELSE IF ~env.token                           THEN "missing_env"
    ELSE IF c.dm /\ env.dm = Unset               THEN "missing_principal_dm"
    ELSE IF c.dm /\ env.dm = env.group           THEN "principal_dm_is_group"
    ELSE IF ~c.dm /\ ResolveChat(c) = Unset      THEN "missing_chat_id"
    ELSE IF Seen(c)                              THEN "dedupe_hit"
    ELSE "none"

Result(c, sent, reason) ==
    [key |-> Key(c), cli |-> c.cli, shared |-> c.shared, chat |-> ResolveChat(c),
     sent |-> sent, reason |-> reason, rc |-> IF c.cli /\ ~(sent /\ c.exitOk) THEN 2 ELSE 0]

Refusals == {"threshold_not_met", "quiet_hours", "missing_env", "missing_principal_dm",
             "principal_dm_is_group", "missing_chat_id", "dedupe_hit"}

Results == [key : Keys, cli : BOOLEAN, shared : BOOLEAN, chat : Chats \cup {Unset},
            sent : BOOLEAN, rc : {0, 2},
            reason : Refusals \cup {"no_send", "rate_limited", "retries_exhausted", "ok"}]

TypeOK ==
    /\ env \in Env
    /\ night \in BOOLEAN
    /\ todo \in Seq(Calls)
    /\ pos \in [chunk : Nat, used : Nat, attempt : 0..Attempts]
    /\ chat \in [Chats -> Seq(Keys \X Nat)]
    /\ store \subseteq Keys
    /\ failed \subseteq Keys
    /\ done \subseteq Results
    /\ pings \subseteq {"start", "success"}
    /\ runs \in 0..MaxRuns /\ faults \in 0..MaxFaults

Init ==
    /\ env \in Envs
    /\ night = FALSE
    /\ todo = <<>>
    /\ pos = Start
    /\ chat = [x \in Chats |-> <<>>]
    /\ store = {}
    /\ failed = {}
    /\ done = {}
    /\ pings = {}
    /\ runs = 0 /\ faults = 0

-----------------------------------------------------------------------------
(* The flags of `lab deliver pack | test`.  A live call needs both         *)
(* --to-principal-dm and --i-mean-it; the group and desk route is frozen.  *)
GroupLive(a) == (a.send \/ a.iMeanIt) /\ ~a.toDm

Frozen(a) == GroupLive(a) \/ (a.toDm /\ a.send /\ ~a.iMeanIt)

Live(a, dead) == a.toDm /\ a.iMeanIt /\ ~DmPreflightBlocks(dead)

Flags == [send : BOOLEAN, iMeanIt : BOOLEAN, toDm : BOOLEAN, ignoreQuiet : BOOLEAN,
          cmd : {"pack", "test"}]

(* A command refused on its flags, or a dry run that only writes payload.  *)
CliDry(a, p, dead) ==
    /\ todo = <<>> /\ runs < MaxRuns
    /\ Frozen(a) \/ ~Live(a, dead)
    /\ LET c == [desk |-> "ops", pack |-> p, dm |-> a.toDm, shared |-> FALSE, cli |-> TRUE,
                 cmd |-> a.cmd, ignoreQuiet |-> a.ignoreQuiet,
                 exitOk |-> ~Frozen(a) /\ ExitOk(a.toDm, a.iMeanIt, dead)]
       IN done' = {[Result(c, FALSE, "no_send") EXCEPT !.rc = IF c.exitOk THEN 0 ELSE 2]}
    /\ pings' = {}
    /\ runs' = runs + 1
    /\ UNCHANGED <<env, night, todo, pos, chat, store, failed, faults>>

(* A live command: pack pings the dead-man start URL, then deliver() runs  *)
(* with a store and a budget of its own.                                   *)
CliLive(a, p, dead) ==
    /\ todo = <<>> /\ runs < MaxRuns
    /\ ~Frozen(a) /\ Live(a, dead)
    /\ todo' = <<[desk |-> "ops", pack |-> p, dm |-> TRUE, shared |-> FALSE, cli |-> TRUE,
                  cmd |-> a.cmd, ignoreQuiet |-> a.ignoreQuiet,
                  exitOk |-> ExitOk(TRUE, TRUE, dead)]>>
    /\ pos' = Start
    /\ pings' = IF a.cmd = "pack" THEN {"start"} ELSE {}
    /\ done' = {}
    /\ runs' = runs + 1
    /\ UNCHANGED <<env, night, chat, store, failed, faults>>

(* fanout_desk with send=True and the caller's dedupe store: the desk and, *)
(* whatever became of it, the Ops mirror under the same content hash.      *)
Fanout(d, p) ==
    /\ todo = <<>> /\ runs < MaxRuns
    /\ LET c == [desk |-> d, pack |-> p, dm |-> FALSE, shared |-> TRUE, cli |-> FALSE,
                 cmd |-> "fanout", ignoreQuiet |-> FALSE, exitOk |-> TRUE]
       IN todo' = IF d = "ops" THEN <<c>> ELSE <<c, [c EXCEPT !.desk = "ops"]>>
    /\ pos' = Start
    /\ pings' = {}
    /\ done' = {}
    /\ runs' = runs + 1
    /\ UNCHANGED <<env, night, chat, store, failed, faults>>

-----------------------------------------------------------------------------
Now == Head(todo)

(* Chunks 1..n are the text; n + 1 is the chart, whose caption repeats     *)
(* the first chunk and which the budget does not count.                    *)
LastPart(c) == ChunkCount[c.pack] + (IF c.pack \in WithPng /\ ~c.cli /\ c.desk # "ops" THEN 1 ELSE 0)

IsMedia(c, i) == i > ChunkCount[c.pack]

(* The end of a call: its result is kept and the next call starts.         *)
Close(r) ==
    /\ done' = done \cup {r}
    /\ todo' = Tail(todo)
    /\ pos' = Start

Refuse ==
    /\ todo # <<>> /\ pos = Start
    /\ Refusal(Now) # "none"
    /\ Close(Result(Now, FALSE, Refusal(Now)))
    /\ UNCHANGED <<env, night, chat, store, failed, pings, runs, faults>>

(* Every gate passed and the budget has room: the next part is put on the  *)
(* wire.                                                                   *)
NextPart ==
    /\ todo # <<>>
    /\ pos = Start => Refusal(Now) = "none"
    /\ pos.attempt = 0 /\ pos.chunk < LastPart(Now)
    /\ IsMedia(Now, pos.chunk + 1) \/ pos.used < Budget
    /\ pos' = [chunk |-> pos.chunk + 1, attempt |-> 1,
               used |-> pos.used + (IF IsMedia(Now, pos.chunk + 1) THEN 0 ELSE 1)]
    /\ UNCHANGED <<env, night, todo, chat, store, failed, done, pings, runs, faults>>

RateLimited ==
    /\ todo # <<>>
    /\ pos = Start => Refusal(Now) = "none"
    /\ pos.attempt = 0 /\ pos.chunk < ChunkCount[Now.pack]
    /\ pos.used >= Budget
    /\ failed' = failed \cup {Key(Now)}
    /\ Close(Result(Now, FALSE, "rate_limited"))
    /\ UNCHANGED <<env, night, chat, store, pings, runs, faults>>

Accept == chat' = [chat EXCEPT ![ResolveChat(Now)] = Append(@, <<Key(Now), pos.chunk>>)]

(* Telegram answers ok.                                                    *)
Accepted ==
    /\ pos.attempt > 0
    /\ Accept
    /\ pos' = [pos EXCEPT !.attempt = 0]
    /\ UNCHANGED <<env, night, todo, store, failed, done, pings, runs, faults>>

(* A timeout, a connection error, 429 or 5xx with attempts left: the part  *)
(* may have been accepted all the same, and it is sent again.              *)
Retry ==
    /\ pos.attempt \in 1..(Attempts - 1)
    /\ faults < MaxFaults
    /\ Accept \/ UNCHANGED chat
    /\ pos' = [pos EXCEPT !.attempt = @ + 1]
    /\ faults' = faults + 1
    /\ UNCHANGED <<env, night, todo, store, failed, done, pings, runs>>

(* Mutant: a part that failed leaves no record.                            *)
PartFailsSilently ==
    /\ pos.attempt > 0 /\ faults < MaxFaults
    /\ UNCHANGED chat
    /\ Close(Result(Now, FALSE, "retries_exhausted"))
    /\ faults' = faults + 1
    /\ UNCHANGED <<env, night, store, failed, pings, runs>>

(* A terminal status, ok=false in the body, or the last attempt lost.      *)
PartFails ==
    /\ pos.attempt > 0 /\ faults < MaxFaults
    /\ \/ UNCHANGED chat
       \/ pos.attempt = Attempts /\ Accept
    /\ failed' = failed \cup {Key(Now)}
    /\ Close(Result(Now, FALSE, "retries_exhausted"))
    /\ faults' = faults + 1
    /\ UNCHANGED <<env, night, store, pings, runs>>

(* Every part was accepted: the key is remembered, and a live pack pings   *)
(* the dead-man success URL.                                               *)
Sent ==
    /\ todo # <<>>
    /\ pos.attempt = 0 /\ pos.chunk = LastPart(Now)
    /\ store' = IF Now.shared THEN store \cup {Key(Now)} ELSE store
    /\ pings' = IF Now.cli /\ Now.cmd = "pack" THEN pings \cup {"success"} ELSE pings
    /\ Close(Result(Now, TRUE, "ok"))
    /\ UNCHANGED <<env, night, chat, failed, runs, faults>>

NightFalls ==
    /\ ~night
    /\ night' = TRUE
    /\ UNCHANGED <<env, todo, pos, chat, store, failed, done, pings, runs, faults>>

Next ==
    \/ \E a \in Flags, p \in Packs, dead \in BOOLEAN : CliDry(a, p, dead) \/ CliLive(a, p, dead)
    \/ \E d \in Desks, p \in Packs : Fanout(d, p)
    \/ Refuse
    \/ NextPart
    \/ RateLimited
    \/ Accepted
    \/ Retry
    \/ PartFails
    \/ Sent
    \/ NightFalls

Spec == Init /\ [][Next]_vars

-----------------------------------------------------------------------------
PartsIn(x, k) == {chat[x][i][2] : i \in {j \in DOMAIN chat[x] : chat[x][j][1] = k}}

(* DM-only: whatever the flags, and also when the Principal's id holds the *)
(* group's id by mistake, no command puts a line in the configured group.  *)
CliNeverReachesGroup ==
    [][(todo # <<>> /\ Now.cli /\ env.group # Unset)
            => UNCHANGED chat[env.group]]_vars

(* A command that exits 0 after a live run put every chunk of the pack in  *)
(* the chat it was routed to.                                              *)
CleanExitMeansWhole ==
    \A r \in done : (r.cli /\ r.rc = 0 /\ r.reason # "no_send") =>
        1..ChunkCount[r.key[2]] \subseteq PartsIn(r.chat, r.key)

(* Never a silent drop: a pack of which Telegram accepted only a part is   *)
(* in failed_sink, unless the call is still running.                       *)
PartialIsRecorded ==
    \A x \in Chats, d \in Desks, p \in Packs :
        LET k == <<d, p>> IN
        (PartsIn(x, k) # {} /\ ~(1..ChunkCount[p] \subseteq PartsIn(x, k)))
            => k \in failed \/ (todo # <<>> /\ Key(Now) = k)

(* One process that keeps its dedupe store never posts again what it has   *)
(* completed for a desk, also when the same pack goes out to the desk and  *)
(* to the mirror and the desk's part failed and is tried again.            *)
NoDoubleComplete ==
    [][(todo # <<>> /\ Now.shared /\ Key(Now) \in store) => UNCHANGED chat]_vars

(* Chunks reach a chat in order: a chunk is accepted only after every      *)
(* chunk before it, even when the answers of earlier ones were lost.       *)
ChunksInOrder ==
    \A x \in Chats : \A i \in DOMAIN chat[x] :
        chat[x][i][2] > 1 => \E j \in 1..(i - 1) :
            chat[x][j] = <<chat[x][i][1], chat[x][i][2] - 1>>

(* The delivery tells the truth: a clean exit is a whole pack, a pack cut  *)
(* short is recorded, and chunks arrive in order.                          *)
DeliveryIsHonest == CleanExitMeansWhole /\ PartialIsRecorded /\ ChunksInOrder

(* No command posts to the group, and no process posts a pack twice that   *)
(* it has completed.                                                       *)
DeliveryIsConfined == CliNeverReachesGroup /\ NoDoubleComplete
=============================================================================
