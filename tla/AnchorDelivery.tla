-------------------------- MODULE AnchorDelivery --------------------------
(***************************************************************************)
(* What the morning workflow promises of one anchor on one branch, said    *)
(* without runs' steps, queue, pushes or pings: chunks of a DM appear in   *)
(* the chat, any number of times, while the anchor is open; the anchor is  *)
(* closed at most once, and only after some run's whole DM has appeared.   *)
(***************************************************************************)
EXTENDS Naturals

CONSTANTS
    Runs, NoRun, Branches, Days,
    Chunks,     \* chunks of one DM
    Message     \* records with fields branch, anchor, run and chunk

VARIABLES
    chat,       \* chunks that appeared
    receipts    \* per branch and anchor, the run that closed it

vars == <<chat, receipts>>

Open(b, d) == receipts[b][d] = NoRun

Init ==
    /\ chat = {}
    /\ receipts = [b \in Branches |-> [d \in Days |-> NoRun]]

Appear(m) ==
    /\ Open(m.branch, m.anchor)
    /\ chat' = chat \cup {m}
    /\ UNCHANGED receipts

Close(b, d, r) ==
    /\ Open(b, d)
    /\ \A c \in 1..Chunks : \E m \in chat :
          m.run = r /\ m.branch = b /\ m.anchor = d /\ m.chunk = c
    /\ receipts' = [receipts EXCEPT ![b][d] = r]
    /\ UNCHANGED chat

Next ==
    \/ \E m \in Message : Appear(m)
    \/ \E b \in Branches, d \in Days, r \in Runs : Close(b, d, r)

Spec == Init /\ [][Next]_vars
=============================================================================
