----------------------------- MODULE CommandLife -----------------------------
(***************************************************************************)
(* What the table cpe_pending_commands promises of its rows, with every    *)
(* operation on a row in one indivisible step: a command is queued, sent   *)
(* to a device while it is pending, settled by a response, rewritten by an *)
(* operator's PATCH, and deleted.  CommandQueue, where the dequeue is a    *)
(* SELECT and an UPDATE, the settling a sub-select and a write, and a PATCH*)
(* a SELECT and an UPDATE, implements it; CwmpServer is built on it.       *)
(***************************************************************************)
EXTENDS Naturals

CONSTANT Commands

VARIABLES
    row,       \* row[c]: the status column of c, or absent/deleted
    sent,      \* sent[c]: how often c went out to a device
    requeued   \* requeued[c]: how often a PATCH made c pending again

vars == <<row, sent, requeued>>

Settled == {"completed", "failed"}
Stored == {"pending", "dispatched"} \cup Settled

Init ==
    /\ row = [c \in Commands |-> "absent"]
    /\ sent = [c \in Commands |-> 0]
    /\ requeued = [c \in Commands |-> 0]

Queue(c) ==
    /\ row[c] = "absent"
    /\ row' = [row EXCEPT ![c] = "pending"]
    /\ UNCHANGED <<sent, requeued>>

\* Only a pending row is sent.
Send(c) ==
    /\ row[c] = "pending"
    /\ row' = [row EXCEPT ![c] = "dispatched"]
    /\ sent' = [sent EXCEPT ![c] = @ + 1]
    /\ UNCHANGED requeued

\* A response settles a row that exists, whatever its status has become.
Settle(c, verdict) ==
    /\ row[c] \in Stored
    /\ row' = [row EXCEPT ![c] = verdict]
    /\ UNCHANGED <<sent, requeued>>

Rewrite(c, s) ==
    /\ row[c] \in Stored
    /\ row' = [row EXCEPT ![c] = s]
    /\ requeued' = [requeued EXCEPT ![c] = IF s = "pending" /\ row[c] # "pending"
                                           THEN @ + 1 ELSE @]
    /\ UNCHANGED sent

\* A deleted row is not stored again: created later, it is another command.
Drop(cs) ==
    /\ row' = [c \in Commands |-> IF c \in cs THEN "deleted" ELSE row[c]]
    /\ UNCHANGED <<sent, requeued>>

Next ==
    \/ \E c \in Commands :
          \/ Queue(c)
          \/ Send(c)
          \/ \E verdict \in Settled : Settle(c, verdict)
          \/ \E s \in Stored : Rewrite(c, s)
    \/ \E cs \in SUBSET Commands : Drop(cs)

Spec == Init /\ [][Next]_vars

=============================================================================
