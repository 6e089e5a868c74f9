---------------------------- MODULE CommandQueue ----------------------------
(***************************************************************************)
(* The life of the rows of cpe_pending_commands that belong to ONE cpe_id: *)
(* every statement of the worker and of the API filters by that column, so *)
(* the queues of two devices never meet here.  Four parties share the rows:*)
(*                                                                         *)
(*   - the Python API inserts them (POST /commands, POST /reboot), patches *)
(*     their status and deletes them (reboot compensation, DELETE /cpes);  *)
(*   - the Rust CWMP handlers, one per HTTP request in flight, dequeue the *)
(*     oldest pending row in a transaction and settle the row they take a  *)
(*     device's RPC response to answer;                                    *)
(*   - the device polls with empty POSTs, executes the RPCs it receives,   *)
(*     answers them, times out and retries;                                *)
(*   - PostgreSQL holds the row locks.                                     *)
(*                                                                         *)
(* One SQL statement is one step, except the UPDATE that settles a row: its*)
(* sub-select picks an id without locking it, so the pick and the write are*)
(* two steps.  A command is named by its rank in created_at order; since   *)
(* created_at is the time the inserting transaction began, rows may become *)
(* visible in any order of rank.                                           *)
(***************************************************************************)
EXTENDS Integers, FiniteSets

CONSTANTS
    Commands,    \* the rows that may ever be inserted, ranked by created_at
    Handlers,    \* the CWMP requests that can be in flight at once
    Patchers,    \* the PATCH requests that can be in flight at once
    Dual,        \* the commands that POST /reboot queues beside an MQTT publish
    Faulty,      \* the commands whose execution the device answers with a Fault
    PatchTo,     \* the statuses a PATCH may ask for
    MaxRewinds,  \* bound: how often an operator re-queues one command
    None

ASSUME QueueAssumption ==
    /\ Commands \subseteq Nat
    /\ Dual \subseteq Commands
    /\ Faulty \subseteq Commands
    /\ Commands \cap Handlers = {}
    /\ None \notin Commands \cup Handlers
    /\ PatchTo \subseteq {"pending", "dispatched", "completed", "failed"}
    /\ MaxRewinds \in Nat

VARIABLES
    registered,  \* the CPE has a row in cpe_inventory
    status,      \* status[c]: the status column, or absent/deleted
    result,      \* result[c]: the command whose response is in result_payload
    noLater,     \* <<x, y>>: timestamp of x <= timestamp of y (see Stamped)
    reboot,      \* reboot[c]: where the dual-stack reboot that queued c stands
    patch,       \* patch[p]: what a PATCH has read and is about to write
    pc,          \* pc[h]: where a CWMP handler stands
    cmd,         \* cmd[h]: the row it has locked, picked or is replying with
    answers,     \* answers[h]: the command its request body answers
    waiting,     \* the handler whose reply the device is waiting for
    owes,        \* the command whose RPC response the device has yet to deliver
    executed,    \* the commands the device has executed
    dispatches,  \* history: how often the worker committed c as dispatched
    rewinds,     \* history: how often a PATCH put c back to pending
    disturbed    \* history: an irregularity has happened (see UndisturbedResultIsOwn)

dbVars      == <<registered, status, result, noLater>>
apiVars     == <<reboot, patch>>
handlerVars == <<pc, cmd, answers>>
deviceVars  == <<waiting, owes, executed>>
historyVars == <<dispatches, rewinds, disturbed>>
vars == <<dbVars, apiVars, handlerVars, deviceVars, historyVars>>

Terminal == {"completed", "failed"}
ColumnStatus == {"pending", "dispatched"} \cup Terminal
Status == ColumnStatus \cup {"absent", "deleted"}
RebootStage == {"none", "publishing", "compensating", "dispatched", "refused", "crashed"}
HandlerPc == {"idle", "pick", "write", "select", "locked", "reply"}

NoPatch == [cmd |-> None, seen |-> "absent", new |-> "absent"]
Patch == [cmd : Commands, seen : ColumnStatus, new : ColumnStatus]

-----------------------------------------------------------------------------
(* Rows, locks and timestamps *)

\* Defect: a row that has been deleted can still be written.
ExistsOnceInserted(c) == status[c] # "absent"

Exists(c) == status[c] \in ColumnStatus

\* h's transaction has selected c FOR UPDATE and has not ended.
Holds(h, c) == pc[h] = "locked" /\ cmd[h] = c

\* Defect: the lock is kept until the device has answered.
LockedUntilSettled(c) == status[c] = "dispatched" \/ \E h \in Handlers : Holds(h, c)

Locked(c) == \E h \in Handlers : Holds(h, c)

\* A row is stamped when dispatched_at is not NULL, a handler while its
\* transaction is open: CURRENT_TIMESTAMP is the time its transaction began.
Stamped(x) == <<x, x>> \in noLater

Without(x) == {p \in noLater : p[1] # x /\ p[2] # x}

\* h begins a transaction: its timestamp is later than every other one.
Began(h) ==
    Without(h) \cup {<<h, h>>}
               \cup {<<x, h>> : x \in {y \in (Commands \cup Handlers) \ {h} : Stamped(y)}}

\* dispatched_at of c becomes the timestamp of h's transaction.
StampFrom(h, c) ==
    LET kept == {p \in Without(c) : p[1] # h /\ p[2] # h}
    IN  kept \cup {<<c, c>>}
             \cup {<<x, c>> : x \in {y \in (Commands \cup Handlers) \ {c, h} : <<y, h>> \in noLater}}
             \cup {<<c, x>> : x \in {y \in (Commands \cup Handlers) \ {c, h} : <<h, y>> \in noLater}}

\* Defects: SELECT without FOR UPDATE; a failed row is taken again.
SelectableUnlocked(c) == status[c] = "pending"

SelectableOrFailed(c) ==
    /\ status[c] \in {"pending", "failed"}
    /\ ~Locked(c)

\* The rows the dequeue may take: the oldest pending one no transaction has
\* locked (ORDER BY created_at LIMIT 1 FOR UPDATE SKIP LOCKED).
Selectable(c) ==
    /\ status[c] = "pending"
    /\ ~Locked(c)

\* Defects: newest row first; nothing is sent while an answer is outstanding.
NextPendingNewest(c) ==
    /\ Selectable(c)
    /\ \A d \in Commands : Selectable(d) => c >= d

NextPendingOneAtATime(c) ==
    /\ Selectable(c)
    /\ \A d \in Commands : (Selectable(d) => c <= d) /\ status[d] # "dispatched"

NextPending(c) ==
    /\ Selectable(c)
    /\ \A d \in Commands : Selectable(d) => c <= d

\* ORDER BY dispatched_at DESC NULLS LAST, created_at DESC.
SortsFirst(c, d) ==
    \/ Stamped(c) /\ ~Stamped(d)
    \/ Stamped(c) /\ Stamped(d) /\ <<c, d>> \notin noLater
    \/ ~Stamped(c) /\ ~Stamped(d) /\ c > d

\* Defect: oldest dispatched row first.
FirstDispatched(c) ==
    /\ status[c] = "dispatched"
    /\ \A d \in Commands \ {c} : status[d] = "dispatched" => SortsFirst(d, c)

LastDispatched(c) ==
    /\ status[c] = "dispatched"
    /\ \A d \in Commands \ {c} : status[d] = "dispatched" => SortsFirst(c, d)

\* What the body says: any Fault fails the row, any other response completes it.
Verdict(c) == IF c \in Faulty THEN "failed" ELSE "completed"

-----------------------------------------------------------------------------
Init ==
    /\ registered = TRUE
    /\ status = [c \in Commands |-> "absent"]
    /\ result = [c \in Commands |-> None]
    /\ noLater = {}
    /\ reboot = [c \in Commands |-> "none"]
    /\ patch = [p \in Patchers |-> NoPatch]
    /\ pc = [h \in Handlers |-> "idle"]
    /\ cmd = [h \in Handlers |-> None]
    /\ answers = [h \in Handlers |-> None]
    /\ waiting = None
    /\ owes = None
    /\ executed = {}
    /\ dispatches = [c \in Commands |-> 0]
    /\ rewinds = [c \in Commands |-> 0]
    /\ disturbed = FALSE

-----------------------------------------------------------------------------
(* The Python API *)

\* INSERT and COMMIT of a row.  The handler checked the CPE first, and the foreign
\* key checks it again: the insert succeeds only while the CPE is registered.
\* created_at is now(), the time of the handler's first SELECT, and the commit of
\* a request that began earlier may come later: no order of rank is kept.
Insert(c) ==
    /\ registered
    /\ status[c] = "absent"
    /\ status' = [status EXCEPT ![c] = "pending"]
    /\ UNCHANGED <<registered, result, noLater>>

\* The rows rs are gone, with all their columns.
DeleteRows(rs) ==
    /\ status' = [c \in Commands |-> IF c \in rs THEN "deleted" ELSE status[c]]
    /\ result' = [c \in Commands |-> IF c \in rs THEN None ELSE result[c]]
    /\ noLater' = {p \in noLater : p[1] \notin rs /\ p[2] \notin rs}
    /\ disturbed' = (disturbed \/ \E c \in rs : status[c] = "dispatched")

\* POST /commands, and POST /reboot?protocol=tr069.
EnqueueCommand(c) ==
    /\ c \notin Dual
    /\ Insert(c)
    /\ UNCHANGED <<apiVars, handlerVars, deviceVars, historyVars>>

\* POST /reboot (dual): the row is committed before the MQTT publish starts.
RebootDual(c) ==
    /\ c \in Dual
    /\ Insert(c)
    /\ reboot' = [reboot EXCEPT ![c] = "publishing"]
    /\ UNCHANGED <<patch, handlerVars, deviceVars, historyVars>>

PublishSucceeds(c) ==
    /\ reboot[c] = "publishing"
    /\ reboot' = [reboot EXCEPT ![c] = "dispatched"]
    /\ UNCHANGED <<dbVars, patch, handlerVars, deviceVars, historyVars>>

\* The publish raises: the broker is down, or took the message and the
\* acknowledgement (QoS 1) was lost.
PublishRaises(c) ==
    /\ reboot[c] = "publishing"
    /\ reboot' = [reboot EXCEPT ![c] = "compensating"]
    /\ UNCHANGED <<dbVars, patch, handlerVars, deviceVars, historyVars>>

\* DELETE of the queued row, then HTTP 503.  The DELETE waits for a row lock;
\* a row that is already gone is no error.
Compensate(c) ==
    /\ reboot[c] = "compensating"
    /\ ~Locked(c)
    /\ reboot' = [reboot EXCEPT ![c] = "refused"]
    /\ DeleteRows({c})
    /\ UNCHANGED <<registered, patch, handlerVars, deviceVars,
                   dispatches, rewinds>>

\* The DELETE itself fails: the request ends in a 500 and the row stays queued.
CompensateFails(c) ==
    /\ reboot[c] = "compensating"
    /\ reboot' = [reboot EXCEPT ![c] = "crashed"]
    /\ UNCHANGED <<dbVars, patch, handlerVars, deviceVars, historyVars>>

\* Defect: the transition check is missing.
PatchReadUnchecked(p, c, new) ==
    /\ patch[p] = NoPatch
    /\ Exists(c)
    /\ new # status[c]
    /\ new = "pending" => rewinds[c] < MaxRewinds
    /\ patch' = [patch EXCEPT ![p] = [cmd |-> c, seen |-> status[c], new |-> new]]
    /\ UNCHANGED <<dbVars, reboot, handlerVars, deviceVars, historyVars>>

\* PATCH /commands/{id}: SELECT and the transition check, without a lock.  An
\* unchanged attribute is not written, so new = status[c] has no second step.
PatchRead(p, c, new) ==
    /\ patch[p] = NoPatch
    /\ Exists(c)
    /\ ~(status[c] \in Terminal /\ new # status[c])
    /\ new # status[c]
    /\ new = "pending" => rewinds[c] < MaxRewinds
    /\ patch' = [patch EXCEPT ![p] = [cmd |-> c, seen |-> status[c], new |-> new]]
    /\ UNCHANGED <<dbVars, reboot, handlerVars, deviceVars, historyVars>>

\* The UPDATE ... WHERE id of the flush: it waits for a row lock and does not
\* look at the status again.  If the row is gone the request ends in an error.
PatchWrite(p) ==
    LET c == patch[p].cmd
        new == patch[p].new
    IN
    /\ patch[p] # NoPatch
    /\ ~Locked(c)
    /\ patch' = [patch EXCEPT ![p] = NoPatch]
    /\ \/ /\ Exists(c)
          /\ status' = [status EXCEPT ![c] = new]
          /\ rewinds' = IF new = "pending" /\ status[c] # "pending"
                        THEN [rewinds EXCEPT ![c] = @ + 1] ELSE rewinds
          /\ disturbed' = TRUE
       \/ /\ ~Exists(c)
          /\ UNCHANGED <<status, rewinds, disturbed>>
    /\ UNCHANGED <<registered, result, noLater, reboot, handlerVars, deviceVars,
                   dispatches>>

\* DELETE /cpes/{id}: the cascade deletes every row, and waits for row locks.
DeleteCpe ==
    /\ registered
    /\ \A c \in Commands : ~Locked(c)
    /\ registered' = FALSE
    /\ DeleteRows({c \in Commands : Exists(c)})
    /\ UNCHANGED <<apiVars, handlerVars, deviceVars, dispatches, rewinds>>

\* POST /cpes, or the worker's auto-provision of a CPE that reports telemetry.
RegisterCpe ==
    /\ ~registered
    /\ registered' = TRUE
    /\ UNCHANGED <<status, result, noLater, apiVars, handlerVars, deviceVars, historyVars>>

\* The API process dies: what is committed stays, requests in flight are lost.
ApiCrash ==
    /\ reboot' = [c \in Commands |-> IF reboot[c] \in {"publishing", "compensating"}
                                     THEN "crashed" ELSE reboot[c]]
    /\ patch' = [p \in Patchers |-> NoPatch]
    /\ <<reboot', patch'>> # <<reboot, patch>>
    /\ UNCHANGED <<dbVars, handlerVars, deviceVars, historyVars>>

-----------------------------------------------------------------------------
(* The Rust CWMP handlers *)

\* A handler goes on to dequeue_pending_command: BEGIN.
StartDequeue(h) ==
    /\ pc' = [pc EXCEPT ![h] = "select"]
    /\ cmd' = [cmd EXCEPT ![h] = None]
    /\ answers' = [answers EXCEPT ![h] = None]
    /\ noLater' = Began(h)

\* The transaction of h is over and the handler replies with c (None: empty).
ReplyWith(h, c) ==
    /\ pc' = [pc EXCEPT ![h] = "reply"]
    /\ cmd' = [cmd EXCEPT ![h] = c]
    /\ UNCHANGED answers

\* The device, with nothing left to answer, sends an empty POST.
EmptyPost(h) ==
    /\ waiting = None
    /\ owes = None
    /\ pc[h] = "idle"
    /\ waiting' = h
    /\ StartDequeue(h)
    /\ UNCHANGED <<registered, status, result, apiVars, owes, executed, historyVars>>

\* The device posts the response (or the Fault) of the command it executed.
ResponsePost(h) ==
    /\ waiting = None
    /\ owes # None
    /\ pc[h] = "idle"
    /\ waiting' = h
    /\ pc' = [pc EXCEPT ![h] = "pick"]
    /\ answers' = [answers EXCEPT ![h] = owes]
    /\ UNCHANGED <<dbVars, apiVars, cmd, owes, executed, historyVars>>

\* The sub-select of the settling UPDATE.  It reads neither the header ID of the
\* response nor a lock: the row is the one dispatched last.
PickRow(h) ==
    /\ pc[h] = "pick"
    /\ \/ \E c \in Commands :
             /\ LastDispatched(c)
             /\ pc' = [pc EXCEPT ![h] = "write"]
             /\ cmd' = [cmd EXCEPT ![h] = c]
             /\ UNCHANGED <<answers, noLater>>
       \/ /\ \A c \in Commands : status[c] # "dispatched"
          /\ StartDequeue(h)
    /\ UNCHANGED <<registered, status, result, apiVars, deviceVars, historyVars>>

\* The write of the settling UPDATE: WHERE id only, whatever the status is by
\* now.  It waits for a row lock; a row that is gone is not written.
SettleRow(h) ==
    LET c == cmd[h] IN
    /\ pc[h] = "write"
    /\ ~Locked(c)
    /\ \/ /\ Exists(c)
          /\ status' = [status EXCEPT ![c] = Verdict(answers[h])]
          /\ result' = [result EXCEPT ![c] = answers[h]]
       \/ /\ ~Exists(c)
          /\ UNCHANGED <<status, result>>
    /\ StartDequeue(h)
    /\ UNCHANGED <<registered, apiVars, deviceVars, historyVars>>

\* The settling UPDATE fails: it is logged, and the handler dequeues anyway.
SettleFails(h) ==
    /\ pc[h] \in {"pick", "write"}
    /\ StartDequeue(h)
    /\ UNCHANGED <<registered, status, result, apiVars, deviceVars, historyVars>>

\* SELECT ... FOR UPDATE SKIP LOCKED: the oldest unlocked pending row, or none
\* (the transaction commits and the reply is empty).
SelectNext(h) ==
    /\ pc[h] = "select"
    /\ \/ \E c \in Commands :
             /\ NextPending(c)
             /\ pc' = [pc EXCEPT ![h] = "locked"]
             /\ cmd' = [cmd EXCEPT ![h] = c]
             /\ UNCHANGED <<answers, noLater>>
       \/ /\ \A c \in Commands : ~Selectable(c)
          /\ ReplyWith(h, None)
          /\ noLater' = Without(h)
    /\ UNCHANGED <<registered, status, result, apiVars, deviceVars, historyVars>>

\* UPDATE ... SET status = 'dispatched' and COMMIT.  When the acknowledgement of
\* the commit is lost the handler sees an error and replies without the RPC.
CommitDispatch(h, acknowledged) ==
    LET c == cmd[h] IN
    /\ pc[h] = "locked"
    /\ status' = [status EXCEPT ![c] = "dispatched"]
    /\ noLater' = StampFrom(h, c)
    /\ dispatches' = [dispatches EXCEPT ![c] = @ + 1]
    /\ ReplyWith(h, IF acknowledged THEN c ELSE None)
    /\ UNCHANGED <<registered, result, apiVars, deviceVars, rewinds, disturbed>>

\* A statement or the connection fails: rollback, reply without an RPC.
DequeueFails(h) ==
    /\ pc[h] \in {"select", "locked"}
    /\ ReplyWith(h, None)
    /\ noLater' = Without(h)
    /\ UNCHANGED <<registered, status, result, apiVars, deviceVars, historyVars>>

\* The reply reaches the device.  An RPC is executed and its answer is owed; an
\* empty reply ends the session.
Reply(h) ==
    /\ pc[h] = "reply"
    /\ waiting = h
    /\ waiting' = None
    /\ owes' = cmd[h]
    /\ executed' = executed \cup ({cmd[h]} \ {None})
    /\ pc' = [pc EXCEPT ![h] = "idle"]
    /\ cmd' = [cmd EXCEPT ![h] = None]
    /\ UNCHANGED <<dbVars, apiVars, answers, historyVars>>

\* The connection of h is gone: the server drops the handler at whatever await
\* it stands, which rolls an open transaction back, and any reply is lost.
Cancel(h) ==
    /\ pc[h] # "idle"
    /\ waiting # h
    /\ pc' = [pc EXCEPT ![h] = "idle"]
    /\ cmd' = [cmd EXCEPT ![h] = None]
    /\ answers' = [answers EXCEPT ![h] = None]
    /\ noLater' = Without(h)
    /\ UNCHANGED <<registered, status, result, apiVars, deviceVars, historyVars>>

\* The worker process dies and restarts: every open transaction is rolled back.
WorkerCrash ==
    /\ \E h \in Handlers : pc[h] # "idle"
    /\ pc' = [h \in Handlers |-> "idle"]
    /\ cmd' = [h \in Handlers |-> None]
    /\ answers' = [h \in Handlers |-> None]
    /\ noLater' = {p \in noLater : p[1] \notin Handlers /\ p[2] \notin Handlers}
    /\ UNCHANGED <<registered, status, result, apiVars, deviceVars, historyVars>>

\* The device gives up on a reply.  It either repeats the request it still owes
\* or drops it and starts a new session.
DeviceTimeout(repeats) ==
    /\ waiting # None
    /\ repeats => owes # None
    /\ waiting' = None
    /\ owes' = IF repeats THEN owes ELSE None
    /\ disturbed' = (disturbed \/ repeats \/ pc[waiting] \notin {"idle", "reply"})
    /\ UNCHANGED <<dbVars, apiVars, handlerVars, executed, dispatches, rewinds>>

-----------------------------------------------------------------------------
ApiStep ==
    \/ \E c \in Commands :
          \/ EnqueueCommand(c)
          \/ RebootDual(c)
          \/ PublishSucceeds(c)
          \/ PublishRaises(c)
          \/ Compensate(c)
          \/ CompensateFails(c)
    \/ \E p \in Patchers, c \in Commands, new \in PatchTo : PatchRead(p, c, new)
    \/ \E p \in Patchers : PatchWrite(p)
    \/ DeleteCpe
    \/ RegisterCpe
    \/ ApiCrash

HandlerStep(h) ==
    \/ PickRow(h)
    \/ SettleRow(h)
    \/ SettleFails(h)
    \/ SelectNext(h)
    \/ \E acknowledged \in BOOLEAN : CommitDispatch(h, acknowledged)
    \/ DequeueFails(h)
    \/ Reply(h)
    \/ Cancel(h)

DeviceStep ==
    \/ \E h \in Handlers : EmptyPost(h) \/ ResponsePost(h)
    \/ \E repeats \in BOOLEAN : DeviceTimeout(repeats)

Next ==
    \/ ApiStep
    \/ \E h \in Handlers : HandlerStep(h)
    \/ WorkerCrash
    \/ DeviceStep

Spec == Init /\ [][Next]_vars

(***************************************************************************)
(* Fairness.  The runtime polls every ready handler, so a handler's next   *)
(* statement is weakly fair, and an API request goes on to its next await. *)
(* The device polls periodically.  Rollbacks, timeouts and crashes may     *)
(* recur for ever, but not at every attempt: a statement that is tried     *)
(* again and again gets through (strong fairness).                         *)
(***************************************************************************)
Fairness ==
    /\ \A h \in Handlers : WF_vars(HandlerStep(h))
    /\ SF_vars(\E h \in Handlers : PickRow(h))
    /\ SF_vars(\E h \in Handlers : SettleRow(h) \/ SettleFails(h))
    /\ SF_vars(\E h \in Handlers : SelectNext(h))
    /\ SF_vars(\E h \in Handlers, acknowledged \in BOOLEAN : CommitDispatch(h, acknowledged))
    /\ \A c \in Commands : WF_vars(PublishSucceeds(c) \/ PublishRaises(c))
    /\ \A c \in Commands : WF_vars(Compensate(c))
    /\ WF_vars(\E h \in Handlers : EmptyPost(h))
    /\ WF_vars(\E h \in Handlers : ResponsePost(h))
    /\ WF_vars(\E repeats \in BOOLEAN : DeviceTimeout(repeats))

FairSpec == Spec /\ Fairness

-----------------------------------------------------------------------------
(* Properties *)

(***************************************************************************)
(* Type invariant of the rows, the requests, the handlers and the device.  *)
(***************************************************************************)
TypeOK ==
    /\ registered \in BOOLEAN
    /\ status \in [Commands -> Status]
    /\ result \in [Commands -> Commands \cup {None}]
    /\ noLater \subseteq (Commands \cup Handlers) \X (Commands \cup Handlers)
    /\ reboot \in [Commands -> RebootStage]
    /\ patch \in [Patchers -> Patch \cup {NoPatch}]
    /\ pc \in [Handlers -> HandlerPc]
    /\ cmd \in [Handlers -> Commands \cup {None}]
    /\ answers \in [Handlers -> Commands \cup {None}]
    /\ waiting \in Handlers \cup {None}
    /\ owes \in Commands \cup {None}
    /\ executed \subseteq Commands
    /\ dispatches \in [Commands -> Nat]
    /\ rewinds \in [Commands -> Nat]
    /\ disturbed \in BOOLEAN

(***************************************************************************)
(* What dequeue_pending_command read is still true when it writes: from the*)
(* SELECT to the UPDATE a selected row stays pending, whatever a PATCH, a  *)
(* DELETE, a settling UPDATE or a second handler do, and no two handlers   *)
(* have selected the same row.                                             *)
(***************************************************************************)
SelectionStaysValid ==
    \A h \in Handlers : pc[h] = "locked" =>
        /\ cmd[h] \in Commands
        /\ status[cmd[h]] = "pending"
        /\ \A g \in Handlers \ {h} : ~Holds(g, cmd[h])

(***************************************************************************)
(* The queue implements CommandLife: although the dequeue, the settling of *)
(* a response and the PATCH read and write in separate statements, every   *)
(* run looks as if each of them had been one step.  In particular only a   *)
(* row that is pending at the commit goes out, and nothing but an operator *)
(* makes a row pending again.                                              *)
(***************************************************************************)
Life == INSTANCE CommandLife WITH row <- status, sent <- dispatches, requeued <- rewinds

LifeSpec == Life!Spec

(***************************************************************************)
(* Concurrent CWMP sessions never dispatch one queueing of a command twice:*)
(* a row goes out once, plus once for every time an operator's PATCH put it*)
(* back to pending.  A crash, a rollback or a lost reply adds nothing.     *)
(***************************************************************************)
DispatchedOncePerQueueing ==
    \A c \in Commands : dispatches[c] <= 1 + rewinds[c]

(***************************************************************************)
(* The worker takes no row out of a terminal status: a completed or failed *)
(* row goes back to pending or dispatched only by a PATCH that had read the*)
(* row before it was settled.                                              *)
(***************************************************************************)
OnlyStalePatchRewinds ==
    [][\A c \in Commands :
          status[c] \in Terminal /\ status'[c] \in {"pending", "dispatched"} =>
              \E p \in Patchers :
                  /\ patch[p].cmd = c
                  /\ patch[p].seen \notin Terminal
                  /\ patch'[p] = NoPatch]_vars

(***************************************************************************)
(* As long as no request was repeated or abandoned in mid-service, no row  *)
(* was patched and no dispatched row was deleted, the result of a row is   *)
(* the response to that very command, although handle_cwmp_post does not   *)
(* compare the header ID: lost replies, rollbacks and crashes of the worker*)
(* leave rows dispatched for ever, but never mislead the choice.           *)
(***************************************************************************)
UndisturbedResultIsOwn ==
    ~disturbed => \A c \in Commands : result[c] \in {None, c}

(***************************************************************************)
(* Under the same conditions a settled row is never written again.         *)
(***************************************************************************)
UndisturbedSettlesOnce ==
    [][~disturbed' =>
          \A c \in Commands : status[c] \in Terminal => status'[c] \in {status[c], "deleted"}]_vars

(***************************************************************************)
(* Under the same conditions SKIP LOCKED skips nothing: the row a dequeue  *)
(* takes is the oldest of all that are visible as pending, because the     *)
(* transactions of the requests before it are over, rolled back by an error*)
(* or a crash included.  A row whose insert commits after that SELECT is   *)
(* overtaken by the row taken, even when its created_at is older.          *)
(***************************************************************************)
UndisturbedTakesOldest ==
    [][~disturbed =>
          \A h \in Handlers : pc[h] # "locked" /\ pc'[h] = "locked" =>
              \A d \in Commands : status[d] = "pending" => cmd'[h] <= d]_vars

(***************************************************************************)
(* A dual reboot that was answered 503 has no row left, in no status: the  *)
(* compensation is not undone by a handler that had already selected the   *)
(* row, nor by a PATCH or a settling UPDATE that had already picked it.    *)
(***************************************************************************)
RefusedRebootHasNoRow ==
    \A c \in Commands : reboot[c] = "refused" => status[c] = "deleted"

(***************************************************************************)
(* A pending command does not stay pending: while the device keeps polling *)
(* it is dispatched, patched or deleted, whatever rolls back on the way.   *)
(***************************************************************************)
PendingIsServed ==
    \A c \in Commands : status[c] = "pending" ~> status[c] # "pending"

(***************************************************************************)
(* A dual reboot is answered: the publish ends, and so does the DELETE that*)
(* compensates it, although it waits for the lock of a dequeue.            *)
(***************************************************************************)
DualRebootIsAnswered ==
    \A c \in Commands :
        reboot[c] = "publishing" ~> reboot[c] \in {"dispatched", "refused", "crashed"}

-----------------------------------------------------------------------------
(* Claims of the repository that the code does not keep *)

(***************************************************************************)
(* "commands in terminal states ('completed', 'failed') cannot be rewound  *)
(* back to 'pending' or 'dispatched'" (test_challenger_m1.py).             *)
(***************************************************************************)
TerminalIsNeverRewound ==
    [][\A c \in Commands :
          status[c] \in Terminal => status'[c] \notin {"pending", "dispatched"}]_vars

(***************************************************************************)
(* "Handler matches command ID, updates cpe_pending_commands to completed  *)
(* (or failed)" (.agents/explorer_m2_5_1/handoff.md): the result stored    *)
(* with a row is the response to that command.                             *)
(***************************************************************************)
ResultIsOwn == \A c \in Commands : result[c] \in {None, c}

(***************************************************************************)
(* The compensating deletion "guarantees transactional atomicity across    *)
(* the dual-stack dispatch boundary" (.agents/worker_m1_remediation/       *)
(* handoff.md): a reboot answered 503 is not executed by the device.       *)
(***************************************************************************)
RefusedRebootIsNotExecuted ==
    \A c \in Commands : reboot[c] = "refused" => c \notin executed

=============================================================================
