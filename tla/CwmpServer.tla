------------------------------ MODULE CwmpServer ------------------------------
(***************************************************************************)
(* The CWMP server: the sessions of CwmpSession over the rows of           *)
(* CommandLife.  A request is taken for a device (perhaps the wrong one);  *)
(* an empty POST then takes a pending command from the queue of that       *)
(* device, a response settles a dispatched one of it and takes the next,   *)
(* and the reply carries the command to the device that is connected.      *)
(* Which of several rows is the oldest or the last one is the subject of   *)
(* CommandQueue; here it is any of them.                                   *)
(***************************************************************************)
EXTENDS CwmpSession

CONSTANTS
    Commands,
    OwnerOf,   \* OwnerOf[c]: the device in whose queue (cpe_id) command c is
    Faulty     \* the commands whose execution a device answers with a Fault

ASSUME ServerAssumption ==
    /\ OwnerOf \in [Commands -> Devices]
    /\ Faulty \subseteq Commands
    /\ None \notin Commands

VARIABLES
    row, sent, \* the rows of cpe_pending_commands, as in CommandLife
    stage,     \* stage[d]: the next step of the handler that serves d
    reply,     \* reply[d]: the command the reply to d carries
    inbox,     \* inbox[d]: the command d has executed and has yet to answer
    known      \* history: d keeps cookies, or was fresh when it sent its request

handlerVars == <<stage, reply, known>>
serverVars == <<vars, row, sent, handlerVars, inbox>>

\* Nobody patches a row here (CommandQueue models that).
Life == INSTANCE CommandLife WITH requeued <- [c \in Commands |-> 0]

Stages == {"none", "settle", "dequeue", "reply"}

ServerInit ==
    /\ Init
    /\ Life!Init
    /\ stage = [d \in Devices |-> "none"]
    /\ reply = [d \in Devices |-> None]
    /\ inbox = [d \in Devices |-> None]
    /\ known = [d \in Devices |-> FALSE]

-----------------------------------------------------------------------------
\* Defect: the statements do not filter by cpe_id.
RowsOfAll(cpe, status) == {c \in Commands : row[c] = status}

Rows(cpe, status) == {c \in Commands : OwnerOf[c] = cpe /\ row[c] = status}

\* What handle_cwmp_post does for a request of a known device, by its kind.
FirstStage(effect) ==
    CASE effect = "dequeue"                 -> "dequeue"
      [] effect \in {"failed", "completed"} -> "settle"
      [] OTHER                              -> "reply"

\* A device that has executed a command answers it before it polls again.
Request(d, b) ==
    /\ Post(d, b)
    /\ CASE b.kind = "response" -> inbox[d] \in Commands \ Faulty
         [] b.kind = "fault"    -> inbox[d] \in Faulty
         [] b.kind = "empty"    -> inbox[d] = None
         [] OTHER               -> TRUE
    /\ stage' = [stage EXCEPT ![d] = FirstStage(Effect(b))]
    /\ known' = [known EXCEPT ![d] = fresh[d] \/ d \in CookieKeepers]
    /\ UNCHANGED <<row, sent, reply, inbox>>

Resolve(d, answered) ==
    /\ Query(d, answered)
    /\ stage' = [stage EXCEPT ![d] = FirstStage(handled'[d].effect)]
    /\ UNCHANGED <<row, sent, reply, inbox, known>>

\* The response settles the row dispatched last in the queue it is taken to
\* belong to.  Without such a row, or on an error, nothing is settled.
SettleRow(d) ==
    LET dispatched == Rows(handled[d].cpe, "dispatched") IN
    /\ session[d] = "serving"
    /\ stage[d] = "settle"
    /\ stage' = [stage EXCEPT ![d] = "dequeue"]
    /\ \/ \E c \in dispatched : Life!Settle(c, handled[d].effect)
       \/ UNCHANGED <<row, sent>>
    /\ UNCHANGED <<vars, reply, inbox, known>>

\* dequeue_pending_command: the oldest pending row is dispatched.  The reply has
\* no command when there is no such row, or on an error; if only the answer to
\* the COMMIT was lost, the row is dispatched all the same.
Dequeue(d, acknowledged) ==
    LET pending == Rows(handled[d].cpe, "pending") IN
    /\ session[d] = "serving"
    /\ stage[d] = "dequeue"
    /\ stage' = [stage EXCEPT ![d] = "reply"]
    /\ \/ \E c \in pending :
             /\ Life!Send(c)
             /\ reply' = [reply EXCEPT ![d] = IF acknowledged THEN c ELSE None]
       \/ UNCHANGED <<row, sent, reply>>
    /\ UNCHANGED <<vars, inbox, known>>

\* The handler that serves d is gone, its work done or not.
HandlerEnds(d) ==
    /\ stage' = [stage EXCEPT ![d] = "none"]
    /\ reply' = [reply EXCEPT ![d] = None]
    /\ known' = [known EXCEPT ![d] = FALSE]

\* The device receives the reply and executes what it carries.
Deliver(d) ==
    /\ stage[d] = "reply"
    /\ Reply(d)
    /\ HandlerEnds(d)
    /\ inbox' = [inbox EXCEPT ![d] = reply[d]]
    /\ UNCHANGED <<row, sent>>

\* The connection ends; an answer that is owed is given up, or kept for the next
\* session unless the device restarts.
Disconnect(d, restarts) ==
    /\ Close(d, restarts)
    /\ HandlerEnds(d)
    /\ \/ inbox' = [inbox EXCEPT ![d] = None]
       \/ ~restarts /\ UNCHANGED inbox
    /\ UNCHANGED <<row, sent>>

WorkerRestart ==
    /\ Restart
    /\ stage' = [d \in Devices |-> "none"]
    /\ reply' = [d \in Devices |-> None]
    /\ known' = [d \in Devices |-> FALSE]
    /\ UNCHANGED <<row, sent, inbox>>

\* POST /commands.
QueueCommand(c) ==
    /\ Life!Queue(c)
    /\ UNCHANGED <<vars, handlerVars, inbox>>

\* DELETE /cpes/{id}: the cascade takes the rows of its queue.
DeleteQueue(d) ==
    /\ DeleteCpe(d)
    /\ Life!Drop({c \in Commands : OwnerOf[c] = d /\ row[c] # "absent"})
    /\ UNCHANGED <<handlerVars, inbox>>

\* The steps of CwmpSession that touch neither a request nor the queue.
Elsewhere(d) ==
    /\ \/ \E delivered \in BOOLEAN : Inform(d, delivered)
       \/ \E a \in Addresses : Move(d, a) \/ MqttReport(d, a)
    /\ UNCHANGED <<row, sent, handlerVars, inbox>>

Forget(a) ==
    /\ Expire(a)
    /\ UNCHANGED <<row, sent, handlerVars, inbox>>

ServerNext ==
    \/ \E d \in Devices :
          \/ \E b \in Bodies : Request(d, b)
          \/ \E answered \in BOOLEAN : Resolve(d, answered)
          \/ SettleRow(d)
          \/ \E acknowledged \in BOOLEAN : Dequeue(d, acknowledged)
          \/ Deliver(d)
          \/ \E restarts \in BOOLEAN : Disconnect(d, restarts)
          \/ DeleteQueue(d)
          \/ Elsewhere(d)
    \/ \E c \in Commands : QueueCommand(c)
    \/ \E a \in Addresses : Forget(a)
    \/ WorkerRestart

ServerSpec == ServerInit /\ [][ServerNext]_serverVars

-----------------------------------------------------------------------------
(* Properties *)

(***************************************************************************)
(* Type invariant of the handlers and of what the devices hold; a handler  *)
(* is at work exactly while its device has a request in service.           *)
(***************************************************************************)
ServerTypeOK ==
    /\ TypeOK
    /\ row \in [Commands -> {"absent", "deleted"} \cup Life!Stored]
    /\ sent \in [Commands -> Nat]
    /\ stage \in [Devices -> Stages]
    /\ reply \in [Devices -> Commands \cup {None}]
    /\ inbox \in [Devices -> Commands \cup {None}]
    /\ known \in [Devices -> BOOLEAN]
    /\ \A d \in Devices : session[d] \in {"query", "serving"} <=> stage[d] # "none"

(***************************************************************************)
(* A device that keeps cookies executes only commands of its own queue, and*)
(* so does one without cookies in every request it sends while its Inform  *)
(* is the last one from its address and young: no address that is shared,  *)
(* handed on or reported wrongly brings it another device's Reboot.        *)
(***************************************************************************)
KnownDeviceRunsOwn ==
    /\ \A d \in CookieKeepers : inbox[d] # None => OwnerOf[inbox[d]] = d
    /\ \A d \in Devices : known[d] /\ reply[d] # None => OwnerOf[reply[d]] = d

(***************************************************************************)
(* A response of such a device settles no row of another queue, although   *)
(* the server does not ask which command it answers, and whatever restarts,*)
(* deletions and other sessions come between the request and the UPDATE.   *)
(***************************************************************************)
KnownDeviceSettlesOwn ==
    [][\A d \in Devices, c \in Commands :
          stage[d] = "settle" /\ stage'[d] = "dequeue" /\ known[d] /\ row'[c] # row[c] =>
              OwnerOf[c] = d]_serverVars

=============================================================================
