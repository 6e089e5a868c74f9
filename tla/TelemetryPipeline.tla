-------------------------- MODULE TelemetryPipeline --------------------------
(***************************************************************************)
(* From a report of a device to its row in cpe_live_state:                 *)
(*                                                                         *)
(*   - run_mqtt_ingest polls the MQTT event loop and enqueues what decodes; *)
(*   - handle_cwmp_post enqueues the telemetry of an Inform;               *)
(*   - both wait at most 500 ms for room in the bounded MPSC channel and   *)
(*     drop the update when there is none;                                 *)
(*   - run_db_sink takes the updates one by one, auto-provisions the       *)
(*     inventory row and upserts the live row, at most three times;        *)
(*   - ctrl_c tells the two producers to stop; the sink stops when all     *)
(*     senders are dropped and the channel is empty.                       *)
(*                                                                         *)
(* The API registers and deletes CPEs beside it.  An update is one report: *)
(* an MQTT update is named by its place in publication order, the update   *)
(* of an Inform by its request.  What it says is left out; live[c] is the  *)
(* update merged last into the row of c.                                   *)
(***************************************************************************)
EXTENDS Integers, Sequences, FiniteSets

CONSTANTS
    MqttUpdates,  \* the messages published under usp/endpoint/, in order
    Informs,      \* the CWMP Inform requests
    Ignored,      \* those that are command echoes or do not decode
    Cpes,         \* the device ids; a serial number is one of them too
    CpeOf,        \* CpeOf[u]: the device that reports u
    Capacity,     \* MPSC_CAPACITY
    Registrars,   \* the POST /cpes requests that can be in flight at once
    Bodies,       \* what they ask for: <<cpe_id, serial_number>>
    None

Updates == MqttUpdates \cup Informs

ASSUME PipelineAssumption ==
    /\ MqttUpdates \subseteq Nat
    /\ MqttUpdates \cap Informs = {}
    /\ Ignored \subseteq Updates
    /\ CpeOf \in [Updates -> Cpes]
    /\ Capacity \in Nat \ {0}
    /\ Bodies \subseteq Cpes \X Cpes
    /\ None \notin Updates \cup Cpes

MaxAttempts == 3

VARIABLES
    shutdown,    \* the watch channel: ctrl_c has been received
    mqtt,        \* where run_mqtt_ingest stands
    subscribed,  \* the broker holds a subscription of the worker's session
    inflight,    \* messages the broker has on the way to the worker
    sending,     \* the MQTT update that waits for room in the channel
    server,      \* where run_cwmp_server stands
    conn,        \* conn[i]: where the connection that carries Inform i stands
    channel,     \* the MPSC channel
    sink,        \* where run_db_sink stands
    current,     \* the update the sink works on
    attempts,    \* its failed upserts
    inventory,   \* inventory[c]: serial_number of the row of c, None: no row
    live,        \* live[c]: the update merged last into the row, None: no row
    create,      \* create[r]: what a POST /cpes has read and is about to write
    fate,        \* history: what has become of an update
    unprovisioned \* history: the auto-provision of current failed, or was undone

mqttVars == <<mqtt, subscribed, inflight, sending>>
httpVars == <<server, conn>>
sinkVars == <<sink, current, attempts, unprovisioned>>
dbVars   == <<inventory, live>>
vars == <<shutdown, mqttVars, httpVars, channel, sinkVars, dbVars, create, fate>>

Idle == [stage |-> "idle", cpe |-> None, serial |-> None]
Create == [stage : {"insert", "update"}, cpe : Cpes, serial : Cpes]
Fate == {"unsent", "sent", "queued", "stored", "abandoned", "lost"}

-----------------------------------------------------------------------------
Init ==
    /\ shutdown = FALSE
    /\ mqtt = "poll"
    /\ subscribed = FALSE
    /\ inflight = <<>>
    /\ sending = None
    /\ server = "serving"
    /\ conn = [i \in Informs |-> "none"]
    /\ channel = <<>>
    /\ sink = "recv"
    /\ current = None
    /\ attempts = 0
    /\ inventory = [c \in Cpes |-> None]
    /\ live = [c \in Cpes |-> None]
    /\ create = [r \in Registrars |-> Idle]
    /\ fate = [u \in Updates |-> "unsent"]
    /\ unprovisioned = FALSE

\* us are lost on their way.
Lost(us) == [u \in Updates |-> IF u \in us THEN "lost" ELSE fate[u]]

\* The bounded send: it succeeds when there is room ...
Enqueue(u) ==
    /\ Len(channel) < Capacity
    /\ channel' = Append(channel, u)
    /\ fate' = [fate EXCEPT ![u] = "queued"]

\* Defect: the abandoned send is completed later all the same.
SaturatedButSent(u) ==
    /\ Len(channel) >= Capacity
    /\ channel' = Append(channel, u)
    /\ fate' = Lost({u})

\* ... and is given up after 500 ms without room.
Saturated(u) ==
    /\ Len(channel) >= Capacity
    /\ fate' = Lost({u})
    /\ UNCHANGED channel

-----------------------------------------------------------------------------
(* The broker and run_mqtt_ingest *)

\* A device publishes.  The session is clean: without a subscription the broker
\* keeps nothing.
Publish(u) ==
    /\ fate[u] = "unsent"
    /\ \A v \in MqttUpdates : v < u => fate[v] # "unsent"
    /\ IF subscribed
       THEN /\ inflight' = Append(inflight, u)
            /\ fate' = [fate EXCEPT ![u] = "sent"]
       ELSE /\ fate' = Lost({u})
            /\ UNCHANGED inflight
    /\ UNCHANGED <<shutdown, mqtt, subscribed, sending, httpVars, channel, sinkVars,
                   dbVars, create>>

\* ConnAck, then the subscription to usp/endpoint/#.
Connect ==
    /\ mqtt = "poll"
    /\ ~subscribed
    /\ subscribed' = TRUE
    /\ UNCHANGED <<shutdown, mqtt, inflight, sending, httpVars, channel, sinkVars,
                   dbVars, create, fate>>

\* poll() returns an error: the task sleeps, and does not see a shutdown while
\* it does.
PollFails ==
    /\ mqtt = "poll"
    /\ mqtt' = "backoff"
    /\ subscribed' = FALSE
    /\ inflight' = <<>>
    /\ fate' = Lost({inflight[k] : k \in DOMAIN inflight})
    /\ UNCHANGED <<shutdown, sending, httpVars, channel, sinkVars, dbVars, create>>

BackoffEnds ==
    /\ mqtt = "backoff"
    /\ mqtt' = "poll"
    /\ UNCHANGED <<shutdown, subscribed, inflight, sending, httpVars, channel, sinkVars,
                   dbVars, create, fate>>

\* poll() returns a Publish: a command echo or a payload that does not decode is
\* dropped, anything else goes to the channel.
PollPublish ==
    /\ mqtt = "poll"
    /\ inflight # <<>>
    /\ inflight' = Tail(inflight)
    /\ IF Head(inflight) \in Ignored
       THEN /\ fate' = Lost({Head(inflight)})
            /\ UNCHANGED <<mqtt, sending>>
       ELSE /\ mqtt' = "sending"
            /\ sending' = Head(inflight)
            /\ UNCHANGED fate
    /\ UNCHANGED <<shutdown, subscribed, httpVars, channel, sinkVars, dbVars, create>>

MqttSend ==
    /\ mqtt = "sending"
    /\ Enqueue(sending) \/ Saturated(sending)
    /\ mqtt' = "poll"
    /\ sending' = None
    /\ UNCHANGED <<shutdown, subscribed, inflight, httpVars, sinkVars, dbVars, create>>

\* Defect: the shutdown is looked at only while the broker is connected.
MqttShutdownConnected ==
    /\ mqtt = "poll"
    /\ shutdown
    /\ subscribed
    /\ mqtt' = "exited"
    /\ subscribed' = FALSE
    /\ inflight' = <<>>
    /\ fate' = Lost({inflight[k] : k \in DOMAIN inflight})
    /\ UNCHANGED <<shutdown, sending, httpVars, channel, sinkVars, dbVars, create>>

\* select! takes the shutdown branch: disconnect, return, drop the sender.
MqttShutdown ==
    /\ mqtt = "poll"
    /\ shutdown
    /\ mqtt' = "exited"
    /\ subscribed' = FALSE
    /\ inflight' = <<>>
    /\ fate' = Lost({inflight[k] : k \in DOMAIN inflight})
    /\ UNCHANGED <<shutdown, sending, httpVars, channel, sinkVars, dbVars, create>>

-----------------------------------------------------------------------------
(* The CWMP server *)

\* A client connects and starts to send its Inform.
Accept(i) ==
    /\ server = "serving"
    /\ conn[i] = "none"
    /\ conn' = [conn EXCEPT ![i] = "arriving"]
    /\ fate' = [fate EXCEPT ![i] = "sent"]
    /\ UNCHANGED <<shutdown, mqttVars, server, channel, sinkVars, dbVars, create>>

\* The body is complete, the handler runs; an Inform that does not parse is
\* answered with a fault.
BodyArrives(i) ==
    /\ conn[i] = "arriving"
    /\ IF i \in Ignored
       THEN /\ conn' = [conn EXCEPT ![i] = "closed"]
            /\ fate' = Lost({i})
       ELSE /\ conn' = [conn EXCEPT ![i] = "sending"]
            /\ UNCHANGED fate
    /\ UNCHANGED <<shutdown, mqttVars, server, channel, sinkVars, dbVars, create>>

\* The handler enqueues the update, or gives it up, and replies.
InformSend(i) ==
    /\ conn[i] = "sending"
    /\ Enqueue(i) \/ Saturated(i)
    /\ conn' = [conn EXCEPT ![i] = "closed"]
    /\ UNCHANGED <<shutdown, mqttVars, server, sinkVars, dbVars, create>>

\* The client goes away: the server drops the handler and the update in it.
ClientGone(i) ==
    /\ conn[i] \in {"arriving", "sending"}
    /\ conn' = [conn EXCEPT ![i] = "closed"]
    /\ fate' = Lost({i})
    /\ UNCHANGED <<shutdown, mqttVars, server, channel, sinkVars, dbVars, create>>

\* Graceful shutdown: no new connection; the server returns, and with it the
\* last sender of AppState is dropped, when the open ones are done.
ServerDrains ==
    /\ server = "serving"
    /\ shutdown
    /\ server' = "draining"
    /\ UNCHANGED <<shutdown, mqttVars, conn, channel, sinkVars, dbVars, create, fate>>

ServerExits ==
    /\ server = "draining"
    /\ \A i \in Informs : conn[i] \in {"none", "closed"}
    /\ server' = "exited"
    /\ UNCHANGED <<shutdown, mqttVars, conn, channel, sinkVars, dbVars, create, fate>>

-----------------------------------------------------------------------------
(* run_db_sink *)

\* Defect: the newest update is taken first.
ReceiveNewest ==
    /\ sink = "recv"
    /\ channel # <<>>
    /\ current' = channel[Len(channel)]
    /\ channel' = SubSeq(channel, 1, Len(channel) - 1)
    /\ sink' = "provision"
    /\ attempts' = 0
    /\ unprovisioned' = FALSE
    /\ UNCHANGED <<shutdown, mqttVars, httpVars, dbVars, create, fate>>

Receive ==
    /\ sink = "recv"
    /\ channel # <<>>
    /\ current' = Head(channel)
    /\ channel' = Tail(channel)
    /\ sink' = "provision"
    /\ attempts' = 0
    /\ unprovisioned' = FALSE
    /\ UNCHANGED <<shutdown, mqttVars, httpVars, dbVars, create, fate>>

\* Defect: ON CONFLICT DO NOTHING on any constraint, which hides a taken serial
\* number.
AutoProvisionQuietly ==
    LET c == CpeOf[current] IN
    /\ sink = "provision"
    /\ sink' = "upsert"
    /\ IF inventory[c] = None /\ \A d \in Cpes : inventory[d] # c
       THEN inventory' = [inventory EXCEPT ![c] = c]
       ELSE UNCHANGED inventory
    /\ UNCHANGED <<shutdown, mqttVars, httpVars, channel, current, attempts, unprovisioned,
                   live, create, fate>>

\* Defect: ON CONFLICT (cpe_id) DO UPDATE SET serial_number.
AutoProvisionOverwrites ==
    LET c == CpeOf[current] IN
    /\ sink = "provision"
    /\ sink' = "upsert"
    /\ IF \A d \in Cpes \ {c} : inventory[d] # c
       THEN inventory' = [inventory EXCEPT ![c] = c] /\ UNCHANGED unprovisioned
       ELSE unprovisioned' = TRUE /\ UNCHANGED inventory
    /\ UNCHANGED <<shutdown, mqttVars, httpVars, channel, current, attempts, live,
                   create, fate>>

\* INSERT ... ON CONFLICT (cpe_id) DO NOTHING with the cpe_id as serial number.
\* It fails when the database does, or when another CPE has that serial number.
\* Either way the error is only logged.
AutoProvision ==
    LET c == CpeOf[current] IN
    /\ sink = "provision"
    /\ sink' = "upsert"
    /\ \/ /\ inventory[c] # None
          /\ UNCHANGED <<inventory, unprovisioned>>
       \/ /\ inventory[c] = None
          /\ \A d \in Cpes : inventory[d] # c
          /\ inventory' = [inventory EXCEPT ![c] = c]
          /\ UNCHANGED unprovisioned
       \/ /\ unprovisioned' = TRUE
          /\ UNCHANGED inventory
    /\ UNCHANGED <<shutdown, mqttVars, httpVars, channel, current, attempts, live,
                   create, fate>>

\* The sink is done with current.
Done(outcome) ==
    /\ sink' = "recv"
    /\ current' = None
    /\ attempts' = 0
    /\ unprovisioned' = FALSE
    /\ fate' = [fate EXCEPT ![current] = outcome]

\* The upsert is committed and the sink knows.
Upsert ==
    LET c == CpeOf[current] IN
    /\ sink = "upsert"
    /\ inventory[c] # None
    /\ live' = [live EXCEPT ![c] = current]
    /\ Done("stored")
    /\ UNCHANGED <<shutdown, mqttVars, httpVars, channel, inventory, create>>

\* Defects: one attempt too many; an update that failed goes to the end of the
\* channel.
UpsertFailsOnceMore(written) ==
    /\ sink = "upsert"
    /\ written => inventory[CpeOf[current]] # None
    /\ live' = IF written THEN [live EXCEPT ![CpeOf[current]] = current] ELSE live
    /\ IF attempts >= MaxAttempts
       THEN Done("abandoned")
       ELSE /\ attempts' = attempts + 1
            /\ UNCHANGED <<sink, current, unprovisioned, fate>>
    /\ UNCHANGED <<shutdown, mqttVars, httpVars, channel, inventory, create>>

UpsertRequeues(written) ==
    /\ sink = "upsert"
    /\ ~written
    /\ Done("queued")
    /\ channel' = Append(channel, current)
    /\ UNCHANGED <<shutdown, mqttVars, httpVars, dbVars, create>>

\* The upsert returns an error: the foreign key is violated, the database is
\* away, or only the acknowledgement was lost (written).  After the third error
\* the update is abandoned.
UpsertFails(written) ==
    LET c == CpeOf[current] IN
    /\ sink = "upsert"
    /\ written => inventory[c] # None
    /\ live' = IF written THEN [live EXCEPT ![c] = current] ELSE live
    /\ IF attempts + 1 >= MaxAttempts
       THEN Done("abandoned")
       ELSE /\ attempts' = attempts + 1
            /\ UNCHANGED <<sink, current, unprovisioned, fate>>
    /\ UNCHANGED <<shutdown, mqttVars, httpVars, channel, inventory, create>>

\* Defect: the sink returns on the shutdown signal, once the channel is empty.
SinkExitsAtOnce ==
    /\ sink = "recv"
    /\ channel = <<>>
    /\ shutdown
    /\ sink' = "exited"
    /\ UNCHANGED <<shutdown, mqttVars, httpVars, channel, current, attempts,
                   unprovisioned, dbVars, create, fate>>

\* recv() returns None: the channel is empty and every sender is dropped.
SinkExits ==
    /\ sink = "recv"
    /\ channel = <<>>
    /\ mqtt = "exited"
    /\ server = "exited"
    /\ sink' = "exited"
    /\ UNCHANGED <<shutdown, mqttVars, httpVars, channel, current, attempts,
                   unprovisioned, dbVars, create, fate>>

-----------------------------------------------------------------------------
(* The process *)

CtrlC ==
    /\ ~shutdown
    /\ shutdown' = TRUE
    /\ UNCHANGED <<mqttVars, httpVars, channel, sinkVars, dbVars, create, fate>>

\* The process is killed (SIGTERM is not handled) and started again.
WorkerCrash ==
    /\ sink # "exited"
    /\ shutdown' = FALSE
    /\ mqtt' = "poll"
    /\ subscribed' = FALSE
    /\ inflight' = <<>>
    /\ sending' = None
    /\ server' = "serving"
    /\ conn' = [i \in Informs |-> IF conn[i] = "none" THEN "none" ELSE "closed"]
    /\ channel' = <<>>
    /\ sink' = "recv"
    /\ current' = None
    /\ attempts' = 0
    /\ unprovisioned' = FALSE
    /\ fate' = Lost({u \in Updates : fate[u] \in {"sent", "queued"}})
    /\ UNCHANGED <<dbVars, create>>

-----------------------------------------------------------------------------
(* The API and the database *)

\* POST /cpes reads the inventory and decides between INSERT and UPDATE ...
CreateRead(r, c, s) ==
    /\ create[r] = Idle
    /\ create' = [create EXCEPT ![r] =
                     [stage |-> IF inventory[c] = None THEN "insert" ELSE "update",
                      cpe |-> c, serial |-> s]]
    /\ UNCHANGED <<shutdown, mqttVars, httpVars, channel, sinkVars, dbVars, fate>>

\* ... and commits.  An IntegrityError is a 409; an UPDATE of a row that is gone
\* ends in an error.
CreateCommit(r) ==
    LET c == create[r].cpe
        s == create[r].serial
        serialTaken == \E d \in Cpes \ {c} : inventory[d] = s
        refused == serialTaken \/ (create[r].stage = "insert" /\ inventory[c] # None)
        gone == create[r].stage = "update" /\ inventory[c] = None
    IN
    /\ create[r] # Idle
    /\ create' = [create EXCEPT ![r] = Idle]
    /\ inventory' = IF gone \/ refused THEN inventory ELSE [inventory EXCEPT ![c] = s]
    /\ UNCHANGED <<shutdown, mqttVars, httpVars, channel, sinkVars, live, fate>>

\* DELETE /cpes/{id}: the row and, by cascade, the live row.
DeleteCpe(c) ==
    /\ inventory[c] # None
    /\ inventory' = [inventory EXCEPT ![c] = None]
    /\ live' = [live EXCEPT ![c] = None]
    /\ unprovisioned' = (unprovisioned \/ (sink = "upsert" /\ CpeOf[current] = c))
    /\ UNCHANGED <<shutdown, mqttVars, httpVars, channel, sink, current, attempts,
                   create, fate>>

\* The database recovers from a crash: the UNLOGGED live table is empty.
DatabaseRecovers ==
    /\ \E c \in Cpes : live[c] # None
    /\ live' = [c \in Cpes |-> None]
    /\ UNCHANGED <<shutdown, mqttVars, httpVars, channel, sinkVars, inventory, create, fate>>

-----------------------------------------------------------------------------
MqttStep ==
    \/ Connect
    \/ PollFails
    \/ BackoffEnds
    \/ PollPublish
    \/ MqttSend
    \/ MqttShutdown

HttpStep ==
    \/ \E i \in Informs : Accept(i) \/ BodyArrives(i) \/ InformSend(i) \/ ClientGone(i)
    \/ ServerDrains
    \/ ServerExits

SinkStep ==
    \/ Receive
    \/ AutoProvision
    \/ Upsert
    \/ \E written \in BOOLEAN : UpsertFails(written)
    \/ SinkExits

ApiStep ==
    \/ \E r \in Registrars :
          \/ \E b \in Bodies : CreateRead(r, b[1], b[2])
          \/ CreateCommit(r)
    \/ \E c \in Cpes : DeleteCpe(c)

Next ==
    \/ \E u \in MqttUpdates : Publish(u)
    \/ MqttStep
    \/ HttpStep
    \/ SinkStep
    \/ CtrlC
    \/ WorkerCrash
    \/ ApiStep
    \/ DatabaseRecovers

Spec == Init /\ [][Next]_vars

(***************************************************************************)
(* Fairness.  The runtime polls every ready task.  select! polls its       *)
(* branches in random order, so a poll that is always ready does not hide  *)
(* the shutdown for ever (strong fairness).  Nothing is assumed of the     *)
(* devices in ServerFairness; ClientFairness adds that a client finishes   *)
(* its request or closes the connection.                                   *)
(***************************************************************************)
ServerFairness ==
    /\ WF_vars(BackoffEnds)
    /\ WF_vars(MqttSend)
    /\ SF_vars(MqttShutdown)
    /\ \A i \in Informs : WF_vars(InformSend(i))
    /\ WF_vars(ServerDrains)
    /\ WF_vars(ServerExits)
    /\ WF_vars(SinkStep)

ClientFairness == \A i \in Informs : WF_vars(BodyArrives(i) \/ ClientGone(i))

ServerFairSpec == Spec /\ ServerFairness
FairSpec == ServerFairSpec /\ ClientFairness

-----------------------------------------------------------------------------
(* Properties *)

(***************************************************************************)
(* Type invariant of the tasks, the channel, the tables and the requests.  *)
(***************************************************************************)
TypeOK ==
    /\ shutdown \in BOOLEAN
    /\ mqtt \in {"poll", "sending", "backoff", "exited"}
    /\ subscribed \in BOOLEAN
    /\ inflight \in Seq(MqttUpdates)
    /\ sending \in MqttUpdates \cup {None}
    /\ server \in {"serving", "draining", "exited"}
    /\ conn \in [Informs -> {"none", "arriving", "sending", "closed"}]
    /\ channel \in Seq(Updates)
    /\ sink \in {"recv", "provision", "upsert", "exited"}
    /\ current \in Updates \cup {None}
    /\ attempts \in 0 .. MaxAttempts - 1
    /\ inventory \in [Cpes -> Cpes \cup {None}]
    /\ live \in [Cpes -> Updates \cup {None}]
    /\ create \in [Registrars -> Create \cup {Idle}]
    /\ fate \in [Updates -> Fate]
    /\ unprovisioned \in BOOLEAN

\* The updates between the broker and cpe_live_state, oldest first.
Single(u) == IF u = None THEN <<>> ELSE <<u>>
Accepted == Single(current) \o channel
Pending == Accepted \o Single(sending) \o inflight

(***************************************************************************)
(* Nothing accepted is forgotten or duplicated: an update is queued in     *)
(* history exactly if it is in the channel or in the hands of the sink,    *)
(* and there once, through time-outs, retries, shutdown and crashes.       *)
(***************************************************************************)
AcceptedIsAccountedFor ==
    /\ \A u \in Updates :
          fate[u] = "queued" <=> \E k \in DOMAIN Accepted : Accepted[k] = u
    /\ \A j, k \in DOMAIN Accepted : j # k => Accepted[j] # Accepted[k]

(***************************************************************************)
(* The channel, the retries of the sink and reconnects never reorder what  *)
(* one device publishes: an MQTT update is merged into the row of a CPE    *)
(* only as long as no later update of that CPE has been settled.           *)
(***************************************************************************)
LiveFollowsPublication ==
    [][\A c \in Cpes :
          live'[c] # live[c] /\ live'[c] \in MqttUpdates =>
              \A v \in MqttUpdates :
                  v > live'[c] /\ CpeOf[v] = c => fate[v] \notin {"stored", "abandoned"}]_vars

(***************************************************************************)
(* Graceful shutdown drains: when run_db_sink has returned, both producers *)
(* have, no update is left in the channel or on the way into it, and no    *)
(* later send can find the receiver gone.                                  *)
(***************************************************************************)
ShutdownDrains ==
    sink = "exited" =>
        /\ mqtt = "exited"
        /\ \A i \in Informs : conn[i] \in {"none", "closed"}
        /\ \A u \in Updates : fate[u] \notin {"sent", "queued"}
        /\ channel = <<>>

(***************************************************************************)
(* Registration data is authoritative: once a CPE is registered, only a    *)
(* POST /cpes for it that had read the row changes its serial number; an   *)
(* auto-provision that runs at the same time never does.                   *)
(***************************************************************************)
RegistrationIsAuthoritative ==
    [][\A c \in Cpes :
          inventory[c] # None /\ inventory'[c] \notin {inventory[c], None} =>
              \E r \in Registrars :
                  /\ create[r] = [stage |-> "update", cpe |-> c, serial |-> inventory'[c]]
                  /\ create'[r] = Idle]_vars

(***************************************************************************)
(* The foreign key of cpe_live_state fails an upsert only if the auto-     *)
(* provision of that very update failed, or the CPE was deleted after it:  *)
(* no other request to the API takes the row away in between.              *)
(***************************************************************************)
ForeignKeyHolds ==
    sink = "upsert" /\ ~unprovisioned => inventory[CpeOf[current]] # None

(***************************************************************************)
(* The pipeline implements the abstract delivery, with what the broker or  *)
(* a handler still holds counted as not accepted; every accepted update is *)
(* settled in the end.                                                     *)
(***************************************************************************)
Delivery == INSTANCE TelemetryDelivery WITH
    queue <- Accepted,
    outcome <- [u \in Updates |-> IF fate[u] \in {"unsent", "sent"} THEN "open" ELSE fate[u]]

DeliverySpec == Delivery!DSpec

(***************************************************************************)
(* A graceful shutdown ends, whatever the broker and the database do, if   *)
(* clients finish their requests or go away: the sink returns, unless the  *)
(* process is killed and started again first.                              *)
(***************************************************************************)
ShutdownEnds == shutdown ~> sink = "exited" \/ ~shutdown

=============================================================================
