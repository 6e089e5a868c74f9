---------------------------- MODULE HealthMonitor ----------------------------
(***************************************************************************)
(* run_healthcheck_monitor keeps /tmp/healthy while PostgreSQL answers and *)
(* MQTT is live; Docker looks only at whether the file exists.  The MQTT   *)
(* task, the sink and the monitor share two flags; the file outlives the   *)
(* process and is removed only by the monitor, which main spawns after it  *)
(* has connected to the database.  An error of a removal is ignored.       *)
(***************************************************************************)
VARIABLES
    dbUp,       \* PostgreSQL answers
    brokerUp,   \* the broker answers
    proc,       \* the worker process
    mqtt_live,  \* the flags of HealthState
    db_live,
    upserted,   \* the sink has an acknowledged upsert and will set db_live
    monitor,    \* where run_healthcheck_monitor stands
    db_ok,      \* the result of the probe of this round
    file,       \* /tmp/healthy exists
    dbSeen,     \* history: PostgreSQL has answered since the round began
    mqttSeen    \* history: mqtt_live has been set at some time since it began

flags == <<mqtt_live, db_live, upserted>>
history == <<dbSeen, mqttSeen>>
vars == <<dbUp, brokerUp, proc, flags, monitor, db_ok, file, history>>

Init ==
    /\ dbUp \in BOOLEAN
    /\ brokerUp \in BOOLEAN
    /\ proc = "connecting"
    /\ mqtt_live = FALSE
    /\ db_live = FALSE
    /\ upserted = FALSE
    /\ monitor = "none"
    /\ db_ok = FALSE
    /\ file = FALSE
    /\ dbSeen = FALSE
    /\ mqttSeen = FALSE

-----------------------------------------------------------------------------
\* The database or the broker goes down or comes back.
Outage ==
    /\ \/ dbUp' = ~dbUp /\ UNCHANGED brokerUp
       \/ brokerUp' = ~brokerUp /\ UNCHANGED dbUp
    /\ dbSeen' = (dbSeen \/ dbUp')
    /\ UNCHANGED <<proc, flags, monitor, db_ok, file, mqttSeen>>

\* main connects, and spawns the tasks; the monitor tries to remove an old file.
Connected ==
    /\ proc = "connecting"
    /\ dbUp
    /\ proc' = "running"
    /\ monitor' = "idle"
    /\ file' \in {file, FALSE}
    /\ UNCHANGED <<dbUp, brokerUp, flags, db_ok, history>>

\* Fifteen attempts have failed: main returns an error.
ConnectGivesUp ==
    /\ proc = "connecting"
    /\ proc' = "down"
    /\ UNCHANGED <<dbUp, brokerUp, flags, monitor, db_ok, file, history>>

\* run_mqtt_ingest: a packet of the broker, or an error of poll().
MqttFlag(live) ==
    /\ proc = "running"
    /\ live => brokerUp
    /\ mqtt_live # live
    /\ mqtt_live' = live
    /\ mqttSeen' = (mqttSeen \/ live)
    /\ UNCHANGED <<dbUp, brokerUp, proc, db_live, upserted, monitor, db_ok, file,
                   dbSeen>>

\* run_db_sink: an upsert is acknowledged; then set_db_live(true).
SinkUpserts ==
    /\ proc = "running"
    /\ dbUp
    /\ ~upserted
    /\ upserted' = TRUE
    /\ UNCHANGED <<dbUp, brokerUp, proc, mqtt_live, db_live, monitor, db_ok, file,
                   history>>

SinkFlag ==
    /\ proc = "running"
    /\ upserted
    /\ upserted' = FALSE
    /\ db_live' = TRUE
    /\ UNCHANGED <<dbUp, brokerUp, proc, mqtt_live, monitor, db_ok, file, history>>

-----------------------------------------------------------------------------
\* The interval ticks: SELECT 1 is sent.
Tick ==
    /\ proc = "running"
    /\ monitor = "idle"
    /\ monitor' = "probing"
    /\ dbSeen' = dbUp
    /\ mqttSeen' = mqtt_live
    /\ UNCHANGED <<dbUp, brokerUp, proc, flags, db_ok, file>>

\* Its answer sets db_live.
Probed ==
    /\ proc = "running"
    /\ monitor = "probing"
    /\ monitor' = "decide"
    /\ db_ok' = dbUp
    /\ db_live' = dbUp
    /\ UNCHANGED <<dbUp, brokerUp, proc, mqtt_live, upserted, file, history>>

\* Defect: is_healthy() decides, whose db_live the sink sets too.
DecideByFlags ==
    /\ proc = "running"
    /\ monitor = "decide"
    /\ monitor' = IF db_live /\ mqtt_live THEN "write" ELSE "remove"
    /\ UNCHANGED <<dbUp, brokerUp, proc, flags, db_ok, file, history>>

\* The result of the probe and mqtt_live decide.
Decide ==
    /\ proc = "running"
    /\ monitor = "decide"
    /\ monitor' = IF db_ok /\ mqtt_live THEN "write" ELSE "remove"
    /\ UNCHANGED <<dbUp, brokerUp, proc, flags, db_ok, file, history>>

\* Defect: the file is removed only on the way out.
SettleWithoutRemoving ==
    /\ proc = "running"
    /\ monitor \in {"write", "remove"}
    /\ file' = (file \/ monitor = "write")
    /\ monitor' = "idle"
    /\ UNCHANGED <<dbUp, brokerUp, proc, flags, db_ok, history>>

\* The file is written or removed; either may fail.
Settle ==
    /\ proc = "running"
    /\ \/ monitor = "write" /\ file' \in {file, TRUE}
       \/ monitor = "remove" /\ file' \in {file, FALSE}
    /\ monitor' = "idle"
    /\ UNCHANGED <<dbUp, brokerUp, proc, flags, db_ok, history>>

\* Graceful shutdown: between two rounds, the monitor tries to remove the file.
Shutdown ==
    /\ proc = "running"
    /\ monitor = "idle"
    /\ file' \in {file, FALSE}
    /\ proc' = "down"
    /\ monitor' = "none"
    /\ UNCHANGED <<dbUp, brokerUp, flags, db_ok, history>>

\* The process is killed: the file stays.
Crash ==
    /\ proc # "down"
    /\ proc' = "down"
    /\ monitor' = "none"
    /\ UNCHANGED <<dbUp, brokerUp, flags, db_ok, file, history>>

\* The stopped container is started again.
Restart ==
    /\ proc = "down"
    /\ proc' = "connecting"
    /\ mqtt_live' = FALSE
    /\ db_live' = FALSE
    /\ upserted' = FALSE
    /\ UNCHANGED <<dbUp, brokerUp, monitor, db_ok, file, history>>

Next ==
    \/ Outage
    \/ Connected
    \/ ConnectGivesUp
    \/ \E live \in BOOLEAN : MqttFlag(live)
    \/ SinkUpserts
    \/ SinkFlag
    \/ Tick
    \/ Probed
    \/ Decide
    \/ Settle
    \/ Shutdown
    \/ Crash
    \/ Restart

Spec == Init /\ [][Next]_vars

(***************************************************************************)
(* Fairness: the monitor's interval ticks and its statements return; the   *)
(* MQTT task notices sooner or later that the broker is gone (keep-alive); *)
(* connecting ends.  A removal that is tried again in every round gets     *)
(* through (SF).  Nothing keeps the worker from crashing for ever.         *)
(***************************************************************************)
Fairness ==
    /\ WF_vars(Connected \/ ConnectGivesUp)
    /\ WF_vars(Tick)
    /\ WF_vars(Probed)
    /\ WF_vars(Decide)
    /\ WF_vars(Settle)
    /\ SF_vars(monitor = "remove" /\ Settle /\ ~file')
    /\ WF_vars(~brokerUp /\ MqttFlag(FALSE))

FairSpec == Spec /\ Fairness

-----------------------------------------------------------------------------
(* Properties *)

\* What docker-compose's healthcheck sees; it runs only beside the process.
ReportedHealthy == proc # "down" /\ file

(***************************************************************************)
(* The file is created only on evidence of the same round: PostgreSQL has  *)
(* answered and MQTT was live at some time since the interval ticked,      *)
(* whatever the sink does to the shared flags meanwhile.                   *)
(***************************************************************************)
WrittenOnEvidence ==
    [][~file /\ file' => dbSeen /\ mqttSeen]_vars

(***************************************************************************)
(* An outage that lasts, of the database or of the broker, is reported in  *)
(* the end and stays reported, through any number of crashes and restarts. *)
(* The one exception is a worker that is restarted for ever with the file  *)
(* of an earlier process that none of its successors has removed: no       *)
(* monitor runs while main connects, and the file vouches for nobody.      *)
(***************************************************************************)
OutageIsReported ==
    <>[]~dbUp \/ <>[]~brokerUp =>
        \/ <>[]~ReportedHealthy
        \/ []<>(proc = "connecting") /\ <>[]file

=============================================================================
