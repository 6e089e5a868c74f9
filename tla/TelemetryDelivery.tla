-------------------------- MODULE TelemetryDelivery --------------------------
(***************************************************************************)
(* What the ingestion pipeline promises, without tasks, channel or retries.*)
(* A report is either lost on the way in, by a saturated channel, a broken *)
(* connection or a dead worker, or accepted; the accepted ones are settled *)
(* one at a time in the order of their acceptance, each merged into the    *)
(* live row of its device or given up.  The reports of one MQTT session    *)
(* are accepted in the order of their publication.                         *)
(***************************************************************************)
EXTENDS Integers, Sequences

CONSTANTS MqttUpdates, Informs, Cpes, CpeOf, None

VARIABLES
    queue,    \* the accepted reports that are not settled
    outcome,  \* outcome[u]: what has become of report u
    live      \* live[c]: the report merged last into the row of device c

dvars == <<queue, outcome, live>>

Reports == MqttUpdates \cup Informs

DInit ==
    /\ queue = <<>>
    /\ outcome = [u \in Reports |-> "open"]
    /\ live = [c \in Cpes |-> None]

Accept(u) ==
    /\ outcome[u] = "open"
    /\ u \in MqttUpdates =>
          \A v \in MqttUpdates : v > u => outcome[v] \in {"open", "lost"}
    /\ queue' = Append(queue, u)
    /\ outcome' = [outcome EXCEPT ![u] = "queued"]
    /\ UNCHANGED live

Lose ==
    /\ \E us \in SUBSET {u \in Reports : outcome[u] = "open"} :
          outcome' = [u \in Reports |-> IF u \in us THEN "lost" ELSE outcome[u]]
    /\ UNCHANGED <<queue, live>>

Merged == [live EXCEPT ![CpeOf[Head(queue)]] = Head(queue)]

\* The oldest accepted report is merged; whether it is settled is still open.
Merge ==
    /\ queue # <<>>
    /\ live' = Merged
    /\ UNCHANGED <<queue, outcome>>

\* It is settled: given up, or merged.
Settle ==
    /\ queue # <<>>
    /\ queue' = Tail(queue)
    /\ \/ /\ outcome' = [outcome EXCEPT ![Head(queue)] = "stored"]
          /\ live' = Merged
       \/ /\ outcome' = [outcome EXCEPT ![Head(queue)] = "abandoned"]
          /\ live' \in {live, Merged}

\* Rows are deleted with their device, or all with the unlogged table.
Forget ==
    /\ \E cs \in SUBSET Cpes : live' = [c \in Cpes |-> IF c \in cs THEN None ELSE live[c]]
    /\ UNCHANGED <<queue, outcome>>

Crash ==
    /\ queue' = <<>>
    /\ \E us \in SUBSET {u \in Reports : outcome[u] = "open"} :
          outcome' = [u \in Reports |->
                         IF u \in us \/ outcome[u] = "queued" THEN "lost" ELSE outcome[u]]
    /\ UNCHANGED live

DNext ==
    \/ \E u \in Reports : Accept(u)
    \/ Lose
    \/ Merge
    \/ Settle
    \/ Forget
    \/ Crash

\* An accepted report does not stay unsettled.
DSpec == DInit /\ [][DNext]_dvars /\ WF_dvars(Settle)

=============================================================================
