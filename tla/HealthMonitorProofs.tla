------------------------- MODULE HealthMonitorProofs -------------------------
(***************************************************************************)
(* Proofs about HealthMonitor.                                             *)
(***************************************************************************)
EXTENDS HealthMonitor, TLAPS

(***************************************************************************)
(* The inductive invariant follows the evidence through a round of the     *)
(* monitor: while the probe is out, an answer can only come from a         *)
(* PostgreSQL that has been seen; the decision is for writing only if both *)
(* have been seen.                                                         *)
(***************************************************************************)
Probing == monitor = "probing" => (dbUp => dbSeen) /\ (mqtt_live => mqttSeen)
Deciding == monitor = "decide" => (db_ok => dbSeen) /\ (mqtt_live => mqttSeen)
Writing == monitor = "write" => dbSeen /\ mqttSeen

EvidenceInv == Probing /\ Deciding /\ Writing

LEMMA EvidenceInit == Init => EvidenceInv
BY DEF Init, EvidenceInv, Probing, Deciding, Writing

LEMMA EvidenceNext == EvidenceInv /\ [Next]_vars => EvidenceInv'
<1>. SUFFICES ASSUME EvidenceInv, [Next]_vars PROVE EvidenceInv'
  OBVIOUS
<1>. USE DEF EvidenceInv, Probing, Deciding, Writing
<1>1. CASE Outage
  BY <1>1, Zenon DEF Outage, flags
<1>2. CASE Connected
  BY <1>2 DEF Connected
<1>3. CASE ConnectGivesUp
  BY <1>3, Zenon DEF ConnectGivesUp, flags, history
<1>4. CASE \E live \in BOOLEAN : MqttFlag(live)
  <2>. PICK live \in BOOLEAN : MqttFlag(live)
    BY <1>4
  <2>1. monitor' = monitor /\ dbUp' = dbUp /\ db_ok' = db_ok /\ dbSeen' = dbSeen
    BY DEF MqttFlag
  <2>2. (mqtt_live' => mqttSeen') /\ (mqttSeen => mqttSeen')
    BY Zenon DEF MqttFlag
  <2>. QED
    BY <2>1, <2>2, Zenon
<1>5. CASE SinkUpserts \/ SinkFlag
  <2>1. /\ monitor' = monitor /\ dbUp' = dbUp /\ mqtt_live' = mqtt_live
        /\ db_ok' = db_ok /\ dbSeen' = dbSeen /\ mqttSeen' = mqttSeen
    BY <1>5 DEF SinkUpserts, SinkFlag, history
  <2>. QED
    BY <2>1, Zenon
<1>6. CASE Tick
  BY <1>6 DEF Tick, flags
<1>7. CASE Probed
  BY <1>7 DEF Probed, history
<1>8. CASE Decide
  BY <1>8 DEF Decide, flags, history
<1>9. CASE Settle
  BY <1>9 DEF Settle
<1>10. CASE Shutdown \/ Crash
  BY <1>10 DEF Shutdown, Crash
<1>11. CASE Restart
  BY <1>11, Zenon DEF Restart, history
<1>12. CASE UNCHANGED vars
  BY <1>12, Zenon DEF vars, flags, history
<1>. QED
  BY <1>1, <1>2, <1>3, <1>4, <1>5, <1>6, <1>7, <1>8, <1>9, <1>10, <1>11, <1>12 DEF Next

\* Only the settling step creates the file, and only after a decision to write.
LEMMA FileNeedsEvidence ==
  ASSUME EvidenceInv, Next, ~file, file'
  PROVE  dbSeen /\ mqttSeen
<1>1. Settle
  BY DEF Next, Outage, Connected, ConnectGivesUp, MqttFlag, SinkUpserts, SinkFlag, Tick,
         Probed, Decide, Shutdown, Crash, Restart
<1>. QED
  BY <1>1 DEF Settle, EvidenceInv, Writing

\* The file that makes Docker call the worker healthy is created only if, since
\* the interval ticked, PostgreSQL has answered and MQTT was live.
THEOREM EvidenceIsNeeded == Spec => WrittenOnEvidence
<1>1. EvidenceInv /\ [Next]_vars => [~file /\ file' => dbSeen /\ mqttSeen]_vars
  BY FileNeedsEvidence
<1>. QED
  BY <1>1, EvidenceInit, EvidenceNext, PTL DEF Spec, WrittenOnEvidence

=============================================================================
