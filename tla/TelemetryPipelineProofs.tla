----------------------- MODULE TelemetryPipelineProofs -----------------------
(***************************************************************************)
(* Proofs about TelemetryPipeline, for every set of reports, devices and   *)
(* requests, every set of reports that do not decode, and every capacity   *)
(* of the channel.                                                         *)
(***************************************************************************)
EXTENDS TelemetryPipeline, SequenceTheorems, TLAPS

-----------------------------------------------------------------------------
(* The inductive invariant, in parts.  First the tasks: what the two of them
   that carry an update hold while they stand where. *)

Hands ==
    /\ current = None <=> sink \in {"recv", "exited"}
    /\ sending = None <=> mqtt # "sending"
    /\ ~subscribed => inflight = <<>>
    /\ mqtt \in {"backoff", "exited"} => ~subscribed

\* A task that has returned has left nothing behind it.
Returned ==
    /\ server = "exited" => \A i \in Informs : conn[i] \in {"none", "closed"}
    /\ sink = "exited" => mqtt = "exited" /\ server = "exited" /\ channel = <<>>

(* The ledger: an update is where its fate says, and in one place only. *)

QueuedOnce ==
    /\ \A u \in Updates :
          fate[u] = "queued" <=> u = current \/ \E k \in 1 .. Len(channel) : channel[k] = u
    /\ \A k \in 1 .. Len(channel) : channel[k] # current
    /\ \A j, k \in 1 .. Len(channel) : channel[j] = channel[k] => j = k

SentOnce ==
    \A u \in MqttUpdates :
        fate[u] = "sent" <=> u = sending \/ \E k \in 1 .. Len(inflight) : inflight[k] = u

RequestsAreOpen ==
    \A i \in Informs :
        /\ fate[i] = "sent" <=> conn[i] \in {"arriving", "sending"}
        /\ fate[i] = "unsent" <=> conn[i] = "none"

(* The order of publication: of what the broker and the task hold, of what the
   channel and the sink hold, and between the two and what is settled. *)

SentInOrder ==
    /\ \A j, k \in 1 .. Len(inflight) : j < k => inflight[j] < inflight[k]
    /\ sending # None => \A k \in 1 .. Len(inflight) : sending < inflight[k]

QueuedInOrder ==
    /\ \A j, k \in 1 .. Len(channel) :
          j < k /\ channel[j] \in MqttUpdates /\ channel[k] \in MqttUpdates =>
              channel[j] < channel[k]
    /\ current \in MqttUpdates =>
          \A k \in 1 .. Len(channel) : channel[k] \in MqttUpdates => current < channel[k]

SettledInOrder ==
    \A u, v \in MqttUpdates : u < v =>
        /\ fate[u] = "unsent" => fate[v] = "unsent"
        /\ fate[u] = "sent" => fate[v] \in {"unsent", "sent", "lost"}
        /\ fate[u] = "queued" => fate[v] \notin {"stored", "abandoned"}

Ledger ==
    /\ QueuedOnce
    /\ SentOnce
    /\ RequestsAreOpen
    /\ SentInOrder
    /\ QueuedInOrder
    /\ SettledInOrder

PipelineInv == TypeOK /\ Hands /\ Returned /\ Ledger /\ ForeignKeyHolds

-----------------------------------------------------------------------------
(* Types *)

LEMMA PipelineInit == Init => PipelineInv
<1>. SUFFICES ASSUME Init PROVE PipelineInv
  OBVIOUS
<1>1. /\ Len(<<>>) = 0 /\ <<>> \in Seq(MqttUpdates) /\ <<>> \in Seq(Updates)
      /\ None \notin Updates /\ MqttUpdates \subseteq Updates /\ Informs \subseteq Updates
  BY PipelineAssumption DEF Updates
<1>2. TypeOK
  <2>1. attempts \in 0 .. MaxAttempts - 1 /\ create \in [Registrars -> Create \cup {Idle}]
    BY DEF Init, MaxAttempts
  <2>. QED
    BY <1>1, <2>1 DEF Init, TypeOK, Fate
<1>3. Hands /\ Returned /\ ForeignKeyHolds
  BY DEF Init, Hands, Returned, ForeignKeyHolds
<1>4. Ledger
  BY <1>1 DEF Init, Ledger, QueuedOnce, SentOnce, RequestsAreOpen, SentInOrder,
                 QueuedInOrder, SettledInOrder
<1>. QED
  BY <1>2, <1>3, <1>4 DEF PipelineInv

\* The updates that are lost on their way keep their type.
LEMMA LostType ==
    ASSUME TypeOK, NEW us
    PROVE  /\ Lost(us) \in [Updates -> Fate]
           /\ \A u \in Updates : Lost(us)[u] = IF u \in us THEN "lost" ELSE fate[u]
BY DEF TypeOK, Lost, Fate

\* What one step of the MQTT task or of a handler puts into the channel.
LEMMA EnqueueType ==
    ASSUME TypeOK, NEW u \in Updates, Enqueue(u) \/ Saturated(u)
    PROVE  channel' \in Seq(Updates) /\ fate' \in [Updates -> Fate]
<1>1. CASE Enqueue(u)
  BY <1>1, AppendProperties DEF TypeOK, Enqueue, Fate
<1>2. CASE Saturated(u)
  BY <1>2, LostType DEF TypeOK, Saturated
<1>. QED
  BY <1>1, <1>2

LEMMA MqttTypes ==
    ASSUME TypeOK, Hands, MqttStep \/ \E u \in MqttUpdates : Publish(u)
    PROVE  TypeOK' /\ Hands'
<1>0. None \notin Updates /\ MqttUpdates \subseteq Updates /\ <<>> \in Seq(MqttUpdates)
  BY PipelineAssumption DEF Updates
<1>1. ASSUME NEW u \in MqttUpdates, Publish(u) PROVE TypeOK' /\ Hands'
  <2>1. inflight' \in Seq(MqttUpdates)
    <3>1. inflight \in Seq(MqttUpdates)
      BY DEF TypeOK
    <3>. QED
      BY <1>1, <3>1, AppendProperties DEF Publish
  <2>3. fate' \in [Updates -> Fate]
    <3>1. fate \in [Updates -> Fate] /\ "sent" \in Fate
      BY DEF TypeOK, Fate
    <3>. QED
      BY <1>1, <3>1, LostType DEF Publish
  <2>2. ~subscribed => inflight' = inflight
    BY <1>1 DEF Publish
  <2>. QED
    BY <1>1, <2>1, <2>2, <2>3
    DEF Publish, TypeOK, Hands, mqttVars, httpVars, sinkVars, dbVars
<1>2. CASE Connect \/ BackoffEnds
  BY <1>2 DEF Connect, BackoffEnds, TypeOK, Hands, httpVars, sinkVars, dbVars
<1>3. CASE PollFails \/ MqttShutdown
  <2>1. fate' \in [Updates -> Fate]
    <3>1. PICK us : fate' = Lost(us)
      BY <1>3 DEF PollFails, MqttShutdown
    <3>. QED
      BY <3>1, LostType
  <2>. QED
    BY <1>0, <1>3, <2>1 DEF PollFails, MqttShutdown, TypeOK, Hands, httpVars, sinkVars, dbVars
<1>4. CASE PollPublish
  <2>1. /\ inflight' \in Seq(MqttUpdates) /\ Head(inflight) \in MqttUpdates
        /\ fate' \in [Updates -> Fate] /\ subscribed' = subscribed /\ inflight # <<>>
    BY <1>4, LostType, HeadTailProperties DEF PollPublish, TypeOK
  <2>. QED
    BY <1>0, <1>4, <2>1 DEF PollPublish, TypeOK, Hands, httpVars, sinkVars, dbVars
<1>5. CASE MqttSend
  <2>1. sending \in Updates
    BY <1>0, <1>5 DEF MqttSend, TypeOK, Hands
  <2>2. channel' \in Seq(Updates) /\ fate' \in [Updates -> Fate]
    BY <1>5, <2>1, EnqueueType DEF MqttSend
  <2>. QED
    BY <1>5, <2>2 DEF MqttSend, TypeOK, Hands, httpVars, sinkVars, dbVars
<1>. QED
  BY <1>1, <1>2, <1>3, <1>4, <1>5 DEF MqttStep

LEMMA HttpTypes ==
    ASSUME TypeOK, Hands, HttpStep
    PROVE  TypeOK' /\ Hands'
<1>0. Informs \subseteq Updates
  BY DEF Updates
<1>1. ASSUME NEW i \in Informs, Accept(i) \/ BodyArrives(i) \/ ClientGone(i)
      PROVE  TypeOK' /\ Hands'
  <2>1. fate' \in [Updates -> Fate]
    BY <1>0, <1>1, LostType DEF Accept, BodyArrives, ClientGone, TypeOK, Fate
  <2>2. conn' \in [Informs -> {"none", "arriving", "sending", "closed"}]
    BY <1>1 DEF Accept, BodyArrives, ClientGone, TypeOK
  <2>. QED
    BY <1>1, <2>1, <2>2
    DEF Accept, BodyArrives, ClientGone, TypeOK, Hands, mqttVars, sinkVars, dbVars
<1>2. ASSUME NEW i \in Informs, InformSend(i) PROVE TypeOK' /\ Hands'
  <2>1. channel' \in Seq(Updates) /\ fate' \in [Updates -> Fate]
    BY <1>0, <1>2, EnqueueType DEF InformSend
  <2>. QED
    BY <1>2, <2>1 DEF InformSend, TypeOK, Hands, mqttVars, sinkVars, dbVars
<1>3. CASE ServerDrains \/ ServerExits
  BY <1>3 DEF ServerDrains, ServerExits, TypeOK, Hands, mqttVars, sinkVars, dbVars
<1>. QED
  BY <1>1, <1>2, <1>3 DEF HttpStep

LEMMA SinkTypes ==
    ASSUME TypeOK, Hands, SinkStep
    PROVE  TypeOK' /\ Hands'
<1>0. /\ None \notin Updates
      /\ \A u \in Updates : CpeOf[u] \in Cpes
  BY PipelineAssumption
<1>1. CASE Receive
  <2>1. channel \in Seq(Updates) /\ channel # <<>>
    BY <1>1 DEF Receive, TypeOK
  <2>2. Head(channel) \in Updates /\ Tail(channel) \in Seq(Updates)
    BY <2>1, HeadTailProperties
  <2>3. 0 \in 0 .. MaxAttempts - 1
    BY DEF MaxAttempts
  <2>. QED
    BY <1>0, <1>1, <2>2, <2>3 DEF Receive, TypeOK, Hands, mqttVars, httpVars, dbVars
<1>2. CASE AutoProvision
  <2>1. current \in Updates
    BY <1>2 DEF AutoProvision, TypeOK, Hands
  <2>2. inventory' \in [Cpes -> Cpes \cup {None}]
    BY <1>0, <1>2, <2>1 DEF AutoProvision, TypeOK
  <2>3. unprovisioned' \in BOOLEAN
    BY <1>2 DEF AutoProvision, TypeOK
  <2>. QED
    BY <1>0, <1>2, <2>1, <2>2, <2>3 DEF AutoProvision, TypeOK, Hands, mqttVars, httpVars
<1>3. ASSUME Upsert \/ \E written \in BOOLEAN : UpsertFails(written)
      PROVE  TypeOK' /\ Hands'
  <2>1. current \in Updates
    BY <1>3 DEF Upsert, UpsertFails, TypeOK, Hands
  <2>2. live' = live \/ live' = [live EXCEPT ![CpeOf[current]] = current]
    BY <1>3 DEF Upsert, UpsertFails
  <2>3. live' \in [Cpes -> Updates \cup {None}]
    BY <2>1, <2>2 DEF TypeOK
  <2>4. \/ Done("stored")
        \/ Done("abandoned")
        \/ attempts' = attempts + 1 /\ attempts + 1 < MaxAttempts
              /\ UNCHANGED <<sink, current, unprovisioned, fate>>
    BY <1>3 DEF Upsert, UpsertFails, TypeOK, MaxAttempts
  <2>5. fate' \in [Updates -> Fate]
    BY <2>4 DEF Done, TypeOK, Fate
  <2>6. /\ attempts' \in 0 .. MaxAttempts - 1
        /\ sink' \in {"recv", "provision", "upsert", "exited"}
        /\ current' \in Updates \cup {None}
        /\ unprovisioned' \in BOOLEAN
        /\ current' = None <=> sink' \in {"recv", "exited"}
    <3>0. 0 \in 0 .. MaxAttempts - 1
      BY DEF MaxAttempts
    <3>1. CASE Done("stored") \/ Done("abandoned")
      BY <3>0, <3>1, Zenon DEF Done
    <3>2. CASE /\ attempts' = attempts + 1 /\ attempts + 1 < MaxAttempts
               /\ UNCHANGED <<sink, current, unprovisioned, fate>>
      BY <3>2 DEF TypeOK, Hands, MaxAttempts
    <3>. QED
      BY <2>4, <3>1, <3>2
  <2>7. UNCHANGED <<shutdown, mqttVars, httpVars, channel, inventory, create>>
    BY <1>3 DEF Upsert, UpsertFails
  <2>. QED
    BY <2>3, <2>5, <2>6, <2>7 DEF TypeOK, Hands, mqttVars, httpVars
<1>4. CASE SinkExits
  BY <1>4 DEF SinkExits, TypeOK, Hands, mqttVars, httpVars, dbVars
<1>. QED
  BY <1>1, <1>2, <1>3, <1>4 DEF SinkStep

LEMMA ApiTypes ==
    ASSUME TypeOK, Hands, ApiStep \/ DatabaseRecovers
    PROVE  TypeOK' /\ Hands'
<1>1. ASSUME NEW r \in Registrars, NEW b \in Bodies, CreateRead(r, b[1], b[2])
      PROVE  TypeOK' /\ Hands'
  <2>1. b[1] \in Cpes /\ b[2] \in Cpes
    BY PipelineAssumption
  <2>2. create' \in [Registrars -> Create \cup {Idle}]
    BY <1>1, <2>1 DEF CreateRead, TypeOK, Create
  <2>. QED
    BY <1>1, <2>2 DEF CreateRead, TypeOK, Hands, mqttVars, httpVars, sinkVars, dbVars
<1>2. ASSUME NEW r \in Registrars, CreateCommit(r) PROVE TypeOK' /\ Hands'
  <2>1. create[r] \in Create /\ create[r].serial \in Cpes
    BY <1>2 DEF CreateCommit, TypeOK, Create
  <2>2. inventory' = inventory \/ inventory' = [inventory EXCEPT ![create[r].cpe] = create[r].serial]
    BY <1>2 DEF CreateCommit
  <2>3. inventory' \in [Cpes -> Cpes \cup {None}]
    BY <2>1, <2>2 DEF TypeOK
  <2>4. create' \in [Registrars -> Create \cup {Idle}]
    BY <1>2 DEF CreateCommit, TypeOK
  <2>. QED
    BY <1>2, <2>3, <2>4 DEF CreateCommit, TypeOK, Hands, mqttVars, httpVars, sinkVars
<1>3. ASSUME NEW c \in Cpes, DeleteCpe(c) PROVE TypeOK' /\ Hands'
  <2>1. unprovisioned' \in BOOLEAN
    BY <1>3 DEF DeleteCpe, TypeOK
  <2>. QED
    BY <1>3, <2>1 DEF DeleteCpe, TypeOK, Hands, mqttVars, httpVars
<1>4. CASE DatabaseRecovers
  BY <1>4 DEF DatabaseRecovers, TypeOK, Hands, mqttVars, httpVars, sinkVars
<1>. QED
  BY <1>1, <1>2, <1>3, <1>4 DEF ApiStep

LEMMA ProcessTypes ==
    ASSUME TypeOK, Hands, CtrlC \/ WorkerCrash
    PROVE  TypeOK' /\ Hands'
<1>1. CASE CtrlC
  BY <1>1 DEF CtrlC, TypeOK, Hands, mqttVars, httpVars, sinkVars, dbVars
<1>2. CASE WorkerCrash
  <2>1. fate' \in [Updates -> Fate]
    BY <1>2, LostType DEF WorkerCrash
  <2>2. conn' \in [Informs -> {"none", "arriving", "sending", "closed"}]
    BY <1>2 DEF WorkerCrash
  <2>3. 0 \in 0 .. MaxAttempts - 1 /\ <<>> \in Seq(Updates) /\ <<>> \in Seq(MqttUpdates)
    BY DEF MaxAttempts
  <2>. QED
    BY <1>2, <2>1, <2>2, <2>3 DEF WorkerCrash, TypeOK, Hands, dbVars
<1>. QED
  BY <1>1, <1>2

LEMMA StepTypes ==
    ASSUME TypeOK, Hands, [Next]_vars
    PROVE  TypeOK' /\ Hands'
<1>1. CASE UNCHANGED vars
  BY <1>1 DEF vars, TypeOK, Hands, mqttVars, httpVars, sinkVars, dbVars
<1>. QED
  BY <1>1, MqttTypes, HttpTypes, SinkTypes, ApiTypes, ProcessTypes DEF Next

-----------------------------------------------------------------------------
(* Tasks that have returned *)

LEMMA ReturnedStep ==
    ASSUME TypeOK, Hands, Returned, [Next]_vars
    PROVE  Returned'
<1>1. ASSUME NEW u \in MqttUpdates, Publish(u) PROVE Returned'
  BY <1>1 DEF Publish, Returned, mqttVars, httpVars, sinkVars
<1>2. CASE MqttStep
  BY <1>2 DEF MqttStep, Connect, PollFails, BackoffEnds, PollPublish, MqttSend, MqttShutdown,
              Returned, httpVars, sinkVars
<1>3. ASSUME NEW i \in Informs, Accept(i) \/ BodyArrives(i) \/ InformSend(i) \/ ClientGone(i)
      PROVE  Returned'
  <2>1. /\ conn[i] \in {"arriving", "sending"} \/ server = "serving"
        /\ \A j \in Informs \ {i} : conn'[j] = conn[j]
        /\ server' = server /\ mqtt' = mqtt /\ sink' = sink
    BY <1>3 DEF Accept, BodyArrives, InformSend, ClientGone, TypeOK, mqttVars, sinkVars
  <2>2. server # "exited"
    BY <2>1 DEF Returned
  <2>. QED
    BY <2>1, <2>2 DEF Returned
<1>4. CASE ServerDrains \/ ServerExits
  BY <1>4 DEF ServerDrains, ServerExits, Returned, mqttVars, sinkVars
<1>5. CASE SinkStep
  BY <1>5 DEF SinkStep, Receive, AutoProvision, Upsert, UpsertFails, Done, SinkExits, Returned,
              mqttVars, httpVars
<1>6. CASE CtrlC
  BY <1>6 DEF CtrlC, Returned, mqttVars, httpVars, sinkVars
<1>7. CASE WorkerCrash
  BY <1>7 DEF WorkerCrash, Returned
<1>8. CASE ApiStep \/ DatabaseRecovers
  BY <1>8 DEF ApiStep, CreateRead, CreateCommit, DeleteCpe, DatabaseRecovers, Returned,
              mqttVars, httpVars, sinkVars
<1>9. CASE UNCHANGED vars
  BY <1>9 DEF vars, Returned, mqttVars, httpVars, sinkVars
<1>. QED
  BY <1>1, <1>2, <1>3, <1>4, <1>5, <1>6, <1>7, <1>8, <1>9 DEF Next, HttpStep

-----------------------------------------------------------------------------
(* The foreign key *)

LEMMA ForeignKeyStep ==
    ASSUME TypeOK, Hands, ForeignKeyHolds, [Next]_vars
    PROVE  ForeignKeyHolds'
<1>0. None \notin Updates \cup Cpes /\ \A u \in Updates : CpeOf[u] \in Cpes
  BY PipelineAssumption
<1>1. ASSUME NEW u \in MqttUpdates, Publish(u) PROVE ForeignKeyHolds'
  BY <1>1 DEF Publish, ForeignKeyHolds, sinkVars, dbVars
<1>2. CASE MqttStep \/ HttpStep
  BY <1>2 DEF MqttStep, Connect, PollFails, BackoffEnds, PollPublish, MqttSend, MqttShutdown,
              HttpStep, Accept, BodyArrives, InformSend, ClientGone, ServerDrains, ServerExits,
              ForeignKeyHolds, sinkVars, dbVars
<1>3. CASE Receive \/ SinkExits \/ WorkerCrash
  BY <1>3 DEF Receive, SinkExits, WorkerCrash, ForeignKeyHolds
<1>4. CASE AutoProvision
  <2>1. current \in Updates
    BY <1>4 DEF AutoProvision, TypeOK, Hands
  <2>. QED
    BY <1>0, <1>4, <2>1 DEF AutoProvision, TypeOK, ForeignKeyHolds
<1>5. CASE Upsert \/ \E written \in BOOLEAN : UpsertFails(written)
  BY <1>5 DEF Upsert, UpsertFails, Done, ForeignKeyHolds
<1>6. ASSUME NEW r \in Registrars, NEW c \in Cpes, NEW s \in Cpes, CreateRead(r, c, s)
      PROVE  ForeignKeyHolds'
  BY <1>6 DEF CreateRead, ForeignKeyHolds, sinkVars, dbVars
<1>7. ASSUME NEW r \in Registrars, CreateCommit(r) PROVE ForeignKeyHolds'
  <2>1. create[r].cpe \in Cpes /\ create[r].serial \in Cpes
    BY <1>7 DEF CreateCommit, TypeOK, Create
  <2>2. inventory' = inventory \/ inventory' = [inventory EXCEPT ![create[r].cpe] = create[r].serial]
    BY <1>7 DEF CreateCommit
  <2>3. \A c \in Cpes : inventory[c] # None => inventory'[c] # None
    BY <1>0, <2>1, <2>2 DEF TypeOK
  <2>4. UNCHANGED sinkVars /\ (sink = "upsert" => CpeOf[current] \in Cpes)
    BY <1>0, <1>7 DEF CreateCommit, TypeOK, Hands
  <2>. QED
    BY <2>3, <2>4 DEF ForeignKeyHolds, sinkVars
<1>8. ASSUME NEW c \in Cpes, DeleteCpe(c) PROVE ForeignKeyHolds'
  <2>1. \A d \in Cpes \ {c} : inventory'[d] = inventory[d]
    BY <1>8 DEF DeleteCpe, TypeOK
  <2>2. sink = "upsert" => CpeOf[current] \in Cpes
    BY <1>0 DEF TypeOK, Hands
  <2>. QED
    BY <1>8, <2>1, <2>2 DEF DeleteCpe, ForeignKeyHolds
<1>9. CASE DatabaseRecovers \/ CtrlC \/ UNCHANGED vars
  BY <1>9 DEF DatabaseRecovers, CtrlC, vars, ForeignKeyHolds, sinkVars, dbVars
<1>10. ASSUME NEW r \in Registrars, NEW b \in Bodies, CreateRead(r, b[1], b[2])
       PROVE  ForeignKeyHolds'
  BY <1>6, <1>10, PipelineAssumption
<1>. QED
  BY <1>1, <1>2, <1>3, <1>4, <1>5, <1>7, <1>8, <1>9, <1>10 DEF Next, SinkStep, ApiStep

-----------------------------------------------------------------------------
(* The ledger *)

ledgerVars == <<inflight, sending, conn, channel, current, fate>>

\* What a proof about the ledger needs of the types.
LEMMA LedgerTypes ==
    ASSUME TypeOK
    PROVE  /\ MqttUpdates \subseteq Int
           /\ Updates = MqttUpdates \cup Informs
           /\ MqttUpdates \cap Informs = {}
           /\ None \notin Updates
           /\ Len(inflight) \in Nat
           /\ \A k \in 1 .. Len(inflight) : inflight[k] \in MqttUpdates
           /\ Len(channel) \in Nat
           /\ \A k \in 1 .. Len(channel) : channel[k] \in Updates
BY PipelineAssumption, LenProperties, ElementOfSeq DEF TypeOK, Updates

LEMMA QuietLedger ==
    ASSUME Ledger, UNCHANGED ledgerVars
    PROVE  Ledger'
BY DEF Ledger, QueuedOnce, SentOnce, RequestsAreOpen, SentInOrder, QueuedInOrder,
       SettledInOrder, ledgerVars

\* Updates that the broker, the task or a handler held are lost.
LEMMA LoseLedger ==
    ASSUME TypeOK, Ledger, NEW us \in SUBSET Updates,
           \A u \in us : fate[u] \in {"unsent", "sent"},
           fate' = Lost(us),
           UNCHANGED <<channel, current>>,
           SentOnce', RequestsAreOpen', SentInOrder',
           \A u \in us \cap MqttUpdates, v \in MqttUpdates : v < u => fate[v] # "unsent"
    PROVE  Ledger'
<1>1. \A u \in Updates : fate'[u] = IF u \in us THEN "lost" ELSE fate[u]
  BY LostType
<1>2. QueuedOnce'
  BY <1>1 DEF Ledger, QueuedOnce
<1>3. QueuedInOrder'
  BY DEF Ledger, QueuedInOrder
<1>4. SettledInOrder'
  <2>. SUFFICES ASSUME NEW u \in MqttUpdates, NEW v \in MqttUpdates, u < v
                PROVE  /\ fate'[u] = "unsent" => fate'[v] = "unsent"
                       /\ fate'[u] = "sent" => fate'[v] \in {"unsent", "sent", "lost"}
                       /\ fate'[u] = "queued" => fate'[v] \notin {"stored", "abandoned"}
    BY DEF SettledInOrder
  <2>1. u \in Updates /\ v \in Updates
    BY DEF Updates
  <2>2. /\ fate[u] = "unsent" => fate[v] = "unsent"
        /\ fate[u] = "sent" => fate[v] \in {"unsent", "sent", "lost"}
        /\ fate[u] = "queued" => fate[v] \notin {"stored", "abandoned"}
    BY DEF Ledger, SettledInOrder
  <2>. QED
    BY <1>1, <2>1, <2>2
<1>. QED
  BY <1>2, <1>3, <1>4 DEF Ledger

LEMMA PublishLedger ==
    ASSUME TypeOK, Hands, Ledger, NEW u \in MqttUpdates, Publish(u)
    PROVE  Ledger'
<1>0. u \in Updates /\ UNCHANGED <<sending, conn, channel, current>>
  BY DEF Publish, Updates, httpVars, sinkVars
<1>1. /\ fate[u] = "unsent"
      /\ \A v \in MqttUpdates : v < u => fate[v] # "unsent"
  BY DEF Publish
<1>2. CASE ~subscribed
  <2>1. inflight' = inflight /\ fate' = Lost({u})
    BY <1>2 DEF Publish
  <2>2. \A v \in Updates : fate'[v] = IF v = u THEN "lost" ELSE fate[v]
    BY <2>1, LostType
  <2>3. SentOnce'
    <3>1. \A v \in MqttUpdates : fate'[v] = "sent" <=> fate[v] = "sent"
      BY <1>0, <1>1, <2>2, LedgerTypes
    <3>. QED
      BY <1>0, <2>1, <3>1 DEF Ledger, SentOnce
  <2>5. RequestsAreOpen'
    BY <1>0, <2>2, LedgerTypes DEF Ledger, RequestsAreOpen
  <2>4. SentInOrder'
    BY <1>0, <2>1 DEF Ledger, SentInOrder
  <2>. QED
    BY <1>0, <1>1, <2>1, <2>3, <2>4, <2>5, LoseLedger
<1>3. CASE subscribed
  <2>1. /\ Len(inflight') = Len(inflight) + 1
        /\ \A k \in 1 .. Len(inflight) : inflight'[k] = inflight[k]
        /\ inflight'[Len(inflight) + 1] = u
    BY <1>3, AppendProperties DEF Publish, TypeOK
  <2>2. \A v \in Updates : fate'[v] = IF v = u THEN "sent" ELSE fate[v]
    BY <1>3 DEF Publish, TypeOK
  <2>3. QueuedOnce' /\ QueuedInOrder'
    BY <1>0, <1>1, <2>2 DEF Ledger, QueuedOnce, QueuedInOrder
  <2>4. SentOnce'
    BY <1>0, <1>1, <2>1, <2>2, LedgerTypes DEF Ledger, SentOnce
  <2>9. RequestsAreOpen'
    BY <1>0, <2>2, LedgerTypes DEF Ledger, RequestsAreOpen
  <2>5. \A k \in 1 .. Len(inflight) : inflight[k] < u
    BY <1>1, LedgerTypes DEF Ledger, SentOnce, SettledInOrder
  <2>6. sending # None => sending < u
    BY <1>1, LedgerTypes DEF Ledger, SentOnce, SettledInOrder, TypeOK
  <2>7. SentInOrder'
    BY <1>0, <2>1, <2>5, <2>6, LedgerTypes, SMTT(30) DEF Ledger, SentInOrder
  <2>8. SettledInOrder'
    <3>. SUFFICES ASSUME NEW v \in MqttUpdates, NEW w \in MqttUpdates, v < w
                  PROVE  /\ fate'[v] = "unsent" => fate'[w] = "unsent"
                         /\ fate'[v] = "sent" => fate'[w] \in {"unsent", "sent", "lost"}
                         /\ fate'[v] = "queued" => fate'[w] \notin {"stored", "abandoned"}
      BY DEF SettledInOrder
    <3>1. /\ fate[v] = "unsent" => fate[w] = "unsent"
          /\ fate[v] = "sent" => fate[w] \in {"unsent", "sent", "lost"}
          /\ fate[v] = "queued" => fate[w] \notin {"stored", "abandoned"}
      BY DEF Ledger, SettledInOrder
    <3>. QED
      BY <1>1, <2>2, <3>1 DEF Updates
  <2>. QED
    BY <2>3, <2>4, <2>7, <2>8, <2>9 DEF Ledger
<1>. QED
  BY <1>2, <1>3 DEF TypeOK

\* The broker session ends, and what it held is lost.
LEMMA DisconnectLedger ==
    ASSUME TypeOK, Hands, Ledger, PollFails \/ MqttShutdown
    PROVE  Ledger'
<1> DEFINE us == {inflight[k] : k \in DOMAIN inflight}
<1>1. /\ fate' = Lost(us)
      /\ inflight' = <<>>
      /\ sending = None
      /\ UNCHANGED <<sending, conn, channel, current>>
  BY DEF PollFails, MqttShutdown, Hands, httpVars, sinkVars
<1>2. /\ us \subseteq MqttUpdates
      /\ \A u \in MqttUpdates : u \in us <=> \E k \in 1 .. Len(inflight) : inflight[k] = u
  BY LedgerTypes, LenProperties DEF TypeOK
<1>3. \A u \in MqttUpdates : u \in us <=> fate[u] = "sent"
  BY <1>1, <1>2, LedgerTypes DEF Ledger, SentOnce
<1> HIDE DEF us
<1>4. \A u \in Updates : fate'[u] = IF u \in us THEN "lost" ELSE fate[u]
  BY <1>1, LostType
<1>5. SentOnce'
  <2>1. \A u \in MqttUpdates : fate'[u] # "sent"
    BY <1>3, <1>4, LedgerTypes
  <2>2. \A u \in MqttUpdates : u # sending'
    BY <1>1, LedgerTypes
  <2>. QED
    BY <1>1, <2>1, <2>2 DEF SentOnce
<1>10. RequestsAreOpen'
  <2>1. \A i \in Informs : fate'[i] = fate[i]
    BY <1>2, <1>4, LedgerTypes
  <2>. QED
    BY <1>1, <2>1 DEF Ledger, RequestsAreOpen
<1>6. SentInOrder'
  BY <1>1 DEF SentInOrder
<1>7. \A u \in us : fate[u] \in {"unsent", "sent"}
  BY <1>2, <1>3
<1>8. us \in SUBSET Updates
  BY <1>2, LedgerTypes
<1>9. \A u \in us \cap MqttUpdates, v \in MqttUpdates : v < u => fate[v] # "unsent"
  BY <1>3, LedgerTypes DEF Ledger, SettledInOrder
<1>. QED
  BY <1>1, <1>5, <1>6, <1>7, <1>8, <1>9, <1>10, LoseLedger

LEMMA PollLedger ==
    ASSUME TypeOK, Hands, Ledger, PollPublish
    PROVE  Ledger'
<1> DEFINE u == Head(inflight)
<1>1. /\ inflight # <<>>
      /\ inflight' = Tail(inflight)
      /\ sending = None
      /\ UNCHANGED <<conn, channel, current>>
  BY DEF PollPublish, Hands, httpVars, sinkVars
<1>2. /\ u \in MqttUpdates
      /\ Len(inflight) \in Nat \ {0}
      /\ u = inflight[1]
      /\ Len(inflight') = Len(inflight) - 1
      /\ \A k \in 1 .. Len(inflight') : inflight'[k] = inflight[k + 1]
  BY <1>1, HeadTailProperties, EmptySeq DEF TypeOK
<1>3. fate[u] = "sent" /\ \A v \in MqttUpdates : v < u => fate[v] # "unsent"
  BY <1>2, LedgerTypes DEF Ledger, SentOnce, SettledInOrder
<1>4. \A v \in MqttUpdates :
         (\E k \in 1 .. Len(inflight') : inflight'[k] = v) <=>
             v # u /\ \E k \in 1 .. Len(inflight) : inflight[k] = v
  <2>. TAKE v \in MqttUpdates
  <2>1. ASSUME NEW k \in 1 .. Len(inflight'), inflight'[k] = v
        PROVE  v # u /\ \E j \in 1 .. Len(inflight) : inflight[j] = v
    <3>1. k + 1 \in 1 .. Len(inflight) /\ 1 \in 1 .. Len(inflight) /\ 1 < k + 1
      BY <1>2
    <3>. QED
      BY <1>2, <2>1, <3>1, LedgerTypes DEF Ledger, SentInOrder
  <2>2. ASSUME v # u, NEW k \in 1 .. Len(inflight), inflight[k] = v
        PROVE  \E j \in 1 .. Len(inflight') : inflight'[j] = v
    <3>1. k - 1 \in 1 .. Len(inflight') /\ inflight'[k - 1] = v
      BY <1>2, <2>2
    <3>. QED
      BY <3>1
  <2>. QED
    BY <2>1, <2>2
<1>5. \A j, k \in 1 .. Len(inflight') : j < k => inflight'[j] < inflight'[k]
  BY <1>2 DEF Ledger, SentInOrder
<1>6. \A k \in 1 .. Len(inflight') : u < inflight'[k]
  BY <1>2 DEF Ledger, SentInOrder
<1> HIDE DEF u
<1>7. CASE u \in Ignored
  <2>1. fate' = Lost({u}) /\ sending' = sending
    BY <1>7 DEF PollPublish, u
  <2>2. \A v \in Updates : fate'[v] = IF v = u THEN "lost" ELSE fate[v]
    BY <2>1, LostType
  <2>3. SentOnce'
    <3>1. \A v \in MqttUpdates : fate'[v] = "sent" <=> fate[v] = "sent" /\ v # u
      BY <2>2, LedgerTypes
    <3>2. \A v \in MqttUpdates : v # sending
      BY <1>1, LedgerTypes
    <3>. QED
      BY <1>4, <2>1, <3>1, <3>2 DEF Ledger, SentOnce
  <2>4. SentInOrder'
    BY <1>1, <1>5, <2>1 DEF SentInOrder
  <2>6. RequestsAreOpen'
    <3>1. \A i \in Informs : fate'[i] = fate[i]
      BY <1>2, <2>2, LedgerTypes
    <3>. QED
      BY <1>1, <3>1 DEF Ledger, RequestsAreOpen
  <2>5. {u} \in SUBSET Updates
    BY <1>2, LedgerTypes
  <2>. QED
    BY <1>1, <1>3, <2>1, <2>3, <2>4, <2>5, <2>6, LoseLedger
<1>8. CASE u \notin Ignored
  <2>1. sending' = u /\ fate' = fate
    BY <1>8 DEF PollPublish, u
  <2>2. SentOnce'
    <3>1. \A v \in MqttUpdates : v # sending
      BY <1>1, LedgerTypes
    <3>. QED
      BY <1>1, <1>2, <1>3, <1>4, <2>1, <3>1 DEF Ledger, SentOnce
  <2>3. SentInOrder'
    BY <1>5, <1>6, <2>1 DEF SentInOrder
  <2>4. QueuedOnce' /\ RequestsAreOpen' /\ QueuedInOrder' /\ SettledInOrder'
    BY <1>1, <2>1 DEF Ledger, QueuedOnce, RequestsAreOpen, QueuedInOrder, SettledInOrder
  <2>. QED
    BY <2>2, <2>3, <2>4 DEF Ledger
<1>. QED
  BY <1>7, <1>8

\* The send finds room: what was the oldest on its way is the newest accepted.
LEMMA EnqueueLedger ==
    ASSUME TypeOK, Ledger, NEW u \in Updates,
           fate[u] = "sent",
           \A v \in MqttUpdates : u \in MqttUpdates /\ v < u => fate[v] # "sent",
           Enqueue(u),
           UNCHANGED current
    PROVE  /\ \A v \in Updates : fate'[v] = IF v = u THEN "queued" ELSE fate[v]
           /\ QueuedOnce' /\ QueuedInOrder' /\ SettledInOrder'
<1>1. \A v \in Updates : fate'[v] = IF v = u THEN "queued" ELSE fate[v]
  BY DEF Enqueue, TypeOK
<1>2. /\ Len(channel') = Len(channel) + 1
      /\ \A k \in 1 .. Len(channel) : channel'[k] = channel[k]
      /\ channel'[Len(channel) + 1] = u
  BY AppendProperties DEF Enqueue, TypeOK
<1>3. u # current /\ \A k \in 1 .. Len(channel) : channel[k] # u
  BY DEF Ledger, QueuedOnce
<1>4. QueuedOnce'
  <2>1. \A k \in 1 .. Len(channel') : k \in 1 .. Len(channel) \/ k = Len(channel) + 1
    BY <1>2, LedgerTypes
  <2>2. \A v \in Updates :
           fate'[v] = "queued" <=>
               v = current' \/ \E k \in 1 .. Len(channel') : channel'[k] = v
    <3>. TAKE v \in Updates
    <3>1. (\E k \in 1 .. Len(channel') : channel'[k] = v) <=>
              v = u \/ \E k \in 1 .. Len(channel) : channel[k] = v
      BY <1>2, <2>1, LedgerTypes
    <3>2. fate'[v] = "queued" <=> v = u \/ fate[v] = "queued"
      BY <1>1
    <3>3. fate[v] = "queued" <=> v = current \/ \E k \in 1 .. Len(channel) : channel[k] = v
      BY DEF Ledger, QueuedOnce
    <3>. QED
      BY <3>1, <3>2, <3>3
  <2>3. \A k \in 1 .. Len(channel') : channel'[k] # current'
    BY <1>2, <1>3, <2>1 DEF Ledger, QueuedOnce
  <2>4. \A j, k \in 1 .. Len(channel') : channel'[j] = channel'[k] => j = k
    BY <1>2, <1>3, <2>1 DEF Ledger, QueuedOnce
  <2>. QED
    BY <2>2, <2>3, <2>4 DEF QueuedOnce
<1>5. u \in MqttUpdates =>
         \A v \in MqttUpdates : fate[v] = "queued" => v < u
  BY LedgerTypes DEF Ledger, SettledInOrder
<1>6. u \in MqttUpdates =>
         /\ current \in MqttUpdates => current < u
         /\ \A k \in 1 .. Len(channel) : channel[k] \in MqttUpdates => channel[k] < u
  BY <1>5, LedgerTypes DEF Ledger, QueuedOnce
<1>7. QueuedInOrder'
  BY <1>2, <1>6, LedgerTypes, SMTT(30) DEF Ledger, QueuedInOrder
<1>8. SettledInOrder'
  <2>. SUFFICES ASSUME NEW v \in MqttUpdates, NEW w \in MqttUpdates, v < w
                PROVE  /\ fate'[v] = "unsent" => fate'[w] = "unsent"
                       /\ fate'[v] = "sent" => fate'[w] \in {"unsent", "sent", "lost"}
                       /\ fate'[v] = "queued" => fate'[w] \notin {"stored", "abandoned"}
    BY DEF SettledInOrder
  <2>1. /\ fate[v] = "unsent" => fate[w] = "unsent"
        /\ fate[v] = "sent" => fate[w] \in {"unsent", "sent", "lost"}
        /\ fate[v] = "queued" => fate[w] \notin {"stored", "abandoned"}
    BY DEF Ledger, SettledInOrder
  <2>2. w = u => fate[v] # "sent"
    OBVIOUS
  <2>. QED
    BY <1>1, <2>1, <2>2 DEF Updates
<1>. QED
  BY <1>1, <1>4, <1>7, <1>8

LEMMA MqttSendLedger ==
    ASSUME TypeOK, Hands, Ledger, MqttSend
    PROVE  Ledger'
<1>1. /\ sending \in MqttUpdates
      /\ sending' = None
      /\ UNCHANGED <<inflight, conn, current>>
  BY DEF MqttSend, Hands, TypeOK, httpVars, sinkVars
<1>2. /\ fate[sending] = "sent"
      /\ \A v \in MqttUpdates : v < sending => fate[v] \notin {"unsent", "sent"}
  BY <1>1, LedgerTypes DEF Ledger, SentOnce, SentInOrder, SettledInOrder
<1>3. sending \in Updates
  BY <1>1, LedgerTypes
<1>4. ASSUME NEW f, f # "sent",
             \A v \in Updates : fate'[v] = IF v = sending THEN f ELSE fate[v]
      PROVE  SentOnce'
  <2>. SUFFICES ASSUME NEW v \in MqttUpdates
                PROVE  fate'[v] = "sent" <=> \E k \in 1 .. Len(inflight) : inflight[k] = v
    BY <1>1, LedgerTypes DEF SentOnce
  <2>1. fate'[v] = "sent" <=> fate[v] = "sent" /\ v # sending
    BY <1>4, LedgerTypes
  <2>2. \A k \in 1 .. Len(inflight) : inflight[k] # sending
    BY <1>1, LedgerTypes DEF Ledger, SentInOrder
  <2>. QED
    BY <2>1, <2>2 DEF Ledger, SentOnce
<1>5. ASSUME NEW f, \A v \in Updates : fate'[v] = IF v = sending THEN f ELSE fate[v]
      PROVE  RequestsAreOpen'
  <2>1. \A i \in Informs : fate'[i] = fate[i]
    BY <1>1, <1>5, LedgerTypes
  <2>. QED
    BY <1>1, <2>1 DEF Ledger, RequestsAreOpen
<1>6. SentInOrder'
  BY <1>1 DEF Ledger, SentInOrder
<1>7. CASE Enqueue(sending)
  <2>1. /\ \A v \in Updates : fate'[v] = IF v = sending THEN "queued" ELSE fate[v]
        /\ QueuedOnce' /\ QueuedInOrder' /\ SettledInOrder'
    BY <1>1, <1>2, <1>3, <1>7, EnqueueLedger
  <2>2. SentOnce' /\ RequestsAreOpen'
    BY <1>4, <1>5, <2>1
  <2>. QED
    BY <1>6, <2>1, <2>2 DEF Ledger
<1>8. CASE Saturated(sending)
  <2>1. fate' = Lost({sending}) /\ channel' = channel
    BY <1>8 DEF Saturated
  <2>2. \A v \in Updates : fate'[v] = IF v = sending THEN "lost" ELSE fate[v]
    BY <2>1, LostType
  <2>3. SentOnce' /\ RequestsAreOpen'
    BY <1>4, <1>5, <2>2
  <2>4. {sending} \in SUBSET Updates
    BY <1>3
  <2>. QED
    BY <1>1, <1>2, <1>6, <2>1, <2>3, <2>4, LoseLedger
<1>. QED
  BY <1>7, <1>8 DEF MqttSend

\* A handler's step moves the fate of its own Inform and nothing else that is on
\* its way.
Moves(i, f, where) ==
    /\ \A v \in Updates : fate'[v] = IF v = i THEN f ELSE fate[v]
    /\ conn' = [conn EXCEPT ![i] = where]
    /\ f = "sent" <=> where \in {"arriving", "sending"}
    /\ f = "unsent" <=> where = "none"
    /\ fate[i] # "queued"
    /\ UNCHANGED <<inflight, sending>>

LEMMA HandlerLedger ==
    ASSUME TypeOK, Ledger, NEW i \in Informs, NEW f, NEW where, Moves(i, f, where)
    PROVE  /\ SentOnce' /\ RequestsAreOpen' /\ SentInOrder'
           /\ UNCHANGED <<channel, current>> /\ f # "queued" => Ledger'
<1>. USE DEF Moves
<1>1. \A v \in MqttUpdates : fate'[v] = fate[v]
  BY LedgerTypes
<1>2. SentOnce'
  BY <1>1 DEF Ledger, SentOnce
<1>3. RequestsAreOpen'
  <2>. SUFFICES ASSUME NEW j \in Informs
                PROVE  /\ fate'[j] = "sent" <=> conn'[j] \in {"arriving", "sending"}
                       /\ fate'[j] = "unsent" <=> conn'[j] = "none"
    BY DEF RequestsAreOpen
  <2>1. CASE j = i
    BY <2>1, LedgerTypes DEF TypeOK
  <2>2. CASE j # i
    BY <2>2, LedgerTypes DEF TypeOK, Ledger, RequestsAreOpen
  <2>. QED
    BY <2>1, <2>2
<1>4. SentInOrder'
  BY DEF Ledger, SentInOrder
<1>5. ASSUME UNCHANGED <<channel, current>>, f # "queued" PROVE Ledger'
  <2>1. \A v \in Updates : fate'[v] = "queued" <=> fate[v] = "queued"
    BY <1>5
  <2>2. QueuedOnce'
    BY <1>5, <2>1 DEF Ledger, QueuedOnce
  <2>3. QueuedInOrder'
    BY <1>5 DEF Ledger, QueuedInOrder
  <2>4. SettledInOrder'
    BY <1>1 DEF Ledger, SettledInOrder
  <2>. QED
    BY <1>2, <1>3, <1>4, <2>2, <2>3, <2>4 DEF Ledger
<1>. QED
  BY <1>2, <1>3, <1>4, <1>5

LEMMA RequestLedger ==
    ASSUME TypeOK, Ledger, NEW i \in Informs,
           Accept(i) \/ BodyArrives(i) \/ InformSend(i) \/ ClientGone(i)
    PROVE  Ledger'
<1>1. /\ i \in Updates /\ i \notin MqttUpdates
      /\ fate[i] = "sent" <=> conn[i] \in {"arriving", "sending"}
      /\ fate[i] = "unsent" <=> conn[i] = "none"
  BY LedgerTypes DEF Ledger, RequestsAreOpen
<1>2. UNCHANGED <<inflight, sending, current>>
  BY DEF Accept, BodyArrives, InformSend, ClientGone, mqttVars, sinkVars
<1>3. CASE Accept(i)
  <2>1. /\ \A v \in Updates : fate'[v] = IF v = i THEN "sent" ELSE fate[v]
        /\ conn' = [conn EXCEPT ![i] = "arriving"] /\ channel' = channel /\ conn[i] = "none"
    BY <1>1, <1>3 DEF Accept, TypeOK
  <2>2. Moves(i, "sent", "arriving")
    BY <1>1, <1>2, <2>1 DEF Moves
  <2>. QED
    BY <1>2, <2>1, <2>2, HandlerLedger
<1>4. CASE /\ BodyArrives(i) \/ ClientGone(i)
           /\ fate' = Lost({i}) /\ conn' = [conn EXCEPT ![i] = "closed"]
  <2>1. \A v \in Updates : fate'[v] = IF v = i THEN "lost" ELSE fate[v]
    BY <1>4, LostType
  <2>2. channel' = channel /\ conn[i] \in {"arriving", "sending"}
    BY <1>4 DEF BodyArrives, ClientGone
  <2>3. Moves(i, "lost", "closed")
    BY <1>1, <1>2, <1>4, <2>1, <2>2 DEF Moves
  <2>. QED
    BY <1>2, <2>2, <2>3, HandlerLedger
<1>5. CASE BodyArrives(i) /\ fate' = fate /\ conn' = [conn EXCEPT ![i] = "sending"]
  <2>1. \A v \in Updates : fate'[v] = IF v = i THEN "sent" ELSE fate[v]
    BY <1>1, <1>5 DEF BodyArrives
  <2>2. channel' = channel /\ conn[i] \in {"arriving", "sending"}
    BY <1>5 DEF BodyArrives
  <2>3. Moves(i, "sent", "sending")
    BY <1>1, <1>2, <1>5, <2>1, <2>2 DEF Moves
  <2>. QED
    BY <1>2, <2>2, <2>3, HandlerLedger
<1>6. CASE InformSend(i)
  <2>1. fate[i] = "sent" /\ conn' = [conn EXCEPT ![i] = "closed"]
    BY <1>1, <1>6 DEF InformSend
  <2>2. CASE Enqueue(i)
    <3>1. /\ \A v \in Updates : fate'[v] = IF v = i THEN "queued" ELSE fate[v]
          /\ QueuedOnce' /\ QueuedInOrder' /\ SettledInOrder'
      BY <1>1, <1>2, <2>1, <2>2, EnqueueLedger
    <3>2. Moves(i, "queued", "closed")
      BY <1>2, <2>1, <3>1 DEF Moves
    <3>. QED
      BY <3>1, <3>2, HandlerLedger DEF Ledger
  <2>3. CASE Saturated(i)
    <3>1. \A v \in Updates : fate'[v] = IF v = i THEN "lost" ELSE fate[v]
      BY <2>3, LostType DEF Saturated
    <3>2. channel' = channel
      BY <2>3 DEF Saturated
    <3>3. Moves(i, "lost", "closed")
      BY <1>2, <2>1, <3>1 DEF Moves
    <3>. QED
      BY <1>2, <3>2, <3>3, HandlerLedger
  <2>. QED
    BY <1>6, <2>2, <2>3 DEF InformSend
<1>. QED
  BY <1>3, <1>4, <1>5, <1>6 DEF BodyArrives, ClientGone

LEMMA ReceiveLedger ==
    ASSUME TypeOK, Hands, Ledger, Receive
    PROVE  Ledger'
<1>1. /\ current = None
      /\ channel # <<>>
      /\ current' = Head(channel)
      /\ channel' = Tail(channel)
      /\ UNCHANGED <<inflight, sending, conn, fate>>
  BY DEF Receive, Hands, mqttVars, httpVars
<1>2. /\ Len(channel) \in Nat \ {0}
      /\ current' = channel[1]
      /\ Len(channel') = Len(channel) - 1
      /\ \A k \in 1 .. Len(channel') : channel'[k] = channel[k + 1]
  BY <1>1, HeadTailProperties, EmptySeq DEF TypeOK
<1>3. \A k \in 1 .. Len(channel') : k + 1 \in 1 .. Len(channel) /\ 1 \in 1 .. Len(channel)
  BY <1>2
<1>4. \A k \in 1 .. Len(channel) : k = 1 \/ k - 1 \in 1 .. Len(channel')
  BY <1>2
<1>5. QueuedOnce'
  <2>1. \A u \in Updates :
           fate[u] = "queued" <=>
               u = current' \/ \E k \in 1 .. Len(channel') : channel'[k] = u
    <3>. TAKE u \in Updates
    <3>1. u # current
      BY <1>1, LedgerTypes
    <3>2. ASSUME NEW k \in 1 .. Len(channel), channel[k] = u
          PROVE  u = current' \/ \E j \in 1 .. Len(channel') : channel'[j] = u
      <4>1. CASE k = 1
        BY <1>2, <3>2, <4>1
      <4>2. CASE k # 1
        <5>1. k - 1 \in 1 .. Len(channel') /\ channel'[k - 1] = channel[k]
          BY <1>2, <1>4, <4>2
        <5>. QED
          BY <3>2, <5>1
      <4>. QED
        BY <4>1, <4>2
    <3>3. ASSUME u = current' \/ \E k \in 1 .. Len(channel') : channel'[k] = u
          PROVE  \E j \in 1 .. Len(channel) : channel[j] = u
      BY <1>2, <1>3, <3>3
    <3>. QED
      BY <3>1, <3>2, <3>3 DEF Ledger, QueuedOnce
  <2>2. \A k \in 1 .. Len(channel') : channel'[k] # current'
    BY <1>2, <1>3 DEF Ledger, QueuedOnce
  <2>3. \A j, k \in 1 .. Len(channel') : channel'[j] = channel'[k] => j = k
    BY <1>2, <1>3 DEF Ledger, QueuedOnce
  <2>. QED
    BY <1>1, <2>1, <2>2, <2>3 DEF QueuedOnce
<1>6. QueuedInOrder'
  BY <1>2, <1>3 DEF Ledger, QueuedInOrder
<1>7. SentOnce' /\ RequestsAreOpen' /\ SentInOrder' /\ SettledInOrder'
  BY <1>1 DEF Ledger, SentOnce, RequestsAreOpen, SentInOrder, SettledInOrder
<1>. QED
  BY <1>5, <1>6, <1>7 DEF Ledger

\* The sink settles the update it works on, which is the oldest one accepted.
LEMMA DoneLedger ==
    ASSUME TypeOK, Ledger, current \in Updates, NEW f \in {"stored", "abandoned"}, Done(f),
           UNCHANGED <<inflight, sending, conn, channel>>
    PROVE  Ledger'
<1>1. current' = None /\ \A u \in Updates : fate'[u] = IF u = current THEN f ELSE fate[u]
  BY DEF Done, TypeOK
<1>2. fate[current] = "queued" /\ \A k \in 1 .. Len(channel) : channel[k] # current
  BY DEF Ledger, QueuedOnce
<1>3. QueuedOnce'
  <2>1. \A u \in Updates : fate'[u] = "queued" <=> fate[u] = "queued" /\ u # current
    BY <1>1
  <2>2. \A u \in Updates : u # current'
    BY <1>1, LedgerTypes
  <2>3. \A k \in 1 .. Len(channel) : channel[k] # current'
    BY <1>1, LedgerTypes
  <2>4. \A u \in Updates : fate'[u] = "queued" <=> \E k \in 1 .. Len(channel) : channel[k] = u
    BY <1>2, <2>1 DEF Ledger, QueuedOnce
  <2>. QED
    BY <2>2, <2>3, <2>4 DEF Ledger, QueuedOnce
<1>4. \A u \in Updates : /\ fate'[u] = "sent" <=> fate[u] = "sent"
                         /\ fate'[u] = "unsent" <=> fate[u] = "unsent"
  BY <1>1, <1>2
<1>5. SentOnce' /\ SentInOrder'
  BY <1>4, LedgerTypes DEF Ledger, SentOnce, SentInOrder
<1>6. RequestsAreOpen'
  BY <1>4, LedgerTypes DEF Ledger, RequestsAreOpen
<1>7. QueuedInOrder'
  BY <1>1, LedgerTypes DEF Ledger, QueuedInOrder
<1>8. \A u \in MqttUpdates : current \in MqttUpdates /\ u < current =>
          fate[u] \notin {"unsent", "sent", "queued"}
  BY <1>2, LedgerTypes DEF Ledger, QueuedOnce, QueuedInOrder, SettledInOrder
<1>9. SettledInOrder'
  <2>. SUFFICES ASSUME NEW v \in MqttUpdates, NEW w \in MqttUpdates, v < w
                PROVE  /\ fate'[v] = "unsent" => fate'[w] = "unsent"
                       /\ fate'[v] = "sent" => fate'[w] \in {"unsent", "sent", "lost"}
                       /\ fate'[v] = "queued" => fate'[w] \notin {"stored", "abandoned"}
    BY DEF SettledInOrder
  <2>1. /\ fate[v] = "unsent" => fate[w] = "unsent"
        /\ fate[v] = "sent" => fate[w] \in {"unsent", "sent", "lost"}
        /\ fate[v] = "queued" => fate[w] \notin {"stored", "abandoned"}
    BY DEF Ledger, SettledInOrder
  <2>2. v \in Updates /\ w \in Updates
    BY LedgerTypes
  <2>. QED
    BY <1>1, <1>2, <1>8, <2>1, <2>2
<1>. QED
  BY <1>3, <1>5, <1>6, <1>7, <1>9 DEF Ledger

LEMMA CrashLedger ==
    ASSUME TypeOK, Ledger, WorkerCrash
    PROVE  Ledger'
<1>1. \A u \in Updates : fate'[u] = IF fate[u] \in {"sent", "queued"} THEN "lost" ELSE fate[u]
  BY LostType DEF WorkerCrash
<1>2. /\ inflight' = <<>> /\ channel' = <<>> /\ sending' = None /\ current' = None
      /\ \A i \in Informs : conn'[i] = IF conn[i] = "none" THEN "none" ELSE "closed"
  BY DEF WorkerCrash
<1>3. QueuedOnce'
  BY <1>1, <1>2, LedgerTypes DEF QueuedOnce
<1>4. SentOnce'
  BY <1>1, <1>2, LedgerTypes DEF SentOnce
<1>5. RequestsAreOpen'
  BY <1>1, <1>2, LedgerTypes DEF Ledger, RequestsAreOpen
<1>6. SentInOrder' /\ QueuedInOrder'
  BY <1>2, LedgerTypes DEF SentInOrder, QueuedInOrder
<1>7. SettledInOrder'
  BY <1>1, LedgerTypes DEF Ledger, SettledInOrder
<1>. QED
  BY <1>3, <1>4, <1>5, <1>6, <1>7 DEF Ledger

LEMMA LedgerStep ==
    ASSUME TypeOK, Hands, Ledger, [Next]_vars
    PROVE  Ledger'
<1>1. CASE \/ Connect \/ BackoffEnds \/ ServerDrains \/ ServerExits \/ AutoProvision \/ SinkExits
           \/ CtrlC \/ ApiStep \/ DatabaseRecovers \/ UNCHANGED vars
  <2>1. UNCHANGED ledgerVars
    BY <1>1 DEF Connect, BackoffEnds, ServerDrains, ServerExits, AutoProvision, SinkExits, CtrlC,
                ApiStep, CreateRead, CreateCommit, DeleteCpe, DatabaseRecovers, vars, ledgerVars,
                mqttVars, httpVars, sinkVars
  <2>. QED
    BY <2>1, QuietLedger
<1>2. CASE Upsert \/ \E written \in BOOLEAN : UpsertFails(written)
  <2>1. current \in Updates /\ UNCHANGED <<inflight, sending, conn, channel>>
    BY <1>2 DEF Upsert, UpsertFails, TypeOK, Hands, mqttVars, httpVars
  <2>2. Done("stored") \/ Done("abandoned") \/ UNCHANGED <<current, fate>>
    BY <1>2 DEF Upsert, UpsertFails
  <2>. QED
    BY <2>1, <2>2, DoneLedger, QuietLedger DEF ledgerVars
<1>. QED
  BY <1>1, <1>2, PublishLedger, DisconnectLedger, PollLedger, MqttSendLedger, RequestLedger,
     ReceiveLedger, CrashLedger
  DEF Next, MqttStep, HttpStep, SinkStep

-----------------------------------------------------------------------------
(* The invariants *)

LEMMA PipelineInvariant == Spec => []PipelineInv
<1>1. PipelineInv /\ [Next]_vars => PipelineInv'
  BY StepTypes, ReturnedStep, ForeignKeyStep, LedgerStep DEF PipelineInv
<1>. QED
  BY <1>1, PipelineInit, PTL DEF Spec

\* The tasks, the channel, the tables and the requests always have their types.
THEOREM PipelineTypes == Spec => []TypeOK
<1>1. PipelineInv => TypeOK
  BY DEF PipelineInv
<1>. QED
  BY <1>1, PipelineInvariant, PTL

\* An upsert meets its foreign key unless the auto-provision of that update failed
\* or the CPE was deleted after it.
THEOREM ForeignKey == Spec => []ForeignKeyHolds
<1>1. PipelineInv => ForeignKeyHolds
  BY DEF PipelineInv
<1>. QED
  BY <1>1, PipelineInvariant, PTL

\* When run_db_sink has returned both producers have, and nothing is left in the
\* channel or on the way into it.
THEOREM ShutdownDrainsAll == Spec => []ShutdownDrains
<1>1. PipelineInv => ShutdownDrains
  <2>. SUFFICES ASSUME PipelineInv, sink = "exited" PROVE ShutdownDrains
    BY DEF ShutdownDrains
  <2>1. /\ TypeOK /\ Ledger
        /\ mqtt = "exited" /\ channel = <<>> /\ current = None /\ sending = None
        /\ inflight = <<>>
        /\ \A i \in Informs : conn[i] \in {"none", "closed"}
    BY DEF PipelineInv, Hands, Returned
  <2>2. \A u \in Updates : fate[u] # "queued"
    BY <2>1, LedgerTypes DEF Ledger, QueuedOnce
  <2>3. \A u \in MqttUpdates : fate[u] # "sent"
    BY <2>1, LedgerTypes DEF Ledger, SentOnce
  <2>4. \A i \in Informs : fate[i] # "sent"
    BY <2>1 DEF Ledger, RequestsAreOpen
  <2>. QED
    BY <2>1, <2>2, <2>3, <2>4 DEF ShutdownDrains, Updates
<1>. QED
  BY <1>1, PipelineInvariant, PTL

\* The accepted updates are what the sink works on, and then the channel.
LEMMA AcceptedElements ==
    ASSUME TypeOK
    PROVE  /\ Accepted \in Seq(Updates)
           /\ Len(channel) \in Nat
           /\ current = None => Accepted = channel
           /\ current # None =>
                 /\ Accepted = <<current>> \o channel
                 /\ Len(Accepted) = Len(channel) + 1
                 /\ Accepted[1] = current
                 /\ \A k \in 1 .. Len(channel) : Accepted[k + 1] = channel[k]
<1>1. channel \in Seq(Updates) /\ current \in Updates \cup {None}
  BY DEF TypeOK
<1>2. CASE current = None
  <2>1. Accepted = channel
    BY <1>1, <1>2, ConcatEmptySeq DEF Accepted, Single
  <2>. QED
    BY <1>1, <1>2, <2>1, LenProperties
<1>3. CASE current # None
  <2>1. /\ Accepted = <<current>> \o channel
        /\ <<current>> \in Seq(Updates)
        /\ Len(<<current>>) = 1 /\ <<current>>[1] = current
    BY <1>1, <1>3 DEF Accepted, Single
  <2>2. Len(channel) \in Nat
    BY <1>1, LenProperties
  <2>. QED
    BY <1>1, <1>3, <2>1, <2>2, ConcatProperties
<1>. QED
  BY <1>2, <1>3

\* An update is queued exactly if the channel or the sink has it, and only one of
\* them has it once.
THEOREM AcceptedAreAccountedFor == Spec => []AcceptedIsAccountedFor
<1>1. PipelineInv => AcceptedIsAccountedFor
  <2>. SUFFICES ASSUME PipelineInv PROVE AcceptedIsAccountedFor
    OBVIOUS
  <2>1. TypeOK /\ QueuedOnce /\ None \notin Updates
    BY LedgerTypes DEF PipelineInv, Ledger
  <2>2. DOMAIN Accepted = 1 .. Len(Accepted)
    BY <2>1, AcceptedElements, LenProperties
  <2>3. CASE current = None
    BY <2>1, <2>2, <2>3, AcceptedElements DEF AcceptedIsAccountedFor, QueuedOnce
  <2>4. CASE current # None
    <3>1. /\ Len(channel) \in Nat /\ Len(Accepted) = Len(channel) + 1 /\ Accepted[1] = current
          /\ \A k \in 1 .. Len(channel) : Accepted[k + 1] = channel[k]
      BY <2>1, <2>4, AcceptedElements
    <3>2. \A k \in 1 .. Len(Accepted) :
             k # 1 => k - 1 \in 1 .. Len(channel) /\ Accepted[k] = channel[k - 1]
      <4>. TAKE k \in 1 .. Len(Accepted)
      <4>. SUFFICES ASSUME k # 1 PROVE k - 1 \in 1 .. Len(channel) /\ Accepted[k] = channel[k - 1]
        OBVIOUS
      <4> DEFINE j == k - 1
      <4>1. j \in 1 .. Len(channel) /\ j + 1 = k
        BY <3>1
      <4> HIDE DEF j
      <4>2. Accepted[k] = channel[j]
        BY <3>1, <4>1
      <4>. QED
        BY <4>1, <4>2 DEF j
    <3>3. \A u : (\E k \in 1 .. Len(Accepted) : Accepted[k] = u) <=>
                     u = current \/ \E k \in 1 .. Len(channel) : channel[k] = u
      <4>. TAKE u
      <4>1. 1 \in 1 .. Len(Accepted) /\ \A k \in 1 .. Len(channel) : k + 1 \in 1 .. Len(Accepted)
        BY <3>1
      <4>. QED
        BY <3>1, <3>2, <4>1
    <3>4. ASSUME NEW j \in 1 .. Len(Accepted), NEW k \in 1 .. Len(Accepted),
                 Accepted[j] = Accepted[k]
          PROVE  j = k
      <4>1. CASE j = 1 \/ k = 1
        BY <2>1, <3>1, <3>2, <3>4, <4>1 DEF QueuedOnce
      <4>2. CASE j # 1 /\ k # 1
        <5>1. /\ j - 1 \in 1 .. Len(channel) /\ k - 1 \in 1 .. Len(channel)
              /\ channel[j - 1] = channel[k - 1]
          BY <3>2, <3>4, <4>2
        <5>. QED
          BY <2>1, <5>1 DEF QueuedOnce
      <4>. QED
        BY <4>1, <4>2
    <3>. QED
      BY <2>1, <2>2, <3>3, <3>4 DEF AcceptedIsAccountedFor, QueuedOnce
  <2>. QED
    BY <2>3, <2>4
<1>. QED
  BY <1>1, PipelineInvariant, PTL

-----------------------------------------------------------------------------
(* What a step may never do *)

\* Only a POST /cpes that had read the row changes the serial number of a CPE that
\* is registered.
THEOREM RegistrationAuthority == Spec => RegistrationIsAuthoritative
<1> DEFINE A == \A c \in Cpes :
                    inventory[c] # None /\ inventory'[c] \notin {inventory[c], None} =>
                        \E r \in Registrars :
                            /\ create[r] = [stage |-> "update", cpe |-> c, serial |-> inventory'[c]]
                            /\ create'[r] = Idle
<1>1. TypeOK /\ Hands /\ [Next]_vars => A
  <2>. SUFFICES ASSUME TypeOK, Hands, [Next]_vars, NEW c \in Cpes,
                       inventory[c] # None, inventory'[c] \notin {inventory[c], None}
                PROVE  \E r \in Registrars :
                           /\ create[r] = [stage |-> "update", cpe |-> c, serial |-> inventory'[c]]
                           /\ create'[r] = Idle
    OBVIOUS
  <2>1. inventory' # inventory
    OBVIOUS
  <2>2. ~AutoProvision /\ ~\E d \in Cpes : DeleteCpe(d)
    BY DEF AutoProvision, DeleteCpe, TypeOK
  <2>3. PICK r \in Registrars : CreateCommit(r)
    BY <2>1, <2>2
    DEF Next, Publish, MqttStep, Connect, PollFails, BackoffEnds, PollPublish, MqttSend,
        MqttShutdown, HttpStep, Accept, BodyArrives, InformSend, ClientGone, ServerDrains,
        ServerExits, SinkStep, Receive, Upsert, UpsertFails, SinkExits, CtrlC, WorkerCrash,
        ApiStep, CreateRead, DatabaseRecovers, vars, dbVars
  <2>4. create[r] \in Create /\ create[r] # Idle /\ create' = [create EXCEPT ![r] = Idle]
    BY <2>3 DEF CreateCommit, TypeOK
  <2>5. /\ create[r].cpe = c /\ inventory'[c] = create[r].serial
        /\ create[r].stage # "insert"
    BY <2>1, <2>3 DEF CreateCommit, TypeOK
  <2>6. create[r] = [stage |-> "update", cpe |-> c, serial |-> inventory'[c]]
    BY <2>4, <2>5 DEF Create
  <2>7. create'[r] = Idle
    BY <2>4 DEF TypeOK
  <2>. QED
    BY <2>6, <2>7
<1>2. PipelineInv => TypeOK /\ Hands
  BY DEF PipelineInv
<1>. QED
  BY <1>1, <1>2, PipelineInvariant, PTL DEF Spec, RegistrationIsAuthoritative

\* An MQTT update is merged into the row of a CPE only as long as no later update
\* of that CPE has been settled.
THEOREM LiveInPublicationOrder == Spec => LiveFollowsPublication
<1> DEFINE A == \A c \in Cpes :
                    live'[c] # live[c] /\ live'[c] \in MqttUpdates =>
                        \A v \in MqttUpdates :
                            v > live'[c] /\ CpeOf[v] = c => fate[v] \notin {"stored", "abandoned"}
<1>1. TypeOK /\ Hands /\ Ledger /\ [Next]_vars => A
  <2>. SUFFICES ASSUME TypeOK, Hands, Ledger, [Next]_vars, NEW c \in Cpes,
                       live'[c] # live[c], live'[c] \in MqttUpdates,
                       NEW v \in MqttUpdates, v > live'[c], CpeOf[v] = c
                PROVE  fate[v] \notin {"stored", "abandoned"}
    OBVIOUS
  <2>1. ~DatabaseRecovers /\ ~\E d \in Cpes : DeleteCpe(d)
    BY LedgerTypes DEF DatabaseRecovers, DeleteCpe, TypeOK
  <2>2. Upsert \/ \E written \in BOOLEAN : UpsertFails(written)
    BY <2>1
    DEF Next, Publish, MqttStep, Connect, PollFails, BackoffEnds, PollPublish, MqttSend,
        MqttShutdown, HttpStep, Accept, BodyArrives, InformSend, ClientGone, ServerDrains,
        ServerExits, SinkStep, Receive, AutoProvision, SinkExits, CtrlC, WorkerCrash,
        ApiStep, CreateRead, CreateCommit, vars, dbVars
  <2>3. live'[c] = current
    BY <2>2 DEF Upsert, UpsertFails, TypeOK
  <2>4. fate[current] = "queued"
    BY <2>3, LedgerTypes DEF Ledger, QueuedOnce
  <2>. QED
    BY <2>3, <2>4, LedgerTypes DEF Ledger, SettledInOrder
<1>2. PipelineInv => TypeOK /\ Hands /\ Ledger
  BY DEF PipelineInv
<1>. QED
  BY <1>1, <1>2, PipelineInvariant, PTL DEF Spec, LiveFollowsPublication

-----------------------------------------------------------------------------
(* The refinement.  A report is accepted by the step that enqueues it, and settled
   by the upsert that ends the attempts; taking it from the channel changes nothing
   that TelemetryDelivery sees. *)

Outcome == [u \in Updates |-> IF fate[u] \in {"unsent", "sent"} THEN "open" ELSE fate[u]]

LEMMA DeliveryVars ==
    ASSUME UNCHANGED <<channel, current, live>>, \A u \in Updates : Outcome'[u] = Outcome[u]
    PROVE  UNCHANGED Delivery!dvars
<1>1. Outcome' = Outcome
  BY DEF Outcome
<1>. QED
  BY <1>1 DEF Delivery!dvars, Outcome, Accepted, Single

LEMMA LoseIsLose ==
    ASSUME TypeOK, UNCHANGED <<channel, current, live>>, NEW us \in SUBSET Updates,
           fate' = Lost(us), \A u \in us : fate[u] \in {"unsent", "sent"}
    PROVE  Delivery!DNext
<1>1. us \in SUBSET {u \in Delivery!Reports : Outcome[u] = "open"}
  BY DEF Outcome, Updates, Delivery!Reports
<1>2. Outcome' = [u \in Delivery!Reports |-> IF u \in us THEN "lost" ELSE Outcome[u]]
  BY LostType DEF Outcome, Updates, Delivery!Reports
<1>3. UNCHANGED Accepted
  BY DEF Accepted, Single
<1>. QED
  BY <1>1, <1>2, <1>3 DEF Outcome, Delivery!DNext, Delivery!Lose

LEMMA EnqueueIsAccept ==
    ASSUME TypeOK, Ledger, NEW u \in Updates, fate[u] = "sent", Enqueue(u),
           UNCHANGED <<current, live>>
    PROVE  Delivery!DNext
<1>1. /\ channel' = Append(channel, u)
      /\ \A v \in Updates : fate'[v] = IF v = u THEN "queued" ELSE fate[v]
  BY DEF Enqueue, TypeOK
<1>2. Accepted' = Append(Accepted, u)
  <2>1. channel \in Seq(Updates) /\ Single(current) \in Seq(Updates) /\ <<u>> \in Seq(Updates)
    BY DEF TypeOK, Single
  <2>2. Accepted' = Single(current) \o (channel \o <<u>>)
    BY <1>1, <2>1, AppendIsConcat DEF Accepted, Single
  <2>. QED
    BY <2>1, <2>2, AppendIsConcat, ConcatAssociative, ConcatProperties DEF Accepted
<1>3. Outcome[u] = "open" /\ Outcome' = [Outcome EXCEPT ![u] = "queued"]
  BY <1>1 DEF Outcome
<1>4. u \in MqttUpdates => \A v \in MqttUpdates : v > u => Outcome[v] \in {"open", "lost"}
  BY LedgerTypes DEF Ledger, SettledInOrder, Outcome
<1>5. u \in Delivery!Reports
  BY DEF Delivery!Reports, Updates
<1>. QED
  BY <1>2, <1>3, <1>4, <1>5 DEF Delivery!DNext, Delivery!Accept, Outcome

LEMMA AcceptedHead ==
    ASSUME TypeOK, current # None
    PROVE  Accepted # <<>> /\ Head(Accepted) = current /\ Tail(Accepted) = channel
<1>1. /\ Accepted \in Seq(Updates) /\ channel \in Seq(Updates)
      /\ Len(channel) \in Nat
      /\ Len(Accepted) = Len(channel) + 1
      /\ Accepted[1] = current
      /\ \A k \in 1 .. Len(channel) : Accepted[k + 1] = channel[k]
  BY AcceptedElements DEF TypeOK
<1>2. Accepted # <<>>
  BY <1>1, EmptySeq
<1>3. /\ Head(Accepted) = Accepted[1]
      /\ Tail(Accepted) \in Seq(Updates)
      /\ Len(Tail(Accepted)) = Len(channel)
      /\ \A k \in 1 .. Len(channel) : Tail(Accepted)[k] = channel[k]
  BY <1>1, <1>2, HeadTailProperties
<1>. QED
  BY <1>1, <1>2, <1>3, SeqEqual

LEMMA UpsertIsDelivery ==
    ASSUME TypeOK, Hands, Upsert \/ \E written \in BOOLEAN : UpsertFails(written)
    PROVE  [Delivery!DNext]_(Delivery!dvars)
<1>1. current \in Updates /\ current # None /\ channel' = channel
  BY PipelineAssumption DEF Upsert, UpsertFails, TypeOK, Hands
<1>2. Accepted # <<>> /\ Head(Accepted) = current /\ Tail(Accepted) = channel
  BY <1>1, AcceptedHead
<1>3. live' = live \/ live' = [live EXCEPT ![CpeOf[current]] = current]
  BY DEF Upsert, UpsertFails
<1>4. Delivery!Merged = [live EXCEPT ![CpeOf[current]] = current]
  BY <1>2 DEF Delivery!Merged
<1>5. ASSUME NEW f \in {"stored", "abandoned"}, Done(f)
      PROVE  /\ Accepted' = Tail(Accepted)
             /\ Outcome' = [Outcome EXCEPT ![Head(Accepted)] = f]
  <2>1. channel \in Seq(Updates) /\ current' = None
    BY <1>5 DEF Done, TypeOK
  <2>2. Accepted' = channel
    BY <1>1, <2>1, ConcatEmptySeq DEF Accepted, Single
  <2>3. Outcome' = [Outcome EXCEPT ![current] = f]
    BY <1>1, <1>5 DEF Done, Outcome, TypeOK
  <2>. QED
    BY <1>2, <2>2, <2>3
<1>6. CASE Upsert
  BY <1>2, <1>4, <1>5, <1>6 DEF Upsert, Delivery!DNext, Delivery!Settle, Outcome
<1>7. CASE (\E written \in BOOLEAN : UpsertFails(written)) /\ Done("abandoned")
  BY <1>2, <1>3, <1>4, <1>5, <1>7 DEF Delivery!DNext, Delivery!Settle, Outcome
<1>8. CASE UNCHANGED <<current, fate>>
  <2>1. UNCHANGED <<Accepted, Outcome>>
    BY <1>1, <1>8 DEF Accepted, Single, Outcome
  <2>2. CASE live' = live
    BY <2>1, <2>2 DEF Delivery!dvars, Outcome
  <2>3. CASE live' = [live EXCEPT ![CpeOf[current]] = current]
    BY <1>2, <1>4, <2>1, <2>3 DEF Delivery!DNext, Delivery!Merge, Outcome
  <2>. QED
    BY <1>3, <2>2, <2>3
<1>. QED
  BY <1>6, <1>7, <1>8 DEF UpsertFails

LEMMA StepIsDelivery ==
    ASSUME TypeOK, Hands, Ledger, [Next]_vars
    PROVE  [Delivery!DNext]_(Delivery!dvars)
<1>1. CASE \/ Connect \/ BackoffEnds \/ ServerDrains \/ ServerExits \/ AutoProvision \/ SinkExits
           \/ CtrlC \/ UNCHANGED vars
           \/ \E r \in Registrars :
                 (\E b \in Bodies : CreateRead(r, b[1], b[2])) \/ CreateCommit(r)
  <2>1. UNCHANGED <<channel, current, live, fate>>
    BY <1>1 DEF Connect, BackoffEnds, ServerDrains, ServerExits, AutoProvision, SinkExits, CtrlC,
                CreateRead, CreateCommit, vars, sinkVars, dbVars
  <2>. QED
    BY <2>1, DeliveryVars DEF Outcome
<1>2. ASSUME NEW u \in MqttUpdates, Publish(u) PROVE [Delivery!DNext]_(Delivery!dvars)
  <2>1. u \in Updates /\ fate[u] = "unsent" /\ UNCHANGED <<channel, current, live>>
    BY <1>2, LedgerTypes DEF Publish, sinkVars, dbVars
  <2>2. CASE fate' = Lost({u})
    BY <2>1, <2>2, LoseIsLose
  <2>3. CASE fate' = [fate EXCEPT ![u] = "sent"]
    BY <2>1, <2>3, DeliveryVars DEF Outcome, TypeOK
  <2>. QED
    BY <1>2, <2>2, <2>3 DEF Publish
<1>3. CASE PollFails \/ MqttShutdown
  <2> DEFINE us == {inflight[k] : k \in DOMAIN inflight}
  <2>1. fate' = Lost(us) /\ UNCHANGED <<channel, current, live>>
    BY <1>3 DEF PollFails, MqttShutdown, sinkVars, dbVars
  <2>2. us \subseteq Updates /\ \A u \in us : fate[u] = "sent"
    BY LedgerTypes, LenProperties DEF TypeOK, Ledger, SentOnce
  <2> HIDE DEF us
  <2>. QED
    BY <2>1, <2>2, LoseIsLose
<1>4. CASE PollPublish
  <2>1. /\ Head(inflight) \in Updates /\ fate[Head(inflight)] = "sent"
        /\ UNCHANGED <<channel, current, live>>
    <3>1. inflight # <<>> /\ UNCHANGED <<channel, current, live>>
      BY <1>4 DEF PollPublish, sinkVars, dbVars
    <3>2. Head(inflight) = inflight[1] /\ 1 \in 1 .. Len(inflight)
      BY <3>1, EmptySeq, HeadTailProperties DEF TypeOK
    <3>. QED
      BY <3>1, <3>2, LedgerTypes DEF Ledger, SentOnce
  <2>2. fate' = Lost({Head(inflight)}) \/ fate' = fate
    BY <1>4 DEF PollPublish
  <2>. QED
    BY <2>1, <2>2, LoseIsLose, DeliveryVars DEF Outcome
<1>5. CASE MqttSend
  <2>1. sending \in Updates /\ fate[sending] = "sent" /\ UNCHANGED <<current, live>>
    BY <1>5, LedgerTypes DEF MqttSend, TypeOK, Hands, Ledger, SentOnce, sinkVars, dbVars
  <2>2. CASE Enqueue(sending)
    BY <2>1, <2>2, EnqueueIsAccept
  <2>3. CASE Saturated(sending)
    BY <2>1, <2>3, LoseIsLose DEF Saturated
  <2>. QED
    BY <1>5, <2>2, <2>3 DEF MqttSend
<1>6. ASSUME NEW i \in Informs, Accept(i) \/ BodyArrives(i) \/ InformSend(i) \/ ClientGone(i)
      PROVE  [Delivery!DNext]_(Delivery!dvars)
  <2>1. i \in Updates /\ UNCHANGED <<current, live>>
    BY <1>6, LedgerTypes DEF Accept, BodyArrives, InformSend, ClientGone, sinkVars, dbVars
  <2>2. CASE Accept(i)
    <3>1. fate[i] = "unsent" /\ fate' = [fate EXCEPT ![i] = "sent"] /\ channel' = channel
      BY <2>2 DEF Accept, Ledger, RequestsAreOpen
    <3>. QED
      BY <2>1, <3>1, DeliveryVars DEF Outcome, TypeOK
  <2>3. CASE ~Accept(i)
    <3>1. fate[i] = "sent"
      BY <1>6, <2>3 DEF BodyArrives, InformSend, ClientGone, Ledger, RequestsAreOpen
    <3>2. \/ fate' = Lost({i}) /\ channel' = channel
          \/ fate' = fate /\ channel' = channel
          \/ Enqueue(i)
      BY <1>6, <2>3 DEF BodyArrives, InformSend, ClientGone, Saturated
    <3>. QED
      BY <2>1, <3>1, <3>2, LoseIsLose, EnqueueIsAccept, DeliveryVars DEF Outcome
  <2>. QED
    BY <2>2, <2>3
<1>7. CASE Receive
  <2>1. /\ current = None /\ channel \in Seq(Updates) /\ channel # <<>>
        /\ channel' = Tail(channel) /\ current' = Head(channel) /\ UNCHANGED <<live, fate>>
    BY <1>7 DEF Receive, Hands, TypeOK, dbVars
  <2>2. TypeOK' /\ current' # None
    BY <2>1, StepTypes, HeadTailProperties, LedgerTypes
  <2>3. /\ Accepted = channel
        /\ Accepted' = <<Head(channel)>> \o Tail(channel)
    BY <2>1, <2>2, AcceptedElements DEF Accepted, Single
  <2>4. Accepted' = Accepted
    <3>1. /\ Head(channel) \in Updates /\ Tail(channel) \in Seq(Updates)
          /\ Len(channel) \in Nat \ {0}
          /\ Head(channel) = channel[1]
          /\ Len(Tail(channel)) = Len(channel) - 1
          /\ \A k \in 1 .. Len(Tail(channel)) : Tail(channel)[k] = channel[k + 1]
      BY <2>1, HeadTailProperties, EmptySeq
    <3>2. /\ <<Head(channel)>> \in Seq(Updates)
          /\ Len(<<Head(channel)>>) = 1 /\ <<Head(channel)>>[1] = Head(channel)
      BY <3>1
    <3>3. /\ Accepted' \in Seq(Updates)
          /\ Len(Accepted') = Len(channel)
          /\ \A k \in 1 .. Len(channel) : Accepted'[k] = channel[k]
      BY <2>3, <3>1, <3>2, ConcatProperties
    <3>. QED
      BY <2>1, <2>3, <3>3, SeqEqual
  <2>. QED
    BY <2>1, <2>4 DEF Delivery!dvars
<1>8. CASE WorkerCrash
  <2> DEFINE us == {u \in Updates : fate[u] = "sent"}
  <2>1. Accepted' = <<>> /\ UNCHANGED live
    BY <1>8 DEF WorkerCrash, Accepted, Single, dbVars
  <2>2. \A u \in Updates : fate'[u] = IF fate[u] \in {"sent", "queued"} THEN "lost" ELSE fate[u]
    BY <1>8, LostType DEF WorkerCrash
  <2>3. Outcome' = [u \in Delivery!Reports |->
                       IF u \in us \/ Outcome[u] = "queued" THEN "lost" ELSE Outcome[u]]
    BY <2>2 DEF Outcome, Delivery!Reports, Updates
  <2>4. us \in SUBSET {u \in Delivery!Reports : Outcome[u] = "open"}
    BY DEF Outcome, Delivery!Reports, Updates
  <2>. QED
    BY <2>1, <2>3, <2>4 DEF Delivery!DNext, Delivery!Crash, Outcome
<1>9. ASSUME NEW cs \in SUBSET Cpes,
             live' = [c \in Cpes |-> IF c \in cs THEN None ELSE live[c]],
             UNCHANGED <<channel, current, fate>>
      PROVE  [Delivery!DNext]_(Delivery!dvars)
  BY <1>9 DEF Delivery!DNext, Delivery!Forget, Accepted, Single
<1>10. ASSUME NEW c \in Cpes, DeleteCpe(c) PROVE [Delivery!DNext]_(Delivery!dvars)
  <2>1. live' = [d \in Cpes |-> IF d \in {c} THEN None ELSE live[d]]
    BY <1>10 DEF DeleteCpe, TypeOK
  <2>. QED
    BY <1>9, <1>10, <2>1 DEF DeleteCpe
<1>11. CASE DatabaseRecovers
  <2>1. live' = [d \in Cpes |-> IF d \in Cpes THEN None ELSE live[d]]
    BY <1>11 DEF DatabaseRecovers
  <2>. QED
    BY <1>9, <1>11, <2>1 DEF DatabaseRecovers, sinkVars
<1>. QED
  BY <1>1, <1>2, <1>3, <1>4, <1>5, <1>6, <1>7, <1>8, <1>10, <1>11, UpsertIsDelivery
  DEF Next, MqttStep, HttpStep, SinkStep, ApiStep

\* The pipeline implements the safety part of TelemetryDelivery: every step is one
\* of its steps or leaves the queue, the outcomes and the live rows alone.
THEOREM PipelineImplementsDelivery ==
    Spec => Delivery!DInit /\ [][Delivery!DNext]_(Delivery!dvars)
<1>1. Init => Delivery!DInit
  BY PipelineAssumption
  DEF Init, Delivery!DInit, Accepted, Single, Delivery!Reports, Updates
<1>2. PipelineInv => TypeOK /\ Hands /\ Ledger
  BY DEF PipelineInv
<1>. QED
  BY <1>1, <1>2, PipelineInvariant, StepIsDelivery, PTL DEF Spec

=============================================================================
