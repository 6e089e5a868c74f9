--------------------------- MODULE CwmpServerProofs ---------------------------
(***************************************************************************)
(* Proofs about CwmpServer, for every set of devices, addresses, commands  *)
(* and words.  The server refines CwmpSession, so that what is proved of   *)
(* sessions there holds here; routing follows from it.                     *)
(***************************************************************************)
EXTENDS CwmpServer, CwmpSessionProofs

-----------------------------------------------------------------------------
(* Every step of the server is a step of CwmpSession, or leaves it alone. *)

LEMMA ServerStep == [ServerNext]_serverVars => [Next]_vars
<1>. SUFFICES ASSUME [ServerNext]_serverVars PROVE [Next]_vars
  OBVIOUS
<1>1. CASE UNCHANGED vars
  BY <1>1
<1>2. ASSUME NEW d \in Devices,
             \/ \E b \in Bodies : Request(d, b)
             \/ \E answered \in BOOLEAN : Resolve(d, answered)
             \/ Deliver(d)
             \/ \E restarts \in BOOLEAN : Disconnect(d, restarts)
             \/ DeleteQueue(d)
             \/ Elsewhere(d)
      PROVE  Next
  BY <1>2 DEF Request, Resolve, Deliver, Disconnect, DeleteQueue, Elsewhere, Next
<1>3. ASSUME NEW a \in Addresses, Forget(a) PROVE Next
  BY <1>3 DEF Forget, Next
<1>4. CASE WorkerRestart
  BY <1>4 DEF WorkerRestart, Next
<1>. QED
  BY <1>1, <1>2, <1>3, <1>4 DEF ServerNext, serverVars, SettleRow, Dequeue, QueueCommand

\* The server implements CwmpSession: its sessions are those of that module.
THEOREM ServerImplementsSession == ServerSpec => Spec
BY ServerStep, PTL DEF ServerSpec, ServerInit, Spec

\* What is proved of the sessions of CwmpSession holds of the server's.
THEOREM ServerSessionsAreOwn == ServerSpec => []CookieSessionIsOwn /\ FreshSessionIsOwn
BY ServerImplementsSession, CookieSessions, FreshSessions

-----------------------------------------------------------------------------
(* The inductive invariant.  A device that was known when it sent its request is
   in service, never waiting for the query of the live rows, and the request has
   been taken for that device; so the statements of its handler look at its own
   queue, and the reply carries one of its own commands. *)

HandlerShape ==
    /\ stage \in [Devices -> Stages]
    /\ reply \in [Devices -> Commands \cup {None}]
    /\ inbox \in [Devices -> Commands \cup {None}]
    /\ known \in [Devices -> BOOLEAN]
    /\ row = [c \in Commands |-> row[c]]

AtWork ==
    \A d \in Devices :
        /\ stage[d] # "none" => session[d] \in {"query", "serving"}
        /\ reply[d] # None => stage[d] = "reply" /\ session[d] = "serving"

KnownIsServed ==
    \A d \in Devices : known[d] =>
        /\ session[d] = "serving"
        /\ stage[d] \in {"settle", "dequeue"} => handled[d].cpe = d

KeeperIsKnown == \A d \in CookieKeepers : stage[d] # "none" => known[d]

RoutingInv ==
    SessionInv /\ HandlerShape /\ AtWork /\ KnownIsServed /\ KeeperIsKnown /\ KnownDeviceRunsOwn

\* What the invariant says of one device.
RoutingOf(d) ==
    /\ stage[d] # "none" => session[d] \in {"query", "serving"}
    /\ reply[d] # None => /\ stage[d] = "reply" /\ session[d] = "serving"
                          /\ known[d] => OwnerOf[reply[d]] = d
    /\ known[d] => /\ session[d] = "serving"
                   /\ stage[d] \in {"settle", "dequeue"} => handled[d].cpe = d
    /\ d \in CookieKeepers => /\ stage[d] # "none" => known[d]
                              /\ inbox[d] # None => OwnerOf[inbox[d]] = d

LEMMA RoutingByDevice ==
  RoutingInv <=> SessionInv /\ HandlerShape /\ \A d \in Devices : RoutingOf(d)
BY SessionAssumption DEF RoutingInv, AtWork, KnownIsServed, KeeperIsKnown, KnownDeviceRunsOwn, RoutingOf

\* A step of d, or of nobody, leaves the routing of the other devices alone.
LEMMA OthersKeep ==
  ASSUME NEW e \in Devices, RoutingOf(e),
         <<stage[e], reply[e], inbox[e], known[e], session[e], handled[e]>>' =
         <<stage[e], reply[e], inbox[e], known[e], session[e], handled[e]>>
  PROVE  RoutingOf(e)'
BY DEF RoutingOf

LEMMA RequestRoutes ==
  ASSUME RoutingInv, NEW d \in Devices, NEW b \in Bodies, Request(d, b)
  PROVE  HandlerShape' /\ \A e \in Devices : RoutingOf(e)'
<1>. SessionInv /\ HandlerShape /\ \A e \in Devices : RoutingOf(e)
  BY RoutingByDevice
<1>. USE SessionAssumption
<1>1. FirstStage(Effect(b)) \in Stages \ {"none"}
  BY DEF FirstStage, Stages
<1>2. HandlerShape'
  BY <1>1 DEF HandlerShape, Request, SessionInv, Shape
<1>3. RoutingOf(d)'
  <2>1. session[d] = "open" /\ stage[d] = "none" /\ reply[d] = None
    BY DEF Request, Post, RoutingOf, HandlerShape
  <2>2. session'[d] \in {"query", "serving"}
    BY DEF Request, Post, SessionInv, Shape
  <2>3. stage'[d] = FirstStage(Effect(b)) /\ known'[d] = (fresh[d] \/ d \in CookieKeepers)
    BY DEF Request, HandlerShape, SessionInv, Shape
  <2>4. reply'[d] = None /\ inbox'[d] = inbox[d]
    BY <2>1 DEF Request
  <2>5. ASSUME fresh[d] \/ d \in CookieKeepers
        PROVE  /\ session'[d] = "serving"
               /\ stage'[d] \in {"settle", "dequeue"} => handled'[d].cpe = d
    <3>1. Lookup(d) = d
      BY <2>1, <2>5, LookupIsOwn
    <3>2. session'[d] = "serving"
      BY <3>1 DEF Request, Post, SessionInv, Shape
    <3>3. stage'[d] \in {"settle", "dequeue"} => Effect(b) \in {"dequeue", "failed", "completed"}
      BY <2>3 DEF FirstStage
    <3>4. Effect(b) \in {"dequeue", "failed", "completed"} => handled'[d].cpe = d
      BY <3>1 DEF Request, Post, SessionInv, Shape
    <3>. QED
      BY <3>2, <3>3, <3>4
  <2>6. d \in CookieKeepers /\ inbox'[d] # None => OwnerOf[inbox'[d]] = d
    BY <2>4 DEF RoutingOf
  <2>. QED
    BY <2>2, <2>3, <2>4, <2>5, <2>6 DEF RoutingOf
<1>4. ASSUME NEW e \in Devices, e # d PROVE RoutingOf(e)'
  <2>1. <<stage[e], reply[e], inbox[e], known[e], session[e], handled[e]>>' =
        <<stage[e], reply[e], inbox[e], known[e], session[e], handled[e]>>
    BY <1>4 DEF Request, Post, HandlerShape, SessionInv, Shape
  <2>. QED
    BY <2>1, OthersKeep
<1>. QED
  BY <1>2, <1>3, <1>4

LEMMA ResolveRoutes ==
  ASSUME RoutingInv, NEW d \in Devices, NEW answered \in BOOLEAN, Resolve(d, answered)
  PROVE  HandlerShape' /\ \A e \in Devices : RoutingOf(e)'
<1>. SessionInv /\ HandlerShape /\ \A e \in Devices : RoutingOf(e)
  BY RoutingByDevice
<1>1. session[d] = "query" /\ session' = [session EXCEPT ![d] = "serving"]
  BY DEF Resolve, Query
<1>2. stage' = [stage EXCEPT ![d] = FirstStage(handled'[d].effect)] /\ UNCHANGED <<row, reply, inbox, known>>
  BY DEF Resolve
<1>3. FirstStage(handled'[d].effect) \in Stages \ {"none"}
  BY DEF FirstStage, Stages
<1>4. HandlerShape'
  BY <1>2, <1>3 DEF HandlerShape
<1>5. RoutingOf(d)'
  <2>1. ~known[d] /\ d \notin CookieKeepers
    BY <1>1 DEF RoutingOf, SessionInv, KeeperHasCookie
  <2>2. reply[d] = None
    BY <1>1 DEF RoutingOf
  <2>. QED
    BY <1>1, <1>2, <1>3, <2>1, <2>2 DEF RoutingOf, SessionInv, Shape, HandlerShape
<1>6. ASSUME NEW e \in Devices, e # d PROVE RoutingOf(e)'
  <2>1. handled'[e] = handled[e]
    BY <1>6 DEF Resolve, Query, SessionInv, Shape
  <2>2. <<stage[e], reply[e], inbox[e], known[e], session[e], handled[e]>>' =
        <<stage[e], reply[e], inbox[e], known[e], session[e], handled[e]>>
    BY <1>1, <1>2, <1>6, <2>1 DEF HandlerShape, SessionInv, Shape
  <2>. QED
    BY <2>2, OthersKeep
<1>. QED
  BY <1>4, <1>5, <1>6

LEMMA SettleRoutes ==
  ASSUME RoutingInv, NEW d \in Devices, SettleRow(d)
  PROVE  HandlerShape' /\ \A e \in Devices : RoutingOf(e)'
<1>. SessionInv /\ HandlerShape /\ \A e \in Devices : RoutingOf(e)
  BY RoutingByDevice
<1>1. /\ stage[d] = "settle" /\ stage' = [stage EXCEPT ![d] = "dequeue"]
      /\ UNCHANGED <<session, handled, reply, inbox, known>>
  BY DEF SettleRow, vars
<1>2. HandlerShape'
  BY <1>1 DEF HandlerShape, Stages, SettleRow, Life!Settle
<1>3. ASSUME NEW e \in Devices PROVE RoutingOf(e)'
  <2>1. stage'[e] = IF e = d THEN "dequeue" ELSE stage[e]
    BY <1>1 DEF HandlerShape
  <2>. QED
    BY <1>1, <2>1 DEF RoutingOf
<1>. QED
  BY <1>2, <1>3

LEMMA DequeueRoutes ==
  ASSUME RoutingInv, NEW d \in Devices, NEW acknowledged \in BOOLEAN, Dequeue(d, acknowledged)
  PROVE  HandlerShape' /\ \A e \in Devices : RoutingOf(e)'
<1>. SessionInv /\ HandlerShape /\ \A e \in Devices : RoutingOf(e)
  BY RoutingByDevice
<1>1. /\ stage[d] = "dequeue" /\ stage' = [stage EXCEPT ![d] = "reply"]
      /\ UNCHANGED <<session, handled, inbox, known>>
  BY DEF Dequeue, vars
<1>2. reply[d] = None
  BY <1>1 DEF RoutingOf
<1>3. PICK c \in Rows(handled[d].cpe, "pending") \cup {None} : reply' = [reply EXCEPT ![d] = c]
  BY <1>2 DEF Dequeue, HandlerShape
<1>4. c # None => c \in Commands /\ OwnerOf[c] = handled[d].cpe
  BY <1>3 DEF Rows
<1>5. HandlerShape'
  <2>1. row' = [x \in Commands |-> row'[x]]
    BY DEF Dequeue, HandlerShape, Life!Send
  <2>. QED
    BY <1>1, <1>3, <1>4, <2>1 DEF HandlerShape, Stages
<1>6. RoutingOf(d)'
  <2>1. stage'[d] = "reply" /\ reply'[d] = c
    BY <1>1, <1>3 DEF HandlerShape
  <2>2. session'[d] = "serving" /\ inbox'[d] = inbox[d] /\ known'[d] = known[d]
    BY <1>1 DEF Dequeue
  <2>3. known[d] /\ c # None => OwnerOf[c] = d
    BY <1>1, <1>4 DEF RoutingOf
  <2>. QED
    BY <1>1, <2>1, <2>2, <2>3 DEF RoutingOf
<1>7. ASSUME NEW e \in Devices, e # d PROVE RoutingOf(e)'
  BY <1>1, <1>3, <1>7, OthersKeep DEF HandlerShape
<1>. QED
  BY <1>5, <1>6, <1>7

LEMMA DeliverRoutes ==
  ASSUME RoutingInv, NEW d \in Devices, Deliver(d)
  PROVE  HandlerShape' /\ \A e \in Devices : RoutingOf(e)'
<1>. SessionInv /\ HandlerShape /\ \A e \in Devices : RoutingOf(e)
  BY RoutingByDevice
<1>1. HandlerShape'
  BY DEF HandlerShape, Deliver, HandlerEnds, Stages
<1>2. RoutingOf(d)'
  <2>1. stage'[d] = "none" /\ reply'[d] = None /\ known'[d] = FALSE /\ inbox'[d] = reply[d]
    BY DEF HandlerShape, Deliver, HandlerEnds
  <2>2. d \in CookieKeepers /\ reply[d] # None => OwnerOf[reply[d]] = d
    BY DEF RoutingOf, Deliver
  <2>. QED
    BY <2>1, <2>2 DEF RoutingOf
<1>3. ASSUME NEW e \in Devices, e # d PROVE RoutingOf(e)'
  BY <1>3, OthersKeep DEF HandlerShape, SessionInv, Shape, Deliver, HandlerEnds, Reply
<1>. QED
  BY <1>1, <1>2, <1>3

LEMMA DisconnectRoutes ==
  ASSUME RoutingInv, NEW d \in Devices, NEW restarts \in BOOLEAN, Disconnect(d, restarts)
  PROVE  HandlerShape' /\ \A e \in Devices : RoutingOf(e)'
<1>. SessionInv /\ HandlerShape /\ \A e \in Devices : RoutingOf(e)
  BY RoutingByDevice
<1>1. HandlerShape'
  BY DEF HandlerShape, Disconnect, HandlerEnds, Stages
<1>2. RoutingOf(d)'
  <2>1. stage'[d] = "none" /\ reply'[d] = None /\ known'[d] = FALSE
    BY DEF HandlerShape, Disconnect, HandlerEnds
  <2>2. inbox'[d] \in {None, inbox[d]}
    BY DEF HandlerShape, Disconnect
  <2>. QED
    BY <2>1, <2>2 DEF RoutingOf
<1>3. ASSUME NEW e \in Devices, e # d PROVE RoutingOf(e)'
  <2>1. inbox'[e] = inbox[e]
    BY <1>3 DEF HandlerShape, Disconnect
  <2>. QED
    BY <1>3, <2>1, OthersKeep DEF HandlerShape, SessionInv, Shape, Disconnect, HandlerEnds, Close
<1>. QED
  BY <1>1, <1>2, <1>3

\* The other steps leave the handlers alone, and the sessions that they serve.
LEMMA AsideKeeps ==
  ASSUME RoutingInv, UNCHANGED <<handlerVars, inbox, handled>>,
         \A d \in Devices : session[d] = "closed" \/ session'[d] = session[d],
         row' = [c \in Commands |-> row'[c]]
  PROVE  HandlerShape' /\ \A d \in Devices : RoutingOf(d)'
<1>. SessionInv /\ HandlerShape /\ \A e \in Devices : RoutingOf(e)
  BY RoutingByDevice
<1>. QED
  BY DEF RoutingOf, HandlerShape, handlerVars

LEMMA RoutingNext == RoutingInv /\ [ServerNext]_serverVars => RoutingInv'
<1>. SUFFICES ASSUME RoutingInv, [ServerNext]_serverVars PROVE RoutingInv'
  OBVIOUS
<1>. DEFINE Routed == HandlerShape' /\ \A d \in Devices : RoutingOf(d)'
<1>0. row = [c \in Commands |-> row[c]] /\ SessionInv /\ Shape
  BY DEF RoutingInv, HandlerShape, SessionInv
<1>1. ASSUME UNCHANGED serverVars PROVE Routed
  BY <1>0, <1>1, AsideKeeps DEF serverVars, vars
<1>2. ASSUME NEW d \in Devices, Elsewhere(d) PROVE Routed
  <2>1. \A e \in Devices : session[e] = "closed" \/ session'[e] = session[e]
    BY <1>0, <1>2 DEF Elsewhere, Inform, Move, MqttReport, Shape
  <2>2. UNCHANGED <<handlerVars, inbox, handled, row>>
    BY <1>2 DEF Elsewhere, Inform, Move, MqttReport
  <2>. QED
    BY <1>0, <2>1, <2>2, AsideKeeps
<1>3. ASSUME NEW c \in Commands, QueueCommand(c) PROVE Routed
  BY <1>0, <1>3, AsideKeeps DEF QueueCommand, Life!Queue, vars
<1>4. ASSUME NEW d \in Devices, DeleteQueue(d) PROVE Routed
  BY <1>0, <1>4, AsideKeeps DEF DeleteQueue, DeleteCpe, Life!Drop
<1>5. ASSUME NEW a \in Addresses, Forget(a) PROVE Routed
  BY <1>0, <1>5, AsideKeeps DEF Forget, Expire
<1>6. ASSUME WorkerRestart PROVE Routed
  <2>. HandlerShape /\ \A e \in Devices : RoutingOf(e)
    BY RoutingByDevice
  <2>. QED
    BY <1>6 DEF WorkerRestart, HandlerShape, RoutingOf, Stages
<1>7. Routed
  BY <1>1, <1>2, <1>3, <1>4, <1>5, <1>6, RequestRoutes, ResolveRoutes, SettleRoutes, DequeueRoutes,
     DeliverRoutes, DisconnectRoutes DEF ServerNext
<1>8. AtWork'
  BY <1>7 DEF AtWork, RoutingOf
<1>9. KnownIsServed'
  BY <1>7 DEF KnownIsServed, RoutingOf
<1>10. KeeperIsKnown'
  BY <1>7, SessionAssumption DEF KeeperIsKnown, RoutingOf
<1>11. KnownDeviceRunsOwn'
  BY <1>7, SessionAssumption DEF KnownDeviceRunsOwn, RoutingOf
<1>12. SessionInv'
  BY <1>0, ServerStep, SessionNext
<1>. QED
  BY <1>7, <1>8, <1>9, <1>10, <1>11, <1>12 DEF RoutingInv

LEMMA RoutingInvariant == ServerSpec => []RoutingInv
<1>1. ServerInit => RoutingInv
  <2>. SUFFICES ASSUME ServerInit PROVE RoutingInv
    OBVIOUS
  <2>1. SessionInv
    BY SessionInit DEF ServerInit
  <2>2. HandlerShape
    BY DEF ServerInit, HandlerShape, Stages, Life!Init
  <2>3. AtWork /\ KnownIsServed /\ KeeperIsKnown /\ KnownDeviceRunsOwn
    BY SessionAssumption
       DEF ServerInit, AtWork, KnownIsServed, KeeperIsKnown, KnownDeviceRunsOwn
  <2>. QED
    BY <2>1, <2>2, <2>3 DEF RoutingInv
<1>. QED
  BY <1>1, RoutingNext, PTL DEF ServerSpec

-----------------------------------------------------------------------------
(* The theorems *)

\* A device that the server knows by its cookie or its fresh Inform executes only
\* commands of its own queue.
THEOREM RoutedToOwner == ServerSpec => []KnownDeviceRunsOwn
<1>1. RoutingInv => KnownDeviceRunsOwn
  BY DEF RoutingInv
<1>. QED
  BY <1>1, RoutingInvariant, PTL

\* Its responses settle only rows of its own queue.
THEOREM SettledByOwner == ServerSpec => KnownDeviceSettlesOwn
<1>. DEFINE A == \A d \in Devices, c \in Commands :
                    stage[d] = "settle" /\ stage'[d] = "dequeue" /\ known[d] /\ row'[c] # row[c] =>
                        OwnerOf[c] = d
<1>1. RoutingInv /\ [ServerNext]_serverVars => A
  <2>. SUFFICES ASSUME RoutingInv, [ServerNext]_serverVars, NEW d \in Devices, NEW c \in Commands,
                       stage[d] = "settle", stage'[d] = "dequeue", known[d], row'[c] # row[c]
                PROVE  OwnerOf[c] = d
    OBVIOUS
  <2>1. session[d] = "serving" /\ handled[d].cpe = d
    BY DEF RoutingInv, KnownIsServed
  <2>2. SettleRow(d)
    <3>1. stage' # stage /\ row' # row
      OBVIOUS
    <3>2. PICK e \in Devices : SettleRow(e) \/ \E acknowledged \in BOOLEAN : Dequeue(e, acknowledged)
      BY <3>1
         DEF ServerNext, serverVars, handlerVars, Request, Resolve, Deliver, Disconnect, DeleteQueue,
             Elsewhere, QueueCommand, Forget, WorkerRestart
    <3>3. stage'[d] # "reply"
      OBVIOUS
    <3>. QED
      BY <3>2, <3>3 DEF SettleRow, Dequeue, RoutingInv, HandlerShape
  <2>3. PICK x \in Rows(d, "dispatched") : Life!Settle(x, handled[d].effect)
    BY <2>1, <2>2 DEF SettleRow
  <2>4. x = c
    BY <2>3 DEF Life!Settle, RoutingInv, HandlerShape
  <2>. QED
    BY <2>3, <2>4 DEF Rows
<1>. QED
  BY <1>1, RoutingInvariant, PTL DEF ServerSpec, KnownDeviceSettlesOwn

-----------------------------------------------------------------------------
(* Types.  A row takes the effect of a request for its status; that it is one of a
   row rests on the order of the two: the handler that settles knows a verdict. *)

RowTypes ==
    /\ row \in [Commands -> {"absent", "deleted"} \cup Life!Stored]
    /\ sent \in [Commands -> Nat]

\* A request in service has a handler at work, and one that settles knows a verdict.
ServedOf(d) ==
    /\ session[d] \in {"query", "serving"} => stage[d] # "none"
    /\ stage[d] = "settle" => handled[d].effect \in {"failed", "completed"}

ServerTypes == RowTypes /\ \A d \in Devices : ServedOf(d)

\* A step of one device leaves the others as they are.
LEMMA OthersServed ==
  ASSUME NEW e \in Devices, ServedOf(e),
         <<session[e], stage[e], handled[e]>>' = <<session[e], stage[e], handled[e]>>
  PROVE  ServedOf(e)'
BY DEF ServedOf

LEMMA ServerTypeStep ==
  ASSUME RoutingInv, ServerTypes, [ServerNext]_serverVars
  PROVE  ServerTypes'
<1>. SessionInv /\ Shape /\ HandlerShape
  BY DEF RoutingInv, SessionInv
<1>. RowTypes /\ \A d \in Devices : ServedOf(d)
  BY DEF ServerTypes
<1>0. /\ \A e \in Devices : stage[e] # "none" => session[e] \in {"query", "serving"}
      /\ session \in [Devices -> {"closed", "open", "query", "serving"}]
      /\ handled = [d \in Devices |-> handled[d]]
      /\ stage \in [Devices -> Stages]
  BY DEF RoutingInv, AtWork, Shape, HandlerShape
<1>. DEFINE Served == \A e \in Devices : ServedOf(e)'
<1>1. UNCHANGED <<row, sent>> => RowTypes'
  BY DEF RowTypes
<1>2. ASSUME NEW d \in Devices, NEW b \in Bodies, Request(d, b) PROVE ServerTypes'
  <2>1. ServedOf(d)'
    <3>1. stage'[d] = FirstStage(Effect(b)) /\ handled'[d].effect = Effect(b)
      BY <1>0, <1>2 DEF Request, Post
    <3>. QED
      BY <3>1 DEF ServedOf, FirstStage
  <2>2. ASSUME NEW e \in Devices, e # d PROVE ServedOf(e)'
    BY <1>0, <1>2, <2>2, OthersServed DEF Request, Post
  <2>. QED
    BY <1>1, <1>2, <2>1, <2>2 DEF ServerTypes, Request
<1>3. ASSUME NEW d \in Devices, NEW answered \in BOOLEAN, Resolve(d, answered) PROVE ServerTypes'
  <2>1. ServedOf(d)'
    <3>1. stage'[d] = FirstStage(handled'[d].effect)
      BY <1>0, <1>3 DEF Resolve
    <3>. QED
      BY <3>1 DEF ServedOf, FirstStage
  <2>2. ASSUME NEW e \in Devices, e # d PROVE ServedOf(e)'
    BY <1>0, <1>3, <2>2, OthersServed DEF Resolve, Query
  <2>. QED
    BY <1>1, <1>3, <2>1, <2>2 DEF ServerTypes, Resolve
<1>4. ASSUME NEW d \in Devices, SettleRow(d) PROVE ServerTypes'
  <2>1. Served
    BY <1>0, <1>4 DEF SettleRow, ServedOf, vars
  <2>2. handled[d].effect \in Life!Stored
    BY <1>4 DEF SettleRow, ServedOf, Life!Stored, Life!Settled
  <2>3. RowTypes'
    BY <1>1, <1>4, <2>2 DEF SettleRow, Life!Settle, RowTypes
  <2>. QED
    BY <2>1, <2>3 DEF ServerTypes
<1>5. ASSUME NEW d \in Devices, NEW acknowledged \in BOOLEAN, Dequeue(d, acknowledged)
      PROVE  ServerTypes'
  <2>1. Served
    BY <1>0, <1>5 DEF Dequeue, ServedOf, vars
  <2>2. RowTypes'
    BY <1>1, <1>5 DEF Dequeue, Life!Send, RowTypes, Life!Stored
  <2>. QED
    BY <2>1, <2>2 DEF ServerTypes
<1>6. ASSUME NEW d \in Devices, Deliver(d) PROVE ServerTypes'
  <2>1. Served
    BY <1>0, <1>6 DEF Deliver, Reply, HandlerEnds, ServedOf
  <2>. QED
    BY <1>1, <1>6, <2>1 DEF ServerTypes, Deliver
<1>7. ASSUME NEW d \in Devices, NEW restarts \in BOOLEAN, Disconnect(d, restarts)
      PROVE  ServerTypes'
  <2>1. Served
    BY <1>0, <1>7 DEF Disconnect, Close, HandlerEnds, ServedOf
  <2>. QED
    BY <1>1, <1>7, <2>1 DEF ServerTypes, Disconnect
<1>8. ASSUME NEW d \in Devices, Elsewhere(d) PROVE ServerTypes'
  <2>1. /\ \A e \in Devices : session'[e] = session[e] \/ session'[e] \in {"closed", "open"}
        /\ UNCHANGED <<handled, stage, row, sent>>
    BY <1>0, <1>8 DEF Elsewhere, Inform, Move, MqttReport, handlerVars
  <2>. QED
    BY <1>1, <2>1 DEF ServedOf, ServerTypes
<1>9. ASSUME NEW c \in Commands, QueueCommand(c) PROVE ServerTypes'
  <2>1. RowTypes'
    BY <1>9 DEF QueueCommand, Life!Queue, RowTypes, Life!Stored
  <2>. QED
    BY <1>9, <2>1 DEF QueueCommand, vars, handlerVars, ServedOf, ServerTypes
<1>10. ASSUME NEW d \in Devices, DeleteQueue(d) PROVE ServerTypes'
  <2>1. RowTypes'
    BY <1>10 DEF DeleteQueue, Life!Drop, RowTypes
  <2>. QED
    BY <1>10, <2>1 DEF DeleteQueue, DeleteCpe, handlerVars, ServedOf, ServerTypes
<1>11. ASSUME NEW a \in Addresses, Forget(a) PROVE ServerTypes'
  BY <1>1, <1>11 DEF Forget, Expire, handlerVars, ServedOf, ServerTypes
<1>12. ASSUME WorkerRestart PROVE ServerTypes'
  BY <1>1, <1>12 DEF WorkerRestart, Restart, ServedOf, ServerTypes
<1>13. ASSUME UNCHANGED serverVars PROVE ServerTypes'
  BY <1>1, <1>13 DEF serverVars, vars, handlerVars, ServedOf, ServerTypes
<1>. QED
  BY <1>2, <1>3, <1>4, <1>5, <1>6, <1>7, <1>8, <1>9, <1>10, <1>11, <1>12, <1>13 DEF ServerNext

\* The rows, the handlers and what the devices hold keep their types; a handler is at
\* work exactly while its device has a request in service, through restarts and lost
\* connections; and no row gets a status the table does not know.
THEOREM ServerTypesHold == ServerSpec => []ServerTypeOK
<1>1. ServerInit => ServerTypes
  BY DEF ServerInit, Init, Life!Init, Life!Stored, ServerTypes, RowTypes, ServedOf, NoRequest
<1>2. RoutingInv /\ ServerTypes /\ [ServerNext]_serverVars => ServerTypes'
  BY ServerTypeStep
<1>3. TypeOK /\ RoutingInv /\ ServerTypes => ServerTypeOK
  BY DEF RoutingInv, HandlerShape, AtWork, ServerTypes, RowTypes, ServedOf, ServerTypeOK
<1>4. ServerSpec => []TypeOK
  BY ServerImplementsSession, SessionTypes
<1>. QED
  BY <1>1, <1>2, <1>3, <1>4, RoutingInvariant, PTL DEF ServerSpec

=============================================================================
