-------------------------- MODULE CommandOrderProofs --------------------------
(***************************************************************************)
(* The order of the queue, for every set of commands and handlers: which   *)
(* row a response settles and which row a dequeue takes, as long as no     *)
(* irregularity has happened (see UndisturbedResultIsOwn).                 *)
(***************************************************************************)
EXTENDS CommandQueueProofs

-----------------------------------------------------------------------------
(* The invariant.  Without an irregularity one handler at most works on the rows,
   the one the device waits for; so the row whose answer the device owes is the one
   stamped last of those that are dispatched, and the pick of the settling UPDATE
   finds it.  Rows that lost their reply, a rolled-back settling or a crash left
   behind are dispatched too, but stamped before it: its transaction began later. *)

Serving == {"pick", "write", "select", "locked"}

OneAtATime == \A h \in Handlers : pc[h] \in Serving => waiting = h

StampedRows == \A c \in Commands : status[c] = "dispatched" => Stamped(c)

\* The timestamp of x is earlier than that of y.
Before(x, y) == <<x, y>> \in noLater /\ <<y, x>> \notin noLater

\* The row c is dispatched, the last of those that are.
Latest(c) ==
    /\ c \in Commands /\ status[c] = "dispatched"
    /\ \A d \in Commands \ {c} : status[d] = "dispatched" => Before(d, c)

OpenIsLatest ==
    \A h \in Handlers : pc[h] \in {"select", "locked"} =>
        \A d \in Commands : status[d] = "dispatched" => Before(d, h)

\* The command the device owes an answer for, or is about to get.
OwedIsLatest ==
    /\ waiting = None /\ owes # None => Latest(owes)
    /\ \A h \in Handlers : waiting = h =>
          /\ pc[h] = "reply" /\ cmd[h] # None => Latest(cmd[h])
          /\ pc[h] = "pick" => Latest(answers[h])
          /\ pc[h] = "write" => /\ cmd[h] = answers[h]
                                /\ cmd[h] \in Commands /\ status[cmd[h]] = "dispatched"

OwnResults == \A c \in Commands : result[c] \in {None, c}

Calm ==
    OneAtATime /\ StampedRows /\ OpenIsLatest /\ OwedIsLatest /\ OwnResults

OrderInv == ~disturbed => Calm

-----------------------------------------------------------------------------
(* Timestamps *)

Clocks == Commands \cup Handlers

LEMMA WithoutPairs ==
    ASSUME NEW z, NEW x, NEW y, x # z, y # z
    PROVE  <<x, y>> \in Without(z) <=> <<x, y>> \in noLater
BY DEF Without

LEMMA BeganPairs ==
    ASSUME NEW h \in Handlers
    PROVE  /\ \A x, y \in Clocks \ {h} : <<x, y>> \in Began(h) <=> <<x, y>> \in noLater
           /\ \A x \in Clocks \ {h} : Stamped(x) => <<x, h>> \in Began(h)
           /\ \A x \in Clocks \ {h} : <<h, x>> \notin Began(h)
<1>. DEFINE before == {<<x, h>> : x \in {y \in (Commands \cup Handlers) \ {h} : Stamped(y)}}
<1>1. Began(h) = Without(h) \cup {<<h, h>>} \cup before
  BY DEF Began
<1>2. \A x, y : <<x, y>> \in before <=> y = h /\ x \in Clocks \ {h} /\ Stamped(x)
  BY DEF Clocks
<1>3. \A x : <<h, x>> \notin Without(h)
  BY DEF Without
<1>. HIDE DEF before
<1>4. \A x, y \in Clocks \ {h} : <<x, y>> \in Began(h) <=> <<x, y>> \in noLater
  BY <1>1, <1>2, WithoutPairs
<1>5. \A x \in Clocks \ {h} : Stamped(x) => <<x, h>> \in Began(h)
  BY <1>1, <1>2
<1>6. \A x \in Clocks \ {h} : <<h, x>> \notin Began(h)
  BY <1>1, <1>2, <1>3
<1>. QED
  BY <1>4, <1>5, <1>6

LEMMA StampPairs ==
    ASSUME NEW h \in Handlers, NEW c \in Commands
    PROVE  LET S == StampFrom(h, c) IN
           /\ <<c, c>> \in S
           /\ \A x, y \in Clocks \ {c, h} : <<x, y>> \in S <=> <<x, y>> \in noLater
           /\ \A x \in Clocks \ {c, h} : <<x, c>> \in S <=> <<x, h>> \in noLater
           /\ \A x \in Clocks \ {c, h} : <<c, x>> \in S <=> <<h, x>> \in noLater
<1>. DEFINE S == StampFrom(h, c)
            kept == {p \in Without(c) : p[1] # h /\ p[2] # h}
            before == {<<x, c>> : x \in {y \in (Commands \cup Handlers) \ {c, h} : <<y, h>> \in noLater}}
            after == {<<c, x>> : x \in {y \in (Commands \cup Handlers) \ {c, h} : <<h, y>> \in noLater}}
<1>1. S = kept \cup {<<c, c>>} \cup before \cup after
  BY DEF StampFrom
<1>2. \A x, y : <<x, y>> \in before <=> y = c /\ x \in Clocks \ {c, h} /\ <<x, h>> \in noLater
  BY DEF Clocks
<1>3. \A x, y : <<x, y>> \in after <=> x = c /\ y \in Clocks \ {c, h} /\ <<h, y>> \in noLater
  BY DEF Clocks
<1>4. ASSUME NEW x, NEW y
      PROVE  <<x, y>> \in kept <=> <<x, y>> \in noLater /\ x \notin {c, h} /\ y \notin {c, h}
  <2>1. <<x, y>> \in Without(c) <=> <<x, y>> \in noLater /\ x # c /\ y # c
    BY DEF Without
  <2>2. <<x, y>> \in kept <=> <<x, y>> \in Without(c) /\ x # h /\ y # h
    OBVIOUS
  <2>. QED
    BY <2>1, <2>2
<1>. HIDE DEF kept, before, after, S
<1>5. ASSUME NEW x, NEW y
      PROVE  <<x, y>> \in S <=> \/ <<x, y>> \in kept
                                \/ x = c /\ y = c
                                \/ <<x, y>> \in before
                                \/ <<x, y>> \in after
  <2>1. <<x, y>> \in {<<c, c>>} <=> x = c /\ y = c
    OBVIOUS
  <2>. QED
    BY <1>1, <2>1
<1>6. <<c, c>> \in S
  BY <1>5
<1>7. \A x, y \in Clocks \ {c, h} : <<x, y>> \in S <=> <<x, y>> \in noLater
  BY <1>2, <1>3, <1>4, <1>5
<1>8. \A x \in Clocks \ {c, h} : <<x, c>> \in S <=> <<x, h>> \in noLater
  BY <1>2, <1>3, <1>4, <1>5
<1>9. \A x \in Clocks \ {c, h} : <<c, x>> \in S <=> <<h, x>> \in noLater
  BY <1>2, <1>3, <1>4, <1>5
<1>. QED
  BY <1>6, <1>7, <1>8, <1>9 DEF S

\* The pick of the settling UPDATE finds the row that was stamped last.
LEMMA LatestIsPicked ==
    ASSUME NEW c, Latest(c), NEW x \in Commands, LastDispatched(x), StampedRows
    PROVE  x = c
BY DEF Latest, LastDispatched, SortsFirst, Before, StampedRows

\* The last row stays the last while no other one is dispatched.
LEMMA LatestStays ==
    ASSUME NEW c, Latest(c), status'[c] = "dispatched",
           \A d \in Commands : status'[d] = "dispatched" => status[d] = "dispatched",
           \A d, e \in Commands : status'[d] = "dispatched" /\ status'[e] = "dispatched" =>
               (<<d, e>> \in noLater' <=> <<d, e>> \in noLater)
    PROVE  Latest(c)'
BY DEF Latest, Before

-----------------------------------------------------------------------------
(* Steps of the API *)

DispatchedRows == {d \in Commands : status[d] = "dispatched"}

\* noLater says of the clocks in T what it said before.
OrderKept(T) == \A x, y \in T : <<x, y>> \in noLater' <=> <<x, y>> \in noLater

LEMMA AsideCalm ==
    ASSUME Calm, UNCHANGED <<pc, cmd, answers, waiting, owes>>,
           \A d \in Commands : status'[d] = "dispatched" <=> status[d] = "dispatched",
           OrderKept(Handlers \cup DispatchedRows),
           \A c \in Commands : result'[c] \in {None, result[c]}
    PROVE  Calm'
<1>1. OneAtATime'
  BY DEF Calm, OneAtATime
<1>2. StampedRows'
  BY DEF Calm, StampedRows, Stamped, OrderKept, DispatchedRows
<1>3. OpenIsLatest'
  BY DEF Calm, OpenIsLatest, Before, OrderKept, DispatchedRows
<1>4. ASSUME NEW c, Latest(c) PROVE Latest(c)'
  BY <1>4 DEF Latest, Before, OrderKept, DispatchedRows
<1>5. OwedIsLatest'
  BY <1>4 DEF Calm, OwedIsLatest
<1>6. OwnResults'
  BY DEF Calm, OwnResults
<1>. QED
  BY <1>1, <1>2, <1>3, <1>5, <1>6 DEF Calm

LEMMA ApiCalm ==
    ASSUME TypeOK, Calm, ApiStep, ~disturbed'
    PROVE  Calm'
<1>. USE QueueAssumption DEF TypeOK
<1>0. UNCHANGED <<pc, cmd, answers, waiting, owes>>
  BY DEF ApiStep, EnqueueCommand, RebootDual, PublishSucceeds, PublishRaises, Compensate,
         CompensateFails, PatchRead, PatchWrite, DeleteCpe, RegisterCpe, ApiCrash,
         handlerVars, deviceVars
<1>1. ASSUME NEW c \in Commands, Insert(c) PROVE Calm'
  <2>1. status' = [status EXCEPT ![c] = "pending"] /\ UNCHANGED <<result, noLater>>
    BY <1>1 DEF Insert
  <2>. QED
    BY <1>0, <1>1, <2>1, AsideCalm DEF OrderKept, Insert
<1>2. ASSUME NEW rs \in SUBSET Commands, DeleteRows(rs) PROVE Calm'
  <2>1. \A c \in Commands : c \in rs => status[c] # "dispatched"
    BY <1>2 DEF DeleteRows
  <2>2. \A d \in Commands : status'[d] \in {status[d], "deleted"}
    BY <1>2 DEF DeleteRows
  <2>3. \A d \in Commands : status'[d] = "dispatched" <=> status[d] = "dispatched"
    BY <1>2, <2>1 DEF DeleteRows
  <2>4. ASSUME NEW x \in Handlers \cup DispatchedRows, NEW y \in Handlers \cup DispatchedRows
        PROVE  <<x, y>> \in noLater' <=> <<x, y>> \in noLater
    <3>1. x \notin rs /\ y \notin rs
      BY <1>2, <2>1 DEF DispatchedRows
    <3>. QED
      BY <1>2, <3>1 DEF DeleteRows
  <2>. QED
    BY <1>0, <1>2, <2>2, <2>3, <2>4, AsideCalm DEF OrderKept, DeleteRows
<1>3. ASSUME UNCHANGED <<status, result, noLater>> PROVE Calm'
  BY <1>0, <1>3, AsideCalm DEF OrderKept
<1>4. ASSUME NEW p \in Patchers, PatchWrite(p) PROVE Calm'
  BY <1>3, <1>4 DEF PatchWrite
<1>5. ASSUME NEW c \in Commands, Compensate(c) PROVE Calm'
  BY <1>2, <1>5 DEF Compensate
<1>6. CASE DeleteCpe
  <2>1. {c \in Commands : Exists(c)} \in SUBSET Commands
    OBVIOUS
  <2>. QED
    BY <1>2, <1>6, <2>1 DEF DeleteCpe
<1>. QED
  BY <1>1, <1>3, <1>4, <1>5, <1>6
     DEF ApiStep, EnqueueCommand, RebootDual, PublishSucceeds, PublishRaises,
         CompensateFails, PatchRead, RegisterCpe, ApiCrash, dbVars

-----------------------------------------------------------------------------
(* A handler begins its transaction, or ends it without a dispatch. *)

LEMMA BeginCalm ==
    ASSUME TypeOK, Calm, NEW h \in Handlers, StartDequeue(h), waiting' = h,
           \A g \in Handlers \ {h} : pc[g] \notin Serving,
           \A d \in Commands : status'[d] = "dispatched" => status[d] = "dispatched",
           OwnResults'
    PROVE  Calm'
<1>. USE QueueAssumption DEF TypeOK
<1>1. /\ pc' = [pc EXCEPT ![h] = "select"]
      /\ noLater' = Began(h)
      /\ h \notin Commands
  BY DEF StartDequeue
<1>2. \A g \in Handlers : g # h => pc'[g] \notin Serving
  BY <1>1
<1>3. pc'[h] = "select"
  BY <1>1
<1>4. OneAtATime'
  BY <1>2, <1>3 DEF OneAtATime
<1>5. \A d \in Commands : status'[d] = "dispatched" => d \in Clocks \ {h} /\ Stamped(d)
  BY <1>1 DEF Calm, StampedRows, Clocks
<1>6. StampedRows'
  BY <1>1, <1>5, BeganPairs DEF StampedRows, Stamped
<1>7. \A d \in Commands : status'[d] = "dispatched" => Before(d, h)'
  BY <1>1, <1>5, BeganPairs DEF Before
<1>8. OpenIsLatest'
  BY <1>2, <1>7 DEF OpenIsLatest, Serving
<1>9. OwedIsLatest'
  BY <1>3, QueueAssumption DEF OwedIsLatest
<1>10. OwnResults'
  OBVIOUS
<1>. QED
  BY <1>4, <1>6, <1>8, <1>9, <1>10 DEF Calm

LEMMA EndCalm ==
    ASSUME TypeOK, Calm, NEW h \in Handlers, UNCHANGED <<status, result>>,
           noLater' = Without(h),
           \A g \in Handlers \ {h} :
               pc'[g] = pc[g] /\ cmd'[g] = cmd[g] /\ answers'[g] = answers[g],
           pc'[h] \in {"idle", "reply"}, cmd'[h] = None,
           UNCHANGED <<waiting, owes>>
    PROVE  Calm'
<1>. USE QueueAssumption DEF TypeOK
<1>1. \A x, y \in Clocks \ {h} : <<x, y>> \in noLater' <=> <<x, y>> \in noLater
  BY WithoutPairs
<1>2. \A d \in Commands : d \in Clocks \ {h}
  BY DEF Clocks
<1>3. OneAtATime'
  BY DEF Calm, OneAtATime, Serving
<1>4. StampedRows'
  BY <1>1, <1>2 DEF Calm, StampedRows, Stamped
<1>5. OpenIsLatest'
  BY <1>1, <1>2 DEF Calm, OpenIsLatest, Before, Clocks
<1>6. ASSUME NEW c, Latest(c) PROVE Latest(c)'
  BY <1>1, <1>2, <1>6 DEF Latest, Before
<1>7. OwedIsLatest'
  BY <1>6 DEF Calm, OwedIsLatest
<1>8. OwnResults'
  BY DEF Calm, OwnResults
<1>. QED
  BY <1>3, <1>4, <1>5, <1>7, <1>8 DEF Calm

-----------------------------------------------------------------------------
(* Steps of the handlers *)

LEMMA HandlerCalm ==
    ASSUME TypeOK, SelectionStaysValid, Calm, NEW h \in Handlers, HandlerStep(h)
    PROVE  Calm'
<1>. USE QueueAssumption DEF TypeOK
<1>0. /\ OneAtATime /\ StampedRows /\ OpenIsLatest /\ OwedIsLatest /\ OwnResults
      /\ h \notin Commands
  BY DEF Calm
<1>a. ASSUME pc[h] \in Serving
      PROVE  waiting = h /\ \A g \in Handlers \ {h} : pc[g] \notin Serving
  BY <1>0, <1>a DEF OneAtATime
<1>1. CASE PickRow(h)
  <2>1. pc[h] = "pick" /\ waiting = h /\ Latest(answers[h])
        /\ \A g \in Handlers \ {h} : pc[g] \notin Serving
    BY <1>0, <1>1, <1>a DEF PickRow, Serving, OwedIsLatest
  <2>2. UNCHANGED <<status, result, waiting, owes>>
    BY <1>1 DEF PickRow, deviceVars
  <2>3. PICK c \in Commands : /\ LastDispatched(c)
                              /\ pc' = [pc EXCEPT ![h] = "write"]
                              /\ cmd' = [cmd EXCEPT ![h] = c]
                              /\ UNCHANGED <<answers, noLater>>
    BY <1>1, <2>1 DEF PickRow, Latest
  <2>4. c = answers[h]
    BY <1>0, <2>1, <2>3, LatestIsPicked
  <2>5. \A g \in Handlers \ {h} : pc'[g] = pc[g] /\ cmd'[g] = cmd[g] /\ answers'[g] = answers[g]
    BY <2>3
  <2>6. pc'[h] = "write" /\ cmd'[h] = c /\ answers'[h] = c
    BY <2>3, <2>4
  <2>7. OneAtATime'
    BY <2>1, <2>2, <2>5 DEF OneAtATime
  <2>8. StampedRows' /\ OwnResults'
    BY <1>0, <2>2, <2>3 DEF StampedRows, Stamped, OwnResults
  <2>9. OpenIsLatest'
    BY <2>1, <2>5, <2>6 DEF OpenIsLatest, Serving
  <2>10. OwedIsLatest'
    BY <2>1, <2>2, <2>4, <2>6 DEF OwedIsLatest, Latest
  <2>. QED
    BY <2>7, <2>8, <2>9, <2>10 DEF Calm
<1>2. CASE SettleRow(h)
  <2>1. /\ pc[h] = "write" /\ waiting = h /\ cmd[h] = answers[h] /\ cmd[h] \in Commands
        /\ \A g \in Handlers \ {h} : pc[g] \notin Serving
    BY <1>0, <1>2, <1>a DEF SettleRow, Serving, OwedIsLatest
  <2>2. \A d \in Commands : status'[d] = "dispatched" => status[d] = "dispatched"
    BY <1>2, <2>1 DEF SettleRow, Verdict
  <2>3. OwnResults'
    BY <1>0, <1>2, <2>1 DEF SettleRow, OwnResults
  <2>. QED
    BY <1>2, <2>1, <2>2, <2>3, BeginCalm DEF SettleRow, deviceVars
<1>3. CASE SettleFails(h)
  <2>1. waiting = h /\ \A g \in Handlers \ {h} : pc[g] \notin Serving
    BY <1>3, <1>a DEF SettleFails, Serving
  <2>2. OwnResults'
    BY <1>0, <1>3 DEF SettleFails, OwnResults
  <2>. QED
    BY <1>3, <2>1, <2>2, BeginCalm DEF SettleFails, deviceVars
<1>4. CASE SelectNext(h)
  <2>1. /\ pc[h] = "select" /\ waiting = h
        /\ \A g \in Handlers \ {h} : pc[g] \notin Serving
    BY <1>4, <1>a DEF SelectNext, Serving
  <2>2. UNCHANGED <<status, result, waiting, owes>>
    BY <1>4 DEF SelectNext, deviceVars
  <2>3. CASE ReplyWith(h, None) /\ noLater' = Without(h)
    BY <2>2, <2>3, EndCalm DEF ReplyWith
  <2>4. ASSUME NEW c \in Commands, NextPending(c), pc' = [pc EXCEPT ![h] = "locked"],
               cmd' = [cmd EXCEPT ![h] = c], UNCHANGED <<answers, noLater>>
        PROVE  Calm'
    <3>1. \A g \in Handlers \ {h} : pc'[g] = pc[g] /\ cmd'[g] = cmd[g] /\ answers'[g] = answers[g]
      BY <2>4
    <3>2. pc'[h] = "locked" /\ cmd'[h] = c
      BY <2>4
    <3>3. OneAtATime'
      BY <2>1, <2>2, <3>1 DEF OneAtATime
    <3>4. StampedRows' /\ OwnResults'
      BY <1>0, <2>2, <2>4 DEF StampedRows, Stamped, OwnResults
    <3>5. OpenIsLatest'
      BY <1>0, <2>1, <2>2, <2>4, <3>1 DEF OpenIsLatest, Before, Serving
    <3>6. OwedIsLatest'
      BY <2>1, <2>2, <3>2 DEF OwedIsLatest
    <3>. QED
      BY <3>3, <3>4, <3>5, <3>6 DEF Calm
  <2>. QED
    BY <1>4, <2>3, <2>4 DEF SelectNext
<1>5. ASSUME NEW acknowledged \in BOOLEAN, CommitDispatch(h, acknowledged) PROVE Calm'
  <2>0. /\ pc[h] = "locked" /\ waiting = h /\ cmd[h] \in Commands
        /\ \A g \in Handlers \ {h} : pc[g] \notin Serving
    BY <1>5, <1>a DEF CommitDispatch, Serving, SelectionStaysValid
  <2>1. PICK c \in Commands : c = cmd[h]
    BY <2>0
  <2>2. /\ status' = [status EXCEPT ![c] = "dispatched"] /\ noLater' = StampFrom(h, c)
        /\ UNCHANGED <<result, waiting, owes>>
    BY <1>5, <2>1 DEF CommitDispatch, deviceVars
  <2>3. PICK r \in {c, None} : pc' = [pc EXCEPT ![h] = "reply"] /\ cmd' = [cmd EXCEPT ![h] = r]
    BY <1>5, <2>1 DEF CommitDispatch, ReplyWith
  <2>4. \A g \in Handlers \ {h} : pc'[g] \notin Serving
    BY <2>0, <2>3
  <2>5. pc'[h] = "reply" /\ cmd'[h] = r
    BY <2>3
  <2>6. \A d \in Commands : status[d] = "dispatched" => Before(d, h)
    BY <1>0, <2>0 DEF OpenIsLatest
  <2>7. ASSUME NEW d \in Commands, d # c, status'[d] = "dispatched"
        PROVE  status[d] = "dispatched" /\ d \in Clocks \ {c, h}
    BY <1>0, <2>2, <2>7 DEF Clocks
  <2>8. Latest(c)'
    <3>1. status'[c] = "dispatched"
      BY <2>2
    <3>2. ASSUME NEW d \in Commands, d # c, status'[d] = "dispatched" PROVE Before(d, c)'
      BY <2>2, <2>6, <2>7, <3>2, StampPairs DEF Before
    <3>. QED
      BY <3>1, <3>2 DEF Latest
  <2>9. StampedRows'
    <3>1. ASSUME NEW d \in Commands, d # c, status'[d] = "dispatched" PROVE <<d, d>> \in noLater'
      BY <1>0, <2>2, <2>7, <3>1, StampPairs DEF StampedRows, Stamped
    <3>2. <<c, c>> \in noLater'
      BY <2>2, StampPairs
    <3>. QED
      BY <3>1, <3>2 DEF StampedRows, Stamped
  <2>10. OneAtATime'
    BY <2>4, <2>5 DEF OneAtATime, Serving
  <2>11. OpenIsLatest'
    BY <2>4, <2>5 DEF OpenIsLatest, Serving
  <2>12. OwedIsLatest'
    BY <2>0, <2>2, <2>3, <2>5, <2>8 DEF OwedIsLatest
  <2>13. OwnResults'
    BY <1>0, <2>2 DEF OwnResults
  <2>. QED
    BY <2>8, <2>9, <2>10, <2>11, <2>12, <2>13 DEF Calm
<1>6. CASE DequeueFails(h)
  BY <1>6, EndCalm DEF DequeueFails, ReplyWith, deviceVars
<1>7. CASE Reply(h)
  <2>1. /\ pc[h] = "reply" /\ waiting = h /\ waiting' = None /\ owes' = cmd[h]
        /\ pc' = [pc EXCEPT ![h] = "idle"] /\ cmd' = [cmd EXCEPT ![h] = None]
        /\ UNCHANGED <<status, result, noLater, answers>>
    BY <1>7 DEF Reply, dbVars
  <2>2. \A g \in Handlers : pc[g] \notin Serving
    BY <1>0, <2>1 DEF OneAtATime, Serving
  <2>3. \A g \in Handlers : pc'[g] \notin Serving
    BY <2>1, <2>2 DEF Serving
  <2>4. OneAtATime' /\ OpenIsLatest'
    BY <2>3 DEF OneAtATime, OpenIsLatest, Serving
  <2>5. StampedRows' /\ OwnResults'
    BY <1>0, <2>1 DEF StampedRows, Stamped, OwnResults
  <2>6. cmd[h] # None => Latest(cmd[h])
    BY <1>0, <2>1 DEF OwedIsLatest
  <2>7. OwedIsLatest'
    BY <2>1, <2>6 DEF OwedIsLatest, Latest, Before
  <2>. QED
    BY <2>4, <2>5, <2>7 DEF Calm
<1>8. CASE Cancel(h)
  BY <1>8, EndCalm DEF Cancel, deviceVars
<1>. QED
  BY <1>1, <1>2, <1>3, <1>4, <1>5, <1>6, <1>7, <1>8 DEF HandlerStep

-----------------------------------------------------------------------------
(* Steps of the device, and the crash *)

LEMMA DeviceCalm ==
    ASSUME TypeOK, Calm, DeviceStep, ~disturbed'
    PROVE  Calm'
<1>. USE QueueAssumption DEF TypeOK
<1>0. /\ OneAtATime /\ StampedRows /\ OpenIsLatest /\ OwedIsLatest /\ OwnResults
  BY DEF Calm
<1>a. ASSUME waiting = None PROVE \A g \in Handlers : pc[g] \notin Serving
  BY <1>0, <1>a DEF OneAtATime
<1>1. ASSUME NEW h \in Handlers, EmptyPost(h) PROVE Calm'
  <2>1. \A g \in Handlers \ {h} : pc[g] \notin Serving
    BY <1>1, <1>a DEF EmptyPost
  <2>2. OwnResults'
    BY <1>0, <1>1 DEF EmptyPost, OwnResults
  <2>. QED
    BY <1>1, <2>1, <2>2, BeginCalm DEF EmptyPost
<1>2. ASSUME NEW h \in Handlers, ResponsePost(h) PROVE Calm'
  <2>1. /\ waiting = None /\ owes # None /\ waiting' = h /\ owes \in Commands
        /\ pc' = [pc EXCEPT ![h] = "pick"] /\ answers' = [answers EXCEPT ![h] = owes]
        /\ UNCHANGED <<status, result, noLater, cmd, owes>>
    BY <1>2 DEF ResponsePost, dbVars
  <2>2. \A g \in Handlers \ {h} : pc'[g] \notin Serving
    BY <1>a, <2>1
  <2>3. pc'[h] = "pick" /\ answers'[h] = owes
    BY <2>1
  <2>4. OneAtATime' /\ OpenIsLatest'
    BY <2>1, <2>2, <2>3 DEF OneAtATime, OpenIsLatest, Serving
  <2>5. StampedRows' /\ OwnResults'
    BY <1>0, <2>1 DEF StampedRows, Stamped, OwnResults
  <2>6. Latest(owes)
    BY <1>0, <2>1 DEF OwedIsLatest
  <2>7. OwedIsLatest'
    BY <2>1, <2>3, <2>6 DEF OwedIsLatest, Latest, Before
  <2>. QED
    BY <2>4, <2>5, <2>7 DEF Calm
<1>3. ASSUME NEW repeats \in BOOLEAN, DeviceTimeout(repeats) PROVE Calm'
  <2>1. /\ waiting # None /\ waiting' = None /\ owes' = None
        /\ pc[waiting] \in {"idle", "reply"}
        /\ UNCHANGED <<status, result, noLater, pc, cmd, answers>>
    BY <1>3 DEF DeviceTimeout, dbVars, handlerVars
  <2>2. \A g \in Handlers : pc[g] \notin Serving
    BY <1>0, <2>1 DEF OneAtATime, Serving
  <2>3. OneAtATime' /\ OpenIsLatest'
    BY <2>1, <2>2 DEF OneAtATime, OpenIsLatest, Serving
  <2>4. StampedRows' /\ OwnResults' /\ OwedIsLatest'
    BY <1>0, <2>1 DEF StampedRows, Stamped, OwnResults, OwedIsLatest
  <2>. QED
    BY <2>3, <2>4 DEF Calm
<1>. QED
  BY <1>1, <1>2, <1>3 DEF DeviceStep

LEMMA CrashCalm ==
    ASSUME TypeOK, Calm, WorkerCrash
    PROVE  Calm'
<1>. USE QueueAssumption DEF TypeOK
<1>0. /\ OneAtATime /\ StampedRows /\ OpenIsLatest /\ OwedIsLatest /\ OwnResults
  BY DEF Calm
<1>1. /\ \A h \in Handlers : pc'[h] = "idle"
      /\ UNCHANGED <<status, result, waiting, owes>>
      /\ \A c, d \in Commands : <<c, d>> \in noLater' <=> <<c, d>> \in noLater
  BY DEF WorkerCrash, deviceVars
<1>2. OneAtATime' /\ OpenIsLatest'
  BY <1>1 DEF OneAtATime, OpenIsLatest, Serving
<1>3. StampedRows' /\ OwnResults'
  BY <1>0, <1>1 DEF StampedRows, Stamped, OwnResults
<1>4. OwedIsLatest'
  BY <1>0, <1>1 DEF OwedIsLatest, Latest, Before
<1>. QED
  BY <1>2, <1>3, <1>4 DEF Calm

-----------------------------------------------------------------------------
(* The invariant, and the theorems *)

\* An irregularity stays on record.
LEMMA DisturbedStays ==
    ASSUME [Next]_vars, ~disturbed'
    PROVE  ~disturbed
<1>1. ApiStep => ~disturbed
  BY DEF ApiStep, EnqueueCommand, RebootDual, PublishSucceeds, PublishRaises, Compensate,
         CompensateFails, PatchRead, PatchWrite, DeleteCpe, RegisterCpe, ApiCrash, DeleteRows,
         historyVars
<1>2. \A h \in Handlers : HandlerStep(h) => ~disturbed
  BY DEF HandlerStep, PickRow, SettleRow, SettleFails, SelectNext, CommitDispatch,
         DequeueFails, Reply, Cancel, historyVars
<1>3. WorkerCrash \/ DeviceStep \/ UNCHANGED vars => ~disturbed
  BY DEF WorkerCrash, DeviceStep, EmptyPost, ResponsePost, DeviceTimeout, vars, historyVars
<1>. QED
  BY <1>1, <1>2, <1>3 DEF Next

LEMMA OrderInvariant == Spec => []OrderInv
<1>1. Init => OrderInv
  <2>. SUFFICES ASSUME Init PROVE OrderInv
    OBVIOUS
  <2>1. OneAtATime /\ OpenIsLatest /\ OwnResults
    BY DEF Init, OneAtATime, OpenIsLatest, OwnResults, Serving
  <2>2. StampedRows /\ OwedIsLatest
    BY QueueAssumption DEF Init, StampedRows, OwedIsLatest
  <2>. QED
    BY <2>1, <2>2 DEF OrderInv, Calm
<1>2. ASSUME TypeOK, SelectionStaysValid, OrderInv, [Next]_vars, ~disturbed' PROVE Calm'
  <2>1. Calm
    BY <1>2, DisturbedStays DEF OrderInv
  <2>2. CASE UNCHANGED vars
    BY <2>1, <2>2, AsideCalm DEF vars, dbVars, handlerVars, deviceVars, OrderKept, Calm, OwnResults
  <2>. QED
    BY <1>2, <2>1, <2>2, ApiCalm, HandlerCalm, DeviceCalm, CrashCalm DEF Next
<1>3. TypeOK /\ SelectionStaysValid /\ OrderInv /\ [Next]_vars => OrderInv'
  BY <1>2 DEF OrderInv
<1>. QED
  BY <1>1, <1>3, TypeCorrect, SelectionSafe, PTL DEF Spec

\* As long as nothing irregular has happened the result of a row is the response to that
\* very command, although the handler does not compare the header ID.
THEOREM ResultsAreOwn == Spec => []UndisturbedResultIsOwn
<1>1. OrderInv => UndisturbedResultIsOwn
  BY DEF OrderInv, Calm, OwnResults, UndisturbedResultIsOwn
<1>. QED
  BY <1>1, OrderInvariant, PTL

\* What a step does to a row that is settled.
LEMMA SettledRowStep ==
    ASSUME TypeOK, SelectionStaysValid, Calm, [Next]_vars, ~disturbed',
           NEW c \in Commands, status[c] \in Terminal
    PROVE  status'[c] \in {status[c], "deleted"}
<1>. USE DEF TypeOK
<1>1. ASSUME NEW d \in Commands, Insert(d) PROVE status'[c] = status[c]
  BY <1>1 DEF Insert, Terminal
<1>2. ASSUME NEW rs, DeleteRows(rs) PROVE status'[c] \in {status[c], "deleted"}
  BY <1>2 DEF DeleteRows
<1>3. ASSUME NEW p \in Patchers, PatchWrite(p) PROVE status'[c] = status[c]
  BY <1>3 DEF PatchWrite
<1>4. ASSUME NEW h \in Handlers, SettleRow(h) PROVE status'[c] = status[c]
  <2>1. pc[h] = "write" /\ waiting = h
    BY <1>4 DEF SettleRow, Calm, OneAtATime, Serving
  <2>2. status[cmd[h]] = "dispatched"
    BY <2>1 DEF Calm, OwedIsLatest
  <2>. QED
    BY <1>4, <2>2 DEF SettleRow, Terminal
<1>5. ASSUME NEW h \in Handlers, NEW acknowledged \in BOOLEAN, CommitDispatch(h, acknowledged)
      PROVE  status'[c] = status[c]
  BY <1>5 DEF CommitDispatch, SelectionStaysValid, Terminal
<1>6. CASE ApiStep
  BY <1>1, <1>2, <1>3, <1>6
     DEF ApiStep, EnqueueCommand, RebootDual, PublishSucceeds, PublishRaises, Compensate,
         CompensateFails, PatchRead, DeleteCpe, RegisterCpe, ApiCrash, dbVars
<1>7. ASSUME NEW h \in Handlers, HandlerStep(h) PROVE status'[c] = status[c]
  BY <1>4, <1>5, <1>7
     DEF HandlerStep, PickRow, SettleFails, SelectNext, DequeueFails, Reply, Cancel, dbVars
<1>8. CASE DeviceStep \/ WorkerCrash \/ UNCHANGED vars
  BY <1>8 DEF DeviceStep, EmptyPost, ResponsePost, DeviceTimeout, WorkerCrash, vars, dbVars
<1>. QED
  BY <1>6, <1>7, <1>8 DEF Next

\* Under the same conditions a settled row is never written again: not by a response
\* that comes late, nor by one that answers a command dispatched before or after it.
THEOREM SettledOnce == Spec => UndisturbedSettlesOnce
<1>. DEFINE A == ~disturbed' => \A c \in Commands :
                    status[c] \in Terminal => status'[c] \in {status[c], "deleted"}
<1>1. ASSUME TypeOK, SelectionStaysValid, OrderInv, [Next]_vars PROVE A
  BY <1>1, SettledRowStep, DisturbedStays DEF OrderInv
<1>2. TypeOK /\ SelectionStaysValid /\ OrderInv /\ [Next]_vars => A
  BY <1>1
<1>. QED
  BY <1>2, OrderInvariant, TypeCorrect, SelectionSafe, PTL DEF Spec, UndisturbedSettlesOnce

\* Only the SELECT of a dequeue locks a row.
LEMMA LockStep ==
    ASSUME TypeOK, [Next]_vars, NEW h \in Handlers, pc[h] # "locked", pc'[h] = "locked"
    PROVE  SelectNext(h)
<1>. USE DEF TypeOK
<1>1. ASSUME NEW g \in Handlers, HandlerStep(g) PROVE SelectNext(h)
  <2>1. CASE SelectNext(g)
    <3>1. g = h
      BY <2>1 DEF SelectNext, ReplyWith
    <3>. QED
      BY <2>1, <3>1
  <2>2. CASE ~SelectNext(g)
    BY <1>1, <2>2 DEF HandlerStep, PickRow, SettleRow, SettleFails, CommitDispatch,
         DequeueFails, Reply, Cancel, StartDequeue, ReplyWith
  <2>. QED
    BY <2>1, <2>2
<1>2. ~ApiStep
  BY DEF ApiStep, EnqueueCommand, RebootDual, PublishSucceeds, PublishRaises, Compensate,
         CompensateFails, PatchRead, PatchWrite, DeleteCpe, RegisterCpe, ApiCrash, handlerVars
<1>3. ~(DeviceStep \/ WorkerCrash \/ UNCHANGED vars)
  BY DEF DeviceStep, EmptyPost, ResponsePost, DeviceTimeout, StartDequeue, WorkerCrash, vars, handlerVars
<1>. QED
  BY <1>1, <1>2, <1>3 DEF Next

\* Under the same conditions SKIP LOCKED skips nothing: the row a dequeue takes is the oldest
\* of all that are pending, for every number of commands and of requests in flight.
THEOREM OldestTaken == Spec => UndisturbedTakesOldest
<1>. DEFINE A == ~disturbed =>
                    \A h \in Handlers : pc[h] # "locked" /\ pc'[h] = "locked" =>
                        \A d \in Commands : status[d] = "pending" => cmd'[h] <= d
<1>1. ASSUME TypeOK, OrderInv, [Next]_vars PROVE A
  <2>. SUFFICES ASSUME ~disturbed, NEW h \in Handlers, pc[h] # "locked", pc'[h] = "locked",
                       NEW d \in Commands, status[d] = "pending"
                PROVE  cmd'[h] <= d
    OBVIOUS
  <2>1. SelectNext(h)
    BY <1>1, LockStep
  <2>2. \A g \in Handlers \ {h} : pc[g] # "locked"
    BY <1>1, <2>1 DEF OrderInv, Calm, OneAtATime, Serving, SelectNext
  <2>3. Selectable(d)
    BY <2>2 DEF Selectable, Locked, Holds
  <2>4. PICK c \in Commands : NextPending(c) /\ cmd' = [cmd EXCEPT ![h] = c]
    BY <2>1, <2>3 DEF SelectNext
  <2>. QED
    BY <1>1, <2>3, <2>4 DEF NextPending, TypeOK
<1>2. TypeOK /\ OrderInv /\ [Next]_vars => A
  BY <1>1
<1>. QED
  BY <1>2, OrderInvariant, TypeCorrect, PTL DEF Spec, UndisturbedTakesOldest

=============================================================================
