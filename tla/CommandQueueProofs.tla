------------------------- MODULE CommandQueueProofs -------------------------
(***************************************************************************)
(* Proofs about CommandQueue, for every set of commands, handlers, PATCH   *)
(* requests and every bound on re-queueing.                                *)
(***************************************************************************)
EXTENDS CommandQueue, TLAPS

-----------------------------------------------------------------------------
(* Type correctness.  TypeOK is not inductive by itself: a commit writes the row
   the handler has locked, which has to be a row. *)

LockedIsRow == \A h \in Handlers : pc[h] = "locked" => cmd[h] \in Commands

TypeInv == TypeOK /\ LockedIsRow

LEMMA InitType == Init => TypeOK
<1>. SUFFICES ASSUME Init PROVE TypeOK
  OBVIOUS
<1>. USE DEF Init, TypeOK
<1>1. status \in [Commands -> Status] /\ reboot \in [Commands -> RebootStage]
  BY DEF Status, RebootStage
<1>2. patch \in [Patchers -> Patch \cup {NoPatch}]
  OBVIOUS
<1>3. pc \in [Handlers -> HandlerPc]
  BY DEF HandlerPc
<1>. QED
  BY <1>1, <1>2, <1>3

\* What StartDequeue and ReplyWith do to the handlers' variables.
LEMMA StartDequeueType ==
  ASSUME TypeOK, NEW h \in Handlers, StartDequeue(h)
  PROVE  /\ pc' \in [Handlers -> HandlerPc]
         /\ cmd' \in [Handlers -> Commands \cup {None}]
         /\ answers' \in [Handlers -> Commands \cup {None}]
         /\ noLater' \subseteq (Commands \cup Handlers) \X (Commands \cup Handlers)
BY DEF TypeOK, StartDequeue, Began, Without, HandlerPc

\* Stamping a row keeps noLater a relation on rows and handlers.
LEMMA StampFromType ==
  ASSUME noLater \subseteq (Commands \cup Handlers) \X (Commands \cup Handlers),
         NEW h \in Handlers, NEW c \in Commands
  PROVE  StampFrom(h, c) \subseteq (Commands \cup Handlers) \X (Commands \cup Handlers)
<1>. DEFINE H == Commands \cup Handlers
            kept == {p \in Without(c) : p[1] # h /\ p[2] # h}
            before == {<<x, c>> : x \in {y \in H \ {c, h} : <<y, h>> \in noLater}}
            after == {<<c, x>> : x \in {y \in H \ {c, h} : <<h, y>> \in noLater}}
<1>1. kept \subseteq H \X H
  BY DEF Without
<1>2. before \subseteq H \X H
  <2>1. SUFFICES ASSUME NEW p \in before PROVE p \in H \X H
    OBVIOUS
  <2>2. PICK x \in H : p = <<x, c>>
    OBVIOUS
  <2>. QED
    BY <2>2
<1>3. after \subseteq H \X H
  <2>1. SUFFICES ASSUME NEW p \in after PROVE p \in H \X H
    OBVIOUS
  <2>2. PICK x \in H : p = <<c, x>>
    OBVIOUS
  <2>. QED
    BY <2>2
<1>4. <<c, c>> \in H \X H
  OBVIOUS
<1>5. StampFrom(h, c) = kept \cup {<<c, c>>} \cup before \cup after
  BY DEF StampFrom
<1>. QED
  BY <1>1, <1>2, <1>3, <1>4, <1>5

LEMMA ApiType == TypeOK /\ ApiStep => TypeOK'
<1>. SUFFICES ASSUME TypeOK, ApiStep PROVE TypeOK'
  OBVIOUS
<1>. USE DEF TypeOK, dbVars, apiVars, handlerVars, deviceVars, historyVars,
             Status, ColumnStatus, Terminal, RebootStage
<1>1. ASSUME NEW c \in Commands, EnqueueCommand(c) PROVE TypeOK'
  BY <1>1 DEF EnqueueCommand, Insert
<1>2. ASSUME NEW c \in Commands, RebootDual(c) PROVE TypeOK'
  BY <1>2 DEF RebootDual, Insert
<1>3. ASSUME NEW c \in Commands, PublishSucceeds(c) PROVE TypeOK'
  BY <1>3 DEF PublishSucceeds
<1>4. ASSUME NEW c \in Commands, PublishRaises(c) PROVE TypeOK'
  BY <1>4 DEF PublishRaises
<1>5. ASSUME NEW c \in Commands, Compensate(c) PROVE TypeOK'
  BY <1>5 DEF Compensate, DeleteRows
<1>6. ASSUME NEW c \in Commands, CompensateFails(c) PROVE TypeOK'
  BY <1>6 DEF CompensateFails
<1>7. ASSUME NEW p \in Patchers, NEW c \in Commands, NEW new \in PatchTo, PatchRead(p, c, new)
      PROVE  TypeOK'
  <2>1. new \in ColumnStatus /\ status[c] \in ColumnStatus
    BY <1>7, QueueAssumption DEF PatchRead, Exists
  <2>2. [cmd |-> c, seen |-> status[c], new |-> new] \in Patch
    BY <2>1 DEF Patch
  <2>3. patch' \in [Patchers -> Patch \cup {NoPatch}]
    BY <1>7, <2>2 DEF PatchRead
  <2>. QED
    BY <1>7, <2>3 DEF PatchRead
<1>8. ASSUME NEW p \in Patchers, PatchWrite(p) PROVE TypeOK'
  <2>1. patch[p].new \in Status
    BY <1>8 DEF PatchWrite, Patch
  <2>2. patch' \in [Patchers -> Patch \cup {NoPatch}]
    BY <1>8 DEF PatchWrite
  <2>3. status' \in [Commands -> Status]
    BY <1>8, <2>1 DEF PatchWrite
  <2>4. rewinds' \in [Commands -> Nat]
    BY <1>8 DEF PatchWrite
  <2>5. disturbed' = TRUE \/ disturbed' = disturbed
    BY <1>8, Zenon DEF PatchWrite
  <2>. QED
    BY <1>8, <2>2, <2>3, <2>4, <2>5 DEF PatchWrite
<1>9. CASE DeleteCpe
  BY <1>9 DEF DeleteCpe, DeleteRows, Exists
<1>10. CASE RegisterCpe
  BY <1>10 DEF RegisterCpe
<1>11. CASE ApiCrash
  BY <1>11 DEF ApiCrash
<1>. QED
  BY <1>1, <1>2, <1>3, <1>4, <1>5, <1>6, <1>7, <1>8, <1>9, <1>10, <1>11 DEF ApiStep

LEMMA HandlerType == ASSUME NEW h \in Handlers PROVE TypeInv /\ HandlerStep(h) => TypeOK'
<1>. SUFFICES ASSUME TypeOK, LockedIsRow, HandlerStep(h) PROVE TypeOK'
  BY DEF TypeInv
<1>. USE DEF TypeOK, dbVars, apiVars, handlerVars, deviceVars, historyVars,
             Status, ColumnStatus, Terminal, HandlerPc
<1>1. CASE PickRow(h)
  BY <1>1, StartDequeueType DEF PickRow
<1>2. CASE SettleRow(h)
  BY <1>2, StartDequeueType DEF SettleRow, Verdict
<1>3. CASE SettleFails(h)
  BY <1>3, StartDequeueType DEF SettleFails
<1>4. CASE SelectNext(h)
  BY <1>4 DEF SelectNext, ReplyWith, Without
<1>5. ASSUME NEW acknowledged \in BOOLEAN, CommitDispatch(h, acknowledged) PROVE TypeOK'
  <2>1. cmd[h] \in Commands
    BY <1>5 DEF CommitDispatch, LockedIsRow
  <2>2. status' \in [Commands -> Status]
    BY <1>5, <2>1 DEF CommitDispatch
  <2>3. dispatches' \in [Commands -> Nat]
    BY <1>5, <2>1 DEF CommitDispatch
  <2>4. /\ pc' \in [Handlers -> HandlerPc]
        /\ cmd' \in [Handlers -> Commands \cup {None}]
        /\ answers' = answers
    BY <1>5, <2>1 DEF CommitDispatch, ReplyWith
  <2>5. noLater' \subseteq (Commands \cup Handlers) \X (Commands \cup Handlers)
    BY <1>5, <2>1, StampFromType DEF CommitDispatch
  <2>. QED
    BY <1>5, <2>2, <2>3, <2>4, <2>5 DEF CommitDispatch
<1>6. CASE DequeueFails(h)
  BY <1>6 DEF DequeueFails, ReplyWith, Without
<1>7. CASE Reply(h)
  BY <1>7 DEF Reply
<1>8. CASE Cancel(h)
  BY <1>8 DEF Cancel, Without
<1>. QED
  BY <1>1, <1>2, <1>3, <1>4, <1>5, <1>6, <1>7, <1>8 DEF HandlerStep

LEMMA DeviceType == TypeOK /\ DeviceStep => TypeOK'
<1>. SUFFICES ASSUME TypeOK, DeviceStep PROVE TypeOK'
  OBVIOUS
<1>. USE DEF TypeOK, dbVars, apiVars, handlerVars, deviceVars, historyVars
<1>1. ASSUME NEW h \in Handlers, EmptyPost(h) PROVE TypeOK'
  BY <1>1, StartDequeueType DEF EmptyPost
<1>2. ASSUME NEW h \in Handlers, ResponsePost(h) PROVE TypeOK'
  BY <1>2 DEF ResponsePost, HandlerPc
<1>3. ASSUME NEW repeats \in BOOLEAN, DeviceTimeout(repeats) PROVE TypeOK'
  BY <1>3 DEF DeviceTimeout
<1>. QED
  BY <1>1, <1>2, <1>3 DEF DeviceStep

LEMMA CrashType == TypeOK /\ WorkerCrash => TypeOK'
BY DEF WorkerCrash, TypeOK, HandlerPc, dbVars, apiVars, handlerVars, deviceVars, historyVars

LEMMA NextLockedIsRow == TypeInv /\ [Next]_vars => LockedIsRow'
<1>. SUFFICES ASSUME TypeOK, LockedIsRow, [Next]_vars,
                     NEW g \in Handlers, pc'[g] = "locked"
              PROVE  cmd'[g] \in Commands
  BY DEF TypeInv, LockedIsRow
<1>. USE DEF TypeOK, LockedIsRow, handlerVars
<1>1. CASE UNCHANGED vars \/ ApiStep
  BY <1>1 DEF vars, ApiStep, EnqueueCommand, RebootDual, PublishSucceeds, PublishRaises,
              Compensate, CompensateFails, PatchRead, PatchWrite, DeleteCpe, RegisterCpe, ApiCrash
<1>2. ASSUME NEW h \in Handlers, HandlerStep(h) PROVE cmd'[g] \in Commands
  BY <1>2 DEF HandlerStep, PickRow, SettleRow, SettleFails, SelectNext, CommitDispatch,
              DequeueFails, Reply, Cancel, StartDequeue, ReplyWith
<1>3. CASE WorkerCrash
  BY <1>3 DEF WorkerCrash
<1>4. CASE DeviceStep
  BY <1>4 DEF DeviceStep, EmptyPost, ResponsePost, DeviceTimeout, StartDequeue
<1>. QED
  BY <1>1, <1>2, <1>3, <1>4 DEF Next

LEMMA NextType == TypeInv /\ [Next]_vars => TypeInv'
<1>1. CASE UNCHANGED vars
  BY <1>1 DEF vars, TypeInv, TypeOK, LockedIsRow, dbVars, apiVars, handlerVars, deviceVars, historyVars
<1>. QED
  BY <1>1, ApiType, HandlerType, DeviceType, CrashType, NextLockedIsRow DEF Next, TypeInv

\* The rows, the requests, the handlers and the device keep their types.
THEOREM TypeCorrect == Spec => []TypeOK
<1>1. Init => TypeInv
  BY InitType DEF TypeInv, LockedIsRow, Init
<1>2. TypeInv => TypeOK
  BY DEF TypeInv
<1>. QED
  BY <1>1, <1>2, NextType, PTL DEF Spec

-----------------------------------------------------------------------------
(* The selection of a dequeue stays valid until its UPDATE.  The argument: a row
   changes status only while no transaction holds it, or by the commit of the
   one transaction that does; and a selection takes a row that nobody holds. *)

LEMMA SelectionFrame ==
  ASSUME SelectionStaysValid,
         \A g \in Handlers : pc'[g] = "locked" => pc[g] = "locked" /\ cmd'[g] = cmd[g],
         \A g \in Handlers : pc'[g] = "locked" => status'[cmd[g]] = status[cmd[g]]
  PROVE  SelectionStaysValid'
BY DEF SelectionStaysValid, Holds

LEMMA ApiSelection == TypeOK /\ SelectionStaysValid /\ ApiStep => SelectionStaysValid'
<1>. SUFFICES ASSUME TypeOK, SelectionStaysValid, ApiStep PROVE SelectionStaysValid'
  OBVIOUS
<1>1. pc' = pc /\ cmd' = cmd
  BY DEF ApiStep, EnqueueCommand, RebootDual, PublishSucceeds, PublishRaises, Compensate,
         CompensateFails, PatchRead, PatchWrite, DeleteCpe, RegisterCpe, ApiCrash, handlerVars
<1>2. ASSUME NEW g \in Handlers, pc[g] = "locked" PROVE status'[cmd[g]] = status[cmd[g]]
  <2>1. cmd[g] \in Commands /\ status[cmd[g]] = "pending" /\ Locked(cmd[g])
    BY <1>2 DEF SelectionStaysValid, Locked, Holds
  <2>2. ASSUME NEW c \in Commands, Insert(c) PROVE status'[cmd[g]] = status[cmd[g]]
    BY <2>1, <2>2 DEF Insert, TypeOK
  <2>3. ASSUME NEW c \in Commands, Compensate(c) PROVE status'[cmd[g]] = status[cmd[g]]
    BY <2>1, <2>3 DEF Compensate, DeleteRows, TypeOK
  <2>4. ASSUME NEW p \in Patchers, PatchWrite(p) PROVE status'[cmd[g]] = status[cmd[g]]
    BY <2>1, <2>4 DEF PatchWrite, TypeOK
  <2>5. CASE DeleteCpe
    BY <2>1, <2>5 DEF DeleteCpe
  <2>. QED
    BY <2>2, <2>3, <2>4, <2>5
       DEF ApiStep, EnqueueCommand, RebootDual, PublishSucceeds, PublishRaises,
           CompensateFails, PatchRead, RegisterCpe, ApiCrash, dbVars
<1>. QED
  BY <1>1, <1>2, SelectionFrame

LEMMA HandlerSelection ==
  ASSUME NEW h \in Handlers
  PROVE  TypeOK /\ SelectionStaysValid /\ HandlerStep(h) => SelectionStaysValid'
<1>. SUFFICES ASSUME TypeOK, SelectionStaysValid, HandlerStep(h) PROVE SelectionStaysValid'
  OBVIOUS
<1>1. CASE PickRow(h) \/ SettleFails(h) \/ DequeueFails(h) \/ Reply(h) \/ Cancel(h)
  <2>1. status' = status
    BY <1>1 DEF PickRow, SettleFails, DequeueFails, Reply, Cancel, dbVars
  <2>2. \A g \in Handlers : pc'[g] = "locked" => pc[g] = "locked" /\ cmd'[g] = cmd[g]
    BY <1>1 DEF PickRow, SettleFails, DequeueFails, Reply, Cancel, StartDequeue, ReplyWith, TypeOK
  <2>. QED
    BY <2>1, <2>2, SelectionFrame
<1>2. CASE SettleRow(h)
  <2>1. \A g \in Handlers : pc'[g] = "locked" => pc[g] = "locked" /\ cmd'[g] = cmd[g]
    BY <1>2 DEF SettleRow, StartDequeue, TypeOK
  <2>2. ASSUME NEW g \in Handlers, pc'[g] = "locked" PROVE status'[cmd[g]] = status[cmd[g]]
    <3>1. cmd[g] \in Commands /\ Locked(cmd[g])
      BY <2>1, <2>2 DEF SelectionStaysValid, Locked, Holds
    <3>. QED
      BY <1>2, <3>1 DEF SettleRow, TypeOK
  <2>. QED
    BY <2>1, <2>2, SelectionFrame
<1>3. CASE SelectNext(h)
  <2>1. ASSUME NEW c \in Commands, NextPending(c),
               pc' = [pc EXCEPT ![h] = "locked"], cmd' = [cmd EXCEPT ![h] = c]
        PROVE  SelectionStaysValid'
    <3>1. status[c] = "pending" /\ \A g \in Handlers : ~Holds(g, c)
      BY <2>1 DEF NextPending, Selectable, Locked
    <3>2. status' = status
      BY <1>3 DEF SelectNext
    <3>. QED
      BY <2>1, <3>1, <3>2 DEF SelectionStaysValid, Holds, TypeOK
  <2>2. ASSUME ReplyWith(h, None) PROVE SelectionStaysValid'
    <3>1. status' = status
      BY <1>3 DEF SelectNext
    <3>2. \A g \in Handlers : pc'[g] = "locked" => pc[g] = "locked" /\ cmd'[g] = cmd[g]
      BY <2>2 DEF ReplyWith, TypeOK
    <3>. QED
      BY <3>1, <3>2, SelectionFrame
  <2>. QED
    BY <1>3, <2>1, <2>2 DEF SelectNext
<1>4. ASSUME NEW acknowledged \in BOOLEAN, CommitDispatch(h, acknowledged)
      PROVE  SelectionStaysValid'
  <2>1. \A g \in Handlers : pc'[g] = "locked" => g # h /\ pc[g] = "locked" /\ cmd'[g] = cmd[g]
    BY <1>4 DEF CommitDispatch, ReplyWith, TypeOK
  <2>2. ASSUME NEW g \in Handlers, pc'[g] = "locked" PROVE status'[cmd[g]] = status[cmd[g]]
    <3>1. cmd[g] \in Commands /\ cmd[h] \in Commands /\ cmd[g] # cmd[h]
      BY <1>4, <2>1, <2>2 DEF CommitDispatch, SelectionStaysValid, Holds
    <3>. QED
      BY <1>4, <3>1 DEF CommitDispatch, TypeOK
  <2>. QED
    BY <2>1, <2>2, SelectionFrame
<1>. QED
  BY <1>1, <1>2, <1>3, <1>4 DEF HandlerStep

LEMMA NextSelection == TypeOK /\ SelectionStaysValid /\ [Next]_vars => SelectionStaysValid'
<1>. SUFFICES ASSUME TypeOK, SelectionStaysValid, [Next]_vars PROVE SelectionStaysValid'
  OBVIOUS
<1>1. CASE DeviceStep \/ WorkerCrash
  <2>1. status' = status
    BY <1>1 DEF DeviceStep, EmptyPost, ResponsePost, DeviceTimeout, WorkerCrash, dbVars
  <2>2. \A g \in Handlers : pc'[g] = "locked" => pc[g] = "locked" /\ cmd'[g] = cmd[g]
    BY <1>1 DEF DeviceStep, EmptyPost, ResponsePost, DeviceTimeout, WorkerCrash, StartDequeue,
                handlerVars, TypeOK
  <2>. QED
    BY <2>1, <2>2, SelectionFrame
<1>2. CASE UNCHANGED vars
  BY <1>2 DEF vars, dbVars, handlerVars, SelectionStaysValid, Holds
<1>. QED
  BY <1>1, <1>2, ApiSelection, HandlerSelection DEF Next

\* From the SELECT ... FOR UPDATE to the UPDATE of a dequeue the selected row is
\* pending and no other handler has selected it.
THEOREM SelectionSafe == Spec => []SelectionStaysValid
<1>1. Init => SelectionStaysValid
  BY DEF Init, SelectionStaysValid
<1>. QED
  BY <1>1, TypeCorrect, NextSelection, PTL DEF Spec

-----------------------------------------------------------------------------
(* One dispatch per queueing.  DispatchedOncePerQueueing is not inductive: a
   dispatch is allowed because the row is pending, so a pending row (and one that
   is yet to be inserted) must still have a dispatch to spend. *)

ToSpend(c) == IF status[c] \in {"absent", "pending"} THEN 1 ELSE 0

DispatchBudget == \A c \in Commands : dispatches[c] + ToSpend(c) <= 1 + rewinds[c]

LEMMA ApiBudget == TypeOK /\ DispatchBudget /\ ApiStep => DispatchBudget'
<1>. SUFFICES ASSUME TypeOK, DispatchBudget, ApiStep, NEW d \in Commands
              PROVE  dispatches'[d] + ToSpend(d)' <= 1 + rewinds'[d]
  BY DEF DispatchBudget
<1>. dispatches[d] \in Nat /\ rewinds[d] \in Nat /\ status[d] \in Status
  BY DEF TypeOK
<1>0. dispatches[d] + ToSpend(d) <= 1 + rewinds[d]
  BY DEF DispatchBudget
<1>. dispatches' = dispatches
  BY DEF ApiStep, EnqueueCommand, RebootDual, PublishSucceeds, PublishRaises, Compensate,
         CompensateFails, PatchRead, PatchWrite, DeleteCpe, RegisterCpe, ApiCrash, historyVars
<1>1. ASSUME NEW p \in Patchers, PatchWrite(p)
      PROVE  dispatches'[d] + ToSpend(d)' <= 1 + rewinds'[d]
  <2>1. CASE status'[d] = status[d] /\ rewinds'[d] = rewinds[d]
    BY <1>0, <2>1 DEF ToSpend
  <2>2. CASE patch[p].cmd = d /\ Exists(d) /\ status'[d] = patch[p].new
    <3>1. rewinds'[d] = IF patch[p].new = "pending" /\ status[d] # "pending"
                        THEN rewinds[d] + 1 ELSE rewinds[d]
      BY <1>1, <2>2 DEF PatchWrite, TypeOK
    <3>2. patch[p].new \in ColumnStatus /\ status[d] \in ColumnStatus
      BY <1>1, <2>2 DEF PatchWrite, TypeOK, Patch, Exists
    <3>. QED
      BY <1>0, <2>2, <3>1, <3>2 DEF ToSpend, ColumnStatus, Terminal
  <2>. QED
    BY <1>1, <2>1, <2>2 DEF PatchWrite, TypeOK
<1>2. ASSUME NEW c \in Commands, Insert(c), rewinds' = rewinds
      PROVE  dispatches'[d] + ToSpend(d)' <= 1 + rewinds'[d]
  BY <1>0, <1>2 DEF Insert, ToSpend, TypeOK
<1>3. ASSUME status' = status, rewinds' = rewinds
      PROVE  dispatches'[d] + ToSpend(d)' <= 1 + rewinds'[d]
  BY <1>0, <1>3 DEF ToSpend
<1>4. ASSUME NEW c \in Commands, Compensate(c)
      PROVE  dispatches'[d] + ToSpend(d)' <= 1 + rewinds'[d]
  BY <1>0, <1>4 DEF Compensate, DeleteRows, ToSpend, TypeOK
<1>5. CASE DeleteCpe
  BY <1>0, <1>5 DEF DeleteCpe, DeleteRows, ToSpend, TypeOK
<1>. QED
  BY <1>1, <1>2, <1>3, <1>4, <1>5
     DEF ApiStep, EnqueueCommand, RebootDual, PublishSucceeds, PublishRaises, CompensateFails,
         PatchRead, RegisterCpe, ApiCrash, dbVars, historyVars

LEMMA HandlerBudget ==
  ASSUME NEW h \in Handlers
  PROVE  TypeOK /\ SelectionStaysValid /\ DispatchBudget /\ HandlerStep(h) => DispatchBudget'
<1>. SUFFICES ASSUME TypeOK, SelectionStaysValid, DispatchBudget, HandlerStep(h), NEW d \in Commands
              PROVE  dispatches'[d] + ToSpend(d)' <= 1 + rewinds'[d]
  BY DEF DispatchBudget
<1>. dispatches[d] \in Nat /\ rewinds[d] \in Nat /\ status[d] \in Status
  BY DEF TypeOK
<1>0. dispatches[d] + ToSpend(d) <= 1 + rewinds[d]
  BY DEF DispatchBudget
<1>1. ASSUME NEW acknowledged \in BOOLEAN, CommitDispatch(h, acknowledged)
      PROVE  dispatches'[d] + ToSpend(d)' <= 1 + rewinds'[d]
  <2>1. cmd[h] \in Commands /\ status[cmd[h]] = "pending" /\ rewinds' = rewinds
    BY <1>1 DEF CommitDispatch, SelectionStaysValid
  <2>2. CASE cmd[h] = d
    BY <1>0, <1>1, <2>1, <2>2 DEF CommitDispatch, ToSpend, TypeOK
  <2>3. CASE cmd[h] # d
    BY <1>0, <1>1, <2>1, <2>3 DEF CommitDispatch, ToSpend, TypeOK
  <2>. QED
    BY <2>2, <2>3
<1>2. CASE SettleRow(h)
  <2>1. status'[d] = status[d] \/ status'[d] \in Terminal
    BY <1>2 DEF SettleRow, Verdict, TypeOK, Terminal
  <2>2. dispatches' = dispatches /\ rewinds' = rewinds
    BY <1>2 DEF SettleRow, historyVars
  <2>. QED
    BY <1>0, <2>1, <2>2 DEF ToSpend, Terminal
<1>3. CASE PickRow(h) \/ SettleFails(h) \/ SelectNext(h) \/ DequeueFails(h) \/ Reply(h) \/ Cancel(h)
  <2>1. status' = status /\ dispatches' = dispatches /\ rewinds' = rewinds
    BY <1>3 DEF PickRow, SettleFails, SelectNext, DequeueFails, Reply, Cancel, dbVars, historyVars
  <2>. QED
    BY <1>0, <2>1 DEF ToSpend
<1>. QED
  BY <1>1, <1>2, <1>3 DEF HandlerStep

LEMMA NextBudget ==
  TypeOK /\ SelectionStaysValid /\ DispatchBudget /\ [Next]_vars => DispatchBudget'
<1>. SUFFICES ASSUME TypeOK, SelectionStaysValid, DispatchBudget, [Next]_vars PROVE DispatchBudget'
  OBVIOUS
<1>1. CASE DeviceStep \/ WorkerCrash \/ UNCHANGED vars
  <2>1. status' = status /\ dispatches' = dispatches /\ rewinds' = rewinds
    BY <1>1 DEF DeviceStep, EmptyPost, ResponsePost, DeviceTimeout, WorkerCrash,
                vars, dbVars, historyVars
  <2>. QED
    BY <2>1 DEF DispatchBudget, ToSpend
<1>. QED
  BY <1>1, ApiBudget, HandlerBudget DEF Next

\* Concurrent sessions dispatch a command once per queueing.
THEOREM DispatchedOnce == Spec => []DispatchedOncePerQueueing
<1>1. Init => DispatchBudget
  BY DEF Init, DispatchBudget, ToSpend
<1>2. TypeOK /\ DispatchBudget => DispatchedOncePerQueueing
  BY DEF TypeOK, DispatchBudget, ToSpend, DispatchedOncePerQueueing
<1>. QED
  BY <1>1, <1>2, TypeCorrect, SelectionSafe, NextBudget, PTL DEF Spec

-----------------------------------------------------------------------------
(* How a row changes.  Both remaining results follow from one fact about a step:
   a row that is deleted stays deleted, and a row leaves a terminal status for
   pending or dispatched only in PatchWrite. *)

RowStep(c) ==
    \/ status'[c] = status[c]
    \/ status[c] # "deleted" /\ (status[c] \in Terminal => status'[c] \in Terminal \cup {"deleted"})
    \/ \E p \in Patchers :
          /\ patch[p] # NoPatch
          /\ patch[p].cmd = c
          /\ patch'[p] = NoPatch
          /\ status[c] # "deleted"

LEMMA NextRowStep ==
  TypeOK /\ SelectionStaysValid /\ [Next]_vars => \A c \in Commands : RowStep(c)
<1>. SUFFICES ASSUME TypeOK, SelectionStaysValid, [Next]_vars, NEW d \in Commands PROVE RowStep(d)
  OBVIOUS
<1>. USE DEF TypeOK
<1>1. ASSUME NEW c \in Commands, Insert(c) PROVE RowStep(d)
  BY <1>1 DEF Insert, RowStep, Terminal
<1>2. ASSUME NEW rs, DeleteRows(rs) PROVE RowStep(d)
  <2>1. status'[d] \in {status[d], "deleted"}
    BY <1>2 DEF DeleteRows
  <2>. QED
    BY <2>1 DEF RowStep
<1>3. ASSUME NEW p \in Patchers, PatchWrite(p) PROVE RowStep(d)
  <2>1. CASE status'[d] = status[d]
    BY <2>1 DEF RowStep
  <2>2. CASE patch[p].cmd = d /\ Exists(d)
    <3>1. patch[p] # NoPatch /\ patch'[p] = NoPatch /\ status[d] # "deleted"
      BY <1>3, <2>2 DEF PatchWrite, Exists, ColumnStatus, Terminal
    <3>. QED
      BY <2>2, <3>1 DEF RowStep
  <2>. QED
    BY <1>3, <2>1, <2>2 DEF PatchWrite
<1>4. ASSUME NEW h \in Handlers, SettleRow(h) PROVE RowStep(d)
  <2>1. CASE status'[d] = status[d]
    BY <2>1 DEF RowStep
  <2>2. CASE Exists(d) /\ status'[d] \in Terminal
    BY <2>2 DEF RowStep, Exists, ColumnStatus, Terminal
  <2>. QED
    BY <1>4, <2>1, <2>2 DEF SettleRow, Verdict, Terminal
<1>5. ASSUME NEW h \in Handlers, NEW acknowledged \in BOOLEAN, CommitDispatch(h, acknowledged)
      PROVE  RowStep(d)
  <2>1. cmd[h] \in Commands /\ status[cmd[h]] = "pending"
    BY <1>5 DEF CommitDispatch, SelectionStaysValid
  <2>2. CASE cmd[h] = d
    BY <2>1, <2>2 DEF RowStep, Terminal
  <2>3. CASE cmd[h] # d
    BY <1>5, <2>1, <2>3 DEF CommitDispatch, RowStep
  <2>. QED
    BY <2>2, <2>3
<1>6. CASE status' = status
  BY <1>6 DEF RowStep
<1>7. CASE ApiStep
  BY <1>1, <1>2, <1>3, <1>6, <1>7
     DEF ApiStep, EnqueueCommand, RebootDual, PublishSucceeds, PublishRaises, Compensate,
         CompensateFails, PatchRead, DeleteCpe, RegisterCpe, ApiCrash, dbVars
<1>8. ASSUME NEW h \in Handlers, HandlerStep(h) PROVE RowStep(d)
  BY <1>4, <1>5, <1>6, <1>8
     DEF HandlerStep, PickRow, SettleFails, SelectNext, DequeueFails, Reply, Cancel, dbVars
<1>9. CASE DeviceStep \/ WorkerCrash \/ UNCHANGED vars
  BY <1>6, <1>9 DEF DeviceStep, EmptyPost, ResponsePost, DeviceTimeout, WorkerCrash, vars, dbVars
<1>. QED
  BY <1>7, <1>8, <1>9 DEF Next

\* A dual reboot that was answered 503 has no row left, and none comes back.
THEOREM RefusedRebootRemoved == Spec => []RefusedRebootHasNoRow
<1>1. Init => RefusedRebootHasNoRow
  BY DEF Init, RefusedRebootHasNoRow
<1>2. TypeOK /\ SelectionStaysValid /\ RefusedRebootHasNoRow /\ [Next]_vars => RefusedRebootHasNoRow'
  <2>. SUFFICES ASSUME TypeOK, SelectionStaysValid, RefusedRebootHasNoRow, [Next]_vars,
                       NEW d \in Commands, reboot'[d] = "refused"
                PROVE  status'[d] = "deleted"
    BY DEF RefusedRebootHasNoRow
  <2>1. CASE reboot[d] = "refused"
    <3>1. status[d] = "deleted"
      BY <2>1 DEF RefusedRebootHasNoRow
    <3>. QED
      BY <3>1, NextRowStep DEF RowStep
  <2>2. CASE reboot[d] # "refused"
    <3>1. Compensate(d)
      <4>1. ApiStep
        BY <2>2 DEF Next, HandlerStep, PickRow, SettleRow, SettleFails, SelectNext, CommitDispatch,
                    DequeueFails, Reply, Cancel, WorkerCrash, DeviceStep, EmptyPost, ResponsePost,
                    DeviceTimeout, vars, apiVars
      <4>. QED
        BY <2>2, <4>1
           DEF ApiStep, EnqueueCommand, RebootDual, PublishSucceeds, PublishRaises, Compensate,
               CompensateFails, PatchRead, PatchWrite, DeleteCpe, RegisterCpe, ApiCrash, apiVars, TypeOK
    <3>. QED
      BY <3>1 DEF Compensate, DeleteRows, TypeOK
  <2>. QED
    BY <2>1, <2>2
<1>. QED
  BY <1>1, <1>2, TypeCorrect, SelectionSafe, PTL DEF Spec

-----------------------------------------------------------------------------
(* A PATCH in flight has read a row that was not settled: its transition check
   rejects every change of a settled row. *)

PatchReadOpenRow == \A p \in Patchers : patch[p] # NoPatch => patch[p].seen \notin Terminal

LEMMA NextPatchReadOpenRow == TypeOK /\ PatchReadOpenRow /\ [Next]_vars => PatchReadOpenRow'
<1>. SUFFICES ASSUME TypeOK, PatchReadOpenRow, [Next]_vars, NEW q \in Patchers,
                     patch'[q] # NoPatch, patch'[q] # patch[q]
              PROVE  patch'[q].seen \notin Terminal
  BY DEF PatchReadOpenRow
<1>1. PICK p \in Patchers, c \in Commands, new \in PatchTo : PatchRead(p, c, new)
  <2>1. ApiStep
    BY DEF Next, HandlerStep, PickRow, SettleRow, SettleFails, SelectNext, CommitDispatch,
           DequeueFails, Reply, Cancel, WorkerCrash, DeviceStep, EmptyPost, ResponsePost,
           DeviceTimeout, vars, apiVars
  <2>. QED
    BY <2>1
       DEF ApiStep, EnqueueCommand, RebootDual, PublishSucceeds, PublishRaises, Compensate,
           CompensateFails, PatchWrite, DeleteCpe, RegisterCpe, ApiCrash, apiVars, TypeOK
<1>2. status[c] \notin Terminal
  BY <1>1 DEF PatchRead
<1>. QED
  BY <1>1, <1>2 DEF PatchRead, TypeOK

\* A settled row goes back to pending or dispatched only by a PATCH that had read
\* it before it was settled: neither the worker nor another API request does it.
THEOREM RewindNeedsStalePatch == Spec => OnlyStalePatchRewinds
<1>. DEFINE A == \A c \in Commands :
                    status[c] \in Terminal /\ status'[c] \in {"pending", "dispatched"} =>
                        \E p \in Patchers :
                            /\ patch[p].cmd = c
                            /\ patch[p].seen \notin Terminal
                            /\ patch'[p] = NoPatch
<1>1. Init => PatchReadOpenRow
  BY DEF Init, PatchReadOpenRow
<1>2. TypeOK /\ SelectionStaysValid /\ PatchReadOpenRow /\ [Next]_vars => A
  <2>. SUFFICES ASSUME TypeOK, SelectionStaysValid, PatchReadOpenRow, [Next]_vars, NEW c \in Commands,
                       status[c] \in Terminal, status'[c] \in {"pending", "dispatched"}
                PROVE  \E p \in Patchers :
                            /\ patch[p].cmd = c
                            /\ patch[p].seen \notin Terminal
                            /\ patch'[p] = NoPatch
    OBVIOUS
  <2>1. RowStep(c)
    BY NextRowStep
  <2>2. status'[c] # status[c] /\ status'[c] \notin Terminal \cup {"deleted"}
    BY DEF Terminal
  <2>3. PICK p \in Patchers : patch[p] # NoPatch /\ patch[p].cmd = c /\ patch'[p] = NoPatch
    BY <2>1, <2>2 DEF RowStep
  <2>. QED
    BY <2>3 DEF PatchReadOpenRow
<1>. QED
  BY <1>1, <1>2, TypeCorrect, SelectionSafe, NextPatchReadOpenRow, PTL DEF Spec, OnlyStalePatchRewinds

-----------------------------------------------------------------------------
(* The refinement.  A dequeue is the step Send of CommandLife when it commits: its
   row is pending then because the selection is still valid.  A settling response
   and a PATCH take effect at their write, when the row exists; every other step
   leaves the rows alone. *)

LEMMA NextIsLife == TypeOK /\ SelectionStaysValid /\ [Next]_vars => [Life!Next]_(Life!vars)
<1>. SUFFICES ASSUME TypeOK, SelectionStaysValid, [Next]_vars PROVE [Life!Next]_(Life!vars)
  OBVIOUS
<1>. USE DEF TypeOK, Life!vars
<1>1. ASSUME NEW c \in Commands, EnqueueCommand(c) \/ RebootDual(c) PROVE Life!Next
  <2>1. Life!Queue(c)
    BY <1>1 DEF EnqueueCommand, RebootDual, Insert, historyVars, Life!Queue
  <2>. QED
    BY <2>1 DEF Life!Next
<1>2. ASSUME NEW rs \in SUBSET Commands, DeleteRows(rs), UNCHANGED <<dispatches, rewinds>>
      PROVE  Life!Next
  <2>1. Life!Drop(rs)
    BY <1>2 DEF DeleteRows, Life!Drop
  <2>. QED
    BY <2>1 DEF Life!Next
<1>3. ASSUME NEW p \in Patchers, PatchWrite(p) PROVE [Life!Next]_(Life!vars)
  <2>1. CASE UNCHANGED <<status, rewinds>>
    BY <1>3, <2>1 DEF PatchWrite
  <2>2. CASE ~UNCHANGED <<status, rewinds>>
    <3>. DEFINE c == patch[p].cmd
                new == patch[p].new
    <3>1. c \in Commands /\ new \in ColumnStatus
      BY <1>3 DEF PatchWrite, Patch
    <3>2. /\ Exists(c)
          /\ status' = [status EXCEPT ![c] = new]
          /\ rewinds' = IF new = "pending" /\ status[c] # "pending"
                        THEN [rewinds EXCEPT ![c] = @ + 1] ELSE rewinds
          /\ dispatches' = dispatches
      BY <1>3, <2>2 DEF PatchWrite
    <3>3. rewinds' = [rewinds EXCEPT ![c] = IF new = "pending" /\ status[c] # "pending"
                                            THEN @ + 1 ELSE @]
      BY <3>2
    <3>4. Life!Rewrite(c, new)
      BY <3>2, <3>3 DEF Life!Rewrite, Exists, ColumnStatus, Terminal, Life!Stored, Life!Settled
    <3>. QED
      BY <3>1, <3>4 DEF Life!Next, ColumnStatus, Terminal, Life!Stored, Life!Settled
  <2>. QED
    BY <2>1, <2>2
<1>4. ASSUME NEW h \in Handlers, SettleRow(h) PROVE [Life!Next]_(Life!vars)
  <2>1. UNCHANGED <<dispatches, rewinds>>
    BY <1>4 DEF SettleRow, historyVars
  <2>2. CASE status' = status
    BY <2>1, <2>2
  <2>3. CASE status' # status
    <3>. DEFINE verdict == Verdict(answers[h])
    <3>1. Exists(cmd[h]) /\ status' = [status EXCEPT ![cmd[h]] = verdict]
      BY <1>4, <2>3 DEF SettleRow
    <3>2. cmd[h] \in Commands
      BY <2>3, <3>1
    <3>3. Life!Settle(cmd[h], verdict)
      BY <2>1, <3>1 DEF Life!Settle, Exists, ColumnStatus, Terminal, Life!Stored, Life!Settled
    <3>4. verdict \in Life!Settled
      BY DEF Verdict, Life!Settled
    <3>. QED
      BY <3>2, <3>3, <3>4 DEF Life!Next
  <2>. QED
    BY <2>2, <2>3
<1>5. ASSUME NEW h \in Handlers, NEW acknowledged \in BOOLEAN, CommitDispatch(h, acknowledged)
      PROVE  Life!Next
  <2>1. cmd[h] \in Commands /\ status[cmd[h]] = "pending"
    BY <1>5 DEF CommitDispatch, SelectionStaysValid
  <2>2. Life!Send(cmd[h])
    BY <1>5, <2>1 DEF CommitDispatch, Life!Send
  <2>. QED
    BY <2>1, <2>2 DEF Life!Next
<1>6. ASSUME UNCHANGED <<status, dispatches, rewinds>> PROVE [Life!Next]_(Life!vars)
  BY <1>6
<1>7. CASE ApiStep
  <2>1. ASSUME NEW c \in Commands, Compensate(c) PROVE Life!Next
    BY <1>2, <2>1 DEF Compensate
  <2>2. CASE DeleteCpe
    BY <1>2, <2>2 DEF DeleteCpe
  <2>. QED
    BY <1>1, <1>3, <1>6, <1>7, <2>1, <2>2
       DEF ApiStep, PublishSucceeds, PublishRaises, CompensateFails, PatchRead, RegisterCpe,
           ApiCrash, dbVars, historyVars
<1>8. ASSUME NEW h \in Handlers, HandlerStep(h) PROVE [Life!Next]_(Life!vars)
  BY <1>4, <1>5, <1>6, <1>8
     DEF HandlerStep, PickRow, SettleFails, SelectNext, DequeueFails, Reply, Cancel,
         dbVars, historyVars
<1>9. CASE DeviceStep \/ WorkerCrash \/ UNCHANGED vars
  BY <1>6, <1>9 DEF DeviceStep, EmptyPost, ResponsePost, DeviceTimeout, WorkerCrash,
                    vars, dbVars, historyVars
<1>. QED
  BY <1>7, <1>8, <1>9 DEF Next

\* The queue implements CommandLife: the statements of concurrent dequeues,
\* responses and PATCHes look like indivisible operations on the rows.
THEOREM QueueImplementsLife == Spec => LifeSpec
<1>1. Init => Life!Init
  BY DEF Init, Life!Init
<1>2. QED
  BY <1>1, NextIsLife, TypeCorrect, SelectionSafe, PTL DEF Spec, LifeSpec, Life!Spec

=============================================================================
