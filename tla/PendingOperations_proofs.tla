---------------------- MODULE PendingOperations_proofs ----------------------
(***************************************************************************)
(* Theorems about PendingOperations, for every value of its constants: the *)
(* queue and its messages, then what the replay of operations does to the  *)
(* server.  It touches the message of the operation only, loses no mail,   *)
(* duplicates none with MOVE, and reports a source it could not remove.    *)
(* Without a recovery that fails, no two loops hold one operation, and the *)
(* queue implements DurableQueue.                                          *)
(* Last, for a loop that is not replaced, first attempts that succeed are  *)
(* replayed in the order they were queued.                                 *)
(***************************************************************************)
EXTENDS PendingOperations, FiniteSetTheorems, TLAPS

-----------------------------------------------------------------------------
(* Type correctness *)

Holding == {"claimed", "select", "store_flag", "copy", "move",
            "mark_deleted", "expunge", "completing", "failing"}

\* What a loop has in hand is an operation of the table, of a kind the
\* command it is at belongs to.
HeldIsStored ==
    \A g \in Generations : worker[g].pc \in Holding =>
        /\ worker[g].op \in OpIds
        /\ ops[worker[g].op] \in Operation
        /\ worker[g].pc \in {"copy", "move"} =>
              ops[worker[g].op].dst \in Mailboxes

TransfersHaveDestination ==
    \A i \in OpIds : ops[i] \in Operation /\ ops[i].kind \in {"copy", "move"}
                        => ops[i].dst \in Mailboxes

TypeInv == TypeOK /\ HeldIsStored /\ TransfersHaveDestination

LEMMA CountIsNat == Cardinality(Messages) \in Nat
  BY ConstantsAssumption, FS_CardinalityType

\* A stored operation is a record of the table, not the absent one.
LEMMA StoredIsOperation ==
    ASSUME TypeOK, NEW i \in OpIds, ops[i].status # "absent"
    PROVE  ops[i] \in Operation
  BY DEF TypeOK, Absent

LEMMA InitType == Init => TypeInv
<1> SUFFICES ASSUME Init PROVE TypeInv
  OBVIOUS
<1>1. PICK place \in [Messages -> Mailboxes],
           uid \in [Messages -> 1..Cardinality(Messages)] :
        /\ local = {[msg |-> m, mb |-> place[m], validity |-> 1,
                     uid |-> uid[m], read |-> FALSE, hidden |-> FALSE] :
                       m \in Messages}
        /\ remote = {[msg |-> m, mb |-> place[m], validity |-> 1,
                      uid |-> uid[m], read |-> FALSE, deleted |-> FALSE] :
                        m \in Messages}
        /\ validity = [mb \in Mailboxes |-> 1]
        /\ uidNext = [mb \in Mailboxes |-> Cardinality(Messages) + 1]
        /\ ops = [i \in OpIds |-> Absent]
        /\ worker = [g \in Generations |-> Nobody]
        /\ requested = [g \in Generations |-> FALSE]
        /\ current = 0 /\ nextGen = 1 /\ recovered = FALSE
        /\ clock = 0 /\ budget = Budget
  BY DEF Init
<1>2. local \subseteq Location /\ remote \subseteq Entry
  <2>1. ASSUME NEW m \in Messages
        PROVE  place[m] \in Mailboxes /\ uid[m] \in Nat
    BY CountIsNat
  <2>2. local \subseteq Location
    <3> SUFFICES ASSUME NEW row \in local PROVE row \in Location
      OBVIOUS
    <3>1. PICK m \in Messages :
             row = [msg |-> m, mb |-> place[m], validity |-> 1,
                    uid |-> uid[m], read |-> FALSE, hidden |-> FALSE]
      BY <1>1
    <3> QED
      BY <2>1, <3>1 DEF Location
  <2>3. remote \subseteq Entry
    <3> SUFFICES ASSUME NEW e \in remote PROVE e \in Entry
      OBVIOUS
    <3>1. PICK m \in Messages :
             e = [msg |-> m, mb |-> place[m], validity |-> 1,
                  uid |-> uid[m], read |-> FALSE, deleted |-> FALSE]
      BY <1>1
    <3> QED
      BY <2>1, <3>1 DEF Entry
  <2> QED
    BY <2>2, <2>3
<1>3. worker \in [Generations -> Worker]
  BY <1>1 DEF Worker, Nobody, Stage, NoOp
<1>4. TypeOK
  <2>1. ops \in [OpIds -> Operation \cup {Absent}]
    BY <1>1
  <2>2. validity \in [Mailboxes -> Nat] /\ uidNext \in [Mailboxes -> Nat]
    BY <1>1, CountIsNat
  <2>3. requested \in [Generations -> BOOLEAN]
    BY <1>1
  <2>4. current \in Nat /\ current <= MaxGeneration /\ nextGen \in Nat \ {0}
    BY <1>1, ConstantsAssumption
  <2>5. recovered \in BOOLEAN /\ clock \in Nat /\ budget \in BudgetType
    BY <1>1, ConstantsAssumption
  <2> QED
    BY <1>2, <1>3, <2>1, <2>2, <2>3, <2>4, <2>5 DEF TypeOK
<1>5. HeldIsStored /\ TransfersHaveDestination
  BY <1>1 DEF HeldIsStored, TransfersHaveDestination, Nobody, Holding,
              Absent, Operation
<1> QED
  BY <1>4, <1>5 DEF TypeInv

(* What the shared helpers return *)

LEMMA UpdatesKeepLocations ==
    ASSUME local \subseteq Location, NEW m, NEW mb, NEW v \in BOOLEAN
    PROVE  /\ SetRead(m, mb, v) \subseteq Location
           /\ SetHidden(m, mb, v) \subseteq Location
           /\ DeleteRows(m, mb) \subseteq Location
<1>1. SetRead(m, mb, v) \subseteq Location
  <2> SUFFICES ASSUME NEW row \in local
               PROVE  [row EXCEPT !.read = v] \in Location
    BY DEF SetRead, UpdateRows
  <2> QED
    BY DEF Location
<1>2. SetHidden(m, mb, v) \subseteq Location
  <2> SUFFICES ASSUME NEW row \in local
               PROVE  [row EXCEPT !.hidden = v] \in Location
    BY DEF SetHidden, UpdateRows
  <2> QED
    BY DEF Location
<1> QED
  BY <1>1, <1>2 DEF DeleteRows

LEMMA RequestIsTyped ==
    ASSUME RequestPendingOperations
    PROVE  requested' \in [Generations -> BOOLEAN]
  BY Zenon DEF RequestPendingOperations

LEMMA SpendingIsTyped ==
    ASSUME budget \in BudgetType, NEW what, Spend(what)
    PROVE  budget' \in BudgetType
<1>1. CASE what \in {"crashes", "retries", "external", "lost", "store",
                     "recovery", "renumber"}
  BY <1>1 DEF Spend, BudgetType
<1>2. CASE what \notin {"crashes", "retries", "external", "lost", "store",
                        "recovery", "renumber"}
  BY <1>2 DEF Spend, BudgetType
<1> QED
  BY <1>1, <1>2

\* Nothing removes an operation or changes what it is about.
KeepsOperations ==
    \A i \in OpIds : ops[i] \in Operation =>
        /\ ops'[i] \in Operation
        /\ ops'[i].kind = ops[i].kind
        /\ ops'[i].msg = ops[i].msg
        /\ ops'[i].src = ops[i].src
        /\ ops'[i].dst = ops[i].dst

LEMMA InsertionIsTyped ==
    ASSUME TypeInv, NEW kind \in AllKinds, NEW row \in local,
           NEW dst \in Mailboxes \cup {NoMailbox}, NEW value \in BOOLEAN,
           kind \in {"copy", "move"} => dst \in Mailboxes,
           InsertOperation(kind, row, dst, value)
    PROVE  /\ ops' \in [OpIds -> Operation \cup {Absent}]
           /\ clock' \in Nat
           /\ KeepsOperations
           /\ TransfersHaveDestination'
<1>1. PICK i \in OpIds \ Stored, t \in {clock, clock + 1} :
        /\ clock' = t
        /\ ops' = [ops EXCEPT ![i] =
              [kind |-> kind, msg |-> row.msg, src |-> row.mb, dst |-> dst,
               uid |-> row.uid, validity |-> row.validity, value |-> value,
               previous |-> row.read, status |-> "queued", attempts |-> 0,
               due |-> FALSE, stamp |-> t, seq |-> Cardinality(Stored) + 1,
               cleanup |-> FALSE]]
  BY DEF InsertOperation
<1>2. clock' \in Nat /\ t \in Nat
  BY <1>1 DEF TypeInv, TypeOK
<1>3. Cardinality(Stored) \in Nat
  BY ConstantsAssumption, FS_Subset, FS_CardinalityType DEF Stored
<1>4. /\ row.msg \in Messages /\ row.mb \in Mailboxes /\ row.uid \in Nat
      /\ row.validity \in Nat /\ row.read \in BOOLEAN
  BY DEF TypeInv, TypeOK, Location
<1>5. ops'[i] \in Operation /\ ops'[i].kind = kind /\ ops'[i].dst = dst
  BY <1>1, <1>2, <1>3, <1>4 DEF TypeInv, TypeOK, Operation, Active
<1>6. \A j \in OpIds \ {i} : ops'[j] = ops[j]
  BY <1>1 DEF TypeInv, TypeOK
<1>7. ops[i] \notin Operation
  BY <1>1 DEF Stored, Operation, Active, Settled
<1>8. ops' \in [OpIds -> Operation \cup {Absent}]
  BY <1>1, <1>5, <1>6 DEF TypeInv, TypeOK
<1>9. KeepsOperations
  BY <1>6, <1>7 DEF KeepsOperations
<1>10. TransfersHaveDestination'
  BY <1>5, <1>6 DEF TypeInv, TransfersHaveDestination
<1> QED
  BY <1>2, <1>8, <1>9, <1>10

\* A step that leaves the loops alone keeps what they have in hand.
LEMMA HeldStaysStored ==
    ASSUME HeldIsStored, KeepsOperations, UNCHANGED worker
    PROVE  HeldIsStored'
  BY DEF HeldIsStored, KeepsOperations

LEMMA UnchangedOperations ==
    ASSUME TypeInv, UNCHANGED ops
    PROVE  KeepsOperations /\ TransfersHaveDestination'
  BY DEF TypeInv, KeepsOperations, TransfersHaveDestination

LEMMA StartIsTyped ==
    ASSUME TypeInv, StartSupervisor, UNCHANGED <<disk, server, recovered, budget>>
    PROVE  TypeInv' /\ KeepsOperations
<1> USE DEF TypeInv
<1>1. nextGen \in Generations /\ nextGen + 1 \in Nat \ {0}
  BY ConstantsAssumption DEF StartSupervisor, TypeOK, Generations
<1>2. [Nobody EXCEPT !.pc = "waiting"] \in Worker
  BY DEF Nobody, Worker, Stage, NoOp
<1>3. worker' \in [Generations -> Worker]
  BY <1>1, <1>2 DEF StartSupervisor, TypeOK
<1>4. TypeOK'
  BY <1>1, <1>3, ConstantsAssumption
  DEF StartSupervisor, TypeOK, disk, server
<1>5. \A g \in Generations : worker'[g].pc \in Holding =>
         worker[g].pc \in Holding /\ worker'[g] = worker[g]
  BY <1>1 DEF StartSupervisor, TypeOK, Nobody, Holding
<1>6. HeldIsStored' /\ TransfersHaveDestination'
  BY <1>5 DEF HeldIsStored, TransfersHaveDestination, disk
<1>7. KeepsOperations
  BY UnchangedOperations DEF disk
<1> QED
  BY <1>4, <1>6, <1>7

LEMMA UserStepIsTyped == TypeInv /\ UserStep => TypeInv' /\ KeepsOperations
<1> SUFFICES ASSUME TypeInv, UserStep PROVE TypeInv' /\ KeepsOperations
  OBVIOUS
<1> USE DEF TypeInv
<1>1. ASSUME NEW m \in Messages, NEW mb \in Mailboxes, NEW v \in BOOLEAN,
             SetMessageRead(m, mb, v)
      PROVE  TypeInv' /\ KeepsOperations
  <2>1. PICK row \in VisibleRows(m, mb) :
           InsertOperation("set_read", row, NoMailbox, v)
    BY <1>1 DEF SetMessageRead
  <2>2. row \in local
    BY DEF VisibleRows
  <2>3. "set_read" \in AllKinds
    BY DEF AllKinds
  <2>4. /\ ops' \in [OpIds -> Operation \cup {Absent}] /\ clock' \in Nat
        /\ KeepsOperations /\ TransfersHaveDestination'
    BY <2>1, <2>2, <2>3, InsertionIsTyped
  <2>5. local' \subseteq Location
    BY <1>1, UpdatesKeepLocations DEF SetMessageRead, TypeOK
  <2>6. requested' \in [Generations -> BOOLEAN]
    BY <1>1, RequestIsTyped DEF SetMessageRead
  <2>7. TypeOK'
    BY <1>1, <2>4, <2>5, <2>6 DEF TypeOK, SetMessageRead, server
  <2>8. HeldIsStored'
    BY <1>1, <2>4, HeldStaysStored DEF SetMessageRead
  <2> QED
    BY <2>4, <2>7, <2>8
<1>2. ASSUME NEW m \in Messages, NEW src \in Mailboxes, NEW dst \in Mailboxes,
             NEW copy \in BOOLEAN, QueueTransfer(m, src, dst, copy),
             RequestPendingOperations,
             UNCHANGED <<server, current, nextGen, recovered, worker, budget>>
      PROVE  TypeInv' /\ KeepsOperations
  <2> DEFINE kind == IF copy THEN "copy" ELSE "move"
  <2>1. PICK row \in VisibleRows(m, src) :
           InsertOperation(kind, row, dst, FALSE)
    BY <1>2 DEF QueueTransfer
  <2>2. row \in local
    BY DEF VisibleRows
  <2>3. kind \in AllKinds
    BY DEF AllKinds
  <2> HIDE DEF kind
  <2>4. /\ ops' \in [OpIds -> Operation \cup {Absent}] /\ clock' \in Nat
        /\ KeepsOperations /\ TransfersHaveDestination'
    BY <2>1, <2>2, <2>3, InsertionIsTyped
  <2>5. local' \subseteq Location
    BY <1>2, UpdatesKeepLocations DEF QueueTransfer, TypeOK
  <2>6. requested' \in [Generations -> BOOLEAN]
    BY <1>2, RequestIsTyped
  <2>7. TypeOK'
    BY <1>2, <2>4, <2>5, <2>6 DEF TypeOK, server
  <2>8. HeldIsStored'
    BY <1>2, <2>4, HeldStaysStored
  <2> QED
    BY <2>4, <2>7, <2>8
<1>3. ASSUME NEW m \in Messages, NEW mb \in Mailboxes,
             QueuePermanentDelete(m, mb), RequestPendingOperations,
             UNCHANGED <<server, current, nextGen, recovered, worker, budget>>
      PROVE  TypeInv' /\ KeepsOperations
  <2>1. PICK row \in VisibleRows(m, mb) :
           InsertOperation("delete", row, NoMailbox, FALSE)
    BY <1>3 DEF QueuePermanentDelete
  <2>2. row \in local
    BY DEF VisibleRows
  <2>3. "delete" \in AllKinds
    BY DEF AllKinds
  <2>4. /\ ops' \in [OpIds -> Operation \cup {Absent}] /\ clock' \in Nat
        /\ KeepsOperations /\ TransfersHaveDestination'
    BY <2>1, <2>2, <2>3, InsertionIsTyped
  <2>5. local' \subseteq Location
    BY <1>3, UpdatesKeepLocations DEF QueuePermanentDelete, TypeOK
  <2>6. requested' \in [Generations -> BOOLEAN]
    BY <1>3, RequestIsTyped
  <2>7. TypeOK'
    BY <1>3, <2>4, <2>5, <2>6 DEF TypeOK, server
  <2>8. HeldIsStored'
    BY <1>3, <2>4, HeldStaysStored
  <2> QED
    BY <2>4, <2>7, <2>8
<1>4. ASSUME NEW m \in Messages, NEW mb \in Mailboxes, DeleteMessages(m, mb)
      PROVE  TypeInv' /\ KeepsOperations
  BY <1>2, <1>3, <1>4, ConstantsAssumption DEF DeleteMessages
<1>5. ASSUME NEW m \in Messages, NEW mb \in Mailboxes, NEW dst \in Mailboxes,
             NEW copy \in BOOLEAN, TransferMessages(m, mb, dst, copy)
      PROVE  TypeInv' /\ KeepsOperations
  BY <1>2, <1>5 DEF TransferMessages
<1>6. ASSUME NEW i \in OpIds, RetryPendingOperation(i)
      PROVE  TypeInv' /\ KeepsOperations
  <2>1. ops[i] \in Operation
    BY <1>6 DEF RetryPendingOperation, TypeOK, Absent
  <2>2. /\ ops' = [ops EXCEPT ![i].status = "queued"]
        /\ \A j \in OpIds \ {i} : ops'[j] = ops[j]
        /\ ops'[i] = [ops[i] EXCEPT !.status = "queued"]
    BY <1>6 DEF RetryPendingOperation, TypeOK
  <2>3. ops'[i] \in Operation
    BY <2>1, <2>2 DEF Operation, Active
  <2>4. ops' \in [OpIds -> Operation \cup {Absent}]
    BY <2>2, <2>3 DEF TypeOK
  <2>5. KeepsOperations
    BY <2>1, <2>2, <2>3 DEF KeepsOperations, Operation
  <2>6. TransfersHaveDestination'
    BY <2>1, <2>2, <2>5 DEF TransfersHaveDestination, KeepsOperations
  <2>7. HeldIsStored'
    BY <1>6, <2>5, HeldStaysStored DEF RetryPendingOperation
  <2>8. requested' \in [Generations -> BOOLEAN] /\ budget' \in BudgetType
    BY <1>6, RequestIsTyped, SpendingIsTyped DEF RetryPendingOperation, TypeOK
  <2>9. TypeOK'
    BY <1>6, <2>4, <2>8 DEF TypeOK, RetryPendingOperation, server
  <2> QED
    BY <2>5, <2>6, <2>7, <2>9
<1>7. CASE RestartAccount
  BY <1>7, StartIsTyped DEF RestartAccount
<1> QED
  BY <1>1, <1>4, <1>5, <1>6, <1>7 DEF UserStep

LEMMA OperationChanges ==
    ASSUME NEW q \in Operation, NEW s \in Active \cup Settled, NEW n \in Nat,
           NEW b \in BOOLEAN
    PROVE  /\ [q EXCEPT !.status = s] \in Operation
           /\ [q EXCEPT !.status = s, !.attempts = n] \in Operation
           /\ [q EXCEPT !.status = s, !.due = b] \in Operation
           /\ [q EXCEPT !.status = s, !.cleanup = b] \in Operation
           /\ [q EXCEPT !.due = b] \in Operation
  BY DEF Operation

(* The loop of one generation *)

LEMMA StatusChangeIsTyped ==
    ASSUME TypeInv, NEW i \in OpIds, ops[i] \in Operation,
           NEW o \in Operation, ops' = [ops EXCEPT ![i] = o],
           o.kind = ops[i].kind, o.msg = ops[i].msg, o.src = ops[i].src,
           o.dst = ops[i].dst
    PROVE  /\ ops' \in [OpIds -> Operation \cup {Absent}]
           /\ KeepsOperations
           /\ TransfersHaveDestination'
<1>1. ops'[i] = o /\ \A j \in OpIds \ {i} : ops'[j] = ops[j]
  BY DEF TypeInv, TypeOK
<1> QED
  BY <1>1 DEF TypeInv, TypeOK, KeepsOperations, TransfersHaveDestination

\* Only the loop of g moves.
OthersStay(g) == \A h \in Generations \ {g} : worker'[h] = worker[h]

LEMMA GotoIsTyped ==
    ASSUME TypeInv, NEW g \in Generations, NEW pc \in Stage, Goto(g, pc)
    PROVE  /\ worker' \in [Generations -> Worker] /\ OthersStay(g)
           /\ worker'[g].pc = pc /\ worker'[g].op = worker[g].op
<1>1. worker[g] \in Worker
  BY DEF TypeInv, TypeOK
<1>2. worker' = [worker EXCEPT ![g] = [worker[g] EXCEPT !.pc = pc]]
  BY DEF Goto
<1>3. [worker[g] EXCEPT !.pc = pc] \in Worker
  BY <1>1 DEF Worker
<1> QED
  BY <1>1, <1>2, <1>3 DEF TypeInv, TypeOK, OthersStay, Worker

LEMMA ReturnIsTyped ==
    ASSUME TypeInv, NEW g \in Generations, Return(g)
    PROVE  /\ worker' \in [Generations -> Worker] /\ OthersStay(g)
           /\ worker'[g].pc = "waiting" /\ worker'[g].op = NoOp
  BY DEF TypeInv, TypeOK, OthersStay, Worker, Return, Nobody, Stage, NoOp

LEMMA GiveUpIsTyped ==
    ASSUME TypeInv, NEW g \in Generations, NEW retryable \in BOOLEAN,
           GiveUp(g, retryable)
    PROVE  /\ worker' \in [Generations -> Worker] /\ OthersStay(g)
           /\ worker'[g].pc = "failing" /\ worker'[g].op = worker[g].op
<1>1. worker[g] \in Worker
  BY DEF TypeInv, TypeOK
<1>2. worker' = [worker EXCEPT ![g] =
                    [worker[g] EXCEPT !.pc = "failing",
                                      !.retryable = retryable]]
  BY <1>1 DEF GiveUp, TypeInv, TypeOK
<1>3. [worker[g] EXCEPT !.pc = "failing", !.retryable = retryable] \in Worker
  BY <1>1 DEF Worker, Stage
<1> QED
  BY <1>1, <1>2, <1>3 DEF TypeInv, TypeOK, OthersStay, Worker

\* A loop keeps its operation in hand, or lets go of it.
LEMMA HeldByOne ==
    ASSUME TypeInv, KeepsOperations, NEW g \in Generations, OthersStay(g),
           worker'[g].pc \in Holding =>
              /\ worker[g].pc \in Holding /\ worker'[g].op = worker[g].op
              /\ worker'[g].pc \in {"copy", "move"} =>
                    ops[worker[g].op].kind \in {"copy", "move"}
    PROVE  HeldIsStored'
<1> SUFFICES ASSUME NEW h \in Generations, worker'[h].pc \in Holding
             PROVE  /\ worker'[h].op \in OpIds
                    /\ ops'[worker'[h].op] \in Operation
                    /\ worker'[h].pc \in {"copy", "move"} =>
                          ops'[worker'[h].op].dst \in Mailboxes
  BY DEF HeldIsStored, Generations
<1>1. CASE h = g
  BY <1>1 DEF TypeInv, HeldIsStored, TransfersHaveDestination, KeepsOperations
<1>2. CASE h # g
  BY <1>2 DEF TypeInv, HeldIsStored, KeepsOperations, OthersStay
<1> QED
  BY <1>1, <1>2

LEMMA ReturningIsTyped ==
    ASSUME TypeInv, NEW g \in Generations, Return(g),
           UNCHANGED <<disk, server, memory>>, budget' \in BudgetType
    PROVE  TypeInv' /\ KeepsOperations
<1>1. /\ worker' \in [Generations -> Worker] /\ OthersStay(g)
      /\ worker'[g].pc = "waiting"
  BY ReturnIsTyped
<1>2. KeepsOperations /\ TransfersHaveDestination'
  BY UnchangedOperations DEF disk
<1>3. HeldIsStored'
  BY <1>1, <1>2, HeldByOne DEF Holding
<1>4. TypeOK'
  BY <1>1 DEF TypeInv, TypeOK, disk, server, memory
<1> QED
  BY <1>2, <1>3, <1>4 DEF TypeInv

LEMMA GoingIsTyped ==
    ASSUME TypeInv, NEW g \in Generations, NEW pc \in Stage, Goto(g, pc),
           UNCHANGED <<disk, server, memory, budget>>,
           pc \in Holding => worker[g].pc \in Holding,
           pc \in {"copy", "move"} => Op(g).kind \in {"copy", "move"}
    PROVE  TypeInv' /\ KeepsOperations
<1>1. /\ worker' \in [Generations -> Worker] /\ OthersStay(g)
      /\ worker'[g].pc = pc /\ worker'[g].op = worker[g].op
  BY GotoIsTyped
<1>2. KeepsOperations /\ TransfersHaveDestination'
  BY UnchangedOperations DEF disk
<1>3. HeldIsStored'
  BY <1>1, <1>2, HeldByOne DEF Holding, Op
<1>4. TypeOK'
  BY <1>1 DEF TypeInv, TypeOK, disk, server, memory
<1> QED
  BY <1>2, <1>3, <1>4 DEF TypeInv

LEMMA DrainIsTyped ==
    ASSUME TypeInv, NEW g \in Generations,
           \/ LeaveLoop(g) \/ TakeRequest(g) \/ RequestDropped(g)
           \/ EnterDrain(g) \/ DrainFails(g) \/ ClaimPendingOperation(g)
           \/ NothingToClaim(g) \/ CheckGeneration(g)
    PROVE  TypeInv' /\ KeepsOperations
<1>1. CASE LeaveLoop(g)
  <2>1. worker' \in [Generations -> Worker] /\ OthersStay(g)
        /\ worker'[g].pc = "absent"
    BY <1>1 DEF LeaveLoop, TypeInv, TypeOK, OthersStay, Worker, Nobody, Stage,
                NoOp
  <2>2. KeepsOperations /\ TransfersHaveDestination'
    BY <1>1, UnchangedOperations DEF LeaveLoop, disk
  <2>3. HeldIsStored'
    BY <2>1, <2>2, HeldByOne DEF Holding
  <2>4. TypeOK'
    BY <1>1, <2>1 DEF LeaveLoop, TypeInv, TypeOK, disk, server, memory
  <2> QED
    BY <2>2, <2>3, <2>4 DEF TypeInv
<1>2. CASE TakeRequest(g)
  <2>1. /\ worker' \in [Generations -> Worker] /\ OthersStay(g)
        /\ worker'[g].pc = "entering"
    BY <1>2, GotoIsTyped DEF TakeRequest, Stage
  <2>2. UNCHANGED ops \/ RecoverPendingOperations
    BY <1>2 DEF TakeRequest
  <2>3. /\ ops' \in [OpIds -> Operation \cup {Absent}]
        /\ KeepsOperations /\ TransfersHaveDestination'
    <3>1. CASE UNCHANGED ops
      BY <3>1, UnchangedOperations DEF TypeInv, TypeOK
    <3>2. CASE RecoverPendingOperations
      <4>1. ASSUME NEW i \in OpIds
            PROVE  \/ ops'[i] = ops[i]
                   \/ /\ ops[i] \in Operation
                      /\ ops'[i] = [ops[i] EXCEPT !.status = "queued"]
        BY <3>2 DEF RecoverPendingOperations, TypeInv, TypeOK, Absent
      <4>2. ASSUME NEW i \in OpIds, ops[i] \in Operation
            PROVE  /\ ops'[i] \in Operation /\ ops'[i].kind = ops[i].kind
                   /\ ops'[i].msg = ops[i].msg /\ ops'[i].src = ops[i].src
                   /\ ops'[i].dst = ops[i].dst
        <5>1. [ops[i] EXCEPT !.status = "queued"] \in Operation
          BY <4>2, OperationChanges DEF Active
        <5> QED
          BY <4>1, <4>2, <5>1 DEF Operation
      <4>3. ops' \in [OpIds -> Operation \cup {Absent}]
        <5>1. ops' = [i \in OpIds |-> ops'[i]]
          BY <3>2 DEF RecoverPendingOperations
        <5>2. \A i \in OpIds : ops'[i] \in Operation \cup {Absent}
          BY <4>1, <4>2 DEF TypeInv, TypeOK
        <5> QED
          BY <5>1, <5>2
      <4>4. KeepsOperations
        BY <4>2 DEF KeepsOperations
      <4>5. TransfersHaveDestination'
        BY <4>1, <4>2 DEF TransfersHaveDestination, TypeInv
      <4> QED
        BY <4>3, <4>4, <4>5
    <3> QED
      BY <2>2, <3>1, <3>2
  <2>4. HeldIsStored'
    BY <2>1, <2>3, HeldByOne DEF Holding
  <2>5. requested' \in [Generations -> BOOLEAN]
    BY <1>2 DEF TakeRequest, TypeInv, TypeOK
  <2>6. recovered' \in BOOLEAN /\ budget' \in BudgetType
    BY <1>2, SpendingIsTyped DEF TakeRequest, TypeInv, TypeOK
  <2>7. TypeOK'
    BY <1>2, <2>1, <2>3, <2>5, <2>6 DEF TakeRequest, TypeInv, TypeOK, server
  <2> QED
    BY <2>3, <2>4, <2>7 DEF TypeInv
<1>3. CASE EnterDrain(g)
  <2>1. CASE Goto(g, "draining")
    BY <1>3, <2>1, GoingIsTyped DEF EnterDrain, Stage, Holding
  <2>2. CASE Return(g)
    BY <1>3, <2>2, ReturningIsTyped DEF EnterDrain, TypeInv, TypeOK
  <2> QED
    BY <1>3, <2>1, <2>2 DEF EnterDrain
<1>4. CASE DrainFails(g)
  BY <1>4, ReturningIsTyped, SpendingIsTyped DEF DrainFails, TypeInv, TypeOK
<1>5. CASE ClaimPendingOperation(g)
  <2>1. PICK i \in Eligible :
          /\ ops' = [ops EXCEPT ![i].status = "running", ![i].attempts = @ + 1]
          /\ worker' = [worker EXCEPT ![g] =
                [Nobody EXCEPT !.pc = "claimed", !.op = i,
                               !.attempt = ops[i].attempts + 1]]
    BY <1>5 DEF ClaimPendingOperation
  <2> DEFINE o == [ops[i] EXCEPT !.status = "running",
                             !.attempts = ops[i].attempts + 1]
  <2>2. i \in OpIds /\ ops[i] \in Operation
    BY DEF Eligible, TypeInv, TypeOK, Absent
  <2>3. ops' = [ops EXCEPT ![i] = o]
    BY <2>1, <2>2 DEF TypeInv, TypeOK
  <2>4. /\ o \in Operation /\ o.kind = ops[i].kind /\ o.msg = ops[i].msg
        /\ o.src = ops[i].src /\ o.dst = ops[i].dst
    <3>1. ops[i].attempts + 1 \in Nat
      BY <2>2 DEF Operation
    <3>2. o \in Operation
      BY <2>2, <3>1, OperationChanges DEF Active
    <3> QED
      BY <2>2, <3>2 DEF Operation
  <2> HIDE DEF o
  <2>5. /\ ops' \in [OpIds -> Operation \cup {Absent}]
        /\ KeepsOperations /\ TransfersHaveDestination'
    BY <2>2, <2>3, <2>4, StatusChangeIsTyped
  <2>6. ops[i].attempts + 1 \in Nat
    BY <2>2 DEF Operation
  <2>7. i \in Nat
    BY <2>2, ConstantsAssumption
  <2>8. /\ worker' \in [Generations -> Worker] /\ OthersStay(g)
        /\ worker'[g].pc = "claimed" /\ worker'[g].op = i
    BY <2>1, <2>6, <2>7
    DEF TypeInv, TypeOK, Worker, Nobody, Stage, OthersStay
  <2>9. HeldIsStored'
    <3> SUFFICES ASSUME NEW h \in Generations, worker'[h].pc \in Holding
                 PROVE  /\ worker'[h].op \in OpIds
                        /\ ops'[worker'[h].op] \in Operation
                        /\ worker'[h].pc \in {"copy", "move"} =>
                              ops'[worker'[h].op].dst \in Mailboxes
      BY DEF HeldIsStored, Generations
    <3>1. CASE h = g
      BY <3>1, <2>2, <2>5, <2>8 DEF KeepsOperations
    <3>2. CASE h # g
      BY <3>2, <2>5, <2>8
      DEF TypeInv, HeldIsStored, KeepsOperations, OthersStay
    <3> QED
      BY <3>1, <3>2
  <2>10. TypeOK'
    BY <1>5, <2>5, <2>8
    DEF ClaimPendingOperation, TypeInv, TypeOK, server, memory
  <2> QED
    BY <2>5, <2>9, <2>10 DEF TypeInv
<1>6. CASE NothingToClaim(g)
  BY <1>6, ReturningIsTyped DEF NothingToClaim, TypeInv, TypeOK
<1>7. CASE CheckGeneration(g)
  <2>1. CASE Goto(g, "select")
    BY <1>7, <2>1, GoingIsTyped DEF CheckGeneration, Stage, Holding, At
  <2>2. CASE Return(g)
    BY <1>7, <2>2, ReturningIsTyped DEF CheckGeneration, TypeInv, TypeOK
  <2> QED
    BY <1>7, <2>1, <2>2 DEF CheckGeneration
<1>8. CASE RequestDropped(g)
  <2>1. requested' \in [Generations -> BOOLEAN]
    BY <1>8 DEF RequestDropped, TypeInv, TypeOK
  <2>2. budget' \in BudgetType
    BY <1>8, SpendingIsTyped DEF RequestDropped, TypeInv, TypeOK
  <2>3. KeepsOperations /\ TransfersHaveDestination'
    BY <1>8, UnchangedOperations DEF RequestDropped, disk
  <2>4. HeldIsStored'
    BY <1>8, <2>3, HeldStaysStored DEF TypeInv, RequestDropped
  <2>5. TypeOK'
    BY <1>8, <2>1, <2>2 DEF RequestDropped, TypeInv, TypeOK, disk, server
  <2> QED
    BY <2>3, <2>4, <2>5 DEF TypeInv
<1> QED
  BY <1>1, <1>2, <1>3, <1>4, <1>5, <1>6, <1>7, <1>8

(* The IMAP session *)

\* A command acts on the server and its answer moves the loop of g on.
LEMMA CommandIsTyped ==
    ASSUME TypeInv, NEW g \in Generations, worker[g].pc \in Holding,
           UNCHANGED <<disk, memory>>,
           worker' \in [Generations -> Worker], OthersStay(g),
           worker'[g].op = worker[g].op,
           worker'[g].pc \in {"copy", "move"} =>
              Op(g).kind \in {"copy", "move"},
           remote' \subseteq Entry, validity' \in [Mailboxes -> Nat],
           uidNext' \in [Mailboxes -> Nat], budget' \in BudgetType
    PROVE  TypeInv' /\ KeepsOperations
<1>1. KeepsOperations /\ TransfersHaveDestination'
  BY UnchangedOperations DEF disk
<1>2. HeldIsStored'
  BY <1>1, HeldByOne DEF Op
<1>3. TypeOK'
  BY DEF TypeInv, TypeOK, disk, memory
<1> QED
  BY <1>1, <1>2, <1>3 DEF TypeInv

LEMMA AnswerIsTyped ==
    ASSUME TypeInv, NEW g \in Generations, NEW next \in Stage,
           next \notin {"copy", "move"}, Answered(g, next)
    PROVE  /\ worker' \in [Generations -> Worker] /\ OthersStay(g)
           /\ worker'[g].op = worker[g].op
           /\ worker'[g].pc \notin {"copy", "move"}
           /\ budget' \in BudgetType
<1>1. CASE Goto(g, next) /\ UNCHANGED budget
  BY <1>1, GotoIsTyped DEF TypeInv, TypeOK
<1>2. CASE GiveUp(g, TRUE) /\ Spend("lost")
  BY <1>2, GiveUpIsTyped, SpendingIsTyped DEF TypeInv, TypeOK
<1> QED
  BY <1>1, <1>2 DEF Answered

LEMMA SessionIsTyped ==
    ASSUME TypeInv, NEW g \in Generations,
           \/ SelectSource(g) \/ StoreFlag(g) \/ CopyMessage(g)
           \/ MoveMessage(g) \/ MarkDeleted(g) \/ ExpungeUid(g)
           \/ CommandFails(g)
    PROVE  TypeInv' /\ KeepsOperations
<1>1. worker[g].pc \in Commands =>
         /\ worker[g].pc \in Holding /\ Op(g) \in Operation
         /\ worker[g].pc \in {"copy", "move"} => Op(g).dst \in Mailboxes
  BY DEF TypeInv, HeldIsStored, Commands, Holding, Op
<1>2. CASE SelectSource(g)
  <2>1. At(g, "select") /\ Op(g) \in Operation /\ Op(g).kind \in AllKinds
    BY <1>1, <1>2 DEF SelectSource, At, Commands, Operation
  <2>2. /\ FirstCommand(Op(g)) \in Stage
        /\ FirstCommand(Op(g)) \in {"copy", "move"} =>
              Op(g).kind \in {"copy", "move"}
    BY <2>1 DEF FirstCommand, AllKinds, Stage
  <2>3. CASE GiveUp(g, FALSE)
    <3>1. /\ worker' \in [Generations -> Worker] /\ OthersStay(g)
          /\ worker'[g].pc = "failing" /\ worker'[g].op = worker[g].op
      BY <2>3, GiveUpIsTyped
    <3> QED
      BY <1>1, <1>2, <2>1, <3>1, CommandIsTyped
      DEF SelectSource, Commands, At, TypeInv, TypeOK, server
  <2>4. CASE Goto(g, "completing")
    BY <1>1, <1>2, <2>1, <2>4, GoingIsTyped
    DEF SelectSource, Commands, At, Stage
  <2>5. CASE Goto(g, FirstCommand(Op(g)))
    BY <1>1, <1>2, <2>1, <2>2, <2>5, GoingIsTyped
    DEF SelectSource, Commands, At
  <2> QED
    BY <1>2, <2>3, <2>4, <2>5 DEF SelectSource
<1>3. CASE StoreFlag(g)
  <2>1. worker[g].pc = "store_flag" /\ Op(g).value \in BOOLEAN
    BY <1>1, <1>3 DEF StoreFlag, At, Commands, Operation
  <2>2. ASSUME NEW e \in remote PROVE [e EXCEPT !.read = Op(g).value] \in Entry
    BY <2>1 DEF TypeInv, TypeOK, Entry
  <2>3. remote' \subseteq Entry
    BY <1>3, <2>2 DEF StoreFlag, TypeInv, TypeOK
  <2>4. /\ worker' \in [Generations -> Worker] /\ OthersStay(g)
        /\ worker'[g].op = worker[g].op
        /\ worker'[g].pc \notin {"copy", "move"} /\ budget' \in BudgetType
    BY <1>3, AnswerIsTyped DEF StoreFlag, Stage
  <2> QED
    BY <1>1, <1>3, <2>1, <2>3, <2>4, CommandIsTyped
    DEF StoreFlag, Commands, TypeInv, TypeOK
<1>4. ASSUME NEW dst \in Mailboxes, NEW e \in remote
      PROVE  ArrivalOf(e, dst) \in Entry
  BY DEF ArrivalOf, TypeInv, TypeOK, Entry
<1>5. ASSUME Op(g).dst \in Mailboxes, AllocateUid(Op(g))
      PROVE  uidNext' \in [Mailboxes -> Nat]
  BY <1>5 DEF AllocateUid, TypeInv, TypeOK
<1>6. CASE CopyMessage(g)
  <2>1. worker[g].pc = "copy" /\ Op(g).dst \in Mailboxes
    BY <1>1, <1>6 DEF CopyMessage, At, Commands
  <2>2. remote' \subseteq Entry
    BY <1>4, <1>6, <2>1 DEF CopyMessage, TypeInv, TypeOK, Targets
  <2>3. uidNext' \in [Mailboxes -> Nat]
    BY <1>5, <1>6, <2>1 DEF CopyMessage
  <2> DEFINE next == IF Op(g).kind = "copy" THEN "completing"
                                            ELSE "mark_deleted"
  <2>4. next \in Stage /\ next \notin {"copy", "move"} /\ Answered(g, next)
    BY <1>6 DEF CopyMessage, Stage
  <2> HIDE DEF next
  <2>5. /\ worker' \in [Generations -> Worker] /\ OthersStay(g)
        /\ worker'[g].op = worker[g].op
        /\ worker'[g].pc \notin {"copy", "move"} /\ budget' \in BudgetType
    BY <2>4, AnswerIsTyped
  <2> QED
    BY <1>1, <1>6, <2>1, <2>2, <2>3, <2>5, CommandIsTyped
    DEF CopyMessage, Commands, TypeInv, TypeOK
<1>7. CASE MoveMessage(g)
  <2>1. worker[g].pc = "move" /\ Op(g).dst \in Mailboxes
    BY <1>1, <1>7 DEF MoveMessage, At, Commands
  <2>2. remote' \subseteq Entry
    BY <1>4, <1>7, <2>1 DEF MoveMessage, TypeInv, TypeOK, Targets
  <2>3. uidNext' \in [Mailboxes -> Nat]
    BY <1>5, <1>7, <2>1 DEF MoveMessage
  <2>4. /\ worker' \in [Generations -> Worker] /\ OthersStay(g)
        /\ worker'[g].op = worker[g].op
        /\ worker'[g].pc \notin {"copy", "move"} /\ budget' \in BudgetType
    BY <1>7, AnswerIsTyped DEF MoveMessage, Stage
  <2> QED
    BY <1>1, <1>7, <2>1, <2>2, <2>3, <2>4, CommandIsTyped
    DEF MoveMessage, Commands, TypeInv, TypeOK
<1>8. CASE MarkDeleted(g)
  <2>1. worker[g].pc = "mark_deleted" /\ worker[g] \in Worker
    BY <1>8 DEF MarkDeleted, At, TypeInv, TypeOK
  <2>2. ASSUME NEW e \in remote PROVE [e EXCEPT !.deleted = TRUE] \in Entry
    BY DEF TypeInv, TypeOK, Entry
  <2>3. remote' \subseteq Entry
    BY <1>8, <2>2 DEF MarkDeleted, TypeInv, TypeOK
  <2>4. /\ worker' \in [Generations -> Worker] /\ OthersStay(g)
        /\ worker'[g].op = worker[g].op
        /\ worker'[g].pc \notin {"copy", "move"} /\ budget' \in BudgetType
    <3> DEFINE w == [worker[g] EXCEPT !.pc = "completing", !.cleanup = TRUE]
    <3>1. CASE /\ UNCHANGED budget
               /\ worker' = [worker EXCEPT ![g].pc = "completing",
                                           ![g].cleanup = TRUE]
      <4>1. worker' = [worker EXCEPT ![g] = w]
        BY <3>1 DEF TypeInv, TypeOK
      <4>2. w \in Worker /\ w.pc = "completing" /\ w.op = worker[g].op
        BY <2>1 DEF Worker, Stage
      <4> HIDE DEF w
      <4> QED
        BY <3>1, <4>1, <4>2 DEF TypeInv, TypeOK, OthersStay
    <3>2. CASE GiveUp(g, TRUE) /\ Spend("lost")
      BY <3>2, GiveUpIsTyped, SpendingIsTyped DEF TypeInv, TypeOK
    <3>3. CASE Goto(g, "expunge") /\ UNCHANGED budget
      BY <3>3, GotoIsTyped DEF TypeInv, TypeOK, Stage
    <3> QED
      BY <1>8, <3>1, <3>2, <3>3 DEF MarkDeleted
  <2> QED
    BY <1>1, <1>8, <2>1, <2>3, <2>4, CommandIsTyped
    DEF MarkDeleted, Commands, TypeInv, TypeOK
<1>9. CASE ExpungeUid(g)
  <2>1. worker[g].pc = "expunge" /\ remote' \subseteq Entry
    BY <1>9 DEF ExpungeUid, At, TypeInv, TypeOK
  <2>2. /\ worker' \in [Generations -> Worker] /\ OthersStay(g)
        /\ worker'[g].op = worker[g].op
        /\ worker'[g].pc \notin {"copy", "move"} /\ budget' \in BudgetType
    BY <1>9, AnswerIsTyped DEF ExpungeUid, Stage
  <2> QED
    BY <1>1, <1>9, <2>1, <2>2, CommandIsTyped
    DEF ExpungeUid, Commands, TypeInv, TypeOK
<1>10. CASE CommandFails(g)
  <2>1. worker[g].pc \in Commands /\ GiveUp(g, TRUE) /\ Spend("lost")
    BY <1>10 DEF CommandFails
  <2>2. /\ worker' \in [Generations -> Worker] /\ OthersStay(g)
        /\ worker'[g].pc = "failing" /\ worker'[g].op = worker[g].op
    BY <2>1, GiveUpIsTyped
  <2>3. budget' \in BudgetType
    BY <2>1, SpendingIsTyped DEF TypeInv, TypeOK
  <2> QED
    BY <1>1, <1>10, <2>1, <2>2, <2>3, CommandIsTyped
    DEF CommandFails, TypeInv, TypeOK, server
<1> QED
  BY <1>2, <1>3, <1>6, <1>7, <1>8, <1>9, <1>10

(* The outcome of an operation *)

LEMMA OutcomeIsTyped ==
    ASSUME TypeInv, NEW g \in Generations,
           \/ CompletePendingOperation(g) \/ FailPendingOperation(g)
           \/ OutcomeLost(g)
    PROVE  TypeInv' /\ KeepsOperations
<1>1. worker[g].pc \in Holding =>
         /\ worker[g].op \in OpIds /\ ops[worker[g].op] \in Operation
         /\ Op(g) \in Operation
  BY DEF TypeInv, HeldIsStored, Op
<1>2. worker[g] \in Worker
  BY DEF TypeInv, TypeOK
<1>3. ASSUME worker' = [worker EXCEPT ![g] = [Nobody EXCEPT !.pc = "draining"]]
      PROVE  /\ worker' \in [Generations -> Worker] /\ OthersStay(g)
             /\ worker'[g].pc = "draining"
  BY <1>3 DEF TypeInv, TypeOK, OthersStay, Worker, Nobody, Stage, NoOp
<1>4. CASE CompletePendingOperation(g)
  <2>1. worker[g].pc = "completing" /\ worker[g].op \in OpIds
        /\ ops[worker[g].op] \in Operation
    BY <1>1, <1>4 DEF CompletePendingOperation, At, Holding
  <2> DEFINE i == worker[g].op
             o == [ops[i] EXCEPT !.status = "succeeded",
                                 !.cleanup = worker[g].cleanup]
  <2>2. worker[g].cleanup \in BOOLEAN
    BY <1>2 DEF Worker
  <2>3. o \in Operation
    BY <2>1, <2>2, OperationChanges DEF Settled
  <2>4. ops' = [ops EXCEPT ![i] = o]
    BY <1>4, <2>1 DEF CompletePendingOperation, TypeInv, TypeOK
  <2>5. /\ o.kind = ops[i].kind /\ o.msg = ops[i].msg /\ o.src = ops[i].src
        /\ o.dst = ops[i].dst
    BY <2>1 DEF Operation
  <2> HIDE DEF o, i
  <2>6. /\ ops' \in [OpIds -> Operation \cup {Absent}]
        /\ KeepsOperations /\ TransfersHaveDestination'
    BY <2>1, <2>3, <2>4, <2>5, StatusChangeIsTyped DEF i
  <2>7. /\ worker' \in [Generations -> Worker] /\ OthersStay(g)
        /\ worker'[g].pc = "draining"
    BY <1>3, <1>4 DEF CompletePendingOperation
  <2>8. local' \subseteq Location
    BY <1>4, UpdatesKeepLocations
    DEF CompletePendingOperation, TypeInv, TypeOK
  <2>9. HeldIsStored'
    BY <2>6, <2>7, HeldByOne DEF Holding
  <2>10. TypeOK'
    BY <1>4, <2>6, <2>7, <2>8
    DEF CompletePendingOperation, TypeInv, TypeOK, server, memory
  <2> QED
    BY <2>6, <2>9, <2>10 DEF TypeInv
<1>5. CASE FailPendingOperation(g)
  <2>1. worker[g].pc = "failing" /\ worker[g].op \in OpIds
        /\ ops[worker[g].op] \in Operation /\ Op(g) \in Operation
    BY <1>1, <1>5 DEF FailPendingOperation, At, Holding
  <2> DEFINE i == worker[g].op
             retry == worker[g].retryable /\ worker[g].attempt < MaxAttempts
             o == [ops[i] EXCEPT !.status = FailedStatus(retry), !.due = FALSE]
  <2>2. FailedStatus(retry) \in Active \cup Settled
    BY DEF FailedStatus, Active, Settled
  <2>3. o \in Operation
    BY <2>1, <2>2, OperationChanges
  <2>4. ops' = [ops EXCEPT ![i] = o]
    BY <1>5, <2>1 DEF FailPendingOperation, TypeInv, TypeOK
  <2>5. /\ o.kind = ops[i].kind /\ o.msg = ops[i].msg /\ o.src = ops[i].src
        /\ o.dst = ops[i].dst
    BY <2>1 DEF Operation
  <2>6. local' = local \/ local' = RollbackProjection(Op(g))
    BY <1>5 DEF FailPendingOperation
  <2> HIDE DEF o, i, retry
  <2>7. /\ ops' \in [OpIds -> Operation \cup {Absent}]
        /\ KeepsOperations /\ TransfersHaveDestination'
    BY <2>1, <2>3, <2>4, <2>5, StatusChangeIsTyped DEF i
  <2>8. /\ worker' \in [Generations -> Worker] /\ OthersStay(g)
        /\ worker'[g].pc \in {"waiting", "draining"}
    BY <1>3, <1>5, ReturnIsTyped DEF FailPendingOperation
  <2>9. local' \subseteq Location
    <3>1. Op(g).previous \in BOOLEAN /\ Op(g).kind \in AllKinds
      BY <2>1 DEF Operation
    <3>2. RollbackProjection(Op(g)) \subseteq Location
      BY <3>1, UpdatesKeepLocations
      DEF RollbackProjection, IsTransfer, AllKinds, TypeInv, TypeOK
    <3> QED
      BY <2>6, <3>2 DEF TypeInv, TypeOK
  <2>10. HeldIsStored'
    BY <2>7, <2>8, HeldByOne DEF Holding
  <2>11. TypeOK'
    BY <1>5, <2>7, <2>8, <2>9
    DEF FailPendingOperation, TypeInv, TypeOK, server, memory
  <2> QED
    BY <2>7, <2>10, <2>11 DEF TypeInv
<1>6. CASE OutcomeLost(g)
  BY <1>6, ReturningIsTyped, SpendingIsTyped DEF OutcomeLost, TypeInv, TypeOK
<1> QED
  BY <1>4, <1>5, <1>6

(* The environment *)

LEMMA WorldStepIsTyped ==
    ASSUME TypeInv, WorldStep
    PROVE  TypeInv' /\ KeepsOperations
<1>1. CASE Crash
  <2>1. worker' \in [Generations -> Worker]
    BY <1>1 DEF Crash, Worker, Nobody, Stage, NoOp
  <2>2. budget' \in BudgetType
    BY <1>1, SpendingIsTyped DEF Crash, TypeInv, TypeOK
  <2>3. TypeOK'
    <3>1. requested' \in [Generations -> BOOLEAN]
      BY <1>1 DEF Crash
    <3>2. current' = 0 /\ nextGen' = 1
      BY <1>1 DEF Crash
    <3>3. recovered' \in BOOLEAN
      BY <1>1, Zenon DEF Crash
    <3>4. current' <= MaxGeneration
      BY <3>2, ConstantsAssumption
    <3>5. UNCHANGED <<ops, local, clock, remote, validity, uidNext>>
      BY <1>1 DEF Crash, disk, server
    <3> QED
      BY <2>1, <2>2, <3>1, <3>2, <3>3, <3>4, <3>5 DEF TypeInv, TypeOK
  <2>4. HeldIsStored' /\ TransfersHaveDestination'
    BY <1>1 DEF Crash, HeldIsStored, Holding, Nobody, TypeInv,
                TransfersHaveDestination, disk
  <2>5. KeepsOperations
    BY <1>1, UnchangedOperations DEF Crash, disk
  <2> QED
    BY <2>3, <2>4, <2>5 DEF TypeInv
<1>2. ASSUME UNCHANGED <<disk, memory, worker>>, remote' \subseteq Entry,
             validity' \in [Mailboxes -> Nat], uidNext' \in [Mailboxes -> Nat],
             budget' \in BudgetType
      PROVE  TypeInv' /\ KeepsOperations
  <2>1. KeepsOperations /\ TransfersHaveDestination'
    BY <1>2, UnchangedOperations DEF disk
  <2>2. HeldIsStored'
    BY <1>2, <2>1, HeldStaysStored DEF TypeInv
  <2>3. TypeOK'
    BY <1>2 DEF TypeInv, TypeOK, disk, memory
  <2> QED
    BY <2>1, <2>2, <2>3 DEF TypeInv
<1>3. ASSUME NEW e \in remote, OtherClientExpunges(e)
      PROVE  TypeInv' /\ KeepsOperations
  BY <1>2, <1>3, SpendingIsTyped DEF OtherClientExpunges, TypeInv, TypeOK
<1>4. ASSUME NEW e \in remote, OtherClientSetsRead(e)
      PROVE  TypeInv' /\ KeepsOperations
  <2>1. [e EXCEPT !.read = ~@] \in Entry
    BY DEF TypeInv, TypeOK, Entry
  <2> QED
    BY <1>2, <1>4, <2>1, SpendingIsTyped
    DEF OtherClientSetsRead, TypeInv, TypeOK
<1>5. ASSUME NEW mb \in Mailboxes, RenumberMailbox(mb)
      PROVE  TypeInv' /\ KeepsOperations
  <2>1. ASSUME NEW e \in remote
        PROVE  [e EXCEPT !.validity = @ + 1] \in Entry
    BY DEF TypeInv, TypeOK, Entry
  <2>2. remote' \subseteq Entry
    BY <1>5, <2>1 DEF RenumberMailbox, TypeInv, TypeOK
  <2>3. validity' \in [Mailboxes -> Nat]
    BY <1>5 DEF RenumberMailbox, TypeInv, TypeOK
  <2> QED
    BY <1>2, <1>5, <2>2, <2>3, SpendingIsTyped
    DEF RenumberMailbox, TypeInv, TypeOK
<1> QED
  BY <1>1, <1>3, <1>4, <1>5 DEF WorldStep

LEMMA NextType == TypeInv /\ [Next]_vars => TypeInv' /\ KeepsOperations
<1> SUFFICES ASSUME TypeInv, [Next]_vars PROVE TypeInv' /\ KeepsOperations
  OBVIOUS
<1>1. CASE EnsureSupervisor
  BY <1>1, StartIsTyped DEF EnsureSupervisor
<1>2. CASE SyncRequestsOperations
  <2>1. requested' \in [Generations -> BOOLEAN]
    BY <1>2, RequestIsTyped DEF SyncRequestsOperations
  <2>2. KeepsOperations /\ TransfersHaveDestination'
    BY <1>2, UnchangedOperations DEF SyncRequestsOperations, disk
  <2>3. HeldIsStored'
    BY <1>2, <2>2, HeldStaysStored DEF TypeInv, SyncRequestsOperations
  <2>4. TypeOK'
    BY <1>2, <2>1 DEF SyncRequestsOperations, TypeInv, TypeOK, disk, server
  <2> QED
    BY <2>2, <2>3, <2>4 DEF TypeInv
<1>3. ASSUME NEW i \in OpIds, BackoffElapses(i)
      PROVE  TypeInv' /\ KeepsOperations
  <2> DEFINE o == [ops[i] EXCEPT !.due = TRUE]
  <2>1. ops[i] \in Operation
    BY <1>3 DEF BackoffElapses, TypeInv, TypeOK, Absent
  <2>2. o \in Operation
    BY <2>1 DEF Operation
  <2>3. /\ o.kind = ops[i].kind /\ o.msg = ops[i].msg /\ o.src = ops[i].src
        /\ o.dst = ops[i].dst
    BY <2>1 DEF Operation
  <2>4. ops' = [ops EXCEPT ![i] = o]
    BY <1>3 DEF BackoffElapses, TypeInv, TypeOK
  <2> HIDE DEF o
  <2>5. /\ ops' \in [OpIds -> Operation \cup {Absent}]
        /\ KeepsOperations /\ TransfersHaveDestination'
    BY <2>1, <2>2, <2>3, <2>4, StatusChangeIsTyped
  <2>6. HeldIsStored'
    BY <1>3, <2>5, HeldStaysStored DEF TypeInv, BackoffElapses
  <2>7. TypeOK'
    BY <1>3, <2>5 DEF BackoffElapses, TypeInv, TypeOK, server, memory
  <2> QED
    BY <2>5, <2>6, <2>7 DEF TypeInv
<1>4. ASSUME NEW g \in Generations, LoopStep(g)
      PROVE  TypeInv' /\ KeepsOperations
  BY <1>4, DrainIsTyped, SessionIsTyped, OutcomeIsTyped DEF LoopStep, DrainStep
<1>5. CASE UNCHANGED vars
  <2>1. KeepsOperations /\ TransfersHaveDestination'
    BY <1>5, UnchangedOperations DEF vars, disk
  <2>2. HeldIsStored'
    BY <1>5, <2>1, HeldStaysStored DEF TypeInv, vars
  <2>3. TypeOK'
    BY <1>5 DEF TypeInv, TypeOK, vars, disk, server, memory
  <2> QED
    BY <2>1, <2>2, <2>3 DEF TypeInv
<1> QED
  BY <1>1, <1>2, <1>3, <1>4, <1>5, UserStepIsTyped, WorldStepIsTyped DEF Next

\* In every reachable state the tables, the server and the loops hold values
\* of their types, and what a loop has in hand is a stored operation.
THEOREM TypeCorrect == Spec => []TypeOK
<1>1. TypeInv => TypeOK
  BY DEF TypeInv
<1> QED
  BY InitType, NextType, <1>1, PTL DEF Spec

-----------------------------------------------------------------------------
(* A hidden message always has an unfinished operation *)

\* i is an unfinished move or delete.
Hides(i) == ops[i].status \in Active /\ IsTransfer(ops[i])

LEMMA HiddenKept ==
    ASSUME TypeInv, HiddenHasOperation, KeepsOperations, NEW Done,
           \A i \in OpIds \ Done :
              ops[i].status \in Active => ops'[i].status \in Active,
           \A row \in local' : row.hidden =>
              \E old \in local :
                 /\ old.hidden /\ old.msg = row.msg /\ old.mb = row.mb
                 /\ \A i \in Done \cap OpIds :
                       Hides(i) => ~OperationOf(i, old)
    PROVE  HiddenHasOperation'
<1> SUFFICES ASSUME NEW row \in local', row.hidden
             PROVE  \E i \in OpIds : /\ ops'[i].status \in Active
                                     /\ IsTransfer(ops'[i])
                                     /\ ops'[i].msg = row.msg
                                     /\ ops'[i].src = row.mb
  BY DEF HiddenHasOperation, OperationOf
<1>1. PICK old \in local :
        /\ old.hidden /\ old.msg = row.msg /\ old.mb = row.mb
        /\ \A i \in Done \cap OpIds : Hides(i) => ~OperationOf(i, old)
  OBVIOUS
<1>2. PICK i \in OpIds : Hides(i) /\ OperationOf(i, old)
  BY <1>1 DEF HiddenHasOperation, Hides
<1>3. i \notin Done /\ ops'[i].status \in Active
  BY <1>1, <1>2 DEF Hides
<1>4. ops[i] \in Operation
  BY <1>2 DEF Hides, TypeInv, TypeOK, Absent, Active
<1>5. IsTransfer(ops'[i]) /\ ops'[i].msg = old.msg /\ ops'[i].src = old.mb
  BY <1>2, <1>4 DEF KeepsOperations, Hides, OperationOf, IsTransfer
<1> QED
  BY <1>1, <1>3, <1>5

\* Changing flags and showing a message hides nothing; hiding one hides only it.
LEMMA ReadHidesNothing ==
    ASSUME local \subseteq Location, NEW m, NEW mb, NEW v \in BOOLEAN,
           NEW row \in SetRead(m, mb, v), row.hidden
    PROVE  \E old \in local : old.hidden /\ old.msg = row.msg /\ old.mb = row.mb
<1>1. PICK old \in local :
         row = IF old.msg = m /\ old.mb = mb
               THEN [old EXCEPT !.read = v] ELSE old
  BY DEF SetRead, UpdateRows
<1> QED
  BY <1>1 DEF Location

LEMMA ShowHidesNothing ==
    ASSUME local \subseteq Location, NEW m, NEW mb,
           NEW row \in SetHidden(m, mb, FALSE), row.hidden
    PROVE  row \in local /\ ~(row.msg = m /\ row.mb = mb)
<1>1. PICK old \in local :
         row = IF old.msg = m /\ old.mb = mb
               THEN [old EXCEPT !.hidden = FALSE] ELSE old
  BY DEF SetHidden, UpdateRows
<1> QED
  BY <1>1 DEF Location

LEMMA HideHidesOne ==
    ASSUME local \subseteq Location, NEW m, NEW mb,
           NEW row \in SetHidden(m, mb, TRUE)
    PROVE  row \in local \/ (row.msg = m /\ row.mb = mb)
<1>1. PICK old \in local :
         row = IF old.msg = m /\ old.mb = mb
               THEN [old EXCEPT !.hidden = TRUE] ELSE old
  BY DEF SetHidden, UpdateRows
<1> QED
  BY <1>1 DEF Location

LEMMA InsertionKeepsActive ==
    ASSUME TypeInv, NEW kind, NEW row, NEW dst, NEW value,
           InsertOperation(kind, row, dst, value)
    PROVE  /\ \A i \in OpIds :
                 ops[i].status \in Active => ops'[i].status \in Active
           /\ \E i \in OpIds :
                 /\ ops'[i].status \in Active /\ ops'[i].kind = kind
                 /\ ops'[i].msg = row.msg /\ ops'[i].src = row.mb
<1>1. PICK i \in OpIds \ Stored, t \in {clock, clock + 1} :
        ops' = [ops EXCEPT ![i] =
              [kind |-> kind, msg |-> row.msg, src |-> row.mb, dst |-> dst,
               uid |-> row.uid, validity |-> row.validity, value |-> value,
               previous |-> row.read, status |-> "queued", attempts |-> 0,
               due |-> FALSE, stamp |-> t, seq |-> Cardinality(Stored) + 1,
               cleanup |-> FALSE]]
  BY DEF InsertOperation
<1>2. /\ ops'[i].status = "queued" /\ ops'[i].kind = kind
      /\ ops'[i].msg = row.msg /\ ops'[i].src = row.mb
      /\ \A j \in OpIds \ {i} : ops'[j] = ops[j]
  BY <1>1 DEF TypeInv, TypeOK
<1>3. "queued" \in Active
  BY DEF Active
<1> QED
  BY <1>1, <1>2, <1>3

LEMMA ProjectionUntouched ==
    ASSUME TypeInv, HiddenHasOperation, KeepsOperations, UNCHANGED local,
           \A i \in OpIds :
              ops[i].status \in Active => ops'[i].status \in Active
    PROVE  HiddenHasOperation'
<1>1. \A row \in local' : row.hidden =>
         \E old \in local :
            /\ old.hidden /\ old.msg = row.msg /\ old.mb = row.mb
            /\ \A i \in {} \cap OpIds : Hides(i) => ~OperationOf(i, old)
  OBVIOUS
<1>2. \A i \in OpIds \ {} :
         ops[i].status \in Active => ops'[i].status \in Active
  OBVIOUS
<1> QED
  BY <1>1, <1>2, HiddenKept

\* The row an operation of the user hides belongs to that operation.
LEMMA HidingIsCovered ==
    ASSUME TypeInv, HiddenHasOperation, KeepsOperations,
           NEW m \in Messages, NEW mb \in Mailboxes,
           NEW kind \in {"move", "delete"},
           NEW row \in VisibleRows(m, mb), NEW dst, NEW value,
           InsertOperation(kind, row, dst, value),
           local' = SetHidden(m, mb, TRUE)
    PROVE  HiddenHasOperation'
<1>1. row.msg = m /\ row.mb = mb
  BY DEF VisibleRows
<1>2. \A i \in OpIds : ops[i].status \in Active => ops'[i].status \in Active
  BY InsertionKeepsActive
<1>3. PICK i \in OpIds : /\ ops'[i].status \in Active /\ ops'[i].kind = kind
                         /\ ops'[i].msg = m /\ ops'[i].src = mb
  BY <1>1, InsertionKeepsActive
<1> SUFFICES ASSUME NEW r \in local', r.hidden
             PROVE  \E j \in OpIds : /\ ops'[j].status \in Active
                                     /\ IsTransfer(ops'[j])
                                     /\ ops'[j].msg = r.msg
                                     /\ ops'[j].src = r.mb
  BY DEF HiddenHasOperation, OperationOf
<1>4. CASE r.msg = m /\ r.mb = mb
  BY <1>3, <1>4 DEF IsTransfer
<1>5. CASE r \in local
  <2>1. PICK j \in OpIds : Hides(j) /\ OperationOf(j, r)
    BY <1>5 DEF HiddenHasOperation, Hides
  <2>2. ops[j] \in Operation
    BY <2>1 DEF Hides, TypeInv, TypeOK, Absent, Active
  <2> QED
    BY <1>2, <2>1, <2>2 DEF KeepsOperations, Hides, OperationOf, IsTransfer
<1> QED
  BY <1>4, <1>5, HideHidesOne DEF TypeInv, TypeOK

LEMMA NextHidden ==
    ASSUME TypeInv, HiddenHasOperation, [Next]_vars
    PROVE  HiddenHasOperation'
<1>1. KeepsOperations
  BY NextType
<1>2. CASE UNCHANGED disk
  BY <1>1, <1>2, ProjectionUntouched DEF disk
<1>3. ASSUME NEW m \in Messages, NEW mb \in Mailboxes, NEW v \in BOOLEAN,
             SetMessageRead(m, mb, v)
      PROVE  HiddenHasOperation'
  <2>1. \A i \in OpIds \ {} :
           ops[i].status \in Active => ops'[i].status \in Active
    BY <1>3, InsertionKeepsActive DEF SetMessageRead
  <2>2. \A row \in local' : row.hidden =>
           \E old \in local :
              /\ old.hidden /\ old.msg = row.msg /\ old.mb = row.mb
              /\ \A i \in {} \cap OpIds : Hides(i) => ~OperationOf(i, old)
    <3>1. local' = SetRead(m, mb, v) /\ local \subseteq Location
      BY <1>3 DEF SetMessageRead, TypeInv, TypeOK
    <3> QED
      BY <3>1, ReadHidesNothing
  <2> QED
    BY <1>1, <2>1, <2>2, HiddenKept
<1>4. ASSUME NEW m \in Messages, NEW src \in Mailboxes, NEW dst \in Mailboxes,
             NEW copy \in BOOLEAN, QueueTransfer(m, src, dst, copy)
      PROVE  HiddenHasOperation'
  <2>1. CASE copy
    <3>1. \A i \in OpIds :
             ops[i].status \in Active => ops'[i].status \in Active
      BY <1>4, InsertionKeepsActive DEF QueueTransfer
    <3> QED
      BY <1>1, <1>4, <2>1, <3>1, ProjectionUntouched DEF QueueTransfer
  <2>2. CASE ~copy
    <3>1. PICK row \in VisibleRows(m, src) :
             InsertOperation("move", row, dst, FALSE)
      BY <1>4, <2>2 DEF QueueTransfer
    <3>2. local' = SetHidden(m, src, TRUE)
      BY <1>4, <2>2 DEF QueueTransfer
    <3> QED
      BY <1>1, <3>1, <3>2, HidingIsCovered
  <2> QED
    BY <2>1, <2>2
<1>5. ASSUME NEW m \in Messages, NEW mb \in Mailboxes, DeleteMessages(m, mb)
      PROVE  HiddenHasOperation'
  <2>1. CASE QueuePermanentDelete(m, mb)
    BY <1>1, <2>1, HidingIsCovered DEF QueuePermanentDelete
  <2>2. CASE QueueTransfer(m, mb, Trash, FALSE)
    BY <1>4, <2>2, ConstantsAssumption
  <2> QED
    BY <1>5, <2>1, <2>2 DEF DeleteMessages
<1>6. ASSUME UNCHANGED local,
             \A i \in OpIds : \/ ops'[i].status = ops[i].status
                              \/ ops'[i].status \in Active
      PROVE  HiddenHasOperation'
  BY <1>1, <1>6, ProjectionUntouched
<1>7. ASSUME NEW i \in OpIds, RetryPendingOperation(i)
      PROVE  HiddenHasOperation'
  BY <1>6, <1>7 DEF RetryPendingOperation, TypeInv, TypeOK, Active, Operation
<1>8. ASSUME NEW i \in OpIds, BackoffElapses(i)
      PROVE  HiddenHasOperation'
  BY <1>6, <1>8 DEF BackoffElapses, disk, TypeInv, TypeOK
<1>9. ASSUME NEW g \in Generations, TakeRequest(g)
      PROVE  HiddenHasOperation'
  <2>1. UNCHANGED local /\ (UNCHANGED ops \/ RecoverPendingOperations)
    BY <1>9 DEF TakeRequest
  <2>2. CASE UNCHANGED ops
    BY <1>6, <2>1, <2>2
  <2>3. CASE RecoverPendingOperations
    <3>1. ASSUME NEW i \in OpIds
          PROVE  \/ ops'[i].status = ops[i].status
                 \/ ops'[i].status \in Active
      <4>1. CASE ops[i].status = "running"
        <5>1. ops[i] \in Operation
          BY <4>1 DEF TypeInv, TypeOK, Absent
        <5>2. ops'[i] = [ops[i] EXCEPT !.status = "queued"]
          BY <2>3, <4>1 DEF RecoverPendingOperations
        <5> QED
          BY <5>1, <5>2 DEF Operation, Active
      <4>2. CASE ops[i].status # "running"
        BY <2>3, <4>2 DEF RecoverPendingOperations
      <4> QED
        BY <4>1, <4>2
    <3> QED
      BY <1>6, <2>1, <3>1
  <2> QED
    BY <2>1, <2>2, <2>3
<1>10. ASSUME NEW g \in Generations, ClaimPendingOperation(g)
       PROVE  HiddenHasOperation'
  BY <1>6, <1>10
  DEF ClaimPendingOperation, Eligible, TypeInv, TypeOK, Active
<1>11. ASSUME NEW g \in Generations, CompletePendingOperation(g)
       PROVE  HiddenHasOperation'
  <2> DEFINE i == worker[g].op
  <2>1. i \in OpIds
    BY <1>11 DEF CompletePendingOperation, At, Holding, TypeInv, HeldIsStored
  <2>2. \A j \in OpIds \ {i} : ops'[j] = ops[j]
    BY <1>11, <2>1 DEF CompletePendingOperation, TypeInv, TypeOK
  <2>3. local' = IF IsTransfer(ops[i]) THEN DeleteRows(ops[i].msg, ops[i].src)
                                       ELSE local
    BY <1>11 DEF CompletePendingOperation, Op
  <2> HIDE DEF i
  <2>4. \A row \in local' : row.hidden =>
           \E old \in local :
              /\ old.hidden /\ old.msg = row.msg /\ old.mb = row.mb
              /\ \A j \in {i} \cap OpIds : Hides(j) => ~OperationOf(j, old)
    BY <2>3 DEF Hides, OperationOf, DeleteRows
  <2> QED
    BY <1>1, <2>2, <2>4, HiddenKept
<1>12. ASSUME NEW g \in Generations, FailPendingOperation(g)
       PROVE  HiddenHasOperation'
  <2> DEFINE i == worker[g].op
             retry == worker[g].retryable /\ worker[g].attempt < MaxAttempts
  <2>1. i \in OpIds /\ ops[i] \in Operation
    BY <1>12 DEF FailPendingOperation, At, Holding, TypeInv, HeldIsStored
  <2>2. /\ ops'[i].status = FailedStatus(retry)
        /\ \A j \in OpIds \ {i} : ops'[j] = ops[j]
    BY <1>12, <2>1 DEF FailPendingOperation, TypeInv, TypeOK, Operation
  <2>3. local' = IF retry THEN local ELSE RollbackProjection(ops[i])
    BY <1>12 DEF FailPendingOperation, Op
  <2> HIDE DEF i, retry
  <2>4. CASE retry
    BY <1>6, <2>2, <2>3, <2>4 DEF FailedStatus, Active
  <2>5. CASE ~retry
    <3>1. ops[i].kind \in AllKinds /\ ops[i].previous \in BOOLEAN
      BY <2>1 DEF Operation
    <3>2. \A row \in local' : row.hidden =>
             \E old \in local :
                /\ old.hidden /\ old.msg = row.msg /\ old.mb = row.mb
                /\ \A j \in {i} \cap OpIds : Hides(j) => ~OperationOf(j, old)
      <4>1. CASE IsTransfer(ops[i])
        <5>1. local' = SetHidden(ops[i].msg, ops[i].src, FALSE)
          BY <2>3, <2>5, <4>1 DEF RollbackProjection, IsTransfer
        <5>2. \A row \in local' : row.hidden =>
                 row \in local /\ ~(row.msg = ops[i].msg /\ row.mb = ops[i].src)
          BY <5>1, ShowHidesNothing DEF TypeInv, TypeOK
        <5> QED
          BY <5>2 DEF OperationOf
      <4>2. CASE ops[i].kind = "set_read"
        <5>1. local' = SetRead(ops[i].msg, ops[i].src, ops[i].previous)
          BY <2>3, <2>5, <4>2 DEF RollbackProjection, IsTransfer
        <5>2. \A row \in local' : row.hidden =>
                 \E old \in local : /\ old.hidden /\ old.msg = row.msg
                                    /\ old.mb = row.mb
          BY <3>1, <5>1, ReadHidesNothing DEF TypeInv, TypeOK
        <5> QED
          BY <4>2, <5>2 DEF Hides, IsTransfer
      <4>3. CASE ops[i].kind = "copy"
        BY <2>3, <2>5, <4>3 DEF RollbackProjection, Hides, IsTransfer
      <4> QED
        BY <3>1, <4>1, <4>2, <4>3 DEF AllKinds, IsTransfer
    <3> QED
      BY <1>1, <2>2, <3>2, HiddenKept
  <2> QED
    BY <2>4, <2>5
<1>13. CASE UserStep
  BY <1>2, <1>3, <1>4, <1>5, <1>7, <1>13
  DEF UserStep, TransferMessages, RestartAccount
<1>14. ASSUME NEW g \in Generations, LoopStep(g)
       PROVE  HiddenHasOperation'
  BY <1>2, <1>9, <1>10, <1>11, <1>12, <1>14
  DEF LoopStep, DrainStep, LeaveLoop, RequestDropped, EnterDrain,
      DrainFails, NothingToClaim, CheckGeneration,
      SelectSource, StoreFlag, CopyMessage, MoveMessage,
      MarkDeleted, ExpungeUid, CommandFails, OutcomeLost
<1>15. CASE WorldStep
  BY <1>2, <1>15
  DEF WorldStep, Crash, OtherClientExpunges, OtherClientSetsRead,
      RenumberMailbox
<1>16. CASE EnsureSupervisor \/ SyncRequestsOperations \/ UNCHANGED vars
  BY <1>2, <1>16 DEF EnsureSupervisor, SyncRequestsOperations, vars
<1> QED
  BY <1>8, <1>13, <1>14, <1>15, <1>16 DEF Next

\* A message is hidden only while an unfinished move or delete of it is in
\* the queue, whatever fails, crashes or restarts (queue_transfer,
\* complete_pending_operation, rollback_projection).
THEOREM HiddenIsCovered == Spec => []HiddenHasOperation
<1>1. Init => HiddenHasOperation
  BY DEF Init, HiddenHasOperation
<1>2. TypeInv /\ HiddenHasOperation /\ [Next]_vars => HiddenHasOperation'
  BY NextHidden
<1> QED
  BY InitType, NextType, <1>1, <1>2, PTL DEF Spec

-----------------------------------------------------------------------------
(* UIDs identify messages *)

\* The UIDs of Init; what a copy or a move files later has a higher one.
LastUid == Cardinality(Messages)

\* A location and what is aimed at it name one message of the server, in the
\* numbering the location was synchronised under, or nothing.
UidsAreBounded ==
    /\ \A mb \in Mailboxes : uidNext[mb] > LastUid /\ validity[mb] >= 1
    /\ \A row \in local : row.uid <= LastUid /\ row.validity = 1
    /\ \A i \in Stored : ops[i].uid <= LastUid /\ ops[i].validity = 1
    /\ \A e \in remote : e.validity >= 1
UidsIdentify ==
    \A e \in remote :
        /\ \A row \in local : e.uid = row.uid => e.msg = row.msg
        /\ \A i \in Stored : e.uid = ops[i].uid => e.msg = ops[i].msg
Numbered == UidsAreBounded /\ UidsIdentify

(* What a step does to an operation, a row and an entry *)

QueuedFrom(o, row) == /\ o.msg = row.msg /\ o.src = row.mb
                      /\ o.uid = row.uid /\ o.validity = row.validity
                      /\ o.status = "queued"

Completed(i) ==
    \E g \in Generations : /\ CompletePendingOperation(g)
                           /\ worker[g].op = i
                           /\ ops'[i].cleanup = worker[g].cleanup
SameOutcome(i) == /\ ops[i].status = "succeeded"
                  /\ ops'[i].cleanup = ops[i].cleanup

\* Every stored operation was stored, aimed at the same UID, and done as it
\* was or completed by this step; or it is a new one queued from a row.
OperationsStay ==
    \A i \in Stored' :
        \/ /\ i \in Stored /\ ops[i] \in Operation
           /\ ops'[i].uid = ops[i].uid /\ ops'[i].validity = ops[i].validity
           /\ ops'[i].status = "succeeded" => SameOutcome(i) \/ Completed(i)
        \/ i \notin Stored /\ \E row \in local : QueuedFrom(ops'[i], row)

\* Every row of a message was there, under the same UID.
RowsStay ==
    \A row \in local' : \E old \in local :
        /\ row.msg = old.msg /\ row.mb = old.mb
        /\ row.uid = old.uid /\ row.validity = old.validity

Marking(e) ==
    \E g \in Generations : MarkDeleted(g) /\ e \in Targets(Op(g))
Kept(e, f) == /\ f.msg = e.msg /\ f.mb = e.mb /\ f.uid = e.uid
              /\ e.validity <= f.validity
              /\ e.deleted => f.deleted
              /\ f.deleted => e.deleted \/ Marking(e)
Arrived(e, f) == /\ f.msg = e.msg /\ f.mb \in Mailboxes
                 /\ f.uid = uidNext[f.mb] /\ f.validity = validity[f.mb]
                 /\ f.deleted = e.deleted

\* Every entry was there, perhaps renumbered or marked by this step, or
\* arrives at the next UID of its mailbox, marked as it was.
EntriesStay == \A f \in remote' : \E e \in remote : Kept(e, f) \/ Arrived(e, f)
UidsGrow == \A mb \in Mailboxes : /\ uidNext'[mb] >= uidNext[mb]
                                  /\ validity'[mb] >= validity[mb]

LEMMA HeldOperation ==
    ASSUME TypeInv, NEW g \in Generations, worker[g].pc \in Holding
    PROVE  /\ worker[g].op \in Stored /\ worker[g].op \in OpIds
           /\ ops[worker[g].op] \in Operation /\ Op(g) \in Operation
<1>1. worker[g].op \in OpIds /\ ops[worker[g].op] \in Operation
  BY DEF TypeInv, HeldIsStored
<1>2. ops[worker[g].op].status # "absent"
  BY <1>1 DEF Operation, Active, Settled
<1> QED
  BY <1>1, <1>2 DEF Stored, Op

LEMMA StoredOperation ==
    ASSUME TypeInv, NEW i \in Stored
    PROVE  i \in OpIds /\ ops[i] \in Operation
  BY StoredIsOperation DEF Stored, TypeInv

LEMMA InsertionQueues ==
    ASSUME TypeInv, NEW kind, NEW row \in local, NEW dst, NEW value,
           InsertOperation(kind, row, dst, value)
    PROVE  OperationsStay
<1>1. PICK i \in OpIds \ Stored, t \in {clock, clock + 1} :
        ops' = [ops EXCEPT ![i] =
              [kind |-> kind, msg |-> row.msg, src |-> row.mb, dst |-> dst,
               uid |-> row.uid, validity |-> row.validity, value |-> value,
               previous |-> row.read, status |-> "queued", attempts |-> 0,
               due |-> FALSE, stamp |-> t, seq |-> Cardinality(Stored) + 1,
               cleanup |-> FALSE]]
  BY DEF InsertOperation
<1>2. QueuedFrom(ops'[i], row) /\ \A j \in OpIds \ {i} : ops'[j] = ops[j]
  BY <1>1 DEF TypeInv, TypeOK, QueuedFrom
<1>3. \A j \in OpIds \ {i} : ops'[j].status # "absent" =>
         j \in Stored /\ ops[j] \in Operation
  BY <1>2, StoredIsOperation DEF Stored, TypeInv
<1> QED
  BY <1>1, <1>2, <1>3 DEF OperationsStay, Stored, SameOutcome

\* A step that changes one operation in what it is not aimed by.
LEMMA ChangeStays ==
    ASSUME TypeInv, NEW i \in OpIds, ops[i] \in Operation,
           \A j \in OpIds \ {i} : ops'[j] = ops[j],
           ops'[i].uid = ops[i].uid, ops'[i].validity = ops[i].validity,
           ops'[i].status = "succeeded" => Completed(i)
    PROVE  OperationsStay
<1>1. i \in Stored
  BY DEF Stored, Operation, Active, Settled
<1>2. \A j \in OpIds \ {i} : ops'[j].status # "absent" =>
         j \in Stored /\ ops[j] \in Operation
  BY StoredIsOperation DEF Stored, TypeInv
<1> QED
  BY <1>1, <1>2 DEF OperationsStay, Stored, SameOutcome

LEMMA UntouchedStays == TypeInv /\ UNCHANGED ops => OperationsStay
  BY StoredIsOperation DEF OperationsStay, Stored, TypeInv, SameOutcome

LEMMA NextOperations ==
    ASSUME TypeInv, [Next]_vars
    PROVE  OperationsStay
<1> USE DEF TypeInv, TypeOK
<1>1. CASE UNCHANGED ops
  BY <1>1, UntouchedStays
<1>2. ASSUME NEW m, NEW mb, NEW row \in VisibleRows(m, mb), NEW kind,
             NEW dst, NEW value, InsertOperation(kind, row, dst, value)
      PROVE  OperationsStay
  <2>1. row \in local
    BY DEF VisibleRows
  <2> QED
    BY <1>2, <2>1, InsertionQueues
<1>3. CASE UserStep
  <2>1. ASSUME NEW m, NEW src, NEW dst, NEW copy, QueueTransfer(m, src, dst, copy)
        PROVE  OperationsStay
    <3>1. PICK row \in VisibleRows(m, src) :
             InsertOperation(IF copy THEN "copy" ELSE "move", row, dst, FALSE)
      BY <2>1 DEF QueueTransfer
    <3> QED
      BY <1>2, <3>1
  <2>2. ASSUME NEW m, NEW mb, QueuePermanentDelete(m, mb)
        PROVE  OperationsStay
    BY <1>2, <2>2 DEF QueuePermanentDelete
  <2>3. ASSUME NEW m, NEW mb, NEW v, SetMessageRead(m, mb, v)
        PROVE  OperationsStay
    BY <1>2, <2>3 DEF SetMessageRead
  <2>4. ASSUME NEW i \in OpIds, RetryPendingOperation(i)
        PROVE  OperationsStay
    <3>1. ops[i] \in Operation
      BY <2>4 DEF RetryPendingOperation, Absent
    <3>2. /\ \A j \in OpIds \ {i} : ops'[j] = ops[j]
          /\ ops'[i] = [ops[i] EXCEPT !.status = "queued"]
      BY <2>4 DEF RetryPendingOperation
    <3>3. /\ ops'[i].uid = ops[i].uid /\ ops'[i].validity = ops[i].validity
          /\ ops'[i].status # "succeeded"
      BY <3>1, <3>2 DEF Operation
    <3> QED
      BY <3>1, <3>2, <3>3, ChangeStays
  <2>5. CASE RestartAccount
    BY <1>1, <2>5 DEF RestartAccount, disk
  <2> QED
    BY <1>3, <2>1, <2>2, <2>3, <2>4, <2>5
    DEF UserStep, TransferMessages, DeleteMessages
<1>4. ASSUME NEW i \in OpIds, BackoffElapses(i)
      PROVE  OperationsStay
  <2>1. ops[i] \in Operation
    BY <1>4 DEF BackoffElapses, Absent
  <2>2. /\ \A j \in OpIds \ {i} : ops'[j] = ops[j]
        /\ ops'[i] = [ops[i] EXCEPT !.due = TRUE]
    BY <1>4 DEF BackoffElapses
  <2>3. /\ ops'[i].uid = ops[i].uid /\ ops'[i].validity = ops[i].validity
        /\ ops'[i].status # "succeeded"
    BY <1>4, <2>1, <2>2 DEF BackoffElapses, Operation
  <2> QED
    BY <2>1, <2>2, <2>3, ChangeStays
<1>5. ASSUME NEW g \in Generations, LoopStep(g)
      PROVE  OperationsStay
  <2>1. CASE TakeRequest(g)
    <3>1. CASE RecoverPendingOperations
      <4> SUFFICES ASSUME NEW i \in Stored'
                   PROVE  /\ i \in Stored /\ ops[i] \in Operation
                          /\ ops'[i].uid = ops[i].uid
                          /\ ops'[i].validity = ops[i].validity
                          /\ ops'[i].status = "succeeded" => SameOutcome(i)
        BY DEF OperationsStay
      <4>1. i \in OpIds /\ ops'[i].status # "absent"
        BY DEF Stored
      <4>2. ops'[i] = IF ops[i].status = "running"
                      THEN [ops[i] EXCEPT !.status = "queued"] ELSE ops[i]
        BY <3>1, <4>1 DEF RecoverPendingOperations
      <4>3. i \in Stored
        BY <4>1, <4>2 DEF Stored
      <4>4. ops[i] \in Operation
        BY <4>3, StoredOperation
      <4> QED
        BY <4>2, <4>3, <4>4 DEF Operation, SameOutcome
    <3> QED
      BY <1>1, <2>1, <3>1 DEF TakeRequest
  <2>2. CASE ClaimPendingOperation(g)
    <3>1. PICK i \in Eligible :
            ops' = [ops EXCEPT ![i].status = "running", ![i].attempts = @ + 1]
      BY <2>2 DEF ClaimPendingOperation
    <3>2. i \in OpIds /\ ops[i] \in Operation
      BY DEF Eligible, Absent
    <3>3. /\ \A j \in OpIds \ {i} : ops'[j] = ops[j]
          /\ ops'[i] = [ops[i] EXCEPT !.status = "running",
                                      !.attempts = ops[i].attempts + 1]
      BY <3>1, <3>2
    <3>4. /\ ops'[i].uid = ops[i].uid /\ ops'[i].validity = ops[i].validity
          /\ ops'[i].status # "succeeded"
      BY <3>2, <3>3 DEF Operation
    <3> QED
      BY <3>2, <3>3, <3>4, ChangeStays
  <2>3. CASE CompletePendingOperation(g) \/ FailPendingOperation(g)
    <3> DEFINE i == worker[g].op
    <3>1. i \in OpIds /\ ops[i] \in Operation
      BY <2>3, HeldOperation
      DEF CompletePendingOperation, FailPendingOperation, At, Holding
    <3>2. \A j \in OpIds \ {i} : ops'[j] = ops[j]
      BY <2>3, <3>1 DEF CompletePendingOperation, FailPendingOperation
    <3>3. ops'[i].uid = ops[i].uid /\ ops'[i].validity = ops[i].validity
      BY <2>3, <3>1
      DEF CompletePendingOperation, FailPendingOperation, Operation
    <3>4. ops'[i].status = "succeeded" => Completed(i)
      <4>1. CASE CompletePendingOperation(g)
        <5>1. ops'[i].cleanup = worker[g].cleanup
          BY <4>1, <3>1 DEF CompletePendingOperation, Operation
        <5> QED
          BY <4>1, <5>1 DEF Completed
      <4>2. CASE FailPendingOperation(g)
        BY <4>2, <3>1 DEF FailPendingOperation, FailedStatus, Operation
      <4> QED
        BY <2>3, <4>1, <4>2
    <3> HIDE DEF i
    <3> QED
      BY <3>1, <3>2, <3>3, <3>4, ChangeStays
  <2> QED
    BY <1>1, <1>5, <2>1, <2>2, <2>3
    DEF LoopStep, DrainStep, LeaveLoop, RequestDropped, EnterDrain,
        DrainFails, NothingToClaim, CheckGeneration,
        SelectSource, StoreFlag, CopyMessage, MoveMessage,
        MarkDeleted, ExpungeUid, CommandFails, OutcomeLost, disk
<1>6. CASE WorldStep \/ EnsureSupervisor \/ SyncRequestsOperations
           \/ UNCHANGED vars
  BY <1>1, <1>6
  DEF WorldStep, Crash, OtherClientExpunges, OtherClientSetsRead,
      RenumberMailbox, EnsureSupervisor, SyncRequestsOperations, vars, disk
<1> QED
  BY <1>3, <1>4, <1>5, <1>6 DEF Next

\* The projection changes flags, hides, shows and removes rows only.
LEMMA ProjectionKeepsPlaces ==
    ASSUME local \subseteq Location, NEW m, NEW mb, NEW v \in BOOLEAN,
           \/ local' = local \/ local' = SetRead(m, mb, v)
           \/ local' = SetHidden(m, mb, v) \/ local' = DeleteRows(m, mb)
    PROVE  RowsStay
<1> SUFFICES ASSUME NEW row \in local'
             PROVE  \E old \in local :
                       /\ row.msg = old.msg /\ row.mb = old.mb
                       /\ row.uid = old.uid /\ row.validity = old.validity
  BY DEF RowsStay
<1>1. CASE local' = local \/ local' = DeleteRows(m, mb)
  BY <1>1 DEF DeleteRows
<1>2. CASE local' = SetRead(m, mb, v)
  <2>1. PICK old \in local : row = IF old.msg = m /\ old.mb = mb
                                   THEN [old EXCEPT !.read = v] ELSE old
    BY <1>2 DEF SetRead, UpdateRows
  <2> QED
    BY <2>1 DEF Location
<1>3. CASE local' = SetHidden(m, mb, v)
  <2>1. PICK old \in local : row = IF old.msg = m /\ old.mb = mb
                                   THEN [old EXCEPT !.hidden = v] ELSE old
    BY <1>3 DEF SetHidden, UpdateRows
  <2> QED
    BY <2>1 DEF Location
<1> QED
  BY <1>1, <1>2, <1>3

LEMMA NextRows ==
    ASSUME TypeInv, [Next]_vars
    PROVE  RowsStay
<1>0. local \subseteq Location
  BY DEF TypeInv, TypeOK
<1>1. CASE UNCHANGED local
  BY <1>0, <1>1, ProjectionKeepsPlaces
<1>2. CASE UserStep
  <2>1. ASSUME NEW m, NEW mb, NEW v \in BOOLEAN, SetMessageRead(m, mb, v)
        PROVE  RowsStay
    BY <1>0, <2>1, ProjectionKeepsPlaces DEF SetMessageRead
  <2>2. ASSUME NEW m, NEW src, NEW dst, NEW copy, QueueTransfer(m, src, dst, copy)
        PROVE  RowsStay
    <3>1. local' = local \/ local' = SetHidden(m, src, TRUE)
      BY <2>2 DEF QueueTransfer
    <3> QED
      BY <1>0, <3>1, ProjectionKeepsPlaces
  <2>3. ASSUME NEW m, NEW mb, QueuePermanentDelete(m, mb)
        PROVE  RowsStay
    BY <1>0, <2>3, ProjectionKeepsPlaces DEF QueuePermanentDelete
  <2> QED
    BY <1>1, <1>2, <2>1, <2>2, <2>3
    DEF UserStep, TransferMessages, DeleteMessages, RetryPendingOperation,
        RestartAccount, disk
<1>3. ASSUME NEW g \in Generations, LoopStep(g)
      PROVE  RowsStay
  <2>1. CASE CompletePendingOperation(g)
    <3>1. \/ local' = local
          \/ local' = DeleteRows(Op(g).msg, Op(g).src)
      BY <2>1 DEF CompletePendingOperation
    <3> QED
      BY <1>0, <3>1, ProjectionKeepsPlaces
  <2>2. CASE FailPendingOperation(g)
    <3>1. Op(g) \in Operation
      BY <2>2, HeldOperation DEF FailPendingOperation, At, Holding
    <3>2. Op(g).previous \in BOOLEAN /\ Op(g).kind \in AllKinds
      BY <3>1 DEF Operation
    <3>3. local' = local \/ local' = RollbackProjection(Op(g))
      BY <2>2 DEF FailPendingOperation
    <3>4. \/ local' = local
          \/ local' = SetRead(Op(g).msg, Op(g).src, Op(g).previous)
          \/ local' = SetHidden(Op(g).msg, Op(g).src, FALSE)
      BY <3>2, <3>3 DEF RollbackProjection, AllKinds, IsTransfer
    <3> QED
      BY <1>0, <3>2, <3>4, ProjectionKeepsPlaces
  <2> QED
    BY <1>1, <1>3, <2>1, <2>2
    DEF LoopStep, DrainStep, LeaveLoop, TakeRequest, RequestDropped,
        EnterDrain, DrainFails, ClaimPendingOperation, NothingToClaim,
        CheckGeneration, SelectSource, StoreFlag, CopyMessage, MoveMessage,
        MarkDeleted, ExpungeUid, CommandFails, OutcomeLost, disk
<1>4. CASE \/ WorldStep \/ EnsureSupervisor \/ SyncRequestsOperations
           \/ UNCHANGED vars
           \/ \E i \in OpIds : BackoffElapses(i)
  BY <1>1, <1>4
  DEF WorldStep, Crash, OtherClientExpunges, OtherClientSetsRead,
      RenumberMailbox, EnsureSupervisor, SyncRequestsOperations,
      BackoffElapses, vars, disk
<1> QED
  BY <1>2, <1>3, <1>4 DEF Next

LEMMA MarkingKeeps ==
    ASSUME TypeInv, UNCHANGED <<validity, uidNext>>,
           \A f \in remote' : \E e \in remote, r \in BOOLEAN :
              \/ f = e \/ f = [e EXCEPT !.read = r]
              \/ f = [e EXCEPT !.deleted = TRUE] /\ Marking(e)
    PROVE  EntriesStay /\ UidsGrow
<1>1. EntriesStay
  <2> SUFFICES ASSUME NEW f \in remote' PROVE \E e \in remote : Kept(e, f)
    BY DEF EntriesStay
  <2>1. PICK e \in remote, r \in BOOLEAN :
           \/ f = e \/ f = [e EXCEPT !.read = r]
           \/ f = [e EXCEPT !.deleted = TRUE] /\ Marking(e)
    OBVIOUS
  <2>2. e \in Entry
    BY DEF TypeInv, TypeOK
  <2> QED
    BY <2>1, <2>2 DEF Kept, Entry
<1>2. UidsGrow
  BY DEF UidsGrow, TypeInv, TypeOK
<1> QED
  BY <1>1, <1>2

\* An arrival is filed at the next UID of the mailbox it arrives in.
LEMMA ArrivalArrives ==
    ASSUME TypeInv, NEW e \in remote, NEW dst \in Mailboxes
    PROVE  /\ Arrived(e, ArrivalOf(e, dst))
           /\ ArrivalOf(e, dst).deleted = e.deleted
           /\ ArrivalOf(e, dst).uid = uidNext[dst]
           /\ ArrivalOf(e, dst).msg = e.msg
<1>1. e \in Entry
  BY DEF TypeInv, TypeOK
<1> QED
  BY <1>1 DEF Arrived, ArrivalOf, Entry

LEMMA FilingGrows ==
    ASSUME TypeInv, NEW o, o.dst \in Mailboxes, AllocateUid(o),
           UNCHANGED validity
    PROVE  UidsGrow
  BY DEF UidsGrow, AllocateUid, TypeInv, TypeOK

LEMMA NextEntries ==
    ASSUME TypeInv, [Next]_vars
    PROVE  EntriesStay /\ UidsGrow
<1>1. CASE UNCHANGED server
  BY <1>1, MarkingKeeps DEF server
<1>2. ASSUME NEW g \in Generations, LoopStep(g)
      PROVE  EntriesStay /\ UidsGrow
  <2>1. worker[g].pc \in {"copy", "move"} => Op(g).dst \in Mailboxes
    BY DEF TypeInv, HeldIsStored, Holding, Op
  <2>2. CASE StoreFlag(g)
    <3>1. Op(g).value \in BOOLEAN
      BY <2>2, HeldOperation DEF StoreFlag, At, Holding, Operation
    <3>2. \A f \in remote' : \E e \in remote :
             f = e \/ f = [e EXCEPT !.read = Op(g).value]
      BY <2>2 DEF StoreFlag
    <3> QED
      BY <2>2, <3>1, <3>2, MarkingKeeps DEF StoreFlag
  <2>3. CASE MarkDeleted(g)
    <3>1. \A f \in remote' : \E e \in remote :
             \/ f = e
             \/ f = [e EXCEPT !.deleted = TRUE] /\ e \in Targets(Op(g))
      BY <2>3 DEF MarkDeleted, Targets
    <3>2. \A e \in Targets(Op(g)) : Marking(e)
      BY <2>3 DEF Marking
    <3> QED
      BY <2>3, <3>1, <3>2, MarkingKeeps DEF MarkDeleted
  <2>4. CASE ExpungeUid(g)
    BY <2>4, MarkingKeeps DEF ExpungeUid
  <2>5. CASE CopyMessage(g) \/ MoveMessage(g)
    <3>1. Op(g).dst \in Mailboxes /\ AllocateUid(Op(g)) /\ UNCHANGED validity
      BY <2>1, <2>5 DEF CopyMessage, MoveMessage, At
    <3>2. UidsGrow
      BY <3>1, FilingGrows
    <3>3. ASSUME NEW f \in remote'
          PROVE  \E e \in remote : Kept(e, f) \/ Arrived(e, f)
      <4>1. CASE f \in remote
        <5>1. Kept(f, f)
          BY <4>1 DEF Kept, TypeInv, TypeOK, Entry
        <5> QED
          BY <4>1, <5>1
      <4>2. CASE f \notin remote
        <5>1. PICK e \in Targets(Op(g)) : f = ArrivalOf(e, Op(g).dst)
          BY <2>5, <4>2 DEF CopyMessage, MoveMessage
        <5>2. e \in remote
          BY DEF Targets
        <5> QED
          BY <3>1, <5>1, <5>2, ArrivalArrives
      <4> QED
        BY <4>1, <4>2
    <3> QED
      BY <3>2, <3>3 DEF EntriesStay
  <2> QED
    BY <1>1, <1>2, <2>2, <2>3, <2>4, <2>5
    DEF LoopStep, DrainStep, LeaveLoop, TakeRequest, RequestDropped,
        EnterDrain, DrainFails, ClaimPendingOperation, NothingToClaim,
        CheckGeneration, SelectSource, CommandFails, CompletePendingOperation,
        FailPendingOperation, OutcomeLost
<1>3. CASE WorldStep
  <2>1. ASSUME NEW e \in remote, OtherClientExpunges(e)
        PROVE  EntriesStay /\ UidsGrow
    BY <2>1, MarkingKeeps DEF OtherClientExpunges
  <2>2. ASSUME NEW e \in remote, OtherClientSetsRead(e)
        PROVE  EntriesStay /\ UidsGrow
    <3>1. e.read \in BOOLEAN
      BY DEF TypeInv, TypeOK, Entry
    <3>2. \A f \in remote' : f \in remote \/ f = [e EXCEPT !.read = ~e.read]
      BY <2>2 DEF OtherClientSetsRead
    <3> QED
      BY <2>2, <3>1, <3>2, MarkingKeeps DEF OtherClientSetsRead
  <2>3. ASSUME NEW mb \in Mailboxes, RenumberMailbox(mb)
        PROVE  EntriesStay /\ UidsGrow
    <3>1. UidsGrow
      BY <2>3 DEF RenumberMailbox, UidsGrow, TypeInv, TypeOK
    <3>2. ASSUME NEW f \in remote' PROVE \E e \in remote : Kept(e, f)
      <4>1. PICK e \in remote :
               f = IF e.mb = mb THEN [e EXCEPT !.validity = @ + 1] ELSE e
        BY <2>3 DEF RenumberMailbox
      <4>2. e \in Entry
        BY DEF TypeInv, TypeOK
      <4>3. Kept(e, f)
        BY <4>1, <4>2 DEF Kept, Entry
      <4> QED
        BY <4>3
    <3> QED
      BY <3>1, <3>2 DEF EntriesStay
  <2> QED
    BY <1>1, <1>3, <2>1, <2>2, <2>3 DEF WorldStep, Crash
<1>4. CASE \/ UserStep \/ EnsureSupervisor \/ SyncRequestsOperations
           \/ UNCHANGED vars
           \/ \E i \in OpIds : BackoffElapses(i)
  BY <1>1, <1>4
  DEF UserStep, SetMessageRead, TransferMessages, DeleteMessages,
      RetryPendingOperation, RestartAccount, EnsureSupervisor,
      SyncRequestsOperations, BackoffElapses, vars
<1> QED
  BY <1>2, <1>3, <1>4 DEF Next

(* The UIDs an operation is aimed at stay those of its message *)

LEMMA InitNumbered == Init => Numbered
<1> SUFFICES ASSUME Init PROVE Numbered
  OBVIOUS
<1>1. PICK place \in [Messages -> Mailboxes],
           uid \in [Messages -> 1..Cardinality(Messages)] :
        /\ \A m, n \in Messages : m # n => uid[m] # uid[n]
        /\ local = {[msg |-> m, mb |-> place[m], validity |-> 1,
                     uid |-> uid[m], read |-> FALSE, hidden |-> FALSE] :
                       m \in Messages}
        /\ remote = {[msg |-> m, mb |-> place[m], validity |-> 1,
                      uid |-> uid[m], read |-> FALSE, deleted |-> FALSE] :
                        m \in Messages}
        /\ validity = [mb \in Mailboxes |-> 1]
        /\ uidNext = [mb \in Mailboxes |-> Cardinality(Messages) + 1]
        /\ ops = [i \in OpIds |-> Absent]
  BY DEF Init
<1>2. Stored = {}
  BY <1>1 DEF Stored, Absent
<1>3. LastUid \in Nat /\ \A m \in Messages : uid[m] <= LastUid
  BY CountIsNat DEF LastUid
<1>4. ASSUME NEW row \in local
      PROVE  \E m \in Messages : /\ row.msg = m /\ row.uid = uid[m]
                                 /\ row.validity = 1
  BY <1>1
<1>5. ASSUME NEW e \in remote
      PROVE  \E m \in Messages : /\ e.msg = m /\ e.uid = uid[m]
                                 /\ e.validity = 1
  BY <1>1
<1>6. UidsAreBounded
  <2>1. \A row \in local : row.uid <= LastUid /\ row.validity = 1
    BY <1>3, <1>4
  <2>2. \A e \in remote : e.validity >= 1
    BY <1>5
  <2>3. \A mb \in Mailboxes : uidNext[mb] > LastUid /\ validity[mb] >= 1
    BY <1>1, <1>3 DEF LastUid
  <2> QED
    BY <1>2, <2>1, <2>2, <2>3 DEF UidsAreBounded
<1>7. UidsIdentify
  <2> SUFFICES ASSUME NEW e \in remote, NEW row \in local, e.uid = row.uid
               PROVE  e.msg = row.msg
    BY <1>2 DEF UidsIdentify
  <2> QED
    BY <1>1, <1>4, <1>5
<1> QED
  BY <1>6, <1>7 DEF Numbered

LEMMA NextNumbered ==
    ASSUME TypeInv, Numbered, [Next]_vars
    PROVE  Numbered'
<1>1. OperationsStay /\ RowsStay /\ EntriesStay /\ UidsGrow /\ KeepsOperations
  BY NextOperations, NextRows, NextEntries, NextType
<1>2. TypeOK /\ TypeOK'
  BY NextType DEF TypeInv
<1>3. LastUid \in Nat /\ LastUid' = LastUid
  BY CountIsNat DEF LastUid
<1>4. UidsAreBounded'
  <2>1. ASSUME NEW mb \in Mailboxes
        PROVE  uidNext'[mb] > LastUid /\ validity'[mb] >= 1
    BY <1>1, <1>2, <1>3 DEF UidsGrow, TypeOK, Numbered, UidsAreBounded
  <2>2. ASSUME NEW row \in local'
        PROVE  row.uid <= LastUid /\ row.validity = 1
    BY <1>1 DEF RowsStay, Numbered, UidsAreBounded
  <2>3. ASSUME NEW i \in Stored'
        PROVE  ops'[i].uid <= LastUid /\ ops'[i].validity = 1
    BY <1>1 DEF OperationsStay, QueuedFrom, Numbered, UidsAreBounded
  <2>4. ASSUME NEW f \in remote' PROVE f.validity >= 1
    <3>1. PICK e \in remote : Kept(e, f) \/ Arrived(e, f)
      BY <1>1 DEF EntriesStay
    <3>2. e.validity \in Nat /\ f.validity \in Nat
      BY <1>2 DEF TypeOK, Entry
    <3> QED
      BY <3>1, <3>2 DEF Kept, Arrived, Numbered, UidsAreBounded
  <2> QED
    BY <1>3, <2>1, <2>2, <2>3, <2>4 DEF UidsAreBounded
<1>5. UidsIdentify'
  \* An entry with a bounded UID was there.
  <2>1. ASSUME NEW f \in remote', f.uid <= LastUid
        PROVE  \E e \in remote : Kept(e, f)
    <3>1. PICK e \in remote : Kept(e, f) \/ Arrived(e, f)
      BY <1>1 DEF EntriesStay
    <3>2. ~Arrived(e, f)
      BY <1>2, <1>3, <2>1 DEF Arrived, Numbered, UidsAreBounded, TypeOK
    <3> QED
      BY <3>1, <3>2
  <2>2. ASSUME NEW f \in remote', NEW row \in local', f.uid = row.uid
        PROVE  f.msg = row.msg
    <3>1. PICK old \in local : row.msg = old.msg /\ row.uid = old.uid
      BY <1>1 DEF RowsStay
    <3>2. f.uid <= LastUid
      BY <2>2, <3>1 DEF Numbered, UidsAreBounded
    <3>3. PICK e \in remote : Kept(e, f)
      BY <2>1, <3>2
    <3> QED
      BY <2>2, <3>1, <3>3 DEF Kept, Numbered, UidsIdentify
  <2>3. ASSUME NEW f \in remote', NEW i \in Stored', f.uid = ops'[i].uid
        PROVE  f.msg = ops'[i].msg
    <3>1. f.uid <= LastUid
      BY <1>4, <1>3, <2>3 DEF UidsAreBounded
    <3>2. PICK e \in remote : Kept(e, f)
      BY <2>1, <3>1
    <3>3. CASE i \in Stored /\ ops[i] \in Operation /\ ops'[i].uid = ops[i].uid
      <4>1. ops'[i].msg = ops[i].msg
        BY <1>1, <3>3 DEF KeepsOperations, Stored
      <4> QED
        BY <2>3, <3>2, <3>3, <4>1 DEF Kept, Numbered, UidsIdentify
    <3>4. CASE \E row \in local : QueuedFrom(ops'[i], row)
      BY <2>3, <3>2, <3>4 DEF Kept, QueuedFrom, Numbered, UidsIdentify
    <3> QED
      BY <1>1, <3>3, <3>4 DEF OperationsStay
  <2> QED
    BY <2>2, <2>3 DEF UidsIdentify
<1> QED
  BY <1>4, <1>5 DEF Numbered

\* Whatever is at the UID of an operation is its message, and new arrivals
\* are never there.
LEMMA TargetsAreTheMessage ==
    ASSUME TypeInv, Numbered, NEW i \in Stored, NEW e \in Targets(ops[i])
    PROVE  e.msg = ops[i].msg /\ e.uid <= LastUid /\ e \in remote
  BY DEF Targets, IsTarget, Numbered, UidsIdentify, UidsAreBounded

LEMMA TargetsShrink ==
    ASSUME TypeInv, Numbered, [Next]_vars, NEW i \in Stored,
           NEW f \in remote', IsTarget(f, ops[i])
    PROVE  \E e \in Targets(ops[i]) : e.deleted => f.deleted
<1>1. PICK e \in remote : Kept(e, f) \/ Arrived(e, f)
  BY NextEntries DEF EntriesStay
<1>2. /\ ops[i] \in Operation /\ ops[i].uid <= LastUid
      /\ ops[i].validity = 1
  BY StoredOperation DEF Numbered, UidsAreBounded
<1>3. LastUid \in Nat /\ e.validity \in Nat /\ e.validity >= 1
  BY CountIsNat DEF LastUid, TypeInv, TypeOK, Entry, Numbered, UidsAreBounded
<1>4. ~Arrived(e, f)
  BY <1>2, <1>3 DEF Arrived, IsTarget, Numbered, UidsAreBounded, TypeInv, TypeOK
<1>5. Kept(e, f) /\ e.validity = 1
  BY <1>1, <1>2, <1>3, <1>4 DEF Kept, IsTarget
<1>6. IsTarget(e, ops[i])
  BY <1>2, <1>5 DEF Kept, IsTarget
<1> QED
  BY <1>5, <1>6 DEF Kept, Targets


(* What a step does to the loops *)

Session(g) == \/ SelectSource(g) \/ StoreFlag(g) \/ CopyMessage(g)
              \/ MoveMessage(g) \/ MarkDeleted(g) \/ ExpungeUid(g)
              \/ CommandFails(g)

\* Every loop stays as it is, stands before its first command, or has just
\* sent one.
LoopMoves(h) ==
    \/ worker'[h] = worker[h]
    \/ worker'[h].pc \in {"absent", "waiting", "entering", "draining",
                          "claimed", "select"}
    \/ Session(h)

LEMMA OnlyOneMoves ==
    ASSUME TypeInv, NEW g \in Generations, LoopStep(g)
    PROVE  OthersStay(g)
<1> SUFFICES ASSUME NEW h \in Generations \ {g}
             PROVE  worker'[h] = worker[h]
  BY DEF OthersStay
<1>1. ASSUME NEW w, worker' = [worker EXCEPT ![g] = w]
      PROVE  worker'[h] = worker[h]
  BY <1>1 DEF TypeInv, TypeOK
<1>2. CASE Return(g) \/ UNCHANGED worker
           \/ \E pc \in Stage : Goto(g, pc)
           \/ \E retryable \in BOOLEAN : GiveUp(g, retryable)
  BY <1>2 DEF Return, Goto, GiveUp, TypeInv, TypeOK
<1>3. CASE LeaveLoop(g) \/ ClaimPendingOperation(g)
           \/ CompletePendingOperation(g) \/ FailPendingOperation(g)
  BY <1>1, <1>2, <1>3
  DEF LeaveLoop, ClaimPendingOperation, CompletePendingOperation,
      FailPendingOperation
<1>4. CASE TakeRequest(g) \/ RequestDropped(g) \/ EnterDrain(g)
           \/ DrainFails(g) \/ NothingToClaim(g) \/ CheckGeneration(g)
           \/ OutcomeLost(g)
  BY <1>2, <1>4
  DEF TakeRequest, RequestDropped, EnterDrain, DrainFails, NothingToClaim,
      CheckGeneration, OutcomeLost, Stage
<1>5. CASE Session(g)
  <2>1. \A pc : Goto(g, pc) => worker'[h] = worker[h]
    BY DEF Goto, TypeInv, TypeOK
  <2>2. \A retryable : GiveUp(g, retryable) => worker'[h] = worker[h]
    BY DEF GiveUp, TypeInv, TypeOK
  <2>3. \A pc : Answered(g, pc) => worker'[h] = worker[h]
    BY <2>1, <2>2 DEF Answered
  <2>4. CASE MarkDeleted(g)
    <3>1. CASE worker' = [worker EXCEPT ![g].pc = "completing",
                                        ![g].cleanup = TRUE]
      BY <3>1 DEF TypeInv, TypeOK
    <3> QED
      BY <2>1, <2>2, <2>4, <3>1 DEF MarkDeleted
  <2>5. CASE SelectSource(g)
    <3>1. GiveUp(g, FALSE) \/ \E pc : Goto(g, pc)
      BY <2>5 DEF SelectSource
    <3> QED
      BY <2>1, <2>2, <3>1
  <2>6. CASE CommandFails(g)
    BY <2>2, <2>6 DEF CommandFails
  <2>7. CASE StoreFlag(g) \/ CopyMessage(g) \/ MoveMessage(g) \/ ExpungeUid(g)
    <3>1. \E pc : Answered(g, pc)
      BY <2>7 DEF StoreFlag, CopyMessage, MoveMessage, ExpungeUid
    <3> QED
      BY <2>3, <3>1
  <2> QED
    BY <1>5, <2>4, <2>5, <2>6, <2>7 DEF Session
<1> QED
  BY <1>3, <1>4, <1>5 DEF LoopStep, DrainStep, Session

LEMMA NextLoops ==
    ASSUME TypeInv, [Next]_vars, NEW h \in Generations
    PROVE  LoopMoves(h)
<1>1. ASSUME NEW g \in Generations, LoopStep(g)
      PROVE  LoopMoves(h)
  <2>1. CASE g # h
    BY <1>1, <2>1, OnlyOneMoves DEF OthersStay, LoopMoves
  <2>2. CASE g = h
    <3>1. \A pc \in Stage : Goto(h, pc) => worker'[h].pc = pc
      BY GotoIsTyped
    <3>2. Return(h) => worker'[h].pc = "waiting"
      BY ReturnIsTyped
    <3>3. ASSUME NEW w, worker' = [worker EXCEPT ![h] = w]
          PROVE  worker'[h] = w
      BY <3>3 DEF TypeInv, TypeOK
    <3>4. CASE LeaveLoop(h)
      BY <3>3, <3>4 DEF LeaveLoop, LoopMoves, Nobody
    <3>5. CASE TakeRequest(h) \/ RequestDropped(h) \/ EnterDrain(h)
               \/ DrainFails(h) \/ NothingToClaim(h) \/ CheckGeneration(h)
               \/ OutcomeLost(h)
      BY <3>1, <3>2, <3>5
      DEF TakeRequest, RequestDropped, EnterDrain, DrainFails, NothingToClaim,
          CheckGeneration, OutcomeLost, Stage, LoopMoves
    <3>6. CASE ClaimPendingOperation(h)
      <4>1. PICK i \in Eligible :
              worker' = [worker EXCEPT ![h] =
                [Nobody EXCEPT !.pc = "claimed", !.op = i,
                               !.attempt = ops[i].attempts + 1]]
        BY <3>6 DEF ClaimPendingOperation
      <4>2. worker'[h].pc = "claimed"
        BY <4>1 DEF Nobody, TypeInv, TypeOK
      <4> QED
        BY <4>2 DEF LoopMoves
    <3>7. CASE CompletePendingOperation(h) \/ FailPendingOperation(h)
      <4>1. \/ Return(h)
            \/ worker' = [worker EXCEPT ![h] = [Nobody EXCEPT !.pc = "draining"]]
        BY <3>7 DEF CompletePendingOperation, FailPendingOperation
      <4>2. worker'[h].pc \in {"waiting", "draining"}
        BY <3>2, <4>1 DEF Nobody, TypeInv, TypeOK
      <4> QED
        BY <4>2 DEF LoopMoves
    <3>8. CASE Session(h)
      BY <3>8 DEF LoopMoves
    <3> QED
      BY <1>1, <2>2, <3>4, <3>5, <3>6, <3>7, <3>8
      DEF LoopStep, DrainStep, Session
  <2> QED
    BY <2>1, <2>2
<1>2. CASE RestartAccount \/ EnsureSupervisor
  <2>1. StartSupervisor
    BY <1>2 DEF RestartAccount, EnsureSupervisor
  <2>2. worker' = [worker EXCEPT ![nextGen] = [Nobody EXCEPT !.pc = "waiting"]]
    BY <2>1 DEF StartSupervisor
  <2> QED
    BY <2>2 DEF LoopMoves, Nobody, TypeInv, TypeOK
<1>3. CASE Crash
  BY <1>3 DEF Crash, LoopMoves, Nobody
<1>4. CASE UNCHANGED worker
  BY <1>4 DEF LoopMoves
<1>5. CASE UserStep
  BY <1>2, <1>4, <1>5
  DEF UserStep, SetMessageRead, TransferMessages, DeleteMessages,
      RetryPendingOperation
<1>6. CASE WorldStep
  BY <1>3, <1>4, <1>6
  DEF WorldStep, OtherClientExpunges, OtherClientSetsRead, RenumberMailbox
<1>7. CASE SyncRequestsOperations \/ (\E i \in OpIds : BackoffElapses(i))
           \/ UNCHANGED vars
  BY <1>4, <1>7 DEF SyncRequestsOperations, BackoffElapses, vars
<1> QED
  BY <1>1, <1>2, <1>5, <1>6, <1>7 DEF Next

\* While a loop stays where it is, its operation aims at what it aimed at.
LEMMA HeldAimStays ==
    ASSUME TypeInv, [Next]_vars, NEW g \in Generations,
           worker[g].pc \in Holding
    PROVE  LET i == worker[g].op IN
           /\ i \in Stored /\ i \in Stored'
           /\ ops'[i].kind = ops[i].kind /\ ops'[i].msg = ops[i].msg
           /\ \A e : IsTarget(e, ops'[i]) <=> IsTarget(e, ops[i])
<1> DEFINE i == worker[g].op
<1>1. i \in Stored /\ i \in OpIds /\ ops[i] \in Operation
  BY HeldOperation
<1> HIDE DEF i
<1>2. KeepsOperations /\ OperationsStay
  BY NextType, NextOperations
<1>3. /\ ops'[i] \in Operation /\ ops'[i].kind = ops[i].kind
      /\ ops'[i].msg = ops[i].msg /\ ops'[i].src = ops[i].src
  BY <1>1, <1>2 DEF KeepsOperations
<1>4. i \in Stored'
  BY <1>1, <1>3 DEF Stored, Operation, Active, Settled
<1>5. ops'[i].uid = ops[i].uid /\ ops'[i].validity = ops[i].validity
  BY <1>1, <1>2, <1>4 DEF OperationsStay
<1> QED
  BY <1>1, <1>3, <1>4, <1>5 DEF IsTarget, i

-----------------------------------------------------------------------------
(* A pending clean-up is reported *)

\* Why a loop that is about to finish need not report one.
ExpungingMarked(g) ==
    At(g, "expunge") => \A e \in Targets(Op(g)) : e.deleted
CompletingRemoved(g) ==
    (At(g, "completing") /\ IsTransfer(Op(g)) /\ ~worker[g].cleanup)
    => Targets(Op(g)) = {}
FlagsAreNoTransfer(g) == At(g, "store_flag") => ~IsTransfer(Op(g))

CleanLoop(g) == ExpungingMarked(g) /\ CompletingRemoved(g)
                /\ FlagsAreNoTransfer(g)
CleanupInv == /\ TypeInv /\ Numbered
              /\ \A g \in Generations : CleanLoop(g)
              /\ CleanupIsReported

LEMMA NothingReappears ==
    ASSUME TypeInv, Numbered, [Next]_vars, NEW i \in Stored,
           \A e : IsTarget(e, ops'[i]) <=> IsTarget(e, ops[i])
    PROVE  /\ Targets(ops[i]) = {} => Targets(ops[i])' = {}
           /\ (\A e \in Targets(ops[i]) : e.deleted)
              => \A f \in Targets(ops[i])' : f.deleted
<1>1. ASSUME NEW f \in Targets(ops[i])'
      PROVE  \E e \in Targets(ops[i]) : e.deleted => f.deleted
  <2>1. f \in remote' /\ IsTarget(f, ops[i])
    BY DEF Targets
  <2> QED
    BY <2>1, TargetsShrink
<1> QED
  BY <1>1

LEMMA LoopsStayClean ==
    ASSUME CleanupInv, [Next]_vars, NEW g \in Generations
    PROVE  CleanLoop(g)'
<1> USE DEF CleanupInv
<1>1. CASE worker[g].pc \in Holding /\ worker'[g] = worker[g]
  <2>1. PICK i \in OpIds : worker[g].op = i
    BY <1>1, HeldOperation
  <2>2. /\ i \in Stored /\ ops'[i].kind = ops[i].kind
        /\ \A e : IsTarget(e, ops'[i]) <=> IsTarget(e, ops[i])
    BY <1>1, <2>1, HeldAimStays
  <2>3. /\ Targets(ops[i]) = {} => Targets(ops[i])' = {}
        /\ (\A e \in Targets(ops[i]) : e.deleted)
           => \A f \in Targets(ops[i])' : f.deleted
    BY <2>2, NothingReappears
  <2>4. Op(g) = ops[i] /\ Op(g)' = ops'[i]
    BY <1>1, <2>1 DEF Op
  <2>5. Targets(Op(g)) = Targets(ops[i]) /\ Targets(Op(g))' = Targets(ops[i])'
    BY <2>4 DEF Targets
  <2>6. ExpungingMarked(g)'
    BY <1>1, <2>3, <2>5 DEF CleanLoop, ExpungingMarked, At
  <2>7. CompletingRemoved(g)'
    BY <1>1, <2>2, <2>3, <2>4, <2>5
    DEF CleanLoop, CompletingRemoved, At, IsTransfer
  <2>8. FlagsAreNoTransfer(g)'
    BY <1>1, <2>2, <2>4 DEF CleanLoop, FlagsAreNoTransfer, At, IsTransfer
  <2> QED
    BY <2>6, <2>7, <2>8 DEF CleanLoop
<1>2. CASE worker'[g].pc \notin {"expunge", "completing", "store_flag"}
  BY <1>2
  DEF CleanLoop, ExpungingMarked, CompletingRemoved, FlagsAreNoTransfer, At
<1>3. CASE Session(g)
  <2> DEFINE i == worker[g].op
  <2>1. worker[g].pc \in Holding
    BY <1>3 DEF Session, SelectSource, StoreFlag, CopyMessage, MoveMessage,
                MarkDeleted, ExpungeUid, CommandFails, At, Holding, Commands
  <2>2. /\ i \in Stored /\ ops[i] \in Operation /\ i \in OpIds
        /\ Op(g) = ops[i] /\ UNCHANGED ops
    BY <1>3, <2>1, HeldOperation
    DEF Op, Session, SelectSource, StoreFlag, CopyMessage, MoveMessage,
        MarkDeleted, ExpungeUid, CommandFails, disk
  <2>3. ops[i].kind \in AllKinds
    BY <2>2 DEF Operation
  <2>4. \A e \in remote : IsTarget(e, ops[i]) => e.uid <= LastUid
    BY <2>2 DEF IsTarget, Numbered, UidsAreBounded
  <2> HIDE DEF i
  <2>5. ASSUME NEW pc \in Stage, Goto(g, pc) \/ Answered(g, pc)
        PROVE  /\ worker'[g].op = i
               /\ worker'[g].pc = pc \/ worker'[g].pc = "failing"
    BY <2>5, GotoIsTyped, GiveUpIsTyped DEF Answered, i
  \* The goal, for the places this command can lead to.
  <2>6. ASSUME worker'[g].op = i,
               worker'[g].pc = "store_flag" => ~IsTransfer(ops[i]),
               worker'[g].pc = "completing" =>
                  \/ ~IsTransfer(ops[i]) \/ worker'[g].cleanup
                  \/ \A f \in remote' : ~IsTarget(f, ops[i]),
               worker'[g].pc = "expunge" =>
                  \A f \in remote' : IsTarget(f, ops[i]) => f.deleted
        PROVE  CleanLoop(g)'
    <3>1. Op(g)' = ops[i]
      BY <2>2, <2>6 DEF Op
    <3> QED
      BY <2>6, <3>1
      DEF CleanLoop, ExpungingMarked, CompletingRemoved, FlagsAreNoTransfer,
          At, Targets
  <2>7. CASE SelectSource(g)
    <3>1. GiveUp(g, FALSE) => worker'[g].pc = "failing"
      BY GiveUpIsTyped
    <3>2. CASE GiveUp(g, FALSE)
      BY <1>2, <3>1, <3>2
    <3>3. CASE Goto(g, "completing") /\ Targets(ops[i]) = {}
      <4>1. remote' = remote
        BY <2>7 DEF SelectSource, server
      <4>2. worker'[g].op = i /\ worker'[g].pc = "completing"
        BY <2>5, <3>3, GotoIsTyped DEF Stage
      <4> QED
        BY <2>6, <3>3, <4>1, <4>2 DEF Targets
    <3>4. CASE Goto(g, FirstCommand(ops[i]))
      <4>1. /\ FirstCommand(ops[i]) \in Stage
            /\ FirstCommand(ops[i]) \notin {"completing", "expunge"}
            /\ FirstCommand(ops[i]) = "store_flag" => ~IsTransfer(ops[i])
        BY <2>3 DEF FirstCommand, AllKinds, Stage, IsTransfer
      <4>2. worker'[g].op = i /\ worker'[g].pc = FirstCommand(ops[i])
        BY <3>4, <4>1, <2>5, GotoIsTyped
      <4> QED
        BY <2>6, <4>1, <4>2
    <3> QED
      BY <2>2, <2>7, <3>2, <3>3, <3>4 DEF SelectSource
  <2>8. CASE StoreFlag(g)
    <3>1. At(g, "store_flag") /\ Answered(g, "completing")
      BY <2>8 DEF StoreFlag
    <3>2. ~IsTransfer(ops[i])
      BY <2>2, <3>1 DEF CleanLoop, FlagsAreNoTransfer
    <3>3. worker'[g].op = i /\ worker'[g].pc \in {"completing", "failing"}
      BY <3>1, <2>5 DEF Stage
    <3> QED
      BY <2>6, <3>2, <3>3
  <2>9. CASE CopyMessage(g)
    <3> DEFINE next == IF ops[i].kind = "copy" THEN "completing"
                                               ELSE "mark_deleted"
    <3>1. Answered(g, next) /\ next \in Stage
      BY <2>2, <2>9 DEF CopyMessage, Stage
    <3>2. worker'[g].op = i /\ worker'[g].pc \in {next, "failing"}
      BY <3>1, <2>5
    <3>3. next = "completing" => ~IsTransfer(ops[i])
      BY DEF IsTransfer
    <3>4. next \in {"completing", "mark_deleted"}
      OBVIOUS
    <3> HIDE DEF next
    <3> QED
      BY <2>6, <3>2, <3>3, <3>4
  <2>10. CASE MoveMessage(g)
    <3>1. Answered(g, "completing") /\ ops[i].dst \in Mailboxes
      BY <2>2, <2>10
      DEF MoveMessage, TypeInv, HeldIsStored, Holding, At, i
    <3>2. worker'[g].op = i /\ worker'[g].pc \in {"completing", "failing"}
      BY <3>1, <2>5 DEF Stage
    <3>3. ASSUME NEW f \in remote', IsTarget(f, ops[i]) PROVE FALSE
      <4>1. CASE f \in remote \ Targets(ops[i])
        BY <3>3, <4>1 DEF Targets
      <4>2. CASE f \notin remote \ Targets(ops[i])
        <5>1. PICK e \in Targets(ops[i]) : f = ArrivalOf(e, ops[i].dst)
          BY <2>2, <2>10, <4>2 DEF MoveMessage
        <5>2. f.uid = uidNext[ops[i].dst]
          BY <3>1, <5>1, ArrivalArrives DEF Targets
        <5>3. f.uid > LastUid /\ LastUid \in Nat /\ uidNext[ops[i].dst] \in Nat
          BY <3>1, <5>2, CountIsNat
          DEF Numbered, UidsAreBounded, LastUid, TypeInv, TypeOK
        <5>4. f.uid <= LastUid
          BY <2>2, <3>3 DEF IsTarget, Numbered, UidsAreBounded
        <5> QED
          BY <5>2, <5>3, <5>4
      <4> QED
        BY <4>1, <4>2
    <3> QED
      BY <2>6, <3>2, <3>3
  <2>11. CASE MarkDeleted(g)
    <3>1. \A f \in remote' : IsTarget(f, ops[i]) => f.deleted
      <4> SUFFICES ASSUME NEW f \in remote', IsTarget(f, ops[i])
                   PROVE  f.deleted
        OBVIOUS
      <4>1. PICK e \in remote :
               f = IF IsTarget(e, ops[i]) THEN [e EXCEPT !.deleted = TRUE]
                                          ELSE e
        BY <2>2, <2>11 DEF MarkDeleted
      <4>2. e \in Entry
        BY DEF TypeInv, TypeOK
      <4> QED
        BY <4>1, <4>2 DEF Entry
    <3>2. /\ worker'[g].op = i
          /\ \/ worker'[g].pc \in {"expunge", "failing"}
             \/ worker'[g].pc = "completing" /\ worker'[g].cleanup
      <4>1. CASE worker' = [worker EXCEPT ![g].pc = "completing",
                                          ![g].cleanup = TRUE]
        <5>1. worker[g] \in Worker
          BY DEF TypeInv, TypeOK
        <5>2. worker'[g] = [worker[g] EXCEPT !.pc = "completing",
                                             !.cleanup = TRUE]
          BY <4>1 DEF TypeInv, TypeOK
        <5> QED
          BY <5>1, <5>2 DEF Worker, i
      <4>2. CASE GiveUp(g, TRUE)
        BY <4>2, GiveUpIsTyped DEF i
      <4>3. CASE Goto(g, "expunge")
        BY <4>3, GotoIsTyped DEF Stage, i
      <4> QED
        BY <2>11, <4>1, <4>2, <4>3 DEF MarkDeleted
    <3> QED
      BY <2>6, <3>1, <3>2
  <2>12. CASE ExpungeUid(g)
    <3>1. Answered(g, "completing") /\ At(g, "expunge")
      BY <2>12 DEF ExpungeUid
    <3>2. worker'[g].op = i /\ worker'[g].pc \in {"completing", "failing"}
      BY <3>1, <2>5 DEF Stage
    <3>3. \A f \in remote' : ~IsTarget(f, ops[i])
      BY <2>2, <2>12, <3>1 DEF ExpungeUid, CleanLoop, ExpungingMarked, Targets
    <3> QED
      BY <2>6, <3>2, <3>3
  <2>13. CASE CommandFails(g)
    <3>1. worker'[g].pc = "failing"
      BY <2>13, GiveUpIsTyped DEF CommandFails
    <3> QED
      BY <1>2, <3>1
  <2> QED
    BY <1>3, <2>7, <2>8, <2>9, <2>10, <2>11, <2>12, <2>13 DEF Session
<1>4. LoopMoves(g)
  BY NextLoops
<1>5. CASE worker[g].pc \notin Holding /\ worker'[g] = worker[g]
  BY <1>2, <1>5 DEF Holding
<1> QED
  BY <1>1, <1>2, <1>3, <1>4, <1>5, Zenon DEF LoopMoves

LEMMA CleanupStaysReported ==
    ASSUME CleanupInv, [Next]_vars
    PROVE  CleanupIsReported'
<1> SUFFICES ASSUME NEW i \in Stored', IsTransfer(ops'[i]),
                    ops'[i].status = "succeeded", ~ops'[i].cleanup
             PROVE  Targets(ops[i])' = {}
  BY DEF CleanupIsReported
<1> USE DEF CleanupInv
<1>1. OperationsStay /\ KeepsOperations
  BY NextOperations, NextType
<1>2. /\ i \in Stored /\ ops[i] \in Operation
      /\ ops'[i].uid = ops[i].uid /\ ops'[i].validity = ops[i].validity
      /\ SameOutcome(i) \/ Completed(i)
  BY <1>1 DEF OperationsStay, QueuedFrom
<1>3. ops'[i].kind = ops[i].kind /\ ops'[i].src = ops[i].src
  BY <1>1, <1>2 DEF KeepsOperations, Stored
<1>4. \A e : IsTarget(e, ops'[i]) <=> IsTarget(e, ops[i])
  BY <1>2, <1>3 DEF IsTarget
<1>5. Targets(ops[i]) = {} => Targets(ops[i])' = {}
  BY <1>2, <1>4, NothingReappears
<1>6. IsTransfer(ops[i])
  BY <1>3 DEF IsTransfer
<1>7. CASE SameOutcome(i)
  <2>1. ops[i].status = "succeeded" /\ ~ops[i].cleanup
    BY <1>7 DEF SameOutcome
  <2> QED
    BY <1>2, <1>5, <1>6, <2>1 DEF CleanupIsReported
<1>8. CASE Completed(i)
  <2>1. PICK g \in Generations : /\ CompletePendingOperation(g)
                                 /\ worker[g].op = i
                                 /\ ops'[i].cleanup = worker[g].cleanup
    BY <1>8 DEF Completed
  <2>2. At(g, "completing") /\ Op(g) = ops[i] /\ ~worker[g].cleanup
    BY <2>1 DEF CompletePendingOperation, Op
  <2> QED
    BY <1>5, <1>6, <2>2 DEF CleanLoop, CompletingRemoved
<1> QED
  BY <1>2, <1>7, <1>8

\* A move or delete that is done without reporting a pending clean-up has
\* taken its source off the server for good, whatever answers were lost, other
\* clients did and loops were restarted meanwhile (replay_transfer_fallback,
\* complete_pending_operation).
THEOREM CleanupsAreReported == Spec => []CleanupIsReported
<1>1. Init => CleanupInv
  <2> SUFFICES ASSUME Init PROVE CleanupInv
    OBVIOUS
  <2>1. TypeInv /\ Numbered
    BY InitType, InitNumbered
  <2>2. /\ worker = [g \in Generations |-> Nobody]
        /\ ops = [i \in OpIds |-> Absent]
    BY DEF Init
  <2>3. \A g \in Generations : CleanLoop(g)
    BY <2>2 DEF CleanLoop, ExpungingMarked, CompletingRemoved,
                FlagsAreNoTransfer, At, Nobody
  <2>4. CleanupIsReported
    BY <2>2 DEF CleanupIsReported, Stored, Absent
  <2> QED
    BY <2>1, <2>3, <2>4 DEF CleanupInv
<1>2. CleanupInv /\ [Next]_vars => CleanupInv'
  <2> SUFFICES ASSUME CleanupInv, [Next]_vars PROVE CleanupInv'
    OBVIOUS
  <2>1. TypeInv' /\ Numbered'
    BY NextType, NextNumbered DEF CleanupInv
  <2>2. \A g \in Generations : CleanLoop(g)'
    BY LoopsStayClean
  <2>3. Generations' = Generations
    BY DEF Generations
  <2> QED
    BY <2>1, <2>2, CleanupStaysReported DEF CleanupInv
<1>3. CleanupInv => CleanupIsReported
  BY DEF CleanupInv
<1> QED
  BY <1>1, <1>2, <1>3, PTL DEF Spec

-----------------------------------------------------------------------------
(* Moves and copies lose nothing *)

\* The mail is on the server whatever happens to the source of an operation:
\* its deletion was asked for, or an undeleted copy was filed.
Safe(m) == \/ \E i \in Stored : ops[i].kind = "delete" /\ ops[i].msg = m
           \/ \E e \in remote : e.msg = m /\ ~e.deleted /\ e.uid > LastUid

NoOtherClient == budget.external = 0
MarkedAreSafe == \A e \in remote : e.deleted => Safe(e.msg)
MarkingIsSafe(g) == worker[g].pc \in {"mark_deleted", "expunge"} =>
                       Safe(Op(g).msg) \/ Targets(Op(g)) = {}
LossInv == /\ TypeInv /\ Numbered /\ NoOtherClient
           /\ MarkedAreSafe /\ \A g \in Generations : MarkingIsSafe(g)
           /\ NothingLost

LEMMA BudgetsShrink ==
    ASSUME TypeInv, [Next]_vars
    PROVE  \A what \in {"external", "recovery"} :
              budget[what] = 0 => budget'[what] = 0
<1>1. ASSUME NEW what, Spend(what)
      PROVE  \A w \in {"external", "recovery"} :
                budget[w] = 0 => budget'[w] = 0
  BY <1>1 DEF Spend, TypeInv, TypeOK, BudgetType
<1>2. CASE UNCHANGED budget
  BY <1>2
<1>3. CASE UserStep
  BY <1>1, <1>2, <1>3
  DEF UserStep, SetMessageRead, TransferMessages, DeleteMessages,
      RetryPendingOperation, RestartAccount
<1>4. ASSUME NEW g \in Generations, LoopStep(g)
      PROVE  \A w \in {"external", "recovery"} :
                budget[w] = 0 => budget'[w] = 0
  <2>1. CASE LeaveLoop(g) \/ TakeRequest(g) \/ RequestDropped(g)
             \/ EnterDrain(g) \/ DrainFails(g) \/ ClaimPendingOperation(g)
             \/ NothingToClaim(g) \/ CheckGeneration(g)
    BY <1>1, <1>2, <2>1
    DEF LeaveLoop, TakeRequest, RequestDropped, EnterDrain, DrainFails,
        ClaimPendingOperation, NothingToClaim, CheckGeneration
  <2>2. CASE \/ Session(g) \/ CompletePendingOperation(g)
             \/ FailPendingOperation(g) \/ OutcomeLost(g)
    BY <1>1, <1>2, <2>2
    DEF Session, SelectSource, StoreFlag, CopyMessage, MoveMessage,
        MarkDeleted, ExpungeUid, CommandFails, Answered,
        CompletePendingOperation, FailPendingOperation, OutcomeLost
  <2> QED
    BY <1>4, <2>1, <2>2 DEF LoopStep, DrainStep, Session
<1>5. CASE WorldStep
  BY <1>1, <1>5
  DEF WorldStep, Crash, OtherClientExpunges, OtherClientSetsRead,
      RenumberMailbox
<1>6. CASE \/ EnsureSupervisor \/ SyncRequestsOperations \/ UNCHANGED vars
           \/ \E i \in OpIds : BackoffElapses(i)
  BY <1>2, <1>6
  DEF EnsureSupervisor, SyncRequestsOperations, BackoffElapses, vars
<1> QED
  BY <1>3, <1>4, <1>5, <1>6 DEF Next

Staying(e, f) == f.msg = e.msg /\ f.uid = e.uid /\ ~f.deleted

\* An undeleted entry stays, unless it is what a MOVE or a STORE \Deleted
\* acts on.
LEMMA UndeletedStays ==
    ASSUME LossInv, [Next]_vars, NEW e \in remote, ~e.deleted
    PROVE  \/ \E f \in remote' : Staying(e, f)
           \/ \E g \in Generations : /\ MoveMessage(g) \/ MarkDeleted(g)
                                     /\ e \in Targets(Op(g))
<1> USE DEF LossInv
<1>1. e \in Entry /\ Staying(e, e)
  BY DEF TypeInv, TypeOK, Staying
<1>2. e \in remote' => \E f \in remote' : Staying(e, f)
  BY <1>1
<1>3. ASSUME NEW g \in Generations, LoopStep(g)
      PROVE  \/ \E f \in remote' : Staying(e, f)
             \/ /\ MoveMessage(g) \/ MarkDeleted(g)
                /\ e \in Targets(Op(g))
  <2>1. CASE StoreFlag(g)
    <3> DEFINE f == IF IsTarget(e, Op(g)) THEN [e EXCEPT !.read = Op(g).value]
                                          ELSE e
    <3>1. f \in remote'
      BY <2>1 DEF StoreFlag
    <3>2. Staying(e, f)
      BY <1>1 DEF Staying, Entry
    <3> QED
      BY <3>1, <3>2
  <2>2. CASE CopyMessage(g)
    BY <1>2, <2>2 DEF CopyMessage
  <2>3. CASE MoveMessage(g)
    BY <1>2, <2>3 DEF MoveMessage
  <2>4. CASE MarkDeleted(g)
    <3>1. CASE IsTarget(e, Op(g))
      BY <2>4, <3>1 DEF Targets
    <3>2. CASE ~IsTarget(e, Op(g))
      BY <1>2, <2>4, <3>2 DEF MarkDeleted
    <3> QED
      BY <3>1, <3>2
  <2>5. CASE ExpungeUid(g)
    BY <1>2, <2>5 DEF ExpungeUid
  <2> QED
    BY <1>2, <1>3, <2>1, <2>2, <2>3, <2>4, <2>5
    DEF LoopStep, DrainStep, LeaveLoop, TakeRequest, RequestDropped,
        EnterDrain, DrainFails, ClaimPendingOperation, NothingToClaim,
        CheckGeneration, SelectSource, CommandFails, CompletePendingOperation,
        FailPendingOperation, OutcomeLost, server
<1>4. CASE WorldStep
  <2>1. ~Spend("external")
    BY DEF Spend, NoOtherClient
  <2>2. ASSUME NEW mb \in Mailboxes, RenumberMailbox(mb)
        PROVE  \E f \in remote' : Staying(e, f)
    <3> DEFINE f == IF e.mb = mb THEN [e EXCEPT !.validity = @ + 1] ELSE e
    <3>1. f \in remote'
      BY <2>2 DEF RenumberMailbox
    <3>2. Staying(e, f)
      BY <1>1 DEF Staying, Entry
    <3> QED
      BY <3>1, <3>2
  <2> QED
    BY <1>2, <1>4, <2>1, <2>2
    DEF WorldStep, Crash, OtherClientExpunges, OtherClientSetsRead, server
<1>5. CASE \/ UserStep \/ EnsureSupervisor \/ SyncRequestsOperations
           \/ UNCHANGED vars
           \/ \E i \in OpIds : BackoffElapses(i)
  BY <1>2, <1>5
  DEF UserStep, SetMessageRead, TransferMessages, DeleteMessages,
      RetryPendingOperation, RestartAccount, EnsureSupervisor,
      SyncRequestsOperations, BackoffElapses, vars, server
<1> QED
  BY <1>3, <1>4, <1>5 DEF Next

LEMMA SafeStays ==
    ASSUME LossInv, [Next]_vars, NEW m \in Messages, Safe(m)
    PROVE  Safe(m)'
<1> USE DEF LossInv
<1>1. CASE \E i \in Stored : ops[i].kind = "delete" /\ ops[i].msg = m
  <2>1. PICK i \in Stored : ops[i].kind = "delete" /\ ops[i].msg = m
    BY <1>1
  <2>2. i \in OpIds /\ ops[i] \in Operation
    BY StoredOperation
  <2>3. ops'[i] \in Operation /\ ops'[i].kind = "delete" /\ ops'[i].msg = m
    BY <2>1, <2>2, NextType DEF KeepsOperations
  <2>4. i \in Stored'
    BY <2>2, <2>3 DEF Stored, Operation, Active, Settled
  <2> QED
    BY <2>3, <2>4 DEF Safe
<1>2. CASE \E e \in remote : e.msg = m /\ ~e.deleted /\ e.uid > LastUid
  <2>1. PICK e \in remote : e.msg = m /\ ~e.deleted /\ e.uid > LastUid
    BY <1>2
  <2>2. ASSUME NEW g \in Generations, MoveMessage(g) \/ MarkDeleted(g),
               e \in Targets(Op(g))
        PROVE  FALSE
    <3>1. worker[g].op \in Stored /\ Op(g) = ops[worker[g].op]
      BY <2>2, HeldOperation DEF MoveMessage, MarkDeleted, At, Holding, Op
    <3>2. e.uid <= LastUid
      BY <2>2, <3>1, TargetsAreTheMessage
    <3>3. e.uid \in Nat /\ LastUid \in Nat
      BY CountIsNat DEF LastUid, TypeInv, TypeOK, Entry
    <3> QED
      BY <2>1, <3>2, <3>3
  <2>3. PICK f \in remote' : Staying(e, f)
    BY <2>1, <2>2, UndeletedStays
  <2>4. LastUid' = LastUid
    BY DEF LastUid
  <2> QED
    BY <2>1, <2>3, <2>4 DEF Safe, Staying
<1> QED
  BY <1>1, <1>2 DEF Safe

\* What a loop marks is its message, and that is safe.
LEMMA MarkedTargetIsSafe ==
    ASSUME LossInv, NEW g \in Generations, MarkDeleted(g),
           NEW e \in Targets(Op(g))
    PROVE  Safe(e.msg)
<1> USE DEF LossInv
<1>1. At(g, "mark_deleted") /\ worker[g].op \in Stored
      /\ Op(g) = ops[worker[g].op]
  BY HeldOperation DEF MarkDeleted, At, Holding, Op
<1>2. e.msg = Op(g).msg
  BY <1>1, TargetsAreTheMessage
<1>3. Safe(Op(g).msg)
  BY <1>1 DEF MarkingIsSafe, At
<1> QED
  BY <1>2, <1>3

LEMMA MarkedStaySafe ==
    ASSUME LossInv, [Next]_vars
    PROVE  MarkedAreSafe'
<1> SUFFICES ASSUME NEW f \in remote', f.deleted PROVE Safe(f.msg)'
  BY DEF MarkedAreSafe
<1>1. PICK e \in remote : Kept(e, f) \/ Arrived(e, f)
  BY NextEntries DEF LossInv, EntriesStay
<1>2. e.msg = f.msg /\ e.msg \in Messages
  BY <1>1 DEF Kept, Arrived, LossInv, TypeInv, TypeOK, Entry
<1>3. e.deleted \/ Marking(e)
  BY <1>1 DEF Kept, Arrived
<1>4. Safe(e.msg)
  BY <1>3, MarkedTargetIsSafe DEF Marking, LossInv, MarkedAreSafe
<1> QED
  BY <1>2, <1>4, SafeStays

LEMMA MarkingStaysSafe ==
    ASSUME LossInv, [Next]_vars, NEW g \in Generations
    PROVE  MarkingIsSafe(g)'
<1> USE DEF LossInv
<1>1. CASE worker'[g].pc \notin {"mark_deleted", "expunge"}
  BY <1>1 DEF MarkingIsSafe
<1>2. ASSUME NEW i \in OpIds, worker[g].op = i, worker'[g].op = i,
             worker[g].pc \in Holding,
             Safe(ops[i].msg) \/ Targets(ops[i]) = {}
      PROVE  MarkingIsSafe(g)'
  <2>1. /\ i \in Stored /\ ops'[i].msg = ops[i].msg
        /\ \A e : IsTarget(e, ops'[i]) <=> IsTarget(e, ops[i])
    BY <1>2, HeldAimStays
  <2>2. Targets(ops[i]) = {} => Targets(ops[i])' = {}
    BY <2>1, NothingReappears
  <2>3. ops[i].msg \in Messages
    BY <2>1, StoredOperation DEF Operation
  <2>4. Op(g)' = ops'[i]
    BY <1>2 DEF Op
  <2>5. CASE Safe(ops[i].msg)
    <3>1. Safe(ops[i].msg)'
      <4>1. PICK m \in Messages : ops[i].msg = m
        BY <2>3
      <4>2. Safe(m)'
        BY <2>5, <4>1, SafeStays
      <4> QED
        BY <2>1, <4>1, <4>2
    <3> QED
      BY <2>4, <3>1 DEF MarkingIsSafe
  <2>6. CASE Targets(ops[i]) = {}
    <3>1. Targets(Op(g))' = Targets(ops[i])'
      BY <2>4 DEF Targets
    <3> QED
      BY <2>2, <2>6, <3>1 DEF MarkingIsSafe
  <2> QED
    BY <1>2, <2>5, <2>6
<1>3. CASE worker'[g] = worker[g] /\ worker[g].pc \in Holding
  <2>1. PICK i \in OpIds : worker[g].op = i
    BY <1>3, HeldOperation
  <2>2. CASE worker[g].pc \in {"mark_deleted", "expunge"}
    BY <1>2, <1>3, <2>1, <2>2 DEF MarkingIsSafe, Op
  <2> QED
    BY <1>1, <1>3, <2>2
<1>4. CASE Session(g)
  <2>1. worker[g].pc \in Holding
    BY <1>4 DEF Session, SelectSource, StoreFlag, CopyMessage, MoveMessage,
                MarkDeleted, ExpungeUid, CommandFails, At, Holding, Commands
  <2>2. PICK i \in Stored : i \in OpIds /\ worker[g].op = i /\ Op(g) = ops[i]
    BY <2>1, HeldOperation DEF Op
  <2>3. ops[i] \in Operation /\ ops[i].kind \in AllKinds
    BY <2>2, StoredOperation DEF Operation
  <2>4. ASSUME NEW pc \in Stage, Goto(g, pc) \/ Answered(g, pc)
        PROVE  /\ worker'[g].op = i
               /\ worker'[g].pc = pc \/ worker'[g].pc = "failing"
    BY <2>2, <2>4, GotoIsTyped, GiveUpIsTyped DEF Answered
  <2>5. GiveUp(g, TRUE) \/ GiveUp(g, FALSE) => worker'[g].pc = "failing"
    BY GiveUpIsTyped
  <2>6. CASE SelectSource(g)
    <3>1. CASE Goto(g, FirstCommand(ops[i]))
      <4>1. FirstCommand(ops[i]) \in Stage
        BY <2>3 DEF FirstCommand, AllKinds, Stage
      <4>2. /\ worker'[g].op = i
            /\ worker'[g].pc = FirstCommand(ops[i])
        BY <3>1, <4>1, <2>4, GotoIsTyped
      <4>3. CASE ops[i].kind = "delete"
        BY <1>2, <2>1, <2>2, <4>2, <4>3 DEF Safe
      <4>4. CASE ops[i].kind # "delete"
        BY <1>1, <2>3, <4>2, <4>4 DEF FirstCommand, AllKinds
      <4> QED
        BY <4>3, <4>4
    <3>2. Goto(g, "completing") => worker'[g].pc = "completing"
      BY GotoIsTyped DEF Stage
    <3> QED
      BY <1>1, <2>2, <2>5, <2>6, <3>1, <3>2 DEF SelectSource
  <2>7. CASE CopyMessage(g)
    <3> DEFINE next == IF ops[i].kind = "copy" THEN "completing"
                                               ELSE "mark_deleted"
    <3>1. Answered(g, next) /\ next \in Stage
      BY <2>2, <2>7 DEF CopyMessage, Stage
    <3>2. worker'[g].op = i
      BY <3>1, <2>4
    <3>3. ops[i].dst \in Mailboxes
      BY <2>2, <2>7 DEF CopyMessage, TypeInv, HeldIsStored, Holding, At
    <3>4. CASE Targets(ops[i]) = {}
      BY <1>2, <2>1, <2>2, <3>2, <3>4
    <3>5. ASSUME NEW e \in Targets(ops[i]) PROVE MarkingIsSafe(g)'
      <4>1. e \in remote /\ e.msg = ops[i].msg
        BY <2>2, TargetsAreTheMessage
      <4>2. CASE e.deleted
        BY <1>2, <2>1, <2>2, <3>2, <4>1, <4>2 DEF MarkedAreSafe
      <4>3. CASE ~e.deleted
        <5> DEFINE f == ArrivalOf(e, ops[i].dst)
        <5>1. f \in remote'
          BY <2>2, <2>7 DEF CopyMessage
        <5>2. /\ ~f.deleted /\ f.msg = ops[i].msg
              /\ f.uid = uidNext[ops[i].dst]
          BY <3>3, <4>1, <4>3, ArrivalArrives
        <5>3. f.uid > LastUid /\ LastUid' = LastUid
          BY <3>3, <5>2 DEF Numbered, UidsAreBounded, LastUid
        <5>4. Op(g)' = ops[i]
          BY <2>2, <2>7, <3>2 DEF CopyMessage, disk, Op
        <5> HIDE DEF f
        <5>5. Safe(Op(g).msg)'
          BY <5>1, <5>2, <5>3, <5>4 DEF Safe
        <5> QED
          BY <5>5 DEF MarkingIsSafe
      <4> QED
        BY <4>2, <4>3
    <3> QED
      BY <3>4, <3>5
  <2>8. CASE MarkDeleted(g)
    <3>1. \/ worker'[g].pc = "expunge" /\ worker'[g].op = i
          \/ worker'[g].pc \in {"failing", "completing"}
      <4>1. CASE worker' = [worker EXCEPT ![g].pc = "completing",
                                          ![g].cleanup = TRUE]
        <5>1. worker[g] \in Worker
          BY DEF TypeInv, TypeOK
        <5>2. worker'[g] = [worker[g] EXCEPT !.pc = "completing",
                                             !.cleanup = TRUE]
          BY <4>1 DEF TypeInv, TypeOK
        <5> QED
          BY <5>1, <5>2 DEF Worker
      <4>2. Goto(g, "expunge") =>
               worker'[g].pc = "expunge" /\ worker'[g].op = i
        BY <2>2, GotoIsTyped DEF Stage
      <4> QED
        BY <2>5, <2>8, <4>1, <4>2 DEF MarkDeleted
    <3>2. Safe(ops[i].msg) \/ Targets(ops[i]) = {}
      BY <2>2, <2>8 DEF MarkDeleted, MarkingIsSafe, At
    <3> QED
      BY <1>1, <1>2, <2>1, <2>2, <3>1, <3>2
  <2>9. CASE \/ StoreFlag(g) \/ MoveMessage(g) \/ ExpungeUid(g)
             \/ CommandFails(g)
    <3>1. Answered(g, "completing") \/ GiveUp(g, TRUE)
      BY <2>9 DEF StoreFlag, MoveMessage, ExpungeUid, CommandFails
    <3>2. worker'[g].pc \in {"completing", "failing"}
      BY <2>4, <2>5, <3>1 DEF Stage
    <3> QED
      BY <1>1, <3>2
  <2> QED
    BY <1>4, <2>6, <2>7, <2>8, <2>9 DEF Session
<1>5. CASE worker'[g] = worker[g] /\ worker[g].pc \notin Holding
  BY <1>1, <1>5 DEF Holding
<1>6. LoopMoves(g)
  BY NextLoops
<1> QED
  BY <1>1, <1>3, <1>4, <1>5, <1>6 DEF LoopMoves

LEMMA NextLoses ==
    ASSUME LossInv, [Next]_vars
    PROVE  NothingLost'
<1> USE DEF LossInv
<1> SUFFICES ASSUME NEW m \in Messages
             PROVE  \/ \E i \in Stored' : /\ ops'[i].kind = "delete"
                                          /\ ops'[i].msg = m
                    \/ \E f \in remote' : f.msg = m /\ ~f.deleted
  BY DEF NothingLost
<1>1. CASE Safe(m)
  BY <1>1, SafeStays DEF Safe
<1>2. CASE ~Safe(m)
  <2>1. PICK e \in remote : e.msg = m /\ ~e.deleted
    BY <1>2 DEF NothingLost, Safe
  <2>2. CASE \E f \in remote' : Staying(e, f)
    BY <2>1, <2>2 DEF Staying
  <2>3. ASSUME NEW g \in Generations, MarkDeleted(g), e \in Targets(Op(g))
        PROVE  FALSE
    BY <1>2, <2>1, <2>3, MarkedTargetIsSafe
  <2>4. ASSUME NEW g \in Generations, MoveMessage(g), e \in Targets(Op(g))
        PROVE  \E f \in remote' : f.msg = m /\ ~f.deleted
    <3>1. Op(g).dst \in Mailboxes
      BY <2>4 DEF MoveMessage, TypeInv, HeldIsStored, Holding, At, Op
    <3>2. ArrivalOf(e, Op(g).dst) \in remote'
      BY <2>4 DEF MoveMessage
    <3> QED
      BY <2>1, <3>1, <3>2, ArrivalArrives
  <2> QED
    BY <2>1, <2>2, <2>3, <2>4, UndeletedStays
<1> QED
  BY <1>1, <1>2

\* No mail is lost between the commands of a replay and by no crash, lost
\* answer, retry or restart, as long as no other client expunges it.
THEOREM NoMailIsLost ==
    ASSUME Budget.external = 0
    PROVE  Spec => []NothingLost
<1>1. Init => LossInv
  <2> SUFFICES ASSUME Init PROVE LossInv
    OBVIOUS
  <2>1. TypeInv /\ Numbered
    BY InitType, InitNumbered
  <2>2. PICK place \in [Messages -> Mailboxes],
             uid \in [Messages -> 1..Cardinality(Messages)] :
          /\ remote = {[msg |-> m, mb |-> place[m], validity |-> 1,
                        uid |-> uid[m], read |-> FALSE, deleted |-> FALSE] :
                          m \in Messages}
          /\ worker = [g \in Generations |-> Nobody]
          /\ budget = Budget
    BY DEF Init
  <2>3. NothingLost
    <3> SUFFICES ASSUME NEW m \in Messages
                 PROVE  \E e \in remote : e.msg = m /\ ~e.deleted
      BY DEF NothingLost
    <3>1. [msg |-> m, mb |-> place[m], validity |-> 1, uid |-> uid[m],
           read |-> FALSE, deleted |-> FALSE] \in remote
      BY <2>2
    <3> QED
      BY <3>1
  <2>4. MarkedAreSafe /\ \A g \in Generations : MarkingIsSafe(g)
    BY <2>2 DEF MarkedAreSafe, MarkingIsSafe, Nobody
  <2> QED
    BY <2>1, <2>2, <2>3, <2>4 DEF LossInv, NoOtherClient
<1>2. LossInv /\ [Next]_vars => LossInv'
  <2> SUFFICES ASSUME LossInv, [Next]_vars PROVE LossInv'
    OBVIOUS
  <2>1. TypeInv' /\ Numbered' /\ NoOtherClient'
    BY NextType, NextNumbered, BudgetsShrink DEF LossInv, NoOtherClient
  <2>2. \A g \in Generations : MarkingIsSafe(g)'
    BY MarkingStaysSafe
  <2>3. Generations' = Generations
    BY DEF Generations
  <2> QED
    BY <2>1, <2>2, <2>3, MarkedStaySafe, NextLoses DEF LossInv
<1>3. LossInv => NothingLost
  BY DEF LossInv
<1> QED
  BY <1>1, <1>2, <1>3, PTL DEF Spec

-----------------------------------------------------------------------------
(* Moves duplicate nothing *)

\* The user asked for a second copy.
Copied(m) == \E i \in Stored : ops[i].kind = "copy" /\ ops[i].msg = m
OneEntryEach ==
    \A e, f \in remote : e.msg = f.msg /\ ~Copied(e.msg) => e = f
OnlyCopiesCopy == \A g \in Generations : At(g, "copy") => Op(g).kind = "copy"
MoveInv == TypeInv /\ Numbered /\ OneEntryEach /\ OnlyCopiesCopy

LEMMA CopiedStays ==
    ASSUME TypeInv, [Next]_vars, NEW m, Copied(m)
    PROVE  Copied(m)'
<1>1. PICK i \in Stored : ops[i].kind = "copy" /\ ops[i].msg = m
  BY DEF Copied
<1>2. i \in OpIds /\ ops[i] \in Operation
  BY StoredOperation
<1>3. ops'[i] \in Operation /\ ops'[i].kind = "copy" /\ ops'[i].msg = m
  BY <1>1, <1>2, NextType DEF KeepsOperations
<1>4. i \in Stored'
  BY <1>2, <1>3 DEF Stored, Operation, Active, Settled
<1> QED
  BY <1>3, <1>4 DEF Copied

\* Changing every entry by itself keeps one entry of each message.
LEMMA ImageKeepsOne ==
    ASSUME MoveInv, [Next]_vars, NEW Change,
           \A e \in remote : Change[e].msg = e.msg,
           \A f \in remote' : \E e \in remote : f = Change[e]
    PROVE  OneEntryEach'
<1> SUFFICES ASSUME NEW e \in remote', NEW f \in remote', e.msg = f.msg,
                    ~Copied(e.msg)'
             PROVE  e = f
  BY DEF OneEntryEach
<1>1. PICK e0 \in remote, f0 \in remote : e = Change[e0] /\ f = Change[f0]
  OBVIOUS
<1>2. e0.msg = e.msg /\ f0.msg = e.msg
  BY <1>1
<1>3. ~Copied(e.msg)
  BY CopiedStays DEF MoveInv
<1>4. e0 = f0
  BY <1>2, <1>3 DEF MoveInv, OneEntryEach
<1> QED
  BY <1>1, <1>4

LEMMA NextOneEntry ==
    ASSUME MoveInv, [Next]_vars
    PROVE  OneEntryEach'
<1> USE DEF MoveInv
<1>1. CASE remote' \subseteq remote
  BY <1>1, CopiedStays DEF OneEntryEach
<1>2. ASSUME NEW g \in Generations, LoopStep(g)
      PROVE  OneEntryEach'
  <2>1. CASE StoreFlag(g)
    <3> DEFINE Change == [e \in remote |->
                         IF IsTarget(e, Op(g))
                         THEN [e EXCEPT !.read = Op(g).value] ELSE e]
    <3>1. \A e \in remote : Change[e].msg = e.msg
      BY DEF TypeInv, TypeOK, Entry
    <3>2. \A f \in remote' : \E e \in remote : f = Change[e]
      BY <2>1 DEF StoreFlag
    <3> HIDE DEF Change
    <3> QED
      BY <3>1, <3>2, ImageKeepsOne
  <2>2. CASE MarkDeleted(g)
    <3> DEFINE Change == [e \in remote |->
                         IF IsTarget(e, Op(g))
                         THEN [e EXCEPT !.deleted = TRUE] ELSE e]
    <3>1. \A e \in remote : Change[e].msg = e.msg
      BY DEF TypeInv, TypeOK, Entry
    <3>2. \A f \in remote' : \E e \in remote : f = Change[e]
      BY <2>2 DEF MarkDeleted
    <3> HIDE DEF Change
    <3> QED
      BY <3>1, <3>2, ImageKeepsOne
  <2>3. CASE CopyMessage(g) \/ MoveMessage(g)
    <3>1. /\ worker[g].op \in Stored /\ Op(g) = ops[worker[g].op]
          /\ Op(g).dst \in Mailboxes
      BY <2>3, HeldOperation
      DEF CopyMessage, MoveMessage, At, Holding, Op, TypeInv, HeldIsStored
    <3>2. \A e \in Targets(Op(g)) :
             e \in remote /\ ArrivalOf(e, Op(g).dst).msg = e.msg
      BY <3>1, ArrivalArrives DEF Targets
    <3> SUFFICES ASSUME NEW e \in remote', NEW f \in remote', e.msg = f.msg,
                        ~Copied(e.msg)'
                 PROVE  e = f
      BY DEF OneEntryEach
    <3>3. ~Copied(e.msg)
      BY CopiedStays
    <3>4. CASE CopyMessage(g)
      \* An arrival is of a message the user copied.
      <4>1. At(g, "copy") /\ Op(g).kind = "copy"
        BY <3>4 DEF CopyMessage, OnlyCopiesCopy
      <4>2. Copied(Op(g).msg)
        BY <3>1, <4>1 DEF Copied
      <4>3. \A t \in Targets(Op(g)) : t.msg = Op(g).msg
        BY <3>1, TargetsAreTheMessage
      <4>4. e \in remote /\ f \in remote
        BY <3>2, <3>3, <3>4, <4>2, <4>3 DEF CopyMessage
      <4> QED
        BY <3>3, <4>4 DEF OneEntryEach
    <3>5. CASE MoveMessage(g)
      <4>1. \A x \in remote' :
               \/ x \in remote \ Targets(Op(g))
               \/ \E t \in Targets(Op(g)) : x = ArrivalOf(t, Op(g).dst)
        BY <3>5 DEF MoveMessage
      <4>2. CASE e \in remote \ Targets(Op(g)) /\ f \in remote \ Targets(Op(g))
        BY <3>3, <4>2 DEF OneEntryEach
      <4>3. ASSUME NEW t \in Targets(Op(g)), e = ArrivalOf(t, Op(g).dst),
                   f \in remote \ Targets(Op(g))
            PROVE  FALSE
        BY <3>2, <3>3, <4>3 DEF OneEntryEach
      <4>4. ASSUME NEW t \in Targets(Op(g)), f = ArrivalOf(t, Op(g).dst),
                   e \in remote \ Targets(Op(g))
            PROVE  FALSE
        BY <3>2, <3>3, <4>4 DEF OneEntryEach
      <4>5. ASSUME NEW t \in Targets(Op(g)), e = ArrivalOf(t, Op(g).dst),
                   NEW u \in Targets(Op(g)), f = ArrivalOf(u, Op(g).dst)
            PROVE  e = f
        <5>1. t = u
          BY <3>2, <3>3, <4>5 DEF OneEntryEach
        <5> QED
          BY <4>5, <5>1
      <4> QED
        BY <4>1, <4>2, <4>3, <4>4, <4>5
    <3> QED
      BY <2>3, <3>4, <3>5
  <2>4. CASE ExpungeUid(g)
    BY <1>1, <2>4 DEF ExpungeUid
  <2> QED
    BY <1>1, <1>2, <2>1, <2>2, <2>3, <2>4
    DEF LoopStep, DrainStep, LeaveLoop, TakeRequest, RequestDropped,
        EnterDrain, DrainFails, ClaimPendingOperation, NothingToClaim,
        CheckGeneration, SelectSource, CommandFails, CompletePendingOperation,
        FailPendingOperation, OutcomeLost, server
<1>3. CASE WorldStep
  <2>1. ASSUME NEW e \in remote, OtherClientExpunges(e)
        PROVE  OneEntryEach'
    BY <1>1, <2>1 DEF OtherClientExpunges
  <2>2. ASSUME NEW x \in remote, OtherClientSetsRead(x)
        PROVE  OneEntryEach'
    <3> DEFINE Change == [e \in remote |->
                         IF e = x THEN [x EXCEPT !.read = ~@] ELSE e]
    <3>1. \A e \in remote : Change[e].msg = e.msg
      BY DEF TypeInv, TypeOK, Entry
    <3>2. \A f \in remote' : \E e \in remote : f = Change[e]
      BY <2>2 DEF OtherClientSetsRead
    <3> HIDE DEF Change
    <3> QED
      BY <3>1, <3>2, ImageKeepsOne
  <2>3. ASSUME NEW mb \in Mailboxes, RenumberMailbox(mb)
        PROVE  OneEntryEach'
    <3> DEFINE Change == [e \in remote |->
                         IF e.mb = mb
                         THEN [e EXCEPT !.validity = @ + 1] ELSE e]
    <3>1. \A e \in remote : Change[e].msg = e.msg
      BY DEF TypeInv, TypeOK, Entry
    <3>2. \A f \in remote' : \E e \in remote : f = Change[e]
      BY <2>3 DEF RenumberMailbox
    <3> HIDE DEF Change
    <3> QED
      BY <3>1, <3>2, ImageKeepsOne
  <2> QED
    BY <1>1, <1>3, <2>1, <2>2, <2>3 DEF WorldStep, Crash, server
<1>4. CASE \/ UserStep \/ EnsureSupervisor \/ SyncRequestsOperations
           \/ UNCHANGED vars
           \/ \E i \in OpIds : BackoffElapses(i)
  BY <1>1, <1>4
  DEF UserStep, SetMessageRead, TransferMessages, DeleteMessages,
      RetryPendingOperation, RestartAccount, EnsureSupervisor,
      SyncRequestsOperations, BackoffElapses, vars, server
<1> QED
  BY <1>2, <1>3, <1>4 DEF Next

LEMMA NextCopying ==
    ASSUME MoveInv, HasMove = TRUE, [Next]_vars
    PROVE  OnlyCopiesCopy'
<1> USE DEF MoveInv
<1> SUFFICES ASSUME NEW g \in Generations, worker'[g].pc = "copy"
             PROVE  Op(g)'.kind = "copy"
  BY DEF OnlyCopiesCopy, At, Generations
<1>1. CASE worker'[g] = worker[g]
  <2>1. worker[g].pc \in Holding /\ Op(g).kind = "copy"
    BY <1>1 DEF Holding, OnlyCopiesCopy, At
  <2>2. ops'[worker[g].op].kind = ops[worker[g].op].kind
    BY <2>1, HeldAimStays
  <2> QED
    BY <1>1, <2>1, <2>2 DEF Op
<1>2. CASE Session(g)
  <2>1. worker[g].pc \in Holding
    BY <1>2 DEF Session, SelectSource, StoreFlag, CopyMessage, MoveMessage,
                MarkDeleted, ExpungeUid, CommandFails, At, Holding, Commands
  <2>2. Op(g) \in Operation /\ Op(g).kind \in AllKinds
    BY <2>1, HeldOperation DEF Operation
  <2>3. \A pc \in Stage : Goto(g, pc) \/ Answered(g, pc) =>
           /\ worker'[g].op = worker[g].op
           /\ worker'[g].pc = pc \/ worker'[g].pc = "failing"
    BY GotoIsTyped, GiveUpIsTyped DEF Answered
  <2>4. GiveUp(g, TRUE) \/ GiveUp(g, FALSE) => worker'[g].pc = "failing"
    BY GiveUpIsTyped
  <2>5. CASE SelectSource(g)
    <3>1. \/ GiveUp(g, FALSE) \/ Goto(g, "completing")
          \/ Goto(g, FirstCommand(Op(g)))
      BY <2>5 DEF SelectSource
    <3>2. FirstCommand(Op(g)) \in Stage
      BY <2>2 DEF FirstCommand, AllKinds, Stage
    <3>3. Goto(g, FirstCommand(Op(g)))
      BY <2>3, <2>4, <3>1 DEF Stage
    <3>4. FirstCommand(Op(g)) = "copy" /\ worker'[g].op = worker[g].op
      BY <2>3, <3>2, <3>3
    <3>5. Op(g).kind = "copy"
      BY <2>2, <3>4 DEF FirstCommand, AllKinds
    <3> QED
      BY <2>5, <3>4, <3>5 DEF SelectSource, disk, Op
  <2>6. CASE MarkDeleted(g)
    <3>1. worker' = [worker EXCEPT ![g].pc = "completing",
                                   ![g].cleanup = TRUE]
          => worker'[g].pc = "completing"
      BY DEF TypeInv, TypeOK, Worker
    <3>2. Goto(g, "expunge") => worker'[g].pc = "expunge"
      BY GotoIsTyped DEF Stage
    <3> QED
      BY <2>4, <2>6, <3>1, <3>2 DEF MarkDeleted
  <2>7. CASE \/ StoreFlag(g) \/ CopyMessage(g) \/ MoveMessage(g)
             \/ ExpungeUid(g) \/ CommandFails(g)
    <3>1. \/ Answered(g, "completing") \/ Answered(g, "mark_deleted")
          \/ GiveUp(g, TRUE)
      BY <2>7 DEF StoreFlag, CopyMessage, MoveMessage, ExpungeUid, CommandFails
    <3> QED
      BY <2>3, <2>4, <3>1 DEF Stage
  <2> QED
    BY <1>2, <2>5, <2>6, <2>7 DEF Session
<1>3. LoopMoves(g)
  BY NextLoops
<1> QED
  BY <1>1, <1>2, <1>3 DEF LoopMoves

\* With UID MOVE a message nobody copied has one entry on the server, however
\* often a move of it is retried, restarted or loses its answer.
THEOREM MovesNeverDuplicate ==
    ASSUME HasMove = TRUE
    PROVE  Spec => []MoveNeverDuplicates
<1>1. Init => MoveInv
  <2> SUFFICES ASSUME Init PROVE MoveInv
    OBVIOUS
  <2>1. TypeInv /\ Numbered
    BY InitType, InitNumbered
  <2>2. PICK place \in [Messages -> Mailboxes],
             uid \in [Messages -> 1..Cardinality(Messages)] :
          /\ remote = {[msg |-> m, mb |-> place[m], validity |-> 1,
                        uid |-> uid[m], read |-> FALSE, deleted |-> FALSE] :
                          m \in Messages}
          /\ worker = [g \in Generations |-> Nobody]
    BY DEF Init
  <2>3. OneEntryEach
    <3> DEFINE Entered(m) == [msg |-> m, mb |-> place[m], validity |-> 1,
                              uid |-> uid[m], read |-> FALSE,
                              deleted |-> FALSE]
    <3> SUFFICES ASSUME NEW e \in remote, NEW f \in remote, e.msg = f.msg
                 PROVE  e = f
      BY DEF OneEntryEach
    <3>1. PICK m \in Messages, n \in Messages :
             e = Entered(m) /\ f = Entered(n)
      BY <2>2
    <3>2. m = n
      BY <3>1
    <3> QED
      BY <3>1, <3>2
  <2>4. OnlyCopiesCopy
    BY <2>2 DEF OnlyCopiesCopy, At, Nobody
  <2> QED
    BY <2>1, <2>3, <2>4 DEF MoveInv
<1>2. MoveInv /\ [Next]_vars => MoveInv'
  <2> SUFFICES ASSUME MoveInv, [Next]_vars PROVE MoveInv'
    OBVIOUS
  <2>1. TypeInv' /\ Numbered'
    BY NextType, NextNumbered DEF MoveInv
  <2> QED
    BY <2>1, NextOneEntry, NextCopying DEF MoveInv
<1>3. MoveInv => MoveNeverDuplicates
  <2> SUFFICES ASSUME MoveInv, NEW m \in Messages, ~Copied(m)
               PROVE  Cardinality({e \in remote : e.msg = m}) <= 1
    BY DEF MoveNeverDuplicates, Copied
  <2> DEFINE Mine == {e \in remote : e.msg = m}
  <2>1. CASE Mine = {}
    <3>1. Cardinality(Mine) = 0
      BY <2>1, FS_EmptySet
    <3> QED
      BY <3>1
  <2>2. CASE Mine # {}
    <3>1. PICK e : e \in Mine
      BY <2>2
    <3>2. Mine = {e}
      BY <3>1 DEF MoveInv, OneEntryEach
    <3>3. Cardinality(Mine) = 1
      BY <3>2, FS_Singleton
    <3> QED
      BY <3>3
  <2> QED
    BY <2>1, <2>2
<1> QED
  BY <1>1, <1>2, <1>3, PTL DEF Spec

-----------------------------------------------------------------------------
(* An operation is in one pair of hands *)

NeverFails == budget.recovery = 0
HeldWhileWorking ==
    \A g \in Generations : worker[g].op # NoOp => worker[g].pc \in Holding
\* Until the recovery ran, no loop is past it.
NothingBeforeRecovery ==
    ~recovered => \A g \in Generations : worker[g].pc \in {"absent", "waiting"}
ClaimInv == /\ TypeInv /\ NeverFails /\ HeldWhileWorking
            /\ NothingBeforeRecovery /\ ExclusiveClaim

LEMMA ClaimsRest ==
    ASSUME ClaimInv,
           \A i \in OpIds :
              ops[i].status = "running" => ops'[i].status = "running",
           \A g \in Generations :
              \/ worker'[g].op = NoOp
              \/ worker'[g].op = worker[g].op /\ worker'[g].pc \in Holding
    PROVE  HeldWhileWorking' /\ ExclusiveClaim'
<1> USE DEF ClaimInv
<1>1. HeldWhileWorking'
  BY DEF HeldWhileWorking, Generations
<1>2. ASSUME NEW g \in Generations, worker'[g].op # NoOp
      PROVE  /\ worker'[g].op = worker[g].op /\ worker[g].op \in OpIds
             /\ ops'[worker'[g].op].status = "running"
             /\ \A h \in Generations : worker'[h].op = worker'[g].op => h = g
  <2>1. worker'[g].op = worker[g].op /\ worker[g].op # NoOp
    BY <1>2
  <2>2. worker[g].op \in OpIds
    BY <2>1 DEF HeldWhileWorking, TypeInv, HeldIsStored
  <2> QED
    BY <2>1, <2>2, <1>2 DEF ExclusiveClaim
<1> QED
  BY <1>1, <1>2 DEF ExclusiveClaim, Generations

\* Letting go of a running operation, whatever becomes of it.
LEMMA ReleaseIsExclusive ==
    ASSUME ClaimInv, NEW g \in Generations, OthersStay(g),
           worker'[g].op = NoOp, worker[g].op # NoOp,
           \A j \in OpIds \ {worker[g].op} : ops'[j] = ops[j]
    PROVE  HeldWhileWorking' /\ ExclusiveClaim'
<1> USE DEF ClaimInv
<1>1. ASSUME NEW h \in Generations, worker'[h].op # NoOp
      PROVE  /\ worker'[h].pc \in Holding
             /\ ops'[worker'[h].op].status = "running"
             /\ \A k \in Generations : worker'[k].op = worker'[h].op => k = h
  <2>1. h # g /\ worker'[h] = worker[h]
    BY <1>1 DEF OthersStay
  <2>2. worker[h].pc \in Holding /\ worker[h].op \in OpIds
    BY <1>1, <2>1 DEF HeldWhileWorking, TypeInv, HeldIsStored
  <2>3. worker[h].op # worker[g].op
    BY <1>1, <2>1 DEF ExclusiveClaim
  <2>4. ops'[worker[h].op] = ops[worker[h].op]
    BY <2>2, <2>3
  <2>5. \A k \in Generations : worker'[k].op = worker'[h].op => k = h
    BY <1>1, <2>1 DEF ExclusiveClaim, OthersStay
  <2> QED
    BY <1>1, <2>1, <2>2, <2>4, <2>5 DEF ExclusiveClaim
<1> QED
  BY <1>1 DEF HeldWhileWorking, ExclusiveClaim, Generations

LEMMA LoopClaims ==
    ASSUME ClaimInv, NEW g \in Generations, LoopStep(g)
    PROVE  HeldWhileWorking' /\ ExclusiveClaim'
<1> USE DEF ClaimInv
<1>0. OthersStay(g) /\ worker[g] \in Worker
  BY OnlyOneMoves DEF TypeInv, TypeOK
<1>1. \A h \in Generations \ {g} :
         \/ worker'[h].op = NoOp
         \/ worker'[h].op = worker[h].op /\ worker'[h].pc \in Holding
  BY <1>0 DEF OthersStay, HeldWhileWorking
<1>2. ASSUME UNCHANGED ops,
             \/ worker'[g].op = NoOp
             \/ worker'[g].op = worker[g].op /\ worker'[g].pc \in Holding
      PROVE  HeldWhileWorking' /\ ExclusiveClaim'
  BY <1>1, <1>2, ClaimsRest
<1>3. worker[g].pc \notin Holding => worker[g].op = NoOp
  BY DEF HeldWhileWorking
<1>4. \A pc \in Stage : Goto(g, pc) =>
         worker'[g].pc = pc /\ worker'[g].op = worker[g].op
  BY GotoIsTyped
<1>5. Return(g) => worker'[g].op = NoOp
  BY ReturnIsTyped
<1>6. GiveUp(g, TRUE) \/ GiveUp(g, FALSE) =>
         worker'[g].pc = "failing" /\ worker'[g].op = worker[g].op
  BY GiveUpIsTyped
<1>7. CASE LeaveLoop(g)
  <2>1. worker'[g].op = NoOp
    BY <1>7 DEF LeaveLoop, Nobody, TypeInv, TypeOK
  <2> QED
    BY <1>2, <1>7, <2>1 DEF LeaveLoop, disk
<1>8. CASE TakeRequest(g)
  <2>1. worker'[g].op = NoOp
    BY <1>3, <1>4, <1>8 DEF TakeRequest, At, Holding, Stage
  <2>2. CASE UNCHANGED ops
    BY <1>2, <2>1, <2>2
  <2>3. CASE ~recovered
    <3>1. \A h \in Generations : worker[h].op = NoOp
      BY <2>3 DEF NothingBeforeRecovery, HeldWhileWorking, Holding
    <3>2. \A h \in Generations : worker'[h].op = NoOp
      BY <1>0, <2>1, <3>1 DEF OthersStay
    <3> QED
      BY <3>2 DEF HeldWhileWorking, ExclusiveClaim, Generations
  <2> QED
    BY <1>8, <2>2, <2>3 DEF TakeRequest
<1>9. CASE RequestDropped(g)
  BY <1>2, <1>3, <1>9 DEF RequestDropped, disk, Holding, At
<1>10. CASE EnterDrain(g)
  <2>1. worker'[g].op = NoOp
    BY <1>3, <1>4, <1>5, <1>10 DEF EnterDrain, At, Holding, Stage
  <2> QED
    BY <1>2, <1>10, <2>1 DEF EnterDrain, disk
<1>11. CASE DrainFails(g) \/ NothingToClaim(g) \/ OutcomeLost(g)
  BY <1>2, <1>5, <1>11 DEF DrainFails, NothingToClaim, OutcomeLost, disk
<1>12. CASE ClaimPendingOperation(g)
  <2>1. PICK i \in Eligible :
          /\ ops' = [ops EXCEPT ![i].status = "running", ![i].attempts = @ + 1]
          /\ worker' = [worker EXCEPT ![g] =
                [Nobody EXCEPT !.pc = "claimed", !.op = i,
                               !.attempt = ops[i].attempts + 1]]
    BY <1>12 DEF ClaimPendingOperation
  <2>2. /\ i \in OpIds /\ ops[i] \in Operation /\ i # NoOp
        /\ ops[i].status # "running"
    BY ConstantsAssumption DEF Eligible, TypeInv, TypeOK, Absent, NoOp
  <2>3. /\ ops'[i].status = "running"
        /\ \A j \in OpIds \ {i} : ops'[j] = ops[j]
    BY <2>1, <2>2 DEF TypeInv, TypeOK, Operation
  <2>4. worker'[g].op = i /\ worker'[g].pc \in Holding
    BY <2>1 DEF TypeInv, TypeOK, Nobody, Holding
  <2>5. ASSUME NEW h \in Generations \ {g}, worker[h].op # NoOp
        PROVE  /\ worker[h].op # i /\ worker[h].op \in OpIds
               /\ ops'[worker[h].op].status = "running"
    <3>1. ops[worker[h].op].status = "running" /\ worker[h].op \in OpIds
      BY <2>5 DEF ExclusiveClaim, HeldWhileWorking, TypeInv, HeldIsStored
    <3> QED
      BY <2>2, <2>3, <3>1
  <2>6. HeldWhileWorking'
    BY <1>1, <2>4 DEF HeldWhileWorking, Generations
  <2>7. ASSUME NEW h \in Generations, worker'[h].op # NoOp
        PROVE  /\ ops'[worker'[h].op].status = "running"
               /\ \A k \in Generations : worker'[k].op = worker'[h].op => k = h
    <3>1. \A k \in Generations \ {g} : worker'[k] = worker[k]
      BY <1>0 DEF OthersStay
    <3>2. CASE h = g
      BY <2>2, <2>3, <2>4, <2>5, <3>1, <3>2
    <3>3. CASE h # g
      BY <2>2, <2>4, <2>5, <2>7, <3>1, <3>3 DEF ExclusiveClaim
    <3> QED
      BY <3>2, <3>3
  <2> QED
    BY <2>6, <2>7 DEF ExclusiveClaim, Generations
<1>13. CASE CheckGeneration(g)
  <2>1. CASE Goto(g, "select")
    BY <1>2, <1>4, <1>13, <2>1 DEF CheckGeneration, disk, Holding, Stage
  <2>2. CASE Return(g)
    BY <1>2, <1>5, <1>13, <2>2 DEF CheckGeneration, disk
  <2> QED
    BY <1>13, <2>1, <2>2 DEF CheckGeneration
<1>14. CASE Session(g)
  <2>1. UNCHANGED ops
    BY <1>14
    DEF Session, SelectSource, StoreFlag, CopyMessage, MoveMessage,
        MarkDeleted, ExpungeUid, CommandFails, disk
  <2>2. \A pc \in Stage \cap Holding : Goto(g, pc) \/ Answered(g, pc) =>
           worker'[g].op = worker[g].op /\ worker'[g].pc \in Holding
    BY <1>4, <1>6 DEF Answered, Holding
  <2>3. worker'[g].op = worker[g].op /\ worker'[g].pc \in Holding
    <3>1. CASE SelectSource(g)
      <4>1. Op(g) \in Operation /\ Op(g).kind \in AllKinds
        BY <3>1, HeldOperation DEF SelectSource, At, Holding, Operation
      <4>2. FirstCommand(Op(g)) \in Stage \cap Holding
        BY <4>1 DEF FirstCommand, AllKinds, Stage, Holding
      <4>3. \/ GiveUp(g, FALSE) \/ Goto(g, "completing")
            \/ Goto(g, FirstCommand(Op(g)))
        BY <3>1 DEF SelectSource
      <4> QED
        BY <1>6, <2>2, <4>2, <4>3 DEF Stage, Holding
    <3>2. CASE MarkDeleted(g)
      <4>1. CASE worker' = [worker EXCEPT ![g].pc = "completing",
                                          ![g].cleanup = TRUE]
        <5>1. worker'[g] = [worker[g] EXCEPT !.pc = "completing",
                                             !.cleanup = TRUE]
          BY <4>1 DEF TypeInv, TypeOK
        <5> QED
          BY <1>0, <5>1 DEF Worker, Holding
      <4> QED
        BY <1>6, <2>2, <3>2, <4>1 DEF MarkDeleted, Stage, Holding
    <3>3. CASE \/ StoreFlag(g) \/ CopyMessage(g) \/ MoveMessage(g)
               \/ ExpungeUid(g) \/ CommandFails(g)
      <4>1. \/ Answered(g, "completing") \/ Answered(g, "mark_deleted")
            \/ GiveUp(g, TRUE)
        BY <3>3
        DEF StoreFlag, CopyMessage, MoveMessage, ExpungeUid, CommandFails
      <4> QED
        BY <1>6, <2>2, <4>1 DEF Stage, Holding
    <3> QED
      BY <1>14, <3>1, <3>2, <3>3 DEF Session
  <2> QED
    BY <1>2, <2>1, <2>3
<1>15. CASE CompletePendingOperation(g) \/ FailPendingOperation(g)
  <2>1. worker[g].pc \in Holding
    BY <1>15 DEF CompletePendingOperation, FailPendingOperation, At, Holding
  <2>2. /\ worker[g].op \in OpIds /\ worker[g].op # NoOp
    BY <2>1, HeldOperation, ConstantsAssumption DEF NoOp
  <2>3. worker'[g].op = NoOp
    <3>1. worker' = [worker EXCEPT ![g] = [Nobody EXCEPT !.pc = "draining"]]
          => worker'[g].op = NoOp
      BY DEF TypeInv, TypeOK, Nobody
    <3> QED
      BY <1>5, <1>15, <3>1 DEF CompletePendingOperation, FailPendingOperation
  <2>4. \A j \in OpIds \ {worker[g].op} : ops'[j] = ops[j]
    BY <1>15, <2>2
    DEF CompletePendingOperation, FailPendingOperation, TypeInv, TypeOK
  <2> QED
    BY <1>0, <2>2, <2>3, <2>4, ReleaseIsExclusive
<1> QED
  BY <1>7, <1>8, <1>9, <1>10, <1>11, <1>12, <1>13, <1>14, <1>15
  DEF LoopStep, DrainStep, Session

LEMMA NextClaims ==
    ASSUME ClaimInv, [Next]_vars
    PROVE  HeldWhileWorking' /\ ExclusiveClaim'
<1> USE DEF ClaimInv
<1>1. \A g \in Generations :
         \/ worker[g].op = NoOp
         \/ worker[g].pc \in Holding
  BY DEF HeldWhileWorking
<1>2. ASSUME UNCHANGED worker,
             \A i \in OpIds :
                ops[i].status = "running" => ops'[i].status = "running"
      PROVE  HeldWhileWorking' /\ ExclusiveClaim'
  BY <1>1, <1>2, ClaimsRest
<1>3. ASSUME NEW kind, NEW row, NEW dst, NEW value,
             InsertOperation(kind, row, dst, value)
      PROVE  \A i \in OpIds :
                ops[i].status = "running" => ops'[i].status = "running"
  BY <1>3 DEF InsertOperation, Stored, TypeInv, TypeOK
<1>4. CASE RestartAccount \/ EnsureSupervisor
  <2>1. StartSupervisor /\ UNCHANGED ops
    BY <1>4 DEF RestartAccount, EnsureSupervisor, disk
  <2>2. \A g \in Generations : worker'[g] = worker[g] \/ worker'[g].op = NoOp
    BY <2>1 DEF StartSupervisor, Nobody, TypeInv, TypeOK
  <2> QED
    BY <1>1, <2>1, <2>2, ClaimsRest
<1>5. CASE UserStep
  <2>1. ASSUME NEW i \in OpIds, RetryPendingOperation(i)
        PROVE  HeldWhileWorking' /\ ExclusiveClaim'
    BY <1>2, <2>1 DEF RetryPendingOperation, TypeInv, TypeOK
  <2>2. ASSUME NEW m, NEW src, NEW dst, NEW copy, UNCHANGED worker,
               QueueTransfer(m, src, dst, copy)
        PROVE  HeldWhileWorking' /\ ExclusiveClaim'
    BY <1>2, <1>3, <2>2 DEF QueueTransfer
  <2>3. ASSUME NEW m, NEW mb, UNCHANGED worker, QueuePermanentDelete(m, mb)
        PROVE  HeldWhileWorking' /\ ExclusiveClaim'
    BY <1>2, <1>3, <2>3 DEF QueuePermanentDelete
  <2>4. ASSUME NEW m, NEW mb, NEW v, SetMessageRead(m, mb, v)
        PROVE  HeldWhileWorking' /\ ExclusiveClaim'
    BY <1>2, <1>3, <2>4 DEF SetMessageRead
  <2> QED
    BY <1>4, <1>5, <2>1, <2>2, <2>3, <2>4
    DEF UserStep, TransferMessages, DeleteMessages
<1>6. ASSUME NEW i \in OpIds, BackoffElapses(i)
      PROVE  HeldWhileWorking' /\ ExclusiveClaim'
  BY <1>2, <1>6 DEF BackoffElapses, TypeInv, TypeOK
<1>7. CASE Crash
  <2>1. \A g \in Generations : worker'[g].op = NoOp
    BY <1>7 DEF Crash, Nobody
  <2> QED
    BY <2>1 DEF HeldWhileWorking, ExclusiveClaim, Generations
<1>8. CASE WorldStep
  BY <1>2, <1>7, <1>8
  DEF WorldStep, OtherClientExpunges, OtherClientSetsRead, RenumberMailbox,
      disk
<1>9. CASE SyncRequestsOperations \/ UNCHANGED vars
  BY <1>2, <1>9 DEF SyncRequestsOperations, vars, disk
<1> QED
  BY <1>4, <1>5, <1>6, <1>8, <1>9, LoopClaims DEF Next

LEMMA NextRecovery ==
    ASSUME ClaimInv, [Next]_vars
    PROVE  NothingBeforeRecovery'
<1> USE DEF ClaimInv
<1>1. CASE Crash
  BY <1>1 DEF Crash, NothingBeforeRecovery, Nobody, Generations
<1>2. CASE RestartAccount \/ EnsureSupervisor
  <2>1. StartSupervisor /\ UNCHANGED recovered
    BY <1>2 DEF RestartAccount, EnsureSupervisor
  <2>2. \A g \in Generations :
           worker'[g] = worker[g] \/ worker'[g].pc = "waiting"
    BY <2>1 DEF StartSupervisor, Nobody, TypeInv, TypeOK
  <2> QED
    BY <2>1, <2>2 DEF NothingBeforeRecovery, Generations
<1>3. ASSUME NEW g \in Generations, LoopStep(g)
      PROVE  NothingBeforeRecovery'
  <2>1. CASE recovered'
    BY <2>1 DEF NothingBeforeRecovery
  <2>2. CASE ~recovered'
    <3>1. ~recovered /\ worker[g].pc \in {"absent", "waiting"}
      <4>1. recovered = recovered' \/ recovered'
        BY <1>3
        DEF LoopStep, DrainStep, LeaveLoop, TakeRequest, RequestDropped,
            EnterDrain, DrainFails, ClaimPendingOperation, NothingToClaim,
            CheckGeneration, SelectSource, StoreFlag, CopyMessage, MoveMessage,
            MarkDeleted, ExpungeUid, CommandFails, CompletePendingOperation,
            FailPendingOperation, OutcomeLost, memory
      <4> QED
        BY <2>2, <4>1 DEF NothingBeforeRecovery
    <3>2. LeaveLoop(g) \/ TakeRequest(g) \/ RequestDropped(g)
      BY <1>3, <3>1
      DEF LoopStep, DrainStep, EnterDrain, DrainFails,
          ClaimPendingOperation, NothingToClaim, CheckGeneration, At,
          SelectSource, StoreFlag, CopyMessage, MoveMessage, MarkDeleted,
          ExpungeUid, CommandFails, CompletePendingOperation,
          FailPendingOperation, OutcomeLost, Commands
    <3>3. ~TakeRequest(g)
      BY <2>2, <3>1 DEF TakeRequest, Spend, NeverFails
    <3>4. worker'[g].pc \in {"absent", "waiting"}
      BY <3>1, <3>2, <3>3
      DEF LeaveLoop, RequestDropped, Nobody, TypeInv, TypeOK
    <3> QED
      BY <1>3, <3>1, <3>4, OnlyOneMoves
      DEF NothingBeforeRecovery, OthersStay, Generations
  <2> QED
    BY <2>1, <2>2
<1>4. CASE UNCHANGED <<worker, recovered>>
  BY <1>4 DEF NothingBeforeRecovery, Generations
<1>5. CASE UserStep
  BY <1>2, <1>4, <1>5
  DEF UserStep, SetMessageRead, TransferMessages, DeleteMessages,
      RetryPendingOperation
<1>6. CASE WorldStep
  BY <1>1, <1>4, <1>6
  DEF WorldStep, OtherClientExpunges, OtherClientSetsRead, RenumberMailbox,
      memory
<1>7. CASE \/ SyncRequestsOperations \/ UNCHANGED vars
           \/ \E i \in OpIds : BackoffElapses(i)
  BY <1>4, <1>7 DEF SyncRequestsOperations, BackoffElapses, vars, memory
<1> QED
  BY <1>2, <1>3, <1>5, <1>6, <1>7 DEF Next

LEMMA InitClaims == Init /\ Budget.recovery = 0 => ClaimInv
<1> SUFFICES ASSUME Init, Budget.recovery = 0 PROVE ClaimInv
  OBVIOUS
<1>1. /\ worker = [g \in Generations |-> Nobody]
      /\ budget = Budget
  BY DEF Init
<1> QED
  BY <1>1, InitType
  DEF ClaimInv, NeverFails, HeldWhileWorking, NothingBeforeRecovery,
      ExclusiveClaim, Nobody

LEMMA NextClaimInv == ClaimInv /\ [Next]_vars => ClaimInv'
<1> SUFFICES ASSUME ClaimInv, [Next]_vars PROVE ClaimInv'
  OBVIOUS
<1>1. TypeInv' /\ NeverFails'
  BY NextType, BudgetsShrink DEF ClaimInv, NeverFails
<1> QED
  BY <1>1, NextClaims, NextRecovery DEF ClaimInv

\* Claims, generation changes and the recovery at process start never put an
\* operation into the hands of two loops, if the recovery succeeds when it
\* is first tried (claim_pending_operation, recover_pending_operations).
THEOREM ClaimsAreExclusive ==
    ASSUME Budget.recovery = 0
    PROVE  Spec => []ExclusiveClaim
<1>1. ClaimInv => ExclusiveClaim
  BY DEF ClaimInv
<1>2. Init => ClaimInv
  BY InitClaims
<1> QED
  BY <1>1, <1>2, NextClaimInv, PTL DEF Spec

-----------------------------------------------------------------------------
(* The queue implements DurableQueue *)

Promised == [i \in OpIds |-> StateOf(ops[i].status)]
OutOfSight == {<<row.msg, row.mb>> : row \in {r \in local : r.hidden}}

\* Operation i passes from one state of DurableQueue to another one.
Passes(i, from, to) ==
    /\ StateOf(ops[i].status) = from /\ StateOf(ops'[i].status) = to
    /\ \A j \in OpIds \ {i} : ops'[j].status = ops[j].status

LEMMA StatesOfTheStatuses ==
    /\ StateOf("absent") = "none" /\ StateOf("queued") = "pending"
    /\ StateOf("running") = "pending" /\ StateOf("retry_wait") = "pending"
    /\ StateOf("succeeded") = "done" /\ StateOf("failed") = "rejected"
  BY DEF StateOf, Active

LEMMA PassingMoves ==
    ASSUME NEW i \in OpIds, NEW from, NEW to, Passes(i, from, to)
    PROVE  Queue!Move(i, from, to)
<1>1. Promised[i] = from /\ Promised' = [Promised EXCEPT ![i] = to]
  BY DEF Passes, Promised
<1> QED
  BY <1>1 DEF Queue!Move, Promised

LEMMA UnpromisedRests ==
    ASSUME \A i \in OpIds : StateOf(ops'[i].status) = StateOf(ops[i].status),
           UNCHANGED OutOfSight
    PROVE  UNCHANGED Queue!queue
<1>1. Promised' = Promised
  BY DEF Promised
<1> QED
  BY <1>1 DEF Queue!queue, Promised, OutOfSight

\* What the updates of the projection do to the user's sight of it.
LEMMA UpdatesAndSight ==
    ASSUME local \subseteq Location, NEW m, NEW mb
    PROVE  /\ \A v \in BOOLEAN :
                 local' = SetRead(m, mb, v) => OutOfSight' = OutOfSight
           /\ local' = SetHidden(m, mb, TRUE) => OutOfSight \subseteq OutOfSight'
           /\ local' = SetHidden(m, mb, FALSE) => OutOfSight' \subseteq OutOfSight
           /\ local' = DeleteRows(m, mb) => OutOfSight' \subseteq OutOfSight
<1>1. ASSUME NEW v \in BOOLEAN, local' = SetRead(m, mb, v)
      PROVE  OutOfSight' = OutOfSight
  <2>1. ASSUME NEW row \in local, row.hidden
        PROVE  <<row.msg, row.mb>> \in OutOfSight'
    <3>1. PICK new \in local' :
             new = IF row.msg = m /\ row.mb = mb
                   THEN [row EXCEPT !.read = v] ELSE row
      BY <1>1 DEF SetRead, UpdateRows
    <3>2. new.msg = row.msg /\ new.mb = row.mb /\ new.hidden
      BY <2>1, <3>1 DEF Location
    <3> QED
      BY <3>1, <3>2 DEF OutOfSight
  <2>2. ASSUME NEW row \in local', row.hidden
        PROVE  <<row.msg, row.mb>> \in OutOfSight
    <3>1. PICK old \in local :
             old.hidden /\ old.msg = row.msg /\ old.mb = row.mb
      BY <1>1, <2>2, ReadHidesNothing
    <3> QED
      BY <3>1 DEF OutOfSight
  <2> QED
    BY <2>1, <2>2 DEF OutOfSight
<1>2. ASSUME local' = SetHidden(m, mb, TRUE)
      PROVE  OutOfSight \subseteq OutOfSight'
  <2> SUFFICES ASSUME NEW row \in local, row.hidden
               PROVE  <<row.msg, row.mb>> \in OutOfSight'
    BY DEF OutOfSight
  <2>1. PICK new \in local' :
           new = IF row.msg = m /\ row.mb = mb
                 THEN [row EXCEPT !.hidden = TRUE] ELSE row
    BY <1>2 DEF SetHidden, UpdateRows
  <2>2. new.msg = row.msg /\ new.mb = row.mb /\ new.hidden
    BY <2>1 DEF Location
  <2> QED
    BY <2>1, <2>2 DEF OutOfSight
<1>3. ASSUME local' = SetHidden(m, mb, FALSE)
      PROVE  OutOfSight' \subseteq OutOfSight
  BY <1>3, ShowHidesNothing DEF OutOfSight
<1>4. ASSUME local' = DeleteRows(m, mb)
      PROVE  OutOfSight' \subseteq OutOfSight
  BY <1>4 DEF DeleteRows, OutOfSight
<1> QED
  BY <1>1, <1>2, <1>3, <1>4

LEMMA InitPromises == Init => Queue!DQInit
<1> SUFFICES ASSUME Init PROVE Queue!DQInit
  OBVIOUS
<1>1. ops = [i \in OpIds |-> Absent] /\ \A row \in local : ~row.hidden
  BY DEF Init
<1>2. Promised = [i \in OpIds |-> "none"]
  BY <1>1, StatesOfTheStatuses DEF Promised, Absent
<1>3. OutOfSight = {}
  BY <1>1 DEF OutOfSight
<1> QED
  BY <1>2, <1>3 DEF Queue!DQInit, Promised, OutOfSight

LEMMA AcceptancePromises ==
    ASSUME TypeInv, TypeInv', NEW kind, NEW row, NEW dst, NEW value,
           InsertOperation(kind, row, dst, value),
           OutOfSight \subseteq OutOfSight'
    PROVE  Queue!DQNext
<1>1. PICK i \in OpIds \ Stored :
         /\ ops'[i].status = "queued"
         /\ \A j \in OpIds \ {i} : ops'[j] = ops[j]
  BY DEF InsertOperation, TypeInv, TypeOK
<1>2. Queue!Move(i, "none", "pending")
  BY <1>1, StatesOfTheStatuses, PassingMoves DEF Passes, Stored
<1>3. OutOfSight' \in SUBSET (Messages \X Mailboxes)
  BY DEF TypeInv, TypeOK, Location, OutOfSight
<1> QED
  BY <1>1, <1>2, <1>3 DEF Queue!DQNext, Queue!Accept, OutOfSight

LEMMA SettlementPromises ==
    ASSUME NEW i \in OpIds, ops[i].status = "running",
           ops'[i].status \in Settled,
           \A j \in OpIds \ {i} : ops'[j] = ops[j],
           OutOfSight' \subseteq OutOfSight
    PROVE  Queue!DQNext
<1>1. \/ Queue!Move(i, "pending", "done")
      \/ Queue!Move(i, "pending", "rejected")
  BY StatesOfTheStatuses, PassingMoves DEF Passes, Settled
<1> QED
  BY <1>1 DEF Queue!DQNext, Queue!Settle, OutOfSight

LEMMA UserPromises ==
    ASSUME TypeInv, TypeInv', UserStep
    PROVE  Queue!DQNext \/ UNCHANGED Queue!queue
<1>0. local \subseteq Location
  BY DEF TypeInv, TypeOK
<1>1. ASSUME NEW m, NEW mb, NEW v \in BOOLEAN, SetMessageRead(m, mb, v)
      PROVE  Queue!DQNext
  <2>1. OutOfSight' = OutOfSight
    BY <1>0, <1>1, UpdatesAndSight DEF SetMessageRead
  <2> QED
    BY <1>1, <2>1, AcceptancePromises DEF SetMessageRead
<1>2. ASSUME NEW m, NEW src, NEW dst, NEW copy, QueueTransfer(m, src, dst, copy)
      PROVE  Queue!DQNext
  <2>1. OutOfSight \subseteq OutOfSight'
    <3>1. CASE copy
      BY <1>2, <3>1 DEF QueueTransfer, OutOfSight
    <3>2. CASE ~copy
      BY <1>0, <1>2, <3>2, UpdatesAndSight DEF QueueTransfer
    <3> QED
      BY <3>1, <3>2
  <2> QED
    BY <1>2, <2>1, AcceptancePromises DEF QueueTransfer
<1>3. ASSUME NEW m, NEW mb, QueuePermanentDelete(m, mb)
      PROVE  Queue!DQNext
  <2>1. OutOfSight \subseteq OutOfSight'
    BY <1>0, <1>3, UpdatesAndSight DEF QueuePermanentDelete
  <2> QED
    BY <1>3, <2>1, AcceptancePromises DEF QueuePermanentDelete
<1>4. ASSUME NEW i \in OpIds, RetryPendingOperation(i)
      PROVE  Queue!DQNext
  <2>1. /\ ops[i].status = "failed" /\ ops'[i].status = "queued"
        /\ \A j \in OpIds \ {i} : ops'[j] = ops[j]
    BY <1>4 DEF RetryPendingOperation, TypeInv, TypeOK, Absent
  <2>2. Queue!Move(i, "rejected", "pending")
    BY <2>1, StatesOfTheStatuses, PassingMoves DEF Passes
  <2>3. UNCHANGED OutOfSight
    BY <1>4 DEF RetryPendingOperation, OutOfSight
  <2> QED
    BY <2>2, <2>3 DEF Queue!DQNext, Queue!Resubmit, OutOfSight
<1>5. CASE RestartAccount
  BY <1>5, UnpromisedRests DEF RestartAccount, disk, OutOfSight
<1> QED
  BY <1>1, <1>2, <1>3, <1>4, <1>5
  DEF UserStep, TransferMessages, DeleteMessages

LEMMA OutcomePromises ==
    ASSUME ClaimInv, NEW g \in Generations,
           CompletePendingOperation(g) \/ FailPendingOperation(g)
    PROVE  Queue!DQNext \/ UNCHANGED Queue!queue
<1> USE DEF ClaimInv
<1>0. local \subseteq Location
  BY DEF TypeInv, TypeOK
<1>1. PICK i \in OpIds : worker[g].op = i
  BY HeldOperation DEF CompletePendingOperation, FailPendingOperation, At,
                       Holding
<1>2. ops[i].status = "running" /\ ops[i] \in Operation
  BY <1>1, HeldOperation, ConstantsAssumption
  DEF ExclusiveClaim, CompletePendingOperation, FailPendingOperation, At,
      Holding, NoOp
<1>3. \A j \in OpIds \ {i} : ops'[j] = ops[j]
  BY <1>1 DEF CompletePendingOperation, FailPendingOperation, TypeInv, TypeOK
<1>4. CASE CompletePendingOperation(g)
  <2>1. ops'[i].status = "succeeded"
    BY <1>1, <1>2, <1>4 DEF CompletePendingOperation, TypeInv, TypeOK, Operation
  <2>2. OutOfSight' \subseteq OutOfSight
    <3>1. \/ local' = local
          \/ local' = DeleteRows(Op(g).msg, Op(g).src)
      BY <1>4 DEF CompletePendingOperation
    <3> QED
      BY <1>0, <3>1, UpdatesAndSight DEF OutOfSight
  <2> QED
    BY <1>2, <1>3, <2>1, <2>2, SettlementPromises DEF Settled
<1>5. CASE /\ FailPendingOperation(g)
           /\ worker[g].retryable /\ worker[g].attempt < MaxAttempts
  <2>1. ops'[i].status = "retry_wait"
    BY <1>1, <1>2, <1>5
    DEF FailPendingOperation, FailedStatus, TypeInv, TypeOK, Operation
  <2>2. UNCHANGED OutOfSight
    BY <1>5 DEF FailPendingOperation, OutOfSight
  <2> QED
    BY <1>2, <1>3, <2>1, <2>2, StatesOfTheStatuses, UnpromisedRests
<1>6. CASE /\ FailPendingOperation(g)
           /\ ~(worker[g].retryable /\ worker[g].attempt < MaxAttempts)
  <2>1. ops'[i].status = "failed"
    BY <1>1, <1>2, <1>6
    DEF FailPendingOperation, FailedStatus, TypeInv, TypeOK, Operation
  <2>2. local' = RollbackProjection(ops[i])
    BY <1>1, <1>6 DEF FailPendingOperation, Op
  <2>3. OutOfSight' \subseteq OutOfSight
    <3>1. CASE ops[i].kind = "set_read"
      <4>1. local' = SetRead(ops[i].msg, ops[i].src, ops[i].previous)
        BY <2>2, <3>1 DEF RollbackProjection, IsTransfer
      <4>2. ops[i].previous \in BOOLEAN
        BY <1>2 DEF Operation
      <4> QED
        BY <1>0, <4>1, <4>2, UpdatesAndSight
    <3>2. CASE IsTransfer(ops[i])
      BY <1>0, <2>2, <3>2, UpdatesAndSight DEF RollbackProjection, IsTransfer
    <3>3. CASE ops[i].kind = "copy"
      BY <2>2, <3>3 DEF RollbackProjection, IsTransfer, OutOfSight
    <3> QED
      BY <1>2, <3>1, <3>2, <3>3 DEF Operation, AllKinds, IsTransfer
  <2> QED
    BY <1>2, <1>3, <2>1, <2>3, SettlementPromises DEF Settled
<1> QED
  BY <1>4, <1>5, <1>6

LEMMA NextPromises ==
    ClaimInv /\ ClaimInv' /\ [Next]_vars => [Queue!DQNext]_(Queue!queue)
<1> SUFFICES ASSUME ClaimInv, ClaimInv', [Next]_vars
             PROVE  Queue!DQNext \/ UNCHANGED Queue!queue
  OBVIOUS
<1> USE DEF ClaimInv
<1>1. CASE UNCHANGED disk
  BY <1>1, UnpromisedRests DEF disk, OutOfSight
<1>2. ASSUME NEW i \in OpIds, BackoffElapses(i)
      PROVE  UNCHANGED Queue!queue
  <2>1. \A j \in OpIds : ops'[j].status = ops[j].status
    BY <1>2 DEF BackoffElapses, TypeInv, TypeOK, Absent, Operation
  <2> QED
    BY <1>2, <2>1, UnpromisedRests DEF BackoffElapses, OutOfSight
<1>3. ASSUME NEW g \in Generations, LoopStep(g)
      PROVE  Queue!DQNext \/ UNCHANGED Queue!queue
  <2>1. CASE TakeRequest(g)
    <3>1. \A j \in OpIds : \/ ops'[j].status = ops[j].status
                            \/ /\ ops[j].status = "running"
                               /\ ops'[j].status = "queued"
      BY <2>1
      DEF TakeRequest, RecoverPendingOperations, TypeInv, TypeOK, Absent,
          Operation
    <3>2. \A j \in OpIds : StateOf(ops'[j].status) = StateOf(ops[j].status)
      BY <3>1, StatesOfTheStatuses
    <3> QED
      BY <2>1, <3>2, UnpromisedRests DEF TakeRequest, OutOfSight
  <2>2. CASE ClaimPendingOperation(g)
    <3>1. PICK i \in Eligible : ops' = [ops EXCEPT ![i].status = "running",
                                                   ![i].attempts = @ + 1]
      BY <2>2 DEF ClaimPendingOperation
    <3>2. /\ i \in OpIds /\ ops[i].status \in {"queued", "retry_wait"}
          /\ ops[i] \in Operation
      BY <3>1 DEF Eligible, TypeInv, TypeOK, Absent
    <3>3. /\ ops'[i].status = "running"
          /\ \A j \in OpIds \ {i} : ops'[j] = ops[j]
      BY <3>1, <3>2 DEF TypeInv, TypeOK, Operation
    <3>4. \A j \in OpIds : StateOf(ops'[j].status) = StateOf(ops[j].status)
      BY <3>2, <3>3, StatesOfTheStatuses
    <3> QED
      BY <2>2, <3>4, UnpromisedRests DEF ClaimPendingOperation, OutOfSight
  <2>3. CASE CompletePendingOperation(g) \/ FailPendingOperation(g)
    BY <2>3, OutcomePromises
  <2>4. CASE Session(g)
    BY <1>1, <2>4
    DEF Session, SelectSource, StoreFlag, CopyMessage, MoveMessage,
        MarkDeleted, ExpungeUid, CommandFails
  <2> QED
    BY <1>1, <1>3, <2>1, <2>2, <2>3, <2>4
    DEF LoopStep, DrainStep, Session, LeaveLoop, RequestDropped, EnterDrain,
        DrainFails, NothingToClaim, CheckGeneration, OutcomeLost
<1>4. CASE WorldStep
  BY <1>1, <1>4
  DEF WorldStep, Crash, OtherClientExpunges, OtherClientSetsRead,
      RenumberMailbox
<1>5. CASE EnsureSupervisor \/ SyncRequestsOperations \/ UNCHANGED vars
  BY <1>1, <1>5 DEF EnsureSupervisor, SyncRequestsOperations, vars
<1> QED
  BY <1>2, <1>3, <1>4, <1>5, UserPromises DEF Next

\* Kills, recoveries, restarted accounts, lost answers and retries change
\* nothing the user was promised, if the recovery succeeds when it is first
\* tried: an accepted operation stays pending until it is done or rejected,
\* and messages leave the user's sight only when a command is accepted.
THEOREM QueueIsDurable ==
    ASSUME Budget.recovery = 0
    PROVE  Spec => ImplementsDurableQueue
<1>1. Init => ClaimInv
  BY InitClaims
<1> QED
  BY <1>1, InitPromises, NextClaimInv, NextPromises, PTL
  DEF Spec, Queue!DQSpec, ImplementsDurableQueue

-----------------------------------------------------------------------------
(* First attempts are replayed in the order they were queued *)

\* The loop of the only generation.
Loop == worker[1]
InHand(i) == Loop.op = i /\ Loop.pc # "failing"

OperationsOn(row) == {i \in Stored : OperationOf(i, row)}
FlagsOn(row) == {i \in OperationsOn(row) : ops[i].kind = "set_read"}
SamePlace(row, old) == /\ row.msg = old.msg /\ row.mb = old.mb
                       /\ row.uid = old.uid /\ row.validity = old.validity
FiledAt(e, row) == /\ e.mb = row.mb /\ e.validity = row.validity
                   /\ e.uid = row.uid

\* Not tried yet, at its first attempt with nothing gone wrong, or done at it.
Smooth(i) ==
    \/ ops[i].status = "queued" /\ ops[i].attempts = 0
    \/ ops[i].status = "running" /\ ops[i].attempts = 1 /\ InHand(i)
    \/ ops[i].status = "succeeded" /\ ops[i].attempts = 1
\* The server has executed the flag change.
Replayed(i) == \/ ops[i].status = "succeeded"
               \/ Loop.op = i /\ Loop.pc = "completing"
Overtakes(i, j) == \/ ops[i].status = "succeeded" /\ ops[j].status # "succeeded"
                   \/ ops[i].status = "running" /\ ops[j].status = "queued"

Orderly(row) ==
    /\ \A i \in OperationsOn(row) : Smooth(i)
    /\ \A i, j \in OperationsOn(row) : ops[i].stamp = ops[j].stamp => i = j

\* The user sees the flag that was set last; what is further was queued
\* earlier; and once every flag is replayed the server has what the user sees.
LastIsShown(row) ==
    \A i \in FlagsOn(row) :
        (\A j \in FlagsOn(row) : ops[j].stamp <= ops[i].stamp)
        => row.read = ops[i].value
InOrder(row) ==
    \A i, j \in OperationsOn(row) :
        Overtakes(i, j) => ops[i].stamp <= ops[j].stamp
Untouched == budget.external = Budget.external
Agrees(row) ==
    (Untouched /\ \A i \in FlagsOn(row) : Replayed(i))
    => \A e \in remote : FiledAt(e, row) => e.read = row.read
RowsAgree == \A row \in local :
                Orderly(row) => LastIsShown(row) /\ InOrder(row) /\ Agrees(row)

HeldRuns == Loop.op # NoOp =>
               Loop.pc \in Holding /\ ops[Loop.op].status = "running"
StagesFit ==
    /\ Loop.pc = "store_flag" => Op(1).kind = "set_read"
    /\ Loop.pc \in {"copy", "move", "mark_deleted", "expunge"}
       => Op(1).kind # "set_read"
Stamped == \A i \in Stored : ops[i].stamp <= clock
Tried == \A i \in Stored : ops[i].status # "queued" => ops[i].attempts >= 1
OneRowEach == \A row, old \in local :
                 row.msg = old.msg => SamePlace(row, old)
AimedAtRows == \A row \in local : \A i \in OperationsOn(row) :
                  ops[i].uid = row.uid
OrderInv == /\ TypeInv /\ Numbered
            /\ HeldRuns /\ StagesFit /\ Stamped /\ Tried
            /\ OneRowEach /\ AimedAtRows
            /\ budget.external <= Budget.external
            /\ RowsAgree

(* What a step does to the order and the flags *)

SameAim(i) == /\ ops'[i].kind = ops[i].kind /\ ops'[i].msg = ops[i].msg
              /\ ops'[i].src = ops[i].src /\ ops'[i].uid = ops[i].uid
              /\ ops'[i].value = ops[i].value /\ ops'[i].stamp = ops[i].stamp
AimsStay == Stored' = Stored /\ \A i \in Stored : SameAim(i)
\* The flags of a location on the server, unless another client is at work.
FlagsStay ==
    /\ Untouched' => Untouched
    /\ Untouched' => \A row \in local, f \in remote' : FiledAt(f, row) =>
           \E e \in remote : FiledAt(e, row) /\ e.read = f.read

LEMMA AimsKeepOperations ==
    ASSUME AimsStay, NEW row, NEW old, SamePlace(row, old)
    PROVE  /\ OperationsOn(row)' = OperationsOn(old)
           /\ FlagsOn(row)' = FlagsOn(old)
<1>1. OperationsOn(row)' = OperationsOn(old)
  BY DEF AimsStay, SameAim, SamePlace, OperationsOn, OperationOf
<1>2. OperationsOn(old) \subseteq Stored
  BY DEF OperationsOn
<1> QED
  BY <1>1, <1>2 DEF FlagsOn, AimsStay, SameAim

\* A step after which what is still smooth was so, and stands where it stood.
LEMMA QuietStepAgrees ==
    ASSUME RowsAgree, AimsStay, FlagsStay,
           \A i \in Stored : Smooth(i)' =>
              /\ Smooth(i) /\ ops'[i].status = ops[i].status
              /\ ops[i].kind = "set_read" /\ Replayed(i)' => Replayed(i),
           \A row \in local' : \E old \in local :
              /\ SamePlace(row, old)
              /\ Orderly(row)' => row.read = old.read
    PROVE  RowsAgree'
<1> SUFFICES ASSUME NEW row \in local', Orderly(row)'
             PROVE  LastIsShown(row)' /\ InOrder(row)' /\ Agrees(row)'
  BY DEF RowsAgree
<1>1. PICK old \in local : SamePlace(row, old) /\ row.read = old.read
  OBVIOUS
<1>2. /\ OperationsOn(row)' = OperationsOn(old)
      /\ FlagsOn(row)' = FlagsOn(old)
  BY <1>1, AimsKeepOperations
<1>3. /\ OperationsOn(old) \subseteq Stored /\ FlagsOn(old) \subseteq Stored
      /\ FlagsOn(old) \subseteq OperationsOn(old)
      /\ \A i \in FlagsOn(old) : ops[i].kind = "set_read"
  BY DEF OperationsOn, FlagsOn
<1>4. \A i \in OperationsOn(old) : Smooth(i)' /\ SameAim(i)
  BY <1>2, <1>3 DEF Orderly, AimsStay
<1>5. Orderly(old)
  BY <1>2, <1>3, <1>4 DEF Orderly, SameAim
<1>6. LastIsShown(old) /\ InOrder(old) /\ Agrees(old)
  BY <1>5 DEF RowsAgree
<1>7. LastIsShown(row)'
  BY <1>1, <1>2, <1>3, <1>4, <1>6 DEF LastIsShown, SameAim
<1>8. InOrder(row)'
  BY <1>2, <1>3, <1>4, <1>6 DEF InOrder, Overtakes, SameAim
<1>9. Agrees(row)'
  <2> SUFFICES ASSUME Untouched', \A i \in FlagsOn(row)' : Replayed(i)',
                      NEW f \in remote', FiledAt(f, row)
               PROVE  f.read = row.read
    BY DEF Agrees, FiledAt
  <2>1. Untouched /\ \A i \in FlagsOn(old) : Replayed(i)
    BY <1>2, <1>3, <1>4 DEF FlagsStay
  <2>2. FiledAt(f, old)
    BY <1>1 DEF FiledAt, SamePlace
  <2>3. PICK e \in remote : FiledAt(e, old) /\ e.read = f.read
    BY <2>2 DEF FlagsStay
  <2> QED
    BY <1>1, <1>6, <2>1, <2>3 DEF Agrees
<1> QED
  BY <1>7, <1>8, <1>9

\* An operation enters the queue behind all others, and its flag is shown.
LEMMA InsertionAgrees ==
    ASSUME OrderInv, UNCHANGED <<remote, worker, budget>>,
           NEW i \in OpIds \ Stored, NEW at \in local, NEW kind, NEW value,
           Stored' = Stored \cup {i},
           \A j \in Stored : ops'[j] = ops[j],
           ops'[i].kind = kind, ops'[i].msg = at.msg, ops'[i].src = at.mb,
           ops'[i].value = value, ops'[i].status = "queued",
           ops'[i].stamp \in Nat, ops'[i].stamp >= clock,
           \A row \in local' : \E old \in local :
              /\ SamePlace(row, old)
              /\ IF kind = "set_read" /\ row.msg = at.msg /\ row.mb = at.mb
                 THEN row.read = value ELSE row.read = old.read
    PROVE  RowsAgree'
<1> SUFFICES ASSUME NEW row \in local', Orderly(row)'
             PROVE  LastIsShown(row)' /\ InOrder(row)' /\ Agrees(row)'
  BY DEF RowsAgree
<1>1. PICK old \in local :
         /\ SamePlace(row, old)
         /\ IF kind = "set_read" /\ row.msg = at.msg /\ row.mb = at.mb
            THEN row.read = value ELSE row.read = old.read
  OBVIOUS
<1>2. \A j \in Stored : /\ ops'[j] = ops[j] /\ j # i /\ ops[j].stamp \in Nat
                        /\ ops[j].stamp <= clock /\ clock \in Nat
                        /\ ops[j].stamp <= ops'[i].stamp
  BY StoredOperation DEF OrderInv, Stamped, TypeInv, TypeOK, Operation
<1>3. ~Replayed(i)'
  <2>1. Loop.pc \in Holding => Loop.op # i
    BY HeldOperation, ConstantsAssumption
    DEF Loop, OrderInv, Generations, HeldRuns, NoOp, TypeInv, HeldIsStored,
        Stored, Operation, Active, Settled
  <2> QED
    BY <2>1 DEF Replayed, Loop, Holding
<1>4. \A j \in Stored : /\ Smooth(j)' <=> Smooth(j)
                        /\ Replayed(j)' <=> Replayed(j)
  BY <1>2 DEF Smooth, Replayed, InHand, Loop
<1>5. /\ OperationsOn(old) \subseteq Stored /\ FlagsOn(old) \subseteq Stored
      /\ FlagsOn(old) \subseteq OperationsOn(old)
  BY DEF OperationsOn, FlagsOn
<1>6. CASE ~(row.msg = at.msg /\ row.mb = at.mb)
  <2>1. OperationsOn(row)' = OperationsOn(old)
    BY <1>1, <1>2, <1>6 DEF OperationsOn, OperationOf, SamePlace
  <2>2. FlagsOn(row)' = FlagsOn(old)
    BY <2>1, <1>2, <1>5 DEF FlagsOn
  <2>3. Orderly(old)
    BY <1>2, <1>4, <1>5, <2>1 DEF Orderly
  <2>4. LastIsShown(old) /\ InOrder(old) /\ Agrees(old) /\ row.read = old.read
    BY <1>1, <1>6, <2>3 DEF OrderInv, RowsAgree
  <2>5. LastIsShown(row)'
    BY <1>2, <1>5, <2>2, <2>4 DEF LastIsShown
  <2>6. InOrder(row)'
    BY <1>2, <1>5, <2>1, <2>4 DEF InOrder, Overtakes
  <2>7. Agrees(row)'
    BY <1>1, <1>4, <1>5, <2>2, <2>4 DEF Agrees, Untouched, FiledAt, SamePlace
  <2> QED
    BY <2>5, <2>6, <2>7
<1>7. CASE row.msg = at.msg /\ row.mb = at.mb
  <2>1. OperationsOn(row)' = OperationsOn(old) \cup {i}
    BY <1>1, <1>2, <1>7 DEF OperationsOn, OperationOf, SamePlace
  <2>2. \A j \in OperationsOn(old) : ops[j].stamp < ops'[i].stamp
    <3> SUFFICES ASSUME NEW j \in OperationsOn(old)
                 PROVE  ops[j].stamp # ops'[i].stamp
      BY <1>2, <1>5
    <3>1. j # i /\ ops'[j] = ops[j]
      BY <1>2, <1>5
    <3> QED
      BY <2>1, <3>1 DEF Orderly
  <2>3. Orderly(old)
    BY <1>2, <1>4, <1>5, <2>1 DEF Orderly
  <2>4. LastIsShown(old) /\ InOrder(old) /\ Agrees(old)
    BY <2>3 DEF OrderInv, RowsAgree
  <2>5. InOrder(row)'
    BY <1>2, <1>5, <2>1, <2>4 DEF InOrder, Overtakes
  <2>6. CASE kind = "set_read"
    <3>1. FlagsOn(row)' = FlagsOn(old) \cup {i} /\ row.read = value
      BY <1>1, <1>2, <1>5, <1>7, <2>1, <2>6 DEF FlagsOn
    <3>2. ASSUME NEW j \in FlagsOn(row)',
                 \A k \in FlagsOn(row)' : ops'[k].stamp <= ops'[j].stamp
          PROVE  j = i
      <4>1. ops'[i].stamp <= ops'[j].stamp
        BY <3>1, <3>2
      <4> QED
        BY <1>2, <1>5, <2>2, <3>1, <4>1
    <3>3. LastIsShown(row)'
      BY <3>1, <3>2 DEF LastIsShown
    <3>4. Agrees(row)'
      BY <1>3, <3>1 DEF Agrees
    <3> QED
      BY <2>5, <3>3, <3>4
  <2>7. CASE kind # "set_read"
    <3>1. FlagsOn(row)' = FlagsOn(old) /\ row.read = old.read
      BY <1>1, <1>2, <1>5, <2>1, <2>7 DEF FlagsOn
    <3>2. LastIsShown(row)'
      BY <1>2, <1>5, <2>4, <3>1 DEF LastIsShown
    <3>3. Agrees(row)'
      BY <1>1, <1>4, <1>5, <2>4, <3>1
      DEF Agrees, Untouched, FiledAt, SamePlace
    <3> QED
      BY <2>5, <3>2, <3>3
  <2> QED
    BY <2>6, <2>7
<1> QED
  BY <1>6, <1>7

\* What is claimed was queued before whatever still waits.
LEMMA ClaimAgrees ==
    ASSUME OrderInv, NEW i \in Eligible, AimsStay,
           UNCHANGED <<local, remote, budget>>, Loop.op = NoOp,
           \A j \in Eligible \ {i} : Before(i, j),
           Loop'.op = i, Loop'.pc = "claimed",
           ops'[i].status = "running", ops'[i].attempts = ops[i].attempts + 1,
           \A j \in OpIds \ {i} : ops'[j] = ops[j]
    PROVE  RowsAgree'
<1> SUFFICES ASSUME NEW row \in local, Orderly(row)'
             PROVE  LastIsShown(row)' /\ InOrder(row)' /\ Agrees(row)'
  BY DEF RowsAgree
<1>1. /\ OperationsOn(row)' = OperationsOn(row)
      /\ FlagsOn(row)' = FlagsOn(row)
  BY AimsKeepOperations DEF SamePlace
<1>2. /\ OperationsOn(row) \subseteq Stored /\ Stored \subseteq OpIds
      /\ FlagsOn(row) \subseteq OperationsOn(row)
      /\ i \in Stored /\ i # NoOp
  BY ConstantsAssumption DEF OperationsOn, FlagsOn, Stored, Eligible, NoOp
<1>3. \A j \in Stored : /\ ops[j].stamp \in Nat /\ SameAim(j)
                        /\ ops[j].attempts \in Nat
  BY StoredOperation DEF OrderInv, Operation, AimsStay
<1>4. ASSUME NEW j \in Stored \ {i}, Smooth(j)'
      PROVE  /\ Smooth(j) /\ ops[j].status # "running"
             /\ ops[j].status = ops'[j].status
             /\ ops[j].status = "queued" => j \in Eligible
             /\ Replayed(j)' => Replayed(j)
  BY <1>2, <1>4 DEF Smooth, Replayed, InHand, Eligible
<1>5. ASSUME Smooth(i)'
      PROVE  Smooth(i) /\ ops[i].status = "queued" /\ ~Replayed(i)'
  <2>1. ops[i].attempts = 0
    BY <1>2, <1>3, <1>5 DEF Smooth
  <2>2. ops[i].status = "queued"
    BY <1>2, <2>1 DEF OrderInv, Tried
  <2> QED
    BY <2>1, <2>2 DEF Smooth, Replayed
<1>6. Orderly(row)
  BY <1>1, <1>2, <1>3, <1>4, <1>5 DEF Orderly, SameAim
<1>7. LastIsShown(row) /\ InOrder(row) /\ Agrees(row)
  BY <1>6 DEF OrderInv, RowsAgree
<1>8. LastIsShown(row)'
  BY <1>1, <1>2, <1>3, <1>7 DEF LastIsShown, SameAim
<1>9. InOrder(row)'
  <2>9. \A j \in OperationsOn(row) : ops'[j].stamp = ops[j].stamp
    BY <1>2, <1>3 DEF SameAim
  <2> SUFFICES ASSUME NEW j \in OperationsOn(row), NEW k \in OperationsOn(row),
                      Overtakes(j, k)'
               PROVE  ops[j].stamp <= ops[k].stamp
    BY <1>1, <2>9 DEF InOrder
  <2>0. Smooth(j)' /\ Smooth(k)'
    BY <1>1 DEF Orderly
  <2>1. CASE j = i
    <3>1. k # i /\ ops'[k].status = "queued"
      BY <2>1 DEF Overtakes
    <3>2. k \in Eligible
      BY <1>2, <1>4, <2>0, <3>1
    <3>3. Before(i, k)
      BY <3>1, <3>2
    <3> QED
      BY <1>2, <1>3, <2>1, <3>3 DEF Before
  <2>2. CASE j # i
    <3>1. ops[j].status = "succeeded" /\ ops'[j].status = "succeeded"
      BY <1>2, <1>4, <2>0, <2>2 DEF Overtakes
    <3>2. ops[k].status # "succeeded"
      BY <1>2, <1>4, <1>5, <2>0, <3>1 DEF Overtakes
    <3> QED
      BY <1>7, <3>1, <3>2 DEF InOrder, Overtakes
  <2> QED
    BY <2>1, <2>2
<1>10. Agrees(row)'
  <2>1. \A j \in FlagsOn(row) : Replayed(j)' => Replayed(j)
    BY <1>1, <1>2, <1>4, <1>5 DEF Orderly
  <2> QED
    BY <1>1, <1>7, <2>1 DEF Agrees, Untouched, FiledAt
<1> QED
  BY <1>8, <1>9, <1>10

LEMMA OperationInHand ==
    ASSUME OrderInv, Loop.pc \in Holding
    PROVE  /\ Loop.op \in Stored /\ Loop.op \in OpIds /\ Loop.op # NoOp
           /\ Op(1) = ops[Loop.op] /\ ops[Loop.op] \in Operation
           /\ ops[Loop.op].status = "running" /\ 1 \in Generations
<1>1. 1 \in Generations
  BY ConstantsAssumption DEF Generations
<1>2. /\ Loop.op \in Stored /\ Loop.op \in OpIds
      /\ ops[Loop.op] \in Operation
  BY <1>1, HeldOperation DEF OrderInv, Loop
<1>3. Loop.op # NoOp
  BY <1>2, ConstantsAssumption DEF NoOp
<1> QED
  BY <1>1, <1>2, <1>3 DEF OrderInv, HeldRuns, Op, Loop

\* The flag of the last operation in hand is the last one that was queued,
\* when no other one waits.
LEMMA StoringAgrees ==
    ASSUME OrderInv, UNCHANGED <<ops, local>>, Loop.pc = "store_flag",
           Loop'.op = Loop.op, Loop'.pc \in {"completing", "failing"},
           UNCHANGED budget.external,
           remote' = {IF IsTarget(e, Op(1)) THEN [e EXCEPT !.read = Op(1).value]
                                            ELSE e : e \in remote}
    PROVE  RowsAgree'
<1> DEFINE i == Loop.op
           o == ops[i]
<1>0. /\ i \in Stored /\ i \in OpIds /\ i # NoOp /\ Op(1) = o
      /\ o \in Operation /\ o.status = "running" /\ o.kind = "set_read"
  BY OperationInHand DEF Holding, OrderInv, StagesFit
<1> SUFFICES ASSUME NEW row \in local, Orderly(row)'
             PROVE  LastIsShown(row)' /\ InOrder(row)' /\ Agrees(row)'
  BY DEF RowsAgree
<1>1. /\ OperationsOn(row)' = OperationsOn(row)
      /\ FlagsOn(row)' = FlagsOn(row)
  BY DEF OperationsOn, FlagsOn, Stored, OperationOf
<1>2. /\ OperationsOn(row) \subseteq Stored /\ FlagsOn(row) \subseteq Stored
      /\ FlagsOn(row) \subseteq OperationsOn(row)
  BY DEF OperationsOn, FlagsOn
<1>3. \A j : Smooth(j)' => Smooth(j)
  BY DEF Smooth, InHand
<1>4. Orderly(row)
  BY <1>1, <1>3 DEF Orderly
<1>5. LastIsShown(row) /\ InOrder(row) /\ Agrees(row)
  BY <1>4 DEF OrderInv, RowsAgree
<1>6. LastIsShown(row)' /\ InOrder(row)'
  BY <1>1, <1>5 DEF LastIsShown, InOrder, Overtakes
<1>7. \A j : j # i /\ Replayed(j)' => ops[j].status = "succeeded"
  BY DEF Replayed
<1>8. Agrees(row)'
  <2> SUFFICES ASSUME Untouched', \A j \in FlagsOn(row) : Replayed(j)',
                      NEW f \in remote', FiledAt(f, row)
               PROVE  f.read = row.read
    BY <1>1 DEF Agrees, FiledAt
  <2>1. PICK e \in remote : f = IF IsTarget(e, o) THEN [e EXCEPT !.read = o.value]
                                                  ELSE e
    BY <1>0
  <2>2. e \in Entry /\ row \in Location
    BY DEF OrderInv, TypeInv, TypeOK
  <2>3. FiledAt(e, row)
    BY <2>1, <2>2 DEF FiledAt, Entry
  <2>4. CASE i \in OperationsOn(row)
    <3>1. i \in FlagsOn(row)
      BY <1>0, <2>4 DEF FlagsOn
    <3>2. /\ o.src = row.mb /\ o.uid = row.uid
          /\ o.validity = 1 /\ row.validity = 1
      BY <1>0, <2>4
      DEF OrderInv, AimedAtRows, OperationsOn, OperationOf, Numbered,
          UidsAreBounded
    <3>3. IsTarget(e, o)
      BY <2>3, <3>2 DEF IsTarget, FiledAt
    <3>4. f.read = o.value
      BY <2>1, <2>2, <3>3 DEF Entry
    <3>5. ASSUME NEW j \in FlagsOn(row)
          PROVE  ops[j].stamp <= o.stamp
      <4>1. CASE j = i
        BY <1>0, <4>1 DEF Operation
      <4>2. CASE j # i
        <5>1. ops[j].status = "succeeded"
          BY <1>7, <4>2
        <5> QED
          BY <1>0, <1>2, <1>5, <2>4, <5>1 DEF InOrder, Overtakes
      <4> QED
        BY <4>1, <4>2
    <3>6. row.read = o.value
      BY <1>5, <3>1, <3>5 DEF LastIsShown
    <3> QED
      BY <3>4, <3>6
  <2>5. CASE i \notin OperationsOn(row)
    <3>1. ~IsTarget(e, o)
      <4> SUFFICES ASSUME IsTarget(e, o) PROVE FALSE
        OBVIOUS
      <4>1. o.src = row.mb /\ e.uid = o.uid /\ e.uid = row.uid
        BY <2>3 DEF IsTarget, FiledAt
      <4>2. e.msg = row.msg /\ e.msg = o.msg
        BY <1>0, <4>1 DEF OrderInv, Numbered, UidsIdentify
      <4> QED
        BY <1>0, <2>5, <4>1, <4>2 DEF OperationsOn, OperationOf
    <3>2. f = e
      BY <2>1, <3>1
    <3>3. \A j \in FlagsOn(row) : Replayed(j)
      BY <1>2, <1>7, <2>5 DEF Replayed
    <3>4. Untouched
      BY DEF Untouched
    <3> QED
      BY <1>5, <2>3, <3>2, <3>3, <3>4 DEF Agrees
  <2> QED
    BY <2>4, <2>5
<1> QED
  BY <1>6, <1>8

\* What is done was ahead of what waits.
LEMMA CompletionAgrees ==
    ASSUME OrderInv, AimsStay, Loop.pc = "completing",
           UNCHANGED <<remote, budget>>, local' \subseteq local,
           Loop'.op = NoOp, ops'[Loop.op].status = "succeeded",
           ops'[Loop.op].attempts = ops[Loop.op].attempts,
           \A j \in OpIds \ {Loop.op} : ops'[j] = ops[j]
    PROVE  RowsAgree'
<1>0. PICK i \in Stored : /\ i = Loop.op /\ i \in OpIds /\ i # NoOp
                         /\ ops[i].status = "running"
  BY OperationInHand DEF Holding
<1> SUFFICES ASSUME NEW row \in local', Orderly(row)'
             PROVE  LastIsShown(row)' /\ InOrder(row)' /\ Agrees(row)'
  BY DEF RowsAgree
<1>1. /\ OperationsOn(row)' = OperationsOn(row)
      /\ FlagsOn(row)' = FlagsOn(row)
  BY AimsKeepOperations DEF SamePlace
<1>2. /\ OperationsOn(row) \subseteq Stored /\ Stored \subseteq OpIds
      /\ FlagsOn(row) \subseteq OperationsOn(row) /\ row \in local
  BY DEF OperationsOn, FlagsOn, Stored
<1>3. \A j \in Stored : SameAim(j)
  BY DEF AimsStay
<1>4. ASSUME NEW j \in Stored \ {i}, Smooth(j)'
      PROVE  /\ Smooth(j) /\ ops'[j].status = ops[j].status
             /\ ops[j].status \in {"queued", "succeeded"}
             /\ Replayed(j)' => Replayed(j)
  <2>1. ops'[j] = ops[j] /\ j # NoOp
    BY <1>0, <1>2, ConstantsAssumption DEF NoOp
  <2> QED
    BY <1>0, <1>4, <2>1 DEF Smooth, Replayed, InHand
<1>5. Smooth(i)' => Smooth(i)
  BY <1>0 DEF Smooth, InHand
<1>6. Replayed(i)
  BY <1>0 DEF Replayed
<1>7. Orderly(row)
  BY <1>1, <1>2, <1>3, <1>4, <1>5 DEF Orderly, SameAim
<1>8. LastIsShown(row) /\ InOrder(row) /\ Agrees(row)
  BY <1>2, <1>7 DEF OrderInv, RowsAgree
<1>9. LastIsShown(row)'
  BY <1>1, <1>2, <1>3, <1>8 DEF LastIsShown, SameAim
<1>10. InOrder(row)'
  <2>9. \A j \in OperationsOn(row) : ops'[j].stamp = ops[j].stamp
    BY <1>2, <1>3 DEF SameAim
  <2> SUFFICES ASSUME NEW j \in OperationsOn(row), NEW k \in OperationsOn(row),
                      Overtakes(j, k)'
               PROVE  ops[j].stamp <= ops[k].stamp
    BY <1>1, <2>9 DEF InOrder
  <2>0. Smooth(j)' /\ Smooth(k)'
    BY <1>1 DEF Orderly
  <2>1. k # i
    BY <1>0 DEF Overtakes
  <2>2. ops[k].status = ops'[k].status /\ ops[k].status \in {"queued", "succeeded"}
    BY <1>2, <1>4, <2>0, <2>1
  <2>3. Overtakes(j, k)
    BY <1>0, <1>2, <1>4, <2>0, <2>2 DEF Overtakes
  <2> QED
    BY <1>8, <2>3 DEF InOrder
<1>11. Agrees(row)'
  <2>1. \A j \in FlagsOn(row) : Replayed(j)' => Replayed(j)
    BY <1>1, <1>2, <1>4, <1>6 DEF Orderly
  <2> QED
    BY <1>1, <1>8, <2>1 DEF Agrees, Untouched, FiledAt
<1> QED
  BY <1>9, <1>10, <1>11

(* One lemma per part of a step *)

LEMMA OneChangeKeepsAims ==
    ASSUME TypeInv, NEW i \in OpIds, ops[i] \in Operation,
           \A j \in OpIds \ {i} : ops'[j] = ops[j],
           SameAim(i), ops'[i].status # "absent"
    PROVE  AimsStay
<1>1. ops[i].status # "absent"
  BY DEF Operation, Active, Settled
<1>2. Stored' = Stored
  BY <1>1 DEF Stored
<1> QED
  BY <1>2 DEF AimsStay, SameAim, Stored

LEMMA ExternalShrinks ==
    ASSUME OrderInv, [Next]_vars
    PROVE  /\ budget'.external \in Nat /\ budget.external \in Nat
           /\ budget'.external <= Budget.external
           /\ Untouched' => Untouched
<1>0. Budget.external \in Nat /\ budget.external \in Nat
  BY ConstantsAssumption DEF OrderInv, TypeInv, TypeOK, BudgetType
<1>1. ASSUME NEW what, Spend(what)
      PROVE  budget'.external \in Nat /\ budget'.external <= budget.external
  BY <1>0, <1>1 DEF Spend, OrderInv, TypeInv, TypeOK, BudgetType
<1>2. CASE UNCHANGED budget
  BY <1>0, <1>2 DEF OrderInv, Untouched
<1>3. CASE budget'.external \in Nat /\ budget'.external <= budget.external
  BY <1>0, <1>3 DEF OrderInv, Untouched
<1>4. CASE \E what : Spend(what)
  BY <1>1, <1>3, <1>4
<1>5. CASE UserStep
  BY <1>2, <1>4, <1>5
  DEF UserStep, SetMessageRead, TransferMessages, DeleteMessages,
      RetryPendingOperation, RestartAccount
<1>6. ASSUME NEW g \in Generations, LoopStep(g)
      PROVE  UNCHANGED budget \/ \E what : Spend(what)
  <2>1. CASE LeaveLoop(g) \/ TakeRequest(g) \/ RequestDropped(g)
             \/ EnterDrain(g) \/ DrainFails(g) \/ ClaimPendingOperation(g)
             \/ NothingToClaim(g) \/ CheckGeneration(g)
    BY <2>1
    DEF LeaveLoop, TakeRequest, RequestDropped, EnterDrain, DrainFails,
        ClaimPendingOperation, NothingToClaim, CheckGeneration
  <2>2. CASE \/ Session(g) \/ CompletePendingOperation(g)
             \/ FailPendingOperation(g) \/ OutcomeLost(g)
    BY <2>2
    DEF Session, SelectSource, StoreFlag, CopyMessage, MoveMessage,
        MarkDeleted, ExpungeUid, CommandFails, Answered,
        CompletePendingOperation, FailPendingOperation, OutcomeLost
  <2> QED
    BY <1>6, <2>1, <2>2 DEF LoopStep, DrainStep, Session
<1>7. CASE WorldStep
  BY <1>4, <1>7
  DEF WorldStep, Crash, OtherClientExpunges, OtherClientSetsRead,
      RenumberMailbox
<1>8. CASE \/ EnsureSupervisor \/ SyncRequestsOperations \/ UNCHANGED vars
           \/ \E i \in OpIds : BackoffElapses(i)
  BY <1>2, <1>8
  DEF EnsureSupervisor, SyncRequestsOperations, BackoffElapses, vars
<1> QED
  BY <1>2, <1>4, <1>5, <1>6, <1>7, <1>8 DEF Next

\* Only StoreFlag and other clients change a flag that a location shows.
LEMMA NextFlags ==
    ASSUME OrderInv, [Next]_vars, \A g \in Generations : ~StoreFlag(g)
    PROVE  FlagsStay
<1> USE DEF OrderInv
<1> SUFFICES ASSUME Untouched', NEW row \in local, NEW f \in remote',
                    FiledAt(f, row)
             PROVE  \E e \in remote : FiledAt(e, row) /\ e.read = f.read
  BY ExternalShrinks DEF FlagsStay
<1>1. row.validity = 1 /\ row.uid <= LastUid /\ LastUid \in Nat
  BY CountIsNat DEF Numbered, UidsAreBounded, LastUid
<1>2. CASE remote' \subseteq remote
  BY <1>2
<1>3. ASSUME NEW g \in Generations, NEW e \in remote,
             worker[g].pc \in {"copy", "move"}, f = ArrivalOf(e, Op(g).dst)
      PROVE  FALSE
  <2>1. Op(g).dst \in Mailboxes
    BY <1>3 DEF TypeInv, HeldIsStored, Holding, Op
  <2>2. f.uid = uidNext[Op(g).dst]
    BY <1>3, <2>1, ArrivalArrives
  <2>3. uidNext[Op(g).dst] > LastUid /\ uidNext[Op(g).dst] \in Nat
    BY <2>1 DEF Numbered, UidsAreBounded, TypeInv, TypeOK
  <2>4. f.uid = row.uid
    BY DEF FiledAt
  <2> QED
    BY <1>1, <2>2, <2>3, <2>4 DEF TypeInv, TypeOK, Location
<1>4. ASSUME NEW g \in Generations, LoopStep(g)
      PROVE  \E e \in remote : FiledAt(e, row) /\ e.read = f.read
  <2>1. CASE CopyMessage(g)
    <3>1. f \in remote \/ \E e \in remote : f = ArrivalOf(e, Op(g).dst)
      BY <2>1 DEF CopyMessage, Targets
    <3> QED
      BY <1>3, <2>1, <3>1 DEF CopyMessage, At
  <2>2. CASE MoveMessage(g)
    <3>1. f \in remote \/ \E e \in remote : f = ArrivalOf(e, Op(g).dst)
      BY <2>2 DEF MoveMessage, Targets
    <3> QED
      BY <1>3, <2>2, <3>1 DEF MoveMessage, At
  <2>3. CASE MarkDeleted(g)
    <3>1. PICK e \in remote : f = e \/ f = [e EXCEPT !.deleted = TRUE]
      BY <2>3 DEF MarkDeleted
    <3>2. e \in Entry
      BY DEF TypeInv, TypeOK
    <3> QED
      BY <3>1, <3>2 DEF FiledAt, Entry
  <2>4. CASE ExpungeUid(g)
    BY <1>2, <2>4 DEF ExpungeUid
  <2> QED
    BY <1>2, <1>4, <2>1, <2>2, <2>3, <2>4
    DEF LoopStep, DrainStep, LeaveLoop, TakeRequest, RequestDropped,
        EnterDrain, DrainFails, ClaimPendingOperation, NothingToClaim,
        CheckGeneration, SelectSource, CommandFails, CompletePendingOperation,
        FailPendingOperation, OutcomeLost, server
<1>5. CASE WorldStep
  <2>1. ASSUME NEW e \in remote, OtherClientSetsRead(e) PROVE FALSE
    BY <2>1, ExternalShrinks
    DEF OtherClientSetsRead, Spend, Untouched, TypeInv, TypeOK, BudgetType
  <2>2. ASSUME NEW mb \in Mailboxes, RenumberMailbox(mb)
        PROVE  f \in remote
    <3>1. PICK e \in remote :
             f = IF e.mb = mb THEN [e EXCEPT !.validity = @ + 1] ELSE e
      BY <2>2 DEF RenumberMailbox
    <3>2. e \in Entry /\ e.validity >= 1
      BY DEF TypeInv, TypeOK, Numbered, UidsAreBounded
    <3> QED
      BY <1>1, <3>1, <3>2 DEF FiledAt, Entry
  <2>3. CASE Crash \/ \E e \in remote : OtherClientExpunges(e)
    BY <1>2, <2>3 DEF Crash, OtherClientExpunges, server
  <2> QED
    BY <1>5, <2>1, <2>2, <2>3 DEF WorldStep
<1>6. CASE UserStep \/ EnsureSupervisor \/ SyncRequestsOperations
           \/ UNCHANGED vars \/ \E i \in OpIds : BackoffElapses(i)
  BY <1>2, <1>6
  DEF UserStep, SetMessageRead, TransferMessages, DeleteMessages,
      RetryPendingOperation, RestartAccount, EnsureSupervisor,
      SyncRequestsOperations, BackoffElapses, vars, server
<1> QED
  BY <1>4, <1>5, <1>6 DEF Next

LEMMA UnchangedFlags ==
    ASSUME OrderInv, [Next]_vars, UNCHANGED remote
    PROVE  FlagsStay
  BY ExternalShrinks DEF FlagsStay

\* The loop lets go of its operation, or goes on with it; neither replays a
\* flag.
HandStays ==
    \/ Loop'.op = NoOp /\ Loop'.pc \notin Holding
    \/ /\ Loop'.op = Loop.op
       /\ Loop.pc \in Holding /\ Loop'.pc \in Holding
       /\ Loop.pc = "failing" => Loop'.pc = "failing"
       /\ Loop'.pc = "completing" =>
             Loop.pc = "completing" \/ Op(1).kind # "set_read"
       /\ Loop'.pc = "store_flag" => Op(1).kind = "set_read"
       /\ Loop'.pc \in {"copy", "move", "mark_deleted", "expunge"} =>
             Op(1).kind # "set_read"

LEMMA RestingHand == OrderInv /\ UNCHANGED worker => HandStays
  BY DEF OrderInv, HeldRuns, StagesFit, HandStays, Loop

LEMMA LoopHand ==
    ASSUME OrderInv, LoopStep(1), ~ClaimPendingOperation(1), ~StoreFlag(1)
    PROVE  HandStays
<1> USE DEF OrderInv
<1>0. 1 \in Generations /\ Loop \in Worker
  BY ConstantsAssumption DEF Generations, TypeInv, TypeOK, Loop
<1>1. \A pc \in Stage : Goto(1, pc) => Loop'.pc = pc /\ Loop'.op = Loop.op
  BY <1>0, GotoIsTyped DEF Loop
<1>2. Return(1) => Loop'.pc = "waiting" /\ Loop'.op = NoOp
  BY <1>0, ReturnIsTyped DEF Loop
<1>3. GiveUp(1, TRUE) \/ GiveUp(1, FALSE) =>
         Loop'.pc = "failing" /\ Loop'.op = Loop.op
  BY <1>0, GiveUpIsTyped DEF Loop
<1>4. Loop.pc \notin Holding => Loop.op = NoOp
  BY DEF HeldRuns
<1>5. CASE Return(1)
  BY <1>2, <1>5 DEF HandStays, Holding
<1>6. CASE LeaveLoop(1)
  <2>1. Loop' = Nobody
    BY <1>0, <1>6 DEF LeaveLoop, Loop, TypeInv, TypeOK
  <2> QED
    BY <2>1 DEF HandStays, Nobody, Holding
<1>7. CASE \/ TakeRequest(1)
           \/ EnterDrain(1) /\ 1 = current
  <2>1. Loop.op = NoOp
    BY <1>4, <1>7 DEF TakeRequest, EnterDrain, At, Loop, Holding
  <2>2. Goto(1, "entering") \/ Goto(1, "draining")
    BY <1>7 DEF TakeRequest, EnterDrain
  <2>3. Loop'.pc \in {"entering", "draining"} /\ Loop'.op = NoOp
    BY <1>1, <2>1, <2>2 DEF Stage
  <2> QED
    BY <2>3 DEF HandStays, Holding
<1>8. CASE RequestDropped(1)
  BY <1>8, RestingHand DEF RequestDropped
<1>9. CASE CompletePendingOperation(1) \/ FailPendingOperation(1)
  <2>1. \/ Return(1)
        \/ worker' = [worker EXCEPT ![1] = [Nobody EXCEPT !.pc = "draining"]]
    BY <1>9 DEF CompletePendingOperation, FailPendingOperation
  <2>2. CASE worker' = [worker EXCEPT ![1] = [Nobody EXCEPT !.pc = "draining"]]
    <3>1. Loop' = [Nobody EXCEPT !.pc = "draining"]
      BY <1>0, <2>2 DEF Loop, TypeInv, TypeOK
    <3> QED
      BY <3>1 DEF HandStays, Nobody, Holding
  <2> QED
    BY <1>5, <2>1, <2>2
<1>10. CASE CheckGeneration(1) /\ 1 = current
  <2>1. Loop.pc = "claimed" /\ Goto(1, "select")
    BY <1>10 DEF CheckGeneration, At, Loop
  <2>2. Loop'.pc = "select" /\ Loop'.op = Loop.op
    BY <1>1, <2>1 DEF Stage
  <2> QED
    BY <2>1, <2>2 DEF HandStays, Holding
<1>11. CASE Session(1)
  <2>1. /\ Loop.pc \in Commands /\ Loop.pc \in Holding
        /\ Loop.pc # "failing"
    BY <1>11 DEF Session, SelectSource, StoreFlag, CopyMessage, MoveMessage,
                 MarkDeleted, ExpungeUid, CommandFails, At, Loop, Holding,
                 Commands
  <2>2. Op(1) \in Operation /\ Op(1).kind \in AllKinds
    BY <1>0, <2>1, HeldOperation DEF Operation, Loop
  <2>3. CASE GiveUp(1, TRUE) \/ GiveUp(1, FALSE)
    BY <1>3, <2>1, <2>3 DEF HandStays, Holding
  <2>4. CASE SelectSource(1)
    <3>1. CASE Goto(1, "completing") /\ IsTransfer(Op(1))
      <4>1. Loop'.pc = "completing" /\ Loop'.op = Loop.op
        BY <1>1, <3>1 DEF Stage
      <4> QED
        BY <2>1, <3>1, <4>1 DEF HandStays, Holding, IsTransfer
    <3>2. CASE Goto(1, FirstCommand(Op(1)))
      <4>1. /\ FirstCommand(Op(1)) \in {"store_flag", "copy", "move", "mark_deleted"}
            /\ FirstCommand(Op(1)) = "store_flag" <=> Op(1).kind = "set_read"
        BY <2>2 DEF FirstCommand, AllKinds
      <4>2. Loop'.pc = FirstCommand(Op(1)) /\ Loop'.op = Loop.op
        BY <1>1, <3>2, <4>1 DEF Stage
      <4> QED
        BY <2>1, <4>1, <4>2 DEF HandStays, Holding
    <3> QED
      BY <2>3, <2>4, <3>1, <3>2 DEF SelectSource
  <2>5. CASE CopyMessage(1) \/ MoveMessage(1) \/ ExpungeUid(1)
    <3>1. Loop.pc \in {"copy", "move", "expunge"}
      BY <2>5 DEF CopyMessage, MoveMessage, ExpungeUid, At, Loop
    <3>2. Op(1).kind # "set_read"
      BY <3>1 DEF StagesFit
    <3>3. Answered(1, "completing") \/ Answered(1, "mark_deleted")
      BY <2>5 DEF CopyMessage, MoveMessage, ExpungeUid
    <3>4. CASE Goto(1, "completing") \/ Goto(1, "mark_deleted")
      <4>1. /\ Loop'.pc \in {"completing", "mark_deleted"}
            /\ Loop'.op = Loop.op
        BY <1>1, <3>4 DEF Stage
      <4> QED
        BY <2>1, <3>2, <4>1 DEF HandStays, Holding
    <3> QED
      BY <2>3, <3>3, <3>4 DEF Answered
  <2>6. CASE MarkDeleted(1)
    <3>1. Op(1).kind # "set_read"
      BY <2>6 DEF StagesFit, MarkDeleted, At, Loop
    <3>2. CASE Goto(1, "expunge")
      <4>1. Loop'.pc = "expunge" /\ Loop'.op = Loop.op
        BY <1>1, <3>2 DEF Stage
      <4> QED
        BY <2>1, <3>1, <4>1 DEF HandStays, Holding
    <3>3. CASE worker' = [worker EXCEPT ![1].pc = "completing",
                                        ![1].cleanup = TRUE]
      <4>1. Loop'.pc = "completing" /\ Loop'.op = Loop.op
        BY <1>0, <3>3 DEF TypeInv, TypeOK, Worker, Loop
      <4> QED
        BY <2>1, <3>1, <4>1 DEF HandStays, Holding
    <3> QED
      BY <2>3, <2>6, <3>2, <3>3 DEF MarkDeleted
  <2>7. CASE CommandFails(1)
    BY <2>3, <2>7 DEF CommandFails
  <2> QED
    BY <1>11, <2>4, <2>5, <2>6, <2>7 DEF Session
<1>12. CASE \/ EnterDrain(1) /\ 1 # current
            \/ DrainFails(1)
            \/ NothingToClaim(1)
            \/ CheckGeneration(1) /\ 1 # current
            \/ OutcomeLost(1)
  BY <1>5, <1>12
  DEF EnterDrain, DrainFails, NothingToClaim, CheckGeneration, OutcomeLost
<1> QED
  BY <1>6, <1>7, <1>8, <1>9, <1>10, <1>11, <1>12
  DEF LoopStep, DrainStep, Session

(* What a step does to an operation, by kinds of steps *)

Carries == /\ AimsStay /\ clock' = clock /\ Tried'
           /\ HeldRuns' /\ StagesFit' /\ RowsAgree'

LEMMA HandCarries ==
    ASSUME OrderInv, [Next]_vars, HandStays,
           Loop'.op = NoOp \/ ops'[Loop.op].status = "running"
    PROVE  HeldRuns' /\ StagesFit'
<1>1. HeldRuns'
  BY DEF HandStays, HeldRuns
<1>2. Loop.pc \in Holding /\ Loop'.op = Loop.op => Op(1)'.kind = Op(1).kind
  <2> SUFFICES ASSUME Loop.pc \in Holding, Loop'.op = Loop.op
               PROVE  Op(1)'.kind = Op(1).kind
    OBVIOUS
  <2>1. PICK i \in OpIds : i = Loop.op /\ ops[i] \in Operation
    BY OperationInHand
  <2>2. ops'[i].kind = ops[i].kind
    BY <2>1, NextType DEF OrderInv, KeepsOperations
  <2> QED
    BY <2>1, <2>2 DEF Op, Loop
<1>3. StagesFit'
  <2>1. CASE Loop'.pc \notin Holding
    BY <2>1 DEF StagesFit, Holding
  <2>2. CASE /\ Loop'.op = Loop.op /\ Loop.pc \in Holding
             /\ Loop'.pc = "store_flag" => Op(1).kind = "set_read"
             /\ Loop'.pc \in {"copy", "move", "mark_deleted", "expunge"} =>
                   Op(1).kind # "set_read"
    BY <1>2, <2>2 DEF StagesFit
  <2> QED
    BY <2>1, <2>2 DEF HandStays
<1> QED
  BY <1>1, <1>3

LEMMA SameAimsStay == ASSUME UNCHANGED ops PROVE AimsStay
  BY DEF AimsStay, SameAim, Stored

\* A step that touches neither the queue nor what the user sees.
LEMMA RestCarries ==
    ASSUME OrderInv, [Next]_vars, UNCHANGED <<ops, local, clock>>,
           HandStays, FlagsStay
    PROVE  Carries
<1>1. AimsStay /\ Tried'
  BY SameAimsStay DEF OrderInv, Tried, Stored
<1>2. HeldRuns' /\ StagesFit'
  <2>1. CASE Loop'.op = NoOp
    BY <2>1, HandCarries
  <2>2. CASE Loop'.op # NoOp
    <3>1. Loop.pc \in Holding
      BY <2>2 DEF HandStays
    <3>2. ops[Loop.op].status = "running"
      BY <3>1, OperationInHand
    <3> QED
      BY <3>2, HandCarries
  <2> QED
    BY <2>1, <2>2
<1>3. ASSUME NEW i \in Stored, Smooth(i)'
      PROVE  /\ Smooth(i) /\ ops'[i].status = ops[i].status
             /\ ops[i].kind = "set_read" /\ Replayed(i)' => Replayed(i)
  <2>1. i # NoOp /\ (Loop.op = i => Op(1) = ops[i])
    BY ConstantsAssumption DEF Stored, NoOp, Op, Loop
  <2> QED
    BY <1>3, <2>1 DEF Smooth, InHand, Replayed, HandStays
<1>4. RowsAgree'
  BY <1>1, <1>3, QuietStepAgrees DEF OrderInv, SamePlace
<1> QED
  BY <1>1, <1>2, <1>4 DEF Carries

\* A step that gives one operation another status, none of a first attempt.
LEMMA SpoilingCarries ==
    ASSUME OrderInv, [Next]_vars, FlagsStay, HandStays, clock' = clock,
           NEW i \in OpIds, ops[i] \in Operation, SameAim(i),
           \A j \in OpIds \ {i} : ops'[j] = ops[j],
           ops'[i].status \in Active \cup Settled,
           ops'[i].attempts >= 1, ~Smooth(i)',
           Loop'.op = NoOp \/ Loop.op # i,
           \A row \in local' : \E old \in local :
              /\ SamePlace(row, old)
              /\ ~(ops[i].msg = row.msg /\ ops[i].src = row.mb)
                 => row.read = old.read
    PROVE  Carries
<1>1. AimsStay
  BY OneChangeKeepsAims DEF Active, Settled, OrderInv
<1>2. Stored' = Stored /\ Stored \subseteq OpIds /\ i \in Stored
  BY <1>1 DEF AimsStay, Stored, Operation, Active, Settled
<1>3. Tried'
  BY <1>2 DEF OrderInv, Tried
<1>4. HeldRuns' /\ StagesFit'
  <2>1. CASE Loop'.op = NoOp
    BY <2>1, HandCarries
  <2>2. CASE Loop'.op # NoOp
    <3>1. Loop.pc \in Holding /\ Loop.op # i
      BY <2>2 DEF HandStays
    <3>2. ops[Loop.op].status = "running" /\ Loop.op \in OpIds
      BY <3>1, OperationInHand
    <3> QED
      BY <3>1, <3>2, HandCarries
  <2> QED
    BY <2>1, <2>2
<1>5. ASSUME NEW j \in Stored, Smooth(j)'
      PROVE  /\ Smooth(j) /\ ops'[j].status = ops[j].status
             /\ ops[j].kind = "set_read" /\ Replayed(j)' => Replayed(j)
  <2>1. /\ j # NoOp /\ ops'[j] = ops[j]
        /\ Loop.op = j => Op(1) = ops[j]
    BY <1>2, <1>5, ConstantsAssumption DEF NoOp, Op, Loop
  <2> QED
    BY <1>5, <2>1 DEF Smooth, InHand, Replayed, HandStays
<1>6. ASSUME NEW row \in local'
      PROVE  \E old \in local : /\ SamePlace(row, old)
                                /\ Orderly(row)' => row.read = old.read
  <2>1. PICK old \in local :
           /\ SamePlace(row, old)
           /\ ~(ops[i].msg = row.msg /\ ops[i].src = row.mb)
              => row.read = old.read
    OBVIOUS
  <2>2. ops[i].msg = row.msg /\ ops[i].src = row.mb => i \in OperationsOn(row)'
    BY <1>2 DEF OperationsOn, OperationOf, SameAim
  <2> QED
    BY <2>1, <2>2 DEF Orderly
<1>7. RowsAgree'
  BY <1>1, <1>5, <1>6, QuietStepAgrees DEF OrderInv
<1> QED
  BY <1>1, <1>3, <1>4, <1>7 DEF Carries

LEMMA SettingRead ==
    ASSUME TypeInv, NEW m, NEW mb, NEW v, NEW row \in SetRead(m, mb, v)
    PROVE  \E old \in local :
              /\ SamePlace(row, old)
              /\ IF row.msg = m /\ row.mb = mb THEN row.read = v
                                               ELSE row.read = old.read
<1>1. PICK old \in local : row = IF old.msg = m /\ old.mb = mb
                                 THEN [old EXCEPT !.read = v] ELSE old
  BY DEF SetRead, UpdateRows
<1>2. old \in Location
  BY DEF TypeInv, TypeOK
<1> QED
  BY <1>1, <1>2 DEF Location, SamePlace

LEMMA SettingHidden ==
    ASSUME TypeInv, NEW m, NEW mb, NEW v \in BOOLEAN,
           NEW row \in SetHidden(m, mb, v)
    PROVE  \E old \in local : SamePlace(row, old) /\ row.read = old.read
<1>1. PICK old \in local : row = IF old.msg = m /\ old.mb = mb
                                 THEN [old EXCEPT !.hidden = v] ELSE old
  BY DEF SetHidden, UpdateRows
<1>2. old \in Location
  BY DEF TypeInv, TypeOK
<1> QED
  BY <1>1, <1>2 DEF Location, SamePlace

LEMMA StatusCarries ==
    ASSUME OrderInv, [Next]_vars, NEW i \in OpIds,
           RetryPendingOperation(i) \/ BackoffElapses(i)
    PROVE  Carries
<1>1. ops[i] \in Operation /\ ops[i].status \in {"failed", "retry_wait"}
  BY DEF OrderInv, TypeInv, TypeOK, RetryPendingOperation, BackoffElapses, Absent
<1>2. i \in Stored /\ ops[i].attempts >= 1
  BY <1>1 DEF Stored, OrderInv, Tried
<1>3. ops' = [ops EXCEPT ![i].status = "queued"] \/ ops' = [ops EXCEPT ![i].due = TRUE]
  BY DEF RetryPendingOperation, BackoffElapses
<1>4. PICK o : /\ ops' = [ops EXCEPT ![i] = o]
               /\ o = [ops[i] EXCEPT !.status = "queued"]
                  \/ o = [ops[i] EXCEPT !.due = TRUE]
  BY <1>3
<1>5. ops'[i] = o /\ \A j \in OpIds \ {i} : ops'[j] = ops[j]
  BY <1>4 DEF OrderInv, TypeInv, TypeOK
<1>6. /\ SameAim(i) /\ ops'[i].attempts = ops[i].attempts
      /\ ops'[i].status \in {"queued", "retry_wait", "failed"}
  BY <1>1, <1>4, <1>5 DEF SameAim, Operation
<1>7. ~Smooth(i)'
  BY <1>2, <1>6 DEF Smooth
<1>8. UNCHANGED <<local, clock, remote, worker>>
  BY DEF RetryPendingOperation, BackoffElapses, server
<1>9. FlagsStay /\ HandStays
  BY <1>8, UnchangedFlags, RestingHand
<1>10. Loop'.op = NoOp \/ Loop.op # i
  <2>1. Loop.pc \in Holding => Loop.op # i
    BY <1>1, OperationInHand
  <2> QED
    BY <1>8, <2>1 DEF OrderInv, HeldRuns, Loop
<1>11. \A row \in local' : \E old \in local :
          /\ SamePlace(row, old)
          /\ ~(ops[i].msg = row.msg /\ ops[i].src = row.mb)
             => row.read = old.read
  BY <1>8 DEF SamePlace
<1>12. /\ ops'[i].status \in Active \cup Settled /\ ops'[i].attempts >= 1
       /\ clock' = clock
  BY <1>2, <1>6, <1>8 DEF Active, Settled
<1> QED
  BY <1>1, <1>5, <1>6, <1>7, <1>9, <1>10, <1>11, <1>12, SpoilingCarries

LEMMA FailureCarries ==
    ASSUME OrderInv, [Next]_vars, FailPendingOperation(1)
    PROVE  Carries
<1>1. Loop.pc = "failing"
  BY DEF FailPendingOperation, At, Loop
<1>2. PICK i \in OpIds : /\ i = Loop.op /\ ops[i] \in Operation /\ i \in Stored
                        /\ Op(1) = ops[i] /\ ops[i].status = "running"
  BY <1>1, OperationInHand DEF Holding
<1>3. 1 \in Generations
  BY ConstantsAssumption DEF Generations
<1>4. PICK s \in {"retry_wait", "failed"} :
         ops' = [ops EXCEPT ![i].status = s, ![i].due = FALSE]
  BY <1>2 DEF FailPendingOperation, FailedStatus, Loop
<1>5. \A j \in OpIds \ {i} : ops'[j] = ops[j]
  BY <1>4 DEF OrderInv, TypeInv, TypeOK
<1>6. /\ SameAim(i) /\ ops'[i].attempts = ops[i].attempts /\ ops'[i].status = s
  BY <1>2, <1>4 DEF SameAim, Operation, OrderInv, TypeInv, TypeOK
<1>7. ~Smooth(i)' /\ ops'[i].attempts >= 1
  BY <1>2, <1>6 DEF Smooth, OrderInv, Tried
<1>8. HandStays /\ Loop'.op = NoOp
  <2>1. HandStays
    <3>1. ~ClaimPendingOperation(1) /\ ~StoreFlag(1)
      BY <1>1 DEF ClaimPendingOperation, StoreFlag, At, Loop
    <3>2. LoopStep(1)
      BY DEF LoopStep, DrainStep
    <3> QED
      BY <3>1, <3>2, LoopHand
  <2>2. CASE Return(1)
    BY <2>1, <2>2, <1>3, ReturnIsTyped DEF OrderInv, Loop
  <2>3. CASE worker' = [worker EXCEPT ![1] = [Nobody EXCEPT !.pc = "draining"]]
    BY <2>1, <2>3, <1>3 DEF OrderInv, TypeInv, TypeOK, Loop, Nobody
  <2> QED
    BY <2>1, <2>2, <2>3 DEF FailPendingOperation
<1>9. FlagsStay /\ clock' = clock
  BY UnchangedFlags DEF FailPendingOperation, server
<1>10. ASSUME NEW row \in local'
       PROVE  \E old \in local :
                 /\ SamePlace(row, old)
                 /\ ~(ops[i].msg = row.msg /\ ops[i].src = row.mb)
                    => row.read = old.read
  <2>1. ops[i].kind \in AllKinds
    BY <1>2 DEF Operation
  <2>2. \/ local' = local
        \/ local' = SetRead(ops[i].msg, ops[i].src, ops[i].previous)
        \/ local' = SetHidden(ops[i].msg, ops[i].src, FALSE)
    BY <1>2, <2>1
    DEF FailPendingOperation, RollbackProjection, AllKinds, IsTransfer
  <2>3. CASE local' = local
    BY <2>3 DEF SamePlace
  <2>4. CASE local' = SetRead(ops[i].msg, ops[i].src, ops[i].previous)
    <3>1. row \in SetRead(ops[i].msg, ops[i].src, ops[i].previous)
      BY <2>4
    <3>2. PICK old \in local :
             /\ SamePlace(row, old)
             /\ IF row.msg = ops[i].msg /\ row.mb = ops[i].src
                THEN row.read = ops[i].previous ELSE row.read = old.read
      BY <3>1, SettingRead DEF OrderInv
    <3> QED
      BY <3>2
  <2>5. CASE local' = SetHidden(ops[i].msg, ops[i].src, FALSE)
    <3>1. row \in SetHidden(ops[i].msg, ops[i].src, FALSE)
      BY <2>5
    <3>2. PICK old \in local : SamePlace(row, old) /\ row.read = old.read
      BY <3>1, SettingHidden DEF OrderInv
    <3> QED
      BY <3>2
  <2> QED
    BY <2>2, <2>3, <2>4, <2>5
<1>11. ops'[i].status \in Active \cup Settled
  BY <1>6 DEF Active, Settled
<1> QED
  BY <1>2, <1>5, <1>6, <1>7, <1>8, <1>9, <1>10, <1>11, SpoilingCarries

LEMMA RecoveryCarries ==
    ASSUME OrderInv, [Next]_vars, TakeRequest(1), RecoverPendingOperations
    PROVE  Carries
<1>0. 1 \in Generations /\ LoopStep(1)
  BY ConstantsAssumption DEF Generations, LoopStep, DrainStep
<1>1. Loop.op = NoOp
  BY DEF TakeRequest, At, OrderInv, HeldRuns, Holding, Loop
<1>2. HandStays
  <2>1. ~ClaimPendingOperation(1) /\ ~StoreFlag(1)
    BY DEF TakeRequest, ClaimPendingOperation, StoreFlag, At
  <2> QED
    BY <1>0, <2>1, LoopHand
<1>3. Loop'.op = NoOp
  BY <1>1, <1>2 DEF HandStays
<1>4. HeldRuns' /\ StagesFit'
  BY <1>2, <1>3, HandCarries
<1>5. FlagsStay /\ clock' = clock /\ local' = local
  BY UnchangedFlags DEF TakeRequest, server
<1>6. ASSUME NEW i \in OpIds
      PROVE  ops'[i] = IF ops[i].status = "running"
                       THEN [ops[i] EXCEPT !.status = "queued"] ELSE ops[i]
  BY DEF RecoverPendingOperations
<1>7. ASSUME NEW i \in Stored
      PROVE  /\ SameAim(i) /\ ops'[i].attempts = ops[i].attempts
             /\ ops'[i].status # "absent"
             /\ \/ ops'[i].status = ops[i].status /\ ops[i].status # "running"
                \/ ops'[i].status = "queued" /\ ops[i].status = "running"
  <2>1. i \in OpIds /\ ops[i] \in Operation
    BY StoredOperation DEF OrderInv
  <2>2. CASE ops[i].status = "running"
    <3>1. ops'[i] = [ops[i] EXCEPT !.status = "queued"]
      BY <1>6, <2>1, <2>2
    <3> QED
      BY <2>1, <2>2, <3>1 DEF SameAim, Operation
  <2>3. CASE ops[i].status # "running"
    <3>1. ops'[i] = ops[i] /\ ops[i].status # "absent"
      BY <1>6, <2>1, <2>3 DEF Stored
    <3> QED
      BY <2>3, <3>1 DEF SameAim
  <2> QED
    BY <2>2, <2>3
<1>8. AimsStay
  <2>1. ASSUME NEW i \in OpIds
        PROVE  i \in Stored' <=> i \in Stored
    <3>1. CASE i \in Stored
      BY <1>7, <3>1 DEF Stored
    <3>2. CASE i \notin Stored
      BY <1>6, <3>2 DEF Stored
    <3> QED
      BY <3>1, <3>2
  <2>2. Stored \subseteq OpIds /\ Stored' \subseteq OpIds
    BY DEF Stored
  <2> QED
    BY <1>7, <2>1, <2>2 DEF AimsStay
<1>9. Tried'
  BY <1>7, <1>8 DEF AimsStay, OrderInv, Tried
<1>10. ASSUME NEW i \in Stored, Smooth(i)'
       PROVE  /\ Smooth(i) /\ ops'[i].status = ops[i].status
              /\ ops[i].kind = "set_read" /\ Replayed(i)' => Replayed(i)
  <2>1. i # NoOp /\ ops[i].attempts \in Nat
    BY StoredOperation, ConstantsAssumption
    DEF OrderInv, Operation, Stored, NoOp
  <2>2. ops[i].status = "running" => ops[i].attempts >= 1
    BY DEF OrderInv, Tried
  <2> QED
    BY <1>3, <1>7, <1>10, <2>1, <2>2 DEF Smooth, InHand, Replayed
<1>11. RowsAgree'
  BY <1>5, <1>8, <1>10, QuietStepAgrees DEF OrderInv, SamePlace
<1> QED
  BY <1>4, <1>5, <1>8, <1>9, <1>11 DEF Carries

LEMMA ClaimCarries ==
    ASSUME OrderInv, [Next]_vars, ClaimPendingOperation(1)
    PROVE  Carries
<1>0. 1 \in Generations
  BY ConstantsAssumption DEF Generations
<1>1. PICK i \in Eligible :
         /\ \A j \in Eligible \ {i} : Before(i, j)
         /\ ops' = [ops EXCEPT ![i].status = "running", ![i].attempts = @ + 1]
         /\ worker' = [worker EXCEPT ![1] =
               [Nobody EXCEPT !.pc = "claimed", !.op = i,
                              !.attempt = ops[i].attempts + 1]]
  BY DEF ClaimPendingOperation
<1>2. i \in OpIds /\ ops[i] \in Operation
  BY DEF Eligible, OrderInv, TypeInv, TypeOK, Absent
<1>3. /\ \A j \in OpIds \ {i} : ops'[j] = ops[j]
      /\ ops'[i] = [ops[i] EXCEPT !.status = "running",
                                  !.attempts = ops[i].attempts + 1]
  BY <1>1, <1>2 DEF OrderInv, TypeInv, TypeOK
<1>4. /\ SameAim(i) /\ ops'[i].status = "running"
      /\ ops'[i].attempts = ops[i].attempts + 1 /\ ops[i].attempts \in Nat
  BY <1>2, <1>3 DEF SameAim, Operation
<1>5. AimsStay
  BY <1>2, <1>3, <1>4, OneChangeKeepsAims DEF OrderInv
<1>6. Loop'.op = i /\ Loop'.pc = "claimed" /\ Loop.op = NoOp
  <2>1. Loop.op = NoOp
    BY DEF ClaimPendingOperation, At, OrderInv, HeldRuns, Holding, Loop
  <2>2. Loop' = [Nobody EXCEPT !.pc = "claimed", !.op = i,
                               !.attempt = ops[i].attempts + 1]
    BY <1>0, <1>1 DEF Loop, OrderInv, TypeInv, TypeOK
  <2> QED
    BY <2>1, <2>2 DEF Nobody
<1>7. HeldRuns' /\ StagesFit'
  BY <1>4, <1>6 DEF HeldRuns, StagesFit, Holding
<1>8. UNCHANGED <<local, remote, budget, clock>>
  BY DEF ClaimPendingOperation, server
<1>9. Tried'
  <2> SUFFICES ASSUME NEW j \in Stored, ops'[j].status # "queued"
               PROVE  ops'[j].attempts >= 1
    BY <1>5 DEF Tried, AimsStay
  <2>1. CASE j = i
    BY <1>4, <2>1
  <2>2. CASE j # i
    BY <1>3, <2>2 DEF OrderInv, Tried, Stored
  <2> QED
    BY <2>1, <2>2
<1>10. RowsAgree'
  BY <1>1, <1>3, <1>4, <1>5, <1>6, <1>8, ClaimAgrees
<1> QED
  BY <1>5, <1>7, <1>8, <1>9, <1>10 DEF Carries

LEMMA CompletionCarries ==
    ASSUME OrderInv, [Next]_vars, CompletePendingOperation(1)
    PROVE  Carries
<1>0. 1 \in Generations
  BY ConstantsAssumption DEF Generations
<1>1. Loop.pc = "completing"
  BY DEF CompletePendingOperation, At, Loop
<1>2. PICK i \in OpIds : /\ i = Loop.op /\ ops[i] \in Operation /\ i \in Stored
                        /\ ops[i].status = "running"
  BY <1>1, OperationInHand DEF Holding
<1>3. ops' = [ops EXCEPT ![i].status = "succeeded",
                         ![i].cleanup = worker[1].cleanup]
  BY <1>2 DEF CompletePendingOperation, Loop
<1>4. \A j \in OpIds \ {i} : ops'[j] = ops[j]
  BY <1>3 DEF OrderInv, TypeInv, TypeOK
<1>5. /\ SameAim(i) /\ ops'[i].attempts = ops[i].attempts
      /\ ops'[i].status = "succeeded"
  BY <1>2, <1>3 DEF SameAim, Operation, OrderInv, TypeInv, TypeOK
<1>6. AimsStay
  BY <1>2, <1>4, <1>5, OneChangeKeepsAims DEF OrderInv
<1>7. Loop'.op = NoOp /\ Loop'.pc = "draining"
  BY <1>0 DEF CompletePendingOperation, OrderInv, TypeInv, TypeOK, Loop, Nobody
<1>8. HeldRuns' /\ StagesFit'
  BY <1>7 DEF HeldRuns, StagesFit
<1>9. Tried'
  BY <1>2, <1>4, <1>5, <1>6 DEF Tried, AimsStay, OrderInv, Stored
<1>10. local' \subseteq local /\ UNCHANGED <<remote, budget, clock>>
  BY DEF CompletePendingOperation, DeleteRows, server
<1>11. RowsAgree'
  BY <1>1, <1>2, <1>4, <1>5, <1>6, <1>7, <1>10, CompletionAgrees
<1> QED
  BY <1>6, <1>8, <1>9, <1>10, <1>11 DEF Carries

LEMMA StoringCarries ==
    ASSUME OrderInv, [Next]_vars, StoreFlag(1)
    PROVE  Carries
<1>0. 1 \in Generations
  BY ConstantsAssumption DEF Generations
<1>1. Loop.pc = "store_flag"
  BY DEF StoreFlag, At, Loop
<1>2. /\ Loop'.op = Loop.op
      /\ Loop'.pc \in {"completing", "failing"}
      /\ UNCHANGED budget.external
  <2>1. CASE Goto(1, "completing") /\ UNCHANGED budget
    BY <1>0, <2>1, GotoIsTyped DEF OrderInv, Loop, Stage
  <2>2. CASE GiveUp(1, TRUE) /\ Spend("lost")
    <3>1. budget'.external = budget.external
      BY <2>2 DEF Spend, OrderInv, TypeInv, TypeOK, BudgetType
    <3> QED
      BY <1>0, <2>2, <3>1, GiveUpIsTyped DEF OrderInv, Loop
  <2> QED
    BY <2>1, <2>2 DEF StoreFlag, Answered
<1>3. UNCHANGED <<ops, local, clock>>
  BY DEF StoreFlag, disk
<1>4. remote' = {IF IsTarget(e, Op(1)) THEN [e EXCEPT !.read = Op(1).value]
                                       ELSE e : e \in remote}
  BY DEF StoreFlag
<1>5. RowsAgree'
  BY <1>1, <1>2, <1>3, <1>4, StoringAgrees
<1>6. HeldRuns' /\ StagesFit'
  BY <1>1, <1>2, <1>3 DEF OrderInv, HeldRuns, StagesFit, Holding
<1>7. AimsStay /\ Tried'
  BY <1>3, SameAimsStay DEF OrderInv, Tried, Stored
<1> QED
  BY <1>3, <1>5, <1>6, <1>7 DEF Carries

(* The whole step *)

\* With one generation the steps that are not the user's commands carry on.
LEMMA OtherStepsCarry ==
    ASSUME OrderInv, MaxGeneration = 1, [Next]_vars,
           \/ \E g \in Generations : LoopStep(g)
           \/ \E i \in OpIds : RetryPendingOperation(i) \/ BackoffElapses(i)
           \/ RestartAccount \/ EnsureSupervisor \/ SyncRequestsOperations
           \/ WorldStep \/ UNCHANGED vars
    PROVE  Carries
<1>0. Generations = {1}
  BY DEF Generations
<1>1. CASE LoopStep(1)
  <2>1. CASE ClaimPendingOperation(1) \/ CompletePendingOperation(1)
             \/ FailPendingOperation(1) \/ StoreFlag(1)
    BY <2>1, ClaimCarries, CompletionCarries, FailureCarries, StoringCarries
  <2>2. CASE TakeRequest(1) /\ RecoverPendingOperations
    BY <2>2, RecoveryCarries
  <2>3. ASSUME ~ClaimPendingOperation(1), ~CompletePendingOperation(1),
               ~FailPendingOperation(1), ~StoreFlag(1),
               ~(TakeRequest(1) /\ RecoverPendingOperations)
        PROVE  Carries
    <3>1. UNCHANGED <<ops, local, clock>>
      BY <1>1, <2>3
      DEF LoopStep, DrainStep, LeaveLoop, TakeRequest, RequestDropped,
          EnterDrain, DrainFails, NothingToClaim, CheckGeneration,
          SelectSource, CopyMessage, MoveMessage, MarkDeleted, ExpungeUid,
          CommandFails, OutcomeLost, disk
    <3>2. HandStays /\ FlagsStay
      BY <1>0, <1>1, <2>3, LoopHand, NextFlags
    <3> QED
      BY <3>1, <3>2, RestCarries
  <2> QED
    BY <2>1, <2>2, <2>3
<1>2. ASSUME NEW i \in OpIds, RetryPendingOperation(i) \/ BackoffElapses(i)
      PROVE  Carries
  BY <1>2, StatusCarries
<1>3. CASE RestartAccount \/ EnsureSupervisor
  <2>1. StartSupervisor /\ UNCHANGED <<disk, server>>
    BY <1>3 DEF RestartAccount, EnsureSupervisor
  <2>2. nextGen = 1
    BY <2>1 DEF StartSupervisor, OrderInv, TypeInv, TypeOK
  <2>3. Loop' = [Nobody EXCEPT !.pc = "waiting"]
    BY <1>0, <2>1, <2>2 DEF StartSupervisor, OrderInv, TypeInv, TypeOK, Loop
  <2>4. HandStays
    BY <2>3 DEF HandStays, Nobody, Holding
  <2>5. UNCHANGED <<ops, local, clock, remote>>
    BY <2>1 DEF disk, server
  <2> QED
    BY <2>4, <2>5, UnchangedFlags, RestCarries
<1>4. CASE Crash
  <2>1. Loop' = Nobody
    BY <1>0, <1>4 DEF Crash, Loop
  <2>2. HandStays
    BY <2>1 DEF HandStays, Nobody, Holding
  <2>3. UNCHANGED <<ops, local, clock, remote>>
    BY <1>4 DEF Crash, disk, server
  <2> QED
    BY <2>2, <2>3, UnchangedFlags, RestCarries
<1>5. CASE \/ WorldStep /\ ~Crash
           \/ SyncRequestsOperations \/ UNCHANGED vars
  <2>1. UNCHANGED <<ops, local, clock, worker>>
    BY <1>5
    DEF WorldStep, OtherClientExpunges, OtherClientSetsRead, RenumberMailbox,
        SyncRequestsOperations, vars, disk
  <2>2. HandStays
    BY <2>1, RestingHand
  <2>3. FlagsStay
    <3>1. CASE \E g \in Generations : StoreFlag(g)
      <4>1. Loop'.pc # Loop.pc
        <5>1. StoreFlag(1) /\ 1 \in Generations
          BY <1>0, <3>1
        <5>2. Answered(1, "completing") /\ Loop.pc = "store_flag"
          BY <5>1 DEF StoreFlag, At, Loop
        <5>3. Goto(1, "completing") => Loop'.pc = "completing"
          BY <5>1, GotoIsTyped DEF OrderInv, Loop, Stage
        <5>4. GiveUp(1, TRUE) => Loop'.pc = "failing"
          BY <5>1, GiveUpIsTyped DEF OrderInv, Loop
        <5> QED
          BY <5>2, <5>3, <5>4 DEF Answered
      <4> QED
        BY <2>1, <4>1 DEF Loop
    <3>2. CASE \A g \in Generations : ~StoreFlag(g)
      BY <3>2, NextFlags
    <3> QED
      BY <3>1, <3>2
  <2> QED
    BY <2>1, <2>2, <2>3, RestCarries
<1> QED
  BY <1>0, <1>1, <1>2, <1>3, <1>4, <1>5

\* An operation the user queued from a row, and what it shows of it.
Queued(i, at, kind, value) ==
    /\ i \in OpIds \ Stored /\ at \in local
    /\ Stored' = Stored \cup {i}
    /\ \A j \in Stored : ops'[j] = ops[j]
    /\ ops'[i].kind = kind /\ ops'[i].msg = at.msg /\ ops'[i].src = at.mb
    /\ ops'[i].uid = at.uid /\ ops'[i].value = value
    /\ ops'[i].status = "queued" /\ ops'[i].stamp = clock'
    /\ clock' \in Nat /\ clock' >= clock
Shown(at, kind, value) ==
    \A row \in local' : \E old \in local :
        /\ SamePlace(row, old)
        /\ IF kind = "set_read" /\ row.msg = at.msg /\ row.mb = at.mb
           THEN row.read = value ELSE row.read = old.read

LEMMA InsertionQueuesOne ==
    ASSUME TypeInv, NEW kind, NEW row \in local, NEW dst, NEW value,
           InsertOperation(kind, row, dst, value)
    PROVE  \E i : Queued(i, row, kind, value)
<1>1. PICK i \in OpIds \ Stored, t \in {clock, clock + 1} :
        /\ clock' = t
        /\ ops' = [ops EXCEPT ![i] =
              [kind |-> kind, msg |-> row.msg, src |-> row.mb, dst |-> dst,
               uid |-> row.uid, validity |-> row.validity, value |-> value,
               previous |-> row.read, status |-> "queued", attempts |-> 0,
               due |-> FALSE, stamp |-> t, seq |-> Cardinality(Stored) + 1,
               cleanup |-> FALSE]]
  BY DEF InsertOperation
<1>2. /\ ops'[i].kind = kind /\ ops'[i].msg = row.msg /\ ops'[i].src = row.mb
      /\ ops'[i].uid = row.uid /\ ops'[i].value = value
      /\ ops'[i].status = "queued" /\ ops'[i].stamp = clock'
  BY <1>1 DEF TypeInv, TypeOK
<1>3. \A j \in OpIds \ {i} : ops'[j] = ops[j]
  BY <1>1 DEF TypeInv, TypeOK
<1>4. Stored' = Stored \cup {i} /\ \A j \in Stored : ops'[j] = ops[j]
  BY <1>1, <1>2, <1>3 DEF Stored
<1>5. clock' \in Nat /\ clock' >= clock
  BY <1>1 DEF TypeInv, TypeOK
<1> QED
  BY <1>1, <1>2, <1>4, <1>5 DEF Queued

LEMMA CommandsQueue ==
    ASSUME OrderInv, UserStep, ~RestartAccount,
           \A i \in OpIds : ~RetryPendingOperation(i)
    PROVE  /\ UNCHANGED <<remote, worker, budget>>
           /\ \E i, at, kind, value :
                 Queued(i, at, kind, value) /\ Shown(at, kind, value)
<1> USE DEF OrderInv
<1>0. UNCHANGED <<remote, worker, budget>>
  BY DEF UserStep, SetMessageRead, TransferMessages, DeleteMessages, server
<1>1. ASSUME NEW m, NEW mb, NEW v \in BOOLEAN, SetMessageRead(m, mb, v)
      PROVE  \E i, at, kind, value :
                Queued(i, at, kind, value) /\ Shown(at, kind, value)
  <2>1. PICK row \in VisibleRows(m, mb) :
           InsertOperation("set_read", row, NoMailbox, v)
    BY <1>1 DEF SetMessageRead
  <2>2. row \in local /\ row.msg = m /\ row.mb = mb
    BY DEF VisibleRows
  <2>3. PICK i : Queued(i, row, "set_read", v)
    BY <2>1, <2>2, InsertionQueuesOne
  <2>4. Shown(row, "set_read", v)
    <3> SUFFICES ASSUME NEW shown \in SetRead(m, mb, v)
                 PROVE  \E old \in local :
                           /\ SamePlace(shown, old)
                           /\ IF shown.msg = m /\ shown.mb = mb
                              THEN shown.read = v ELSE shown.read = old.read
      BY <1>1, <2>2 DEF SetMessageRead, Shown
    <3> QED
      BY SettingRead
  <2> QED
    BY <2>3, <2>4
<1>2. ASSUME NEW m, NEW mb, NEW row \in VisibleRows(m, mb), NEW kind, NEW dst,
             kind # "set_read", InsertOperation(kind, row, dst, FALSE),
             local' = local \/ local' = SetHidden(m, mb, TRUE)
      PROVE  \E i, at, what, value :
                Queued(i, at, what, value) /\ Shown(at, what, value)
  <2>1. row \in local
    BY DEF VisibleRows
  <2>2. PICK value : value = FALSE
    OBVIOUS
  <2>3. PICK i : Queued(i, row, kind, value)
    BY <1>2, <2>1, <2>2, InsertionQueuesOne
  <2>4. Shown(row, kind, value)
    <3> SUFFICES ASSUME NEW shown \in local'
                 PROVE  \E old \in local :
                           SamePlace(shown, old) /\ shown.read = old.read
      BY <1>2 DEF Shown
    <3>1. CASE local' = local
      BY <3>1 DEF SamePlace
    <3>2. CASE local' = SetHidden(m, mb, TRUE)
      BY <3>2, SettingHidden
    <3> QED
      BY <1>2, <3>1, <3>2
  <2> QED
    BY <2>3, <2>4
<1>3. ASSUME NEW m, NEW src, NEW dst, NEW copy \in BOOLEAN,
             QueueTransfer(m, src, dst, copy)
      PROVE  \E i, at, kind, value :
                Queued(i, at, kind, value) /\ Shown(at, kind, value)
  <2>1. PICK kind : kind = IF copy THEN "copy" ELSE "move"
    OBVIOUS
  <2>2. PICK row \in VisibleRows(m, src) : InsertOperation(kind, row, dst, FALSE)
    BY <1>3, <2>1 DEF QueueTransfer
  <2>3. local' = local \/ local' = SetHidden(m, src, TRUE)
    BY <1>3 DEF QueueTransfer
  <2> QED
    BY <1>2, <2>1, <2>2, <2>3
<1>4. ASSUME NEW m, NEW mb, QueuePermanentDelete(m, mb)
      PROVE  \E i, at, kind, value :
                Queued(i, at, kind, value) /\ Shown(at, kind, value)
  <2>1. PICK kind : kind = "delete"
    OBVIOUS
  <2>2. PICK row \in VisibleRows(m, mb) :
           InsertOperation(kind, row, NoMailbox, FALSE)
    BY <1>4, <2>1 DEF QueuePermanentDelete
  <2>3. local' = SetHidden(m, mb, TRUE)
    BY <1>4 DEF QueuePermanentDelete
  <2> QED
    BY <1>2, <2>1, <2>2, <2>3
<1>5. CASE \E m \in Messages, mb \in Mailboxes :
              \/ \E v \in BOOLEAN : SetMessageRead(m, mb, v)
              \/ \E dst \in Mailboxes, copy \in BOOLEAN :
                    TransferMessages(m, mb, dst, copy)
              \/ DeleteMessages(m, mb)
  <2>1. PICK m \in Messages, mb \in Mailboxes :
           \/ \E v \in BOOLEAN : SetMessageRead(m, mb, v)
           \/ \E dst \in Mailboxes, copy \in BOOLEAN :
                 QueueTransfer(m, mb, dst, copy)
           \/ QueuePermanentDelete(m, mb)
           \/ QueueTransfer(m, mb, Trash, FALSE)
    BY <1>5 DEF TransferMessages, DeleteMessages
  <2>2. CASE \E v \in BOOLEAN : SetMessageRead(m, mb, v)
    BY <1>0, <1>1, <2>2
  <2>3. CASE \E dst \in Mailboxes, copy \in BOOLEAN :
                QueueTransfer(m, mb, dst, copy)
    BY <1>0, <1>3, <2>3
  <2>4. CASE QueuePermanentDelete(m, mb)
    BY <1>0, <1>4, <2>4
  <2>5. CASE QueueTransfer(m, mb, Trash, FALSE)
    <3>1. PICK copy \in BOOLEAN : copy = FALSE
      OBVIOUS
    <3>2. QueueTransfer(m, mb, Trash, copy)
      BY <2>5, <3>1
    <3> QED
      BY <1>0, <1>3, <3>2
  <2> QED
    BY <2>1, <2>2, <2>3, <2>4, <2>5
<1> QED
  BY <1>0, <1>5 DEF UserStep

LEMMA NextOrder == ASSUME OrderInv, MaxGeneration = 1, [Next]_vars
                   PROVE  OrderInv'
<1>1. TypeInv' /\ Numbered' /\ RowsStay
  BY NextType, NextNumbered, NextRows DEF OrderInv
<1>2. (budget.external <= Budget.external)'
  BY ExternalShrinks
<1>3. OneRowEach'
  <2> SUFFICES ASSUME NEW row \in local', NEW other \in local',
                      row.msg = other.msg
               PROVE  SamePlace(row, other)
    BY DEF OneRowEach, SamePlace
  <2>1. PICK old \in local : SamePlace(row, old)
    BY <1>1 DEF RowsStay, SamePlace
  <2>2. PICK older \in local : SamePlace(other, older)
    BY <1>1 DEF RowsStay, SamePlace
  <2>3. SamePlace(old, older)
    BY <2>1, <2>2 DEF OrderInv, OneRowEach, SamePlace
  <2> QED
    BY <2>1, <2>2, <2>3 DEF SamePlace
<1>4. CASE Carries
  <2>1. Stamped'
    <3>1. /\ Stored' = Stored /\ clock' = clock
          /\ \A i \in Stored : ops'[i].stamp = ops[i].stamp
      BY <1>4 DEF Carries, AimsStay, SameAim
    <3> QED
      BY <3>1 DEF OrderInv, Stamped
  <2>2. AimedAtRows'
    <3> SUFFICES ASSUME NEW row \in local', NEW i \in OperationsOn(row)'
                 PROVE  ops'[i].uid = row.uid
      BY DEF AimedAtRows
    <3>1. PICK old \in local : SamePlace(row, old)
      BY <1>1 DEF RowsStay, SamePlace
    <3>2. i \in OperationsOn(old) /\ i \in Stored
      BY <1>4, <3>1, AimsKeepOperations DEF Carries, OperationsOn
    <3>3. ops'[i].uid = ops[i].uid
      BY <1>4, <3>2 DEF Carries, AimsStay, SameAim
    <3> QED
      BY <3>1, <3>2, <3>3 DEF OrderInv, AimedAtRows, SamePlace
  <2> QED
    BY <1>1, <1>2, <1>3, <1>4, <2>1, <2>2 DEF Carries, OrderInv
<1>5. CASE /\ UserStep /\ ~RestartAccount
           /\ \A i \in OpIds : ~RetryPendingOperation(i)
  <2>1. UNCHANGED <<remote, worker, budget>>
    BY <1>5, CommandsQueue
  <2>2. PICK i, at, kind, value :
           Queued(i, at, kind, value) /\ Shown(at, kind, value)
    BY <1>5, CommandsQueue
  <2>3. \A j \in Stored : /\ ops'[j] = ops[j] /\ ops[j].stamp \in Nat
                          /\ ops[j].stamp <= clock /\ clock \in Nat
                          /\ j # i
    BY <2>2, StoredOperation
    DEF Queued, OrderInv, Stamped, TypeInv, TypeOK, Operation
  <2>4. RowsAgree'
    BY <2>1, <2>2, InsertionAgrees DEF Queued, Shown
  <2>5. Stamped'
    BY <2>2, <2>3 DEF Queued, Stamped
  <2>6. Tried'
    BY <2>2, <2>3 DEF Queued, Tried, OrderInv
  <2>7. HeldRuns' /\ StagesFit'
    <3>1. CASE Loop.pc \in Holding
      <4>1. PICK j \in Stored : /\ j = Loop.op /\ ops[j].status = "running"
                                /\ Op(1) = ops[j] /\ Loop' = Loop
        BY <2>1, <3>1, OperationInHand DEF Loop
      <4>2. ops'[j] = ops[j] /\ Op(1)' = ops'[j]
        BY <2>3, <4>1 DEF Op, Loop
      <4> QED
        BY <3>1, <4>1, <4>2 DEF OrderInv, HeldRuns, StagesFit
    <3>2. CASE Loop.pc \notin Holding
      BY <2>1, <3>2 DEF OrderInv, HeldRuns, StagesFit, Holding, Loop
    <3> QED
      BY <3>1, <3>2
  <2>8. AimedAtRows'
    <3> SUFFICES ASSUME NEW row \in local', NEW j \in OperationsOn(row)'
                 PROVE  ops'[j].uid = row.uid
      BY DEF AimedAtRows
    <3>1. PICK old \in local : SamePlace(row, old)
      BY <1>1 DEF RowsStay, SamePlace
    <3>2. j \in Stored' /\ ops'[j].msg = row.msg /\ ops'[j].src = row.mb
      BY DEF OperationsOn, OperationOf
    <3>3. CASE j = i
      BY <2>2, <3>1, <3>2, <3>3 DEF Queued, OrderInv, OneRowEach, SamePlace
    <3>4. CASE j \in Stored
      BY <2>3, <3>1, <3>2, <3>4
      DEF OrderInv, AimedAtRows, OperationsOn, OperationOf, SamePlace
    <3> QED
      BY <2>2, <3>2, <3>3, <3>4 DEF Queued
  <2> QED
    BY <1>1, <1>2, <1>3, <2>4, <2>5, <2>6, <2>7, <2>8 DEF OrderInv
<1>6. CASE Next /\ ~(/\ UserStep /\ ~RestartAccount
                     /\ \A i \in OpIds : ~RetryPendingOperation(i))
  <2>1. Carries
    BY <1>6, OtherStepsCarry DEF Next
  <2> QED
    BY <1>4, <2>1
<1>7. CASE UNCHANGED vars
  <2>1. Carries
    BY <1>7, OtherStepsCarry
  <2> QED
    BY <1>4, <2>1
<1> QED
  BY <1>5, <1>6, <1>7

LEMMA InitOrder == Init => OrderInv
<1> SUFFICES ASSUME Init PROVE OrderInv
  OBVIOUS
<1>1. TypeInv /\ Numbered
  BY InitType, InitNumbered
<1>2. PICK place \in [Messages -> Mailboxes],
           uid \in [Messages -> 1..Cardinality(Messages)] :
        /\ local = {[msg |-> m, mb |-> place[m], validity |-> 1,
                     uid |-> uid[m], read |-> FALSE, hidden |-> FALSE] :
                       m \in Messages}
        /\ remote = {[msg |-> m, mb |-> place[m], validity |-> 1,
                      uid |-> uid[m], read |-> FALSE, deleted |-> FALSE] :
                        m \in Messages}
        /\ ops = [i \in OpIds |-> Absent]
        /\ worker = [g \in Generations |-> Nobody]
        /\ budget = Budget
  BY DEF Init
<1>3. Stored = {}
  BY <1>2 DEF Stored, Absent
<1>4. Loop = Nobody
  BY <1>2, ConstantsAssumption DEF Loop, Generations
<1>5. HeldRuns /\ StagesFit
  BY <1>4 DEF HeldRuns, StagesFit, Nobody
<1>6. Stamped /\ Tried /\ AimedAtRows
  BY <1>3 DEF Stamped, Tried, AimedAtRows, OperationsOn
<1>7. ASSUME NEW row \in local
      PROVE  \E m \in Messages :
                /\ row.msg = m /\ row.mb = place[m] /\ row.validity = 1
                /\ row.uid = uid[m] /\ row.read = FALSE
  BY <1>2
<1>8. OneRowEach
  <2> SUFFICES ASSUME NEW row \in local, NEW old \in local, row.msg = old.msg
               PROVE  SamePlace(row, old)
    BY DEF OneRowEach
  <2> QED
    BY <1>7 DEF SamePlace
<1>9. RowsAgree
  <2> SUFFICES ASSUME NEW row \in local
               PROVE  LastIsShown(row) /\ InOrder(row) /\ Agrees(row)
    BY DEF RowsAgree
  <2>1. OperationsOn(row) = {} /\ FlagsOn(row) = {}
    BY <1>3 DEF OperationsOn, FlagsOn
  <2>2. \A e \in remote : e.read = FALSE
    BY <1>2
  <2>3. row.read = FALSE
    BY <1>7
  <2>4. LastIsShown(row) /\ InOrder(row)
    BY <2>1 DEF LastIsShown, InOrder
  <2>5. Agrees(row)
    BY <2>2, <2>3 DEF Agrees
  <2> QED
    BY <2>4, <2>5
<1>10. budget.external <= Budget.external
  BY <1>2, ConstantsAssumption DEF BudgetType
<1> QED
  BY <1>1, <1>5, <1>6, <1>8, <1>9, <1>10 DEF OrderInv

\* When every operation on a location succeeded at its first attempt, and no
\* two were queued in the same second, the server has the flag the user sees:
\* for accounts whose loop is not replaced while the process runs (then two
\* operations on one message may be in flight at once).
THEOREM FirstAttemptsReplayInOrder ==
    ASSUME MaxGeneration = 1
    PROVE  Spec => []FirstAttemptsAgree
<1>1. OrderInv /\ [Next]_vars => OrderInv'
  BY NextOrder
<1>2. OrderInv => FirstAttemptsAgree
  <2> SUFFICES ASSUME OrderInv, NEW row \in local, NEW e \in remote,
                      Untouched, FiledAt(e, row),
                      \A i \in OperationsOn(row) :
                         ops[i].status = "succeeded" /\ ops[i].attempts = 1,
                      \A i, j \in OperationsOn(row) :
                         ops[i].stamp = ops[j].stamp => i = j
               PROVE  e.read = row.read
    BY DEF FirstAttemptsAgree, Untouched, FiledAt, OperationsOn
  <2>1. Orderly(row)
    BY DEF Orderly, Smooth
  <2>2. \A i \in FlagsOn(row) : Replayed(i)
    BY DEF FlagsOn, Replayed
  <2> QED
    BY <2>1, <2>2 DEF OrderInv, RowsAgree, Agrees
<1> QED
  BY <1>1, <1>2, InitOrder, PTL DEF Spec

=============================================================================
