---------------------- MODULE ContinuousQueriesProofs -----------------------
(***************************************************************************)
(* Theorems about ContinuousQueries, for any servers, CQs, names, threads  *)
(* and bounds, and whichever of the races are allowed.                     *)
(***************************************************************************)
EXTENDS ContinuousQueries, TLAPS

(* Most steps are first-order and left to Zenon; those that reason about   *)
(* numbers, records and sequences name SMT.                                *)
USE Zenon

Own == Threads \cup {Receiver}

Pcs == {"idle", "exists", "add", "lock", "execute", "sent", "ran",
        "stop", "stopSend", "stopCheck", "stopSet",
        "close", "closingSet", "closeSend", "closedCheck",
        "closedSet", "remove", "next", "unlock",
        "shared", "mapLock", "unique", "drain",
        "acquire", "find", "running", "listener", "release"}

-----------------------------------------------------------------------------
(* Tasks, and the steps of one thread.                                     *)

TaskFacts(r, pc, op, cq, todo) ==
  r \in Tasks /\ r.pc = pc /\ r.op = op /\ r.cq = cq /\ r.todo = todo

LEMMA TaskTypes ==
  ASSUME NEW r \in Tasks
  PROVE  /\ r.pc \in Pcs /\ r.op \in Ops
         /\ r.cq \in Cqs \cup {NoCq} /\ r.todo \in SUBSET Cqs
  BY DEF Tasks, Pcs

LEMMA IdleTask ==
  TaskFacts(Idle, "idle", "none", NoCq, {})
<1>1. "idle" \in Pcs /\ "none" \in Ops BY SMTT(30) DEF Pcs, Ops
<1> QED BY <1>1, SMTT(30) DEF TaskFacts, Tasks, Idle, Pcs

LEMMA NewTask ==
  ASSUME NEW pc \in Pcs, NEW op \in Ops, NEW c \in Cqs \cup {NoCq}
  PROVE  /\ TaskFacts([Idle EXCEPT !.op = op, !.cq = c, !.pc = pc], pc, op, c, {})
         /\ TaskFacts([Idle EXCEPT !.op = op, !.pc = pc], pc, op, NoCq, {})
<1> DEFINE a == [Idle EXCEPT !.op = op, !.cq = c, !.pc = pc]
           b == [Idle EXCEPT !.op = op, !.pc = pc]
<1>0. Idle \in Tasks /\ Idle.todo = {} /\ Idle.cq = NoCq
  BY IdleTask DEF TaskFacts
<1>1. /\ a = [Idle EXCEPT !.op = op, !.cq = c, !.pc = pc]
      /\ b = [Idle EXCEPT !.op = op, !.pc = pc]
  OBVIOUS
<1> HIDE DEF a, b
<1>a. a = [pc |-> pc, op |-> op, cq |-> c, todo |-> {}] BY <1>0, <1>1 DEF Tasks
<1>b. b = [pc |-> pc, op |-> op, cq |-> NoCq, todo |-> {}] BY <1>0, <1>1 DEF Tasks
<1>2. /\ TaskFacts(a, pc, op, c, {})
      /\ TaskFacts(b, pc, op, NoCq, {})
  BY <1>a, <1>b, SMTT(30) DEF TaskFacts, Tasks, Pcs
<1> QED BY <1>2 DEF a, b

LEMMA MovedTask ==
  ASSUME NEW r \in Tasks, NEW pc \in Pcs
  PROVE  TaskFacts([r EXCEPT !.pc = pc], pc, r.op, r.cq, r.todo)
<1>1. [r EXCEPT !.pc = pc]
        = [pc |-> pc, op |-> r.op, cq |-> r.cq, todo |-> r.todo]
  BY SMTT(30) DEF Tasks
<1> QED BY <1>1, TaskTypes, SMTT(30) DEF TaskFacts, Tasks, Pcs

LEMMA ChangedTask ==
  ASSUME NEW r \in Tasks, NEW pc \in Pcs, NEW c \in Cqs \cup {NoCq},
         NEW todo \in SUBSET Cqs
  PROVE  /\ TaskFacts([r EXCEPT !.todo = todo, !.pc = pc], pc, r.op, r.cq, todo)
         /\ TaskFacts([r EXCEPT !.cq = c, !.pc = pc], pc, r.op, c, r.todo)
         /\ TaskFacts([r EXCEPT !.todo = todo, !.cq = c, !.pc = pc], pc, r.op, c, todo)
<1> DEFINE x == [r EXCEPT !.todo = todo, !.pc = pc]
           y == [r EXCEPT !.cq = c, !.pc = pc]
           z == [r EXCEPT !.todo = todo, !.cq = c, !.pc = pc]
<1>0. /\ x = [r EXCEPT !.todo = todo, !.pc = pc]
      /\ y = [r EXCEPT !.cq = c, !.pc = pc]
      /\ z = [r EXCEPT !.todo = todo, !.cq = c, !.pc = pc]
  OBVIOUS
<1> HIDE DEF x, y, z
<1>1. x = [pc |-> pc, op |-> r.op, cq |-> r.cq, todo |-> todo] BY <1>0 DEF Tasks
<1>2. y = [pc |-> pc, op |-> r.op, cq |-> c, todo |-> r.todo] BY <1>0 DEF Tasks
<1>3. z = [pc |-> pc, op |-> r.op, cq |-> c, todo |-> todo] BY <1>0 DEF Tasks
<1>4. r.op \in Ops /\ r.cq \in Cqs \cup {NoCq} /\ r.todo \in SUBSET Cqs
  BY TaskTypes, SMTT(30)
<1>5. TaskFacts(x, pc, r.op, r.cq, todo) BY <1>1, <1>4, SMTT(30) DEF TaskFacts, Tasks, Pcs
<1>6. TaskFacts(y, pc, r.op, c, r.todo) BY <1>2, <1>4, SMTT(30) DEF TaskFacts, Tasks, Pcs
<1>7. TaskFacts(z, pc, r.op, c, todo) BY <1>3, <1>4, SMTT(30) DEF TaskFacts, Tasks, Pcs
<1> QED BY <1>5, <1>6, <1>7 DEF x, y, z

(* Only thread t moves, and it becomes r.                                  *)
Becomes(t, r) ==
  /\ th' \in [Own -> Tasks]
  /\ th'[t] = r
  /\ \A u \in Own : u # t => th'[u] = th[u]

LEMMA Puts ==
  ASSUME th \in [Own -> Tasks], NEW t \in Own, NEW r \in Tasks,
         th' = [th EXCEPT ![t] = r]
  PROVE  Becomes(t, r)
  BY SMTT(30) DEF Becomes

(* Only the place of t changes.                                            *)
Goes(t, pc) ==
  /\ Becomes(t, th'[t])
  /\ TaskFacts(th'[t], pc, th[t].op, th[t].cq, th[t].todo)

LEMMA GotoGoes ==
  ASSUME th \in [Own -> Tasks], NEW t \in Own, NEW pc \in Pcs, Goto(t, pc)
  PROVE  Goes(t, pc)
<1> DEFINE r == [th[t] EXCEPT !.pc = pc]
<1>1. th[t] \in Tasks BY SMTT(30)
<1>2. TaskFacts(r, pc, th[t].op, th[t].cq, th[t].todo) BY <1>1, MovedTask
<1>3. th' = [th EXCEPT ![t] = r] BY DEF Goto
<1> HIDE DEF r
<1>4. r \in Tasks BY <1>2 DEF TaskFacts
<1>5. Becomes(t, r) BY <1>3, <1>4, Puts
<1> QED BY <1>2, <1>5 DEF Goes, Becomes

(* What After leaves.                                                      *)
Over(r, x) ==
  \/ x = Idle /\ r.op \notin Bulk \cup {"destroy", "destroyRegion"}
  \/ /\ r.op \in Bulk \cup {"destroy"}
     /\ TaskFacts(x, "next", r.op, r.cq, r.todo)
  \/ /\ r.op = "destroyRegion"
     /\ TaskFacts(x, "release", r.op, r.cq, r.todo)

LEMMA AfterIsOver ==
  ASSUME NEW r \in Tasks
  PROVE  Over(r, After(r)) /\ After(r) \in Tasks
<1>0. "next" \in Pcs /\ "release" \in Pcs BY SMTT(30) DEF Pcs
<1>1. CASE r.op \in Bulk \cup {"destroy"}
  <2>1. After(r) = [r EXCEPT !.pc = "next"] BY <1>1, SMTT(30) DEF After, Bulk
  <2>2. TaskFacts(After(r), "next", r.op, r.cq, r.todo)
    BY <1>0, <2>1, MovedTask, SMTT(30)
  <2> QED BY <1>1, <2>2 DEF Over, TaskFacts
<1>2. CASE r.op = "destroyRegion"
  <2>1. After(r) = [r EXCEPT !.pc = "release"] BY <1>2, SMTT(30) DEF After, Bulk
  <2>2. TaskFacts(After(r), "release", r.op, r.cq, r.todo)
    BY <1>0, <2>1, MovedTask, SMTT(30)
  <2> QED BY <1>2, <2>2 DEF Over, TaskFacts
<1>3. CASE r.op \notin Bulk \cup {"destroy", "destroyRegion"}
  <2>1. After(r) = Idle BY <1>3, SMTT(30) DEF After, Bulk
  <2> QED BY <1>3, <2>1, IdleTask DEF Over, TaskFacts
<1> QED BY <1>1, <1>2, <1>3

LEMMA Returns ==
  ASSUME th \in [Own -> Tasks], NEW t \in Own, Return(t)
  PROVE  Becomes(t, th'[t]) /\ Over(th[t], th'[t])
<1> DEFINE r == After(th[t])
<1>1. th[t] \in Tasks BY SMTT(30)
<1>2. Over(th[t], r) /\ r \in Tasks BY <1>1, AfterIsOver
<1>3. th' = [th EXCEPT ![t] = r] BY DEF Return
<1> HIDE DEF r
<1>4. Becomes(t, r) BY <1>2, <1>3, Puts
<1> QED BY <1>2, <1>4 DEF Becomes

LEMMA Throws ==
  ASSUME th \in [Own -> Tasks], NEW t \in Own, Throw(t)
  PROVE  /\ Becomes(t, th'[t])
         /\ \/ Over(th[t], th'[t])
            \/ /\ th[t].op \in Bulk
               /\ TaskFacts(th'[t], "unlock", th[t].op, th[t].cq, th[t].todo)
<1> DEFINE r == IF th[t].op \in Bulk THEN [th[t] EXCEPT !.pc = "unlock"]
                ELSE After(th[t])
<1>1. th[t] \in Tasks /\ "unlock" \in Pcs BY SMTT(30) DEF Pcs
<1>2. \/ Over(th[t], r) /\ r \in Tasks
      \/ /\ th[t].op \in Bulk
         /\ TaskFacts(r, "unlock", th[t].op, th[t].cq, th[t].todo)
  BY <1>1, AfterIsOver, MovedTask
<1>3. th' = [th EXCEPT ![t] = r] BY DEF Throw
<1> HIDE DEF r
<1>4. r \in Tasks BY <1>2 DEF TaskFacts
<1>5. Becomes(t, r) BY <1>3, <1>4, Puts
<1> QED BY <1>2, <1>5 DEF Becomes

-----------------------------------------------------------------------------
(* Types, the shape of tasks and the holder of m_redundantEndpointsLock.   *)

ClientTypes ==
  /\ m_cqState \in [Cqs -> States]
  /\ m_cqQueryMap \in [Names -> Cqs \cup {NoCq}]
  /\ partial \subseteq Cqs

ServiceTypes == {m_cqService, m_running, m_destroyPending} \subseteq BOOLEAN

ServerTypes ==
  /\ m_redundantEndpoints \in Seq(Servers) /\ up \subseteq Servers
  /\ cqs \in [Servers -> SUBSET Names] /\ gone \subseteq Names

LockTypes ==
  /\ m_mutex \in [Cqs -> AllThreads \cup {NoThread}]
  /\ {mapLock, writer, semaphore} \subseteq AllThreads \cup {NoThread}
  /\ readers \subseteq AllThreads

BoundTypes ==
  ops \in 0..MaxOps /\ faults \in Nat /\ abandoned \subseteq Servers

OtherTypes ==
  ClientTypes /\ ServiceTypes /\ ServerTypes /\ LockTypes /\ BoundTypes

LEMMA TypesSplit ==
  TypeOK <=> OtherTypes /\ send \in Sends /\ th \in [Own -> Tasks]
  BY DEF TypeOK, OtherTypes, ClientTypes, ServiceTypes, ServerTypes,
               LockTypes, BoundTypes, Own

NeedsCq ==
  Pcs \ {"idle", "shared", "mapLock", "next", "unlock", "unique", "drain",
         "release"}

Executes == {"execute", "executeCqs"}
Stops == {"stop", "stopCqs"}
Closers == {"close", "closeCqs", "destroy"}
Notices == {"event", "destroyRegion"}

(* Which operation a thread can be at which place in.                      *)
Shape(t, r) ==
  /\ r.pc \in NeedsCq => r.cq \in Cqs
  /\ r.pc = "idle" => r.op = "none"
  /\ r.pc \in {"exists", "add"} => r.op = "newCq"
  /\ r.pc \in {"lock", "execute", "ran"} => r.op \in Executes
  /\ r.pc \in {"stop", "stopSend", "stopCheck", "stopSet"} => r.op \in Stops
  /\ r.pc \in {"close", "closingSet", "closedCheck", "closedSet", "remove"}
       => r.op \in Closers \cup {"destroyRegion"}
  /\ r.pc = "closeSend" => r.op \in Closers
  /\ r.pc = "sent" => r.op \in Executes \cup Stops \cup Closers
  /\ r.pc \in {"shared", "unlock"} => r.op \in Bulk
  /\ r.pc \in {"mapLock", "next"} => r.op \in Bulk \cup {"destroy"}
  /\ r.pc \in {"unique", "drain"} => r.op = "destroy"
  /\ r.pc \in {"acquire", "find", "running", "release"} => r.op \in Notices
  /\ r.pc = "listener" => r.op = "event"
  /\ t = Receiver => r.op \in Notices \cup {"none"}
  /\ t # Receiver => r.op \notin Notices

Shapes == \A t \in Own : Shape(t, th[t])

Waiting == {"execute", "ran", "sent"}

(* The thread whose request is under way waits for it.                     *)
Serves ==
  /\ send.by \in Threads /\ th[send.by].pc = "sent"
  /\ send.msg = "execute" => th[send.by].op \in Executes
  /\ send.msg = "stop" => th[send.by].op \in Stops
  /\ send.msg = "close" => th[send.by].op \in Closers
  /\ send.msg # "none"
  /\ send.pc # "attempt" => send.left > 0

Holds ==
  /\ send.pc = "free" => send.by = NoThread
  /\ send.pc = "held" => /\ send.by \in Threads
                         /\ th[send.by].pc \in {"execute", "ran"}
  /\ send.pc \notin {"free", "held"} =>
       \/ /\ send.by = Redundancy /\ send.msg = "none"
          /\ send.pc \in {"maintain", "join", "executeAllCqs", "recover"}
       \/ Serves
  /\ \A t \in Own : th[t].pc \in Waiting => send.by = t

Named == \A n \in Names : m_cqQueryMap[n] # NoCq => m_cqName[m_cqQueryMap[n]] = n

TypesInv == TypeOK /\ Shapes /\ Holds /\ Named

(* A step of one thread that does not touch the lock.                      *)
LEMMA ShapesKept ==
  ASSUME Shapes, NEW t \in Own, NEW r, Becomes(t, r), Shape(t, r)
  PROVE  Shapes'
<1>1. ASSUME NEW u \in Own PROVE Shape(u, th'[u])
  <2>1. CASE u = t BY <2>1 DEF Becomes
  <2>2. CASE u # t BY <2>2 DEF Becomes, Shapes
  <2> QED BY <2>1, <2>2, SMTT(30)
<1> QED BY <1>1, SMTT(30) DEF Shapes, Shape

LEMMA HoldsKept ==
  ASSUME Holds, send' = send, NEW t \in Own, NEW r, Becomes(t, r),
         th[t].pc \notin Waiting, r.pc \notin Waiting, Threads \subseteq Own
  PROVE  Holds'
<1>1. \A u \in Own : th[u].pc \in Waiting => u # t /\ th'[u] = th[u]
  BY DEF Becomes
<1>2. \A u \in Own : th'[u].pc \in Waiting => th[u].pc \in Waiting
  BY DEF Becomes
<1>3. \A u \in Own : th'[u].pc \in Waiting => send'.by = u
  BY <1>2 DEF Holds
<1>4. send'.pc = "held" => /\ send'.by \in Threads
                           /\ th'[send'.by].pc \in {"execute", "ran"}
  BY <1>1 DEF Holds, Waiting
<1>5. Serves => Serves'
  BY <1>1 DEF Serves, Waiting
<1> QED BY <1>3, <1>4, <1>5 DEF Holds

LEMMA OwnThreads ==
  /\ Threads \subseteq Own /\ Receiver \in Own /\ Receiver \notin Threads
  /\ Own \subseteq AllThreads /\ NoThread \notin AllThreads
  /\ Redundancy \notin Own /\ Redundancy \in AllThreads
<1>1. Redundancy # Receiver BY SMTT(30) DEF Redundancy, Receiver
<1> QED BY <1>1, CqAssumption DEF Own, AllThreads

LEMMA TaskOf ==
  ASSUME TypesInv, NEW t \in Own
  PROVE  /\ th \in [Own -> Tasks] /\ th[t] \in Tasks
         /\ Shape(t, th[t]) /\ send \in Sends /\ OtherTypes
<1>1. th \in [Own -> Tasks] BY TypesSplit DEF TypesInv
<1> QED BY <1>1, TypesSplit DEF TypesInv, Shapes

(* A step of one thread leaves the holder of the lock alone.               *)
LEMMA StepTypes ==
  ASSUME TypesInv, OtherTypes', Named', send' = send,
         NEW t \in Own, Becomes(t, th'[t]), Shape(t, th'[t]),
         th[t].pc \notin Waiting, th'[t].pc \notin Waiting
  PROVE  TypesInv'
<1>1. Shapes' BY ShapesKept DEF TypesInv
<1>2. Holds' BY HoldsKept, OwnThreads DEF TypesInv
<1>3. send' \in Sends /\ th' \in [Own -> Tasks]
  BY TaskOf DEF Becomes
<1>4. TypeOK'
  BY <1>3 DEF TypeOK, OtherTypes, ClientTypes, ServiceTypes,
                     ServerTypes, LockTypes, BoundTypes, Own
<1> QED BY <1>1, <1>2, <1>4 DEF TypesInv

(* The end of an operation.                                                *)
LEMMA OverShape ==
  ASSUME NEW t, NEW r \in Tasks, NEW x, Shape(t, r), Over(r, x)
  PROVE  Shape(t, x) /\ x.pc \notin Waiting /\ x.pc \in {"idle", "next", "release"}
<1>1. CASE x = Idle
  BY <1>1, SMTT(30) DEF Shape, Waiting, Idle, NeedsCq, Executes, Stops, Closers, Notices, Bulk
<1>2. CASE x.pc = "next" /\ x.op = r.op /\ r.op \in Bulk \cup {"destroy"}
  BY <1>2, SMTT(30) DEF Shape, Waiting, NeedsCq, Executes, Stops, Closers, Notices, Bulk
<1>3. CASE x.pc = "release" /\ x.op = r.op /\ r.op = "destroyRegion"
  BY <1>3, SMTT(30) DEF Shape, Waiting, NeedsCq, Executes, Stops, Closers, Notices, Bulk
<1> QED BY <1>1, <1>2, <1>3 DEF Over, TaskFacts

LEMMA UnlockShape ==
  ASSUME NEW t, NEW r \in Tasks, NEW x, Shape(t, r), r.op \in Bulk,
         TaskFacts(x, "unlock", r.op, r.cq, r.todo)
  PROVE  Shape(t, x) /\ x.pc \notin Waiting
<1>1. x.pc = "unlock" /\ x.op = r.op BY DEF TaskFacts
<1> QED BY <1>1, SMTT(30) DEF Shape, Waiting, NeedsCq, Executes, Stops, Closers, Notices, Bulk

LEMMA IdleShape ==
  ASSUME NEW t PROVE Shape(t, Idle) /\ Idle.pc \notin Waiting
  BY SMTT(30) DEF Shape, Waiting, Idle, NeedsCq, Executes, Stops, Closers, Notices, Bulk

LEMMA ReturnTypes ==
  ASSUME TypesInv, NEW t \in Own, th[t].pc \notin Waiting, Return(t),
         OtherTypes', Named', send' = send
  PROVE  TypesInv'
<1>1. Becomes(t, th'[t]) /\ Over(th[t], th'[t]) BY TaskOf, Returns
<1>2. Shape(t, th'[t]) /\ th'[t].pc \notin Waiting
  BY <1>1, TaskOf, OverShape
<1> QED BY <1>1, <1>2, StepTypes

LEMMA ThrowTypes ==
  ASSUME TypesInv, NEW t \in Own, th[t].pc \notin Waiting, Throw(t),
         OtherTypes', Named', send' = send
  PROVE  TypesInv'
<1>1. /\ Becomes(t, th'[t])
      /\ \/ Over(th[t], th'[t])
         \/ /\ th[t].op \in Bulk
            /\ TaskFacts(th'[t], "unlock", th[t].op, th[t].cq, th[t].todo)
  BY TaskOf, Throws
<1>2. Shape(t, th'[t]) /\ th'[t].pc \notin Waiting
  BY <1>1, TaskOf, OverShape, UnlockShape
<1> QED BY <1>1, <1>2, StepTypes

LEMMA IdleTypes ==
  ASSUME TypesInv, NEW t \in Own, th[t].pc \notin Waiting,
         th' = [th EXCEPT ![t] = Idle], OtherTypes', Named', send' = send
  PROVE  TypesInv'
<1>1. Becomes(t, Idle) BY TaskOf, IdleTask, Puts DEF TaskFacts
<1>2. th'[t] = Idle BY <1>1 DEF Becomes
<1> QED BY <1>1, <1>2, IdleShape, StepTypes

(* From one place to another, of the same kind of operation.               *)
LEMMA GotoTypes ==
  ASSUME TypesInv, NEW t \in Own, NEW pc \in Pcs, Goto(t, pc),
         th[t].pc \notin Waiting, pc \notin Waiting,
         \A x : TaskFacts(x, pc, th[t].op, th[t].cq, th[t].todo) => Shape(t, x),
         OtherTypes', Named', send' = send
  PROVE  TypesInv' /\ Goes(t, pc)
<1>1. Goes(t, pc) BY TaskOf, GotoGoes
<1>2. Becomes(t, th'[t]) /\ Shape(t, th'[t]) /\ th'[t].pc = pc
  BY <1>1 DEF Goes, TaskFacts
<1> QED BY <1>1, <1>2, StepTypes

LEMMA KeepClient ==
  ASSUME ClientTypes, Named, UNCHANGED client PROVE ClientTypes' /\ Named'
  BY DEF ClientTypes, Named, client

LEMMA KeepMap ==
  ASSUME Named, m_cqQueryMap' = m_cqQueryMap PROVE Named'
  BY DEF Named

LEMMA KeepService ==
  ASSUME ServiceTypes, UNCHANGED service PROVE ServiceTypes'
  BY DEF ServiceTypes, service

LEMMA KeepServers ==
  ASSUME ServerTypes, UNCHANGED servers PROVE ServerTypes'
  BY DEF ServerTypes, servers

LEMMA KeepLocks ==
  ASSUME LockTypes, UNCHANGED locks PROVE LockTypes'
  BY DEF LockTypes, locks

LEMMA KeepBounds ==
  ASSUME BoundTypes, UNCHANGED bounds PROVE BoundTypes'
  BY DEF BoundTypes, bounds

LEMMA KeepOthers ==
  ASSUME OtherTypes, Named, UNCHANGED <<client, service, servers, locks, bounds>>
  PROVE  OtherTypes' /\ Named'
  BY KeepClient, KeepService, KeepServers, KeepLocks, KeepBounds DEF OtherTypes

LEMMA KeepButLocks ==
  ASSUME OtherTypes, Named, LockTypes', UNCHANGED <<client, service, servers, bounds>>
  PROVE  OtherTypes' /\ Named'
  BY KeepClient, KeepService, KeepServers, KeepBounds DEF OtherTypes

LEMMA ExistsTypes ==
  ASSUME TypesInv, NEW t \in Threads, Exists(t) PROVE TypesInv'
<1>0. t \in Own /\ Named BY OwnThreads DEF TypesInv
<1>1. th[t].pc = "exists" /\ th[t].pc \notin Waiting
  BY SMTT(30) DEF Exists, At, Waiting
<1>2. LockTypes'
  BY <1>0, TaskOf, SMTT(30) DEF Exists, LockTypes, OtherTypes
<1>3. OtherTypes' /\ Named' /\ send' = send
  BY <1>0, <1>2, TaskOf, KeepButLocks DEF Exists
<1>4. CASE Goto(t, "add")
  <2>1. ASSUME NEW x, TaskFacts(x, "add", th[t].op, th[t].cq, th[t].todo)
        PROVE  Shape(t, x)
    BY <2>1, <1>0, <1>1, TaskOf, SMTT(30) DEF TaskFacts, Shape, NeedsCq, Pcs, Executes, Stops, Closers, Notices, Bulk
  <2>2. "add" \in Pcs /\ "add" \notin Waiting BY SMTT(30) DEF Pcs, Waiting
  <2> QED BY <1>0, <1>1, <1>3, <1>4, <2>1, <2>2, GotoTypes
<1>5. CASE th' = [th EXCEPT ![t] = Idle]
  BY <1>0, <1>1, <1>3, <1>5, IdleTypes
<1> QED BY <1>4, <1>5 DEF Exists

LEMMA addCqTypes ==
  ASSUME TypesInv, NEW t \in Threads, addCq(t) PROVE TypesInv'
<1>0. t \in Own /\ Named /\ OtherTypes BY OwnThreads, TaskOf DEF TypesInv
<1>1. th[t].pc = "add" /\ th[t].pc \notin Waiting
  BY SMTT(30) DEF addCq, At, Waiting
<1>2. th[t].cq \in Cqs /\ m_cqName[th[t].cq] \in Names
  BY <1>0, <1>1, TaskOf, CqAssumption, SMTT(30) DEF Shape, NeedsCq, Pcs
<1>3. LockTypes' BY <1>0, SMTT(30) DEF addCq, LockTypes, OtherTypes
<1>4. ClientTypes' BY <1>0, <1>2, SMTT(30) DEF addCq, SetState, ClientTypes, OtherTypes, States
<1>5. Named'
  <2> DEFINE n == m_cqName[th[t].cq]
  <2>1. \A k \in Names : m_cqQueryMap'[k] = m_cqQueryMap[k]
                          \/ (k = n /\ m_cqQueryMap'[k] = th[t].cq)
    BY <1>0, <1>2, SMTT(30) DEF addCq, ClientTypes, OtherTypes
  <2> QED BY <1>0, <2>1 DEF Named
<1>6. OtherTypes' /\ send' = send
  BY <1>0, <1>3, <1>4, KeepService, KeepServers, KeepBounds DEF addCq, OtherTypes
<1> QED BY <1>0, <1>1, <1>5, <1>6, IdleTypes DEF addCq

LEMMA AttemptsPositive == attempts \in Nat /\ attempts > 0
  BY CqAssumption, SMTT(30) DEF attempts

SendFacts(s, pc, by, msg, todo) ==
  s \in Sends /\ s.pc = pc /\ s.by = by /\ s.msg = msg /\ s.todo = todo

LEMMA FreeSend ==
  /\ SendFacts(Free, "free", NoThread, "none", <<>>)
  /\ Free.tried = {} /\ Free.had = FALSE /\ Free.left = 0 /\ Free.snap = {}
  BY AttemptsPositive, SMTT(30) DEF SendFacts, Sends, Free

LEMMA HeldSend ==
  ASSUME NEW t \in AllThreads, NEW pc \in {"held", "maintain"}
  PROVE  SendFacts([Free EXCEPT !.pc = pc, !.by = t], pc, t, "none", <<>>)
<1> DEFINE s == [Free EXCEPT !.pc = pc, !.by = t]
<1>1. Free \in Sends BY FreeSend DEF SendFacts
<1>2. s = [Free EXCEPT !.pc = pc, !.by = t] OBVIOUS
<1> HIDE DEF s
<1>3. s = [pc |-> pc, by |-> t, msg |-> "none", todo |-> <<>>, err |-> FALSE,
           left |-> 0, tried |-> {}, had |-> FALSE, snap |-> {}]
  BY <1>1, <1>2 DEF Free
<1>4. SendFacts(s, pc, t, "none", <<>>)
  BY <1>3, AttemptsPositive, SMTT(30) DEF SendFacts, Sends
<1> QED BY <1>4 DEF s

Secondaries == IF m_redundantEndpoints = <<>> THEN <<>>
               ELSE Tail(m_redundantEndpoints)

LEMMA RequestSend ==
  ASSUME NEW t \in AllThreads, NEW msg \in {"execute", "stop", "close"}, NEW s,
         s = Request(t, msg), m_redundantEndpoints \in Seq(Servers)
  PROVE  /\ SendFacts(s, "attempt", t, msg, Secondaries)
         /\ s.left = attempts
<1>1. Free \in Sends BY FreeSend DEF SendFacts
<1>2. Secondaries \in Seq(Servers) BY SMTT(30) DEF Secondaries
<1>3. s = [Free EXCEPT !.by = t, !.msg = msg, !.pc = "attempt",
                       !.left = attempts, !.todo = Secondaries]
  BY DEF Request, Secondaries
<1> HIDE DEF Secondaries
<1>4. s = [pc |-> "attempt", by |-> t, msg |-> msg, todo |-> Secondaries,
           err |-> FALSE, left |-> attempts, tried |-> {}, had |-> FALSE,
           snap |-> {}]
  BY <1>1, <1>3 DEF Free
<1> QED BY <1>2, <1>4, AttemptsPositive, SMTT(30) DEF SendFacts, Sends

(* Only a thread that holds the lock waits for it.                         *)
LEMMA OnlyHolder ==
  ASSUME Holds, NEW t \in Own, Becomes(t, th'[t]),
         send.pc = "free" \/ send.by = t
  PROVE  \A u \in Own : u # t => th'[u].pc \notin Waiting
<1>1. NoThread \notin Own BY OwnThreads
<1>2. \A u \in Own : u # t => th[u].pc \notin Waiting
  BY <1>1 DEF Holds
<1> QED BY <1>2 DEF Becomes

LEMMA HoldsFree ==
  ASSUME Holds, NEW t \in Own, Becomes(t, th'[t]),
         send.pc = "free" \/ send.by = t, th'[t].pc \notin Waiting,
         send' = Free
  PROVE  Holds'
<1>1. \A u \in Own : th'[u].pc \notin Waiting BY OnlyHolder
<1>2. send'.pc = "free" /\ send'.by = NoThread BY FreeSend DEF SendFacts
<1> QED BY <1>1, <1>2, SMTT(30) DEF Holds

LEMMA HoldsTake ==
  ASSUME Holds, NEW t \in Threads, Becomes(t, th'[t]),
         send.pc = "free" \/ send.by = t, th'[t].pc \in {"execute", "ran"},
         send'.pc = "held", send'.by = t
  PROVE  Holds'
<1>0. t \in Own BY OwnThreads
<1>1. \A u \in Own : th'[u].pc \in Waiting => send'.by = u
  BY <1>0, OnlyHolder
<1> QED BY <1>1, SMTT(30) DEF Holds

LEMMA HoldsRequest ==
  ASSUME Holds, NEW t \in Threads, Becomes(t, th'[t]),
         send.pc = "free" \/ send.by = t, th'[t].pc = "sent",
         NEW msg \in {"execute", "stop", "close"},
         msg = "execute" => th'[t].op \in Executes,
         msg = "stop" => th'[t].op \in Stops,
         msg = "close" => th'[t].op \in Closers,
         send' = Request(t, msg), m_redundantEndpoints \in Seq(Servers)
  PROVE  Holds' /\ send' \in Sends
<1>0. t \in Own /\ t \in AllThreads BY OwnThreads
<1>1. SendFacts(send', "attempt", t, msg, Secondaries)
  BY <1>0, RequestSend
<1>2. /\ send' \in Sends /\ send'.pc = "attempt" /\ send'.by = t
      /\ send'.msg = msg
  BY <1>1 DEF SendFacts
<1>3. \A u \in Own : th'[u].pc \in Waiting => send'.by = u
  BY <1>0, <1>2, OnlyHolder
<1>4. Serves' BY <1>2, SMTT(30) DEF Serves
<1> QED BY <1>2, <1>3, <1>4, SMTT(30) DEF Holds

LEMMA SendTypes ==
  ASSUME TypesInv, OtherTypes', Named', send' \in Sends, Holds',
         NEW t \in Own, Becomes(t, th'[t]), Shape(t, th'[t])
  PROVE  TypesInv'
<1>1. Shapes' BY ShapesKept DEF TypesInv
<1>3. th' \in [Own -> Tasks] BY DEF Becomes
<1>4. TypeOK'
  BY <1>3 DEF TypeOK, OtherTypes, ClientTypes, ServiceTypes,
                     ServerTypes, LockTypes, BoundTypes, Own
<1> QED BY <1>1, <1>4 DEF TypesInv

LEMMA LockRedundancyTypes ==
  ASSUME TypesInv, NEW t \in Threads, LockRedundancy(t) PROVE TypesInv'
<1>0. t \in Own /\ t \in AllThreads /\ Named /\ OtherTypes /\ Holds
  BY OwnThreads, TaskOf DEF TypesInv
<1>1. th[t].pc = "lock" /\ "execute" \in Pcs BY SMTT(30) DEF LockRedundancy, At, Pcs
<1>2. OtherTypes' /\ Named' BY <1>0, KeepOthers DEF LockRedundancy
<1>3. Goes(t, "execute") BY <1>0, <1>1, TaskOf, GotoGoes DEF LockRedundancy
<1>4. /\ Becomes(t, th'[t]) /\ th'[t].pc = "execute" /\ th'[t].op = th[t].op
      /\ th'[t].cq = th[t].cq
  BY <1>3 DEF Goes, TaskFacts
<1>5. Shape(t, th'[t])
  BY <1>0, <1>1, <1>4, TaskOf, SMTT(30) DEF Shape, NeedsCq, Pcs, Executes, Stops, Closers, Notices, Bulk
<1>6. SendFacts(send', "held", t, "none", <<>>)
  BY <1>0, HeldSend DEF LockRedundancy
<1>7. send' \in Sends /\ send'.pc = "held" /\ send'.by = t
  BY <1>6 DEF SendFacts
<1>8. send.pc = "free" BY SMTT(30) DEF LockRedundancy
<1>9. Holds' BY <1>0, <1>4, <1>7, <1>8, HoldsTake
<1> QED BY <1>0, <1>2, <1>4, <1>5, <1>7, <1>9, SendTypes

(* A thread that waits holds the lock.                                     *)
LEMMA WaitingHolds ==
  ASSUME TypesInv, NEW t \in Own, th[t].pc \in Waiting
  PROVE  /\ send.by = t /\ t \in Threads
         /\ th[t].pc = "sent" => Serves /\ send.pc \notin {"free", "held"}
         /\ th[t].pc # "sent" => send.pc = "held"
<1>1. send.by = t BY DEF TypesInv, Holds
<1>2. t # NoThread /\ t # Redundancy BY OwnThreads
<1>3. send.pc # "free" BY <1>1, <1>2 DEF TypesInv, Holds
<1>4. CASE send.pc = "held"
  <2>1. send.by \in Threads /\ th[t].pc \in {"execute", "ran"}
    BY <1>1, <1>4 DEF TypesInv, Holds
  <2> QED BY <1>1, <1>4, <2>1, SMTT(30)
<1>5. CASE send.pc # "held"
  <2>1. Serves BY <1>1, <1>2, <1>3, <1>5, SMTT(30) DEF TypesInv, Holds
  <2>2. send.by \in Threads /\ th[t].pc = "sent" BY <1>1, <2>1 DEF Serves
  <2> QED BY <1>1, <1>3, <1>5, <2>1, <2>2, SMTT(30)
<1> QED BY <1>4, <1>5

LEMMA executeTypes ==
  ASSUME TypesInv, NEW t \in Threads, execute(t) PROVE TypesInv'
<1>0. /\ t \in Own /\ t \in AllThreads /\ Named /\ OtherTypes /\ Holds
      /\ th[t] \in Tasks /\ th \in [Own -> Tasks] /\ Shape(t, th[t])
      /\ send \in Sends
  BY OwnThreads, TaskOf DEF TypesInv
<1>1. th[t].pc = "execute" /\ th[t].pc \in Waiting BY SMTT(30) DEF execute, At, Waiting
<1>2. send.by = t /\ send.pc = "held" BY <1>0, <1>1, WaitingHolds, SMTT(30)
<1>3. th[t].cq \in Cqs /\ th[t].op \in Executes
  BY <1>0, <1>1, SMTT(30) DEF Shape, NeedsCq, Pcs
<1>4. LockTypes'
  BY <1>0, <1>3, SMTT(30) DEF execute, LockTypes, OtherTypes
<1>5. ClientTypes' BY <1>0, SMTT(30) DEF execute, ClientTypes, OtherTypes
<1>6. OtherTypes' /\ Named'
  BY <1>0, <1>4, <1>5, KeepMap, KeepService, KeepServers, KeepBounds
     DEF execute, OtherTypes
<1>7. CASE send' = Free /\ Throw(t)
  <2>1. /\ Becomes(t, th'[t])
        /\ \/ Over(th[t], th'[t])
           \/ /\ th[t].op \in Bulk
              /\ TaskFacts(th'[t], "unlock", th[t].op, th[t].cq, th[t].todo)
    BY <1>0, <1>7, Throws
  <2>2. Shape(t, th'[t]) /\ th'[t].pc \notin Waiting
    BY <1>0, <2>1, OverShape, UnlockShape
  <2>3. Holds' BY <1>0, <1>2, <1>7, <2>1, <2>2, HoldsFree
  <2>4. send' \in Sends BY <1>7, FreeSend DEF SendFacts
  <2> QED BY <1>0, <1>6, <2>1, <2>2, <2>3, <2>4, SendTypes
<1>8. CASE Goto(t, "ran") /\ UNCHANGED send
  <2>0. "ran" \in Pcs BY SMTT(30) DEF Pcs
  <2>1. Goes(t, "ran") BY <1>0, <1>8, <2>0, GotoGoes
  <2>2. /\ Becomes(t, th'[t]) /\ th'[t].pc = "ran" /\ th'[t].op = th[t].op
        /\ th'[t].cq = th[t].cq
    BY <2>1 DEF Goes, TaskFacts
  <2>3. Shape(t, th'[t])
    BY <1>0, <1>1, <2>2, SMTT(30) DEF Shape, NeedsCq, Pcs, Executes, Stops, Closers, Notices, Bulk
  <2>4. Holds' BY <1>0, <1>2, <1>8, <2>2, HoldsTake
  <2> QED BY <1>0, <1>6, <1>8, <2>2, <2>3, <2>4, SendTypes
<1>9. CASE Goto(t, "sent") /\ send' = Request(t, "execute")
  <2>0. "sent" \in Pcs BY SMTT(30) DEF Pcs
  <2>1. Goes(t, "sent") BY <1>0, <1>9, <2>0, GotoGoes
  <2>2. /\ Becomes(t, th'[t]) /\ th'[t].pc = "sent" /\ th'[t].op = th[t].op
        /\ th'[t].cq = th[t].cq
    BY <2>1 DEF Goes, TaskFacts
  <2>3. Shape(t, th'[t])
    BY <1>0, <1>1, <2>2, SMTT(30) DEF Shape, NeedsCq, Pcs, Executes, Stops, Closers, Notices, Bulk
  <2>4. m_redundantEndpoints \in Seq(Servers)
    BY <1>0 DEF OtherTypes, ServerTypes
  <2>5. Holds' /\ send' \in Sends
    BY <1>0, <1>2, <1>3, <1>9, <2>2, <2>4, HoldsRequest, SMTT(30)
  <2> QED BY <1>0, <1>6, <2>2, <2>3, <2>5, SendTypes
<1> QED BY <1>7, <1>8, <1>9 DEF execute

LEMMA Basics ==
  ASSUME TypesInv, NEW t \in Own
  PROVE  /\ t \in AllThreads /\ Named /\ OtherTypes /\ Holds
         /\ th[t] \in Tasks /\ th \in [Own -> Tasks] /\ Shape(t, th[t])
         /\ send \in Sends /\ m_redundantEndpoints \in Seq(Servers)
  BY OwnThreads, TaskOf DEF TypesInv, OtherTypes, ServerTypes

LEMMA executeCqTypes ==
  ASSUME TypesInv, NEW t \in Threads, executeCq(t) PROVE TypesInv'
<1>a. t \in Own BY OwnThreads
<1>0. /\ t \in AllThreads /\ Named /\ OtherTypes /\ Holds
      /\ th[t] \in Tasks /\ th \in [Own -> Tasks] /\ Shape(t, th[t])
  BY <1>a, Basics
<1>1. th[t].pc = "ran" /\ th[t].pc \in Waiting BY SMTT(30) DEF executeCq, At, Waiting
<1>2. send.by = t /\ send.pc = "held" BY <1>a, <1>1, WaitingHolds, SMTT(30)
<1>3. th[t].cq \in Cqs BY <1>0, <1>1, SMTT(30) DEF Shape, NeedsCq, Pcs
<1>4. LockTypes' BY <1>0, <1>3, SMTT(30) DEF executeCq, LockTypes, OtherTypes
<1>5. ClientTypes'
  BY <1>0, <1>3, SMTT(30) DEF executeCq, SetState, States, ClientTypes, OtherTypes
<1>6. OtherTypes' /\ Named'
  BY <1>0, <1>4, <1>5, KeepMap, KeepService, KeepServers, KeepBounds
     DEF executeCq, OtherTypes
<1>7. Becomes(t, th'[t]) /\ Over(th[t], th'[t])
  BY <1>a, <1>0, Returns DEF executeCq
<1>8. Shape(t, th'[t]) /\ th'[t].pc \notin Waiting
  BY <1>0, <1>7, OverShape
<1>9. send' = Free BY DEF executeCq
<1>10. Holds' BY <1>a, <1>0, <1>2, <1>7, <1>8, <1>9, HoldsFree
<1>11. send' \in Sends BY <1>9, FreeSend DEF SendFacts
<1> QED BY <1>a, <1>6, <1>7, <1>8, <1>10, <1>11, SendTypes

(* The places within one operation on a CQ.                                *)
LEMMA PlaceShape ==
  ASSUME NEW t, NEW r \in Tasks, NEW pc \in Pcs, Shape(t, r),
         r.pc \in NeedsCq,
         pc \in {"stop", "stopSend", "stopCheck", "stopSet"} => r.op \in Stops,
         pc \in {"close", "closingSet", "closedCheck", "closedSet", "remove"}
           => r.op \in Closers \cup {"destroyRegion"},
         pc = "closeSend" => r.op \in Closers,
         pc = "sent" => r.op \in Stops \cup Closers,
         pc = "release" => r.op \in Notices,
         pc = "listener" => r.op = "event",
         pc \in {"stop", "stopSend", "stopCheck", "stopSet",
                 "close", "closingSet", "closedCheck", "closedSet", "remove",
                 "closeSend", "sent", "release", "listener"}
  PROVE  \A x : TaskFacts(x, pc, r.op, r.cq, r.todo) => Shape(t, x)
<1> SUFFICES ASSUME NEW x, x.pc = pc, x.op = r.op, x.cq = r.cq
             PROVE  Shape(t, x)
  BY DEF TaskFacts
<1>1. r.cq \in Cqs BY DEF Shape
<1>2. /\ t = Receiver => r.op \in Notices \cup {"none"}
      /\ t # Receiver => r.op \notin Notices
  BY DEF Shape
<1> QED BY <1>1, <1>2, SMTT(30) DEF Shape, NeedsCq, Pcs, Executes, Stops, Closers, Notices, Bulk

LEMMA stopTypes ==
  ASSUME TypesInv, NEW t \in Threads, stop(t) PROVE TypesInv'
<1>a. t \in Own BY OwnThreads
<1>0. Named /\ OtherTypes /\ th[t] \in Tasks /\ Shape(t, th[t])
  BY <1>a, Basics
<1>1. th[t].pc = "stop" /\ th[t].pc \notin Waiting /\ th[t].pc \in NeedsCq
  BY SMTT(30) DEF stop, At, Waiting, NeedsCq, Pcs
<1>2. OtherTypes' /\ Named' /\ send' = send BY <1>0, KeepOthers DEF stop
<1>3. CASE Goto(t, "stopSend")
  <2>1. "stopSend" \in Pcs /\ "stopSend" \notin Waiting BY SMTT(30) DEF Pcs, Waiting
  <2>2. th[t].op \in Stops BY <1>0, <1>1, SMTT(30) DEF Shape
  <2>3. \A x : TaskFacts(x, "stopSend", th[t].op, th[t].cq, th[t].todo) => Shape(t, x)
    BY <1>0, <1>1, <2>1, <2>2, PlaceShape, SMTT(30)
  <2> QED BY <1>a, <1>1, <1>2, <1>3, <2>1, <2>3, GotoTypes
<1>4. CASE Return(t) BY <1>a, <1>1, <1>2, <1>4, ReturnTypes
<1>5. CASE Throw(t) BY <1>a, <1>1, <1>2, <1>5, ThrowTypes
<1> QED BY <1>3, <1>4, <1>5 DEF stop

LEMMA sendTypes ==
  ASSUME TypesInv, NEW t \in Own, NEW pc, NEW msg, NEW next,
         \/ pc = "stopSend" /\ msg = "stop" /\ next = "stopCheck"
         \/ pc = "closeSend" /\ msg = "close" /\ next = "closedCheck",
         sendStopOrClose(t, pc, msg, next)
  PROVE  TypesInv'
<1>0. /\ t \in AllThreads /\ Named /\ OtherTypes /\ Holds
      /\ th[t] \in Tasks /\ th \in [Own -> Tasks] /\ Shape(t, th[t])
      /\ m_redundantEndpoints \in Seq(Servers)
  BY Basics
<1>1. th[t].pc = pc /\ th[t].pc \notin Waiting /\ th[t].pc \in NeedsCq
  BY SMTT(30) DEF sendStopOrClose, At, Waiting, NeedsCq, Pcs
<1>2. OtherTypes' /\ Named' BY <1>0, KeepOthers DEF sendStopOrClose
<1>3. /\ msg = "stop" => th[t].op \in Stops
      /\ msg = "close" => th[t].op \in Closers
      /\ t # Receiver
  BY <1>0, <1>1, SMTT(30) DEF Shape, Stops, Closers, Notices
<1>4. CASE Goto(t, next) /\ UNCHANGED send
  <2>1. next \in Pcs /\ next \notin Waiting BY SMTT(30) DEF Pcs, Waiting
  <2>2. \A x : TaskFacts(x, next, th[t].op, th[t].cq, th[t].todo) => Shape(t, x)
    BY <1>0, <1>1, <1>3, <2>1, PlaceShape, SMTT(30)
  <2> QED BY <1>1, <1>2, <1>4, <2>1, <2>2, GotoTypes
<1>5. CASE send.pc = "free" /\ send' = Request(t, msg) /\ Goto(t, "sent")
  <2>1. "sent" \in Pcs BY SMTT(30) DEF Pcs
  <2>2. Goes(t, "sent") BY <1>0, <1>5, <2>1, GotoGoes
  <2>3. /\ Becomes(t, th'[t]) /\ th'[t].pc = "sent" /\ th'[t].op = th[t].op
        /\ TaskFacts(th'[t], "sent", th[t].op, th[t].cq, th[t].todo)
    BY <2>2 DEF Goes, TaskFacts
  <2>4. Shape(t, th'[t])
    <3>1. \A x : TaskFacts(x, "sent", th[t].op, th[t].cq, th[t].todo) => Shape(t, x)
      BY <1>0, <1>1, <1>3, <2>1, PlaceShape, SMTT(30)
    <3> QED BY <2>3, <3>1
  <2>5. t \in Threads /\ msg \in {"execute", "stop", "close"} BY <1>3, SMTT(30) DEF Own
  <2>6. Holds' /\ send' \in Sends
    BY <1>0, <1>3, <1>5, <2>3, <2>5, HoldsRequest, SMTT(30)
  <2> QED BY <1>2, <2>3, <2>4, <2>6, SendTypes
<1> QED BY <1>4, <1>5 DEF sendStopOrClose

LEMMA setCqStateCheckTypes ==
  ASSUME TypesInv, NEW t \in Own, NEW pc, NEW next,
         \/ pc = "stopCheck" /\ next = "stopSet"
         \/ pc = "close" /\ next = "closingSet"
         \/ pc = "closedCheck" /\ next = "closedSet",
         setCqStateCheck(t, pc, next)
  PROVE  TypesInv'
<1>0. Named /\ OtherTypes /\ th[t] \in Tasks /\ Shape(t, th[t])
  BY Basics
<1>1. th[t].pc = pc /\ th[t].pc \notin Waiting /\ th[t].pc \in NeedsCq
  BY SMTT(30) DEF setCqStateCheck, At, Waiting, NeedsCq, Pcs
<1>2. OtherTypes' /\ Named' /\ send' = send
  BY <1>0, KeepOthers DEF setCqStateCheck
<1>3. CASE Goto(t, next)
  <2>1. next \in Pcs /\ next \notin Waiting BY SMTT(30) DEF Pcs, Waiting
  <2>2. /\ next = "stopSet" => th[t].op \in Stops
        /\ next # "stopSet" => th[t].op \in Closers \cup {"destroyRegion"}
    BY <1>0, <1>1, SMTT(30) DEF Shape
  <2>3. \A x : TaskFacts(x, next, th[t].op, th[t].cq, th[t].todo) => Shape(t, x)
    BY <1>0, <1>1, <2>1, <2>2, PlaceShape, SMTT(30)
  <2> QED BY <1>1, <1>2, <1>3, <2>1, <2>3, GotoTypes
<1>4. CASE Return(t) BY <1>1, <1>2, <1>4, ReturnTypes
<1> QED BY <1>3, <1>4 DEF setCqStateCheck

LEMMA setCqStateTypes ==
  ASSUME TypesInv, NEW t \in Own, NEW pc, NEW state \in States,
         pc \in {"stopSet", "closingSet", "closedSet"},
         setCqState(t, pc, state),
         \/ Return(t)
         \/ /\ pc = "closingSet"
            /\ Goto(t, IF SendsClose(t) THEN "closeSend" ELSE "closedCheck")
         \/ pc = "closedSet" /\ Goto(t, "remove")
  PROVE  TypesInv'
<1>0. Named /\ OtherTypes /\ th[t] \in Tasks /\ Shape(t, th[t])
  BY Basics
<1>1. th[t].pc = pc /\ th[t].pc \notin Waiting /\ th[t].pc \in NeedsCq
  BY DEF setCqState, At, Waiting, NeedsCq, Pcs
<1>a. th[t].cq \in Cqs BY <1>0, <1>1 DEF Shape
<1>b. ClientTypes' BY <1>0, <1>a DEF setCqState, SetState, ClientTypes, OtherTypes
<1>2. OtherTypes' /\ Named' /\ send' = send
  BY <1>0, <1>b, KeepMap, KeepService, KeepServers, KeepLocks, KeepBounds
     DEF setCqState, OtherTypes
<1>3. CASE \E next \in {"closeSend", "closedCheck", "remove"} :
             /\ pc # "stopSet" /\ Goto(t, next)
             /\ next = "closeSend" => SendsClose(t)
  <2>0. PICK next \in {"closeSend", "closedCheck", "remove"} :
             /\ pc # "stopSet" /\ Goto(t, next)
             /\ next = "closeSend" => SendsClose(t)
    BY <1>3
  <2>1. next \in Pcs /\ next \notin Waiting BY SMTT(30) DEF Pcs, Waiting
  <2>2. /\ next = "closeSend" => th[t].op \in Closers
        /\ th[t].op \in Closers \cup {"destroyRegion"}
    BY <1>0, <1>1, <2>0, SMTT(30) DEF Shape, SendsClose
  <2>3. \A x : TaskFacts(x, next, th[t].op, th[t].cq, th[t].todo) => Shape(t, x)
    BY <1>0, <1>1, <2>1, <2>2, PlaceShape
  <2> QED BY <1>1, <1>2, <2>0, <2>1, <2>3, GotoTypes
<1>4. CASE Return(t) BY <1>1, <1>2, <1>4, ReturnTypes
<1> QED BY <1>3, <1>4, SMTT(30)

LEMMA removeCqTypes ==
  ASSUME TypesInv, NEW t \in Own, removeCq(t) PROVE TypesInv'
<1>0. Named /\ OtherTypes /\ th[t] \in Tasks /\ Shape(t, th[t])
  BY Basics
<1>1. th[t].pc \notin Waiting BY SMTT(30) DEF removeCq, At, Waiting
<1>2. \A k \in Names : m_cqQueryMap'[k] \in {m_cqQueryMap[k], NoCq}
  BY <1>0, SMTT(30) DEF removeCq, ClientTypes, OtherTypes
<1>3. ClientTypes' BY <1>0 DEF removeCq, ClientTypes, OtherTypes
<1>4. Named' BY <1>0, <1>2 DEF Named
<1>5. OtherTypes' /\ send' = send
  BY <1>0, <1>3, KeepService, KeepServers, KeepLocks, KeepBounds
     DEF removeCq, OtherTypes
<1> QED BY <1>1, <1>4, <1>5, ReturnTypes DEF removeCq

-----------------------------------------------------------------------------
(* The steps of a request and of maintainRedundancyLevel.                  *)

LEMMA SendFields ==
  ASSUME send \in Sends
  PROVE  /\ send.pc \in {"free", "held", "attempt", "maintain", "join",
                         "executeAllCqs", "recover", "primary"}
         /\ send.by \in AllThreads \cup {NoThread}
         /\ send.msg \in {"none", "execute", "stop", "close"}
         /\ send.todo \in Seq(Servers) /\ send.err \in BOOLEAN
         /\ send.left \in 0..attempts /\ send.tried \in SUBSET Servers
         /\ send.had \in BOOLEAN /\ send.snap \in SUBSET Cqs
  BY DEF Sends

(* The request stays the same: where it is, and what is left of it.        *)
Moved(pc, todo) ==
  /\ send' \in Sends /\ send'.pc = pc /\ send'.todo = todo
  /\ send'.by = send.by /\ send'.msg = send.msg

LEMMA MovedTypes ==
  ASSUME TypesInv, UNCHANGED th, OtherTypes', Named', NEW pc, NEW todo,
         Moved(pc, todo), send.pc \notin {"free", "held"},
         pc \notin {"free", "held"},
         \/ send.by = Redundancy
            /\ pc \in {"maintain", "join", "executeAllCqs", "recover"}
         \/ send.by # Redundancy /\ (pc # "attempt" => send'.left > 0)
  PROVE  TypesInv'
<1>1. /\ send' \in Sends /\ send'.pc = pc /\ send'.by = send.by
      /\ send'.msg = send.msg
  BY DEF Moved
<1>2. Shapes' BY DEF TypesInv, Shapes
<1>3. \A t \in Own : th'[t].pc \in Waiting => send'.by = t
  BY <1>1 DEF TypesInv, Holds
<1>6. Holds'
  <2>1. CASE send.by = Redundancy
    <3>1. Redundancy \notin Threads BY OwnThreads
    <3>2. send.msg = "none" BY <2>1, <3>1 DEF TypesInv, Holds, Serves
    <3> QED BY <1>1, <1>3, <2>1, <3>2, SMTT(30) DEF Holds
  <2>2. CASE send.by # Redundancy
    <3>1. Serves BY <2>2 DEF TypesInv, Holds
    <3>2. Serves' BY <1>1, <2>2, <3>1, SMTT(30) DEF Serves
    <3> QED BY <1>1, <1>3, <3>2, SMTT(30) DEF Holds
  <2> QED BY <2>1, <2>2
<1>7. th' \in [Own -> Tasks] BY TypesSplit DEF TypesInv
<1>8. TypeOK'
  BY <1>1, <1>7 DEF TypeOK, OtherTypes, ClientTypes, ServiceTypes,
                     ServerTypes, LockTypes, BoundTypes, Own
<1> QED BY <1>2, <1>6, <1>8 DEF TypesInv

LEMMA SendBasics ==
  ASSUME TypesInv
  PROVE  /\ Named /\ OtherTypes /\ Holds /\ send \in Sends
         /\ th \in [Own -> Tasks] /\ m_redundantEndpoints \in Seq(Servers)
  BY TypesSplit DEF TypesInv, OtherTypes, ServerTypes

LEMMA RequestOf ==
  ASSUME TypesInv, send.pc \in {"attempt", "primary"} \/ send.msg # "none",
         send.pc \notin {"free", "held"}
  PROVE  /\ Serves /\ send.by # Redundancy /\ send.by \in Own
         /\ th[send.by].cq \in Cqs /\ Name \in Names
<1>1. Serves BY SMTT(30) DEF TypesInv, Holds
<1>2. send.by \in Threads /\ th[send.by].pc = "sent" BY <1>1 DEF Serves
<1>3. send.by \in Own /\ send.by # Redundancy BY <1>2, OwnThreads
<1>4. Shape(send.by, th[send.by]) BY <1>3 DEF TypesInv, Shapes
<1>5. th[send.by].cq \in Cqs BY <1>2, <1>4, SMTT(30) DEF Shape, NeedsCq, Pcs
<1>6. Name \in Names BY <1>5, CqAssumption, SMTT(30) DEF Name
<1> QED BY <1>1, <1>3, <1>5, <1>6, SMTT(30)

LEMMA HandleTypes ==
  ASSUME NEW e \in Servers, Handle(e), cqs \in [Servers -> SUBSET Names],
         Name \in Names
  PROVE  cqs' \in [Servers -> SUBSET Names]
  BY SMTT(30) DEF Handle

LEMMA ToSecondaryTypes ==
  ASSUME TypesInv, ToSecondary PROVE TypesInv'
<1>0. Named /\ OtherTypes /\ send \in Sends BY SendBasics
<1>1. send.pc = "attempt" /\ send.todo # <<>> BY SMTT(30) DEF ToSecondary
<1>2. send.by # Redundancy /\ Name \in Names BY <1>1, RequestOf, SMTT(30)
<1>3. send.todo \in Seq(Servers) BY <1>0, SendFields
<1>4. Head(send.todo) \in Servers /\ Tail(send.todo) \in Seq(Servers) BY <1>1, <1>3, SMTT(30)
<1>5. Moved("attempt", Tail(send.todo))
  <2> DEFINE e == Head(send.todo)
             b == send.err \/ e \notin up
  <2>1. send' = [send EXCEPT !.todo = Tail(@), !.err = @ \/ e \notin up]
    BY DEF ToSecondary
  <2>2. b \in BOOLEAN BY <1>0 DEF Sends
  <2>3. send' = [send EXCEPT !.todo = Tail(send.todo), !.err = b]
    BY <1>0, <2>1 DEF Sends
  <2> HIDE DEF b
  <2> QED BY <1>0, <1>1, <1>4, <2>2, <2>3 DEF Sends, Moved
<1>6. ServerTypes'
  <2>1. cqs' \in [Servers -> SUBSET Names]
    BY <1>0, <1>2, <1>4, HandleTypes DEF ToSecondary, OtherTypes, ServerTypes
  <2> QED BY <1>0, <2>1 DEF ToSecondary, OtherTypes, ServerTypes
<1>7. OtherTypes' /\ Named'
  BY <1>0, <1>6, KeepClient, KeepService, KeepLocks, KeepBounds
     DEF ToSecondary, OtherTypes
<1>8. UNCHANGED th BY DEF ToSecondary
<1> QED BY <1>1, <1>2, <1>5, <1>7, <1>8, MovedTypes, SMTT(30)

MutexType == m_mutex \in [Cqs -> AllThreads \cup {NoThread}]

LEMMA FailStep ==
  ASSUME TypesInv, Serves, send.pc \notin {"free", "held"}, Fail,
         send.by \in Own, th[send.by].cq \in Cqs
  PROVE  /\ Becomes(send.by, th'[send.by]) /\ Shape(send.by, th'[send.by])
         /\ th'[send.by].pc \notin Waiting
         /\ send' \in Sends /\ Holds' /\ MutexType'
         /\ \/ /\ send.msg = "close" /\ Goes(send.by, "closedCheck")
            \/ /\ send.msg # "close"
               /\ \/ Over(th[send.by], th'[send.by])
                  \/ TaskFacts(th'[send.by], "unlock", th[send.by].op,
                               th[send.by].cq, th[send.by].todo)
<1> DEFINE t == send.by
<1>1. t \in Own OBVIOUS
<1>2. /\ th[t] \in Tasks /\ th \in [Own -> Tasks] /\ Shape(t, th[t])
      /\ OtherTypes /\ Holds
  BY <1>1, Basics
<1>3. th[t].pc = "sent" /\ (send.msg = "close" => th[t].op \in Closers)
  BY DEF Serves
<1>4. /\ Becomes(t, th'[t]) /\ Shape(t, th'[t]) /\ th'[t].pc \notin Waiting
      /\ \/ /\ send.msg = "close" /\ Goes(t, "closedCheck")
         \/ /\ send.msg # "close"
            /\ \/ Over(th[t], th'[t])
               \/ TaskFacts(th'[t], "unlock", th[t].op, th[t].cq, th[t].todo)
  <2>1. CASE send.msg = "close"
    <3>1. "closedCheck" \in Pcs /\ "closedCheck" \notin Waiting /\ "sent" \in NeedsCq
      BY SMTT(30) DEF Pcs, Waiting, NeedsCq
    <3>2. Goes(t, "closedCheck") BY <1>1, <1>2, <2>1, <3>1, GotoGoes DEF Fail
    <3>3. \A x : TaskFacts(x, "closedCheck", th[t].op, th[t].cq, th[t].todo)
                   => Shape(t, x)
      BY <1>2, <1>3, <2>1, <3>1, PlaceShape, SMTT(30)
    <3>4. Shape(t, th'[t]) /\ th'[t].pc \notin Waiting /\ Becomes(t, th'[t])
      BY <3>1, <3>2, <3>3 DEF Goes, TaskFacts
    <3> QED BY <2>1, <3>2, <3>4
  <2>2. CASE send.msg # "close"
    <3>1. Throw(t) BY <2>2 DEF Fail
    <3>2. /\ Becomes(t, th'[t])
          /\ \/ Over(th[t], th'[t])
             \/ /\ th[t].op \in Bulk
                /\ TaskFacts(th'[t], "unlock", th[t].op, th[t].cq, th[t].todo)
      BY <1>1, <1>2, <3>1, Throws
    <3>3. Shape(t, th'[t]) /\ th'[t].pc \notin Waiting
      <4> HIDE DEF t
      <4>1. CASE Over(th[t], th'[t]) BY <1>2, <4>1, OverShape
      <4>2. CASE /\ th[t].op \in Bulk
                 /\ TaskFacts(th'[t], "unlock", th[t].op, th[t].cq, th[t].todo)
        BY <1>2, <4>2, UnlockShape
      <4> QED BY <3>2, <4>1, <4>2
    <3> QED BY <2>2, <3>2, <3>3
  <2> QED BY <2>1, <2>2
<1>5. send' = Free BY DEF Fail
<1>6. Holds' BY <1>1, <1>2, <1>4, <1>5, HoldsFree
<1>7. send' \in Sends BY <1>5, FreeSend DEF SendFacts
<1>8. MutexType' BY <1>2, SMTT(30) DEF Fail, MutexType, OtherTypes, LockTypes
<1> QED BY <1>4, <1>6, <1>7, <1>8

Place == CASE send.msg = "execute" -> "ran"
           [] send.msg = "stop" -> "stopCheck"
           [] send.msg = "close" -> "closedCheck"

LEMMA SucceedStep ==
  ASSUME TypesInv, Serves, send.pc \notin {"free", "held"}, Succeed,
         send.by \in Own
  PROVE  /\ Goes(send.by, Place) /\ Shape(send.by, th'[send.by])
         /\ send' \in Sends /\ Holds'
         /\ send.msg = "execute" => send'.pc = "held" /\ send'.by = send.by
         /\ send.msg # "execute" => send' = Free
<1> DEFINE t == send.by
<1>1. t \in Own /\ t \in Threads BY DEF Serves
<1>2. /\ th[t] \in Tasks /\ th \in [Own -> Tasks] /\ Shape(t, th[t])
      /\ OtherTypes /\ Holds /\ t \in AllThreads /\ send \in Sends
  BY <1>1, Basics
<1>3. /\ th[t].pc = "sent" /\ (send.msg = "close" => th[t].op \in Closers)
      /\ (send.msg = "execute" => th[t].op \in Executes)
      /\ (send.msg = "stop" => th[t].op \in Stops) /\ send.msg # "none"
  BY DEF Serves
<1>4. /\ send.msg = "execute" => Place = "ran"
      /\ send.msg = "stop" => Place = "stopCheck"
      /\ send.msg = "close" => Place = "closedCheck"
      /\ send.msg \in {"execute", "stop", "close"}
  BY <1>2, <1>3, SendFields, SMTT(30) DEF Place
<1>5. Place \in Pcs BY <1>4, SMTT(30) DEF Pcs
<1>6. Goto(t, Place) BY DEF Succeed, Place
<1>7. Goes(t, Place) BY <1>1, <1>2, <1>5, <1>6, GotoGoes
<1>8. /\ Becomes(t, th'[t]) /\ th'[t].pc = Place /\ th'[t].op = th[t].op
      /\ th'[t].cq = th[t].cq
  BY <1>7 DEF Goes, TaskFacts
<1>9. Shape(t, th'[t])
  BY <1>2, <1>3, <1>4, <1>8, SMTT(30)
     DEF Shape, NeedsCq, Pcs, Executes, Stops, Closers, Notices, Bulk
<1>10. /\ send' \in Sends /\ Holds'
       /\ send.msg = "execute" => send'.pc = "held" /\ send'.by = send.by
       /\ send.msg # "execute" => send' = Free
  <2>1. CASE send.msg = "execute"
    <3>1. SendFacts(send', "held", t, "none", <<>>)
      BY <1>2, <2>1, HeldSend DEF Succeed
    <3>2. send' \in Sends /\ send'.pc = "held" /\ send'.by = t
      BY <3>1 DEF SendFacts
    <3>3. th'[t].pc \in {"execute", "ran"} BY <1>4, <1>8, <2>1, SMTT(30)
    <3>4. Holds' BY <1>1, <1>2, <1>8, <3>2, <3>3, HoldsTake
    <3> QED BY <2>1, <3>2, <3>4
  <2>2. CASE send.msg # "execute"
    <3>1. send' = Free BY <2>2 DEF Succeed
    <3>2. th'[t].pc \notin Waiting BY <1>4, <1>8, <2>2, SMTT(30) DEF Waiting
    <3>3. Holds' BY <1>1, <1>2, <1>8, <3>1, <3>2, HoldsFree
    <3>4. send' \in Sends BY <3>1, FreeSend DEF SendFacts
    <3> QED BY <2>2, <3>1, <3>3, <3>4
  <2> QED BY <2>1, <2>2
<1> QED BY <1>7, <1>9, <1>10

LEMMA KeepButMutex ==
  ASSUME LockTypes, MutexType', UNCHANGED <<mapLock, readers, writer, semaphore>>
  PROVE  LockTypes'
  BY DEF LockTypes, MutexType

LEMMA GiveUpTypes ==
  ASSUME TypesInv, GiveUp PROVE TypesInv'
<1>0. Named /\ OtherTypes /\ send \in Sends BY SendBasics
<1>1. send.pc = "attempt" BY DEF GiveUp, Tries
<1>2. Serves /\ send.by \in Own /\ th[send.by].cq \in Cqs BY <1>1, RequestOf, SMTT(30)
<1>3. /\ Becomes(send.by, th'[send.by]) /\ Shape(send.by, th'[send.by])
      /\ send' \in Sends /\ Holds' /\ MutexType'
  BY <1>1, <1>2, FailStep, SMTT(30) DEF GiveUp
<1>4. OtherTypes' /\ Named'
  BY <1>0, <1>3, KeepClient, KeepService, KeepServers, KeepButMutex, KeepBounds
     DEF GiveUp, OtherTypes
<1> QED BY <1>2, <1>3, <1>4, SendTypes

LEMMA MaintainTypes ==
  ASSUME TypesInv, Maintain PROVE TypesInv'
<1>0. Named /\ OtherTypes /\ send \in Sends BY SendBasics
<1>1. send.pc = "attempt" /\ send.left > 0 /\ UNCHANGED th
  BY DEF Maintain, Tries
<1>2. send.by # Redundancy /\ th[send.by].cq \in Cqs BY <1>1, RequestOf, SMTT(30)
<1>3. Moved("maintain", send.todo) /\ send'.left = send.left
  BY <1>0, SMTT(30) DEF Maintain, Sends, Moved
<1>4. ClientTypes' BY <1>0, <1>2, SMTT(30) DEF Maintain, OtherTypes, ClientTypes
<1>5. OtherTypes' /\ Named'
  BY <1>0, <1>4, KeepMap, KeepService, KeepServers, KeepLocks, KeepBounds
     DEF Maintain, OtherTypes
<1> QED BY <1>1, <1>2, <1>3, <1>5, MovedTypes, SMTT(30)

LEMMA ToPrimaryTypes ==
  ASSUME TypesInv, ToPrimary PROVE TypesInv'
<1>0. /\ Named /\ OtherTypes /\ send \in Sends
      /\ m_redundantEndpoints \in Seq(Servers)
  BY SendBasics
<1>1. send.pc \in {"attempt", "primary"} BY DEF ToPrimary, Tries
<1>2. /\ Serves /\ send.by # Redundancy /\ send.by \in Own
      /\ th[send.by].cq \in Cqs /\ Name \in Names
  BY <1>1, RequestOf, SMTT(30)
<1>3. CASE /\ m_redundantEndpoints # <<>> /\ m_redundantEndpoints[1] \in up
           /\ Handle(m_redundantEndpoints[1]) /\ (Fail \/ Succeed)
  <2>1. m_redundantEndpoints[1] \in Servers BY <1>0, <1>3, SMTT(30)
  <2>2. cqs' \in [Servers -> SUBSET Names]
    BY <1>0, <1>2, <1>3, <2>1, HandleTypes DEF OtherTypes, ServerTypes
  <2>3. ServerTypes' BY <1>0, <2>2 DEF ToPrimary, OtherTypes, ServerTypes
  <2>4. /\ Becomes(send.by, th'[send.by]) /\ Shape(send.by, th'[send.by])
        /\ send' \in Sends /\ Holds' /\ MutexType'
    <3>1. CASE Fail BY <1>1, <1>2, <3>1, FailStep, SMTT(30)
    <3>2. CASE Succeed
      <4>1. MutexType' BY <1>0, <3>2 DEF Succeed, MutexType, OtherTypes, LockTypes
      <4> QED BY <1>1, <1>2, <3>2, <4>1, SucceedStep, SMTT(30) DEF Goes
    <3> QED BY <1>3, <3>1, <3>2
  <2>5. OtherTypes' /\ Named'
    BY <1>0, <2>3, <2>4, KeepClient, KeepService, KeepButMutex, KeepBounds
       DEF ToPrimary, OtherTypes
  <2> QED BY <1>2, <2>4, <2>5, SendTypes
<1>4. CASE /\ send' = [send EXCEPT !.pc = "attempt", !.err = TRUE, !.left = @ - 1]
           /\ UNCHANGED <<cqs, m_mutex, th>>
  <2>1. send.left > 0
    BY <1>1, <1>2, SMTT(30) DEF ToPrimary, Serves
  <2>2. send.left - 1 \in 0..attempts BY <1>0, <2>1, SendFields, AttemptsPositive, SMTT(30)
  <2>3. Moved("attempt", send.todo)
    BY <1>0, <1>4, <2>2 DEF Sends, Moved
  <2>4. OtherTypes' /\ Named'
    BY <1>0, <1>4, KeepOthers DEF ToPrimary, servers, locks
  <2> QED BY <1>1, <1>2, <1>4, <2>3, <2>4, MovedTypes, SMTT(30)
<1> QED BY <1>3, <1>4 DEF ToPrimary

LEMMA redundancyTypes ==
  ASSUME TypesInv, redundancy PROVE TypesInv'
<1>0. /\ Named /\ OtherTypes /\ send \in Sends /\ Holds
      /\ th \in [Own -> Tasks]
  BY SendBasics
<1>1. send.pc = "free" /\ UNCHANGED th BY DEF redundancy
<1>2. Redundancy \in AllThreads /\ NoThread \notin Own BY OwnThreads
<1>3. SendFacts(send', "maintain", Redundancy, "none", <<>>)
  BY <1>2, HeldSend DEF redundancy
<1>4. /\ send' \in Sends /\ send'.pc = "maintain" /\ send'.by = Redundancy
      /\ send'.msg = "none"
  BY <1>3 DEF SendFacts
<1>5. \A t \in Own : th'[t].pc \notin Waiting BY <1>0, <1>1, <1>2 DEF Holds
<1>6. Holds' BY <1>4, <1>5, SMTT(30) DEF Holds
<1>7. OtherTypes' /\ Named' BY <1>0, KeepOthers DEF redundancy
<1>8. Shapes' BY <1>1 DEF TypesInv, Shapes
<1>9. TypeOK'
  BY <1>0, <1>1, <1>4, <1>7 DEF TypeOK, OtherTypes, ClientTypes,
     ServiceTypes, ServerTypes, LockTypes, BoundTypes, Own
<1> QED BY <1>6, <1>7, <1>8, <1>9 DEF TypesInv

(* No step of maintainRedundancyLevel changes who it is done for.          *)
LEMMA MaintainingTypes ==
  ASSUME TypesInv, UNCHANGED th, OtherTypes', Named', NEW pc, NEW todo,
         Moved(pc, todo), send'.left = send.left,
         send.pc \in {"maintain", "join", "executeAllCqs", "recover"},
         \/ pc \in {"maintain", "join", "executeAllCqs", "recover"}
         \/ pc = "primary" /\ send.by # Redundancy
  PROVE  TypesInv'
<1>1. send.by # Redundancy => send.left > 0
  BY SMTT(30) DEF TypesInv, Holds, Serves
<1> QED BY <1>1, MovedTypes, SMTT(30)

LEMMA ConnectedList ==
  ASSUME m_redundantEndpoints \in Seq(Servers), NEW s \in Connected
  PROVE  /\ s \in Seq(Servers) /\ Range(s) = Holding /\ IsInjective(s)
         /\ InOrder(s, m_redundantEndpoints)
<1>1. PICK n \in 0..Len(m_redundantEndpoints) : s \in [1..n -> Holding]
  BY DEF Connected
<1>2. Holding \subseteq Servers BY SMTT(30) DEF Holding, Range
<1>3. n \in Nat BY SMTT(30)
<1>4. s \in Seq(Servers) BY <1>1, <1>2, <1>3, SMTT(30)
<1> QED BY <1>4 DEF Connected

LEMMA DropTypes ==
  ASSUME TypesInv, Drop PROVE TypesInv'
<1>0. /\ Named /\ OtherTypes /\ send \in Sends
      /\ m_redundantEndpoints \in Seq(Servers)
  BY SendBasics
<1>1. send.pc = "maintain" /\ UNCHANGED th BY DEF Drop
<1>2. PICK s \in Connected :
        /\ m_redundantEndpoints' = s
        /\ send' = [send EXCEPT !.pc = "join", !.tried = {}, !.had = s # <<>>]
  BY DEF Drop
<1>3. Moved("join", send.todo) /\ send'.left = send.left
  <2> DEFINE b == s # <<>>
  <2>1. b \in BOOLEAN OBVIOUS
  <2>2. send' = [send EXCEPT !.pc = "join", !.tried = {}, !.had = b] BY <1>2
  <2> HIDE DEF b
  <2> QED BY <1>0, <2>1, <2>2 DEF Sends, Moved
<1>4. ServerTypes'
  BY <1>0, <1>2, ConnectedList DEF Drop, OtherTypes, ServerTypes
<1>5. OtherTypes' /\ Named'
  BY <1>0, <1>4, KeepClient, KeepService, KeepLocks, KeepBounds
     DEF Drop, OtherTypes
<1> QED BY <1>1, <1>3, <1>5, MaintainingTypes, SMTT(30)

LEMMA JoinTypes ==
  ASSUME TypesInv, Join PROVE TypesInv'
<1>0. Named /\ OtherTypes /\ send \in Sends BY SendBasics
<1>1. send.pc = "join" /\ UNCHANGED th BY DEF Join
<1>2. PICK e \in Offered :
        send' = [send EXCEPT !.pc = "executeAllCqs", !.todo = <<e>>,
                             !.tried = @ \cup {e}, !.err = FALSE]
  BY DEF Join
<1>3. e \in Servers BY <1>0 DEF Offered, OtherTypes, ServerTypes
<1>4. Moved("executeAllCqs", <<e>>) /\ send'.left = send.left
  <2> DEFINE todo == <<e>>
             tried == send.tried \cup {e}
  <2>1. todo \in Seq(Servers) /\ tried \in SUBSET Servers
    BY <1>0, <1>3, SendFields, SMTT(30)
  <2>2. send' = [send EXCEPT !.pc = "executeAllCqs", !.todo = todo,
                             !.tried = tried, !.err = FALSE]
    BY <1>2
  <2> HIDE DEF todo, tried
  <2>3. Moved("executeAllCqs", todo) /\ send'.left = send.left
    BY <1>0, <2>1, <2>2 DEF Sends, Moved
  <2> QED BY <2>3 DEF todo
<1>5. OtherTypes' /\ Named' BY <1>0, KeepOthers DEF Join
<1> QED BY <1>1, <1>4, <1>5, MaintainingTypes, SMTT(30)

LEMMA LastFirst ==
  ASSUME NEW s \in Seq(Servers), s # <<>>
  PROVE  /\ <<Last(s)>> \o Front(s) \in Seq(Servers)
         /\ Len(<<Last(s)>> \o Front(s)) = Len(s)
         /\ (<<Last(s)>> \o Front(s))[1] = Last(s)
         /\ \A i \in 2..Len(s) : (<<Last(s)>> \o Front(s))[i] = s[i - 1]
<1>1. Last(s) \in Servers /\ Front(s) \in Seq(Servers) /\ Len(s) \in Nat \ {0}
  BY SMTT(30) DEF Last, Front
<1>2. Len(Front(s)) = Len(s) - 1 /\ \A i \in 1..(Len(s) - 1) : Front(s)[i] = s[i]
  <2> DEFINE k == Len(s) - 1
  <2>1. k \in Nat /\ k <= Len(s) BY <1>1, SMTT(30)
  <2>2. Front(s) = SubSeq(s, 1, k) BY DEF Front
  <2> HIDE DEF k
  <2>3. Len(SubSeq(s, 1, k)) = k /\ \A i \in 1..k : SubSeq(s, 1, k)[i] = s[i]
    BY <2>1, SMTT(30)
  <2> QED BY <2>2, <2>3 DEF k
<1> DEFINE l == Last(s)
           f == Front(s)
<1> HIDE DEF l, f
<1>3. l \in Servers /\ f \in Seq(Servers) /\ Len(f) = Len(s) - 1 BY <1>1, <1>2, SMTT(30) DEF l, f
<1>4. /\ <<l>> \o f \in Seq(Servers) /\ Len(<<l>> \o f) = 1 + Len(f)
      /\ (<<l>> \o f)[1] = l
      /\ \A i \in 2..(1 + Len(f)) : (<<l>> \o f)[i] = f[i - 1]
  BY <1>3, SMTT(30)
<1>5. \A i \in 2..Len(s) : (<<l>> \o f)[i] = f[i - 1] /\ i - 1 \in 1..(Len(s) - 1)
  BY <1>1, <1>3, <1>4, SMTT(30)
<1>6. \A i \in 1..(Len(s) - 1) : f[i] = s[i] BY <1>2, SMTT(30) DEF f
<1>7. Len(<<l>> \o f) = Len(s) BY <1>1, <1>3, <1>4, SMTT(30)
<1>8. \A i \in 2..Len(s) : (<<l>> \o f)[i] = s[i - 1] BY <1>5, <1>6
<1> QED BY <1>4, <1>7, <1>8 DEF l, f

LEMMA JoinsDoneTypes ==
  ASSUME TypesInv, JoinsDone PROVE TypesInv'
<1>0. /\ Named /\ OtherTypes /\ send \in Sends /\ Holds /\ th \in [Own -> Tasks]
      /\ m_redundantEndpoints \in Seq(Servers)
  BY SendBasics
<1>1. send.pc = "join" /\ UNCHANGED th BY DEF JoinsDone
<1>2. m_redundantEndpoints' \in Seq(Servers)
  BY <1>0, LastFirst DEF JoinsDone
<1>3. ServerTypes' BY <1>0, <1>2 DEF JoinsDone, OtherTypes, ServerTypes
<1>4. OtherTypes' /\ Named'
  BY <1>0, <1>3, KeepClient, KeepService, KeepLocks, KeepBounds
     DEF JoinsDone, OtherTypes
<1>5. CASE send.by # Redundancy
  <2>1. send' = [send EXCEPT !.pc = "primary"] BY <1>5 DEF JoinsDone
  <2>2. Moved("primary", send.todo) /\ send'.left = send.left
    BY <1>0, <2>1, SMTT(30) DEF Sends, Moved
  <2> QED BY <1>1, <1>4, <1>5, <2>2, MaintainingTypes, SMTT(30)
<1>6. CASE send.by = Redundancy
  <2>1. send' = Free BY <1>6 DEF JoinsDone
  <2>2. send' \in Sends /\ send'.pc = "free" /\ send'.by = NoThread
    BY <2>1, FreeSend DEF SendFacts
  <2>3. \A t \in Own : th'[t].pc \notin Waiting
    BY <1>0, <1>1, <1>6, OwnThreads DEF Holds
  <2>4. Holds' BY <2>2, <2>3, SMTT(30) DEF Holds
  <2>5. Shapes' BY <1>1 DEF TypesInv, Shapes
  <2>6. TypeOK'
    BY <1>0, <1>1, <1>4, <2>2 DEF TypeOK, OtherTypes, ClientTypes,
       ServiceTypes, ServerTypes, LockTypes, BoundTypes, Own
  <2> QED BY <1>4, <2>4, <2>5, <2>6 DEF TypesInv
<1> QED BY <1>5, <1>6

LEMMA HolderThread ==
  ASSUME TypesInv, send.pc \notin {"free", "held"} PROVE send.by \in AllThreads
  BY OwnThreads DEF TypesInv, Holds, Serves

LEMMA InMapCqs ==
  ASSUME ClientTypes PROVE InMap \in SUBSET Cqs
  BY DEF ClientTypes, InMap

LEMMA executeAllCqsTypes ==
  ASSUME TypesInv, executeAllCqs PROVE TypesInv'
<1>0. Named /\ OtherTypes /\ send \in Sends BY SendBasics
<1>1. send.pc = "executeAllCqs" /\ UNCHANGED th BY DEF executeAllCqs
<1>2. send.by \in AllThreads BY <1>1, HolderThread, SMTT(30)
<1>3. LockTypes' BY <1>0, <1>2, SMTT(30) DEF executeAllCqs, LockTypes, OtherTypes
<1>4. OtherTypes' /\ Named' BY <1>0, <1>3, KeepButLocks DEF executeAllCqs
<1>5. Moved("recover", send.todo) /\ send'.left = send.left
  <2> DEFINE snap == IF m_cqService THEN InMap ELSE {}
  <2>1. snap \in SUBSET Cqs BY <1>0, InMapCqs DEF OtherTypes
  <2>2. send' = [send EXCEPT !.pc = "recover", !.snap = snap]
    BY DEF executeAllCqs
  <2> HIDE DEF snap
  <2> QED BY <1>0, <2>1, <2>2 DEF Sends, Moved
<1> QED BY <1>1, <1>4, <1>5, MaintainingTypes, SMTT(30)

LEMMA RecoverTypes ==
  ASSUME TypesInv, NEW c \in Cqs, Recover(c) PROVE TypesInv'
<1>0. Named /\ OtherTypes /\ send \in Sends BY SendBasics
<1>1. send.pc = "recover" /\ UNCHANGED th BY DEF Recover
<1> DEFINE e == Head(send.todo)
           runs == m_cqState[c] = "RUNNING"
           ok == e \in up /\ m_cqName[c] \notin gone
<1>2. Moved("recover", send.todo) /\ send'.left = send.left
  <2> DEFINE snap == send.snap \ {c}
             err == send.err \/ (runs /\ ~ok)
  <2>1. snap \in SUBSET Cqs /\ err \in BOOLEAN BY <1>0, SendFields
  <2>2. send' = [send EXCEPT !.snap = snap, !.err = err] BY DEF Recover
  <2> HIDE DEF snap, err
  <2> QED BY <1>0, <1>1, <2>1, <2>2 DEF Sends, Moved
<1>3. ServerTypes'
  <2>1. m_cqName[c] \in Names BY CqAssumption, SMTT(30)
  <2>2. \/ cqs' = cqs
        \/ cqs' = [cqs EXCEPT ![e] = @ \cup {m_cqName[c]}]
    BY DEF Recover
  <2> HIDE DEF e, runs, ok
  <2>3. cqs' \in [Servers -> SUBSET Names]
    BY <1>0, <2>1, <2>2, SMTT(30) DEF OtherTypes, ServerTypes
  <2> QED BY <1>0, <2>3 DEF Recover, OtherTypes, ServerTypes
<1>4. OtherTypes' /\ Named'
  BY <1>0, <1>3, KeepClient, KeepService, KeepLocks, KeepBounds
     DEF Recover, OtherTypes
<1> QED BY <1>1, <1>2, <1>4, MaintainingTypes, SMTT(30)

LEMMA RecoverDoneTypes ==
  ASSUME TypesInv, RecoverDone PROVE TypesInv'
<1>0. /\ Named /\ OtherTypes /\ send \in Sends
      /\ m_redundantEndpoints \in Seq(Servers)
  BY SendBasics
<1>1. send.pc = "recover" /\ UNCHANGED th BY DEF RecoverDone
<1>2. send.todo \in Seq(Servers) BY <1>0, SendFields
<1>3. m_redundantEndpoints' \in Seq(Servers) BY <1>0, <1>2, SMTT(30) DEF RecoverDone
<1>4. ServerTypes' BY <1>0, <1>3 DEF RecoverDone, OtherTypes, ServerTypes
<1>5. LockTypes' BY <1>0, SMTT(30) DEF RecoverDone, LockTypes, OtherTypes
<1>6. BoundTypes'
  <2>1. Range(send.todo) \subseteq Servers BY <1>2, SMTT(30) DEF Range
  <2> QED BY <1>0, <2>1 DEF RecoverDone, BoundTypes, OtherTypes
<1>7. OtherTypes' /\ Named'
  BY <1>0, <1>4, <1>5, <1>6, KeepClient, KeepService
     DEF RecoverDone, OtherTypes
<1>8. Moved("join", <<>>) /\ send'.left = send.left
  <2> DEFINE none == <<>>
  <2>1. send' = [send EXCEPT !.pc = "join", !.todo = none] BY DEF RecoverDone
  <2>2. none \in Seq(Servers) BY SMTT(30)
  <2> HIDE DEF none
  <2>3. Moved("join", none) /\ send'.left = send.left
    BY <1>0, <2>1, <2>2 DEF Sends, Moved
  <2> QED BY <2>3 DEF none
<1> QED BY <1>1, <1>7, <1>8, MaintainingTypes, SMTT(30)

-----------------------------------------------------------------------------
(* Loops, the end of the pool and notifications.                           *)

LEMMA AllCqsTypes ==
  ASSUME TypesInv, NEW t \in Threads, AllCqs(t) PROVE TypesInv'
<1>a. t \in Own BY OwnThreads
<1>0. /\ Named /\ OtherTypes /\ th[t] \in Tasks /\ Shape(t, th[t])
      /\ th \in [Own -> Tasks] /\ t \in AllThreads
  BY <1>a, Basics
<1>1. th[t].pc = "shared" /\ th[t].pc \notin Waiting BY SMTT(30) DEF AllCqs, At, Waiting
<1>2. LockTypes' BY <1>0, SMTT(30) DEF AllCqs, LockTypes, OtherTypes
<1>3. OtherTypes' /\ Named' /\ send' = send
  BY <1>0, <1>2, KeepButLocks DEF AllCqs
<1> DEFINE pc == IF th[t].op = "closeCqs" THEN "mapLock" ELSE "next"
           todo == InMap
           r == [th[t] EXCEPT !.todo = todo, !.pc = pc]
<1>4. todo \in SUBSET Cqs /\ pc \in Pcs /\ pc \in {"mapLock", "next"}
  BY <1>0, InMapCqs, SMTT(30) DEF Pcs, OtherTypes
<1>5. th' = [th EXCEPT ![t] = r] BY <1>0 DEF AllCqs
<1> HIDE DEF pc, todo
<1>6. TaskFacts(r, pc, th[t].op, th[t].cq, todo)
  <2>1. NoCq \in Cqs \cup {NoCq} BY SMTT(30)
  <2> QED BY <1>0, <1>4, <2>1, ChangedTask
<1>7. r \in Tasks /\ r.pc = pc /\ r.op = th[t].op BY <1>6 DEF TaskFacts
<1> HIDE DEF r
<1>8. Becomes(t, r) /\ th'[t] = r BY <1>a, <1>0, <1>5, <1>7, Puts DEF Becomes
<1>9. Shape(t, r) /\ r.pc \notin Waiting
  BY <1>0, <1>1, <1>4, <1>7, SMTT(30)
     DEF Shape, Waiting, NeedsCq, Executes, Stops, Closers, Notices, Bulk
<1> QED BY <1>a, <1>1, <1>3, <1>8, <1>9, StepTypes

(* The task of a thread is replaced.                                       *)
LEMMA PutTypes ==
  ASSUME TypesInv, NEW t \in Own, NEW r \in Tasks, th' = [th EXCEPT ![t] = r],
         th[t].pc \notin Waiting, r.pc \notin Waiting, Shape(t, r),
         OtherTypes', Named', send' = send
  PROVE  TypesInv'
<1>1. Becomes(t, r) BY Basics, Puts
<1>2. th'[t] = r BY <1>1 DEF Becomes
<1> QED BY <1>1, <1>2, StepTypes

LEMMA closeAllCqsTypes ==
  ASSUME TypesInv, NEW t \in Threads, closeAllCqs(t) PROVE TypesInv'
<1>a. t \in Own BY OwnThreads
<1>0. /\ Named /\ OtherTypes /\ th[t] \in Tasks /\ Shape(t, th[t])
      /\ t \in AllThreads
  BY <1>a, Basics
<1>1. th[t].pc = "mapLock" /\ th[t].pc \notin Waiting BY SMTT(30) DEF closeAllCqs, At, Waiting
<1>2. LockTypes' BY <1>0, SMTT(30) DEF closeAllCqs, LockTypes, OtherTypes
<1>3. OtherTypes' /\ Named' /\ send' = send
  BY <1>0, <1>2, KeepButLocks DEF closeAllCqs
<1>4. ASSUME NEW x, TaskFacts(x, "next", th[t].op, th[t].cq, th[t].todo)
      PROVE  Shape(t, x)
  BY <1>0, <1>1, <1>4, SMTT(30)
     DEF TaskFacts, Shape, NeedsCq, Executes, Stops, Closers, Notices, Bulk
<1>5. "next" \in Pcs /\ "next" \notin Waiting BY SMTT(30) DEF Pcs, Waiting
<1>6. Goto(t, "next") BY DEF closeAllCqs
<1> QED BY <1>a, <1>1, <1>3, <1>4, <1>5, <1>6, GotoTypes

LEMMA EntryShape ==
  ASSUME NEW t, NEW r \in Tasks, Shape(t, r), r.pc = "next", NEW x, NEW state,
         x.op = r.op, x.cq \in Cqs,
         x.pc = IF Takes(r.op, state) THEN Entry(r.op) ELSE r.pc
  PROVE  Shape(t, x) /\ x.pc \notin Waiting /\ x.pc \in Pcs
<1>1. r.op \in Bulk \cup {"destroy"} BY SMTT(30) DEF Shape
<1>2. \/ x.pc = "next"
      \/ x.pc = "lock" /\ r.op = "executeCqs"
      \/ x.pc = "stop" /\ r.op = "stopCqs"
      \/ x.pc = "close" /\ r.op \in {"closeCqs", "destroy"}
  BY <1>1, SMTT(30) DEF Bulk, Entry
<1> HIDE DEF Takes, Entry
<1>3. t = Receiver => r.op \in Notices \cup {"none"} BY DEF Shape
<1> QED
  BY <1>1, <1>2, <1>3, SMTT(30)
     DEF Shape, NeedsCq, Executes, Stops, Closers, Notices, Bulk, Waiting, Pcs

LEMMA NextCqTypes ==
  ASSUME TypesInv, NEW t \in Threads, NextCq(t) PROVE TypesInv'
<1>a. t \in Own BY OwnThreads
<1>0. /\ Named /\ OtherTypes /\ th[t] \in Tasks /\ Shape(t, th[t])
      /\ th \in [Own -> Tasks]
  BY <1>a, Basics
<1>1. th[t].pc = "next" /\ th[t].pc \notin Waiting BY SMTT(30) DEF NextCq, At, Waiting
<1>2. OtherTypes' /\ Named' /\ send' = send BY <1>0, KeepOthers DEF NextCq
<1>3. PICK c \in th[t].todo :
        th' = [th EXCEPT ![t].todo = @ \ {c}, ![t].cq = c,
                         ![t].pc = IF Takes(th[t].op, m_cqState[c])
                                   THEN Entry(th[t].op) ELSE @]
  BY DEF NextCq
<1>4. c \in Cqs /\ th[t].todo \ {c} \in SUBSET Cqs BY <1>0, TaskTypes, SMTT(30)
<1> DEFINE pc == IF Takes(th[t].op, m_cqState[c]) THEN Entry(th[t].op)
                 ELSE th[t].pc
           todo == th[t].todo \ {c}
           r == [th[t] EXCEPT !.todo = todo, !.cq = c, !.pc = pc]
<1>5. th' = [th EXCEPT ![t] = r] BY <1>0, <1>3
<1>6. pc \in Pcs BY <1>0, <1>1, TaskTypes, SMTT(30) DEF Takes, Entry, Pcs
<1>7. pc = IF Takes(th[t].op, m_cqState[c]) THEN Entry(th[t].op) ELSE th[t].pc
  OBVIOUS
<1> HIDE DEF pc, todo
<1>8. TaskFacts(r, pc, th[t].op, c, todo)
  <2>1. todo \in SUBSET Cqs /\ c \in Cqs \cup {NoCq} BY <1>4 DEF todo
  <2> QED BY <1>0, <1>6, <2>1, ChangedTask
<1> HIDE DEF r
<1>9. r \in Tasks /\ r.pc = pc /\ r.op = th[t].op /\ r.cq = c
  BY <1>8 DEF TaskFacts
<1>10. Shape(t, r) /\ r.pc \notin Waiting
  BY <1>0, <1>1, <1>4, <1>7, <1>9, EntryShape
<1> QED BY <1>a, <1>1, <1>2, <1>5, <1>9, <1>10, PutTypes

LEMMA BulkDoneTypes ==
  ASSUME TypesInv, NEW t \in Threads, BulkDone(t) PROVE TypesInv'
<1>a. t \in Own BY OwnThreads
<1>0. Named /\ OtherTypes BY <1>a, Basics
<1>1. th[t].pc \notin Waiting BY SMTT(30) DEF BulkDone, At, Waiting
<1>2. LockTypes' BY <1>0, SMTT(30) DEF BulkDone, LockTypes, OtherTypes
<1>3. OtherTypes' /\ Named' /\ send' = send
  BY <1>0, <1>2, KeepButLocks DEF BulkDone
<1> QED BY <1>a, <1>1, <1>3, IdleTypes DEF BulkDone

LEMMA closeServiceTypes ==
  ASSUME TypesInv, NEW t \in Threads, closeService(t) PROVE TypesInv'
<1>a. t \in Own BY OwnThreads
<1>0. /\ Named /\ OtherTypes /\ th[t] \in Tasks /\ Shape(t, th[t])
      /\ t \in AllThreads
  BY <1>a, Basics
<1>1. th[t].pc = "unique" /\ th[t].pc \notin Waiting BY SMTT(30) DEF closeService, At, Waiting
<1>2. LockTypes' BY <1>0, SMTT(30) DEF closeService, LockTypes, OtherTypes
<1>b. ServiceTypes' BY <1>0 DEF closeService, ServiceTypes, OtherTypes
<1>3. OtherTypes' /\ Named' /\ send' = send
  BY <1>0, <1>2, <1>b, KeepClient, KeepServers, KeepBounds
     DEF closeService, OtherTypes
<1>4. ASSUME NEW x, TaskFacts(x, "drain", th[t].op, th[t].cq, th[t].todo)
      PROVE  Shape(t, x)
  <2>1. th[t].cq \in Cqs \cup {NoCq} BY <1>0, TaskTypes, SMTT(30)
  <2> QED BY <1>0, <1>1, <1>4, SMTT(30)
     DEF TaskFacts, Shape, NeedsCq, Executes, Stops, Closers, Notices, Bulk
<1>5. "drain" \in Pcs /\ "drain" \notin Waiting BY SMTT(30) DEF Pcs, Waiting
<1>6. Goto(t, "drain") BY DEF closeService
<1> QED BY <1>a, <1>1, <1>3, <1>4, <1>5, <1>6, GotoTypes

LEMMA closeCqServiceTypes ==
  ASSUME TypesInv, NEW t \in Threads, closeCqService(t) PROVE TypesInv'
<1>a. t \in Own BY OwnThreads
<1>0. /\ Named /\ OtherTypes /\ th[t] \in Tasks /\ Shape(t, th[t])
      /\ t \in AllThreads /\ th \in [Own -> Tasks]
  BY <1>a, Basics
<1>1. th[t].pc = "drain" /\ th[t].pc \notin Waiting BY SMTT(30) DEF closeCqService, At, Waiting
<1>2. LockTypes' BY <1>0, SMTT(30) DEF closeCqService, LockTypes, OtherTypes
<1>3. OtherTypes' /\ Named' /\ send' = send
  BY <1>0, <1>2, KeepButLocks DEF closeCqService
<1> DEFINE todo == InMap
           r == [th[t] EXCEPT !.todo = todo, !.pc = "mapLock"]
<1>4. todo \in SUBSET Cqs /\ "mapLock" \in Pcs BY <1>0, InMapCqs, SMTT(30) DEF Pcs, OtherTypes
<1>5. th' = [th EXCEPT ![t] = r] BY <1>0 DEF closeCqService
<1> HIDE DEF todo
<1>6. TaskFacts(r, "mapLock", th[t].op, th[t].cq, todo)
  <2>1. NoCq \in Cqs \cup {NoCq} BY SMTT(30)
  <2> QED BY <1>0, <1>4, <2>1, ChangedTask
<1> HIDE DEF r
<1>7. r \in Tasks /\ r.pc = "mapLock" /\ r.op = th[t].op BY <1>6 DEF TaskFacts
<1>8. Shape(t, r) /\ r.pc \notin Waiting
  BY <1>0, <1>1, <1>7, SMTT(30)
     DEF Shape, Waiting, NeedsCq, Executes, Stops, Closers, Notices, Bulk
<1> QED BY <1>a, <1>1, <1>3, <1>5, <1>7, <1>8, PutTypes

LEMMA cleanupTypes ==
  ASSUME TypesInv, NEW t \in Threads, cleanup(t) PROVE TypesInv'
<1>a. t \in Own BY OwnThreads
<1>0. Named /\ OtherTypes BY <1>a, Basics
<1>1. th[t].pc \notin Waiting BY SMTT(30) DEF cleanup, At, Waiting
<1>2. LockTypes' BY <1>0, SMTT(30) DEF cleanup, LockTypes, OtherTypes
<1>3. ServiceTypes' BY <1>0 DEF cleanup, ServiceTypes, OtherTypes
<1>4. \A n \in Names : m_cqQueryMap'[n] = NoCq BY SMTT(30) DEF cleanup
<1>5. ClientTypes' BY <1>0, SMTT(30) DEF cleanup, ClientTypes, OtherTypes
<1>6. Named' BY <1>4 DEF Named
<1>7. OtherTypes' /\ send' = send
  BY <1>0, <1>2, <1>3, <1>5, KeepServers, KeepBounds DEF cleanup, OtherTypes
<1> QED BY <1>a, <1>1, <1>6, <1>7, IdleTypes DEF cleanup

LEMMA MessageTask ==
  ASSUME NEW op \in Notices, NEW n \in Names
  PROVE  /\ Message(op, n) \in Tasks /\ Message(op, n).pc = "acquire"
         /\ Message(op, n).op = op /\ Message(op, n).cq \in Cqs
         /\ m_cqName[Message(op, n).cq] = n
<1> DEFINE c == CHOOSE c \in Cqs : m_cqName[c] = n
<1>1. \E d \in Cqs : m_cqName[d] = n BY CqAssumption
<1>2. c \in Cqs /\ m_cqName[c] = n BY <1>1
<1>3. Message(op, n) = [pc |-> "acquire", op |-> op, todo |-> {}, cq |-> c]
  BY DEF Message
<1> HIDE DEF c
<1>4. op \in Ops BY SMTT(30) DEF Notices, Ops
<1> QED BY <1>2, <1>3, <1>4, SMTT(30) DEF Tasks

LEMMA receiveTypes ==
  ASSUME TypesInv, NEW op \in Notices, NEW n \in Names,
         receiveNotification(op, n), ServerTypes'
  PROVE  TypesInv'
<1>a. Receiver \in Own BY OwnThreads
<1>0. Named /\ OtherTypes /\ Receiver \in AllThreads BY <1>a, Basics
<1>1. th[Receiver].pc \notin Waiting
  BY SMTT(30) DEF receiveNotification, CanReceive, At, Waiting
<1>2. LockTypes' BY <1>0, SMTT(30) DEF receiveNotification, LockTypes, OtherTypes
<1>3. OtherTypes' /\ Named' /\ send' = send
  BY <1>0, <1>2, KeepClient, KeepService, KeepBounds
     DEF receiveNotification, OtherTypes
<1> DEFINE r == Message(op, n)
<1>4. th' = [th EXCEPT ![Receiver] = r] BY DEF receiveNotification
<1>5. r \in Tasks /\ r.pc = "acquire" /\ r.op = op /\ r.cq \in Cqs
  BY MessageTask
<1> HIDE DEF r
<1>6. Shape(Receiver, r) /\ r.pc \notin Waiting
  BY <1>5, SMTT(30) DEF Shape, Waiting, NeedsCq, Executes, Stops, Closers, Notices, Bulk
<1> QED BY <1>a, <1>1, <1>3, <1>4, <1>5, <1>6, PutTypes

LEMMA EventTypes ==
  ASSUME TypesInv, NEW n \in Names, Event(n) PROVE TypesInv'
<1>0. OtherTypes BY SendBasics
<1>1. "event" \in Notices /\ receiveNotification("event", n) BY SMTT(30) DEF Event, Notices
<1>2. ServerTypes'
  BY <1>0, <1>1 DEF Event, receiveNotification, OtherTypes, ServerTypes
<1> QED BY <1>1, <1>2, receiveTypes

LEMMA RegionDestroyedTypes ==
  ASSUME TypesInv, NEW n \in Names, RegionDestroyed(n) PROVE TypesInv'
<1>0. OtherTypes BY SendBasics
<1>1. "destroyRegion" \in Notices /\ receiveNotification("destroyRegion", n)
  BY SMTT(30) DEF RegionDestroyed, Notices
<1>2. UNCHANGED <<m_redundantEndpoints, up>> BY <1>1 DEF receiveNotification
<1>3. cqs' \in [Servers -> SUBSET Names] /\ gone' \subseteq Names
  BY <1>0, SMTT(30) DEF RegionDestroyed, OtherTypes, ServerTypes
<1>4. ServerTypes' BY <1>0, <1>2, <1>3 DEF OtherTypes, ServerTypes
<1> QED BY <1>1, <1>4, receiveTypes

LEMMA checkAndAcquireLockTypes ==
  ASSUME TypesInv, checkAndAcquireLock PROVE TypesInv'
<1>a. Receiver \in Own BY OwnThreads
<1>0. /\ Named /\ OtherTypes /\ Receiver \in AllThreads
      /\ th[Receiver] \in Tasks /\ Shape(Receiver, th[Receiver])
  BY <1>a, Basics
<1>1. th[Receiver].pc = "acquire" /\ th[Receiver].pc \notin Waiting
  BY SMTT(30) DEF checkAndAcquireLock, At, Waiting
<1>2. LockTypes' BY <1>0, SMTT(30) DEF checkAndAcquireLock, LockTypes, OtherTypes
<1>3. OtherTypes' /\ Named' /\ send' = send
  BY <1>0, <1>2, KeepButLocks DEF checkAndAcquireLock
<1>4. ASSUME NEW x, TaskFacts(x, "find", th[Receiver].op, th[Receiver].cq,
                              th[Receiver].todo)
      PROVE  Shape(Receiver, x)
  BY <1>0, <1>1, <1>4, SMTT(30)
     DEF TaskFacts, Shape, NeedsCq, Pcs, Executes, Stops, Closers, Notices, Bulk
<1>5. "find" \in Pcs /\ "find" \notin Waiting BY SMTT(30) DEF Pcs, Waiting
<1>6. CASE Goto(Receiver, "find")
  BY <1>a, <1>1, <1>3, <1>4, <1>5, <1>6, GotoTypes
<1>7. CASE th' = [th EXCEPT ![Receiver] = Idle]
  BY <1>a, <1>1, <1>3, <1>7, IdleTypes
<1> QED BY <1>6, <1>7 DEF checkAndAcquireLock

LEMMA getCqTypes ==
  ASSUME TypesInv, getCq PROVE TypesInv'
<1>a. Receiver \in Own BY OwnThreads
<1>0. /\ Named /\ OtherTypes /\ th \in [Own -> Tasks]
      /\ th[Receiver] \in Tasks /\ Shape(Receiver, th[Receiver])
  BY <1>a, Basics
<1>1. th[Receiver].pc = "find" /\ th[Receiver].pc \notin Waiting
  BY SMTT(30) DEF getCq, At, Waiting
<1>2. OtherTypes' /\ Named' /\ send' = send BY <1>0, KeepOthers DEF getCq
<1>3. m_cqName[th[Receiver].cq] \in Names
  BY <1>0, <1>1, CqAssumption, SMTT(30) DEF Shape, NeedsCq, Pcs
<1> DEFINE c == m_cqQueryMap[m_cqName[th[Receiver].cq]]
           pc == IF c = NoCq THEN "release" ELSE "running"
           r == [th[Receiver] EXCEPT !.cq = c, !.pc = pc]
<1>4. c \in Cqs \cup {NoCq} BY <1>0, <1>3 DEF OtherTypes, ClientTypes
<1>5. pc \in Pcs /\ pc \in {"release", "running"} /\ (pc = "running" => c \in Cqs)
  BY <1>4, SMTT(30) DEF Pcs
<1>6. th' = [th EXCEPT ![Receiver] = r] BY <1>0 DEF getCq
<1> HIDE DEF c, pc
<1>7. TaskFacts(r, pc, th[Receiver].op, c, th[Receiver].todo)
  <2>1. {} \in SUBSET Cqs BY SMTT(30)
  <2> QED BY <1>0, <1>4, <1>5, <2>1, ChangedTask
<1> HIDE DEF r
<1>8. r \in Tasks /\ r.pc = pc /\ r.op = th[Receiver].op /\ r.cq = c
  BY <1>7 DEF TaskFacts
<1>9. Shape(Receiver, r) /\ r.pc \notin Waiting
  BY <1>0, <1>1, <1>5, <1>8, SMTT(30)
     DEF Shape, Waiting, NeedsCq, Pcs, Executes, Stops, Closers, Notices, Bulk
<1> QED BY <1>a, <1>1, <1>2, <1>6, <1>8, <1>9, PutTypes

LEMMA invokeCqListenersTypes ==
  ASSUME TypesInv, invokeCqListeners PROVE TypesInv'
<1>a. Receiver \in Own BY OwnThreads
<1>0. /\ Named /\ OtherTypes /\ th[Receiver] \in Tasks
      /\ Shape(Receiver, th[Receiver])
  BY <1>a, Basics
<1>1. /\ th[Receiver].pc = "running" /\ th[Receiver].pc \notin Waiting
      /\ th[Receiver].pc \in NeedsCq
  BY SMTT(30) DEF invokeCqListeners, At, Waiting, NeedsCq, Pcs
<1>2. OtherTypes' /\ Named' /\ send' = send
  BY <1>0, KeepOthers DEF invokeCqListeners
<1>3. PICK pc : /\ Goto(Receiver, pc)
                /\ \/ pc = "release"
                   \/ pc = "listener" /\ th[Receiver].op = "event"
                   \/ pc = "close" /\ th[Receiver].op # "event"
  BY DEF invokeCqListeners
<1>4. th[Receiver].op \in Notices BY <1>0, <1>1, SMTT(30) DEF Shape
<1>5. pc \in Pcs /\ pc \notin Waiting BY <1>3, SMTT(30) DEF Pcs, Waiting
<1>6. \A x : TaskFacts(x, pc, th[Receiver].op, th[Receiver].cq, th[Receiver].todo)
               => Shape(Receiver, x)
  BY <1>0, <1>1, <1>3, <1>4, <1>5, PlaceShape, SMTT(30) DEF Notices
<1> QED BY <1>a, <1>1, <1>2, <1>3, <1>5, <1>6, GotoTypes

LEMMA ListenerReturnsTypes ==
  ASSUME TypesInv, ListenerReturns PROVE TypesInv'
<1>a. Receiver \in Own BY OwnThreads
<1>0. /\ Named /\ OtherTypes /\ th[Receiver] \in Tasks
      /\ Shape(Receiver, th[Receiver])
  BY <1>a, Basics
<1>1. /\ th[Receiver].pc = "listener" /\ th[Receiver].pc \notin Waiting
      /\ th[Receiver].pc \in NeedsCq
  BY SMTT(30) DEF ListenerReturns, At, Waiting, NeedsCq, Pcs
<1>2. OtherTypes' /\ Named' /\ send' = send
  BY <1>0, KeepOthers DEF ListenerReturns
<1>4. th[Receiver].op \in Notices BY <1>0, <1>1, SMTT(30) DEF Shape, Notices
<1>5. "release" \in Pcs /\ "release" \notin Waiting BY SMTT(30) DEF Pcs, Waiting
<1>6. \A x : TaskFacts(x, "release", th[Receiver].op, th[Receiver].cq,
                       th[Receiver].todo) => Shape(Receiver, x)
  BY <1>0, <1>1, <1>4, <1>5, PlaceShape, SMTT(30)
<1>7. Goto(Receiver, "release") BY DEF ListenerReturns
<1> QED BY <1>a, <1>1, <1>2, <1>5, <1>6, <1>7, GotoTypes

LEMMA NotifiedTypes ==
  ASSUME TypesInv, Notified PROVE TypesInv'
<1>a. Receiver \in Own BY OwnThreads
<1>0. Named /\ OtherTypes BY <1>a, Basics
<1>1. th[Receiver].pc \notin Waiting BY SMTT(30) DEF Notified, At, Waiting
<1>2. LockTypes' BY <1>0, SMTT(30) DEF Notified, LockTypes, OtherTypes
<1>3. OtherTypes' /\ Named' /\ send' = send
  BY <1>0, <1>2, KeepButLocks DEF Notified
<1> QED BY <1>a, <1>1, <1>3, IdleTypes DEF Notified

-----------------------------------------------------------------------------
(* The application and the servers.                                        *)

(* An operation begins.                                                    *)
LEMMA StartTypes ==
  ASSUME TypesInv, NEW t \in Threads, Begins(t), UNCHANGED <<send, faults, abandoned>>,
         NEW r \in Tasks, th' = [th EXCEPT ![t] = r],
         Shape(t, r), r.pc \notin Waiting,
         ClientTypes', ServiceTypes', ServerTypes', LockTypes', Named'
  PROVE  TypesInv'
<1>a. t \in Own BY OwnThreads
<1>0. OtherTypes BY <1>a, Basics
<1>1. th[t].pc \notin Waiting BY SMTT(30) DEF Begins, At, Waiting
<1>2. ops' \in 0..MaxOps BY <1>0, CqAssumption, SMTT(30) DEF Begins, OtherTypes, BoundTypes
<1>3. OtherTypes' /\ send' = send
  BY <1>0, <1>2 DEF OtherTypes, BoundTypes
<1> QED BY <1>a, <1>1, <1>3, PutTypes

LEMMA newCqTypes ==
  ASSUME TypesInv, NEW t \in Threads, NEW c \in Cqs, newCq(t, c) PROVE TypesInv'
<1>a. t \in Own BY OwnThreads
<1>0. Named /\ OtherTypes /\ t \in AllThreads BY <1>a, Basics
<1>1. LockTypes' BY <1>0, SMTT(30) DEF newCq, LockTypes, OtherTypes
<1>2. /\ ClientTypes' /\ Named' /\ ServiceTypes' /\ ServerTypes' /\ Begins(t)
      /\ UNCHANGED <<send, faults, abandoned>>
  BY <1>0, KeepClient, KeepService, KeepServers DEF newCq, OtherTypes
<1> DEFINE r == [Idle EXCEPT !.op = "newCq", !.cq = c, !.pc = "exists"]
<1>3. th' = [th EXCEPT ![t] = r] BY DEF newCq
<1>4. TaskFacts(r, "exists", "newCq", c, {})
  <2>1. "exists" \in Pcs /\ "newCq" \in Ops BY SMTT(30) DEF Pcs, Ops
  <2>2. c \in Cqs \cup {NoCq} BY SMTT(30)
  <2> QED BY <2>1, <2>2, NewTask
<1> HIDE DEF r
<1>5. r \in Tasks /\ r.pc = "exists" /\ r.op = "newCq" /\ r.cq = c
  BY <1>4 DEF TaskFacts
<1>6. t # Receiver BY OwnThreads
<1>7. Shape(t, r) /\ r.pc \notin Waiting
  BY <1>5, <1>6, SMTT(30) DEF Shape, Waiting, NeedsCq, Executes, Stops, Closers, Notices, Bulk
<1> QED BY <1>1, <1>2, <1>3, <1>5, <1>7, StartTypes

LEMMA callTypes ==
  ASSUME TypesInv, NEW t \in Threads, NEW op \in {"execute", "stop", "close"},
         NEW c \in Cqs, call(t, op, c)
  PROVE  TypesInv'
<1>a. t \in Own BY OwnThreads
<1>0. Named /\ OtherTypes BY <1>a, Basics
<1>2. /\ ClientTypes' /\ Named' /\ ServiceTypes' /\ ServerTypes' /\ LockTypes'
      /\ Begins(t) /\ UNCHANGED <<send, faults, abandoned>>
  BY <1>0, KeepClient, KeepService, KeepServers, KeepLocks
     DEF call, OtherTypes
<1> DEFINE pc == Entry(op)
           r == [Idle EXCEPT !.op = op, !.cq = c, !.pc = pc]
<1>3. th' = [th EXCEPT ![t] = r] BY DEF call
<1>4. /\ op = "execute" => pc = "lock"
      /\ op = "stop" => pc = "stop"
      /\ op = "close" => pc = "close"
      /\ pc \in Pcs /\ op \in Ops
  BY SMTT(30) DEF Entry, Pcs, Ops
<1> HIDE DEF pc
<1>5. TaskFacts(r, pc, op, c, {})
  <2>2. c \in Cqs \cup {NoCq} BY SMTT(30)
  <2> QED BY <1>4, <2>2, NewTask
<1> HIDE DEF r
<1>6. r \in Tasks /\ r.pc = pc /\ r.op = op /\ r.cq = c
  BY <1>5 DEF TaskFacts
<1>7. t # Receiver BY OwnThreads
<1>8. Shape(t, r) /\ r.pc \notin Waiting
  BY <1>4, <1>6, <1>7, SMTT(30)
     DEF Shape, Waiting, NeedsCq, Executes, Stops, Closers, Notices, Bulk
<1> QED BY <1>2, <1>3, <1>6, <1>8, StartTypes

LEMMA bulkTypes ==
  ASSUME TypesInv, NEW t \in Threads, NEW op \in Bulk, bulk(t, op)
  PROVE  TypesInv'
<1>a. t \in Own BY OwnThreads
<1>0. Named /\ OtherTypes BY <1>a, Basics
<1>2. /\ ClientTypes' /\ Named' /\ ServiceTypes' /\ ServerTypes' /\ LockTypes'
      /\ Begins(t) /\ UNCHANGED <<send, faults, abandoned>>
  BY <1>0, KeepClient, KeepService, KeepServers, KeepLocks
     DEF bulk, OtherTypes
<1> DEFINE r == [Idle EXCEPT !.op = op, !.pc = "shared"]
<1>3. th' = [th EXCEPT ![t] = r] BY DEF bulk
<1>4. TaskFacts(r, "shared", op, NoCq, {})
  <2>1. "shared" \in Pcs /\ op \in Ops BY SMTT(30) DEF Pcs, Ops, Bulk
  <2>2. NoCq \in Cqs \cup {NoCq} BY SMTT(30)
  <2> QED BY <2>1, <2>2, NewTask
<1> HIDE DEF r
<1>5. r \in Tasks /\ r.pc = "shared" /\ r.op = op BY <1>4 DEF TaskFacts
<1>6. t # Receiver BY OwnThreads
<1>7. Shape(t, r) /\ r.pc \notin Waiting
  BY <1>5, <1>6, SMTT(30) DEF Shape, Waiting, NeedsCq, Executes, Stops, Closers, Notices, Bulk
<1> QED BY <1>2, <1>3, <1>5, <1>7, StartTypes

LEMMA destroyTypes ==
  ASSUME TypesInv, NEW t \in Threads, destroy(t) PROVE TypesInv'
<1>a. t \in Own BY OwnThreads
<1>0. Named /\ OtherTypes BY <1>a, Basics
<1>1. ServiceTypes' BY <1>0, SMTT(30) DEF destroy, OtherTypes, ServiceTypes
<1>2. /\ ClientTypes' /\ Named' /\ ServerTypes' /\ LockTypes'
      /\ Begins(t) /\ UNCHANGED <<send, faults, abandoned>>
  BY <1>0, KeepClient, KeepServers, KeepLocks DEF destroy, OtherTypes
<1> DEFINE r == [Idle EXCEPT !.op = "destroy", !.pc = "unique"]
<1>3. th' = [th EXCEPT ![t] = r] BY DEF destroy
<1>4. TaskFacts(r, "unique", "destroy", NoCq, {})
  <2>1. "unique" \in Pcs /\ "destroy" \in Ops BY SMTT(30) DEF Pcs, Ops
  <2>2. NoCq \in Cqs \cup {NoCq} BY SMTT(30)
  <2> QED BY <2>1, <2>2, NewTask
<1> HIDE DEF r
<1>5. r \in Tasks /\ r.pc = "unique" /\ r.op = "destroy" BY <1>4 DEF TaskFacts
<1>6. t # Receiver BY OwnThreads
<1>7. Shape(t, r) /\ r.pc \notin Waiting
  BY <1>5, <1>6, SMTT(30) DEF Shape, Waiting, NeedsCq, Executes, Stops, Closers, Notices, Bulk
<1> QED BY <1>1, <1>2, <1>3, <1>5, <1>7, StartTypes

(* Nobody's task changes.                                                  *)
LEMMA QuietTypes ==
  ASSUME TypesInv, UNCHANGED <<send, th>>, OtherTypes', Named'
  PROVE  TypesInv'
<1>1. Shapes' /\ Holds' BY DEF TypesInv, Shapes, Holds, Serves
<1>2. TypeOK'
  BY SendBasics DEF TypeOK, OtherTypes, ClientTypes, ServiceTypes,
                           ServerTypes, LockTypes, BoundTypes, Own
<1> QED BY <1>1, <1>2 DEF TypesInv

LEMMA CrashTypes ==
  ASSUME TypesInv, NEW e \in Servers, Crash(e) PROVE TypesInv'
<1>0. Named /\ OtherTypes BY SendBasics
<1>1. ServerTypes' BY <1>0, SMTT(30) DEF Crash, OtherTypes, ServerTypes
<1>2. BoundTypes' BY <1>0, SMTT(30) DEF Crash, OtherTypes, BoundTypes
<1>3. OtherTypes' /\ Named'
  BY <1>0, <1>1, <1>2, KeepClient, KeepService, KeepLocks
     DEF Crash, OtherTypes
<1> QED BY <1>3, QuietTypes DEF Crash

LEMMA RestartTypes ==
  ASSUME TypesInv, NEW e \in Servers, Restart(e) PROVE TypesInv'
<1>0. Named /\ OtherTypes BY SendBasics
<1>1. ServerTypes' BY <1>0, SMTT(30) DEF Restart, OtherTypes, ServerTypes
<1>3. OtherTypes' /\ Named'
  BY <1>0, <1>1, KeepClient, KeepService, KeepLocks, KeepBounds
     DEF Restart, OtherTypes
<1> QED BY <1>3, QuietTypes DEF Restart

LEMMA stopStepsTypes ==
  ASSUME TypesInv, NEW t \in Threads, stopSteps(t) PROVE TypesInv'
<1>a. t \in Own BY OwnThreads
<1>1. CASE stop(t) BY <1>1, stopTypes
<1>2. CASE sendStopOrClose(t, "stopSend", "stop", "stopCheck")
  BY <1>a, <1>2, sendTypes
<1>3. CASE setCqStateCheck(t, "stopCheck", "stopSet")
  BY <1>a, <1>3, setCqStateCheckTypes
<1>4. CASE setCqState(t, "stopSet", "STOPPED") /\ Return(t)
  <2>1. "STOPPED" \in States BY SMTT(30) DEF States
  <2> QED BY <1>a, <1>4, <2>1, setCqStateTypes, SMTT(30)
<1> QED BY <1>1, <1>2, <1>3, <1>4 DEF stopSteps

LEMMA closeTypes ==
  ASSUME TypesInv, NEW t \in Own, close(t) PROVE TypesInv'
<1>1. CASE setCqStateCheck(t, "close", "closingSet")
  BY <1>1, setCqStateCheckTypes
<1>2. CASE /\ setCqState(t, "closingSet", "CLOSING")
           /\ Goto(t, IF SendsClose(t) THEN "closeSend" ELSE "closedCheck")
  <2>1. "CLOSING" \in States BY SMTT(30) DEF States
  <2> QED BY <1>2, <2>1, setCqStateTypes, SMTT(30)
<1>3. CASE sendStopOrClose(t, "closeSend", "close", "closedCheck")
  BY <1>3, sendTypes
<1>4. CASE setCqStateCheck(t, "closedCheck", "closedSet")
  BY <1>4, setCqStateCheckTypes
<1>5. CASE setCqState(t, "closedSet", "CLOSED") /\ Goto(t, "remove")
  <2>1. "CLOSED" \in States BY SMTT(30) DEF States
  <2> QED BY <1>5, <2>1, setCqStateTypes, SMTT(30)
<1>6. CASE removeCq(t) BY <1>6, removeCqTypes
<1> QED BY <1>1, <1>2, <1>3, <1>4, <1>5, <1>6 DEF close

LEMMA InitTypes == Init => TypesInv
<1> SUFFICES ASSUME Init PROVE TypesInv BY SMTT(30)
<1>1. ClientTypes
  <2>1. m_cqState \in [Cqs -> States] BY SMTT(30) DEF Init, States
  <2> QED BY <2>1 DEF Init, ClientTypes
<1>2. ServiceTypes BY DEF Init, ServiceTypes
<1>3. ServerTypes
  <2>1. PICK n \in 0..(m_redundancyLevel + 1) : m_redundantEndpoints \in [1..n -> up]
    BY DEF Init
  <2>2. up \subseteq Servers /\ gone \subseteq Names BY DEF Init
  <2>3. n \in Nat BY SMTT(30)
  <2>4. m_redundantEndpoints \in Seq(Servers) BY <2>1, <2>2, <2>3, SMTT(30)
  <2>5. cqs \in [Servers -> SUBSET Names] BY SMTT(30) DEF Init
  <2> QED BY <2>2, <2>4, <2>5 DEF ServerTypes
<1>4. LockTypes BY SMTT(30) DEF Init, LockTypes
<1>5. BoundTypes BY CqAssumption, SMTT(30) DEF Init, BoundTypes
<1>6. send = Free /\ send \in Sends /\ send.pc = "free" /\ send.by = NoThread
  BY FreeSend DEF Init, SendFacts
<1>7. th \in [Own -> Tasks] /\ \A t \in Own : th[t] = Idle
  BY IdleTask DEF Init, Own, TaskFacts
<1>8. Shapes BY <1>7, IdleShape DEF Shapes
<1>9. Holds
  <2>1. \A t \in Own : th[t].pc \notin Waiting BY <1>7, IdleShape
  <2> QED BY <1>6, <2>1, SMTT(30) DEF Holds
<1>10. Named
  <2> SUFFICES ASSUME NEW n \in Names, m_cqQueryMap[n] # NoCq
               PROVE  m_cqName[m_cqQueryMap[n]] = n
    BY DEF Named
  <2>1. m_cqQueryMap[n] = CHOOSE c \in Cqs : m_cqName[c] = n BY DEF Init
  <2>2. \E c \in Cqs : m_cqName[c] = n BY CqAssumption
  <2> QED BY <2>1, <2>2
<1>11. TypeOK
  BY <1>1, <1>2, <1>3, <1>4, <1>5, <1>6, <1>7, TypesSplit DEF OtherTypes
<1> QED BY <1>8, <1>9, <1>10, <1>11 DEF TypesInv

(* The steps of each thread.                                               *)
LEMMA StartKeepsTypes ==
  ASSUME TypesInv, NEW t \in Threads, Start(t) PROVE TypesInv'
  BY newCqTypes, callTypes, bulkTypes, destroyTypes DEF Start

LEMMA WorkKeepsTypes ==
  ASSUME TypesInv, NEW t \in Threads, Work(t) PROVE TypesInv'
<1>1. t \in Own BY OwnThreads
<1> QED
  BY <1>1, ExistsTypes, addCqTypes, LockRedundancyTypes, executeTypes, executeCqTypes,
     stopStepsTypes, closeTypes, AllCqsTypes, closeAllCqsTypes, NextCqTypes,
     BulkDoneTypes, closeServiceTypes, closeCqServiceTypes, cleanupTypes DEF Work

LEMMA ReceiveKeepsTypes ==
  ASSUME TypesInv, Receive PROVE TypesInv'
<1>1. Receiver \in Own BY OwnThreads
<1> QED
  BY <1>1, checkAndAcquireLockTypes, getCqTypes, invokeCqListenersTypes,
     ListenerReturnsTypes, closeTypes, NotifiedTypes DEF Receive

LEMMA SendingKeepsTypes ==
  ASSUME TypesInv, Sending \/ redundancy PROVE TypesInv'
  BY ToSecondaryTypes, GiveUpTypes, MaintainTypes, ToPrimaryTypes, DropTypes, JoinTypes,
     JoinsDoneTypes, executeAllCqsTypes, RecoverTypes, RecoverDoneTypes, redundancyTypes
  DEF Sending

LEMMA TypesStep == TypesInv /\ [Next]_vars => TypesInv'
<1> SUFFICES ASSUME TypesInv, [Next]_vars PROVE TypesInv' BY SMTT(30)
<1>1. ASSUME NEW n \in Names, Event(n) \/ RegionDestroyed(n) PROVE TypesInv'
  BY <1>1, EventTypes, RegionDestroyedTypes
<1>2. ASSUME NEW e \in Servers, Crash(e) \/ Restart(e) PROVE TypesInv'
  BY <1>2, CrashTypes, RestartTypes
<1>3. CASE UNCHANGED vars
  <2>1. OtherTypes' /\ Named' /\ UNCHANGED <<send, th>>
    BY <1>3, SendBasics, KeepOthers DEF vars
  <2> QED BY <2>1, QuietTypes
<1> QED BY <1>1, <1>2, <1>3, StartKeepsTypes, WorkKeepsTypes, ReceiveKeepsTypes,
           SendingKeepsTypes DEF Next

LEMMA SpecTypes == Spec => []TypesInv
  BY InitTypes, TypesStep, PTL DEF Spec

(* The CQs, their map, the locks, the request under way and the task of    *)
(* each thread keep their types, whatever races are lost.                  *)
THEOREM TypeCorrect == Spec => []TypeOK
<1>1. TypesInv => TypeOK BY DEF TypesInv
<1> QED BY <1>1, SpecTypes, PTL

-----------------------------------------------------------------------------
(* What the step of a thread does to its task.                             *)

(* It goes on to pc with the same CQ.                                      *)
LEMMA GoesOn ==
  ASSUME TypesInv, NEW t \in Own, NEW pc \in Pcs, Goto(t, pc)
  PROVE  /\ Becomes(t, th'[t]) /\ th'[t].pc = pc /\ th'[t].op = th[t].op
         /\ th'[t].cq = th[t].cq /\ th'[t].todo = th[t].todo
<1>1. Goes(t, pc) BY Basics, GotoGoes
<1> QED BY <1>1 DEF Goes, TaskFacts

(* The operation is over, or the next CQ is to be taken.                   *)
Ended(r, x) ==
  \/ x = Idle /\ r.op \notin Bulk \cup {"destroy", "destroyRegion"}
  \/ /\ x.op = r.op /\ x.cq = r.cq /\ x.todo = r.todo
     /\ \/ r.op \in Bulk \cup {"destroy"} /\ x.pc = "next"
        \/ r.op \in Bulk /\ x.pc = "unlock"
        \/ r.op = "destroyRegion" /\ x.pc = "release"

LEMMA OverEnded ==
  ASSUME NEW r, NEW x, Over(r, x) PROVE Ended(r, x)
  BY DEF Over, Ended, TaskFacts

LEMMA ReturnEnds ==
  ASSUME TypesInv, NEW t \in Own, Return(t)
  PROVE  Becomes(t, th'[t]) /\ Ended(th[t], th'[t])
<1>1. Becomes(t, th'[t]) /\ Over(th[t], th'[t]) BY Basics, Returns
<1> QED BY <1>1, OverEnded

LEMMA ThrowEnds ==
  ASSUME TypesInv, NEW t \in Own, Throw(t)
  PROVE  Becomes(t, th'[t]) /\ Ended(th[t], th'[t])
<1>1. /\ Becomes(t, th'[t])
      /\ \/ Over(th[t], th'[t])
         \/ /\ th[t].op \in Bulk
            /\ TaskFacts(th'[t], "unlock", th[t].op, th[t].cq, th[t].todo)
  BY Basics, Throws
<1>2. CASE Over(th[t], th'[t]) BY <1>1, <1>2, OverEnded
<1>3. CASE /\ th[t].op \in Bulk
           /\ TaskFacts(th'[t], "unlock", th[t].op, th[t].cq, th[t].todo)
  BY <1>1, <1>3 DEF Ended, TaskFacts
<1> QED BY <1>1, <1>2, <1>3

LEMMA IdleFields == Idle.pc = "idle" /\ Idle.op = "none" /\ Idle.cq = NoCq
  BY IdleTask DEF TaskFacts

LEMMA BecomesIdle ==
  ASSUME TypesInv, NEW t \in Own, th' = [th EXCEPT ![t] = Idle]
  PROVE  Becomes(t, th'[t]) /\ th'[t] = Idle
<1>1. Becomes(t, Idle) BY Basics, IdleTask, Puts DEF TaskFacts
<1> QED BY <1>1 DEF Becomes

(* One operation of t on its CQ goes on or ends.                           *)
Continues(t) ==
  /\ Becomes(t, th'[t])
  /\ \/ Ended(th[t], th'[t])
     \/ /\ th'[t].op = th[t].op /\ th'[t].cq = th[t].cq
        /\ th'[t].todo = th[t].todo /\ th'[t].pc \in NeedsCq
        /\ th'[t].pc \notin {"acquire", "find", "running", "listener"}

LEMMA GotoContinues ==
  ASSUME TypesInv, NEW t \in Own, NEW pc, Goto(t, pc), pc \in NeedsCq,
         pc \notin {"acquire", "find", "running", "listener"}
  PROVE  Continues(t)
<1>1. pc \in Pcs BY DEF NeedsCq
<1> QED BY <1>1, GoesOn DEF Continues

LEMMA EndContinues ==
  ASSUME TypesInv, NEW t \in Own, Return(t) \/ Throw(t)
  PROVE  Continues(t)
  BY ReturnEnds, ThrowEnds DEF Continues

(* The steps of an operation on one CQ.                                    *)
Acts(t) ==
  LockRedundancy(t) \/ execute(t) \/ executeCq(t) \/ stopSteps(t) \/ close(t)

Acting ==
  NeedsCq \ {"exists", "add", "sent", "acquire", "find", "running", "listener"}

LEMMA ActsContinue ==
  ASSUME TypesInv, NEW t \in Own, Acts(t)
  PROVE  /\ Continues(t) /\ th[t].pc \in Acting
         /\ UNCHANGED <<service, readers, writer, semaphore, mapLock>>
<1>0. /\ {"execute", "sent", "ran", "stopSend", "stopCheck", "stopSet", "closingSet",
          "closeSend", "closedCheck", "closedSet", "remove"} \subseteq NeedsCq
      /\ {"acquire", "find", "running", "listener"}
           \cap {"execute", "sent", "ran", "stopSend", "stopCheck", "stopSet",
                 "closingSet", "closeSend", "closedCheck", "closedSet", "remove"} = {}
  BY SMTT(30) DEF NeedsCq, Pcs
<1>1. CASE LockRedundancy(t)
  <2>1. Continues(t) BY <1>0, <1>1, GotoContinues, SMTT(30) DEF LockRedundancy
  <2> QED BY <1>1, <2>1, SMTT(30) DEF LockRedundancy, At, Acting, NeedsCq, Pcs, locks
<1>2. CASE execute(t)
  <2>1. Continues(t) BY <1>0, <1>2, GotoContinues, EndContinues, SMTT(30) DEF execute
  <2> QED BY <1>2, <2>1, SMTT(30) DEF execute, At, Acting, NeedsCq, Pcs
<1>3. CASE executeCq(t)
  <2>1. Continues(t) BY <1>3, EndContinues, SMTT(30) DEF executeCq
  <2> QED BY <1>3, <2>1 DEF executeCq, At, Acting, NeedsCq, Pcs
<1>4. CASE stop(t)
  <2>1. Continues(t) BY <1>0, <1>4, GotoContinues, EndContinues, SMTT(30) DEF stop
  <2> QED BY <1>4, <2>1 DEF stop, At, Acting, NeedsCq, Pcs, locks
<1>5. ASSUME NEW pc \in {"stopSend", "closeSend"}, NEW msg,
             NEW next \in {"stopCheck", "closedCheck"},
             sendStopOrClose(t, pc, msg, next)
      PROVE  /\ Continues(t) /\ th[t].pc \in Acting
             /\ UNCHANGED <<service, readers, writer, semaphore, mapLock>>
  <2>1. Continues(t) BY <1>0, <1>5, GotoContinues, SMTT(30) DEF sendStopOrClose
  <2> QED BY <1>5, <2>1 DEF sendStopOrClose, At, Acting, NeedsCq, Pcs, locks
<1>6. ASSUME NEW pc \in {"stopCheck", "close", "closedCheck"},
             NEW next \in {"stopSet", "closingSet", "closedSet"},
             setCqStateCheck(t, pc, next)
      PROVE  /\ Continues(t) /\ th[t].pc \in Acting
             /\ UNCHANGED <<service, readers, writer, semaphore, mapLock>>
  <2>1. Continues(t) BY <1>0, <1>6, GotoContinues, EndContinues, SMTT(30) DEF setCqStateCheck
  <2>2. th[t].pc = pc BY <1>6 DEF setCqStateCheck, At
  <2>3. pc \in Acting BY <1>6, SMTT(30) DEF Acting, NeedsCq, Pcs
  <2>4. UNCHANGED <<service, readers, writer, semaphore, mapLock>>
    BY <1>6 DEF setCqStateCheck, locks
  <2> QED BY <2>1, <2>2, <2>3, <2>4
<1>7. ASSUME NEW pc \in {"stopSet", "closingSet", "closedSet"}, NEW state,
             setCqState(t, pc, state),
             \/ Return(t) \/ Goto(t, "closeSend") \/ Goto(t, "closedCheck")
             \/ Goto(t, "remove")
      PROVE  /\ Continues(t) /\ th[t].pc \in Acting
             /\ UNCHANGED <<service, readers, writer, semaphore, mapLock>>
  <2>1. Continues(t) BY <1>0, <1>7, GotoContinues, EndContinues, SMTT(30)
  <2> QED BY <1>7, <2>1 DEF setCqState, At, Acting, NeedsCq, Pcs, locks
<1>8. CASE removeCq(t)
  <2>1. Continues(t) BY <1>8, EndContinues, SMTT(30) DEF removeCq
  <2> QED BY <1>8, <2>1 DEF removeCq, At, Acting, NeedsCq, Pcs, locks
<1>9. CASE stopSteps(t)
  BY <1>4, <1>5, <1>6, <1>7, <1>9 DEF stopSteps
<1>10. CASE close(t)
  BY <1>5, <1>6, <1>7, <1>8, <1>10 DEF close
<1> QED BY <1>1, <1>2, <1>3, <1>9, <1>10 DEF Acts

(* A request goes on or ends.                                              *)
LEMMA SendingContinues ==
  ASSUME TypesInv, Sending
  PROVE  /\ \/ UNCHANGED th
            \/ /\ send.by \in Threads /\ Continues(send.by)
               /\ th[send.by].pc = "sent" /\ send.pc \in {"attempt", "primary"}
         /\ UNCHANGED <<service, writer, semaphore, mapLock, m_cqQueryMap, m_cqState>>
<1>1. ASSUME Serves, send.pc \in {"attempt", "primary"}, Fail \/ Succeed
      PROVE  send.by \in Threads /\ Continues(send.by) /\ th[send.by].pc = "sent"
  <2>1. send.by \in Threads /\ th[send.by].pc = "sent" /\ send.by \in Own
    BY <1>1, OwnThreads DEF Serves
  <2>2. /\ {"ran", "stopCheck", "closedCheck"} \subseteq NeedsCq
        /\ {"ran", "stopCheck", "closedCheck"}
             \cap {"acquire", "find", "running", "listener"} = {}
    BY SMTT(30) DEF NeedsCq, Pcs
  <2>3. CASE Fail
    BY <2>1, <2>2, <2>3, GotoContinues, EndContinues, SMTT(30) DEF Fail
  <2>4. CASE Succeed
    <3>1. Place \in {"ran", "stopCheck", "closedCheck"}
      BY <1>1, SendBasics, SendFields, SMTT(30) DEF Serves, Place
    <3>2. Goto(send.by, Place) BY <2>4 DEF Succeed, Place
    <3> QED BY <2>1, <2>2, <3>1, <3>2, GotoContinues, SMTT(30)
  <2> QED BY <1>1, <2>1, <2>3, <2>4
<1>2. ASSUME send.pc \in {"attempt", "primary"} PROVE Serves BY <1>2, RequestOf, SMTT(30)
<1>3. CASE GiveUp
  <2>1. send.pc = "attempt" /\ Fail BY <1>3 DEF GiveUp, Tries
  <2> QED BY <1>1, <1>2, <1>3, <2>1, SMTT(30) DEF GiveUp, client
<1>4. CASE ToPrimary
  <2>1. send.pc \in {"attempt", "primary"} BY <1>4, SMTT(30) DEF ToPrimary, Tries
  <2>2. UNCHANGED th \/ Fail \/ Succeed BY <1>4 DEF ToPrimary
  <2> QED BY <1>1, <1>2, <1>4, <2>1, <2>2, SMTT(30) DEF ToPrimary, client
<1>5. CASE ToSecondary \/ Maintain \/ Drop \/ Join \/ JoinsDone
  BY <1>5 DEF ToSecondary, Maintain, Drop, Join, JoinsDone, client, locks
<1>6. CASE executeAllCqs \/ (\E c \in Cqs : Recover(c)) \/ RecoverDone
  BY <1>6 DEF executeAllCqs, Recover, RecoverDone, client, locks
<1> QED BY <1>3, <1>4, <1>5, <1>6 DEF Sending

-----------------------------------------------------------------------------
(* The notification semaphore, between the receiver and destroy.           *)

Calling == {"find", "running", "listener"}

QuietInv ==
  /\ th[Receiver].pc \notin {"idle", "acquire"} => semaphore = Receiver
  /\ \A t \in Threads : th[t].op = "destroy" =>
       /\ th[t].pc # "unique" => ~m_running
       /\ th[t].pc \notin {"unique", "drain"} => semaphore = t
  /\ ~m_cqService => ~m_running
  /\ NoLateListener

(* A step of a thread that neither releases nor acquires the semaphore.    *)
LEMMA QuietKept ==
  ASSUME QuietInv, NEW t \in Own, Becomes(t, th'[t]),
         UNCHANGED <<semaphore, m_running, m_cqService>>,
         t = Receiver =>
           /\ th'[t].pc \in {"idle", "acquire"} \/ th[t].pc \notin {"idle", "acquire"}
           /\ th'[t].pc \in Calling => th[t].pc \in Calling,
         t # Receiver =>
           (th'[t].op = "destroy" =>
              \/ th'[t].pc = "unique"
              \/ th[t].op = "destroy" /\ th[t].pc \notin {"unique", "drain"})
  PROVE  QuietInv'
<1>0. Receiver \in Own /\ Threads \subseteq Own /\ Receiver \notin Threads
  BY OwnThreads
<1>1. th'[Receiver].pc \notin {"idle", "acquire"} => semaphore' = Receiver
  BY <1>0 DEF QuietInv, Becomes
<1>2. ASSUME NEW u \in Threads, th'[u].op = "destroy"
      PROVE  /\ th'[u].pc # "unique" => ~m_running'
             /\ th'[u].pc \notin {"unique", "drain"} => semaphore' = u
  <2>1. CASE u = t BY <1>0, <1>2, <2>1, SMTT(30) DEF QuietInv
  <2>2. CASE u # t
    <3>1. th'[u] = th[u] BY <1>0, <2>2 DEF Becomes
    <3> QED BY <1>2, <3>1 DEF QuietInv
  <2> QED BY <2>1, <2>2
<1>3. NoLateListener'
  <2>1. CASE t = Receiver
    BY <2>1 DEF QuietInv, NoLateListener, Calling
  <2>2. CASE t # Receiver
    <3>1. th'[Receiver] = th[Receiver] BY <1>0, <2>2 DEF Becomes
    <3> QED BY <3>1 DEF QuietInv, NoLateListener
  <2> QED BY <2>1, <2>2
<1>4. ~m_cqService' => ~m_running' BY DEF QuietInv
<1> QED BY <1>1, <1>2, <1>3, <1>4 DEF QuietInv

LEMMA QuietContinues ==
  ASSUME TypesInv, QuietInv, NEW t \in Own, Continues(t),
         th[t].pc \in Acting \cup {"sent"},
         UNCHANGED <<service, semaphore>>
  PROVE  QuietInv'
<1>1. th[t].pc \notin {"idle", "acquire", "unique", "drain"}
  BY SMTT(30) DEF Acting, NeedsCq
<1>2. th'[t].pc \notin Calling
  <2>1. CASE Ended(th[t], th'[t])
    BY <2>1, IdleFields, SMTT(30) DEF Ended, Calling
  <2>2. CASE ~Ended(th[t], th'[t])
    BY <2>2, SMTT(30) DEF Continues, Calling
  <2> QED BY <2>1, <2>2
<1>3. th'[t].op = "destroy" => th[t].op = "destroy"
  <2>1. CASE Ended(th[t], th'[t])
    BY <2>1, IdleFields, SMTT(30) DEF Ended
  <2>2. CASE ~Ended(th[t], th'[t])
    BY <2>2 DEF Continues
  <2> QED BY <2>1, <2>2
<1>4. UNCHANGED <<semaphore, m_running, m_cqService>> BY DEF service
<1> QED BY <1>1, <1>2, <1>3, <1>4, QuietKept DEF Continues

(* A step that no thread's task takes part in.                             *)
LEMMA QuietSame ==
  ASSUME QuietInv, UNCHANGED <<service, semaphore, th>>
  PROVE  QuietInv'
  BY DEF QuietInv, NoLateListener, service

(* An operation that is not the destruction of the pool begins or goes on. *)
LEMMA QuietOther ==
  ASSUME TypesInv, QuietInv, NEW t \in Threads, Becomes(t, th'[t]),
         UNCHANGED <<service, semaphore>>,
         \/ th'[t].op # "destroy"
         \/ th[t].op = "destroy" /\ th[t].pc \notin {"unique", "drain"}
  PROVE  QuietInv'
<1>1. t \in Own /\ t # Receiver BY OwnThreads
<1>2. UNCHANGED <<semaphore, m_running, m_cqService>> BY DEF service
<1> QED BY <1>1, <1>2, QuietKept

-----------------------------------------------------------------------------
(* What the other steps do to the task of their thread.                    *)

TaskIs(t, pc, op, cq, todo) ==
  /\ Becomes(t, th'[t]) /\ th'[t].pc = pc /\ th'[t].op = op /\ th'[t].cq = cq
  /\ th'[t].todo = todo

LEMMA PutTask ==
  ASSUME TypesInv, NEW t \in Own, NEW r, NEW pc, NEW op, NEW cq, NEW todo,
         TaskFacts(r, pc, op, cq, todo), th' = [th EXCEPT ![t] = r]
  PROVE  TaskIs(t, pc, op, cq, todo)
<1>1. r \in Tasks BY DEF TaskFacts
<1>2. Becomes(t, r) BY <1>1, Basics, Puts
<1> QED BY <1>2 DEF TaskIs, TaskFacts, Becomes

LEMMA GotoTask ==
  ASSUME TypesInv, NEW t \in Own, NEW pc \in Pcs, Goto(t, pc)
  PROVE  TaskIs(t, pc, th[t].op, th[t].cq, th[t].todo)
  BY GoesOn DEF TaskIs

LEMMA newCqTask ==
  ASSUME TypesInv, NEW t \in Threads, NEW c \in Cqs, newCq(t, c)
  PROVE  TaskIs(t, "exists", "newCq", c, {})
<1>a. t \in Own BY OwnThreads
<1> DEFINE r == [Idle EXCEPT !.op = "newCq", !.cq = c, !.pc = "exists"]
<1>3. th' = [th EXCEPT ![t] = r] BY DEF newCq
<1>4. TaskFacts(r, "exists", "newCq", c, {})
  <2>1. "exists" \in Pcs /\ "newCq" \in Ops BY SMTT(30) DEF Pcs, Ops
  <2>2. c \in Cqs \cup {NoCq} BY SMTT(30)
  <2> QED BY <2>1, <2>2, NewTask
<1> HIDE DEF r
<1> QED BY <1>a, <1>3, <1>4, PutTask

LEMMA EntryPlace ==
  ASSUME NEW op \in Ops
  PROVE  /\ Entry(op) \in {"lock", "stop", "close"} /\ Entry(op) \in Pcs
         /\ Entry(op) = "lock" <=> op \in Executes
         /\ Entry(op) = "stop" <=> op \in Stops
  BY SMTT(30) DEF Entry, Pcs, Executes, Stops

LEMMA callTask ==
  ASSUME TypesInv, NEW t \in Threads, NEW op \in {"execute", "stop", "close"},
         NEW c \in Cqs, call(t, op, c)
  PROVE  TaskIs(t, Entry(op), op, c, {})
<1>a. t \in Own BY OwnThreads
<1> DEFINE pc == Entry(op)
           r == [Idle EXCEPT !.op = op, !.cq = c, !.pc = pc]
<1>3. th' = [th EXCEPT ![t] = r] BY DEF call
<1>4. op \in Ops BY SMTT(30) DEF Ops
<1>5. pc \in Pcs BY <1>4, EntryPlace
<1> HIDE DEF pc
<1>6. TaskFacts(r, pc, op, c, {})
  <2>2. c \in Cqs \cup {NoCq} BY SMTT(30)
  <2> QED BY <1>4, <1>5, <2>2, NewTask
<1> HIDE DEF r
<1>7. TaskIs(t, pc, op, c, {}) BY <1>a, <1>3, <1>6, PutTask
<1> QED BY <1>7 DEF pc

LEMMA bulkTask ==
  ASSUME TypesInv, NEW t \in Threads, NEW op \in Bulk, bulk(t, op)
  PROVE  TaskIs(t, "shared", op, NoCq, {})
<1>a. t \in Own BY OwnThreads
<1> DEFINE r == [Idle EXCEPT !.op = op, !.pc = "shared"]
<1>3. th' = [th EXCEPT ![t] = r] BY DEF bulk
<1>4. TaskFacts(r, "shared", op, NoCq, {})
  <2>1. "shared" \in Pcs /\ op \in Ops BY SMTT(30) DEF Pcs, Ops, Bulk
  <2>2. NoCq \in Cqs \cup {NoCq} BY SMTT(30)
  <2> QED BY <2>1, <2>2, NewTask
<1> HIDE DEF r
<1> QED BY <1>a, <1>3, <1>4, PutTask

LEMMA destroyTask ==
  ASSUME TypesInv, NEW t \in Threads, destroy(t)
  PROVE  TaskIs(t, "unique", "destroy", NoCq, {})
<1>a. t \in Own BY OwnThreads
<1> DEFINE r == [Idle EXCEPT !.op = "destroy", !.pc = "unique"]
<1>3. th' = [th EXCEPT ![t] = r] BY DEF destroy
<1>4. TaskFacts(r, "unique", "destroy", NoCq, {})
  <2>1. "unique" \in Pcs /\ "destroy" \in Ops BY SMTT(30) DEF Pcs, Ops
  <2>2. NoCq \in Cqs \cup {NoCq} BY SMTT(30)
  <2> QED BY <2>1, <2>2, NewTask
<1> HIDE DEF r
<1> QED BY <1>a, <1>3, <1>4, PutTask

LEMMA AllCqsTask ==
  ASSUME TypesInv, NEW t \in Threads, AllCqs(t)
  PROVE  TaskIs(t, IF th[t].op = "closeCqs" THEN "mapLock" ELSE "next",
                th[t].op, th[t].cq, InMap)
<1>a. t \in Own BY OwnThreads
<1>0. OtherTypes /\ th[t] \in Tasks /\ th \in [Own -> Tasks] BY <1>a, Basics
<1> DEFINE pc == IF th[t].op = "closeCqs" THEN "mapLock" ELSE "next"
           todo == InMap
           r == [th[t] EXCEPT !.todo = todo, !.pc = pc]
<1>4. todo \in SUBSET Cqs /\ pc \in Pcs BY <1>0, InMapCqs, SMTT(30) DEF Pcs, OtherTypes
<1>5. th' = [th EXCEPT ![t] = r] BY <1>0 DEF AllCqs
<1> HIDE DEF pc, todo
<1>6. TaskFacts(r, pc, th[t].op, th[t].cq, todo)
  <2>1. NoCq \in Cqs \cup {NoCq} BY SMTT(30)
  <2> QED BY <1>0, <1>4, <2>1, ChangedTask
<1> HIDE DEF r
<1>7. TaskIs(t, pc, th[t].op, th[t].cq, todo) BY <1>a, <1>5, <1>6, PutTask
<1> QED BY <1>7 DEF pc, todo

LEMMA NextCqTask ==
  ASSUME TypesInv, NEW t \in Threads, NextCq(t)
  PROVE  \E c \in th[t].todo :
           /\ c \in Cqs /\ CanLock(m_mutex[c], t)
           /\ TaskIs(t, IF Takes(th[t].op, m_cqState[c]) THEN Entry(th[t].op)
                        ELSE "next", th[t].op, c, th[t].todo \ {c})
<1>a. t \in Own BY OwnThreads
<1>0. th[t] \in Tasks /\ th \in [Own -> Tasks] BY <1>a, Basics
<1>1. th[t].pc = "next" BY SMTT(30) DEF NextCq, At
<1>3. PICK c \in th[t].todo :
        /\ CanLock(m_mutex[c], t)
        /\ th' = [th EXCEPT ![t].todo = @ \ {c}, ![t].cq = c,
                            ![t].pc = IF Takes(th[t].op, m_cqState[c])
                                      THEN Entry(th[t].op) ELSE @]
  BY DEF NextCq
<1>4. c \in Cqs /\ th[t].todo \ {c} \in SUBSET Cqs /\ th[t].op \in Ops
  BY <1>0, TaskTypes, SMTT(30)
<1> DEFINE pc == IF Takes(th[t].op, m_cqState[c]) THEN Entry(th[t].op)
                 ELSE "next"
           todo == th[t].todo \ {c}
           r == [th[t] EXCEPT !.todo = todo, !.cq = c, !.pc = pc]
<1>5. th' = [th EXCEPT ![t] = r] BY <1>0, <1>1, <1>3
<1>6. pc \in Pcs
  <2>1. "next" \in Pcs BY SMTT(30) DEF Pcs
  <2> QED BY <1>4, <2>1, EntryPlace
<1> HIDE DEF pc, todo
<1>8. TaskFacts(r, pc, th[t].op, c, todo)
  <2>1. todo \in SUBSET Cqs /\ c \in Cqs \cup {NoCq} BY <1>4 DEF todo
  <2> QED BY <1>0, <1>6, <2>1, ChangedTask
<1> HIDE DEF r
<1>9. TaskIs(t, pc, th[t].op, c, todo) BY <1>a, <1>5, <1>8, PutTask
<1> QED BY <1>3, <1>4, <1>9 DEF pc, todo

LEMMA closeCqServiceTask ==
  ASSUME TypesInv, NEW t \in Threads, closeCqService(t)
  PROVE  TaskIs(t, "mapLock", th[t].op, th[t].cq, InMap)
<1>a. t \in Own BY OwnThreads
<1>0. OtherTypes /\ th[t] \in Tasks /\ th \in [Own -> Tasks] BY <1>a, Basics
<1> DEFINE todo == InMap
           r == [th[t] EXCEPT !.todo = todo, !.pc = "mapLock"]
<1>4. todo \in SUBSET Cqs /\ "mapLock" \in Pcs BY <1>0, InMapCqs, SMTT(30) DEF Pcs, OtherTypes
<1>5. th' = [th EXCEPT ![t] = r] BY <1>0 DEF closeCqService
<1> HIDE DEF todo
<1>6. TaskFacts(r, "mapLock", th[t].op, th[t].cq, todo)
  <2>1. NoCq \in Cqs \cup {NoCq} BY SMTT(30)
  <2> QED BY <1>0, <1>4, <2>1, ChangedTask
<1> HIDE DEF r
<1>7. TaskIs(t, "mapLock", th[t].op, th[t].cq, todo)
  BY <1>a, <1>5, <1>6, PutTask
<1> QED BY <1>7 DEF todo

LEMMA receiveTask ==
  ASSUME TypesInv, NEW op \in Notices, NEW n \in Names, receiveNotification(op, n)
  PROVE  /\ TaskIs(Receiver, "acquire", op, Message(op, n).cq, {})
         /\ Message(op, n).cq \in Cqs /\ m_cqName[Message(op, n).cq] = n
         /\ th[Receiver].pc = "idle" /\ m_running /\ m_cqService
<1>a. Receiver \in Own BY OwnThreads
<1> DEFINE r == Message(op, n)
<1>1. /\ r \in Tasks /\ r.pc = "acquire" /\ r.op = op /\ r.cq \in Cqs
      /\ m_cqName[r.cq] = n
  BY MessageTask
<1>2. r.todo = {} BY SMTT(30) DEF Message
<1>3. th' = [th EXCEPT ![Receiver] = r] BY DEF receiveNotification
<1> HIDE DEF r
<1>4. TaskFacts(r, "acquire", op, r.cq, {}) BY <1>1, <1>2 DEF TaskFacts
<1>5. TaskIs(Receiver, "acquire", op, r.cq, {})
  BY <1>a, <1>3, <1>4, PutTask
<1> QED BY <1>1, <1>5 DEF r, receiveNotification, CanReceive, At

Found == m_cqQueryMap[m_cqName[th[Receiver].cq]]

LEMMA getCqTask ==
  ASSUME TypesInv, getCq
  PROVE  /\ TaskIs(Receiver, IF Found = NoCq THEN "release" ELSE "running",
                   th[Receiver].op, Found, th[Receiver].todo)
         /\ Found \in Cqs \cup {NoCq} /\ th[Receiver].cq \in Cqs
         /\ Found # NoCq => m_cqName[Found] = m_cqName[th[Receiver].cq]
<1>a. Receiver \in Own BY OwnThreads
<1>0. /\ OtherTypes /\ th \in [Own -> Tasks] /\ Named
      /\ th[Receiver] \in Tasks /\ Shape(Receiver, th[Receiver])
  BY <1>a, Basics
<1>1. th[Receiver].pc = "find" BY SMTT(30) DEF getCq, At
<1>2. th[Receiver].cq \in Cqs BY <1>0, <1>1, SMTT(30) DEF Shape, NeedsCq, Pcs
<1>3. m_cqName[th[Receiver].cq] \in Names BY <1>2, CqAssumption, SMTT(30)
<1> DEFINE c == Found
           pc == IF c = NoCq THEN "release" ELSE "running"
           r == [th[Receiver] EXCEPT !.cq = c, !.pc = pc]
<1>4. c \in Cqs \cup {NoCq} BY <1>0, <1>3 DEF OtherTypes, ClientTypes, Found
<1>5. pc \in Pcs BY SMTT(30) DEF Pcs
<1>6. th' = [th EXCEPT ![Receiver] = r] BY <1>0 DEF getCq, Found
<1>b. c # NoCq => m_cqName[c] = m_cqName[th[Receiver].cq]
  BY <1>0, <1>3 DEF Named, Found
<1> HIDE DEF c, pc
<1>7. TaskFacts(r, pc, th[Receiver].op, c, th[Receiver].todo)
  <2>1. {} \in SUBSET Cqs BY SMTT(30)
  <2> QED BY <1>0, <1>4, <1>5, <2>1, ChangedTask
<1> HIDE DEF r
<1>8. TaskIs(Receiver, pc, th[Receiver].op, c, th[Receiver].todo)
  BY <1>a, <1>6, <1>7, PutTask
<1> QED BY <1>2, <1>4, <1>8, <1>b DEF c, pc

LEMMA invokeTask ==
  ASSUME TypesInv, invokeCqListeners
  PROVE  \E pc \in {"release", "listener", "close"} :
           /\ TaskIs(Receiver, pc, th[Receiver].op, th[Receiver].cq,
                     th[Receiver].todo)
           /\ pc = "close" => th[Receiver].op = "destroyRegion"
<1>a. Receiver \in Own BY OwnThreads
<1>0. Shape(Receiver, th[Receiver]) BY <1>a, Basics
<1>1. th[Receiver].pc = "running" BY SMTT(30) DEF invokeCqListeners, At
<1>3. PICK pc : /\ Goto(Receiver, pc)
                /\ \/ pc = "release"
                   \/ pc = "listener" /\ th[Receiver].op = "event"
                   \/ pc = "close" /\ th[Receiver].op # "event"
  BY DEF invokeCqListeners
<1>4. th[Receiver].op \in Notices BY <1>0, <1>1, SMTT(30) DEF Shape
<1>5. pc \in Pcs /\ pc \in {"release", "listener", "close"} BY <1>3, SMTT(30) DEF Pcs
<1>6. TaskIs(Receiver, pc, th[Receiver].op, th[Receiver].cq, th[Receiver].todo)
  BY <1>a, <1>3, <1>5, GotoTask
<1>7. pc = "close" => th[Receiver].op = "destroyRegion" BY <1>3, <1>4, SMTT(30) DEF Notices
<1> QED BY <1>5, <1>6, <1>7

-----------------------------------------------------------------------------

LEMMA QuietWork ==
  ASSUME TypesInv, QuietInv, NEW t \in Threads, Work(t)
  PROVE  QuietInv'
<1>a. t \in Own /\ t # Receiver /\ Receiver \in Own BY OwnThreads
<1>i. Idle.op # "destroy" /\ Idle.op = "none" BY IdleFields, SMTT(30)
<1>1. CASE Acts(t)
  BY <1>1, <1>a, ActsContinue, QuietContinues
<1>2. CASE Exists(t)
  <2>0. "add" \in Pcs BY SMTT(30) DEF Pcs
  <2>1. TaskIs(t, "add", th[t].op, th[t].cq, th[t].todo)
          \/ (Becomes(t, th'[t]) /\ th'[t] = Idle)
    BY <1>2, <1>a, <2>0, GotoTask, BecomesIdle DEF Exists
  <2>2. th[t].pc = "exists" /\ th[t].pc \notin {"unique", "drain"}
    BY <1>2, SMTT(30) DEF Exists, At
  <2>3. UNCHANGED <<service, semaphore>> BY <1>2 DEF Exists
  <2> QED BY <1>i, <2>1, <2>2, <2>3, QuietOther DEF TaskIs
<1>3. CASE addCq(t)
  <2>1. Becomes(t, th'[t]) /\ th'[t] = Idle
    BY <1>3, <1>a, BecomesIdle DEF addCq
  <2>3. UNCHANGED <<service, semaphore>> BY <1>3 DEF addCq
  <2> QED BY <1>i, <2>1, <2>3, QuietOther
<1>4. CASE AllCqs(t)
  <2>1. Becomes(t, th'[t]) /\ th'[t].op = th[t].op
    BY <1>4, AllCqsTask DEF TaskIs
  <2>2. th[t].pc \notin {"unique", "drain"} BY <1>4, SMTT(30) DEF AllCqs, At
  <2>3. UNCHANGED <<service, semaphore>> BY <1>4 DEF AllCqs
  <2> QED BY <2>1, <2>2, <2>3, QuietOther
<1>5. CASE closeAllCqs(t)
  <2>0. "next" \in Pcs BY SMTT(30) DEF Pcs
  <2>1. Becomes(t, th'[t]) /\ th'[t].op = th[t].op
    BY <1>5, <1>a, <2>0, GotoTask DEF TaskIs, closeAllCqs
  <2>2. th[t].pc \notin {"unique", "drain"} BY <1>5, SMTT(30) DEF closeAllCqs, At
  <2>3. UNCHANGED <<service, semaphore>> BY <1>5 DEF closeAllCqs
  <2> QED BY <2>1, <2>2, <2>3, QuietOther
<1>6. CASE NextCq(t)
  <2>1. Becomes(t, th'[t]) /\ th'[t].op = th[t].op
    BY <1>6, NextCqTask DEF TaskIs
  <2>2. th[t].pc \notin {"unique", "drain"} BY <1>6, SMTT(30) DEF NextCq, At
  <2>3. UNCHANGED <<service, semaphore>> BY <1>6 DEF NextCq, locks
  <2> QED BY <2>1, <2>2, <2>3, QuietOther
<1>7. CASE BulkDone(t)
  <2>1. Becomes(t, th'[t]) /\ th'[t] = Idle
    BY <1>7, <1>a, BecomesIdle DEF BulkDone
  <2>3. UNCHANGED <<service, semaphore>> BY <1>7 DEF BulkDone
  <2> QED BY <1>i, <2>1, <2>3, QuietOther
<1>8. CASE closeService(t)
  <2>0. "drain" \in Pcs BY SMTT(30) DEF Pcs
  <2>1. TaskIs(t, "drain", th[t].op, th[t].cq, th[t].todo)
    BY <1>8, <1>a, <2>0, GotoTask DEF closeService
  <2>2. ~m_running' /\ semaphore' = semaphore /\ m_cqService' = m_cqService
    BY <1>8 DEF closeService
  <2>3. th'[Receiver] = th[Receiver] BY <1>a, <2>1 DEF TaskIs, Becomes
  <2>4. ASSUME NEW u \in Threads, th'[u].op = "destroy"
        PROVE  th'[u].pc \notin {"unique", "drain"} => semaphore' = u
    <3>1. CASE u = t BY <2>1, <3>1, SMTT(30) DEF TaskIs
    <3>2. CASE u # t
      <4>1. th'[u] = th[u] BY <2>1, <3>2, OwnThreads DEF TaskIs, Becomes
      <4> QED BY <2>2, <2>4, <4>1 DEF QuietInv
    <3> QED BY <3>1, <3>2
  <2> QED BY <2>2, <2>3, <2>4 DEF QuietInv, NoLateListener
<1>9. CASE closeCqService(t)
  <2>1. TaskIs(t, "mapLock", th[t].op, th[t].cq, InMap)
    BY <1>9, closeCqServiceTask
  <2>2. semaphore = NoThread /\ semaphore' = t /\ UNCHANGED service /\ th[t].pc = "drain"
    BY <1>9 DEF closeCqService, At
  <2>3. th'[Receiver] = th[Receiver] BY <1>a, <2>1 DEF TaskIs, Becomes
  <2>4. th[Receiver].pc \in {"idle", "acquire"}
    BY <2>2, <1>a, OwnThreads DEF QuietInv
  <2>5. ASSUME NEW u \in Threads, th'[u].op = "destroy"
        PROVE  /\ th'[u].pc # "unique" => ~m_running'
               /\ th'[u].pc \notin {"unique", "drain"} => semaphore' = u
    <3>1. CASE u = t BY <2>1, <2>2, <2>5, <3>1 DEF TaskIs, QuietInv, service
    <3>2. CASE u # t
      <4>1. th'[u] = th[u] /\ u # NoThread
        BY <2>1, <3>2, OwnThreads DEF TaskIs, Becomes
      <4> QED BY <2>2, <2>5, <4>1 DEF QuietInv, service
    <3> QED BY <3>1, <3>2
  <2> QED BY <2>2, <2>3, <2>4, <2>5 DEF QuietInv, NoLateListener, service
<1>10. CASE cleanup(t)
  <2>1. Becomes(t, th'[t]) /\ th'[t] = Idle
    BY <1>10, <1>a, BecomesIdle DEF cleanup
  <2>2. th[t].op = "destroy" /\ th[t].pc = "next" BY <1>10 DEF cleanup, At
  <2>3. semaphore = t /\ ~m_running BY <2>2 DEF QuietInv
  <2>4. m_running' = m_running BY <1>10 DEF cleanup
  <2>5. th'[Receiver] = th[Receiver] BY <1>a, <2>1 DEF Becomes
  <2>6. th[Receiver].pc \in {"idle", "acquire"} BY <2>3, <1>a DEF QuietInv
  <2>7. ASSUME NEW u \in Threads, th'[u].op = "destroy"
        PROVE  th'[u].pc \in {"unique", "drain"}
    <3>1. u # t BY <1>i, <2>1, <2>7
    <3>2. th'[u] = th[u] BY <2>1, <3>1, OwnThreads DEF Becomes
    <3> QED BY <2>3, <2>7, <3>1, <3>2 DEF QuietInv
  <2>8. th'[Receiver].pc \notin Calling BY <2>5, <2>6 DEF Calling
  <2> QED BY <2>3, <2>4, <2>5, <2>6, <2>7, <2>8
          DEF QuietInv, NoLateListener, Calling
<1> QED BY <1>1, <1>2, <1>3, <1>4, <1>5, <1>6, <1>7, <1>8, <1>9, <1>10
        DEF Work, Acts

LEMMA QuietStart ==
  ASSUME TypesInv, QuietInv, NEW t \in Threads, Start(t)
  PROVE  QuietInv'
<1>a. t \in Own /\ t # Receiver BY OwnThreads
<1>1. ASSUME NEW c \in Cqs, newCq(t, c) PROVE QuietInv'
  <2>1. Becomes(t, th'[t]) /\ th'[t].op = "newCq"
    BY <1>1, newCqTask DEF TaskIs
  <2>2. UNCHANGED <<service, semaphore>> BY <1>1 DEF newCq
  <2>3. th'[t].op # "destroy" BY <2>1, SMTT(30)
  <2> QED BY <2>1, <2>2, <2>3, QuietOther
<1>2. ASSUME NEW c \in Cqs, NEW op \in {"execute", "stop", "close"}, call(t, op, c)
      PROVE  QuietInv'
  <2>1. Becomes(t, th'[t]) /\ th'[t].op = op
    BY <1>2, callTask DEF TaskIs
  <2>2. UNCHANGED <<service, semaphore>> BY <1>2 DEF call, locks
  <2>3. th'[t].op # "destroy" BY <2>1, SMTT(30)
  <2> QED BY <2>1, <2>2, <2>3, QuietOther
<1>3. ASSUME NEW op \in Bulk, bulk(t, op) PROVE QuietInv'
  <2>1. Becomes(t, th'[t]) /\ th'[t].op = op
    BY <1>3, bulkTask DEF TaskIs
  <2>2. UNCHANGED <<service, semaphore>> BY <1>3 DEF bulk, locks
  <2>3. th'[t].op # "destroy" BY <2>1, SMTT(30) DEF Bulk
  <2> QED BY <2>1, <2>2, <2>3, QuietOther
<1>4. CASE destroy(t)
  <2>1. Becomes(t, th'[t]) /\ th'[t].pc = "unique"
    BY <1>4, destroyTask DEF TaskIs
  <2>2. UNCHANGED <<semaphore, m_running, m_cqService>>
    BY <1>4 DEF destroy, locks
  <2> QED BY <1>a, <2>1, <2>2, QuietKept
<1> QED BY <1>1, <1>2, <1>3, <1>4 DEF Start

LEMMA QuietReceive ==
  ASSUME TypesInv, QuietInv, Receive
  PROVE  QuietInv'
<1>a. Receiver \in Own /\ Receiver \notin Threads /\ NoThread \notin Own
      /\ Threads \subseteq Own
  BY OwnThreads
<1>i. Idle.pc = "idle" BY IdleFields, SMTT(30)
<1>1. CASE checkAndAcquireLock
  <2>1. \/ m_running /\ semaphore' = Receiver /\ Goto(Receiver, "find")
        \/ semaphore' = semaphore /\ th' = [th EXCEPT ![Receiver] = Idle]
    BY <1>1 DEF checkAndAcquireLock
  <2>0. "find" \in Pcs BY SMTT(30) DEF Pcs
  <2>2. /\ Becomes(Receiver, th'[Receiver])
        /\ \/ m_running /\ semaphore' = Receiver
           \/ semaphore' = semaphore /\ th'[Receiver].pc = "idle"
    BY <1>a, <1>i, <2>0, <2>1, GotoTask, BecomesIdle DEF TaskIs
  <2>3. semaphore = NoThread /\ UNCHANGED service
    BY <1>1 DEF checkAndAcquireLock
  <2>4. ASSUME NEW u \in Threads, th'[u].op = "destroy"
        PROVE  /\ th'[u].pc # "unique" => ~m_running'
               /\ th'[u].pc \in {"unique", "drain"}
    <3>1. th'[u] = th[u] /\ u # NoThread BY <1>a, <2>2 DEF Becomes
    <3> QED BY <2>3, <2>4, <3>1 DEF QuietInv, service
  <2>5. th'[Receiver].pc \notin {"idle", "acquire"} => semaphore' = Receiver
    BY <2>2
  <2>6. "idle" \notin Calling BY SMTT(30) DEF Calling
  <2>7. ~m_cqService' => th'[Receiver].pc \notin Calling
    BY <2>2, <2>3, <2>6 DEF QuietInv, service
  <2> QED BY <2>3, <2>4, <2>5, <2>7 DEF QuietInv, NoLateListener, Calling, service
<1>2. ASSUME NEW pc, NEW cq, TaskIs(Receiver, pc, th[Receiver].op, cq, th[Receiver].todo),
             th[Receiver].pc \in Calling, UNCHANGED <<service, semaphore>>
      PROVE  QuietInv'
  <2>1. th[Receiver].pc \notin {"idle", "acquire"} BY <1>2, SMTT(30) DEF Calling
  <2>2. UNCHANGED <<semaphore, m_running, m_cqService>> BY <1>2 DEF service
  <2> QED BY <1>a, <1>2, <2>1, <2>2, QuietKept DEF TaskIs
<1>3. CASE getCq
  <2>1. th[Receiver].pc \in Calling BY <1>3, SMTT(30) DEF getCq, At, Calling
  <2>2. UNCHANGED <<service, semaphore>> BY <1>3 DEF getCq, locks
  <2> QED BY <1>2, <1>3, <2>1, <2>2, getCqTask
<1>4. CASE invokeCqListeners
  <2>1. th[Receiver].pc \in Calling BY <1>4, SMTT(30) DEF invokeCqListeners, At, Calling
  <2>2. UNCHANGED <<service, semaphore>> BY <1>4 DEF invokeCqListeners, locks
  <2> QED BY <1>2, <1>4, <2>1, <2>2, invokeTask
<1>5. CASE ListenerReturns
  <2>0. "release" \in Pcs BY SMTT(30) DEF Pcs
  <2>1. th[Receiver].pc \in Calling BY <1>5, SMTT(30) DEF ListenerReturns, At, Calling
  <2>2. UNCHANGED <<service, semaphore>> BY <1>5 DEF ListenerReturns, locks
  <2>3. TaskIs(Receiver, "release", th[Receiver].op, th[Receiver].cq, th[Receiver].todo)
    BY <1>a, <1>5, <2>0, GotoTask DEF ListenerReturns
  <2> QED BY <1>2, <2>1, <2>2, <2>3
<1>6. CASE close(Receiver)
  <2>1. Acts(Receiver) BY <1>6 DEF Acts
  <2> QED BY <1>a, <2>1, ActsContinue, QuietContinues
<1>7. CASE Notified
  <2>1. Becomes(Receiver, th'[Receiver]) /\ th'[Receiver] = Idle
    BY <1>a, <1>7, BecomesIdle DEF Notified
  <2>2. UNCHANGED service /\ th[Receiver].pc = "release"
    BY <1>7 DEF Notified, At
  <2>3. semaphore = Receiver BY <2>2, SMTT(30) DEF QuietInv
  <2>4. ASSUME NEW u \in Threads, th'[u].op = "destroy"
        PROVE  /\ th'[u].pc # "unique" => ~m_running'
               /\ th'[u].pc \in {"unique", "drain"}
    <3>1. th'[u] = th[u] /\ u # Receiver BY <1>a, <2>1 DEF Becomes
    <3> QED BY <2>2, <2>3, <2>4, <3>1 DEF QuietInv, service
  <2>5. th'[Receiver].pc \in {"idle", "acquire"} /\ th'[Receiver].pc \notin Calling
    BY <1>i, <2>1, SMTT(30) DEF Calling
  <2> QED BY <2>2, <2>4, <2>5 DEF QuietInv, NoLateListener, Calling, service
<1> QED BY <1>1, <1>3, <1>4, <1>5, <1>6, <1>7 DEF Receive

LEMMA QuietStep == TypesInv /\ QuietInv /\ [Next]_vars => QuietInv'
<1> SUFFICES ASSUME TypesInv, QuietInv, [Next]_vars PROVE QuietInv' BY SMTT(30)
<1>a. Receiver \in Own BY OwnThreads
<1>1. ASSUME NEW n \in Names, NEW op \in Notices, receiveNotification(op, n)
      PROVE  QuietInv'
  <2>1. TaskIs(Receiver, "acquire", op, Message(op, n).cq, {})
    BY <1>1, receiveTask
  <2>2. UNCHANGED <<semaphore, m_running, m_cqService>>
    BY <1>1 DEF receiveNotification, service
  <2>3. "acquire" \notin Calling BY SMTT(30) DEF Calling
  <2> QED BY <1>a, <2>1, <2>2, <2>3, QuietKept DEF TaskIs
<1>2. ASSUME NEW n \in Names, Event(n) \/ RegionDestroyed(n) PROVE QuietInv'
  <2>1. "event" \in Notices /\ "destroyRegion" \in Notices BY SMTT(30) DEF Notices
  <2> QED BY <1>1, <1>2, <2>1 DEF Event, RegionDestroyed
<1>3. CASE Sending
  <2>1. UNCHANGED <<service, semaphore>> BY <1>3, SendingContinues
  <2>2. CASE UNCHANGED th BY <2>1, <2>2, QuietSame
  <2>3. CASE /\ send.by \in Threads /\ Continues(send.by) /\ th[send.by].pc = "sent"
    BY <2>1, <2>3, OwnThreads, QuietContinues, SMTT(30)
  <2> QED BY <1>3, <2>2, <2>3, SendingContinues
<1>4. CASE redundancy
  BY <1>4, QuietSame DEF redundancy, locks
<1>5. ASSUME NEW e \in Servers, Crash(e) \/ Restart(e) PROVE QuietInv'
  BY <1>5, QuietSame DEF Crash, Restart, locks
<1>6. CASE UNCHANGED vars BY <1>6, QuietSame DEF vars, locks
<1> QED
  BY <1>2, <1>3, <1>4, <1>5, <1>6, QuietWork, QuietStart, QuietReceive DEF Next

(* Once RemoteQueryService::close has closed the CqService no listener is  *)
(* called: whatever notification is under way when the pool is destroyed,  *)
(* and however the two interleave, closeCqService waits for it, and those  *)
(* that come later find that the service does not run.  This holds in all  *)
(* the races of Races as well.                                             *)
THEOREM ListenersEnd == Spec => []NoLateListener
<1>1. Init => QuietInv
  <2> SUFFICES ASSUME Init PROVE QuietInv BY SMTT(30)
  <2>1. \A t \in Own : th[t].pc = "idle" /\ th[t].op = "none"
    BY IdleFields DEF Init, Own
  <2>2. m_cqService BY DEF Init
  <2> QED BY <2>1, <2>2, OwnThreads, SMTT(30) DEF QuietInv, NoLateListener
<1>2. QuietInv => NoLateListener BY DEF QuietInv
<1> QED BY <1>1, <1>2, SpecTypes, QuietStep, PTL DEF Spec

=============================================================================
