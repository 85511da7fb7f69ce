------------------------ MODULE TrackedEntriesProofs ------------------------
(***************************************************************************)
(* Theorems about TrackedEntries.  TypeCorrect, CountersAreReset and       *)
(* PlaceholdersAreTracked hold with all operations; UpdatesAreKept and     *)
(* TrackersAreKept hold under TrackingSafe, for any number of operations   *)
(* and notifications.                                                      *)
(***************************************************************************)
EXTENDS TrackedEntries, FiniteSetTheorems, TLAPS

USE DEF Content, Gone

(* The operators on an entry return an entry.                              *)
LEMMA NewEntryType ==
  ASSUME NEW is \in Contents
  PROVE  NewEntry(is) \in EntryStates
BY Zenon DEF NewEntry, EntryStates

LEMMA AbsentType == Absent \in EntryStates /\ Placeholder \in EntryStates
BY Zenon DEF Absent, Placeholder, NewEntry, EntryStates, Contents

LEMMA WrapType ==
  ASSUME NEW e \in EntryStates, NEW t \in Nat, NEW u \in Nat
  PROVE  Wrap(e, t, u) \in EntryStates
BY Zenon DEF Wrap, EntryStates

LEMMA addTrackerType ==
  ASSUME NEW e \in EntryStates
  PROVE  addTracker(e) \in EntryStates
BY WrapType DEF addTracker, EntryStates

LEMMA incUpdateCountType ==
  ASSUME NEW e \in EntryStates
  PROVE  incUpdateCount(e) \in EntryStates
<1>1. UpdateMax \in Nat BY TrackedAssumption, Zenon
<1>2. \/ e.wrapped \/ (e.trackers > 0 /\ e.updates < UpdateMax)
      \/ ~e.wrapped /\ e.trackers = 0
      \/ ~e.wrapped /\ e.trackers > 0 /\ e.updates >= UpdateMax
  BY <1>1 DEF EntryStates
<1>3. Wrap(e, e.trackers, e.updates + 1) \in EntryStates
  <2>1. e.trackers \in Nat /\ e.updates + 1 \in Nat BY DEF EntryStates
  <2> QED BY <2>1, WrapType, Zenon
<1>4. [e EXCEPT !.updates = @ + 1] \in EntryStates BY DEF EntryStates
<1> QED BY <1>1, <1>2, <1>3, <1>4, Zenon DEF incUpdateCount

LEMMA incUpdateCountOfCopyType ==
  ASSUME NEW e \in EntryStates
  PROVE  incUpdateCountOfCopy(e) \in EntryStates
BY incUpdateCountType, Zenon DEF incUpdateCountOfCopy

LEMMA trackAndCountType ==
  ASSUME NEW e \in EntryStates
  PROVE  trackAndCount(e) \in EntryStates
<1>1. addTracker(e) \in EntryStates BY addTrackerType, Zenon
<1>2. incUpdateCount(addTracker(e)) \in EntryStates
  BY <1>1, incUpdateCountType, Zenon
<1>3. [addTracker(e) EXCEPT !.implUpdates = @ + 1] \in EntryStates
  BY <1>1 DEF EntryStates
<1>4. Wrap(e, e.trackers, e.updates + 1) \in EntryStates
  <2>1. e.trackers \in Nat /\ e.updates + 1 \in Nat BY DEF EntryStates
  <2> QED BY <2>1, WrapType, Zenon
<1> QED BY <1>2, <1>3, <1>4, Zenon DEF trackAndCount

LEMMA removeTrackerType ==
  ASSUME NEW e \in EntryStates
  PROVE  removeTracker(e) \in EntryStates
<1>1. [e EXCEPT !.trackers = @ - 1] \in EntryStates
        \/ ~(e.trackers > 1)
  BY DEF EntryStates
<1>2. Absent \in EntryStates BY AbsentType, Zenon
<1>3. e.is \in Contents /\ e.implTrackers \in Nat /\ e.implUpdates \in Nat
  BY Zenon DEF EntryStates
<1>4. NewEntry(e.is) \in EntryStates BY <1>3, NewEntryType, Zenon
<1>5. [NewEntry(e.is) EXCEPT
         !.trackers = IF e.wrapped THEN e.implTrackers ELSE 0,
         !.updates = IF e.wrapped THEN e.implUpdates ELSE 0] \in EntryStates
  BY <1>3, <1>4, Zenon DEF EntryStates
<1> QED BY <1>1, <1>2, <1>5, Zenon DEF removeTracker


-----------------------------------------------------------------------------
(* The operations of the map.                                              *)

LEMMA SizeType ==
  ASSUME m_size \in 0..(SizeModulus - 1),
         SizeUp \/ SizeDown \/ CountIfNew \/ UNCHANGED m_size
  PROVE  m_size' \in 0..(SizeModulus - 1)
<1>1. SizeModulus \in Nat \ {0} BY TrackedAssumption, Zenon
<1>2. SizeUp \/ SizeDown \/ UNCHANGED m_size BY Zenon DEF CountIfNew
<1> QED BY <1>1, <1>2 DEF SizeUp, SizeDown

LEMMA ValuesAreContents ==
  /\ \A is \in Values : is \in Contents
  /\ Content("null", 0) \in Contents
BY Zenon DEF Values, Contents

LEMMA StoreType ==
  ASSUME entry \in EntryStates, NEW is \in Contents
  PROVE  [entry EXCEPT !.is = is] \in EntryStates
BY Zenon DEF EntryStates

LEMMA putUntrackedType ==
  ASSUME entry \in EntryStates, NEW is \in Contents, putUntracked(is)
  PROVE  entry' \in EntryStates /\ CountIfNew
<1>1. NewEntry(is) \in EntryStates BY NewEntryType, Zenon
<1>2. incUpdateCount([entry EXCEPT !.is = is]) \in EntryStates
  BY StoreType, incUpdateCountType, Zenon
<1> QED BY <1>1, <1>2, Zenon DEF putUntracked

LEMMA putTrackedType ==
  ASSUME entry \in EntryStates, NEW is \in Contents, NEW count,
         putTracked(is, count)
  PROVE  entry' \in EntryStates /\ (CountIfNew \/ UNCHANGED m_size)
<1>1. removeTracker([entry EXCEPT !.is = is]) \in EntryStates
  BY StoreType, removeTrackerType, Zenon
<1>2. removeTracker(entry) \in EntryStates BY removeTrackerType, Zenon
<1> QED BY <1>1, <1>2, Zenon DEF putTracked

LEMMA invalidateType ==
  ASSUME entry \in EntryStates, invalidate
  PROVE  entry' \in EntryStates /\ UNCHANGED m_size
<1>1. Content("invalid", 0) \in Contents BY Zenon DEF Contents
<1>2. incUpdateCountOfCopy([entry EXCEPT !.is = Content("invalid", 0)])
        \in EntryStates
  BY <1>1, StoreType, incUpdateCountOfCopyType, Zenon
<1> QED BY <1>2, AbsentType, Zenon DEF invalidate

(* What an answered operation does to the map.                             *)
LEMMA ChangeCases ==
  ASSUME NEW t \in Threads, op[t].kind \in AllKinds, Change(t)
  PROVE  \/ put(op[t].is, op[t].count)
         \/ /\ op[t].kind = "getAll"
            /\ put(Content("null", 0), -1) \/ put(op[t].is, -1)
         \/ remove(op[t].count) \/ invalidate
         \/ UNCHANGED <<entry, m_size>>
<1>1. CASE op[t].kind = "getAll"
  <2>1. PICK part \in readObjectPart(op[t].is) :
          IF part = Gone THEN UNCHANGED <<entry, m_size>> ELSE put(part, -1)
    BY <1>1 DEF Change, fromData
  <2>2. part = Content("null", 0) \/ part = op[t].is
    BY <2>1, Zenon DEF readObjectPart
  <2> QED BY <1>1, <2>1, <2>2, Zenon
<1>2. CASE op[t].kind # "getAll"
  BY <1>2, Zenon DEF Change, create, AllKinds
<1> QED BY <1>1, <1>2, Zenon

LEMMA ChangeType ==
  ASSUME TypeOK, NEW t \in Threads, op[t].pc = "answered", Change(t)
  PROVE  /\ entry' \in EntryStates
         /\ m_size' \in 0..(SizeModulus - 1)
<1>1. op[t].is \in Values /\ op[t].kind \in AllKinds /\ entry \in EntryStates
      /\ m_size \in 0..(SizeModulus - 1)
  BY DEF TypeOK, OpStates, Running, Idle
<1>2. ASSUME NEW is \in Contents, NEW count, put(is, count)
      PROVE  entry' \in EntryStates /\ (CountIfNew \/ UNCHANGED m_size)
  BY <1>1, <1>2, putUntrackedType, putTrackedType, Zenon DEF put
<1>3. ASSUME remove(op[t].count)
      PROVE  entry' \in EntryStates /\ (SizeDown \/ UNCHANGED m_size)
  BY <1>3, AbsentType, Zenon DEF remove
<1>4. op[t].is \in Contents /\ Content("null", 0) \in Contents
  BY <1>1, ValuesAreContents, Zenon
<1>5. \/ put(op[t].is, op[t].count)
      \/ put(Content("null", 0), -1) \/ put(op[t].is, -1)
      \/ remove(op[t].count) \/ invalidate
      \/ UNCHANGED <<entry, m_size>>
  BY <1>1, ChangeCases, Zenon
<1>6. CASE put(op[t].is, op[t].count) BY <1>1, <1>2, <1>4, <1>6, SizeType, Zenon
<1>7. CASE put(Content("null", 0), -1) \/ put(op[t].is, -1)
  BY <1>1, <1>2, <1>4, <1>7, SizeType, Zenon
<1>8. CASE remove(op[t].count) BY <1>1, <1>3, <1>8, SizeType, Zenon
<1>9. CASE invalidate BY <1>1, <1>9, invalidateType, Zenon
<1>10. CASE UNCHANGED <<entry, m_size>> BY <1>1, <1>10, Zenon
<1> QED BY <1>5, <1>6, <1>7, <1>8, <1>9, <1>10, Zenon

LEMMA NotifyType ==
  ASSUME TypeOK, Notify
  PROVE  /\ entry' \in EntryStates
         /\ m_size' \in 0..(SizeModulus - 1)
         /\ notices' \in Seq(Values)
<1>1. Head(notices) \in Values /\ Tail(notices) \in Seq(Values)
  BY DEF TypeOK, Notify
<1>2. /\ entry \in EntryStates /\ m_size \in 0..(SizeModulus - 1)
      /\ notices' = Tail(notices)
  BY Zenon DEF TypeOK, Notify
<1>3. putUntracked(Head(notices)) \/ invalidate \/ remove(-1)
  BY <1>1, Zenon DEF Notify, Values
<1>4. CASE putUntracked(Head(notices))
  BY <1>1, <1>2, <1>4, ValuesAreContents, putUntrackedType, SizeType, Zenon
<1>5. CASE invalidate
  BY <1>1, <1>2, <1>5, invalidateType, Zenon
<1>6. CASE remove(-1)
  <2>1. SizeDown \/ UNCHANGED m_size BY <1>6, Zenon DEF remove
  <2> QED BY <1>1, <1>2, <1>6, <2>1, AbsentType, SizeType, Zenon DEF remove
<1> QED BY <1>3, <1>4, <1>5, <1>6, Zenon

LEMMA OvertakeType ==
  ASSUME NEW ops \in [Threads -> OpStates]
  PROVE  Overtake(ops) \in [Threads -> OpStates]
<1>1. ASSUME NEW t \in Threads, ops[t].pc \in {"tracked", "answered"}
      PROVE  [ops[t] EXCEPT !.overtaken = TRUE] \in OpStates
  <2>1. ops[t] \in Running BY <1>1 DEF OpStates, Running, Idle
  <2>2. [ops[t] EXCEPT !.overtaken = TRUE] \in Running BY <2>1, Zenon DEF Running
  <2> QED BY <2>2, Zenon DEF OpStates, Running
<1> QED BY <1>1, Zenon DEF Overtake

LEMMA BegunType ==
  ASSUME NEW kind \in AllKinds, NEW pc \in {"missed", "tracked"},
         NEW count \in Nat \cup {-1}
  PROVE  Begun(kind, pc, count) \in OpStates
BY Zenon DEF Begun, Idle, OpStates, Running, Values

(* What a request does on the server.                                      *)
LEMMA ServeType ==
  ASSUME TypeOK, NEW t \in Threads, op[t].pc = "tracked", Serve(t)
  PROVE  Effect(t) \in Values /\ server' \in Values /\ changes' \in 0..MaxChanges
<1>1. op[t].kind \in AllKinds /\ server \in Values /\ changes \in 0..MaxChanges
  BY DEF TypeOK, OpStates, Running, Idle
<1>2. Effect(t) \in Values BY <1>1 DEF Effect, AllKinds, Values
<1>3. changes' \in 0..MaxChanges BY <1>1, TrackedAssumption DEF Serve
<1> QED BY <1>2, <1>3, Zenon DEF Serve

(* Every step leaves every variable in its type.                           *)
LEMMA TypeStep == TypeOK /\ [Next]_vars => TypeOK'
<1> SUFFICES ASSUME TypeOK, [Next]_vars PROVE TypeOK' BY Zenon
<1>0. /\ entry \in EntryStates /\ m_size \in 0..(SizeModulus - 1)
      /\ op \in [Threads -> OpStates] /\ server \in Values
      /\ notices \in Seq(Values) /\ starts \in 0..MaxStarts
      /\ changes \in 0..MaxChanges
  BY Zenon DEF TypeOK
<1>a. MaxStarts \in Nat /\ MaxChanges \in Nat /\ Kinds \subseteq AllKinds
  BY TrackedAssumption, Zenon
<1>b. Idle \in OpStates BY Zenon DEF OpStates, Running
<1>c. ASSUME Start PROVE starts' \in 0..MaxStarts
  BY <1>0, <1>a, <1>c DEF Start
<1>d. entry.updates \in Nat BY <1>0, Zenon DEF EntryStates
<1>e. (IF entry = Absent THEN Placeholder ELSE entry) \in EntryStates
  BY <1>0, AbsentType, Zenon
<1>1. ASSUME NEW t \in Threads, NEW kind \in Kinds, StartUpdate(t, kind)
      PROVE  TypeOK'
  <2>1. entry' \in EntryStates
    BY <1>e, <1>1, trackAndCountType, Zenon DEF StartUpdate
  <2>2. Begun(kind, "tracked", entry.updates + 1) \in OpStates
    BY <1>1, <1>a, <1>d, BegunType
  <2> QED BY <1>0, <1>1, <1>c, <2>1, <2>2, Zenon DEF StartUpdate, TypeOK
<1>2. ASSUME NEW t \in Threads, NEW kind \in Kinds, StartGet(t, kind)
      PROVE  TypeOK'
  <2>1. Begun(kind, "missed", -1) \in OpStates BY <1>2, <1>a, BegunType, Zenon
  <2> QED BY <1>0, <1>2, <1>c, <2>1, Zenon DEF StartGet, TypeOK
<1>3. ASSUME NEW t \in Threads, StartCreate(t) PROVE TypeOK'
  <2>1. entry' \in EntryStates
    BY <1>0, <1>3, AbsentType, trackAndCountType, Zenon DEF StartCreate
  <2>2. /\ Begun("create", "tracked", 1) \in OpStates
        /\ Begun("create", "tracked", -1) \in OpStates
    BY BegunType, Zenon DEF AllKinds
  <2> QED BY <1>0, <1>3, <1>c, <2>1, <2>2, Zenon DEF StartCreate, TypeOK
<1>4. ASSUME NEW t \in Threads, TrackGet(t) PROVE TypeOK'
  <2>1. entry' \in EntryStates
    BY <1>e, <1>4, addTrackerType, Zenon DEF TrackGet
  <2>2. op' \in [Threads -> OpStates]
    <3>1. op[t] \in Running BY <1>0, <1>4 DEF TrackGet, OpStates, Running, Idle
    <3>2. [op[t] EXCEPT !.pc = "tracked", !.count = entry.updates] \in Running
      BY <3>1, <1>d, Zenon DEF Running
    <3>3. op' = [op EXCEPT ![t] = [op[t] EXCEPT !.pc = "tracked",
                                                !.count = entry.updates]]
      BY <1>0, <1>4, Zenon DEF TrackGet
    <3> QED BY <1>0, <3>2, <3>3, Zenon DEF OpStates, Running
  <2> QED BY <1>0, <1>4, <2>1, <2>2, Zenon DEF TrackGet, TypeOK
<1>5. ASSUME NEW t \in Threads, Answer(t) PROVE TypeOK'
  <2>1. /\ Effect(t) \in Values /\ server' \in Values
        /\ changes' \in 0..MaxChanges
    BY <1>5, ServeType, Zenon DEF Answer
  <2>2. op' \in [Threads -> OpStates]
    <3>1. op[t] \in Running BY <1>0, <1>5 DEF Answer, OpStates, Running, Idle
    <3>2. [op[t] EXCEPT !.pc = "answered", !.is = Effect(t)] \in Running
      BY <3>1, <2>1, Zenon DEF Running
    <3>3. op' = [op EXCEPT ![t] = [op[t] EXCEPT !.pc = "answered",
                                                !.is = Effect(t)]]
      BY <1>0, <1>5, Zenon DEF Answer
    <3> QED BY <1>0, <3>2, <3>3, Zenon DEF OpStates, Running
  <2> QED BY <1>0, <1>5, <2>1, <2>2, Zenon DEF Answer, TypeOK
<1>6. ASSUME NEW t \in Threads, Fail(t) PROVE TypeOK'
  <2>1. server' \in Values /\ changes' \in 0..MaxChanges
    BY <1>0, <1>6, ServeType, Zenon DEF Fail
  <2>2. entry' \in EntryStates BY <1>0, <1>6, removeTrackerType, Zenon DEF Fail
  <2> QED BY <1>0, <1>6, <1>b, <2>1, <2>2, Zenon DEF Fail, TypeOK
<1>7. ASSUME NEW t \in Threads, LocalUpdate(t) PROVE TypeOK'
  <2>1. entry' \in EntryStates /\ m_size' \in 0..(SizeModulus - 1)
    BY <1>7, ChangeType, Zenon DEF LocalUpdate
  <2> DEFINE last == IF op[t].kind \in {"get", "getAll", "putAll"}
                     THEN [Idle EXCEPT !.kind = op[t].kind, !.pc = "leaving"]
                     ELSE Idle
             ended == [op EXCEPT ![t] = last]
  <2>2. last \in OpStates BY <1>b, Zenon DEF OpStates, Running, Idle, AllKinds, Values
  <2>3. ended \in [Threads -> OpStates] BY <1>0, <2>2, Zenon
  <2>4. Overtake(ended) \in [Threads -> OpStates] BY <2>3, OvertakeType, Zenon
  <2>5. op' = Overtake(ended) \/ op' = ended BY <1>7, Zenon DEF LocalUpdate
  <2>6. op' \in [Threads -> OpStates] BY <2>3, <2>4, <2>5, Zenon
  <2> QED BY <1>0, <1>7, <2>1, <2>6, Zenon DEF LocalUpdate, TypeOK
<1>8. ASSUME NEW t \in Threads, Leave(t) PROVE TypeOK'
  BY <1>0, <1>8, <1>b, removeTrackerType, Zenon DEF Leave, TypeOK
<1>9. ASSUME NEW kind \in NoticeKinds, OtherChange(kind) PROVE TypeOK'
  <2>1. kind \in {"value", "invalid", "absent"} BY <1>9, TrackedAssumption, Zenon
  <2>2. server' \in Values /\ changes' \in 0..MaxChanges
    BY <1>0, <1>9, <1>a, <2>1 DEF OtherChange, Values
  <2>3. notices' \in Seq(Values) BY <1>0, <1>9, <2>2 DEF OtherChange
  <2> QED BY <1>0, <1>9, <2>2, <2>3, Zenon DEF OtherChange, TypeOK
<1>10. CASE Notify
  <2>1. op' \in [Threads -> OpStates]
    BY <1>0, <1>10, OvertakeType, Zenon DEF Notify
  <2> QED BY <1>0, <1>10, <2>1, NotifyType, Zenon DEF Notify, TypeOK
<1>11. CASE UNCHANGED vars BY <1>0, <1>11, Zenon DEF vars, TypeOK
<1> QED BY <1>1, <1>2, <1>3, <1>4, <1>5, <1>6, <1>7, <1>8, <1>9, <1>10, <1>11, Zenon
        DEF Next, ThreadStep

(* The entry, the counter, the operations and the messages keep their      *)
(* types under every operation of the region.                              *)
THEOREM TypeCorrect == Spec => []TypeOK
<1>1. Init => TypeOK
  BY AbsentType, TrackedAssumption DEF Init, TypeOK, OpStates, Running, Values
<1> QED BY <1>1, TypeStep, PTL DEF Spec

-----------------------------------------------------------------------------
(* The counter.  A wrapper is tracked, and so is what it wraps: a wrapper  *)
(* is removed with its last tracker, and the object that comes back to the *)
(* map must not show updates without trackers.                             *)

Shape(e) ==
  /\ e.trackers = 0 => e.updates = 0
  /\ e.wrapped => e.trackers > 0 /\ e.implTrackers > 0

LEMMA addTrackerShape ==
  ASSUME NEW e \in EntryStates, e.wrapped => e.implTrackers > 0
  PROVE  /\ addTracker(e).trackers > 0
         /\ Shape(addTracker(e))
<1>1. TrackMax \in Nat \ {0} BY TrackedAssumption, Zenon
<1> QED BY <1>1 DEF addTracker, Wrap, EntryStates, Shape

LEMMA incUpdateCountShape ==
  ASSUME NEW e \in EntryStates, Shape(e)
  PROVE  Shape(incUpdateCount(e))
<1>1. UpdateMax \in Nat \ {0} BY TrackedAssumption, Zenon
<1>2. CASE e.wrapped \/ (e.trackers > 0 /\ e.updates < UpdateMax)
  <2>1. incUpdateCount(e) = [e EXCEPT !.updates = @ + 1]
    BY <1>1, <1>2 DEF incUpdateCount, EntryStates
  <2> QED BY <1>2, <2>1 DEF EntryStates, Shape
<1>3. CASE ~e.wrapped /\ e.trackers = 0
  <2>1. incUpdateCount(e) = e
    BY <1>1, <1>3 DEF incUpdateCount, EntryStates
  <2> QED BY <2>1, Zenon
<1>4. CASE ~e.wrapped /\ e.trackers > 0 /\ e.updates >= UpdateMax
  <2>1. incUpdateCount(e) = Wrap(e, e.trackers, e.updates + 1)
    BY <1>1, <1>4 DEF incUpdateCount, EntryStates
  <2> QED BY <1>4, <2>1 DEF EntryStates, Shape, Wrap
<1> QED BY <1>1, <1>2, <1>3, <1>4 DEF EntryStates

LEMMA trackAndCountShape ==
  ASSUME NEW e \in EntryStates, e.wrapped => e.implTrackers > 0
  PROVE  Shape(trackAndCount(e))
<1>1. TrackMax \in Nat \ {0} BY TrackedAssumption, Zenon
<1>2. Shape(addTracker(e)) /\ addTracker(e) \in EntryStates
  BY addTrackerShape, addTrackerType, Zenon
<1>3. Shape(incUpdateCount(addTracker(e))) BY <1>2, incUpdateCountShape, Zenon
<1>4. Shape([addTracker(e) EXCEPT !.implUpdates = @ + 1])
  BY <1>2, Zenon DEF Shape, EntryStates
<1>5. e.trackers >= TrackMax => Shape(Wrap(e, e.trackers, e.updates + 1))
  BY <1>1 DEF Shape, Wrap, EntryStates
<1>6. e.trackers >= TrackMax \/ e.trackers < TrackMax
  BY <1>1 DEF EntryStates
<1> QED BY <1>3, <1>4, <1>5, <1>6, Zenon DEF trackAndCount

LEMMA removeTrackerShape ==
  ASSUME NEW e \in EntryStates, Shape(e)
  PROVE  Shape(removeTracker(e))
<1>1. CASE e.trackers > 1
  BY <1>1 DEF removeTracker, Shape, EntryStates
<1>2. CASE ~(e.trackers > 1) /\ e.is.kind \in {"null", "absent"}
  BY <1>2, Zenon DEF removeTracker, Shape, EntryStates, Absent, NewEntry
<1>3. CASE ~(e.trackers > 1) /\ e.is.kind \notin {"null", "absent"}
  BY <1>3 DEF removeTracker, Shape, EntryStates, NewEntry
<1> QED BY <1>1, <1>2, <1>3, Zenon

LEMMA StoreShape ==
  ASSUME entry \in EntryStates, Shape(entry), NEW is \in Contents
  PROVE  Shape([entry EXCEPT !.is = is])
BY Zenon DEF EntryStates, Shape

LEMMA AbsentShape ==
  /\ Shape(Absent)
  /\ \A is \in Contents : Shape(NewEntry(is))
BY Zenon DEF Shape, Absent, NewEntry

LEMMA putUntrackedShape ==
  ASSUME entry \in EntryStates, Shape(entry), NEW is \in Contents,
         putUntracked(is)
  PROVE  Shape(entry')
<1>1. Shape(incUpdateCount([entry EXCEPT !.is = is]))
  BY StoreShape, StoreType, incUpdateCountShape, Zenon
<1> QED BY <1>1, AbsentShape, Zenon DEF putUntracked

LEMMA putTrackedShape ==
  ASSUME entry \in EntryStates, Shape(entry), NEW is \in Contents, NEW count,
         putTracked(is, count)
  PROVE  Shape(entry')
<1>1. Shape(removeTracker([entry EXCEPT !.is = is]))
  BY StoreShape, StoreType, removeTrackerShape, Zenon
<1>2. Shape(removeTracker(entry)) BY removeTrackerShape, Zenon
<1> QED BY <1>1, <1>2, Zenon DEF putTracked

LEMMA invalidateShape ==
  ASSUME entry \in EntryStates, Shape(entry), invalidate
  PROVE  Shape(entry')
<1>1. Content("invalid", 0) \in Contents BY Zenon DEF Contents
<1>2. Shape(incUpdateCountOfCopy([entry EXCEPT !.is = Content("invalid", 0)]))
  BY <1>1, StoreShape, StoreType, incUpdateCountShape, Zenon DEF incUpdateCountOfCopy
<1> QED BY <1>2, AbsentShape, Zenon DEF invalidate

(* Every step keeps the shape of the entry.                                *)
LEMMA ShapeStep == TypeOK /\ Shape(entry) /\ [Next]_vars => Shape(entry)'
<1> SUFFICES ASSUME TypeOK, Shape(entry), [Next]_vars PROVE Shape(entry')
  BY Zenon DEF Shape
<1>0. /\ entry \in EntryStates /\ op \in [Threads -> OpStates]
      /\ notices \in Seq(Values)
  BY Zenon DEF TypeOK
<1> DEFINE found == IF entry = Absent THEN Placeholder ELSE entry
<1>e. found \in EntryStates BY <1>0, AbsentType, Zenon
<1>f. found.wrapped => found.implTrackers > 0
  BY Zenon DEF Shape, Placeholder, NewEntry
<1>g. ASSUME NEW is \in Contents, NEW count, put(is, count) PROVE Shape(entry')
  BY <1>0, <1>g, putUntrackedShape, putTrackedShape, Zenon DEF put
<1>h. UNCHANGED entry => Shape(entry') BY Zenon
<1>1. ASSUME NEW t \in Threads, NEW kind \in Kinds, StartUpdate(t, kind)
      PROVE  Shape(entry')
  BY <1>e, <1>f, <1>1, trackAndCountShape, Zenon DEF StartUpdate
<1>2. ASSUME NEW t \in Threads, NEW kind \in Kinds, StartGet(t, kind)
      PROVE  Shape(entry')
  BY <1>2, <1>h, Zenon DEF StartGet
<1>3. ASSUME NEW t \in Threads, StartCreate(t) PROVE Shape(entry')
  <2>1. Shape(trackAndCount(Placeholder))
    BY AbsentType, trackAndCountShape, Zenon DEF Placeholder, NewEntry
  <2> QED BY <1>3, <1>h, <2>1, Zenon DEF StartCreate
<1>4. ASSUME NEW t \in Threads, TrackGet(t) PROVE Shape(entry')
  BY <1>e, <1>f, <1>4, addTrackerShape, Zenon DEF TrackGet
<1>5. ASSUME NEW t \in Threads, Answer(t) PROVE Shape(entry')
  BY <1>5, <1>h, Zenon DEF Answer
<1>6. ASSUME NEW t \in Threads, Fail(t) PROVE Shape(entry')
  BY <1>0, <1>6, removeTrackerShape, Zenon DEF Fail
<1>7. ASSUME NEW t \in Threads, LocalUpdate(t) PROVE Shape(entry')
  <2>1. op[t].is \in Values /\ op[t].kind \in AllKinds
    BY <1>0, <1>7 DEF LocalUpdate, OpStates, Running, Idle
  <2>2. Change(t) BY <1>7, Zenon DEF LocalUpdate
  <2>a. op[t].is \in Contents /\ Content("null", 0) \in Contents
    BY <2>1, ValuesAreContents, Zenon
  <2>3. \/ put(op[t].is, op[t].count)
        \/ put(Content("null", 0), -1) \/ put(op[t].is, -1)
        \/ remove(op[t].count) \/ invalidate
        \/ UNCHANGED <<entry, m_size>>
    BY <2>1, <2>2, ChangeCases, Zenon
  <2>4. CASE put(op[t].is, op[t].count) BY <1>g, <2>a, <2>4, Zenon
  <2>5. CASE put(Content("null", 0), -1) \/ put(op[t].is, -1)
    BY <1>g, <2>a, <2>5, Zenon
  <2>6. CASE remove(op[t].count) BY <2>6, AbsentShape, Zenon DEF remove
  <2>7. CASE invalidate BY <1>0, <2>7, invalidateShape, Zenon
  <2>8. CASE UNCHANGED <<entry, m_size>> BY <2>8, <1>h, Zenon
  <2> QED BY <2>3, <2>4, <2>5, <2>6, <2>7, <2>8, Zenon
<1>8. ASSUME NEW t \in Threads, Leave(t) PROVE Shape(entry')
  BY <1>0, <1>8, removeTrackerShape, Zenon DEF Leave
<1>9. ASSUME NEW kind \in NoticeKinds, OtherChange(kind) PROVE Shape(entry')
  BY <1>9, <1>h, Zenon DEF OtherChange
<1>10. CASE Notify
  <2>1. Head(notices) \in Values BY <1>0, <1>10 DEF Notify
  <2>2. putUntracked(Head(notices)) \/ invalidate \/ remove(-1)
    BY <1>10, <2>1, Zenon DEF Notify, Values
  <2>3. CASE putUntracked(Head(notices))
    BY <1>0, <2>1, <2>3, ValuesAreContents, putUntrackedShape, Zenon
  <2>4. CASE invalidate BY <1>0, <2>4, invalidateShape, Zenon
  <2>5. CASE remove(-1) BY <2>5, AbsentShape, Zenon DEF remove
  <2> QED BY <2>2, <2>3, <2>4, <2>5, Zenon
<1>11. CASE UNCHANGED vars BY <1>11, <1>h, Zenon DEF vars
<1> QED BY <1>1, <1>2, <1>3, <1>4, <1>5, <1>6, <1>7, <1>8, <1>9, <1>10, <1>11, Zenon
        DEF Next, ThreadStep

LEMMA SpecShape == Spec => []Shape(entry)
<1>1. Init => Shape(entry) BY AbsentShape, Zenon DEF Init
<1> QED BY <1>1, TypeCorrect, ShapeStep, PTL DEF Spec

(* Under every operation of the region, an entry that nothing tracks has   *)
(* its update counter at zero (MapSegment::removeTrackerForEntry).         *)
THEOREM CountersAreReset == Spec => []CounterReset
<1>1. Shape(entry) => CounterReset BY Zenon DEF Shape, CounterReset
<1> QED BY <1>1, SpecShape, PTL

-----------------------------------------------------------------------------
(* Placeholders.  An operation that has tracked the entry removes the      *)
(* placeholder with the last tracker.  Only getAll stores "no value"       *)
(* without looking at the trackers, and it is leaving then.                *)

Leaving == \E t \in Threads : op[t].pc = "leaving"

Guarded(e) == e.is.kind = "null" => e.trackers > 0

(* What the operations on trackers give.                                   *)
LEMMA TrackersKeep ==
  ASSUME NEW e \in EntryStates
  PROVE  /\ Guarded(addTracker(e))
         /\ Guarded(removeTracker(e))
         /\ addTracker(e).trackers > 0
<1>1. TrackMax \in Nat \ {0} BY TrackedAssumption, Zenon
<1>2. addTracker(e).trackers > 0 BY <1>1 DEF addTracker, Wrap, EntryStates
<1>3. Guarded(removeTracker(e))
  <2>1. CASE e.trackers > 1
    BY <2>1 DEF removeTracker, Guarded, EntryStates
  <2>2. CASE ~(e.trackers > 1) /\ e.is.kind \in {"null", "absent"}
    BY <2>2 DEF removeTracker, Guarded, Absent, NewEntry
  <2>3. CASE ~(e.trackers > 1) /\ e.is.kind \notin {"null", "absent"}
    BY <2>3 DEF removeTracker, Guarded, EntryStates, NewEntry
  <2> QED BY <2>1, <2>2, <2>3, Zenon
<1> QED BY <1>2, <1>3, Zenon DEF Guarded

(* Counting an update changes neither the trackers nor the value.          *)
LEMMA incUpdateCountKeeps ==
  ASSUME NEW e \in EntryStates
  PROVE  /\ incUpdateCount(e).trackers = e.trackers
         /\ incUpdateCount(e).is = e.is
<1>1. UpdateMax \in Nat \ {0} BY TrackedAssumption, Zenon
<1> QED BY <1>1 DEF incUpdateCount, Wrap, EntryStates

LEMMA trackAndCountKeeps ==
  ASSUME NEW e \in EntryStates
  PROVE  trackAndCount(e).trackers > 0
<1>1. TrackMax \in Nat \ {0} BY TrackedAssumption, Zenon
<1>2. addTracker(e) \in EntryStates /\ addTracker(e).trackers > 0
  BY TrackersKeep, addTrackerType, Zenon
<1>3. incUpdateCount(addTracker(e)).trackers > 0
  BY <1>2, incUpdateCountKeeps, Zenon
<1>4. [addTracker(e) EXCEPT !.implUpdates = @ + 1].trackers > 0
  BY <1>2, Zenon DEF EntryStates
<1>5. e.trackers >= TrackMax => Wrap(e, e.trackers, e.updates + 1).trackers > 0
  BY <1>1 DEF Wrap, EntryStates
<1>6. e.trackers >= TrackMax \/ e.trackers < TrackMax
  BY <1>1 DEF EntryStates
<1> QED BY <1>3, <1>4, <1>5, <1>6, Zenon DEF trackAndCount

LEMMA putUntrackedKeeps ==
  ASSUME entry \in EntryStates, NEW is \in Contents, putUntracked(is)
  PROVE  entry'.is = is
<1>1. [entry EXCEPT !.is = is] \in EntryStates BY StoreType, Zenon
<1>2. [entry EXCEPT !.is = is].is = is BY Zenon DEF EntryStates
<1>3. incUpdateCount([entry EXCEPT !.is = is]).is = is
  BY <1>1, <1>2, incUpdateCountKeeps, Zenon
<1> QED BY <1>3, Zenon DEF putUntracked, NewEntry

LEMMA invalidateKeeps ==
  ASSUME entry \in EntryStates, invalidate
  PROVE  Guarded(entry')
<1> DEFINE e == [entry EXCEPT !.is = Content("invalid", 0)]
<1>1. e \in EntryStates BY StoreType, Zenon DEF Contents
<1>2. e.is.kind # "null" BY Zenon DEF EntryStates
<1>3. incUpdateCount(e).is = e.is BY <1>1, incUpdateCountKeeps, Zenon
<1>4. incUpdateCountOfCopy(e).is = e.is BY <1>3, Zenon DEF incUpdateCountOfCopy
<1> HIDE DEF e
<1>5. entry' = Absent \/ entry' = incUpdateCountOfCopy(e) BY Zenon DEF invalidate, e
<1> QED BY <1>2, <1>4, <1>5 DEF Guarded, Absent, NewEntry

(* The local part of an operation leaves a placeholder that nothing tracks *)
(* only where there was one, or for a getAll.                              *)
LEMMA ChangeKeeps ==
  ASSUME TypeOK, NEW t \in Threads, op[t].pc = "answered", Change(t)
  PROVE  Guarded(entry') \/ op[t].kind = "getAll" \/ entry' = entry
<1>1. op[t].is \in Values /\ op[t].kind \in AllKinds /\ entry \in EntryStates
  BY DEF TypeOK, OpStates, Running, Idle
<1>2. op[t].is \in Contents BY <1>1, ValuesAreContents, Zenon
<1>3. op[t].is.kind # "null" BY <1>1, Zenon DEF Values
<1>4. CASE put(op[t].is, op[t].count)
  <2>1. CASE putUntracked(op[t].is)
    BY <1>1, <1>2, <1>3, <2>1, putUntrackedKeeps, Zenon DEF Guarded
  <2>2. CASE putTracked(op[t].is, op[t].count)
    <3>1. /\ Guarded(removeTracker([entry EXCEPT !.is = op[t].is]))
          /\ Guarded(removeTracker(entry))
      BY <1>1, <1>2, StoreType, TrackersKeep, Zenon
    <3> QED BY <2>2, <3>1, Zenon DEF putTracked
  <2> QED BY <1>4, <2>1, <2>2, Zenon DEF put
<1>5. CASE remove(op[t].count)
  BY <1>5, Zenon DEF remove, Guarded, Absent, NewEntry
<1>6. CASE invalidate BY <1>1, <1>6, invalidateKeeps, Zenon
<1>7. \/ put(op[t].is, op[t].count) \/ op[t].kind = "getAll"
      \/ remove(op[t].count) \/ invalidate \/ UNCHANGED <<entry, m_size>>
  BY <1>1, ChangeCases, Zenon
<1> QED BY <1>4, <1>5, <1>6, <1>7, Zenon

LEMMA PlaceholderStep == TypeOK /\ PlaceholderTracked /\ [Next]_vars
                           => PlaceholderTracked'
<1> SUFFICES ASSUME TypeOK, PlaceholderTracked, [Next]_vars
             PROVE  PlaceholderTracked'
  BY Zenon
<1>0. /\ entry \in EntryStates /\ op \in [Threads -> OpStates]
      /\ notices \in Seq(Values)
  BY Zenon DEF TypeOK
<1>a. Guarded(entry') => PlaceholderTracked' BY Zenon DEF Guarded, PlaceholderTracked
<1>b. ASSUME UNCHANGED entry, Leaving => Leaving' PROVE PlaceholderTracked'
  BY <1>b, Zenon DEF Leaving, PlaceholderTracked
<1>c. ASSUME NEW t \in Threads, NEW s, op[t].pc # "leaving",
             op' = [op EXCEPT ![t] = s]
      PROVE  Leaving => Leaving'
  BY <1>0, <1>c, Zenon DEF Leaving
<1> DEFINE found == IF entry = Absent THEN Placeholder ELSE entry
<1>e. found \in EntryStates BY <1>0, AbsentType, Zenon
<1>1. ASSUME NEW t \in Threads, NEW kind \in Kinds, StartUpdate(t, kind)
      PROVE  PlaceholderTracked'
  <2>1. entry'.trackers > 0 BY <1>e, <1>1, trackAndCountKeeps, Zenon DEF StartUpdate
  <2> QED BY <1>a, <2>1, Zenon DEF Guarded
<1>2. ASSUME NEW t \in Threads, NEW kind \in Kinds, StartGet(t, kind)
      PROVE  PlaceholderTracked'
  <2>1. op[t].pc # "leaving" BY <1>2 DEF StartGet, Idle
  <2> QED BY <1>b, <1>c, <1>2, <2>1, Zenon DEF StartGet
<1>3. ASSUME NEW t \in Threads, StartCreate(t) PROVE PlaceholderTracked'
  <2>1. op[t].pc # "leaving" BY <1>3 DEF StartCreate, Idle
  <2>2. CASE entry = Absent
    <3>1. entry'.trackers > 0
      BY <1>3, <2>2, AbsentType, trackAndCountKeeps, Zenon DEF StartCreate
    <3> QED BY <1>a, <3>1, Zenon DEF Guarded
  <2>3. CASE entry # Absent
    BY <1>b, <1>c, <1>3, <2>1, <2>3, Zenon DEF StartCreate
  <2> QED BY <2>2, <2>3, Zenon
<1>4. ASSUME NEW t \in Threads, TrackGet(t) PROVE PlaceholderTracked'
  BY <1>a, <1>e, <1>4, TrackersKeep, Zenon DEF TrackGet
<1>5. ASSUME NEW t \in Threads, Answer(t) PROVE PlaceholderTracked'
  <2>1. op' = [op EXCEPT ![t] = [op[t] EXCEPT !.pc = "answered",
                                              !.is = Effect(t)]]
    BY <1>0, <1>5, Zenon DEF Answer
  <2> QED BY <1>b, <1>c, <1>5, <2>1, Zenon DEF Answer
<1>6. ASSUME NEW t \in Threads, Fail(t) PROVE PlaceholderTracked'
  <2>1. CASE op[t].count >= 0
    BY <1>0, <1>a, <1>6, <2>1, TrackersKeep, Zenon DEF Fail
  <2>2. CASE ~(op[t].count >= 0)
    BY <1>b, <1>c, <1>6, <2>2, Zenon DEF Fail
  <2> QED BY <2>1, <2>2, Zenon
<1>7. ASSUME NEW t \in Threads, LocalUpdate(t) PROVE PlaceholderTracked'
  <2> DEFINE last == IF op[t].kind \in {"get", "getAll", "putAll"}
                     THEN [Idle EXCEPT !.kind = op[t].kind, !.pc = "leaving"]
                     ELSE Idle
             ended == [op EXCEPT ![t] = last]
  <2>1. op' = Overtake(ended) \/ op' = ended BY <1>7, Zenon DEF LocalUpdate
  <2>2. ended \in [Threads -> {ended[u] : u \in Threads}] /\ ended[t] = last
        /\ \A u \in Threads : u # t => ended[u] = op[u]
    BY <1>0, Zenon
  <2> HIDE DEF ended
  <2>3. \A u \in Threads : ended[u].pc = "leaving" => op'[u].pc = "leaving"
    BY <2>1, Zenon DEF Overtake
  <2>4. last.pc = "leaving" <=> op[t].kind \in {"get", "getAll", "putAll"}
    BY Zenon DEF Idle
  <2> HIDE DEF last
  <2>5. CASE op[t].kind = "getAll"
    <3>1. op'[t].pc = "leaving" BY <2>2, <2>3, <2>4, <2>5, Zenon
    <3> QED BY <3>1, Zenon DEF PlaceholderTracked
  <2>6. CASE entry' = entry
    <3>1. Leaving => Leaving' BY <1>7, <2>2, <2>3, Zenon DEF Leaving, LocalUpdate
    <3> QED BY <1>b, <2>6, <3>1, Zenon
  <2> QED BY <1>a, <1>7, <2>5, <2>6, ChangeKeeps, Zenon DEF LocalUpdate
<1>8. ASSUME NEW t \in Threads, Leave(t) PROVE PlaceholderTracked'
  BY <1>0, <1>a, <1>8, TrackersKeep, Zenon DEF Leave
<1>9. ASSUME NEW kind \in NoticeKinds, OtherChange(kind)
      PROVE  PlaceholderTracked'
  BY <1>9, Zenon DEF OtherChange, PlaceholderTracked
<1>10. CASE Notify
  <2>1. Head(notices) \in Values BY <1>0, <1>10 DEF Notify
  <2>2. putUntracked(Head(notices)) \/ invalidate \/ remove(-1)
    BY <1>10, <2>1, Zenon DEF Notify, Values
  <2>3. CASE putUntracked(Head(notices))
    <3>1. Head(notices) \in Contents /\ Head(notices).kind # "null"
      BY <2>1, ValuesAreContents, Zenon DEF Values
    <3> QED BY <1>0, <1>a, <2>3, <3>1, putUntrackedKeeps, Zenon DEF Guarded
  <2>4. CASE invalidate BY <1>0, <1>a, <2>4, invalidateKeeps, Zenon
  <2>5. CASE remove(-1)
    BY <1>a, <2>5, Zenon DEF remove, Guarded, Absent, NewEntry
  <2> QED BY <2>2, <2>3, <2>4, <2>5, Zenon
<1>11. CASE UNCHANGED vars BY <1>11, Zenon DEF vars, PlaceholderTracked
<1> QED BY <1>1, <1>2, <1>3, <1>4, <1>5, <1>6, <1>7, <1>8, <1>9, <1>10, <1>11, Zenon
        DEF Next, ThreadStep

(* Under every operation of the region, an entry without a value is in the *)
(* map only while it is tracked or an operation is about to remove it:     *)
(* whatever operations fail, at whatever point, and whatever entries       *)
(* vanish under a getAll, none is left behind                              *)
(* (MapSegment::removeTrackerForEntry).                                    *)
THEOREM PlaceholdersAreTracked == Spec => []PlaceholderTracked
<1>1. Init => PlaceholderTracked
  BY DEF Init, PlaceholderTracked, Absent, NewEntry
<1> QED BY <1>1, TypeCorrect, PlaceholderStep, PTL DEF Spec

-----------------------------------------------------------------------------
(* Under TrackingSafe no update is overwritten.  Every operation under way *)
(* with a count has a tracker of its own and a count of its own.  There    *)
(* may be trackers nobody removes: one that a create left behind when it   *)
(* found a value, and others only after UpdateMax updates.  The entry is   *)
(* then never in the state where addTrackerForEntry counts on the object   *)
(* inside the wrapper.  A create without a tracker relies on finding the   *)
(* value it was overtaken by.                                              *)

InFlight == {t \in Threads : op[t].pc # "idle" /\ op[t].count >= 0}

Creates == {t \in InFlight : op[t].kind = "create"}

UnderWay(t) ==
  /\ op[t].kind \in Kinds
  /\ op[t].pc \in {"tracked", "answered"}
  /\ op[t].pc = "answered" => op[t].is.kind = "value"
  /\ op[t].count < 0 => op[t].kind = "create"
  /\ op[t].overtaken => entry.is.kind = "value"

Tracked(t) ==
  /\ op[t].count \in 1..entry.updates
  /\ op[t].overtaken => op[t].count < entry.updates

(* The numbers of an entry with n trackers of operations or left behind.   *)
Numbers(e, n) ==
  /\ n <= e.trackers
  /\ e.trackers = n \/ e.updates >= UpdateMax
  /\ e.wrapped => e.implUpdates >= UpdateMax

(* A create has left a tracker behind, or none has.                        *)
Counted(left) ==
  /\ Numbers(entry, Cardinality(InFlight) + left)
  /\ left = 1 => /\ "create" \in Kinds
                 /\ entry.is.kind = "value"
                 /\ Creates = {}

Plain(is) == is.kind \in {"value", "null"} \/ is = Gone

OpsInv ==
  /\ Plain(entry.is)
  /\ \A t \in Threads : op[t].pc # "idle" => UnderWay(t)
  /\ \A t \in InFlight : Tracked(t)
  /\ \A t, u \in InFlight : t # u => op[t].count # op[u].count
  /\ \A t, u \in Creates : t = u
  /\ \A i \in 1..Len(notices) : notices[i].kind = "value"

TrackInv == OpsInv /\ \E left \in {0, 1} : Counted(left)

LEMMA incUpdateCountNumbers ==
  ASSUME NEW e \in EntryStates, NEW n \in Nat, Numbers(e, n), e.trackers > 0
  PROVE  /\ incUpdateCount(e).updates = e.updates + 1
         /\ incUpdateCount(e).is = e.is
         /\ Numbers(incUpdateCount(e), n)
<1>1. UpdateMax \in Nat \ {0} BY TrackedAssumption, Zenon
<1>2. CASE e.wrapped \/ e.updates < UpdateMax
  <2>1. incUpdateCount(e) = [e EXCEPT !.updates = @ + 1]
    BY <1>1, <1>2 DEF incUpdateCount, EntryStates
  <2> QED BY <1>1, <2>1 DEF EntryStates, Numbers
<1>3. CASE ~e.wrapped /\ e.updates >= UpdateMax
  <2>1. incUpdateCount(e) = Wrap(e, e.trackers, e.updates + 1)
    BY <1>1, <1>3 DEF incUpdateCount, EntryStates
  <2> QED BY <1>1, <1>3, <2>1 DEF EntryStates, Numbers, Wrap
<1> QED BY <1>1, <1>2, <1>3 DEF EntryStates

LEMMA addTrackerNumbers ==
  ASSUME NEW e \in EntryStates, NEW n \in Nat, Numbers(e, n),
         e.wrapped \/ e.trackers < TrackMax
  PROVE  /\ addTracker(e) = [e EXCEPT !.trackers = @ + 1]
         /\ Numbers(addTracker(e), n + 1)
<1>1. UpdateMax \in Nat \ {0} BY TrackedAssumption, Zenon
<1>2. addTracker(e) = [e EXCEPT !.trackers = @ + 1] BY Zenon DEF addTracker
<1> QED BY <1>1, <1>2 DEF Numbers, EntryStates

LEMMA trackAndCountNumbers ==
  ASSUME NEW e \in EntryStates, NEW n \in Nat, Numbers(e, n), n < TrackMax
  PROVE  /\ trackAndCount(e).updates = e.updates + 1
         /\ trackAndCount(e).is = e.is
         /\ Numbers(trackAndCount(e), n + 1)
<1>1. UpdateMax \in Nat \ {0} /\ TrackMax \in Nat \ {0}
  BY TrackedAssumption, Zenon
<1>2. CASE e.wrapped \/ e.trackers < TrackMax
  <2> DEFINE a == addTracker(e)
  <2>1. a = [e EXCEPT !.trackers = @ + 1] /\ Numbers(a, n + 1)
    BY <1>2, addTrackerNumbers, Zenon
  <2>2. a.updates = e.updates /\ a.trackers > 0 /\ a.is = e.is
    BY <2>1 DEF EntryStates
  <2>3. a \in EntryStates BY addTrackerType, Zenon
  <2>4. n + 1 \in Nat OBVIOUS
  <2>5. /\ incUpdateCount(a).updates = a.updates + 1
        /\ incUpdateCount(a).is = a.is
        /\ Numbers(incUpdateCount(a), n + 1)
    BY <2>1, <2>2, <2>3, <2>4, incUpdateCountNumbers, Zenon
  <2>6. trackAndCount(e) = incUpdateCount(a) BY <1>2, Zenon DEF trackAndCount
  <2> QED BY <2>2, <2>5, <2>6, Zenon
<1>3. CASE ~e.wrapped /\ ~(e.trackers < TrackMax)
  <2>1. e.updates >= UpdateMax BY <1>1, <1>3, Zenon DEF Numbers, EntryStates
  <2>2. ~(e.updates < UpdateMax) BY <1>1, <2>1 DEF EntryStates
  <2>3. trackAndCount(e) = Wrap(e, e.trackers, e.updates + 1)
    BY <1>3, <2>2, Zenon DEF trackAndCount
  <2> QED BY <1>1, <1>3, <2>1, <2>3 DEF Numbers, EntryStates, Wrap
<1> QED BY <1>2, <1>3, Zenon

LEMMA removeTrackerNumbers ==
  ASSUME NEW e \in EntryStates, NEW n \in Nat, n > 0, Numbers(e, n)
  PROVE  /\ Numbers(removeTracker(e), n - 1)
         /\ n > 1 => removeTracker(e).updates = e.updates
         /\ removeTracker(e).is.kind = "value" => removeTracker(e).is = e.is
         /\ e.is.kind = "value" => removeTracker(e).is = e.is
         /\ removeTracker(e).is \in {e.is, Gone}
<1>1. UpdateMax \in Nat \ {0} BY TrackedAssumption, Zenon
<1>2. CASE e.trackers > 1
  <2>1. removeTracker(e) = [e EXCEPT !.trackers = @ - 1]
    BY <1>2, Zenon DEF removeTracker
  <2> QED BY <1>1, <1>2, <2>1 DEF Numbers, EntryStates
<1>3. CASE ~(e.trackers > 1)
  <2>1. n = 1 BY <1>3 DEF Numbers, EntryStates
  <2>2. CASE e.is.kind \in {"null", "absent"}
    <3>1. removeTracker(e) = Absent BY <1>3, <2>2, Zenon DEF removeTracker
    <3> QED BY <2>1, <2>2, <3>1 DEF Absent, NewEntry, Numbers, Gone, Content
  <2>3. CASE e.is.kind \notin {"null", "absent"}
    <3> DEFINE r == [NewEntry(e.is) EXCEPT
                       !.trackers = IF e.wrapped THEN e.implTrackers ELSE 0,
                       !.updates = IF e.wrapped THEN e.implUpdates ELSE 0]
    <3>1. removeTracker(e) = r BY <1>3, <2>3, Zenon DEF removeTracker
    <3>2. /\ r.is = e.is /\ ~r.wrapped
          /\ e.wrapped => r.trackers = e.implTrackers
                          /\ r.updates = e.implUpdates
          /\ ~e.wrapped => r.trackers = 0
      BY Zenon DEF NewEntry
    <3> HIDE DEF r
    <3>3. Numbers(r, 0)
      BY <1>1, <3>2 DEF Numbers, EntryStates
    <3> QED BY <2>1, <3>1, <3>2, <3>3
  <2> QED BY <2>2, <2>3, Zenon
<1> QED BY <1>2, <1>3, Zenon

(* The operations under way are finitely many; with those of an idle       *)
(* thread and the tracker left behind there are no more than the limit.    *)
LEMMA InFlightFinite ==
  ASSUME TrackingSafe
  PROVE  /\ IsFiniteSet(InFlight) /\ Cardinality(InFlight) \in Nat
         /\ \A t \in Threads \ InFlight : \A left \in {0, 1} :
              Counted(left) => Cardinality(InFlight) + left < TrackMax
<1>1. IsFiniteSet(Threads) /\ Cardinality(Threads) <= TrackMax
  BY Zenon DEF TrackingSafe
<1>2. InFlight \subseteq Threads BY Zenon DEF InFlight
<1>3. IsFiniteSet(InFlight) /\ Cardinality(InFlight) \in Nat
  BY <1>1, <1>2, FS_Subset, FS_CardinalityType, Zenon
<1>4. ASSUME NEW t \in Threads \ InFlight, NEW left \in {0, 1}, Counted(left)
      PROVE  Cardinality(InFlight) + left < TrackMax
  <2>1. Cardinality(InFlight \cup {t}) = Cardinality(InFlight) + 1
    BY <1>3, FS_AddElement, Zenon
  <2>2. InFlight \cup {t} \subseteq Threads BY <1>2, Zenon
  <2>3. Cardinality(InFlight \cup {t}) <= Cardinality(Threads)
    BY <1>1, <2>2, FS_Subset, Zenon
  <2>4. Cardinality(Threads) \in Nat BY <1>1, FS_CardinalityType, Zenon
  <2>5. TrackMax \in Nat BY TrackedAssumption, Zenon
  <2>6. left = 1 => Cardinality(Threads) < TrackMax
    BY <1>4, Zenon DEF Counted, TrackingSafe
  <2> QED BY <1>1, <1>3, <2>1, <2>3, <2>4, <2>5, <2>6
<1> QED BY <1>3, <1>4, Zenon

(* The operation of u is left as it is, apart from being overtaken.        *)
Kept(u) ==
  /\ op'[u].pc = op[u].pc
  /\ op'[u].kind = op[u].kind
  /\ op'[u].count = op[u].count
  /\ op'[u].is = op[u].is

LEMMA OvertakeKept ==
  ASSUME NEW ops \in [Threads -> OpStates], NEW u \in Threads
  PROVE  /\ Overtake(ops)[u].pc = ops[u].pc
         /\ Overtake(ops)[u].kind = ops[u].kind
         /\ Overtake(ops)[u].count = ops[u].count
         /\ Overtake(ops)[u].is = ops[u].is
<1>1. CASE ops[u].pc \in {"tracked", "answered"}
  <2>1. ops[u] \in Running BY <1>1 DEF OpStates, Idle
  <2>2. Overtake(ops)[u] = [ops[u] EXCEPT !.overtaken = TRUE]
    BY <1>1, Zenon DEF Overtake
  <2> QED BY <2>1, <2>2, Zenon DEF Running
<1>2. CASE ops[u].pc \notin {"tracked", "answered"}
  BY <1>2, Zenon DEF Overtake
<1> QED BY <1>1, <1>2, Zenon

(* An operation with a tracker ends: its tracker is removed or left.       *)
LEMMA EndStep ==
  ASSUME TypeOK, OpsInv, TrackingSafe, NEW t \in InFlight,
         op'[t].pc = "idle",
         \A u \in Threads \ {t} :
           /\ Kept(u)
           /\ op'[u].overtaken /\ ~op[u].overtaken =>
                /\ entry'.is.kind = "value"
                /\ u \in InFlight => op[u].count < entry.updates,
         entry.is.kind = "value" => entry'.is.kind = "value",
         Plain(entry'.is),
         InFlight \ {t} # {} => entry'.updates = entry.updates,
         NEW left \in {0, 1},
         Numbers(entry', (Cardinality(InFlight) + left) - 1),
         left = 1 => /\ "create" \in Kinds
                     /\ entry'.is.kind = "value"
                     /\ Creates \subseteq {t},
         UNCHANGED notices
  PROVE  TrackInv'
<1>1. InFlight' = InFlight \ {t} BY Zenon DEF InFlight, Kept
<1>2. IsFiniteSet(InFlight) /\ Cardinality(InFlight) \in Nat BY InFlightFinite, Zenon
<1>3. Cardinality(InFlight \ {t}) = Cardinality(InFlight) - 1
  BY <1>2, FS_RemoveElement, Zenon
<1>4. Creates' = Creates \ {t}
  BY <1>1, Zenon DEF Creates, InFlight, Kept
<1>5. Counted(left)'
  <2>1. Cardinality(InFlight') + left = (Cardinality(InFlight) + left) - 1
    BY <1>1, <1>2, <1>3
  <2>2. Numbers(entry', Cardinality(InFlight') + left) BY <2>1, Zenon
  <2> QED BY <1>4, <2>2, Zenon DEF Counted, Numbers
<1>6. ASSUME NEW u \in InFlight'
      PROVE  /\ u \in InFlight /\ u # t /\ u \in Threads
             /\ entry'.updates = entry.updates
  BY <1>1, <1>6, Zenon DEF InFlight
<1>7. ASSUME NEW u \in InFlight' PROVE Tracked(u)'
  <2>1. /\ u \in InFlight /\ u # t /\ u \in Threads
        /\ entry'.updates = entry.updates
    BY <1>6, <1>7, Zenon
  <2>2. Tracked(u) /\ Kept(u) BY <2>1, Zenon DEF OpsInv
  <2>3. op'[u].overtaken => op[u].count < entry.updates
    BY <2>1, <2>2, Zenon DEF Tracked
  <2> QED BY <2>1, <2>2, <2>3, Zenon DEF Tracked, Kept
<1>8. ASSUME NEW u \in InFlight', NEW v \in InFlight', u # v
      PROVE  op'[u].count # op'[v].count
  BY <1>6, <1>8 DEF OpsInv, Kept
<1>9. ASSUME NEW u \in Threads, op'[u].pc # "idle" PROVE UnderWay(u)'
  <2>1. u # t /\ Kept(u) /\ UnderWay(u) BY <1>9 DEF OpsInv, Kept
  <2> QED BY <2>1, Zenon DEF UnderWay, Kept
<1>10. \A i \in 1..Len(notices') : notices'[i].kind = "value" BY Zenon DEF OpsInv
<1>11. \A u, v \in Creates' : u = v BY <1>4, Zenon DEF OpsInv
<1> QED BY <1>5, <1>7, <1>8, <1>9, <1>10, <1>11, Zenon DEF TrackInv, OpsInv

(* The entry gets a new value from a notification or from a create that    *)
(* has no tracker: everybody is overtaken.                                 *)
LEMMA UpdateStep ==
  ASSUME TypeOK, OpsInv, NEW left \in {0, 1}, Counted(left),
         \A u \in Threads : Kept(u) \/ (u \notin InFlight /\ op'[u].pc = "idle"),
         Numbers(entry', Cardinality(InFlight) + left),
         InFlight # {} => entry'.updates = entry.updates + 1,
         entry'.is.kind = "value",
         \A i \in 1..Len(notices') : notices'[i].kind = "value"
  PROVE  TrackInv'
<1>1. InFlight' = InFlight BY Zenon DEF InFlight, Kept
<1>2. \A u \in InFlight : Kept(u) BY Zenon DEF InFlight
<1>3. Creates' = Creates BY <1>1, <1>2, Zenon DEF Creates, Kept
<1>4. Counted(left)' BY <1>1, <1>3, Zenon DEF Numbers, Counted
<1>5. entry.updates \in Nat BY Zenon DEF TypeOK, EntryStates
<1>6. ASSUME NEW u \in InFlight PROVE Tracked(u)'
  <2>1. Tracked(u) /\ Kept(u) BY <1>2, Zenon DEF OpsInv
  <2>2. entry'.updates = entry.updates + 1 BY <1>6, Zenon
  <2> QED BY <1>5, <2>1, <2>2 DEF Tracked, Kept
<1>7. ASSUME NEW u \in InFlight, NEW v \in InFlight, u # v
      PROVE  op'[u].count # op'[v].count
  BY <1>2, <1>7 DEF OpsInv, Kept, InFlight
<1>8. ASSUME NEW u \in Threads, op'[u].pc # "idle" PROVE UnderWay(u)'
  <2>1. Kept(u) /\ UnderWay(u) BY <1>8, Zenon DEF OpsInv, Kept
  <2> QED BY <2>1, Zenon DEF UnderWay, Kept
<1>9. \A u, v \in Creates' : u = v BY <1>3, Zenon DEF OpsInv
<1>10. Plain(entry'.is) BY Zenon DEF Plain
<1> QED BY <1>1, <1>4, <1>6, <1>7, <1>8, <1>9, <1>10, Zenon DEF TrackInv, OpsInv

(* A step that leaves the entry as it is: an operation without tracker     *)
(* comes or goes, or a request is answered.                                *)
Beside(u) ==
  \/ op'[u] = op[u]
  \/ u \notin InFlight /\ op'[u].pc = "idle"
  \/ /\ u \notin InFlight /\ op'[u] = Begun("create", "tracked", -1)
     /\ "create" \in Kinds
  \/ /\ op[u].pc = "tracked" /\ op'[u].pc = "answered"
     /\ op'[u].is.kind = "value" /\ op'[u].kind = op[u].kind
     /\ op'[u].count = op[u].count /\ op'[u].overtaken = op[u].overtaken

LEMMA QuietStep ==
  ASSUME TypeOK, TrackInv, \A u \in Threads : Beside(u), UNCHANGED entry,
         \A i \in 1..Len(notices') : notices'[i].kind = "value"
  PROVE  TrackInv'
<1>1. /\ Begun("create", "tracked", -1).count = -1
      /\ Begun("create", "tracked", -1).kind = "create"
      /\ Begun("create", "tracked", -1).pc = "tracked"
      /\ ~Begun("create", "tracked", -1).overtaken
  BY DEF Begun, Idle
<1>2. ASSUME NEW u \in InFlight
      PROVE  /\ op'[u].pc # "idle" /\ op'[u].count = op[u].count
             /\ op'[u].kind = op[u].kind /\ op'[u].overtaken = op[u].overtaken
  BY Zenon DEF InFlight, Beside
<1>3. ASSUME NEW u \in Threads, u \notin InFlight PROVE u \notin InFlight'
  <2>1. CASE op'[u] = op[u] BY <1>3, <2>1, Zenon DEF InFlight
  <2>2. CASE op'[u].pc = "idle" BY <2>2, Zenon DEF InFlight
  <2>3. CASE op'[u] = Begun("create", "tracked", -1) BY <1>1, <2>3 DEF InFlight
  <2>4. CASE op[u].pc = "tracked" /\ op'[u].count = op[u].count
    BY <1>3, <2>4, Zenon DEF InFlight
  <2> QED BY <2>1, <2>2, <2>3, <2>4, Zenon DEF Beside
<1>4. InFlight' = InFlight
  <2>1. InFlight \subseteq InFlight' BY <1>2, Zenon DEF InFlight
  <2>2. InFlight' \subseteq Threads BY Zenon DEF InFlight
  <2> QED BY <1>3, <2>1, <2>2, Zenon
<1>5. Creates' = Creates BY <1>2, <1>4, Zenon DEF Creates
<1>6. PICK left \in {0, 1} : Counted(left) BY Zenon DEF TrackInv
<1>7. Counted(left)' BY <1>4, <1>5, <1>6, Zenon DEF Counted, Numbers
<1>8. ASSUME NEW u \in InFlight PROVE Tracked(u)'
  BY <1>2, Zenon DEF TrackInv, OpsInv, Tracked
<1>9. ASSUME NEW u \in InFlight, NEW v \in InFlight, u # v
      PROVE  op'[u].count # op'[v].count
  BY <1>2, <1>9 DEF TrackInv, OpsInv
<1>10. ASSUME NEW u \in Threads, op'[u].pc # "idle" PROVE UnderWay(u)'
  <2>1. CASE op'[u] = op[u]
    BY <1>10, <2>1, Zenon DEF TrackInv, OpsInv, UnderWay
  <2>2. CASE op'[u] = Begun("create", "tracked", -1) /\ "create" \in Kinds
    BY <1>1, <2>2 DEF UnderWay
  <2>3. CASE /\ op[u].pc = "tracked" /\ op'[u].pc = "answered"
             /\ op'[u].is.kind = "value" /\ op'[u].kind = op[u].kind
             /\ op'[u].count = op[u].count /\ op'[u].overtaken = op[u].overtaken
    BY <2>3, Zenon DEF TrackInv, OpsInv, UnderWay
  <2> QED BY <1>10, <2>1, <2>2, <2>3, Zenon DEF Beside
<1>11. \A u, v \in Creates' : u = v BY <1>5, Zenon DEF TrackInv, OpsInv
<1> QED BY <1>4, <1>7, <1>8, <1>9, <1>10, <1>11, Zenon DEF TrackInv, OpsInv

LEMMA BegunFields ==
  ASSUME NEW kind, NEW pc, NEW count
  PROVE  /\ Begun(kind, pc, count).kind = kind
         /\ Begun(kind, pc, count).pc = pc
         /\ Begun(kind, pc, count).count = count
         /\ ~Begun(kind, pc, count).overtaken
BY Zenon DEF Begun, Idle

(* A put or a create begins and adds a tracker.                            *)
LEMMA StartStep ==
  ASSUME TypeOK, TrackInv, TrackingSafe, NEW t \in Threads, op[t] = Idle,
         NEW kind \in Kinds, kind = "create" => entry = Absent,
         entry' = trackAndCount(IF entry = Absent THEN Placeholder ELSE entry),
         op' = [op EXCEPT ![t] = Begun(kind, "tracked", entry.updates + 1)],
         UNCHANGED notices
  PROVE  TrackInv'
<1> DEFINE found == IF entry = Absent THEN Placeholder ELSE entry
           n == Cardinality(InFlight)
<1>a. PICK left \in {0, 1} : Counted(left) BY Zenon DEF TrackInv
<1>1. t \in Threads \ InFlight BY DEF Idle, InFlight
<1>2. IsFiniteSet(InFlight) /\ n \in Nat /\ n + left < TrackMax
  BY <1>a, <1>1, InFlightFinite, Zenon
<1>3. found \in EntryStates BY AbsentType, Zenon DEF TypeOK
<1>4. Numbers(entry, n + left) BY <1>a, Zenon DEF Counted
<1>5. /\ Numbers(found, n + left) /\ found.updates = entry.updates
      /\ entry.is.kind = "value" => found.is.kind = "value"
      /\ Plain(found.is)
  <2>1. CASE entry = Absent
    BY <1>4, <2>1 DEF Absent, Placeholder, NewEntry, Numbers, Gone, Content, Plain
  <2> QED BY <1>4, <2>1, Zenon DEF TrackInv, OpsInv
<1> HIDE DEF found, n
<1>b. n + left \in Nat /\ (n + left) + 1 = (n + 1) + left BY <1>2
<1>6. entry' = trackAndCount(found) BY Zenon DEF found
<1>7. /\ entry'.updates = entry.updates + 1 /\ Numbers(entry', (n + left) + 1)
      /\ entry'.is = found.is
  BY <1>b, <1>2, <1>3, <1>5, <1>6, trackAndCountNumbers, Zenon
<1>8. /\ op'[t] = Begun(kind, "tracked", entry.updates + 1)
      /\ \A u \in Threads \ {t} : op'[u] = op[u]
  BY Zenon DEF TypeOK
<1>13. entry.updates \in Nat BY Zenon DEF TypeOK, EntryStates
<1>9. /\ op'[t].pc = "tracked" /\ op'[t].kind = kind
      /\ op'[t].count = entry.updates + 1 /\ ~op'[t].overtaken
  <2> DEFINE b == Begun(kind, "tracked", entry.updates + 1)
  <2>1. /\ b.pc = "tracked" /\ b.kind = kind
        /\ b.count = entry.updates + 1 /\ ~b.overtaken
    BY BegunFields
  <2>2. op'[t] = b BY <1>8, Zenon
  <2> HIDE DEF b
  <2> QED BY <2>1, <2>2, Zenon
<1>e. op'[t].count >= 0 BY <1>9, <1>13
<1>10. InFlight' = InFlight \cup {t} BY <1>e, <1>1, <1>8, <1>9, Zenon DEF InFlight
<1>11. Cardinality(InFlight \cup {t}) = n + 1
  BY <1>1, <1>2, FS_AddElement, Zenon DEF n
<1>c. kind = "create" => InFlight = {} /\ left = 0
  <2> SUFFICES ASSUME kind = "create" PROVE InFlight = {} /\ left = 0
    BY Zenon
  <2>1. n + left = 0 BY <1>2, <1>4 DEF Absent, NewEntry, Numbers
  <2>2. n = 0 /\ left = 0 BY <1>2, <2>1
  <2> QED BY <1>2, <2>2, FS_EmptySet, Zenon DEF n
<1>d. Creates \subseteq InFlight
      /\ Creates' = (IF kind = "create" THEN {t} ELSE Creates)
  BY <1>1, <1>c, <1>8, <1>9, <1>10, Zenon DEF Creates, InFlight
<1>12. Counted(left)'
  <2>1. Numbers(entry', Cardinality(InFlight') + left)
    BY <1>b, <1>7, <1>10, <1>11, Zenon
  <2>2. left = 1 => "create" \in Kinds /\ entry'.is.kind = "value" /\ Creates' = {}
    BY <1>a, <1>c, <1>d, <1>5, <1>7 DEF Counted
  <2> QED BY <2>1, <2>2, Zenon DEF Counted, Numbers
<1>14. ASSUME NEW u \in InFlight
       PROVE  /\ op'[u] = op[u] /\ Tracked(u)
              /\ op[u].count \in 1..entry.updates
  BY <1>1, <1>8, Zenon DEF TrackInv, OpsInv, InFlight, Tracked
<1>15. ASSUME NEW u \in InFlight' PROVE Tracked(u)'
  <2>1. CASE u = t BY <1>7, <1>9, <1>13, <2>1 DEF Tracked
  <2>2. CASE u \in InFlight BY <1>7, <1>13, <1>14, <2>2 DEF Tracked
  <2> QED BY <1>10, <2>1, <2>2, Zenon
<1>16. ASSUME NEW u \in InFlight', NEW v \in InFlight', u # v
       PROVE  op'[u].count # op'[v].count
  <2>1. CASE u \in InFlight /\ v \in InFlight
    BY <1>14, <1>16, <2>1, Zenon DEF TrackInv, OpsInv
  <2>2. CASE u \in InFlight /\ v = t BY <1>9, <1>13, <1>14, <2>2
  <2>3. CASE u = t /\ v \in InFlight BY <1>9, <1>13, <1>14, <2>3
  <2> QED BY <1>10, <1>16, <2>1, <2>2, <2>3, Zenon
<1>17. \A i \in 1..Len(notices') : notices'[i].kind = "value"
  BY Zenon DEF TrackInv, OpsInv
<1>18. ASSUME NEW u \in Threads, op'[u].pc # "idle" PROVE UnderWay(u)'
  <2>1. CASE u = t BY <1>9, <1>13, <2>1 DEF UnderWay
  <2>2. CASE u # t
    <3>1. op'[u] = op[u] /\ UnderWay(u)
      BY <1>8, <1>18, <2>2, Zenon DEF TrackInv, OpsInv
    <3> QED BY <1>5, <1>7, <3>1 DEF UnderWay
  <2> QED BY <2>1, <2>2, Zenon
<1>f. Plain(entry'.is) BY <1>5, <1>7, Zenon
<1>19. \A u, v \in Creates' : u = v BY <1>d, Zenon DEF TrackInv, OpsInv
<1> QED BY <1>12, <1>15, <1>16, <1>17, <1>18, <1>19, <1>f,
       Zenon DEF TrackInv, OpsInv

(* What an update without a tracker does to the numbers.                   *)
LEMMA putUntrackedNumbers ==
  ASSUME TypeOK, Shape(entry), NEW m \in Nat, Numbers(entry, m),
         NEW is \in Values, putUntracked(is)
  PROVE  /\ Numbers(entry', m)
         /\ m > 0 => entry'.updates = entry.updates + 1
         /\ entry'.is = is
<1>1. entry \in EntryStates BY Zenon DEF TypeOK
<1>2. CASE entry = Absent
  <2>1. m = 0 BY <1>2 DEF Absent, NewEntry, Numbers
  <2>2. entry' = NewEntry(is) BY <1>2, Zenon DEF putUntracked
  <2> QED BY <2>1, <2>2 DEF NewEntry, Numbers
<1>3. CASE entry # Absent
  <2> DEFINE e == [entry EXCEPT !.is = is]
  <2>1. e \in EntryStates BY <1>1, ValuesAreContents, StoreType, Zenon
  <2>2. /\ Numbers(e, m) /\ e.updates = entry.updates /\ e.is = is
        /\ e.trackers = entry.trackers /\ e.wrapped = entry.wrapped
    BY <1>1, Zenon DEF Numbers, EntryStates
  <2> HIDE DEF e
  <2>3. entry' = incUpdateCount(e) BY <1>3, Zenon DEF putUntracked, e
  <2>4. CASE entry.trackers > 0
    BY <2>1, <2>2, <2>3, <2>4, incUpdateCountNumbers, Zenon
  <2>5. CASE ~(entry.trackers > 0)
    <3>1. entry.trackers = 0 /\ m = 0 /\ ~entry.wrapped
      BY <1>1, <2>5 DEF Shape, Numbers, EntryStates
    <3>2. entry' = e
      BY <2>1, <2>2, <2>3, <3>1 DEF incUpdateCount, EntryStates
    <3> QED BY <2>2, <3>1, <3>2
  <2> QED BY <2>4, <2>5, Zenon
<1> QED BY <1>2, <1>3, Zenon

(* The local part of an operation without tracker.                         *)
LEMMA CreateStep ==
  ASSUME TypeOK, Shape(entry), TrackInv, TrackingSafe, NEW t \in Threads,
         LocalUpdate(t), op[t].count < 0
  PROVE  /\ TrackInv'
         /\ op[t].overtaken => entry'.is = entry.is
<1>1. op \in [Threads -> OpStates] /\ op[t].pc = "answered" /\ op[t].pc # "idle"
  BY Zenon DEF TypeOK, LocalUpdate
<1>2. UnderWay(t) BY <1>1, Zenon DEF TrackInv, OpsInv
<1>3. /\ op[t].kind = "create" /\ op[t].is.kind = "value"
      /\ op[t].overtaken => entry.is.kind = "value"
  BY <1>1, <1>2, Zenon DEF UnderWay
<1>4. t \notin InFlight
  <2>1. op[t] \in Running BY <1>1 DEF OpStates, Idle
  <2> QED BY <2>1 DEF InFlight, Running
<1>5. create(op[t].is, op[t].count) BY <1>3 DEF LocalUpdate, Change
<1> DEFINE ended == [op EXCEPT ![t] = Idle]
<1>6. op' = (IF Shown(entry') # Shown(entry) THEN Overtake(ended) ELSE ended)
  BY <1>3 DEF LocalUpdate
<1>7. ended \in [Threads -> OpStates] /\ ended[t].pc = "idle"
      /\ \A u \in Threads \ {t} : ended[u] = op[u]
  BY <1>1, Zenon DEF OpStates, Idle
<1> HIDE DEF ended
<1>8. UNCHANGED notices BY Zenon DEF LocalUpdate
<1>9. CASE entry.is.kind \in {"value", "invalid"}
  <2>1. UNCHANGED entry BY <1>5, <1>9, Zenon DEF create
  <2>2. op' = ended BY <1>6, <2>1, Zenon
  <2>3. \A u \in Threads : Beside(u) BY <1>4, <1>7, <2>2, Zenon DEF Beside
  <2>4. TrackInv' BY <1>8, <2>1, <2>3, QuietStep, Zenon DEF TrackInv, OpsInv
  <2> QED BY <2>1, <2>4, Zenon
<1>10. CASE entry.is.kind \notin {"value", "invalid"}
  <2>1. putUntracked(op[t].is) BY <1>5, <1>10, Zenon DEF create, put
  <2>2. PICK left \in {0, 1} : Counted(left) BY Zenon DEF TrackInv
  <2> DEFINE m == Cardinality(InFlight) + left
  <2>3. /\ IsFiniteSet(InFlight) /\ Cardinality(InFlight) \in Nat
        /\ InFlight # {} => Cardinality(InFlight) # 0
    BY InFlightFinite, FS_EmptySet, Zenon
  <2>4. m \in Nat /\ (InFlight # {} => m > 0) BY <2>3
  <2>5. Numbers(entry, m) BY <2>2, Zenon DEF Counted
  <2>6. op[t].is \in Values BY <1>1 DEF OpStates, Running, Idle, Values
  <2> HIDE DEF m
  <2>7. /\ Numbers(entry', m) /\ entry'.is = op[t].is
        /\ m > 0 => entry'.updates = entry.updates + 1
    BY <2>1, <2>4, <2>5, <2>6, putUntrackedNumbers, Zenon
  <2>8. op'[t].pc = "idle" BY <1>6, <1>7, OvertakeKept, Zenon
  <2>9. \A u \in Threads \ {t} : Kept(u)
    BY <1>6, <1>7, OvertakeKept DEF Kept
  <2>10. /\ \A u \in Threads : Kept(u) \/ (u \notin InFlight /\ op'[u].pc = "idle")
         /\ Numbers(entry', Cardinality(InFlight) + left)
         /\ InFlight # {} => entry'.updates = entry.updates + 1
         /\ entry'.is.kind = "value"
         /\ \A i \in 1..Len(notices') : notices'[i].kind = "value"
    BY <1>3, <1>4, <1>8, <2>4, <2>7, <2>8, <2>9, Zenon DEF m, TrackInv, OpsInv
  <2>11. TrackInv' BY <2>2, <2>10, UpdateStep, Zenon DEF TrackInv
  <2> QED BY <1>3, <1>10, <2>11, Zenon
<1> QED BY <1>9, <1>10, Zenon

(* The local part of an operation with a tracker: its value is stored or   *)
(* not, and a create that finds a value leaves its tracker behind.         *)
LEMMA PutStep ==
  ASSUME TypeOK, TrackInv, TrackingSafe, NEW t \in Threads,
         LocalUpdate(t), ~(op[t].count < 0)
  PROVE  /\ TrackInv'
         /\ op[t].overtaken /\ entry'.is.kind = "value" => entry'.is = entry.is
<1> DEFINE n == Cardinality(InFlight)
<1>5. /\ entry \in EntryStates /\ op[t].is \in Values
      /\ op \in [Threads -> OpStates] /\ op[t] \in Running
  BY DEF TypeOK, OpStates, Running, Idle, Values, LocalUpdate
<1>a. PICK left \in {0, 1} : Counted(left) BY Zenon DEF TrackInv
<1>1. t \in InFlight BY <1>5 DEF LocalUpdate, InFlight, Running
<1>2. IsFiniteSet(InFlight) /\ n \in Nat BY InFlightFinite, Zenon
<1>3. n > 0 BY <1>1, <1>2, FS_EmptySet
<1>4. Numbers(entry, n + left) /\ Tracked(t) /\ UnderWay(t)
  BY <1>a, <1>1, Zenon DEF TrackInv, OpsInv, Counted, InFlight
<1> DEFINE m == n + left
<1>b. m \in Nat /\ m > 0 /\ m - 1 = (Cardinality(InFlight) + left) - 1
  BY <1>2, <1>3
<1>c. OpsInv BY Zenon DEF TrackInv
<1>d. InFlight \ {t} # {} => m > 1
  <2>1. Cardinality(InFlight \ {t}) = n - 1 /\ IsFiniteSet(InFlight \ {t})
    BY <1>1, <1>2, FS_RemoveElement, Zenon
  <2>2. InFlight \ {t} # {} => n - 1 # 0 BY <2>1, FS_EmptySet, Zenon
  <2> QED BY <1>2, <1>3, <2>2
<1>e. Numbers(entry, m) BY <1>4, Zenon
<1>f. left = 1 => /\ "create" \in Kinds /\ entry.is.kind = "value"
                  /\ Creates \subseteq {t}
  BY <1>a, Zenon DEF Counted
<1>g. op[t].is.kind = "value" /\ op[t].kind \in {"put", "create"}
  BY <1>4, Zenon DEF UnderWay, LocalUpdate, TrackingSafe
<1> HIDE DEF n, m
<1>6. entry # Absent
  BY <1>b, <1>e DEF Numbers, Absent, NewEntry
<1>7. \/ /\ op[t].kind = "create" /\ entry.is.kind \in {"value", "invalid"}
         /\ UNCHANGED entry
      \/ putTracked(op[t].is, op[t].count)
  BY <1>g DEF LocalUpdate, Change, put, create
<1>8. \A e \in EntryStates : Numbers(e, m) =>
        /\ Numbers(removeTracker(e), m - 1)
        /\ m > 1 => removeTracker(e).updates = e.updates
        /\ removeTracker(e).is.kind = "value" => removeTracker(e).is = e.is
        /\ e.is.kind = "value" => removeTracker(e).is = e.is
        /\ removeTracker(e).is \in {e.is, Gone}
  BY <1>b, removeTrackerNumbers, Zenon
<1> DEFINE ended == [op EXCEPT ![t] = Idle]
<1>9. op' = (IF Shown(entry') # Shown(entry) THEN Overtake(ended) ELSE ended)
  BY <1>g DEF LocalUpdate
<1>10. ended \in [Threads -> OpStates] /\ ended[t].pc = "idle"
       /\ \A u \in Threads \ {t} : ended[u] = op[u]
  BY <1>5, Zenon DEF OpStates, Idle
<1> HIDE DEF ended
<1>11. op'[t].pc = "idle" BY <1>9, <1>10, OvertakeKept, Zenon
<1>12. \A u \in Threads \ {t} : Kept(u)
  BY <1>9, <1>10, OvertakeKept DEF Kept
<1>13. UNCHANGED notices BY Zenon DEF LocalUpdate
<1>14. CASE putTracked(op[t].is, op[t].count) /\ op[t].count = entry.updates
  <2> DEFINE e == [entry EXCEPT !.is = op[t].is]
  <2>1. e \in EntryStates BY <1>5, ValuesAreContents, StoreType, Zenon
  <2>2. Numbers(e, m) /\ e.updates = entry.updates /\ e.is.kind = "value"
    BY <1>e, <1>5, <1>g, Zenon DEF Numbers, EntryStates
  <2>3. entry' = removeTracker(e) BY <1>6, <1>14, Zenon DEF putTracked
  <2> HIDE DEF e
  <2>4. /\ Numbers(entry', m - 1) /\ (m > 1 => entry'.updates = entry.updates)
        /\ entry'.is.kind = "value" /\ Plain(entry'.is)
    BY <1>8, <2>1, <2>2, <2>3, Zenon DEF Plain
  <2>5. ASSUME NEW u \in InFlight, u # t PROVE op[u].count < entry.updates
    <3>1. op[u].count # op[t].count /\ op[u].count \in 1..entry.updates
      BY <1>1, <1>c, <2>5, Zenon DEF OpsInv, Tracked
    <3>2. entry.updates \in Nat BY <1>5, Zenon DEF EntryStates
    <3> QED BY <1>14, <3>1, <3>2
  <2>6. /\ Numbers(entry', (Cardinality(InFlight) + left) - 1)
        /\ InFlight \ {t} # {} => entry'.updates = entry.updates
        /\ \A u \in Threads \ {t} : u \in InFlight => op[u].count < entry.updates
    BY <1>b, <1>d, <2>4, <2>5, Zenon
  <2>7. TrackInv'
    BY <1>1, <1>c, <1>f, <1>11, <1>12, <1>13, <2>4, <2>6, EndStep, Zenon
  <2>8. ~op[t].overtaken
    <3>1. entry.updates \in Nat BY <1>5, Zenon DEF EntryStates
    <3> QED BY <1>4, <1>14, <3>1 DEF Tracked
  <2> QED BY <2>7, <2>8, Zenon
<1>15. CASE putTracked(op[t].is, op[t].count) /\ op[t].count # entry.updates
  <2>1. entry' = removeTracker(entry) BY <1>6, <1>15, Zenon DEF putTracked
  <2>2. /\ Numbers(entry', m - 1) /\ (m > 1 => entry'.updates = entry.updates)
        /\ entry'.is.kind = "value" => entry'.is = entry.is
        /\ entry.is.kind = "value" => entry'.is = entry.is
        /\ entry'.is \in {entry.is, Gone}
    BY <1>e, <1>5, <1>8, <2>1, Zenon
  <2>3. Shown(entry') = Shown(entry)
    <3>1. entry.is.kind = "value" \/ entry.is.kind = "null" \/ entry.is = Gone
      BY <1>c, Zenon DEF OpsInv, Plain
    <3>2. CASE entry.is.kind = "value" BY <2>2, <3>2, Zenon DEF Shown
    <3>3. CASE entry.is.kind = "null"
      BY <2>2, <3>3 DEF Shown, Gone, Content
    <3>4. CASE entry.is = Gone BY <2>2, <3>4, Zenon DEF Shown
    <3> QED BY <3>1, <3>2, <3>3, <3>4, Zenon
  <2>4. op' = ended BY <1>9, <2>3, Zenon
  <2>5. \A u \in Threads \ {t} : op'[u].overtaken => op[u].overtaken
    BY <1>10, <2>4, Zenon
  <2>6. /\ Numbers(entry', (Cardinality(InFlight) + left) - 1)
        /\ InFlight \ {t} # {} => entry'.updates = entry.updates
    BY <1>b, <1>d, <2>2, Zenon
  <2>a. Plain(entry'.is) BY <1>c, <2>2, Zenon DEF OpsInv, Plain
  <2>7. TrackInv'
    BY <1>1, <1>c, <1>f, <1>11, <1>12, <1>13, <2>2, <2>a, <2>5, <2>6,
       <1>15, EndStep, Zenon
  <2> QED BY <2>2, <2>7, Zenon
<1>16. CASE /\ op[t].kind = "create" /\ entry.is.kind \in {"value", "invalid"}
            /\ UNCHANGED entry
  <2>1. t \in Creates BY <1>1, <1>16, Zenon DEF Creates
  <2>2. left = 0 /\ Creates \subseteq {t} /\ "create" \in Kinds
    <3>1. left # 1 BY <1>a, <2>1, Zenon DEF Counted
    <3> QED BY <1>c, <1>4, <1>16, <2>1, <3>1, Zenon DEF OpsInv, UnderWay
  <2>3. op' = ended BY <1>9, <1>16, Zenon
  <2>4. \A u \in Threads \ {t} : op'[u].overtaken => op[u].overtaken
    BY <1>10, <2>3, Zenon
  <2>5. Numbers(entry', (Cardinality(InFlight) + 1) - 1)
    <3>1. m = (Cardinality(InFlight) + 1) - 1 BY <1>2, <2>2 DEF m, n
    <3> QED BY <1>e, <1>16, <3>1, Zenon
  <2>6. entry.is.kind = "value" BY <1>c, <1>16 DEF OpsInv, Plain, Gone, Content
  <2>7. /\ entry'.is.kind = "value" /\ Plain(entry'.is)
        /\ entry'.updates = entry.updates /\ 1 \in {0, 1}
    BY <1>c, <1>16, <2>6, Zenon DEF OpsInv
  <2>8. TrackInv'
    BY <1>1, <1>c, <1>11, <1>12, <1>13, <2>2, <2>4, <2>5, <2>7, EndStep, Zenon
  <2> QED BY <1>16, <2>8, Zenon
<1> QED BY <1>7, <1>14, <1>15, <1>16, Zenon

(* A request fails and its tracker goes.                                   *)
LEMMA FailStep ==
  ASSUME TypeOK, TrackInv, TrackingSafe, NEW t \in Threads, Fail(t)
  PROVE  TrackInv'
<1> DEFINE n == Cardinality(InFlight)
<1>1. entry \in EntryStates /\ op \in [Threads -> OpStates] /\ op[t] \in Running
  BY DEF TypeOK, Fail, OpStates, Idle
<1>2. /\ op'[t].pc = "idle" /\ UNCHANGED notices
      /\ \A u \in Threads \ {t} : op'[u] = op[u]
  BY <1>1, Zenon DEF Fail, Idle
<1>3. OpsInv BY Zenon DEF TrackInv
<1>4. CASE op[t].count >= 0
  <2>1. t \in InFlight BY <1>4, Zenon DEF Fail, InFlight
  <2>2. PICK left \in {0, 1} : Counted(left) BY Zenon DEF TrackInv
  <2>3. IsFiniteSet(InFlight) /\ n \in Nat BY InFlightFinite, Zenon
  <2>4. n > 0 BY <2>1, <2>3, FS_EmptySet
  <2>5. Numbers(entry, n + left) /\ Tracked(t)
    BY <1>3, <2>1, <2>2, Zenon DEF OpsInv, Counted
  <2>6. InFlight \ {t} # {} => n > 1
    <3>1. Cardinality(InFlight \ {t}) = n - 1 /\ IsFiniteSet(InFlight \ {t})
      BY <2>1, <2>3, FS_RemoveElement, Zenon
    <3>2. InFlight \ {t} # {} => n - 1 # 0 BY <3>1, FS_EmptySet, Zenon
    <3> QED BY <2>3, <2>4, <3>2
  <2> DEFINE m == n + left
  <2>7. m \in Nat /\ m > 0 /\ (n > 1 => m > 1) BY <2>3, <2>4
  <2>b. Numbers(entry, m) /\ m - 1 = (Cardinality(InFlight) + left) - 1
    BY <2>5, Zenon
  <2> HIDE DEF n, m
  <2>8. entry' = removeTracker(entry) BY <1>4, Zenon DEF Fail
  <2>9. /\ Numbers(entry', m - 1)
        /\ m > 1 => entry'.updates = entry.updates
        /\ entry.is.kind = "value" => entry'.is = entry.is
        /\ entry'.is \in {entry.is, Gone}
    BY <1>1, <2>b, <2>7, <2>8, removeTrackerNumbers, Zenon
  <2>10. /\ left = 1 => /\ "create" \in Kinds /\ entry'.is.kind = "value"
                        /\ Creates \subseteq {t}
         /\ Plain(entry'.is)
    BY <1>3, <2>2, <2>9, Zenon DEF Counted, OpsInv, Plain
  <2>11. /\ Numbers(entry', (Cardinality(InFlight) + left) - 1)
         /\ InFlight \ {t} # {} => entry'.updates = entry.updates
         /\ entry.is.kind = "value" => entry'.is.kind = "value"
         /\ \A u \in Threads \ {t} : Kept(u) /\ op'[u].overtaken = op[u].overtaken
    BY <1>2, <2>b, <2>6, <2>7, <2>9, Zenon DEF Kept
  <2> QED BY <1>2, <1>3, <2>1, <2>10, <2>11, EndStep, Zenon
<1>5. CASE ~(op[t].count >= 0)
  <2>1. UNCHANGED entry BY <1>5, Zenon DEF Fail
  <2>2. t \notin InFlight BY <1>5, Zenon DEF InFlight
  <2>3. \A u \in Threads : Beside(u) BY <1>2, <2>2, Zenon DEF Beside
  <2> QED BY <1>2, <1>3, <2>1, <2>3, QuietStep, Zenon DEF OpsInv
<1> QED BY <1>4, <1>5, Zenon

(* A notification is applied.                                              *)
LEMMA NotifyStep ==
  ASSUME TypeOK, Shape(entry), TrackInv, TrackingSafe, Notify
  PROVE  TrackInv'
<1>1. PICK left \in {0, 1} : Counted(left) BY Zenon DEF TrackInv
<1> DEFINE m == Cardinality(InFlight) + left
           is == Head(notices)
<1>2. /\ IsFiniteSet(InFlight) /\ Cardinality(InFlight) \in Nat
      /\ InFlight # {} => Cardinality(InFlight) # 0
  BY InFlightFinite, FS_EmptySet, Zenon
<1>3. m \in Nat /\ (InFlight # {} => m > 0) BY <1>2
<1>4. Numbers(entry, m) BY <1>1, Zenon DEF Counted
<1> HIDE DEF m
<1>5. notices \in Seq(Values) /\ notices # <<>> /\ notices' = Tail(notices)
  BY Zenon DEF TypeOK, Notify
<1>6. is \in Values /\ is.kind = "value"
  BY <1>5 DEF TrackInv, OpsInv
<1>7. putUntracked(is) BY <1>6, Zenon DEF Notify
<1> HIDE DEF is
<1>8. \A i \in 1..Len(notices') : notices'[i].kind = "value"
  BY <1>5 DEF TrackInv, OpsInv
<1>9. \A u \in Threads : Kept(u)
  BY OvertakeKept, Zenon DEF Notify, TypeOK, Kept
<1>10. /\ Numbers(entry', m) /\ entry'.is = is
       /\ m > 0 => entry'.updates = entry.updates + 1
  BY <1>3, <1>4, <1>6, <1>7, putUntrackedNumbers, Zenon
<1>11. /\ Numbers(entry', Cardinality(InFlight) + left)
       /\ InFlight # {} => entry'.updates = entry.updates + 1
       /\ entry'.is.kind = "value"
  BY <1>3, <1>6, <1>10, Zenon DEF m
<1> QED BY <1>1, <1>8, <1>9, <1>11, UpdateStep, Zenon DEF TrackInv

(* Every step keeps the invariant.                                         *)
LEMMA TrackStep ==
  ASSUME TypeOK, Shape(entry), TrackInv, TrackingSafe, [Next]_vars
  PROVE  TrackInv'
<1>0. op \in [Threads -> OpStates] BY Zenon DEF TypeOK
<1>a. \A i \in 1..Len(notices) : notices[i].kind = "value"
  BY Zenon DEF TrackInv, OpsInv
<1>b. Kinds \subseteq {"put", "create"} BY Zenon DEF TrackingSafe
<1>c. ASSUME NEW t \in Threads
      PROVE  op[t].pc # "missed" /\ op[t].pc # "leaving"
  BY Zenon DEF TrackInv, OpsInv, UnderWay
<1>1. ASSUME NEW t \in Threads, NEW kind \in Kinds, StartUpdate(t, kind)
      PROVE  TrackInv'
  <2>1. kind = "put" BY <1>1, <1>b DEF StartUpdate
  <2> QED BY <1>1, <2>1, StartStep, Zenon DEF StartUpdate
<1>2. ASSUME NEW t \in Threads, NEW kind \in Kinds, StartGet(t, kind)
      PROVE  TrackInv'
  BY <1>2, <1>b DEF StartGet
<1>3. ASSUME NEW t \in Threads, StartCreate(t) PROVE TrackInv'
  <2>1. op[t] = Idle /\ "create" \in Kinds /\ UNCHANGED notices
    BY <1>3, Zenon DEF StartCreate
  <2>2. CASE entry = Absent
    <3>1. entry.updates + 1 = 1 BY <2>2 DEF Absent, NewEntry
    <3>2. /\ entry' = trackAndCount(IF entry = Absent THEN Placeholder ELSE entry)
          /\ op' = [op EXCEPT ![t] = Begun("create", "tracked", entry.updates + 1)]
      BY <1>3, <2>2, <3>1, Zenon DEF StartCreate
    <3> QED BY <2>1, <2>2, <3>2, StartStep, Zenon
  <2>3. CASE entry # Absent
    <3>1. /\ op' = [op EXCEPT ![t] = Begun("create", "tracked", -1)]
          /\ UNCHANGED entry
      BY <1>3, <2>3, Zenon DEF StartCreate
    <3>2. t \notin InFlight BY <2>1 DEF InFlight, Idle
    <3>3. \A u \in Threads : Beside(u) BY <1>0, <2>1, <3>1, <3>2, Zenon DEF Beside
    <3> QED BY <1>a, <2>1, <3>1, <3>3, QuietStep, Zenon
  <2> QED BY <2>2, <2>3, Zenon
<1>4. ASSUME NEW t \in Threads, TrackGet(t) \/ Leave(t) PROVE TrackInv'
  BY <1>4, <1>c, Zenon DEF TrackGet, Leave
<1>5. ASSUME NEW t \in Threads, Answer(t) PROVE TrackInv'
  <2>1. UNCHANGED <<entry, notices>> /\ op[t].pc = "tracked"
    BY <1>5, Zenon DEF Answer
  <2>2. op' = [op EXCEPT ![t] = [op[t] EXCEPT !.pc = "answered",
                                              !.is = Effect(t)]]
    BY <1>0, <1>5, Zenon DEF Answer
  <2>3. op[t] \in Running BY <1>0, <2>1 DEF OpStates, Idle
  <2>4. op[t].kind \in {"put", "create"}
    BY <1>b, <2>1, Zenon DEF TrackInv, OpsInv, UnderWay
  <2>5. Effect(t).kind = "value" BY <2>4 DEF Effect, Content
  <2>6. /\ op'[t].pc = "answered" /\ op'[t].kind = op[t].kind
        /\ op'[t].count = op[t].count /\ op'[t].overtaken = op[t].overtaken
        /\ op'[t].is = Effect(t)
    BY <1>0, <2>2, <2>3, Zenon DEF Running
  <2>7. \A u \in Threads \ {t} : op'[u] = op[u] BY <1>0, <2>2, Zenon
  <2>8. \A u \in Threads : Beside(u)
    BY <2>1, <2>5, <2>6, <2>7, Zenon DEF Beside
  <2> QED BY <1>a, <2>1, <2>8, QuietStep, Zenon
<1>6. ASSUME NEW t \in Threads, Fail(t) PROVE TrackInv'
  BY <1>6, FailStep, Zenon
<1>7. ASSUME NEW t \in Threads, LocalUpdate(t) PROVE TrackInv'
  BY <1>7, PutStep, CreateStep, Zenon
<1>8. ASSUME NEW kind \in NoticeKinds, OtherChange(kind) PROVE TrackInv'
  <2>1. kind = "value" BY <1>8, Zenon DEF TrackingSafe
  <2>2. /\ UNCHANGED <<entry, op>>
        /\ notices' = Append(notices, Content("value", changes + 1))
    BY <1>8, <2>1, Zenon DEF OtherChange
  <2>3. notices \in Seq(Values) /\ Content("value", changes + 1) \in Values
    BY DEF TypeOK, Values, Content
  <2>4. \A i \in 1..Len(notices') : notices'[i].kind = "value"
    BY <1>a, <2>2, <2>3 DEF Content
  <2> QED BY <2>2, <2>4, QuietStep, Zenon DEF Beside
<1>9. CASE Notify BY <1>9, NotifyStep, Zenon
<1>10. CASE UNCHANGED vars
  BY <1>10, <1>a, QuietStep, Zenon DEF vars, Beside
<1> QED BY <1>1, <1>2, <1>3, <1>4, <1>5, <1>6, <1>7, <1>8, <1>9, <1>10, Zenon
        DEF Next, ThreadStep

LEMMA SpecTrack == ASSUME TrackingSafe PROVE Spec => []TrackInv
<1>1. Init => TrackInv
  <2> SUFFICES ASSUME Init PROVE TrackInv BY Zenon
  <2>1. InFlight = {} /\ Creates = {} /\ \A t \in Threads : op[t].pc = "idle"
    BY DEF Init, InFlight, Creates, Idle
  <2>2. Cardinality(InFlight) + 0 = 0 BY <2>1, FS_EmptySet
  <2>3. Numbers(entry, 0) /\ Plain(entry.is)
    BY DEF Init, Absent, NewEntry, Numbers, Plain
  <2>4. Counted(0) BY <2>2, <2>3 DEF Counted
  <2>5. Len(notices) = 0 BY Zenon DEF Init
  <2>6. OpsInv BY <2>1, <2>3, <2>5 DEF OpsInv
  <2> QED BY <2>4, <2>6 DEF TrackInv
<1>2. TypeOK /\ Shape(entry) /\ TrackInv /\ [Next]_vars => TrackInv'
  BY TrackStep, Zenon
<1> QED BY <1>1, <1>2, SpecShape, TypeCorrect, PTL DEF Spec

(* In a region used with puts and creates and notified of updates, by so   *)
(* few threads at a time that their trackers fit into GF_TRACK_MAX, an     *)
(* operation never stores its value over an update that came in while it   *)
(* was at the server, for any number of operations and notifications       *)
(* (LocalRegion::updateNoThrow).                                           *)
THEOREM UpdatesAreKept ==
  ASSUME TrackingSafe
  PROVE  Spec => UpdatesKept
<1>1. TypeOK /\ Shape(entry) /\ TrackInv =>
        [\A t \in Threads :
           (LocalUpdate(t) /\ op[t].overtaken /\ entry'.is.kind = "value")
             => entry'.is = entry.is]_vars
  BY PutStep, CreateStep, Zenon
<1> QED BY <1>1, SpecTrack, SpecShape, TypeCorrect, PTL DEF Spec, UpdatesKept

(* Under the same conditions every operation under way that remembers a    *)
(* count has a tracker on the entry, through wrapping and unwrapping, the  *)
(* resets and the failures of other operations, so that no update it has   *)
(* to notice goes uncounted (MapSegment::removeTrackerForEntry).           *)
THEOREM TrackersAreKept ==
  ASSUME TrackingSafe
  PROVE  Spec => []TrackersCover
<1>1. TypeOK /\ TrackInv => TrackersCover
  <2> SUFFICES ASSUME TypeOK, TrackInv PROVE TrackersCover BY Zenon
  <2> DEFINE S == {t \in Threads : op[t].pc \in {"tracked", "answered"}
                                   /\ op[t].count >= 0}
  <2>1. PICK left \in {0, 1} : Counted(left) BY Zenon DEF TrackInv
  <2>2. IsFiniteSet(InFlight) /\ Cardinality(InFlight) \in Nat
    BY InFlightFinite, Zenon
  <2>3. S \subseteq InFlight BY Zenon DEF InFlight
  <2>4. Cardinality(S) <= Cardinality(InFlight) /\ Cardinality(S) \in Nat
    BY <2>2, <2>3, FS_Subset, FS_CardinalityType, Zenon
  <2>5. Cardinality(InFlight) + left <= entry.trackers /\ entry.trackers \in Nat
    BY <2>1, Zenon DEF Counted, Numbers, TypeOK, EntryStates
  <2> HIDE DEF S
  <2>6. Cardinality(S) <= entry.trackers BY <2>2, <2>4, <2>5
  <2> QED BY <2>6, Zenon DEF S, TrackersCover
<1> QED BY <1>1, SpecTrack, TypeCorrect, PTL
=============================================================================
