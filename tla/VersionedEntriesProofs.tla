----------------------- MODULE VersionedEntriesProofs -----------------------
(* Proofs about VersionedEntries, for any keys, members, histories and     *)
(* bounds, and about VersionRollover, which justifies how it compares      *)
(* versions.  The first uses no assumption of the second.                  *)
EXTENDS VersionedEntries, VersionRollover, FiniteSetTheorems, TLAPS

Origins == {"server", "local", "mixed"}

(* What an operation of MapSegment leaves behind, apart from the ghost.    *)
MapTypeOK ==
  /\ m_map \in [Keys -> Entries]
  /\ tombstones \in [Keys -> TaskIds \cup {NoTask}]
  /\ tasks \in [TaskIds -> TaskRecords]
  /\ pendingInc \in Nat
  /\ pendingDec \in Nat

(* A number below the modulus is its own remainder.                        *)
LEMMA SmallMod ==
  ASSUME NEW a \in Nat, NEW m \in Nat, a < m
  PROVE  a % m = a
OBVIOUS

(* A remainder is a natural number below the modulus (setVersions, m_size). *)
LEMMA ModRange ==
  ASSUME NEW a \in Int, NEW m \in Nat \ {0}
  PROVE  a % m \in 0..(m - 1)
OBVIOUS

(* The tag of a change is a stamp, and is stored as it is: versions of a   *)
(* history stay below the modulus of the stamp.                            *)
LEMMA EventTag ==
  ASSUME history \in Histories, NEW e \in history
  PROVE  /\ e \in Events
         /\ e.key \in Keys
         /\ Tag(e) \in Stamps
         /\ Tag(e) # NoVersion
         /\ Tag(e).ver \in 1..RolloverWindow
         /\ setVersions(Tag(e)) = Tag(e)
<1>1. e \in Events /\ e.ver <= RolloverWindow
  BY EntriesAssumption, Zenon
<1>2. e.key \in Keys /\ e.ver \in Nat \ {0} /\ e.rv \in Nat /\ e.mem \in Members
  BY <1>1, Zenon DEF Events
<1>3. RolloverWindow \in Nat /\ VersionModulus \in Nat /\ e.ver < VersionModulus
  BY <1>1, <1>2, StampAssumption
<1>4. e.ver % VersionModulus = e.ver
  BY <1>2, <1>3, SmallMod, Zenon
<1> QED
  BY <1>1, <1>2, <1>3, <1>4 DEF Tag, Stamps, NoVersion, setVersions

(* The stamp an operation leaves is a stamp.                               *)
LEMMA NewStampType ==
  ASSUME MapTypeOK, NEW k \in Keys, NEW tag \in Stamps
  PROVE  NewStamp(k, tag) \in Stamps
<1>1. m_map[k].stamp \in Stamps
  BY Zenon DEF MapTypeOK, Entries
<1>2. tag.ver % VersionModulus \in Nat
  BY StampAssumption, ModRange DEF Stamps
<1> QED
  BY <1>1, <1>2, Zenon DEF NewStamp, setVersions, Stamps

-----------------------------------------------------------------------------
(* The inductive invariant about tombstones.  A task the list holds is     *)
(* that of the key, valid and outstanding, so two keys never share a task, *)
(* a free task is never listed, and neither cancelling the task of one key *)
(* nor starting a task can disturb another key.                            *)

ListedTasks ==
  \A k \in Keys :
    tombstones[k] # NoTask =>
      /\ tasks[tombstones[k]].key = k
      /\ tasks[tombstones[k]].valid
      /\ tasks[tombstones[k]].phase # "free"

TombstonesListed ==
  \A k \in Keys : m_map[k].kind = "tombstone" => tombstones[k] # NoTask

MapInv == MapTypeOK /\ ListedTasks /\ TombstonesListed

LEMMA InvalidatedTaskType ==
  ASSUME NEW task \in TaskRecords, NEW cancel \in BOOLEAN
  PROVE  InvalidatedTask(task, cancel) \in TaskRecords
<1>1. FreeTask \in TaskRecords
  BY Zenon DEF TaskRecords, FreeTask
<1>2. [task EXCEPT !.valid = FALSE] \in TaskRecords
  BY Zenon DEF TaskRecords
<1> QED
  BY <1>1, <1>2, Zenon DEF InvalidatedTask

(* TombstoneList::erase keeps the list in order.                           *)
LEMMA EraseKeepsList ==
  ASSUME MapTypeOK, ListedTasks, NEW ks \in SUBSET Keys,
         NEW cancel \in BOOLEAN, EraseAll(ks, cancel)
  PROVE  /\ tombstones' \in [Keys -> TaskIds \cup {NoTask}]
         /\ tasks' \in [TaskIds -> TaskRecords]
         /\ ListedTasks'
         /\ \A k \in Keys : k \notin ks => tombstones'[k] = tombstones[k]
<1>1. tombstones' \in [Keys -> TaskIds \cup {NoTask}]
  BY Zenon DEF EraseAll, MapTypeOK
<1>2. tasks' \in [TaskIds -> TaskRecords]
  <2>1. ASSUME NEW id \in TaskIds
        PROVE  (IF \E k \in ks : tombstones[k] = id
                THEN InvalidatedTask(tasks[id], cancel)
                ELSE tasks[id]) \in TaskRecords
    <3>1. tasks[id] \in TaskRecords
      BY Zenon DEF MapTypeOK
    <3>2. InvalidatedTask(tasks[id], cancel) \in TaskRecords
      BY <3>1, InvalidatedTaskType, Zenon
    <3> QED
      BY <3>1, <3>2, Zenon
  <2> QED
    BY <2>1, Zenon DEF EraseAll
<1>3. \A k \in Keys : k \notin ks => tombstones'[k] = tombstones[k]
  BY Zenon DEF EraseAll
<1>4. ASSUME NEW k \in Keys, tombstones'[k] # NoTask
      PROVE  /\ tasks'[tombstones'[k]].key = k
             /\ tasks'[tombstones'[k]].valid
             /\ tasks'[tombstones'[k]].phase # "free"
  <2>1. k \notin ks /\ tombstones'[k] = tombstones[k]
    BY <1>4, Zenon DEF EraseAll
  <2>2. tombstones[k] \in TaskIds
    BY <1>4, <2>1, Zenon DEF MapTypeOK
  <2>3. ~ \E j \in ks : tombstones[j] = tombstones[k]
    BY <1>4, <2>1 DEF ListedTasks
  <2>4. tasks'[tombstones[k]] = tasks[tombstones[k]]
    BY <2>2, <2>3, Zenon DEF EraseAll
  <2> QED
    BY <1>4, <2>1, <2>4 DEF ListedTasks
<1> QED
  BY <1>1, <1>2, <1>3, <1>4, Zenon DEF ListedTasks

(* TombstoneList::add lists the key with a new task.                       *)
LEMMA AddKeepsList ==
  ASSUME MapTypeOK, ListedTasks, NEW k \in Keys, NEW stamp \in Stamps,
         NEW erase \in BOOLEAN, AddTombstone(k, stamp, erase)
  PROVE  /\ tombstones' \in [Keys -> TaskIds \cup {NoTask}]
         /\ tasks' \in [TaskIds -> TaskRecords]
         /\ ListedTasks'
         /\ tombstones'[k] # NoTask
         /\ \A j \in Keys : j # k => tombstones'[j] = tombstones[j]
<1>1. PICK id \in FreeIds :
        /\ tombstones' = [tombstones EXCEPT ![k] = id]
        /\ tasks' =
             [i \in TaskIds |->
                IF i = id THEN [key |-> k, stamp |-> stamp, valid |-> TRUE,
                                phase |-> "scheduled"]
                ELSE IF erase /\ tombstones[k] = i
                     THEN InvalidatedTask(tasks[i], TRUE) ELSE tasks[i]]
  BY Zenon DEF AddTombstone
<1>2. id \in TaskIds /\ id # NoTask /\ tasks[id].phase = "free"
  BY EntriesAssumption DEF FreeIds, FreeTask
<1>3. tombstones' \in [Keys -> TaskIds \cup {NoTask}]
  BY <1>1, <1>2, Zenon DEF MapTypeOK
<1>4. tasks' \in [TaskIds -> TaskRecords]
  <2>1. [key |-> k, stamp |-> stamp, valid |-> TRUE, phase |-> "scheduled"]
          \in TaskRecords
    BY Zenon DEF TaskRecords
  <2>2. \A i \in TaskIds : /\ tasks[i] \in TaskRecords
                           /\ InvalidatedTask(tasks[i], TRUE) \in TaskRecords
    BY InvalidatedTaskType, Zenon DEF MapTypeOK
  <2> QED
    BY <1>1, <2>1, <2>2, Zenon
<1>5. tombstones'[k] = id /\ \A j \in Keys : j # k => tombstones'[j] = tombstones[j]
  BY <1>1, Zenon DEF MapTypeOK
<1>6. ASSUME NEW j \in Keys, tombstones'[j] # NoTask
      PROVE  /\ tasks'[tombstones'[j]].key = j
             /\ tasks'[tombstones'[j]].valid
             /\ tasks'[tombstones'[j]].phase # "free"
  <2>1. CASE j = k
    BY <1>1, <1>2, <1>5, <2>1, Zenon
  <2>2. CASE j # k
    <3>1. tombstones'[j] = tombstones[j] /\ tombstones[j] \in TaskIds
      BY <1>5, <1>6, <2>2, Zenon DEF MapTypeOK
    <3>2. tombstones[j] # id /\ tombstones[j] # tombstones[k]
      BY <1>2, <1>6, <2>2, <3>1 DEF ListedTasks
    <3>3. tasks'[tombstones[j]] = tasks[tombstones[j]]
      BY <1>1, <3>1, <3>2, Zenon
    <3> QED
      BY <1>6, <3>1, <3>3 DEF ListedTasks
  <2> QED
    BY <2>1, <2>2, Zenon
<1> QED
  BY <1>2, <1>3, <1>4, <1>5, <1>6, Zenon DEF ListedTasks

-----------------------------------------------------------------------------
(* The operations of MapSegment keep the invariant.                        *)

LEMMA EntryType ==
  ASSUME NEW kind \in EntryKinds, NEW origin \in Origins, NEW stamp \in Stamps
  PROVE  /\ Entry(kind, origin, stamp) \in Entries
         /\ Entry(kind, origin, stamp).kind = kind
         /\ Entry(kind, origin, stamp).stamp = stamp
         /\ Entry(kind, origin, stamp).origin = origin
BY Zenon DEF Entry, Entries, Origins

LEMMA AbsentType ==
  Absent \in Entries /\ Absent.kind = "absent" /\ Absent.stamp = NoVersion
BY Zenon DEF Absent, Entry, Entries, EntryKinds, Stamps, NoVersion

(* A thread that is about to update m_size is counted.                     *)
LEMMA SizeStepType ==
  ASSUME MapTypeOK, Inc(1) \/ Dec(1) \/ NoSizeChange
  PROVE  pendingInc' \in Nat /\ pendingDec' \in Nat
BY DEF MapTypeOK, Inc, Dec, NoSizeChange

LEMMA UnchangedKeepsInv ==
  ASSUME MapInv, Unchanged
  PROVE  MapInv'
BY Zenon DEF MapInv, MapTypeOK, ListedTasks, TombstonesListed, Unchanged,
       NoSizeChange, listVars

(* A new entry that is no tombstone, in a list that did not change or from *)
(* which only its own key was erased.                                      *)
LEMMA SetEntryKeepsInv ==
  ASSUME MapInv, NEW k \in Keys, NEW kind \in EntryKinds \ {"tombstone"},
         NEW origin \in Origins, NEW stamp \in Stamps,
         m_map' = [m_map EXCEPT ![k] = Entry(kind, origin, stamp)],
         UNCHANGED listVars \/ EraseAll({k}, TRUE),
         pendingInc' \in Nat, pendingDec' \in Nat
  PROVE  MapInv'
<1>1. m_map' \in [Keys -> Entries] /\ m_map'[k].kind # "tombstone"
  BY EntryType DEF MapInv, MapTypeOK
<1>2. /\ tombstones' \in [Keys -> TaskIds \cup {NoTask}]
      /\ tasks' \in [TaskIds -> TaskRecords]
      /\ ListedTasks'
      /\ \A j \in Keys : j \notin {k} => tombstones'[j] = tombstones[j]
  <2>1. CASE UNCHANGED listVars
    BY <2>1, Zenon DEF listVars, MapInv, MapTypeOK, ListedTasks
  <2>2. CASE EraseAll({k}, TRUE)
    BY <2>2, EraseKeepsList, Zenon DEF MapInv
  <2> QED
    BY <2>1, <2>2, Zenon
<1>3. TombstonesListed'
  BY <1>1, <1>2, Zenon DEF MapInv, MapTypeOK, TombstonesListed
<1> QED
  BY <1>1, <1>2, <1>3, Zenon DEF MapInv, MapTypeOK

LEMMA PutKeepsInv ==
  ASSUME MapInv, NEW k \in Keys, NEW tag \in Stamps,
         NEW kind \in EntryKinds \ {"tombstone"}, NEW origin \in Origins,
         put(k, tag, kind, origin)
  PROVE  MapInv'
<1>1. NewStamp(k, tag) \in Stamps
  BY NewStampType, Zenon DEF MapInv
<1>2. CASE Unchanged
  BY <1>2, UnchangedKeepsInv, Zenon
<1>3. CASE ~Unchanged
  <2>1. /\ m_map' = [m_map EXCEPT ![k] = Entry(kind, origin, NewStamp(k, tag))]
        /\ UNCHANGED listVars \/ EraseAll({k}, TRUE)
        /\ Inc(1) \/ NoSizeChange
    BY <1>3, Zenon DEF put
  <2>2. pendingInc' \in Nat /\ pendingDec' \in Nat
    BY <2>1, SizeStepType, Zenon DEF MapInv
  <2> QED
    BY <1>1, <2>1, <2>2, SetEntryKeepsInv, Zenon
<1> QED
  BY <1>2, <1>3, Zenon

LEMMA CreateKeepsInv ==
  ASSUME MapInv, NEW k \in Keys, NEW tag \in Stamps,
         NEW kind \in EntryKinds \ {"tombstone"}, NEW origin \in Origins,
         create(k, tag, kind, origin)
  PROVE  MapInv'
BY PutKeepsInv, UnchangedKeepsInv, Zenon DEF create

LEMMA InvalidateKeepsInv ==
  ASSUME MapInv, NEW k \in Keys, NEW tag \in Stamps, NEW origin \in Origins,
         invalidate(k, tag, origin)
  PROVE  MapInv'
<1>1. NewStamp(k, tag) \in Stamps
  BY NewStampType, Zenon DEF MapInv
<1>2. CASE Unchanged
  BY <1>2, UnchangedKeepsInv, Zenon
<1>3. CASE ~Unchanged
  <2>1. /\ m_map' =
             [m_map EXCEPT ![k] = Entry("invalid", origin, NewStamp(k, tag))]
        /\ UNCHANGED listVars
        /\ Inc(1) \/ NoSizeChange
    BY <1>3, Zenon DEF invalidate
  <2>2. pendingInc' \in Nat /\ pendingDec' \in Nat
    BY <2>1, SizeStepType, Zenon DEF MapInv
  <2> QED
    BY <1>1, <2>1, <2>2, SetEntryKeepsInv, Zenon DEF EntryKinds
<1> QED
  BY <1>2, <1>3, Zenon

LEMMA RemoveKeepsInv ==
  ASSUME MapInv, NEW k \in Keys, NEW tag \in Stamps,
         NEW afterRemote \in BOOLEAN, NEW origin \in Origins,
         remove(k, tag, afterRemote, origin)
  PROVE  MapInv'
<1>1. NewStamp(k, tag) \in Stamps
  BY NewStampType, Zenon DEF MapInv
<1>2. CASE Unchanged
  BY <1>2, UnchangedKeepsInv, Zenon
<1>3. CASE ~Unchanged
  <2>1. /\ m_map' =
             [m_map EXCEPT ![k] = Entry("tombstone", origin, NewStamp(k, tag))]
        /\ \/ AddTombstone(k, NewStamp(k, tag), TRUE)
           \/ AddTombstone(k, NewStamp(k, tag), FALSE)
        /\ Dec(1) \/ NoSizeChange
    BY <1>3, Zenon DEF remove
  <2>5. pendingInc' \in Nat /\ pendingDec' \in Nat
    BY <2>1, SizeStepType, Zenon DEF MapInv
  <2>2. m_map' \in [Keys -> Entries]
    BY <1>1, <2>1, EntryType, Zenon DEF MapInv, MapTypeOK, EntryKinds
  <2>3. /\ tombstones' \in [Keys -> TaskIds \cup {NoTask}]
        /\ tasks' \in [TaskIds -> TaskRecords]
        /\ ListedTasks'
        /\ tombstones'[k] # NoTask
        /\ \A j \in Keys : j # k => tombstones'[j] = tombstones[j]
    BY <1>1, <2>1, AddKeepsList, Zenon DEF MapInv
  <2>4. TombstonesListed'
    BY <2>1, <2>3, Zenon DEF MapInv, MapTypeOK, TombstonesListed
  <2> QED
    BY <2>2, <2>3, <2>4, <2>5, Zenon DEF MapInv, MapTypeOK
<1> QED
  BY <1>2, <1>3, Zenon

LEMMA PutDeltaKeepsInv ==
  ASSUME MapInv, history \in Histories, NEW e \in history, putDelta(e.key, e)
  PROVE  MapInv'
<1>1. NewStamp(e.key, Tag(e)) \in Stamps /\ e.key \in Keys
  BY EventTag, NewStampType, Zenon DEF MapInv
<1>2. PICK kind \in {"null", "value"}, origin \in {"server", "mixed"} :
        m_map' = [m_map EXCEPT ![e.key] =
                    Entry(kind, origin, NewStamp(e.key, Tag(e)))]
  BY Zenon DEF putDelta
<1>3. EraseAll({e.key}, TRUE) /\ (Inc(1) \/ NoSizeChange)
  BY Zenon DEF putDelta
<1>4. pendingInc' \in Nat /\ pendingDec' \in Nat
  BY <1>3, SizeStepType, Zenon DEF MapInv
<1> QED
  BY <1>1, <1>2, <1>3, <1>4, SetEntryKeepsInv, Zenon DEF EntryKinds, Origins

(* Entries leave the map together with their tombstones.                   *)
LEMMA RemoveEntriesKeepsInv ==
  ASSUME MapInv, NEW ks \in SUBSET Keys, remove_entries(ks), NoSizeChange
  PROVE  MapInv'
<1>1. m_map' \in [Keys -> Entries]
  BY AbsentType, Zenon DEF remove_entries, MapInv, MapTypeOK
<1>2. /\ tombstones' \in [Keys -> TaskIds \cup {NoTask}]
      /\ tasks' \in [TaskIds -> TaskRecords]
      /\ ListedTasks'
      /\ \A j \in Keys : j \notin ks => tombstones'[j] = tombstones[j]
  BY EraseKeepsList, Zenon DEF remove_entries, MapInv
<1>3. TombstonesListed'
  BY <1>2, AbsentType, Zenon DEF remove_entries, MapInv, TombstonesListed
<1> QED
  BY <1>1, <1>2, <1>3, Zenon DEF MapInv, MapTypeOK, NoSizeChange

-----------------------------------------------------------------------------
(* Type correctness and the tombstone invariant.                           *)

IndInv == TypeOK /\ ListedTasks /\ TombstonesListed

RestTypeOK ==
  /\ m_size \in 0..(SizeModulus - 1)
  /\ clearing \in BOOLEAN
  /\ history \in Histories
  /\ fetching \subseteq history
  /\ seen \in [Keys -> SUBSET Stamps]
  /\ ops \in 0..MaxOps

LEMMA IndInvParts == IndInv <=> MapInv /\ RestTypeOK
BY Zenon DEF IndInv, TypeOK, MapInv, MapTypeOK, RestTypeOK

LEMMA IndInvPartsPrime == IndInv' <=> MapInv' /\ RestTypeOK'
BY Zenon DEF IndInv, TypeOK, MapInv, MapTypeOK, RestTypeOK

LEMMA CountOpType ==
  ASSUME RestTypeOK, CountOp
  PROVE  ops' \in 0..MaxOps
BY EntriesAssumption DEF RestTypeOK, CountOp

LEMMA ObserveType ==
  ASSUME RestTypeOK, NEW e \in history, Observe(e) \/ Forget
  PROVE  seen' \in [Keys -> SUBSET Stamps]
<1>1. Tag(e) \in Stamps
  BY EventTag, Zenon DEF RestTypeOK
<1> QED
  BY <1>1 DEF Observe, Forget, RestTypeOK

LEMMA ForgetType ==
  ASSUME RestTypeOK, Forget
  PROVE  seen' \in [Keys -> SUBSET Stamps]
BY Zenon DEF Forget, RestTypeOK

LEMMA EffectKind ==
  ASSUME history \in Histories, NEW e \in history
  PROVE  /\ Effect(e) \in {"value", "invalid", "tombstone"}
         /\ e.kind = "put" => Effect(e) = "value"
         /\ e.kind = "delta" => Effect(e) = "value"
         /\ e.kind = "invalidate" => Effect(e) = "invalid"
         /\ e.kind = "destroy" => Effect(e) = "tombstone"
<1>1. e.kind \in {"put", "delta", "invalidate", "destroy"}
  BY EventTag, Zenon DEF Events
<1> QED
  BY <1>1, Zenon DEF Effect

LEMMA InitInv == Init => IndInv
<1> SUFFICES ASSUME Init PROVE IndInv
  BY Zenon
<1>1. FreeTask \in TaskRecords
  BY Zenon DEF TaskRecords, FreeTask
<1>2. TypeOK
  <2>1. MaxOps \in Nat /\ SizeModulus \in Nat \ {0}
    BY EntriesAssumption, Zenon
  <2>2. 0 \in 0..(SizeModulus - 1) /\ 0 \in 0..MaxOps
    BY <2>1
  <2> QED
    BY <1>1, <2>2, AbsentType, Zenon DEF Init, TypeOK
<1>3. ListedTasks
  BY Zenon DEF Init, ListedTasks
<1>4. TombstonesListed
  BY AbsentType, Zenon DEF Init, TombstonesListed
<1> QED
  BY <1>2, <1>3, <1>4, Zenon DEF IndInv

LEMMA ServerStepInv ==
  ASSUME IndInv, NEW e \in history,
         \/ PutEvent(e) \/ CreateReply(e) \/ DeltaEvent(e) \/ FullObject(e)
         \/ InvalidateEvent(e) \/ DestroyNotification(e) \/ DestroyReply(e)
  PROVE  IndInv'
<1>1. MapInv /\ RestTypeOK /\ history \in Histories
  BY IndInvParts, Zenon DEF RestTypeOK
<1>2. e.key \in Keys /\ Tag(e) \in Stamps
  BY <1>1, EventTag, Zenon
<1>3. "server" \in Origins
  BY Zenon DEF Origins
<1>4. MapInv'
  <2>1. CASE PutEvent(e)
    <3>1. Effect(e) \in EntryKinds \ {"tombstone"}
      BY <1>1, <2>1, EffectKind, Zenon DEF PutEvent, EntryKinds
    <3> QED
      BY <1>1, <1>2, <1>3, <2>1, <3>1, PutKeepsInv, Zenon DEF PutEvent
  <2>2. CASE CreateReply(e)
    BY <1>1, <1>2, <1>3, <2>2, CreateKeepsInv, Zenon DEF CreateReply, EntryKinds
  <2>3. CASE DeltaEvent(e)
    BY <1>1, <1>2, <1>3, <2>3, PutDeltaKeepsInv, UnchangedKeepsInv, Zenon
    DEF DeltaEvent
  <2>4. CASE FullObject(e)
    BY <1>1, <1>2, <1>3, <2>4, PutKeepsInv, Zenon DEF FullObject, EntryKinds
  <2>5. CASE InvalidateEvent(e)
    BY <1>1, <1>2, <1>3, <2>5, InvalidateKeepsInv, Zenon DEF InvalidateEvent
  <2>6. CASE DestroyNotification(e)
    BY <1>1, <1>2, <1>3, <2>6, RemoveKeepsInv, Zenon DEF DestroyNotification
  <2>7. CASE DestroyReply(e)
    BY <1>1, <1>2, <1>3, <2>7, RemoveKeepsInv, Zenon DEF DestroyReply
  <2> QED
    BY <2>1, <2>2, <2>3, <2>4, <2>5, <2>6, <2>7, Zenon
<1>5. UNCHANGED others /\ (CountOp \/ UNCHANGED ops)
      /\ (Observe(e) \/ UNCHANGED seen)
  BY Zenon DEF PutEvent, CreateReply, DeltaEvent, FullObject, InvalidateEvent,
     DestroyNotification, DestroyReply
<1>6. fetching' \subseteq history
  <2>1. \/ UNCHANGED fetching
        \/ fetching' = fetching \cup {e}
        \/ fetching' = fetching \ {e}
    BY Zenon DEF PutEvent, CreateReply, DeltaEvent, FullObject,
       InvalidateEvent, DestroyNotification, DestroyReply
  <2> QED
    BY <1>1, <2>1, Zenon DEF RestTypeOK
<1>7. RestTypeOK'
  BY <1>1, <1>5, <1>6, CountOpType, ObserveType, Zenon DEF others, RestTypeOK
<1> QED
  BY <1>4, <1>7, IndInvPartsPrime, Zenon

LEMMA LocalStepInv ==
  ASSUME IndInv, LocalStep
  PROVE  IndInv'
<1>1. MapInv /\ RestTypeOK
  BY IndInvParts, Zenon
<1>2. "local" \in Origins /\ NoVersion \in Stamps
  BY Zenon DEF Origins, NoVersion, Stamps
<1>3. ASSUME NEW k \in Keys,
             LocalPut(k) \/ LocalCreate(k) \/ LocalInvalidate(k) \/ LocalDestroy(k)
      PROVE  IndInv'
  <2>1. MapInv'
    <3>1. CASE LocalPut(k)
      BY <1>1, <1>2, <3>1, PutKeepsInv, Zenon DEF LocalPut, EntryKinds
    <3>2. CASE LocalCreate(k)
      BY <1>1, <1>2, <3>2, CreateKeepsInv, Zenon DEF LocalCreate, EntryKinds
    <3>3. CASE LocalInvalidate(k)
      BY <1>1, <1>2, <3>3, InvalidateKeepsInv, Zenon DEF LocalInvalidate
    <3>4. CASE LocalDestroy(k)
      BY <1>1, <1>2, <3>4, RemoveKeepsInv, Zenon DEF LocalDestroy
    <3> QED
      BY <1>3, <3>1, <3>2, <3>3, <3>4, Zenon
  <2>2. UNCHANGED <<others, fetching>> /\ CountOp /\ Forget
    BY <1>3, Zenon DEF LocalPut, LocalCreate, LocalInvalidate, LocalDestroy
  <2>3. RestTypeOK'
    BY <1>1, <2>2, CountOpType, ForgetType, Zenon DEF others, RestTypeOK
  <2> QED
    BY <2>1, <2>3, IndInvPartsPrime, Zenon
<1>4. CASE ClearMap
  <2>1. MapInv'
    <3>1. m_map' \in [Keys -> Entries] /\ \A k \in Keys : m_map'[k].kind = "absent"
      BY <1>4, AbsentType, Zenon DEF ClearMap
    <3>2. UNCHANGED <<tombstones, tasks, pendingInc, pendingDec>>
      BY <1>4, Zenon DEF ClearMap, NoSizeChange, listVars
    <3> QED
      BY <1>1, <3>1, <3>2, Zenon
      DEF MapInv, MapTypeOK, ListedTasks, TombstonesListed
  <2>2. RestTypeOK'
    BY <1>1, <1>4, CountOpType, Zenon DEF ClearMap, RestTypeOK
  <2> QED
    BY <2>1, <2>2, IndInvPartsPrime, Zenon
<1> QED
  BY <1>3, <1>4, Zenon DEF LocalStep

LEMMA ReapStepInv ==
  ASSUME IndInv, ReapStep
  PROVE  IndInv'
<1>1. MapInv /\ RestTypeOK
  BY IndInvParts, Zenon
<1>2. \E ks \in SUBSET Keys : remove_entries(ks)
  BY Zenon DEF ReapStep, ReapVersions, ReapKeys
<1>3. UNCHANGED <<others, fetching>> /\ CountOp /\ Forget /\ NoSizeChange
  BY Zenon DEF ReapStep, ReapVersions, ReapKeys
<1>4. MapInv'
  BY <1>1, <1>2, <1>3, RemoveEntriesKeepsInv, Zenon
<1>5. RestTypeOK'
  BY <1>1, <1>3, CountOpType, ForgetType, Zenon DEF others, RestTypeOK
<1> QED
  BY <1>4, <1>5, IndInvPartsPrime, Zenon

LEMMA SizeStepInv ==
  ASSUME IndInv, ClearSize \/ SizeInc \/ SizeDec
  PROVE  IndInv'
<1>1. MapInv /\ RestTypeOK
  BY IndInvParts, Zenon
<1>2. SizeModulus \in Nat \ {0}
  BY EntriesAssumption, Zenon
<1>3. UNCHANGED <<m_map, listVars>>
  BY Zenon DEF ClearSize, SizeInc, SizeDec
<1>4. pendingInc' \in Nat /\ pendingDec' \in Nat
  BY <1>1 DEF ClearSize, SizeInc, SizeDec, NoSizeChange, MapInv, MapTypeOK
<1>5. m_size' \in 0..(SizeModulus - 1)
  <2>1. m_size \in Int
    BY <1>1, <1>2 DEF RestTypeOK
  <2>2. /\ (m_size + 1) % SizeModulus \in 0..(SizeModulus - 1)
        /\ (m_size - 1) % SizeModulus \in 0..(SizeModulus - 1)
    BY <1>2, <2>1, ModRange
  <2>3. 0 \in 0..(SizeModulus - 1)
    BY <1>2
  <2> QED
    BY <2>2, <2>3, Zenon DEF ClearSize, SizeInc, SizeDec
<1>6. MapInv'
  BY <1>1, <1>3, <1>4, Zenon
  DEF listVars, MapInv, MapTypeOK, ListedTasks, TombstonesListed
<1>7. RestTypeOK'
  BY <1>1, <1>5, Zenon DEF ClearSize, SizeInc, SizeDec, RestTypeOK
<1> QED
  BY <1>6, <1>7, IndInvPartsPrime, Zenon

LEMMA DispatchInv ==
  ASSUME IndInv, NEW id \in TaskIds, Dispatch(id)
  PROVE  IndInv'
<1>1. MapInv /\ RestTypeOK
  BY IndInvParts, Zenon
<1>2. tasks' = [tasks EXCEPT ![id].phase = "dispatched"]
      /\ UNCHANGED <<m_map, tombstones, pendingInc, pendingDec>>
  BY Zenon DEF Dispatch
<1>3. tasks' \in [TaskIds -> TaskRecords]
  BY <1>1, <1>2 DEF MapInv, MapTypeOK, TaskRecords, Dispatch
<1>4. \A i \in TaskIds : /\ tasks'[i].key = tasks[i].key
                         /\ tasks'[i].valid = tasks[i].valid
                         /\ tasks[i].phase # "free" => tasks'[i].phase # "free"
  BY <1>1, <1>2 DEF MapInv, MapTypeOK, TaskRecords
<1>5. ListedTasks'
  BY <1>1, <1>2, <1>4 DEF MapInv, MapTypeOK, ListedTasks
<1>6. MapInv'
  BY <1>1, <1>2, <1>3, <1>5, Zenon DEF MapInv, MapTypeOK, TombstonesListed
<1>7. RestTypeOK'
  BY <1>1, Zenon DEF Dispatch, others, RestTypeOK
<1> QED
  BY <1>6, <1>7, IndInvPartsPrime, Zenon

(* A task that finds itself listed takes its own key out; one that is not  *)
(* listed any more takes out, at most, the key it was made for.            *)
LEMMA ExpireInv ==
  ASSUME IndInv, NEW id \in TaskIds, Expire(id)
  PROVE  IndInv'
<1>1. MapInv /\ RestTypeOK
  BY IndInvParts, Zenon
<1>2. FreeTask \in TaskRecords
  BY Zenon DEF TaskRecords, FreeTask
<1>3. CASE tasks[id].valid /\ tombstones[tasks[id].key] # NoTask
  <2> DEFINE k == tasks[id].key
  <2>1. /\ m_map' = [m_map EXCEPT ![k] = Absent]
        /\ tombstones' = [tombstones EXCEPT ![k] = NoTask]
        /\ tasks' = [i \in TaskIds |->
             IF i = id THEN FreeTask
             ELSE IF tombstones[k] = i THEN InvalidatedTask(tasks[i], FALSE)
             ELSE tasks[i]]
    BY <1>3, Zenon DEF Expire
  <2> HIDE DEF k
  <2>8. k \in Keys
    BY <1>1, Zenon DEF k, Expire, MapInv, MapTypeOK, TaskRecords
  <2>2. m_map' \in [Keys -> Entries]
    BY <1>1, <2>1, AbsentType, Zenon DEF MapInv, MapTypeOK
  <2>3. tombstones' \in [Keys -> TaskIds \cup {NoTask}]
    BY <1>1, <2>1, Zenon DEF MapInv, MapTypeOK
  <2>4. tasks' \in [TaskIds -> TaskRecords]
    <3>1. \A i \in TaskIds : /\ tasks[i] \in TaskRecords
                             /\ InvalidatedTask(tasks[i], FALSE) \in TaskRecords
      BY <1>1, InvalidatedTaskType, Zenon DEF MapInv, MapTypeOK
    <3> QED
      BY <1>2, <2>1, <3>1, Zenon
  <2>5. ASSUME NEW j \in Keys, tombstones'[j] # NoTask
        PROVE  /\ j # k
               /\ tombstones'[j] = tombstones[j]
               /\ tasks'[tombstones[j]] = tasks[tombstones[j]]
    <3>1. j # k /\ tombstones'[j] = tombstones[j]
      BY <1>1, <2>1, <2>5, Zenon DEF MapInv, MapTypeOK
    <3>2. tombstones[j] \in TaskIds /\ tasks[tombstones[j]].key = j
      BY <1>1, <2>5, <3>1, Zenon DEF MapInv, MapTypeOK, ListedTasks
    <3>3. tombstones[j] # id
      BY <3>1, <3>2, Zenon DEF k
    <3>4. tombstones[j] # tombstones[k]
      BY <1>1, <2>5, <2>8, <3>1, <3>2, Zenon DEF MapInv, ListedTasks
    <3> QED
      BY <2>1, <3>1, <3>2, <3>3, <3>4, Zenon
  <2>6. ListedTasks'
    BY <1>1, <2>5 DEF MapInv, ListedTasks
  <2>7. TombstonesListed'
    BY <1>1, <2>1, AbsentType, Zenon DEF MapInv, MapTypeOK, TombstonesListed
  <2> QED
    BY <1>1, <2>2, <2>3, <2>4, <2>6, <2>7, IndInvPartsPrime, ForgetType, Zenon
    DEF Expire, NoSizeChange, others, MapInv, MapTypeOK, RestTypeOK
<1>4. CASE ~(tasks[id].valid /\ tombstones[tasks[id].key] # NoTask)
  <2>1. tasks' = [tasks EXCEPT ![id] = FreeTask] /\ UNCHANGED <<m_map, tombstones>>
    BY <1>4, Zenon DEF Expire
  <2>2. \A j \in Keys : tombstones[j] # id
    BY <1>1, <1>4, EntriesAssumption DEF MapInv, ListedTasks
  <2>3. tasks' \in [TaskIds -> TaskRecords]
    BY <1>1, <1>2, <2>1, Zenon DEF MapInv, MapTypeOK
  <2>4. ListedTasks' /\ TombstonesListed'
    BY <1>1, <2>1, <2>2 DEF MapInv, MapTypeOK, ListedTasks, TombstonesListed
  <2> QED
    BY <1>1, <2>1, <2>3, <2>4, IndInvPartsPrime, ForgetType, Zenon
    DEF Expire, NoSizeChange, others, MapInv, MapTypeOK, RestTypeOK
<1> QED
  BY <1>3, <1>4, Zenon

LEMMA NextInv ==
  ASSUME IndInv, [Next]_vars
  PROVE  IndInv'
<1>1. CASE ServerStep
  BY <1>1, ServerStepInv, Zenon DEF ServerStep
<1>2. CASE LocalStep
  BY <1>2, LocalStepInv, Zenon
<1>3. CASE ReapStep
  BY <1>3, ReapStepInv, Zenon
<1>4. CASE ThreadStep
  <2>1. ASSUME NEW e \in fetching, FullObject(e)
        PROVE  IndInv'
    BY <2>1, ServerStepInv, Zenon DEF IndInv, TypeOK
  <2> QED
    BY <1>4, <2>1, SizeStepInv, DispatchInv, ExpireInv, Zenon DEF ThreadStep
<1>5. CASE UNCHANGED vars
  BY <1>5, Zenon DEF vars, IndInv, TypeOK, ListedTasks, TombstonesListed
<1> QED
  BY <1>1, <1>2, <1>3, <1>4, <1>5, Zenon DEF Next

LEMMA SpecInv == Spec => []IndInv
BY InitInv, NextInv, PTL DEF Spec

(* The region's entries, tombstones, expiry tasks and counter keep their   *)
(* types in every run.                                                     *)
THEOREM TypeCorrect == Spec => []TypeOK
<1>1. IndInv => TypeOK
  BY Zenon DEF IndInv
<1> QED
  BY <1>1, SpecInv, PTL

(* Every tombstone of a region has a live expiry task of its own, whatever *)
(* events, replies, local operations, clears, reaps and expiries did       *)
(* before.                                                                 *)
THEOREM TombstonesAreCollected == Spec => []TombstoneHasTask
<1>1. IndInv => TombstoneHasTask
  BY Zenon DEF IndInv, ListedTasks, TombstonesListed, TombstoneHasTask
<1> QED
  BY <1>1, SpecInv, PTL

-----------------------------------------------------------------------------
(* Stamps never go back, and entries converge to the newest change they    *)
(* met.                                                                    *)

LEMMA StampFields ==
  ASSUME NEW s \in Stamps
  PROVE  s.ver \in Nat /\ s.mem \in Nat
<1>1. s.ver \in Nat /\ (s.mem \in Members \/ s.mem = 0)
  BY Zenon DEF Stamps
<1>2. \A m \in Members : m \in Nat
  BY StampAssumption, Zenon
<1> QED
  BY <1>1, <1>2

(* Without a rollover checkForConflict is the order of the stamps.         *)
LEMMA ConflictIsOrder ==
  ASSUME NEW stamp \in Stamps, NEW tag \in Stamps,
         stamp.ver <= RolloverWindow, tag.ver <= RolloverWindow,
         tag.ver # 0
  PROVE  /\ checkForConflict(stamp, tag) => ~Older(tag, stamp)
         /\ ~checkForConflict(stamp, tag) => Older(tag, stamp)
<1>1. /\ stamp.ver \in Nat /\ tag.ver \in Nat
      /\ stamp.mem \in Nat /\ tag.mem \in Nat
      /\ RolloverWindow \in Nat
  BY StampFields, StampAssumption, Zenon
<1>2. ~RolledOver(stamp, tag)
  BY <1>1 DEF RolledOver
<1>3. StampVersion(stamp, tag) = stamp.ver /\ TagVersion(stamp, tag) = tag.ver
  BY <1>2, Zenon DEF StampVersion, TagVersion
<1>4. stamp = NoVersion => stamp.ver = 0
  BY DEF NoVersion
<1>5. tag # NoVersion
  BY DEF NoVersion
<1>6. checkForConflict(stamp, tag)
        <=> \/ stamp = NoVersion
            \/ stamp.ver = 0
            \/ stamp.ver < tag.ver
            \/ stamp.ver = tag.ver /\ stamp.mem <= tag.mem
  BY <1>3, <1>5, Zenon DEF checkForConflict
<1> QED
  BY <1>1, <1>4, <1>6 DEF Older

(* Older is an order.                                                      *)
LEMMA OlderTransitive ==
  ASSUME NEW a \in Stamps, NEW b \in Stamps, NEW c \in Stamps
  PROVE  /\ ~Older(a, a)
         /\ (~Older(b, a) /\ ~Older(c, b)) => ~Older(c, a)
         /\ Older(a, b) => ~Older(b, a)
<1>1. /\ a.ver \in Nat /\ b.ver \in Nat /\ c.ver \in Nat
      /\ a.mem \in Nat /\ b.mem \in Nat /\ c.mem \in Nat
  BY StampFields, Zenon
<1> QED
  BY <1>1 DEF Older

-----------------------------------------------------------------------------
(* What an operation of MapSegment does to the entry of its key: it        *)
(* refuses the tag, or applies it.                                         *)

Refuse(k, tag) == m_map[k] # Absent /\ ~Accepts(k, tag) /\ m_map' = m_map

Apply(k, tag, kind, origin) ==
  /\ m_map[k] = Absent \/ Accepts(k, tag)
  /\ m_map' = [m_map EXCEPT ![k] = Entry(kind, origin, NewStamp(k, tag))]

LEMMA PutSteps ==
  ASSUME NEW k, NEW tag, NEW kind, NEW origin, put(k, tag, kind, origin)
  PROVE  Refuse(k, tag) \/ Apply(k, tag, kind, origin)
BY Zenon DEF put, Refuse, Apply, Unchanged

LEMMA CreateSteps ==
  ASSUME NEW k, NEW tag, NEW kind, NEW origin, create(k, tag, kind, origin)
  PROVE  m_map' = m_map \/ Apply(k, tag, kind, origin)
BY PutSteps, Zenon DEF create, Refuse, Unchanged

LEMMA InvalidateSteps ==
  ASSUME NEW k, NEW tag, NEW origin, invalidate(k, tag, origin)
  PROVE  m_map' = m_map \/ Apply(k, tag, "invalid", origin)
BY Zenon DEF invalidate, Apply, Unchanged

LEMMA RemoveSteps ==
  ASSUME NEW k, NEW tag, NEW afterRemote, NEW origin,
         remove(k, tag, afterRemote, origin)
  PROVE  \/ Refuse(k, tag)
         \/ Apply(k, tag, "tombstone", origin)
         \/ tag = NoVersion /\ m_map' = m_map
BY Zenon DEF remove, Refuse, Apply, Unchanged

LEMMA DeltaSteps ==
  ASSUME IndInv, NEW e \in history, DeltaApplies(e.key, e), putDelta(e.key, e)
  PROVE  \E kind \in {"value", "null"}, origin \in {"server", "mixed"} :
           /\ kind = "null" => m_map[e.key].kind = "tombstone"
           /\ Apply(e.key, Tag(e), kind, origin)
<1>1. history \in Histories /\ m_map[e.key] \in Entries
  BY EventTag, Zenon DEF IndInv, TypeOK
<1>2. Accepts(e.key, Tag(e))
  <2>1. /\ m_map[e.key].stamp \in Stamps
        /\ Tag(e) \in Stamps
    BY <1>1, EventTag, Zenon DEF Entries
  <2>2. CASE m_map[e.key].stamp = NoVersion
    BY <2>2, Zenon DEF Accepts, checkForConflict
  <2>3. CASE checkForDeltaConflict(m_map[e.key].stamp, Tag(e), e.prev)
    <3>1. StampVersion(m_map[e.key].stamp, Tag(e)) \in Nat
      BY <2>1, StampAssumption DEF StampVersion, Stamps
    <3>2. StampVersion(m_map[e.key].stamp, Tag(e))
            < TagVersion(m_map[e.key].stamp, Tag(e))
      BY <2>3, <3>1 DEF checkForDeltaConflict
    <3> QED
      BY <3>2, Zenon DEF Accepts, checkForConflict
  <2> QED
    BY <2>2, <2>3, Zenon DEF DeltaApplies
<1>3. CASE m_map[e.key].kind = "tombstone"
  BY <1>2, <1>3, Zenon DEF putDelta, Apply
<1>4. CASE m_map[e.key].kind # "tombstone"
  BY <1>2, <1>4, Zenon DEF putDelta, Apply
<1> QED
  BY <1>3, <1>4, Zenon

-----------------------------------------------------------------------------
(* Every step does one of four things to the entries.                      *)

Fields == UNCHANGED <<m_map, seen>>

(* An event is refused, or applied to its key, and recorded.               *)
EventStep(e) ==
  /\ Observe(e)
  /\ \/ m_map' = m_map
     \/ \E kind \in EntryKinds \ {"absent"}, origin \in {"server", "mixed"} :
          Apply(e.key, Tag(e), kind, origin)

(* A local operation has no tag.                                           *)
LocalOp(k) ==
  /\ Forget
  /\ \/ m_map' = m_map
     \/ \E kind \in EntryKinds \ {"absent"} :
          /\ kind = "tombstone" => "localDestroy" \in EnabledOps
          /\ Apply(k, NoVersion, kind, "local")

(* Entries leave the map.                                                  *)
Removal ==
  /\ Forget
  /\ DOMAIN m_map' = Keys
  /\ \A k \in Keys : m_map'[k] = m_map[k] \/ m_map'[k] = Absent

LEMMA EventSteps ==
  ASSUME IndInv, NEW e \in history,
         \/ PutEvent(e) \/ CreateReply(e) \/ DeltaEvent(e) \/ FullObject(e)
         \/ InvalidateEvent(e) \/ DestroyNotification(e) \/ DestroyReply(e)
  PROVE  Fields \/ EventStep(e)
<1>1. history \in Histories
  BY Zenon DEF IndInv, TypeOK
<1>2. {"value", "invalid", "tombstone", "null"} \subseteq EntryKinds \ {"absent"}
  BY Zenon DEF EntryKinds
<1>3. CASE PutEvent(e)
  <2>1. Refuse(e.key, Tag(e)) \/ Apply(e.key, Tag(e), Effect(e), "server")
    BY <1>3, PutSteps, Zenon DEF PutEvent
  <2> QED
    BY <1>1, <1>2, <1>3, <2>1, EffectKind, Zenon DEF PutEvent, EventStep, Refuse
<1>4. CASE CreateReply(e)
  <2>1. m_map' = m_map \/ Apply(e.key, Tag(e), "value", "server")
    BY <1>4, CreateSteps, Zenon DEF CreateReply
  <2> QED
    BY <1>2, <1>4, <2>1, Zenon DEF CreateReply, EventStep
<1>5. CASE DeltaEvent(e)
  <2>1. CASE DeltaApplies(e.key, e)
    BY <1>2, <1>5, <2>1, DeltaSteps, Zenon DEF DeltaEvent, EventStep
  <2>2. CASE ~DeltaApplies(e.key, e)
    BY <1>5, <2>2, Zenon DEF DeltaEvent, Fields, Unchanged
  <2> QED
    BY <2>1, <2>2, Zenon
<1>6. CASE FullObject(e)
  <2>1. Refuse(e.key, Tag(e)) \/ Apply(e.key, Tag(e), "value", "server")
    BY <1>6, PutSteps, Zenon DEF FullObject
  <2> QED
    BY <1>2, <1>6, <2>1, Zenon DEF FullObject, EventStep, Refuse
<1>7. CASE InvalidateEvent(e)
  <2>1. m_map' = m_map \/ Apply(e.key, Tag(e), "invalid", "server")
    BY <1>7, InvalidateSteps, Zenon DEF InvalidateEvent
  <2> QED
    BY <1>2, <1>7, <2>1, Zenon DEF InvalidateEvent, EventStep
<1>8. CASE DestroyNotification(e) \/ DestroyReply(e)
  <2>1. m_map' = m_map \/ Apply(e.key, Tag(e), "tombstone", "server")
    BY <1>8, RemoveSteps, Zenon DEF DestroyNotification, DestroyReply, Refuse
  <2> QED
    BY <1>2, <1>8, <2>1, Zenon DEF DestroyNotification, DestroyReply, EventStep
<1> QED
  BY <1>3, <1>4, <1>5, <1>6, <1>7, <1>8, Zenon

LEMMA LocalSteps ==
  ASSUME IndInv, LocalStep
  PROVE  Removal \/ \E k \in Keys : LocalOp(k)
<1>1. {"value", "invalid", "tombstone", "null"} \subseteq EntryKinds \ {"absent"}
  BY Zenon DEF EntryKinds
<1>2. ASSUME NEW k \in Keys, LocalPut(k)
      PROVE  LocalOp(k)
  <2>1. Refuse(k, NoVersion) \/ Apply(k, NoVersion, "value", "local")
    BY <1>2, PutSteps, Zenon DEF LocalPut
  <2> QED
    BY <1>1, <1>2, <2>1, Zenon DEF LocalPut, LocalOp, Refuse
<1>3. ASSUME NEW k \in Keys, LocalCreate(k)
      PROVE  LocalOp(k)
  <2>1. \/ m_map' = m_map
        \/ Apply(k, NoVersion, "value", "local")
        \/ Apply(k, NoVersion, "null", "local")
    BY <1>3, CreateSteps, Zenon DEF LocalCreate
  <2> QED
    BY <1>1, <1>3, <2>1, Zenon DEF LocalCreate, LocalOp
<1>4. ASSUME NEW k \in Keys, LocalInvalidate(k)
      PROVE  LocalOp(k)
  <2>1. m_map' = m_map \/ Apply(k, NoVersion, "invalid", "local")
    BY <1>4, InvalidateSteps, Zenon DEF LocalInvalidate
  <2> QED
    BY <1>1, <1>4, <2>1, Zenon DEF LocalInvalidate, LocalOp
<1>5. ASSUME NEW k \in Keys, LocalDestroy(k)
      PROVE  LocalOp(k)
  <2>1. /\ m_map' = m_map \/ Apply(k, NoVersion, "tombstone", "local")
        /\ "localDestroy" \in EnabledOps
    BY <1>5, RemoveSteps, Zenon DEF LocalDestroy, Refuse
  <2> QED
    BY <1>1, <1>5, <2>1, Zenon DEF LocalDestroy, LocalOp
<1>6. ClearMap => Removal
  BY Zenon DEF ClearMap, Removal, Forget
<1> QED
  BY <1>2, <1>3, <1>4, <1>5, <1>6, Zenon DEF LocalStep

LEMMA RemovalSteps ==
  ASSUME IndInv, ReapStep \/ \E id \in TaskIds : Expire(id)
  PROVE  Removal
<1>1. m_map \in [Keys -> Entries]
  BY Zenon DEF IndInv, TypeOK
<1>2. CASE ReapStep
  <2>1. Forget /\ \E ks \in SUBSET Keys : remove_entries(ks)
    BY <1>2, Zenon DEF ReapStep, ReapVersions, ReapKeys
  <2> QED
    BY <2>1, Zenon DEF remove_entries, Removal
<1>3. ASSUME NEW id \in TaskIds, Expire(id)
      PROVE  Removal
  <2>1. Forget /\ (UNCHANGED m_map
                   \/ m_map' = [m_map EXCEPT ![tasks[id].key] = Absent])
    BY <1>3, Zenon DEF Expire
  <2> QED
    BY <1>1, <2>1, Zenon DEF Removal
<1> QED
  BY <1>2, <1>3, Zenon

LEMMA AllSteps ==
  ASSUME IndInv, [Next]_vars
  PROVE  \/ Fields
         \/ Removal
         \/ \E k \in Keys : LocalOp(k)
         \/ \E e \in history : EventStep(e)
<1>1. CASE ServerStep
  BY <1>1, EventSteps, Zenon DEF ServerStep
<1>2. CASE LocalStep
  BY <1>2, LocalSteps, Zenon
<1>3. CASE ReapStep
  BY <1>3, RemovalSteps, Zenon
<1>4. CASE ThreadStep
  <2>1. ASSUME NEW e \in fetching, FullObject(e)
        PROVE  e \in history /\ (Fields \/ EventStep(e))
    BY <2>1, EventSteps, Zenon DEF IndInv, TypeOK
  <2>2. ClearSize \/ SizeInc \/ SizeDec \/ (\E id \in TaskIds : Dispatch(id))
          => Fields
    BY Zenon DEF ClearSize, SizeInc, SizeDec, Dispatch, Fields
  <2> QED
    BY <1>4, <2>1, <2>2, RemovalSteps, Zenon DEF ThreadStep
<1>5. CASE UNCHANGED vars
  BY <1>5, Zenon DEF vars, Fields
<1> QED
  BY <1>1, <1>2, <1>3, <1>4, <1>5, Zenon DEF Next

-----------------------------------------------------------------------------
(* Stamps never go back.  The check of a tag against a stamp is the order  *)
(* of the two only while both are within the rollover window, hence the    *)
(* invariant.                                                              *)

StampsBounded == \A k \in Keys : m_map[k].stamp.ver <= RolloverWindow

LEMMA ApplyResult ==
  ASSUME IndInv, NEW k \in Keys, NEW tag \in Stamps, NEW kind \in EntryKinds,
         NEW origin \in Origins, kind # "absent", Apply(k, tag, kind, origin)
  PROVE  /\ m_map'[k].stamp = NewStamp(k, tag)
         /\ m_map'[k].kind = kind
         /\ m_map'[k].origin = origin
         /\ m_map'[k] # Absent
         /\ \A j \in Keys : j # k => m_map'[j] = m_map[j]
<1>1. NewStamp(k, tag) \in Stamps /\ m_map \in [Keys -> Entries]
  BY NewStampType, IndInvParts, Zenon DEF MapInv, MapTypeOK
<1>2. m_map' = [m_map EXCEPT ![k] = Entry(kind, origin, NewStamp(k, tag))]
  BY Zenon DEF Apply
<1>3. m_map'[k] = Entry(kind, origin, NewStamp(k, tag))
      /\ \A j \in Keys : j # k => m_map'[j] = m_map[j]
  BY <1>1, <1>2, Zenon
<1> QED
  BY <1>1, <1>3, EntryType, AbsentType

LEMMA StampStep ==
  ASSUME IndInv, StampsBounded, [Next]_vars
  PROVE  /\ StampsBounded'
         /\ \A k \in Keys : (m_map[k] # Absent /\ m_map'[k] # Absent)
                              => ~Older(m_map'[k].stamp, m_map[k].stamp)
<1>1. /\ m_map \in [Keys -> Entries]
      /\ history \in Histories
      /\ RolloverWindow \in Nat
      /\ \A k \in Keys : m_map[k].stamp \in Stamps
  BY StampAssumption, Zenon DEF IndInv, TypeOK, Entries
<1>2. \A s \in Stamps : ~Older(s, s)
  BY OlderTransitive, Zenon
<1>3. NoVersion \in Stamps /\ NoVersion.ver = 0
  BY Zenon DEF NoVersion, Stamps
<1>4. CASE Fields
  BY <1>1, <1>2, <1>4, Zenon DEF Fields, StampsBounded
<1>5. CASE Removal
  <2>1. \A k \in Keys : m_map'[k] # Absent => m_map'[k] = m_map[k]
    BY <1>5, Zenon DEF Removal
  <2>2. StampsBounded'
    BY <1>1, <1>3, <1>5, AbsentType DEF Removal, StampsBounded
  <2> QED
    BY <1>1, <1>2, <2>1, <2>2, Zenon
<1>6. ASSUME NEW k \in Keys, LocalOp(k)
      PROVE  \A j \in Keys : m_map'[j].stamp = m_map[j].stamp
  <2>1. CASE m_map' = m_map
    BY <2>1, Zenon
  <2>2. ASSUME NEW kind \in EntryKinds \ {"absent"},
               Apply(k, NoVersion, kind, "local")
        PROVE  \A j \in Keys : m_map'[j].stamp = m_map[j].stamp
    <3>1. NewStamp(k, NoVersion) = m_map[k].stamp
      BY Zenon DEF NewStamp
    <3> QED
      BY <1>3, <2>2, <3>1, ApplyResult DEF Origins
  <2> QED
    BY <1>6, <2>1, <2>2, Zenon DEF LocalOp
<1>7. ASSUME NEW e \in history, EventStep(e)
      PROVE  /\ StampsBounded'
             /\ \A k \in Keys : (m_map[k] # Absent /\ m_map'[k] # Absent)
                                  => ~Older(m_map'[k].stamp, m_map[k].stamp)
  <2>1. CASE m_map' = m_map
    BY <1>1, <1>2, <2>1, Zenon DEF StampsBounded
  <2>2. ASSUME NEW kind \in EntryKinds \ {"absent"},
               NEW origin \in {"server", "mixed"},
               Apply(e.key, Tag(e), kind, origin)
        PROVE  /\ StampsBounded'
               /\ \A k \in Keys : (m_map[k] # Absent /\ m_map'[k] # Absent)
                                    => ~Older(m_map'[k].stamp, m_map[k].stamp)
    <3>1. /\ e.key \in Keys
          /\ Tag(e) \in Stamps
          /\ Tag(e).ver \in 1..RolloverWindow
          /\ NewStamp(e.key, Tag(e)) = Tag(e)
      BY <1>1, EventTag, Zenon DEF NewStamp
    <3>2. /\ m_map'[e.key].stamp = Tag(e)
          /\ \A j \in Keys : j # e.key => m_map'[j] = m_map[j]
      BY <2>2, <3>1, ApplyResult DEF Origins
    <3>3. m_map[e.key] # Absent => ~Older(Tag(e), m_map[e.key].stamp)
      <4>1. m_map[e.key] # Absent => checkForConflict(m_map[e.key].stamp, Tag(e))
        BY <1>1, <2>2, EventTag, Zenon DEF Apply, Accepts
      <4> QED
        BY <1>1, <3>1, <4>1, ConflictIsOrder DEF StampsBounded
    <3>4. StampsBounded'
      BY <1>1, <3>1, <3>2 DEF StampsBounded
    <3> QED
      BY <1>1, <1>2, <3>2, <3>3, <3>4, Zenon
  <2> QED
    BY <1>7, <2>1, <2>2, Zenon DEF EventStep
<1> QED
  BY <1>1, <1>2, <1>4, <1>5, <1>6, <1>7, AllSteps, Zenon DEF StampsBounded

LEMMA SpecStamps == Spec => [](IndInv /\ StampsBounded)
<1>1. Init => IndInv /\ StampsBounded
  <2>1. NoVersion.ver <= RolloverWindow
    BY StampAssumption DEF NoVersion
  <2> QED
    BY <2>1, InitInv, AbsentType, Zenon DEF Init, StampsBounded
<1>2. (IndInv /\ StampsBounded) /\ [Next]_vars => (IndInv /\ StampsBounded)'
  BY NextInv, StampStep, Zenon
<1> QED
  BY <1>1, <1>2, PTL DEF Spec

(* No step replaces an entry by one with an older stamp, for any number of *)
(* servers, keys and changes and with every operation enabled.             *)
THEOREM StampsOnlyGrow == Spec => StampsNeverRegress
<1>1. (IndInv /\ StampsBounded) /\ [Next]_vars
        => [\A k \in Keys :
              (m_map[k] # Absent /\ m_map'[k] # Absent)
                => ~Older(m_map'[k].stamp, m_map[k].stamp)]_vars
  BY StampStep, Zenon
<1> QED
  BY <1>1, SpecStamps, PTL DEF Spec, StampsNeverRegress

-----------------------------------------------------------------------------
(* Convergence.  Beside the property itself the invariant says that a      *)
(* stamp that was never set belongs to an entry that met no change, and    *)
(* that only the servers' destroys made tombstones when there are deltas.  *)

ConvInv ==
  /\ \A e \in fetching : e.kind = "delta"
  /\ \A k \in Keys :
       /\ m_map[k] = Absent => seen[k] = {}
       /\ seen[k] = {} => m_map[k].stamp = NoVersion
       /\ (m_map[k].kind = "tombstone" /\ "localDestroy" \notin EnabledOps)
            => m_map[k].origin = "server" /\ seen[k] # {}
  /\ Converged

(* An event is refused, or its effect is applied.                          *)
KeptStep(e) ==
  /\ Observe(e)
  /\ \/ Refuse(e.key, Tag(e))
     \/ \E origin \in {"server", "mixed"} :
          /\ Effect(e) = "tombstone" => origin = "server"
          /\ Apply(e.key, Tag(e), Effect(e), origin)

(* A delta never finds a tombstone: the change before it made a value.     *)
LEMMA DeltaNotOnTombstone ==
  ASSUME VersionsKept, IndInv, StampsBounded, ConvInv, NEW e \in history,
         e.kind = "delta", DeltaApplies(e.key, e)
  PROVE  m_map[e.key].kind # "tombstone"
<1> SUFFICES ASSUME m_map[e.key].kind = "tombstone" PROVE FALSE
  BY Zenon
<1>1. history \in Histories /\ e.key \in Keys /\ Tag(e) \in Stamps
      /\ Tag(e).ver \in 1..RolloverWindow
  BY EventTag, Zenon DEF IndInv, TypeOK
<1>2. m_map[e.key].origin = "server" /\ seen[e.key] # {}
  BY <1>1, Zenon DEF VersionsKept, ConvInv
<1>3. PICK f \in history : /\ f.key = e.key
                          /\ m_map[e.key].stamp = Tag(f)
                          /\ Effect(f) = "tombstone"
  BY <1>1, <1>2 DEF ConvInv, Converged
<1>4. f.kind = "destroy"
  BY <1>1, <1>3, EffectKind, EventTag, Zenon DEF Events
<1>5. Tag(f) \in Stamps /\ Tag(f) # NoVersion /\ Tag(f).ver \in 1..RolloverWindow
  BY <1>1, EventTag, Zenon
<1>6. checkForDeltaConflict(Tag(f), Tag(e), e.prev)
  BY <1>3, <1>5, Zenon DEF DeltaApplies
<1>7. RolloverWindow \in Nat
  BY StampAssumption, Zenon
<1>8. ~RolledOver(Tag(f), Tag(e))
  BY <1>1, <1>5, <1>7 DEF RolledOver
<1>9. Tag(e).ver = Tag(f).ver + 1 /\ Tag(f).mem = e.prev
  BY <1>6, <1>8, Zenon DEF checkForDeltaConflict, StampVersion, TagVersion
<1>10. f.ver + 1 = e.ver /\ f.mem = e.prev
  BY <1>9, Zenon DEF Tag
<1> QED
  BY <1>1, <1>3, <1>4, <1>10, EntriesAssumption, Zenon

LEMMA KeptEvents ==
  ASSUME VersionsKept, IndInv, StampsBounded, ConvInv, NEW e \in history,
         \/ PutEvent(e) \/ CreateReply(e) \/ DeltaEvent(e)
         \/ e \in fetching /\ FullObject(e)
         \/ InvalidateEvent(e) \/ DestroyNotification(e) \/ DestroyReply(e)
  PROVE  Fields \/ KeptStep(e)
<1>1. history \in Histories
  BY Zenon DEF IndInv, TypeOK
<1>2. CASE PutEvent(e)
  BY <1>2, PutSteps, Zenon DEF PutEvent, KeptStep
<1>3. CASE CreateReply(e) \/ InvalidateEvent(e)
  BY <1>1, <1>3, Zenon DEF CreateReply, InvalidateEvent, VersionsKept
<1>4. CASE DeltaEvent(e)
  <2>1. CASE DeltaApplies(e.key, e)
    <3>1. Effect(e) = "value" /\ m_map[e.key].kind # "tombstone"
      BY <1>1, <1>4, <2>1, EffectKind, DeltaNotOnTombstone, Zenon DEF DeltaEvent
    <3>2. PICK kind \in {"value", "null"}, origin \in {"server", "mixed"} :
            /\ kind = "null" => m_map[e.key].kind = "tombstone"
            /\ Apply(e.key, Tag(e), kind, origin)
      BY <1>4, <2>1, DeltaSteps, Zenon DEF DeltaEvent
    <3> QED
      BY <1>4, <2>1, <3>1, <3>2, Zenon DEF DeltaEvent, KeptStep
  <2>2. CASE ~DeltaApplies(e.key, e)
    BY <1>4, <2>2, Zenon DEF DeltaEvent, Fields, Unchanged
  <2> QED
    BY <2>1, <2>2, Zenon
<1>5. CASE e \in fetching /\ FullObject(e)
  <2>1. Effect(e) = "value"
    BY <1>1, <1>5, EffectKind, Zenon DEF ConvInv
  <2>2. Refuse(e.key, Tag(e)) \/ Apply(e.key, Tag(e), "value", "server")
    BY <1>5, PutSteps, Zenon DEF FullObject
  <2> QED
    BY <1>5, <2>1, <2>2, Zenon DEF FullObject, KeptStep
<1>6. CASE DestroyNotification(e) \/ DestroyReply(e)
  <2>1. Effect(e) = "tombstone" /\ Tag(e) # NoVersion
    BY <1>1, <1>6, EffectKind, EventTag, Zenon DEF DestroyNotification, DestroyReply
  <2>2. \/ Refuse(e.key, Tag(e))
        \/ Apply(e.key, Tag(e), "tombstone", "server")
        \/ Tag(e) = NoVersion /\ m_map' = m_map
    BY <1>6, RemoveSteps, Zenon DEF DestroyNotification, DestroyReply
  <2> QED
    BY <1>6, <2>1, <2>2, Zenon DEF DestroyNotification, DestroyReply, KeptStep
<1> QED
  BY <1>2, <1>3, <1>4, <1>5, <1>6, Zenon

LEMMA KeptSteps ==
  ASSUME VersionsKept, IndInv, StampsBounded, ConvInv, [Next]_vars
  PROVE  \/ Fields
         \/ Removal
         \/ \E k \in Keys : LocalOp(k)
         \/ \E e \in history : KeptStep(e)
<1>1. CASE ServerStep
  BY <1>1, KeptEvents, Zenon DEF ServerStep
<1>2. CASE LocalStep
  BY <1>2, LocalSteps, Zenon
<1>3. CASE ReapStep
  BY <1>3, RemovalSteps, Zenon
<1>4. CASE ThreadStep
  <2>1. ASSUME NEW e \in fetching, FullObject(e)
        PROVE  e \in history /\ (Fields \/ KeptStep(e))
    BY <2>1, KeptEvents, Zenon DEF IndInv, TypeOK
  <2>2. ClearSize \/ SizeInc \/ SizeDec \/ (\E id \in TaskIds : Dispatch(id))
          => Fields
    BY Zenon DEF ClearSize, SizeInc, SizeDec, Dispatch, Fields
  <2> QED
    BY <1>4, <2>1, <2>2, RemovalSteps, Zenon DEF ThreadStep
<1>5. CASE UNCHANGED vars
  BY <1>5, Zenon DEF vars, Fields
<1> QED
  BY <1>1, <1>2, <1>3, <1>4, <1>5, Zenon DEF Next

(* The history is fixed, and only deltas wait for a full object.           *)
LEMMA HistoryFixed ==
  ASSUME ConvInv, [Next]_vars
  PROVE  history' = history /\ \A e \in fetching' : e.kind = "delta"
<1>1. CASE ServerStep
  <2>1. PICK e \in history :
          \/ PutEvent(e) \/ CreateReply(e) \/ DeltaEvent(e)
          \/ InvalidateEvent(e) \/ DestroyNotification(e) \/ DestroyReply(e)
    BY <1>1, Zenon DEF ServerStep
  <2>2. UNCHANGED others
    BY <2>1, Zenon DEF PutEvent, CreateReply, DeltaEvent, InvalidateEvent,
       DestroyNotification, DestroyReply
  <2>3. UNCHANGED fetching
        \/ (fetching' = fetching \cup {e} /\ e.kind = "delta")
    BY <2>1, Zenon DEF PutEvent, CreateReply, DeltaEvent, InvalidateEvent,
       DestroyNotification, DestroyReply
  <2> QED
    BY <2>2, <2>3, Zenon DEF others, ConvInv
<1>2. CASE LocalStep
  <2>1. UNCHANGED <<history, fetching>>
    BY <1>2, Zenon DEF LocalStep, LocalPut, LocalCreate, LocalInvalidate,
       LocalDestroy, ClearMap, others
  <2> QED
    BY <2>1, Zenon DEF ConvInv
<1>3. CASE ReapStep
  <2>1. UNCHANGED <<history, fetching>>
    BY <1>3, Zenon DEF ReapStep, ReapVersions, ReapKeys, others
  <2> QED
    BY <2>1, Zenon DEF ConvInv
<1>4. CASE ThreadStep
  <2>1. /\ UNCHANGED history
        /\ UNCHANGED fetching \/ \E e \in fetching : fetching' = fetching \ {e}
    BY <1>4, Zenon DEF ThreadStep, FullObject, ClearSize, SizeInc, SizeDec,
       Dispatch, Expire, others
  <2> QED
    BY <2>1, Zenon DEF ConvInv
<1>5. CASE UNCHANGED vars
  BY <1>5, Zenon DEF vars, ConvInv
<1> QED
  BY <1>1, <1>2, <1>3, <1>4, <1>5, Zenon DEF Next

(* One key of the invariant.                                               *)
ConvKey(k) ==
  /\ m_map[k] = Absent => seen[k] = {}
  /\ seen[k] = {} => m_map[k].stamp = NoVersion
  /\ (m_map[k].kind = "tombstone" /\ "localDestroy" \notin EnabledOps)
       => m_map[k].origin = "server" /\ seen[k] # {}
  /\ seen[k] # {} =>
       /\ \E e \in history :
            /\ e.key = k
            /\ m_map[k].stamp = Tag(e)
            /\ m_map[k].origin # "local" => m_map[k].kind = Effect(e)
       /\ \A t \in seen[k] : ~Older(m_map[k].stamp, t)

LEMMA ConvInvKeys ==
  ConvInv <=> (\A e \in fetching : e.kind = "delta") /\ \A k \in Keys : ConvKey(k)
BY Zenon DEF ConvInv, Converged, ConvKey

LEMMA ConvInvKeysPrime ==
  ConvInv' <=> /\ \A e \in fetching' : e.kind = "delta"
               /\ \A k \in Keys : ConvKey(k)'
BY Zenon DEF ConvInv, Converged, ConvKey

LEMMA KeepKey ==
  ASSUME NEW k \in Keys, ConvKey(k), m_map'[k] = m_map[k], seen'[k] = seen[k],
         history' = history
  PROVE  ConvKey(k)'
BY Zenon DEF ConvKey

LEMMA DropKey ==
  ASSUME NEW k \in Keys, m_map'[k] = Absent, seen'[k] = {}
  PROVE  ConvKey(k)'
BY AbsentType, Zenon DEF ConvKey

(* A local operation keeps the stamp and marks the entry as local.         *)
LEMMA LocalKey ==
  ASSUME IndInv, NEW k \in Keys, ConvKey(k), LocalOp(k), history' = history
  PROVE  ConvKey(k)'
<1>1. CASE m_map' = m_map
  <2>1. seen'[k] = seen[k]
    BY <1>1, Zenon DEF LocalOp, Forget, ConvKey
  <2> QED
    BY <1>1, <2>1, KeepKey, Zenon
<1>2. ASSUME NEW kind \in EntryKinds \ {"absent"},
             kind = "tombstone" => "localDestroy" \in EnabledOps,
             Apply(k, NoVersion, kind, "local")
      PROVE  ConvKey(k)'
  <2>1. NoVersion \in Stamps /\ NewStamp(k, NoVersion) = m_map[k].stamp
    BY Zenon DEF NoVersion, Stamps, NewStamp
  <2>2. /\ m_map'[k].stamp = m_map[k].stamp
        /\ m_map'[k].kind = kind
        /\ m_map'[k].origin = "local"
        /\ m_map'[k] # Absent
    BY <1>2, <2>1, ApplyResult, Zenon DEF Origins
  <2>3. seen'[k] = seen[k]
    BY <2>2, Zenon DEF LocalOp, Forget
  <2> QED
    BY <1>2, <2>2, <2>3, Zenon DEF ConvKey
<1> QED
  BY <1>1, <1>2, Zenon DEF LocalOp

(* An event that is refused is older than the stamp; one that is applied   *)
(* is not older than anything the entry met.                               *)
LEMMA EventKey ==
  ASSUME IndInv, StampsBounded, NEW e \in history, ConvKey(e.key), KeptStep(e),
         history' = history
  PROVE  ConvKey(e.key)'
<1> DEFINE k == e.key
<1>1. /\ history \in Histories
      /\ k \in Keys
      /\ Tag(e) \in Stamps
      /\ Tag(e) # NoVersion
      /\ Tag(e).ver \in 1..RolloverWindow
      /\ setVersions(Tag(e)) = Tag(e)
      /\ RolloverWindow \in Nat
  BY EventTag, StampAssumption, Zenon DEF IndInv, TypeOK
<1>2. /\ m_map[k].stamp \in Stamps
      /\ m_map[k].stamp.ver <= RolloverWindow
      /\ seen[k] \subseteq Stamps
  BY <1>1, Zenon DEF IndInv, TypeOK, Entries, StampsBounded
<1>3. /\ checkForConflict(m_map[k].stamp, Tag(e))
           => ~Older(Tag(e), m_map[k].stamp)
      /\ ~checkForConflict(m_map[k].stamp, Tag(e))
           => Older(Tag(e), m_map[k].stamp)
  BY <1>1, <1>2, ConflictIsOrder
<1>4. CASE Refuse(e.key, Tag(e))
  <2>1. ~checkForConflict(m_map[k].stamp, Tag(e)) /\ m_map' = m_map
        /\ m_map[k] # Absent
    BY <1>1, <1>4, Zenon DEF Refuse, Accepts
  <2>2. seen'[k] = seen[k] \cup {Tag(e)}
    BY <1>1, <2>1, Zenon DEF KeptStep, Observe
  <2>3. seen[k] # {}
    BY <2>1, Zenon DEF ConvKey, checkForConflict
  <2>4. ~Older(m_map[k].stamp, Tag(e))
    BY <1>1, <1>2, <1>3, <2>1, OlderTransitive, Zenon
  <2> QED
    BY <2>1, <2>2, <2>3, <2>4, Zenon DEF ConvKey
<1>5. ASSUME NEW origin \in {"server", "mixed"},
             Effect(e) = "tombstone" => origin = "server",
             Apply(e.key, Tag(e), Effect(e), origin)
      PROVE  ConvKey(k)'
  <2>1. Effect(e) \in EntryKinds /\ Effect(e) # "absent"
    BY <1>1, EffectKind, Zenon DEF EntryKinds
  <2>2. NewStamp(k, Tag(e)) = Tag(e)
    BY <1>1, Zenon DEF NewStamp
  <2>3. /\ m_map'[k].stamp = Tag(e)
        /\ m_map'[k].kind = Effect(e)
        /\ m_map'[k].origin = origin
        /\ m_map'[k] # Absent
    BY <1>1, <1>5, <2>1, <2>2, ApplyResult DEF Origins
  <2>4. seen'[k] = seen[k] \cup {Tag(e)}
    BY <1>1, <2>3, Zenon DEF KeptStep, Observe
  <2>5. \A t \in seen'[k] : ~Older(Tag(e), t)
    <3>1. ~Older(Tag(e), Tag(e))
      BY <1>1, OlderTransitive, Zenon
    <3>2. ASSUME NEW t \in seen[k] PROVE ~Older(Tag(e), t)
      <4>1. m_map[k] # Absent /\ ~Older(m_map[k].stamp, t) /\ t \in Stamps
        BY <1>2, <3>2, Zenon DEF ConvKey
      <4>2. ~Older(Tag(e), m_map[k].stamp)
        BY <1>1, <1>3, <1>5, <4>1, Zenon DEF Apply, Accepts
      <4> QED
        BY <1>1, <1>2, <4>1, <4>2, OlderTransitive, Zenon
    <3> QED
      BY <2>4, <3>1, <3>2, Zenon
  <2> QED
    BY <1>5, <2>3, <2>4, <2>5, Zenon DEF ConvKey
<1> QED
  BY <1>4, <1>5, Zenon DEF KeptStep

LEMMA ConvStep ==
  ASSUME VersionsKept, IndInv, StampsBounded, ConvInv, [Next]_vars
  PROVE  ConvInv'
<1>1. history' = history /\ \A e \in fetching' : e.kind = "delta"
  BY HistoryFixed, Zenon
<1>2. \A k \in Keys : ConvKey(k)
  BY ConvInvKeys, Zenon
<1>3. SUFFICES ASSUME NEW j \in Keys PROVE ConvKey(j)'
  BY <1>1, ConvInvKeysPrime, Zenon
<1>4. CASE Fields
  BY <1>1, <1>2, <1>4, KeepKey, Zenon DEF Fields
<1>5. CASE Removal
  <2>1. CASE m_map'[j] = Absent
    BY <1>5, <2>1, DropKey, Zenon DEF Removal, Forget
  <2>2. CASE m_map'[j] # Absent
    <3>1. m_map'[j] = m_map[j] /\ seen'[j] = seen[j]
      BY <1>5, <2>2, Zenon DEF Removal, Forget
    <3> QED
      BY <1>1, <1>2, <3>1, KeepKey, Zenon
  <2> QED
    BY <2>1, <2>2, Zenon
<1>6. ASSUME NEW k \in Keys, LocalOp(k)
      PROVE  ConvKey(j)'
  <2>1. CASE j = k
    BY <1>1, <1>2, <1>6, <2>1, LocalKey, Zenon
  <2>2. CASE j # k
    <3>1. m_map'[j] = m_map[j]
      <4>1. NoVersion \in Stamps
        BY Zenon DEF NoVersion, Stamps
      <4> QED
        BY <1>6, <2>2, <4>1, ApplyResult, Zenon DEF LocalOp, Origins
    <3>2. seen'[j] = seen[j]
      BY <1>2, <1>6, <3>1, Zenon DEF LocalOp, Forget, ConvKey
    <3> QED
      BY <1>1, <1>2, <3>1, <3>2, KeepKey, Zenon
  <2> QED
    BY <2>1, <2>2, Zenon
<1>7. ASSUME NEW e \in history, KeptStep(e)
      PROVE  ConvKey(j)'
  <2>1. CASE j = e.key
    BY <1>1, <1>2, <1>7, <2>1, EventKey, Zenon
  <2>2. CASE j # e.key
    <3>1. history \in Histories /\ e.key \in Keys /\ Tag(e) \in Stamps
      BY EventTag, Zenon DEF IndInv, TypeOK
    <3>2. Effect(e) \in EntryKinds /\ Effect(e) # "absent"
      BY <3>1, EffectKind, Zenon DEF EntryKinds
    <3>3. m_map'[j] = m_map[j]
      BY <1>7, <2>2, <3>1, <3>2, ApplyResult DEF KeptStep, Refuse, Origins
    <3>4. seen'[j] = seen[j]
      BY <1>2, <1>7, <2>2, <3>3, Zenon DEF KeptStep, Observe, ConvKey
    <3> QED
      BY <1>1, <1>2, <3>3, <3>4, KeepKey, Zenon
  <2> QED
    BY <2>1, <2>2, Zenon
<1> QED
  BY <1>4, <1>5, <1>6, <1>7, KeptSteps, Zenon

(* Whatever the order in which notifications, replies, full objects and    *)
(* local operations reach a region, an entry shows the newest of the       *)
(* changes it met, where no version is lost (VersionsKept).                *)
THEOREM EntriesConverge ==
  ASSUME VersionsKept
  PROVE  Spec => []Converged
<1>1. Init => ConvInv
  BY AbsentType, Zenon DEF Init, ConvInv, Converged
<1>2. IndInv /\ StampsBounded /\ ConvInv /\ [Next]_vars => ConvInv'
  BY ConvStep, Zenon
<1>3. ConvInv => Converged
  BY Zenon DEF ConvInv
<1> QED
  BY <1>1, <1>2, <1>3, SpecStamps, PTL DEF Spec

-----------------------------------------------------------------------------
(* The map and the tombstone list agree as long as nothing empties the map *)
(* behind the list's back, which MapSegment::clear does.  The invariant    *)
(* adds that a task which is still valid is the one the list holds for its *)
(* key, so the task that expires is the task of the tombstone it takes.    *)

OnlyTombstonesListed ==
  \A k \in Keys : tombstones[k] # NoTask => m_map[k].kind = "tombstone"

ValidListed ==
  \A id \in TaskIds :
    tasks[id].valid => tasks[id].key \in Keys /\ tombstones[tasks[id].key] = id

ListInv == OnlyTombstonesListed /\ ValidListed

LEMMA InvalidatedTaskFields ==
  ASSUME NEW task \in TaskRecords, NEW cancel \in BOOLEAN
  PROVE  ~InvalidatedTask(task, cancel).valid
<1>1. ~FreeTask.valid
  BY Zenon DEF FreeTask
<1>2. ~[task EXCEPT !.valid = FALSE].valid
  BY DEF TaskRecords
<1> QED
  BY <1>1, <1>2, Zenon DEF InvalidatedTask

(* TombstoneList::erase invalidates the tasks it takes out of the list.    *)
LEMMA EraseKeepsValid ==
  ASSUME MapTypeOK, ValidListed, NEW ks \in SUBSET Keys,
         NEW cancel \in BOOLEAN, EraseAll(ks, cancel)
  PROVE  ValidListed' /\ \A k \in ks : tombstones'[k] = NoTask
<1>1. ASSUME NEW id \in TaskIds, tasks'[id].valid
      PROVE  tasks'[id].key \in Keys /\ tombstones'[tasks'[id].key] = id
  <2>1. tasks[id] \in TaskRecords
    BY Zenon DEF MapTypeOK
  <2>2. ~ \E k \in ks : tombstones[k] = id
    BY <1>1, <2>1, InvalidatedTaskFields, Zenon DEF EraseAll
  <2>3. tasks'[id] = tasks[id]
    BY <2>2, Zenon DEF EraseAll
  <2>4. tasks[id].key \in Keys /\ tombstones[tasks[id].key] = id
    BY <1>1, <2>3, Zenon DEF ValidListed
  <2> QED
    BY <2>2, <2>3, <2>4, Zenon DEF EraseAll
<1> QED
  BY <1>1, Zenon DEF ValidListed, EraseAll

(* TombstoneList::add: the erase comes first where the key was listed.     *)
LEMMA AddKeepsValid ==
  ASSUME MapTypeOK, ValidListed, NEW k \in Keys, NEW stamp,
         NEW erase \in BOOLEAN, AddTombstone(k, stamp, erase),
         erase \/ tombstones[k] = NoTask
  PROVE  ValidListed' /\ \A j \in Keys : j # k => tombstones'[j] = tombstones[j]
<1>1. PICK id \in FreeIds :
        /\ tombstones' = [tombstones EXCEPT ![k] = id]
        /\ tasks' =
             [i \in TaskIds |->
                IF i = id THEN [key |-> k, stamp |-> stamp, valid |-> TRUE,
                                phase |-> "scheduled"]
                ELSE IF erase /\ tombstones[k] = i
                     THEN InvalidatedTask(tasks[i], TRUE) ELSE tasks[i]]
  BY Zenon DEF AddTombstone
<1>2. tombstones'[k] = id /\ \A j \in Keys : j # k => tombstones'[j] = tombstones[j]
  BY <1>1, Zenon DEF MapTypeOK
<1>3. ASSUME NEW i \in TaskIds, tasks'[i].valid
      PROVE  tasks'[i].key \in Keys /\ tombstones'[tasks'[i].key] = i
  <2>1. CASE i = id
    BY <1>1, <1>2, <2>1, Zenon
  <2>2. CASE i # id
    <3>1. tasks[i] \in TaskRecords
      BY Zenon DEF MapTypeOK
    <3>2. ~(erase /\ tombstones[k] = i)
      BY <1>1, <1>3, <2>2, <3>1, InvalidatedTaskFields, Zenon
    <3>3. tasks'[i] = tasks[i]
      BY <1>1, <2>2, <3>2, Zenon
    <3>4. tasks[i].key \in Keys /\ tombstones[tasks[i].key] = i
      BY <1>3, <3>3, Zenon DEF ValidListed
    <3>5. tasks[i].key # k
      BY <3>2, <3>4, EntriesAssumption, Zenon
    <3> QED
      BY <1>2, <3>3, <3>4, <3>5, Zenon
  <2> QED
    BY <2>1, <2>2, Zenon
<1> QED
  BY <1>2, <1>3, Zenon DEF ValidListed

-----------------------------------------------------------------------------
(* What the operations of MapSegment do to the map, the list and the       *)
(* counter together.                                                       *)

(* An entry that is no tombstone is written; it was listed or it was not.  *)
WriteEntry(k) ==
  \E kind \in EntryKinds \ {"absent", "tombstone"}, origin \in Origins,
     stamp \in Stamps :
    /\ m_map' = [m_map EXCEPT ![k] = Entry(kind, origin, stamp)]
    /\ \/ UNCHANGED listVars /\ m_map[k].kind # "tombstone"
       \/ EraseAll({k}, TRUE)

(* A tombstone is written.                                                 *)
WriteTombstone(k) ==
  \E origin \in Origins, stamp \in Stamps, erase \in BOOLEAN :
    /\ m_map' = [m_map EXCEPT ![k] = Entry("tombstone", origin, stamp)]
    /\ AddTombstone(k, stamp, erase)
    /\ erase \/ m_map[k] = Absent

MapStep(k) ==
  \/ UNCHANGED <<m_map, listVars>>
  \/ WriteEntry(k)
  \/ WriteTombstone(k)

LEMMA PutMapStep ==
  ASSUME MapInv, NEW k \in Keys, NEW tag \in Stamps,
         NEW kind \in EntryKinds \ {"absent", "tombstone"},
         NEW origin \in Origins, put(k, tag, kind, origin)
  PROVE  MapStep(k)
<1>1. NewStamp(k, tag) \in Stamps
  BY NewStampType, Zenon DEF MapInv
<1>2. m_map[k] = Absent => m_map[k].kind # "tombstone"
  BY AbsentType, Zenon
<1> QED
  BY <1>1, <1>2, Zenon DEF put, MapStep, WriteEntry, Unchanged

LEMMA CreateMapStep ==
  ASSUME MapInv, NEW k \in Keys, NEW tag \in Stamps,
         NEW kind \in EntryKinds \ {"absent", "tombstone"},
         NEW origin \in Origins, create(k, tag, kind, origin)
  PROVE  MapStep(k)
BY PutMapStep, Zenon DEF create, MapStep, Unchanged

LEMMA InvalidateMapStep ==
  ASSUME MapInv, NEW k \in Keys, NEW tag \in Stamps, NEW origin \in Origins,
         invalidate(k, tag, origin)
  PROVE  MapStep(k)
<1>1. NewStamp(k, tag) \in Stamps /\ "invalid" \in EntryKinds \ {"absent", "tombstone"}
  BY NewStampType, Zenon DEF MapInv, EntryKinds
<1> QED
  BY <1>1, Zenon DEF invalidate, MapStep, WriteEntry, Unchanged

LEMMA RemoveMapStep ==
  ASSUME MapInv, NEW k \in Keys, NEW tag \in Stamps, NEW afterRemote \in BOOLEAN,
         NEW origin \in Origins, remove(k, tag, afterRemote, origin)
  PROVE  MapStep(k)
<1>1. NewStamp(k, tag) \in Stamps
  BY NewStampType, Zenon DEF MapInv
<1> QED
  BY <1>1, Zenon DEF remove, MapStep, WriteTombstone, Unchanged

LEMMA DeltaMapStep ==
  ASSUME MapInv, history \in Histories, NEW e \in history, putDelta(e.key, e)
  PROVE  MapStep(e.key)
<1>1. NewStamp(e.key, Tag(e)) \in Stamps /\ e.key \in Keys
  BY EventTag, NewStampType, Zenon DEF MapInv
<1>2. PICK kind \in {"null", "value"}, origin \in {"server", "mixed"} :
        m_map' = [m_map EXCEPT ![e.key] =
                    Entry(kind, origin, NewStamp(e.key, Tag(e)))]
  BY Zenon DEF putDelta
<1>3. kind \in EntryKinds \ {"absent", "tombstone"} /\ origin \in Origins
  BY Zenon DEF EntryKinds, Origins
<1> QED
  BY <1>1, <1>2, <1>3, Zenon DEF putDelta, MapStep, WriteEntry

LEMMA MapStepKeepsList ==
  ASSUME MapInv, ListInv, NEW k \in Keys, MapStep(k)
  PROVE  ListInv'
<1>1. MapTypeOK /\ ListedTasks /\ TombstonesListed
      /\ OnlyTombstonesListed /\ ValidListed
  BY Zenon DEF MapInv, ListInv
<1>2. CASE UNCHANGED <<m_map, listVars>>
  BY <1>1, <1>2, Zenon DEF listVars, ListInv, OnlyTombstonesListed, ValidListed
<1>3. CASE WriteEntry(k)
  <2>1. \A j \in Keys : j # k => m_map'[j] = m_map[j]
    BY <1>1, <1>3, Zenon DEF WriteEntry, MapTypeOK
  <2>2. CASE UNCHANGED listVars /\ m_map[k].kind # "tombstone"
    <3>1. tombstones[k] = NoTask
      BY <1>1, <2>2, Zenon DEF OnlyTombstonesListed
    <3> QED
      BY <1>1, <2>1, <2>2, <3>1, Zenon
      DEF listVars, ListInv, OnlyTombstonesListed, ValidListed
  <2>3. CASE EraseAll({k}, TRUE)
    <3>1. ValidListed' /\ tombstones'[k] = NoTask
      BY <1>1, <2>3, EraseKeepsValid, Zenon
    <3>2. \A j \in Keys : j # k => tombstones'[j] = tombstones[j]
      BY <2>3, Zenon DEF EraseAll
    <3> QED
      BY <1>1, <2>1, <3>1, <3>2, Zenon DEF ListInv, OnlyTombstonesListed
  <2> QED
    BY <1>3, <2>2, <2>3, Zenon DEF WriteEntry
<1>4. CASE WriteTombstone(k)
  <2>1. PICK origin \in Origins, stamp \in Stamps, erase \in BOOLEAN :
          /\ m_map' = [m_map EXCEPT ![k] = Entry("tombstone", origin, stamp)]
          /\ AddTombstone(k, stamp, erase)
          /\ erase \/ m_map[k] = Absent
    BY <1>4, Zenon DEF WriteTombstone
  <2>2. erase \/ tombstones[k] = NoTask
    BY <1>1, <2>1, AbsentType, Zenon DEF OnlyTombstonesListed
  <2>3. ValidListed' /\ \A j \in Keys : j # k => tombstones'[j] = tombstones[j]
    BY <1>1, <2>1, <2>2, AddKeepsValid, Zenon
  <2>4. m_map'[k].kind = "tombstone" /\ \A j \in Keys : j # k => m_map'[j] = m_map[j]
    BY <1>1, <2>1, Zenon DEF MapTypeOK, Entry
  <2> QED
    BY <1>1, <2>3, <2>4, Zenon DEF ListInv, OnlyTombstonesListed
<1> QED
  BY <1>2, <1>3, <1>4, Zenon DEF MapStep

LEMMA ServerMapStep ==
  ASSUME IndInv, NEW e \in history,
         \/ PutEvent(e) \/ CreateReply(e) \/ DeltaEvent(e) \/ FullObject(e)
         \/ InvalidateEvent(e) \/ DestroyNotification(e) \/ DestroyReply(e)
  PROVE  e.key \in Keys /\ MapStep(e.key)
<1>1. MapInv /\ history \in Histories
  BY IndInvParts, Zenon DEF RestTypeOK
<1>2. e.key \in Keys /\ Tag(e) \in Stamps /\ "server" \in Origins
  BY <1>1, EventTag, Zenon DEF Origins
<1>3. "value" \in EntryKinds \ {"absent", "tombstone"}
      /\ "invalid" \in EntryKinds \ {"absent", "tombstone"}
  BY Zenon DEF EntryKinds
<1>4. CASE PutEvent(e)
  <2>1. Effect(e) \in EntryKinds \ {"absent", "tombstone"}
    BY <1>1, <1>3, <1>4, EffectKind, Zenon DEF PutEvent
  <2> QED
    BY <1>1, <1>2, <1>4, <2>1, PutMapStep, Zenon DEF PutEvent
<1>5. CASE CreateReply(e)
  BY <1>1, <1>2, <1>3, <1>5, CreateMapStep, Zenon DEF CreateReply
<1>6. CASE DeltaEvent(e)
  BY <1>1, <1>2, <1>6, DeltaMapStep, Zenon DEF DeltaEvent, MapStep, Unchanged
<1>7. CASE FullObject(e)
  BY <1>1, <1>2, <1>3, <1>7, PutMapStep, Zenon DEF FullObject
<1>8. CASE InvalidateEvent(e)
  BY <1>1, <1>2, <1>8, InvalidateMapStep, Zenon DEF InvalidateEvent
<1>9. CASE DestroyNotification(e) \/ DestroyReply(e)
  BY <1>1, <1>2, <1>9, RemoveMapStep, Zenon DEF DestroyNotification, DestroyReply
<1> QED
  BY <1>2, <1>4, <1>5, <1>6, <1>7, <1>8, <1>9, Zenon

LEMMA LocalMapStep ==
  ASSUME IndInv, NEW k \in Keys,
         LocalPut(k) \/ LocalCreate(k) \/ LocalInvalidate(k) \/ LocalDestroy(k)
  PROVE  MapStep(k)
<1>1. MapInv
  BY IndInvParts, Zenon
<1>2. NoVersion \in Stamps /\ "local" \in Origins
  BY Zenon DEF NoVersion, Stamps, Origins
<1>3. "value" \in EntryKinds \ {"absent", "tombstone"}
      /\ "null" \in EntryKinds \ {"absent", "tombstone"}
  BY Zenon DEF EntryKinds
<1>4. CASE LocalPut(k)
  BY <1>1, <1>2, <1>3, <1>4, PutMapStep, Zenon DEF LocalPut
<1>5. CASE LocalCreate(k)
  BY <1>1, <1>2, <1>3, <1>5, CreateMapStep, Zenon DEF LocalCreate
<1>6. CASE LocalInvalidate(k)
  BY <1>1, <1>2, <1>6, InvalidateMapStep, Zenon DEF LocalInvalidate
<1>7. CASE LocalDestroy(k)
  BY <1>1, <1>2, <1>7, RemoveMapStep, Zenon DEF LocalDestroy
<1> QED
  BY <1>4, <1>5, <1>6, <1>7, Zenon

(* The timer of a task fires.                                              *)
LEMMA DispatchKeepsList ==
  ASSUME MapInv, ListInv, NEW id \in TaskIds, Dispatch(id)
  PROVE  ListInv'
<1>1. tasks' = [tasks EXCEPT ![id].phase = "dispatched"]
      /\ UNCHANGED <<m_map, tombstones>>
  BY Zenon DEF Dispatch
<1>2. \A i \in TaskIds : /\ tasks'[i].key = tasks[i].key
                         /\ tasks'[i].valid = tasks[i].valid
  BY <1>1 DEF MapInv, MapTypeOK, TaskRecords
<1> QED
  BY <1>1, <1>2, Zenon DEF ListInv, OnlyTombstonesListed, ValidListed

LEMMA ExpireKeepsList ==
  ASSUME MapInv, ListInv, NEW id \in TaskIds, Expire(id)
  PROVE  ListInv'
<1>1. ~FreeTask.valid
  BY Zenon DEF FreeTask
<1>2. \A i \in TaskIds : tasks[i] \in TaskRecords
  BY Zenon DEF MapInv, MapTypeOK
<1>3. CASE tasks[id].valid /\ tombstones[tasks[id].key] # NoTask
  <2> DEFINE k == tasks[id].key
  <2>1. /\ m_map' = [m_map EXCEPT ![k] = Absent]
        /\ tombstones' = [tombstones EXCEPT ![k] = NoTask]
        /\ tasks' = [i \in TaskIds |->
             IF i = id THEN FreeTask
             ELSE IF tombstones[k] = i THEN InvalidatedTask(tasks[i], FALSE)
             ELSE tasks[i]]
    BY <1>3, Zenon DEF Expire
  <2>2. k \in Keys /\ tombstones[k] = id
    BY <1>3, Zenon DEF ListInv, ValidListed
  <2> HIDE DEF k
  <2>3. /\ tombstones'[k] = NoTask
        /\ \A j \in Keys : j # k => /\ tombstones'[j] = tombstones[j]
                                    /\ m_map'[j] = m_map[j]
    BY <2>1, <2>2, Zenon DEF MapInv, MapTypeOK
  <2>4. OnlyTombstonesListed'
    BY <2>3, Zenon DEF ListInv, OnlyTombstonesListed
  <2>5. ASSUME NEW i \in TaskIds, tasks'[i].valid
        PROVE  tasks'[i].key \in Keys /\ tombstones'[tasks'[i].key] = i
    <3>1. i # id /\ tasks'[i] = tasks[i]
      BY <1>1, <1>2, <2>1, <2>2, <2>5, InvalidatedTaskFields, Zenon
    <3>2. tasks[i].key \in Keys /\ tombstones[tasks[i].key] = i
      BY <2>5, <3>1, Zenon DEF ListInv, ValidListed
    <3>3. tasks[i].key # k
      BY <2>2, <3>1, <3>2, Zenon
    <3> QED
      BY <2>3, <3>1, <3>2, <3>3, Zenon
  <2> QED
    BY <2>4, <2>5, Zenon DEF ListInv, ValidListed
<1>4. CASE ~(tasks[id].valid /\ tombstones[tasks[id].key] # NoTask)
  <2>1. tasks' = [tasks EXCEPT ![id] = FreeTask] /\ UNCHANGED <<m_map, tombstones>>
    BY <1>4, Zenon DEF Expire
  <2>2. \A i \in TaskIds : tasks'[i].valid => tasks'[i] = tasks[i]
    BY <1>1, <2>1, Zenon DEF MapInv, MapTypeOK
  <2> QED
    BY <2>1, <2>2, Zenon DEF ListInv, OnlyTombstonesListed, ValidListed
<1> QED
  BY <1>3, <1>4, Zenon

LEMMA ListStep ==
  ASSUME "clear" \notin EnabledOps, IndInv, ListInv, [Next]_vars
  PROVE  ListInv'
<1>1. MapInv /\ MapTypeOK
  BY IndInvParts, Zenon DEF MapInv
<1>2. ASSUME NEW k \in Keys, MapStep(k)
      PROVE  ListInv'
    BY <1>1, <1>2, MapStepKeepsList, Zenon
<1>3. CASE ServerStep
  BY <1>2, <1>3, ServerMapStep, Zenon DEF ServerStep
<1>4. CASE LocalStep
  BY <1>2, <1>4, LocalMapStep, Zenon DEF LocalStep, ClearMap
<1>5. CASE ReapStep
  <2>1. PICK ks \in SUBSET Keys : remove_entries(ks)
    BY <1>5, Zenon DEF ReapStep, ReapVersions, ReapKeys
  <2>2. ValidListed' /\ \A k \in ks : tombstones'[k] = NoTask
    BY <1>1, <2>1, EraseKeepsValid, Zenon DEF remove_entries, ListInv
  <2>3. \A k \in Keys : k \notin ks => /\ m_map'[k] = m_map[k]
                                       /\ tombstones'[k] = tombstones[k]
    BY <2>1, Zenon DEF remove_entries, EraseAll
  <2> QED
    BY <2>2, <2>3, Zenon DEF ListInv, OnlyTombstonesListed
<1>6. CASE ThreadStep
  <2>1. ASSUME NEW e \in fetching, FullObject(e)
        PROVE  ListInv'
    <3>1. e \in history
      BY Zenon DEF IndInv, TypeOK
    <3> QED
      BY <1>2, <2>1, <3>1, ServerMapStep, Zenon
  <2>2. CASE ClearSize \/ SizeInc \/ SizeDec
    <3>1. UNCHANGED <<m_map, tombstones, tasks>>
      BY <2>2, Zenon DEF ClearSize, SizeInc, SizeDec, listVars
    <3> QED
      BY <3>1, Zenon DEF ListInv, OnlyTombstonesListed, ValidListed
  <2> QED
    BY <1>1, <1>6, <2>1, <2>2, DispatchKeepsList, ExpireKeepsList, Zenon
    DEF ThreadStep
<1>7. CASE UNCHANGED vars
  BY <1>7, Zenon DEF vars, ListInv, OnlyTombstonesListed, ValidListed
<1> QED
  BY <1>3, <1>4, <1>5, <1>6, <1>7, Zenon DEF Next

LEMMA SpecList ==
  ASSUME "clear" \notin EnabledOps
  PROVE  Spec => [](IndInv /\ ListInv)
<1>1. Init => IndInv /\ ListInv
  <2>1. ~FreeTask.valid
    BY Zenon DEF FreeTask
  <2> QED
    BY <2>1, InitInv, Zenon DEF Init, ListInv, OnlyTombstonesListed, ValidListed
<1>2. (IndInv /\ ListInv) /\ [Next]_vars => (IndInv /\ ListInv)'
  BY NextInv, ListStep, Zenon
<1> QED
  BY <1>1, <1>2, PTL DEF Spec

(* The tombstone list holds exactly the keys whose entry is a tombstone    *)
(* (so MapSegment::isTombstone never finds the two in disagreement), for   *)
(* every mix of operations in which the region is not cleared.             *)
THEOREM ListIsExact ==
  ASSUME "clear" \notin EnabledOps
  PROVE  Spec => []TombstoneListExact
<1>1. IndInv /\ ListInv => TombstoneListExact
  BY Zenon DEF IndInv, TombstonesListed, ListInv, OnlyTombstonesListed,
     TombstoneListExact
<1> QED
  BY <1>1, SpecList, PTL

(* However late the expiry thread gets the segment's lock, the entry it    *)
(* removes is the tombstone its task was made for.                         *)
THEOREM ExpiryIsExact ==
  ASSUME "clear" \notin EnabledOps
  PROVE  Spec => ExpiryTakesItsTombstone
<1>1. ASSUME IndInv, ListInv, NEW id \in TaskIds, Expire(id),
             NEW k \in Keys, m_map'[k] # m_map[k]
      PROVE  m_map[k].kind = "tombstone" /\ tombstones[k] = id
  <2>1. m_map \in [Keys -> Entries]
    BY <1>1, Zenon DEF IndInv, TypeOK
  <2>2. tasks[id].valid /\ m_map' = [m_map EXCEPT ![tasks[id].key] = Absent]
    BY <1>1, Zenon DEF Expire
  <2>3. k = tasks[id].key
    BY <1>1, <2>1, <2>2, Zenon
  <2>4. tombstones[k] = id
    BY <1>1, <2>2, <2>3, Zenon DEF ListInv, ValidListed
  <2>5. id # NoTask
    BY EntriesAssumption, Zenon
  <2> QED
    BY <1>1, <2>4, <2>5, Zenon DEF ListInv, OnlyTombstonesListed
<1>2. (IndInv /\ ListInv) /\ [Next]_vars
        => [\A id \in TaskIds : Expire(id) =>
              \A k \in Keys :
                m_map'[k] # m_map[k] =>
                  m_map[k].kind = "tombstone" /\ tombstones[k] = id]_vars
  BY <1>1, Zenon
<1> QED
  BY <1>2, SpecList, PTL DEF Spec, ExpiryTakesItsTombstone

-----------------------------------------------------------------------------
(* Deltas.  A tombstone carries the stamp of the destroy that made it, and *)
(* a value that of the change that made it, so the check of a delta        *)
(* against the stamp finds the change the delta was computed from.         *)

(* A delta cannot find the tombstone of a local destroy, which keeps the   *)
(* stamp of the value that was destroyed.                                  *)
DeltasMeetValues ==
  \A h \in Histories : \A e \in h :
    e.kind = "delta" => "localDestroy" \notin EnabledOps

DestroyStamps ==
  "localDestroy" \notin EnabledOps =>
    \A k \in Keys :
      m_map[k].kind = "tombstone" =>
        \E f \in history : f.key = k /\ f.kind = "destroy" /\ m_map[k].stamp = Tag(f)

ServerValues ==
  "localPut" \notin EnabledOps =>
    \A k \in Keys :
      m_map[k].kind = "value" =>
        /\ m_map[k].origin # "local"
        /\ \E f \in history : f.key = k /\ m_map[k].stamp = Tag(f)

NoNulls ==
  "createNull" \notin EnabledOps => \A k \in Keys : m_map[k].kind # "null"

DeltaInv == DestroyStamps /\ ServerValues /\ NoNulls
            /\ ("localPut" \notin EnabledOps => DeltaMeetsItsBase)

(* The change whose stamp the delta check accepts is the one before it.    *)
LEMMA DeltaFollows ==
  ASSUME history \in Histories, NEW e \in history, NEW f \in history,
         checkForDeltaConflict(Tag(f), Tag(e), e.prev)
  PROVE  f.ver + 1 = e.ver /\ f.mem = e.prev
<1>1. /\ Tag(e).ver \in 1..RolloverWindow
      /\ Tag(f).ver \in 1..RolloverWindow
      /\ RolloverWindow \in Nat
  BY EventTag, StampAssumption, Zenon
<1>2. ~RolledOver(Tag(f), Tag(e))
  BY <1>1 DEF RolledOver
<1>3. Tag(e).ver = Tag(f).ver + 1 /\ Tag(f).mem = e.prev
  BY <1>2, Zenon DEF checkForDeltaConflict, StampVersion, TagVersion
<1> QED
  BY <1>3, Zenon DEF Tag

LEMMA DeltaMeetsNoTombstone ==
  ASSUME DeltasMeetValues, IndInv, DestroyStamps, NEW e \in history,
         e.kind = "delta", DeltaApplies(e.key, e)
  PROVE  m_map[e.key].kind = "value"
<1>1. history \in Histories /\ e.key \in Keys
  BY EventTag, Zenon DEF IndInv, TypeOK
<1>2. SUFFICES ASSUME m_map[e.key].kind = "tombstone" PROVE FALSE
  BY Zenon DEF DeltaApplies
<1>3. PICK f \in history : f.key = e.key /\ f.kind = "destroy"
                           /\ m_map[e.key].stamp = Tag(f)
  BY <1>1, <1>2, Zenon DEF DeltasMeetValues, DestroyStamps
<1>4. Tag(f) # NoVersion
  BY <1>1, EventTag, Zenon
<1>5. f.ver + 1 = e.ver /\ f.mem = e.prev
  BY <1>1, <1>3, <1>4, DeltaFollows, Zenon DEF DeltaApplies
<1> QED
  BY <1>1, <1>3, <1>5, EntriesAssumption, Zenon

(* What a step does to the entry of a key, as far as deltas care.          *)
SourcedStep(e) ==
  \/ m_map' = m_map
  \/ \E kind \in EntryKinds \ {"absent"}, origin \in {"server", "mixed"} :
       /\ Apply(e.key, Tag(e), kind, origin)
       /\ kind = "tombstone" => e.kind = "destroy"
       /\ kind # "null"
       /\ "localPut" \notin EnabledOps => origin = "server"

LEMMA SourcedEvents ==
  ASSUME DeltasMeetValues, IndInv, DeltaInv, NEW e \in history,
         \/ PutEvent(e) \/ CreateReply(e) \/ DeltaEvent(e) \/ FullObject(e)
         \/ InvalidateEvent(e) \/ DestroyNotification(e) \/ DestroyReply(e)
  PROVE  SourcedStep(e)
<1>1. history \in Histories
  BY Zenon DEF IndInv, TypeOK
<1>2. {"value", "invalid", "tombstone"} \subseteq EntryKinds \ {"absent"}
  BY Zenon DEF EntryKinds
<1>3. CASE PutEvent(e)
  <2>1. m_map' = m_map \/ Apply(e.key, Tag(e), Effect(e), "server")
    BY <1>3, PutSteps, Zenon DEF PutEvent, Refuse
  <2>2. Effect(e) \in {"value", "invalid"}
    BY <1>1, <1>3, EffectKind, Zenon DEF PutEvent
  <2> QED
    BY <1>2, <2>1, <2>2, Zenon DEF SourcedStep
<1>4. CASE CreateReply(e)
  <2>1. m_map' = m_map \/ Apply(e.key, Tag(e), "value", "server")
    BY <1>4, CreateSteps, Zenon DEF CreateReply
  <2> QED
    BY <1>2, <2>1, Zenon DEF SourcedStep
<1>5. CASE DeltaEvent(e)
  <2>1. CASE DeltaApplies(e.key, e)
    <3>1. m_map[e.key].kind = "value" /\ e.kind = "delta" /\ putDelta(e.key, e)
      BY <1>5, <2>1, DeltaMeetsNoTombstone, Zenon DEF DeltaEvent, DeltaInv
    <3>2. PICK kind \in {"value", "null"}, origin \in {"server", "mixed"} :
            /\ kind = "null" => m_map[e.key].kind = "tombstone"
            /\ Apply(e.key, Tag(e), kind, origin)
      BY <2>1, <3>1, DeltaSteps, Zenon
    <3>3. e.key \in Keys /\ Tag(e) \in Stamps /\ kind = "value"
      BY <1>1, <3>1, <3>2, EventTag, Zenon
    <3>4. m_map'[e.key].origin = origin
      BY <1>2, <3>2, <3>3, ApplyResult DEF Origins
    <3>5. CASE "localPut" \notin EnabledOps
      <4>1. PICK f \in history : f.key = e.key /\ m_map[e.key].stamp = Tag(f)
        BY <3>1, <3>3, <3>5, Zenon DEF DeltaInv, ServerValues
      <4>2. m_map[e.key].origin = "server"
        <5>1. m_map[e.key].origin \in Origins
          BY <3>3, Zenon DEF IndInv, TypeOK, Entries, Origins
        <5> QED
          BY <3>1, <3>3, <3>5, <5>1, Zenon
          DEF DeltaInv, ServerValues, DeltaMeetsItsBase, Origins
      <4>3. Tag(f) # NoVersion
        BY <1>1, EventTag, Zenon
      <4>4. f.ver + 1 = e.ver /\ f.mem = e.prev
        BY <1>1, <2>1, <4>1, <4>3, DeltaFollows, Zenon DEF DeltaApplies
      <4>5. DeltaBase(e.key, e)
        BY <3>1, <4>1, <4>2, <4>4 DEF DeltaBase, Tag
      <4>6. m_map'[e.key].origin = "server"
        <5>1. m_map' = [m_map EXCEPT ![e.key] =
                          Entry("value", "server", NewStamp(e.key, Tag(e)))]
          BY <3>1, <4>5, Zenon DEF putDelta
        <5> QED
          BY <3>3, <5>1, Zenon DEF IndInv, TypeOK, Entry
      <4> QED
        BY <1>2, <3>2, <3>3, <3>4, <4>6, Zenon DEF SourcedStep
    <3>6. CASE "localPut" \in EnabledOps
      BY <1>2, <3>2, <3>3, <3>6, Zenon DEF SourcedStep
    <3> QED
      BY <3>5, <3>6, Zenon
  <2>2. CASE ~DeltaApplies(e.key, e)
    BY <1>5, <2>2, Zenon DEF DeltaEvent, SourcedStep, Unchanged
  <2> QED
    BY <2>1, <2>2, Zenon
<1>6. CASE FullObject(e)
  <2>1. m_map' = m_map \/ Apply(e.key, Tag(e), "value", "server")
    BY <1>6, PutSteps, Zenon DEF FullObject, Refuse
  <2> QED
    BY <1>2, <2>1, Zenon DEF SourcedStep
<1>7. CASE InvalidateEvent(e)
  <2>1. m_map' = m_map \/ Apply(e.key, Tag(e), "invalid", "server")
    BY <1>7, InvalidateSteps, Zenon DEF InvalidateEvent
  <2> QED
    BY <1>2, <2>1, Zenon DEF SourcedStep
<1>8. CASE DestroyNotification(e) \/ DestroyReply(e)
  <2>1. m_map' = m_map \/ Apply(e.key, Tag(e), "tombstone", "server")
    BY <1>8, RemoveSteps, Zenon DEF DestroyNotification, DestroyReply, Refuse
  <2>2. e.kind = "destroy"
    BY <1>8, Zenon DEF DestroyNotification, DestroyReply
  <2> QED
    BY <1>2, <2>1, <2>2, Zenon DEF SourcedStep
<1> QED
  BY <1>3, <1>4, <1>5, <1>6, <1>7, <1>8, Zenon

(* A local operation writes no value unless localPut is used, no null      *)
(* unless a null is created, no tombstone unless localDestroy is used.     *)
UnsourcedStep(k) ==
  \/ m_map' = m_map
  \/ \E kind \in EntryKinds \ {"absent"} :
       /\ Apply(k, NoVersion, kind, "local")
       /\ kind = "tombstone" => "localDestroy" \in EnabledOps
       /\ kind = "value" => "localPut" \in EnabledOps
       /\ kind = "null" => "createNull" \in EnabledOps

LEMMA UnsourcedOps ==
  ASSUME NEW k \in Keys,
         LocalPut(k) \/ LocalCreate(k) \/ LocalInvalidate(k) \/ LocalDestroy(k)
  PROVE  UnsourcedStep(k)
<1>1. {"value", "invalid", "tombstone", "null"} \subseteq EntryKinds \ {"absent"}
  BY Zenon DEF EntryKinds
<1>2. CASE LocalPut(k)
  BY <1>1, <1>2, PutSteps, Zenon DEF LocalPut, UnsourcedStep, Refuse
<1>3. CASE LocalCreate(k)
  <2>1. \/ m_map' = m_map
        \/ "localPut" \in EnabledOps /\ Apply(k, NoVersion, "value", "local")
        \/ "createNull" \in EnabledOps /\ Apply(k, NoVersion, "null", "local")
    BY <1>3, CreateSteps, Zenon DEF LocalCreate
  <2> QED
    BY <1>1, <2>1, Zenon DEF UnsourcedStep
<1>4. CASE LocalInvalidate(k)
  <2>1. m_map' = m_map \/ Apply(k, NoVersion, "invalid", "local")
    BY <1>4, InvalidateSteps, Zenon DEF LocalInvalidate
  <2> QED
    BY <1>1, <2>1, Zenon DEF UnsourcedStep
<1>5. CASE LocalDestroy(k)
  BY <1>1, <1>5, RemoveSteps, Zenon DEF LocalDestroy, UnsourcedStep, Refuse
<1> QED
  BY <1>2, <1>3, <1>4, <1>5, Zenon

LEMMA DeltaInvStep ==
  ASSUME DeltasMeetValues, IndInv, DeltaInv, [Next]_vars
  PROVE  DeltaInv'
<1>1. /\ m_map \in [Keys -> Entries]
      /\ history \in Histories
      /\ history' = history
  <2>1. history' = history
    BY Zenon DEF Next, ServerStep, LocalStep, ReapStep, ThreadStep, PutEvent,
       CreateReply, DeltaEvent, InvalidateEvent, DestroyNotification,
       DestroyReply, LocalPut, LocalCreate, LocalInvalidate, LocalDestroy,
       ClearMap, ReapVersions, ReapKeys, FullObject, ClearSize, SizeInc,
       SizeDec, Dispatch, Expire, others, vars
  <2> QED
    BY <2>1, Zenon DEF IndInv, TypeOK
<1>k. ASSUME m_map' = m_map
      PROVE  DeltaInv'
  <2>1. DestroyStamps'
    BY <1>1, <1>k, Zenon DEF DeltaInv, DestroyStamps
  <2>2. ServerValues'
    BY <1>1, <1>k, Zenon DEF DeltaInv, ServerValues
  <2>3. NoNulls'
    BY <1>k, Zenon DEF DeltaInv, NoNulls
  <2>4. "localPut" \notin EnabledOps => DeltaMeetsItsBase'
    BY <1>k, Zenon DEF DeltaInv, DeltaMeetsItsBase
  <2> QED
    BY <2>1, <2>2, <2>3, <2>4, Zenon DEF DeltaInv
<1>2. ASSUME NEW e \in history, SourcedStep(e)
      PROVE  DeltaInv'
  <2>1. CASE m_map' = m_map
    BY <1>k, <2>1, Zenon
  <2>2. ASSUME NEW kind \in EntryKinds \ {"absent"},
               NEW origin \in {"server", "mixed"},
               Apply(e.key, Tag(e), kind, origin),
               kind = "tombstone" => e.kind = "destroy",
               kind # "null",
               "localPut" \notin EnabledOps => origin = "server"
        PROVE  DeltaInv'
    <3>1. e.key \in Keys /\ Tag(e) \in Stamps /\ NewStamp(e.key, Tag(e)) = Tag(e)
      BY <1>1, EventTag, Zenon DEF NewStamp
    <3>2. /\ m_map'[e.key].stamp = Tag(e)
          /\ m_map'[e.key].kind = kind
          /\ m_map'[e.key].origin = origin
          /\ \A j \in Keys : j # e.key => m_map'[j] = m_map[j]
      BY <2>2, <3>1, ApplyResult DEF Origins
    <3>3. DestroyStamps'
      BY <1>1, <2>2, <3>1, <3>2 DEF DeltaInv, DestroyStamps
    <3>4. ServerValues'
      BY <1>1, <2>2, <3>1, <3>2 DEF DeltaInv, ServerValues
    <3>5. NoNulls' /\ ("localPut" \notin EnabledOps => DeltaMeetsItsBase')
      BY <2>2, <3>1, <3>2, Zenon DEF DeltaInv, NoNulls, DeltaMeetsItsBase
    <3> QED
      BY <3>3, <3>4, <3>5, Zenon DEF DeltaInv
  <2> QED
    BY <1>2, <2>1, <2>2, Zenon DEF SourcedStep
<1>3. ASSUME NEW k \in Keys, UnsourcedStep(k)
      PROVE  DeltaInv'
  <2>1. CASE m_map' = m_map
    BY <1>k, <2>1, Zenon
  <2>2. ASSUME NEW kind \in EntryKinds \ {"absent"},
               Apply(k, NoVersion, kind, "local"),
               kind = "tombstone" => "localDestroy" \in EnabledOps,
               kind = "value" => "localPut" \in EnabledOps,
               kind = "null" => "createNull" \in EnabledOps
        PROVE  DeltaInv'
    <3>1. NoVersion \in Stamps /\ "local" \in Origins
      BY Zenon DEF NoVersion, Stamps, Origins
    <3>2. /\ m_map'[k].kind = kind
          /\ m_map'[k].origin = "local"
          /\ \A j \in Keys : j # k => m_map'[j] = m_map[j]
      BY <2>2, <3>1, ApplyResult
    <3>3. DestroyStamps'
      BY <1>1, <2>2, <3>2 DEF DeltaInv, DestroyStamps
    <3>4. ServerValues'
      BY <1>1, <2>2, <3>2 DEF DeltaInv, ServerValues
    <3>5. NoNulls' /\ ("localPut" \notin EnabledOps => DeltaMeetsItsBase')
      BY <2>2, <3>2, Zenon DEF DeltaInv, NoNulls, DeltaMeetsItsBase
    <3> QED
      BY <3>3, <3>4, <3>5, Zenon DEF DeltaInv
  <2> QED
    BY <1>3, <2>1, <2>2, Zenon DEF UnsourcedStep
<1>4. ASSUME Removal \/ UNCHANGED m_map
      PROVE  DeltaInv'
  <2>1. \A k \in Keys : m_map'[k] = m_map[k] \/ m_map'[k] = Absent
    BY <1>4, Zenon DEF Removal
  <2>2. Absent.kind = "absent" /\ Absent.origin = "local"
    BY Zenon DEF Absent, Entry
  <2>3. DestroyStamps' /\ ServerValues'
    BY <1>1, <2>1, <2>2 DEF DeltaInv, DestroyStamps, ServerValues
  <2>4. NoNulls' /\ ("localPut" \notin EnabledOps => DeltaMeetsItsBase')
    BY <2>1, <2>2, Zenon DEF DeltaInv, NoNulls, DeltaMeetsItsBase
  <2> QED
    BY <2>3, <2>4, Zenon DEF DeltaInv
<1>5. CASE ServerStep
  BY <1>2, <1>5, SourcedEvents, Zenon DEF ServerStep
<1>6. CASE LocalStep
  <2>1. ClearMap => Removal
    BY Zenon DEF ClearMap, Removal, Forget
  <2> QED
    BY <1>3, <1>4, <1>6, <2>1, UnsourcedOps, Zenon DEF LocalStep
<1>7. CASE ReapStep
  BY <1>4, <1>7, RemovalSteps, Zenon
<1>8. CASE ThreadStep
  <2>1. ASSUME NEW e \in fetching, FullObject(e)
        PROVE  DeltaInv'
    <3>1. e \in history
      BY Zenon DEF IndInv, TypeOK
    <3> QED
      BY <1>2, <2>1, <3>1, SourcedEvents, Zenon
  <2>2. ClearSize \/ SizeInc \/ SizeDec \/ (\E id \in TaskIds : Dispatch(id))
          => UNCHANGED m_map
    BY Zenon DEF ClearSize, SizeInc, SizeDec, Dispatch
  <2> QED
    BY <1>4, <1>8, <2>1, <2>2, RemovalSteps, Zenon DEF ThreadStep
<1>9. CASE UNCHANGED vars
  BY <1>4, <1>9, Zenon DEF vars
<1> QED
  BY <1>5, <1>6, <1>7, <1>8, <1>9, Zenon DEF Next

LEMMA SpecDelta ==
  ASSUME DeltasMeetValues
  PROVE  Spec => [](IndInv /\ DeltaInv)
<1>1. Init => IndInv /\ DeltaInv
  <2>1. Absent.kind = "absent" /\ Absent.origin = "local"
    BY Zenon DEF Absent, Entry
  <2>2. Init => \A k \in Keys : m_map[k] = Absent
    BY Zenon DEF Init
  <2> QED
    BY <2>1, <2>2, InitInv, Zenon
    DEF DeltaInv, DestroyStamps, ServerValues, NoNulls, DeltaMeetsItsBase
<1>2. (IndInv /\ DeltaInv) /\ [Next]_vars => (IndInv /\ DeltaInv)'
  BY NextInv, DeltaInvStep, Zenon
<1> QED
  BY <1>1, <1>2, PTL DEF Spec

(* A delta is only ever applied to the value it was computed from, in      *)
(* whatever order notifications, replies, invalidations, clears and reaps  *)
(* come, where the application writes no local values and a delta cannot   *)
(* meet the tombstone of a local destroy.                                  *)
THEOREM DeltasFindTheirBase ==
  ASSUME DeltasMeetValues, "localPut" \notin EnabledOps
  PROVE  Spec => []DeltaMeetsItsBase
<1>1. DeltaInv => DeltaMeetsItsBase
  BY Zenon DEF DeltaInv
<1> QED
  BY <1>1, SpecDelta, PTL

-----------------------------------------------------------------------------
(* The entry counter.  m_size is the number of visible entries once every  *)
(* thread has made its update, up to a multiple of the modulus: the        *)
(* counter may be zero while a thread is about to decrement it.            *)

(* Numbers that differ by a multiple of the modulus have one remainder.    *)
LEMMA Congruent ==
  ASSUME NEW a \in Int, NEW b \in Int, NEW q \in Int, NEW m \in Nat \ {0},
         a = b + q * m
  PROVE  a % m = b % m
<1>1. a % m \in 0..(m-1) /\ b % m \in 0..(m-1)
  OBVIOUS
<1>2. a \div m \in Int /\ b \div m \in Int
  OBVIOUS
<1>3. a = m * (a \div m) + (a % m)
  OBVIOUS
<1>4. b = m * (b \div m) + (b % m)
  OBVIOUS
<1> DEFINE d == a \div m - (b \div m) - q
<1>5. d \in Int
  BY <1>2
<1>6. m * d = (b % m) - (a % m)
  <2> DEFINE x == a \div m  y == b \div m
  <2>1. x \in Int /\ y \in Int /\ a = m * x + (a % m) /\ b = m * y + (b % m)
    BY <1>2, <1>3, <1>4
  <2>2. d = x - y - q
    OBVIOUS
  <2> HIDE DEF x, y, d
  <2>3. m * (x - y - q) = m * x - m * y - q * m
    BY <2>1
  <2> QED
    BY <2>1, <2>2, <2>3, <1>1
<1> HIDE DEF d
<1>7. d = 0
  <2>1. d >= 1 => m * d >= m
    BY <1>5
  <2>2. d <= -1 => m * d <= -m
    BY <1>5
  <2> QED
    BY <2>1, <2>2, <1>5, <1>6, <1>1
<1> QED
  BY <1>6, <1>7, <1>1

LEMMA BelowZeroMod ==
  ASSUME NEW m \in Nat \ {0}
  PROVE  (0 - 1) % m = m - 1
OBVIOUS

(* The conditions under which the counter is right: README.md says what    *)
(* the operations that are left out do to it.                              *)
CountsKept ==
  /\ DeltasMeetValues
  /\ IsFiniteSet(Keys)
  /\ EnabledOps \cap {"createNull", "destroyReply", "clear", "reapKeys"} = {}

PresentKeys == {k \in Keys : Present(k)}

SizeInv ==
  \E q \in Int :
    m_size + pendingInc - pendingDec = Cardinality(PresentKeys) + q * SizeModulus

(* What an operation does to the visible keys and to the counter.          *)
SizeOp(k) ==
  \/ PresentKeys' = PresentKeys /\ NoSizeChange
  \/ k \notin PresentKeys /\ PresentKeys' = PresentKeys \cup {k} /\ Inc(1)
  \/ k \in PresentKeys /\ PresentKeys' = PresentKeys \ {k} /\ Dec(1)

LEMMA SamePresent ==
  ASSUME m_map' = m_map
  PROVE  PresentKeys' = PresentKeys
BY Zenon DEF PresentKeys, Present

LEMMA WrittenPresent ==
  ASSUME MapTypeOK, NEW k \in Keys, NEW kind \in EntryKinds \ {"absent"},
         NEW origin, NEW stamp,
         m_map' = [m_map EXCEPT ![k] = Entry(kind, origin, stamp)]
  PROVE  /\ kind # "tombstone" => PresentKeys' = PresentKeys \cup {k}
         /\ kind = "tombstone" => PresentKeys' = PresentKeys \ {k}
<1>1. m_map'[k] = Entry(kind, origin, stamp)
      /\ \A j \in Keys : j # k => m_map'[j] = m_map[j]
  BY Zenon DEF MapTypeOK
<1>2. m_map'[k].kind = kind /\ m_map'[k] # Absent
  <2>1. Entry(kind, origin, stamp).kind = kind
    BY Zenon DEF Entry
  <2> QED
    BY <1>1, <2>1, AbsentType, Zenon
<1>3. /\ Present(k)' <=> kind # "tombstone"
      /\ \A j \in Keys : j # k => (Present(j)' <=> Present(j))
  BY <1>1, <1>2, Zenon DEF Present
<1>4. ASSUME NEW j
      PROVE  /\ j \in PresentKeys' <=> j \in Keys /\ Present(j)'
             /\ j \in PresentKeys <=> j \in Keys /\ Present(j)
  BY Zenon DEF PresentKeys
<1> QED
  BY <1>3, <1>4, Zenon

LEMMA PutSize ==
  ASSUME MapTypeOK, NEW k \in Keys, NEW tag,
         NEW kind \in EntryKinds \ {"absent", "tombstone"}, NEW origin,
         m_map[k].kind # "null", put(k, tag, kind, origin)
  PROVE  SizeOp(k)
<1>1. CASE Unchanged
  BY <1>1, SamePresent, Zenon DEF Unchanged, SizeOp
<1>2. CASE ~Unchanged
  <2>1. m_map' = [m_map EXCEPT ![k] = Entry(kind, origin, NewStamp(k, tag))]
    BY <1>2, Zenon DEF put
  <2>2. PresentKeys' = PresentKeys \cup {k}
    BY <2>1, WrittenPresent, Zenon
  <2>3. k \in PresentKeys <=> (m_map[k] # Absent /\ m_map[k].kind # "tombstone")
    BY Zenon DEF PresentKeys, Present
  <2>4. CASE k \in PresentKeys
    <3>1. NoSizeChange
      BY <1>2, <2>3, <2>4, Zenon DEF put
    <3> QED
      BY <2>2, <2>4, <3>1, Zenon DEF SizeOp
  <2>5. CASE k \notin PresentKeys
    <3>1. Inc(1)
      BY <1>2, <2>3, <2>5, AbsentType, Zenon DEF put
    <3> QED
      BY <2>2, <2>5, <3>1, Zenon DEF SizeOp
  <2> QED
    BY <2>4, <2>5, Zenon
<1> QED
  BY <1>1, <1>2, Zenon

LEMMA CreateSize ==
  ASSUME MapTypeOK, NEW k \in Keys, NEW tag,
         NEW kind \in EntryKinds \ {"absent", "tombstone"}, NEW origin,
         m_map[k].kind # "null", create(k, tag, kind, origin)
  PROVE  SizeOp(k)
BY PutSize, SamePresent, Zenon DEF create, Unchanged, SizeOp

LEMMA InvalidateSize ==
  ASSUME MapTypeOK, NEW k \in Keys, NEW tag, NEW origin,
         invalidate(k, tag, origin)
  PROVE  SizeOp(k)
<1>1. CASE Unchanged
  BY <1>1, SamePresent, Zenon DEF Unchanged, SizeOp
<1>2. CASE ~Unchanged
  <2>1. /\ m_map' = [m_map EXCEPT ![k] = Entry("invalid", origin, NewStamp(k, tag))]
        /\ m_map[k].kind # "tombstone"
        /\ IF m_map[k] = Absent THEN Inc(1) ELSE NoSizeChange
    BY <1>2, Zenon DEF invalidate
  <2>2. PresentKeys' = PresentKeys \cup {k}
    <3>1. "invalid" \in EntryKinds \ {"absent"} /\ "invalid" # "tombstone"
      BY Zenon DEF EntryKinds
    <3> QED
      BY <2>1, <3>1, WrittenPresent, Zenon
  <2>3. k \in PresentKeys <=> m_map[k] # Absent
    BY <2>1, Zenon DEF PresentKeys, Present
  <2> QED
    BY <2>1, <2>2, <2>3, Zenon DEF SizeOp
<1> QED
  BY <1>1, <1>2, Zenon

LEMMA RemoveSize ==
  ASSUME MapTypeOK, NEW k \in Keys, NEW tag, NEW origin,
         remove(k, tag, FALSE, origin)
  PROVE  SizeOp(k)
<1>1. CASE Unchanged
  BY <1>1, SamePresent, Zenon DEF Unchanged, SizeOp
<1>2. CASE ~Unchanged
  <2>1. m_map' = [m_map EXCEPT ![k] = Entry("tombstone", origin, NewStamp(k, tag))]
    BY <1>2, Zenon DEF remove
  <2>2. PresentKeys' = PresentKeys \ {k}
    BY <2>1, WrittenPresent, Zenon DEF EntryKinds
  <2>3. k \in PresentKeys <=> (m_map[k] # Absent /\ m_map[k].kind # "tombstone")
    BY Zenon DEF PresentKeys, Present
  <2>4. CASE k \in PresentKeys
    <3>1. Dec(1)
      BY <1>2, <2>3, <2>4, Zenon DEF remove
    <3> QED
      BY <2>2, <2>4, <3>1, Zenon DEF SizeOp
  <2>5. CASE k \notin PresentKeys
    <3>1. NoSizeChange
      BY <1>2, <2>3, <2>5, Zenon DEF remove
    <3> QED
      BY <2>2, <2>5, <3>1, Zenon DEF SizeOp
  <2> QED
    BY <2>4, <2>5, Zenon
<1> QED
  BY <1>1, <1>2, Zenon

LEMMA DeltaSize ==
  ASSUME MapTypeOK, NEW e, e.key \in Keys, m_map[e.key].kind = "value",
         putDelta(e.key, e)
  PROVE  SizeOp(e.key)
<1>1. PICK origin \in {"server", "mixed"} :
        m_map' = [m_map EXCEPT ![e.key] =
                    Entry("value", origin, NewStamp(e.key, Tag(e)))]
  BY Zenon DEF putDelta
<1>2. PresentKeys' = PresentKeys \cup {e.key}
  BY <1>1, WrittenPresent, Zenon DEF EntryKinds
<1>3. e.key \in PresentKeys
  BY AbsentType, Zenon DEF PresentKeys, Present
<1> QED
  BY <1>2, <1>3, Zenon DEF putDelta, SizeOp

LEMMA SizeOpKeepsCount ==
  ASSUME IndInv, IsFiniteSet(Keys), SizeInv, NEW k \in Keys, SizeOp(k),
         UNCHANGED m_size
  PROVE  SizeInv'
<1>1. PICK q \in Int : m_size + pendingInc - pendingDec
                         = Cardinality(PresentKeys) + q * SizeModulus
  BY DEF SizeInv
<1>2. IsFiniteSet(PresentKeys)
  BY FS_Subset, Zenon DEF PresentKeys
<1>3. /\ Cardinality(PresentKeys) \in Nat
      /\ k \notin PresentKeys
           => Cardinality(PresentKeys \cup {k}) = Cardinality(PresentKeys) + 1
      /\ k \in PresentKeys
           => Cardinality(PresentKeys \ {k}) = Cardinality(PresentKeys) - 1
  BY <1>2, FS_CardinalityType, FS_AddElement, FS_RemoveElement
<1>4. m_size \in Nat /\ pendingInc \in Nat /\ pendingDec \in Nat
      /\ SizeModulus \in Nat
  BY EntriesAssumption DEF IndInv, TypeOK
<1> DEFINE c == Cardinality(PresentKeys)
           d == Cardinality(PresentKeys')
           r == q * SizeModulus
<1>5. /\ c \in Nat
      /\ r \in Int
      /\ m_size + pendingInc - pendingDec = c + r
      /\ \/ d = c /\ NoSizeChange
         \/ d = c + 1 /\ Inc(1)
         \/ d = c - 1 /\ Dec(1)
  <2>1. r \in Int
    BY <1>4
  <2>2. \/ d = c /\ NoSizeChange
        \/ d = c + 1 /\ Inc(1)
        \/ d = c - 1 /\ Dec(1)
    BY <1>3, Zenon DEF SizeOp
  <2> QED
    BY <1>1, <1>3, <2>1, <2>2, Zenon
<1>6. m_size' + pendingInc' - pendingDec' = d + r
  <2> HIDE DEF c, d, r
  <2> QED
    BY <1>4, <1>5 DEF NoSizeChange, Inc, Dec
<1> QED
  BY <1>6, Zenon DEF SizeInv

LEMMA ServerSize ==
  ASSUME CountsKept, IndInv, DeltaInv, NEW e \in history,
         \/ PutEvent(e) \/ CreateReply(e) \/ DeltaEvent(e) \/ FullObject(e)
         \/ InvalidateEvent(e) \/ DestroyNotification(e) \/ DestroyReply(e)
  PROVE  e.key \in Keys /\ SizeOp(e.key) /\ UNCHANGED m_size
<1>1. MapTypeOK /\ history \in Histories /\ e.key \in Keys
  BY IndInvParts, EventTag, Zenon DEF MapInv, RestTypeOK
<1>2. m_map[e.key].kind # "null" /\ DeltasMeetValues /\ "destroyReply" \notin EnabledOps
  BY <1>1, Zenon DEF DeltaInv, NoNulls, CountsKept
<1>3. "value" \in EntryKinds \ {"absent", "tombstone"}
      /\ "invalid" \in EntryKinds \ {"absent", "tombstone"}
  BY Zenon DEF EntryKinds
<1>4. UNCHANGED m_size
  BY Zenon DEF PutEvent, CreateReply, DeltaEvent, FullObject, InvalidateEvent,
     DestroyNotification, DestroyReply, others
<1>5. CASE PutEvent(e)
  <2>1. Effect(e) \in EntryKinds \ {"absent", "tombstone"}
    BY <1>1, <1>3, <1>5, EffectKind, Zenon DEF PutEvent
  <2> QED
    BY <1>1, <1>2, <1>4, <1>5, <2>1, PutSize, Zenon DEF PutEvent
<1>6. CASE CreateReply(e)
  BY <1>1, <1>2, <1>3, <1>4, <1>6, CreateSize, Zenon DEF CreateReply
<1>7. CASE DeltaEvent(e)
  <2>1. CASE DeltaApplies(e.key, e)
    <3>1. m_map[e.key].kind = "value" /\ putDelta(e.key, e)
      BY <1>2, <1>7, <2>1, DeltaMeetsNoTombstone, Zenon DEF DeltaEvent, DeltaInv
    <3> QED
      BY <1>1, <1>4, <3>1, DeltaSize, Zenon
  <2>2. CASE ~DeltaApplies(e.key, e)
    <3>1. UNCHANGED m_map /\ NoSizeChange
      BY <1>7, <2>2, Zenon DEF DeltaEvent, Unchanged
    <3> QED
      BY <1>1, <1>4, <3>1, SamePresent, Zenon DEF SizeOp
  <2> QED
    BY <2>1, <2>2, Zenon
<1>8. CASE FullObject(e)
  BY <1>1, <1>2, <1>3, <1>4, <1>8, PutSize, Zenon DEF FullObject
<1>9. CASE InvalidateEvent(e)
  BY <1>1, <1>4, <1>9, InvalidateSize, Zenon DEF InvalidateEvent
<1>10. CASE DestroyNotification(e) \/ DestroyReply(e)
  BY <1>1, <1>2, <1>4, <1>10, RemoveSize, Zenon DEF DestroyNotification, DestroyReply
<1> QED
  BY <1>5, <1>6, <1>7, <1>8, <1>9, <1>10, Zenon

LEMMA LocalSize ==
  ASSUME CountsKept, IndInv, DeltaInv, NEW k \in Keys,
         LocalPut(k) \/ LocalCreate(k) \/ LocalInvalidate(k) \/ LocalDestroy(k)
  PROVE  SizeOp(k) /\ UNCHANGED m_size
<1>1. MapTypeOK
  BY IndInvParts, Zenon DEF MapInv
<1>2. m_map[k].kind # "null" /\ "createNull" \notin EnabledOps
  BY Zenon DEF DeltaInv, NoNulls, CountsKept
<1>3. "value" \in EntryKinds \ {"absent", "tombstone"}
  BY Zenon DEF EntryKinds
<1>4. UNCHANGED m_size
  BY Zenon DEF LocalPut, LocalCreate, LocalInvalidate, LocalDestroy, others
<1>5. CASE LocalPut(k)
  BY <1>1, <1>2, <1>3, <1>4, <1>5, PutSize, Zenon DEF LocalPut
<1>6. CASE LocalCreate(k)
  BY <1>1, <1>2, <1>3, <1>4, <1>6, CreateSize, Zenon DEF LocalCreate
<1>7. CASE LocalInvalidate(k)
  BY <1>1, <1>4, <1>7, InvalidateSize, Zenon DEF LocalInvalidate
<1>8. CASE LocalDestroy(k)
  BY <1>1, <1>4, <1>8, RemoveSize, Zenon DEF LocalDestroy
<1> QED
  BY <1>5, <1>6, <1>7, <1>8, Zenon

(* A reap or an expiry that takes out tombstones only.                     *)
LEMMA TombstonesOutSize ==
  ASSUME MapTypeOK, NEW ks \in SUBSET Keys,
         \A k \in ks : m_map[k].kind = "tombstone",
         m_map' = [k \in Keys |-> IF k \in ks THEN Absent ELSE m_map[k]]
  PROVE  PresentKeys' = PresentKeys
<1>1. \A k \in Keys : Present(k)' <=> Present(k)
  BY Zenon DEF Present
<1>2. ASSUME NEW j
      PROVE  /\ j \in PresentKeys' <=> j \in Keys /\ Present(j)'
             /\ j \in PresentKeys <=> j \in Keys /\ Present(j)
  BY Zenon DEF PresentKeys
<1> QED
  BY <1>1, <1>2, Zenon

LEMMA SameCount ==
  ASSUME SizeInv, PresentKeys' = PresentKeys, NoSizeChange, UNCHANGED m_size
  PROVE  SizeInv'
BY Zenon DEF SizeInv, NoSizeChange

(* A thread makes its update of m_size, which may wrap around.             *)
LEMMA CounterStep ==
  ASSUME IndInv, IsFiniteSet(Keys), SizeInv, SizeInc \/ SizeDec
  PROVE  SizeInv'
<1>1. PICK q \in Int : m_size + pendingInc - pendingDec
                         = Cardinality(PresentKeys) + q * SizeModulus
  BY DEF SizeInv
<1>2. Cardinality(PresentKeys) \in Nat
  <2>1. IsFiniteSet(PresentKeys)
    BY FS_Subset, Zenon DEF PresentKeys
  <2> QED
    BY <2>1, FS_CardinalityType, Zenon
<1>3. /\ m_size \in 0..(SizeModulus - 1)
      /\ pendingInc \in Nat
      /\ pendingDec \in Nat
      /\ SizeModulus \in Nat \ {0}
  BY EntriesAssumption, Zenon DEF IndInv, TypeOK
<1>4. PresentKeys' = PresentKeys
  BY SamePresent, Zenon DEF SizeInc, SizeDec
<1> DEFINE c == Cardinality(PresentKeys)
<1>5. c' = c /\ c \in Nat
  BY <1>2, <1>4, Zenon
<1> HIDE DEF c
<1>6. m_size + pendingInc - pendingDec = c + q * SizeModulus
  BY <1>1 DEF c
<1>7. /\ (q - 1) * SizeModulus = q * SizeModulus - SizeModulus
      /\ (q + 1) * SizeModulus = q * SizeModulus + SizeModulus
      /\ q * SizeModulus \in Int
      /\ q - 1 \in Int /\ q + 1 \in Int
  BY <1>3
<1>8. CASE SizeInc
  <2>1. m_size' + pendingInc' - pendingDec'
          = ((m_size + 1) % SizeModulus) + (pendingInc - 1) - pendingDec
    BY <1>8 DEF SizeInc
  <2>2. CASE m_size + 1 < SizeModulus
    <3>1. (m_size + 1) % SizeModulus = m_size + 1
      BY <1>3, <2>2, SmallMod
    <3>2. m_size' + pendingInc' - pendingDec' = c' + q * SizeModulus
      BY <1>3, <1>5, <1>6, <2>1, <3>1
    <3> QED
      BY <3>2, Zenon DEF SizeInv, c
  <2>3. CASE ~(m_size + 1 < SizeModulus)
    <3>1. (m_size + 1) % SizeModulus = 0
      <4>1. m_size + 1 = 0 + 1 * SizeModulus
        BY <1>3, <2>3
      <4>2. 0 % SizeModulus = 0
        BY <1>3, SmallMod
      <4> QED
        BY <1>3, <4>1, <4>2, Congruent
    <3>2. m_size' + pendingInc' - pendingDec' = c' + (q - 1) * SizeModulus
      BY <1>3, <1>5, <1>6, <1>7, <2>1, <2>3, <3>1
    <3> QED
      BY <1>7, <3>2, Zenon DEF SizeInv, c
  <2> QED
    BY <2>2, <2>3, Zenon
<1>9. CASE SizeDec
  <2>1. m_size' + pendingInc' - pendingDec'
          = ((m_size - 1) % SizeModulus) + pendingInc - (pendingDec - 1)
    BY <1>9 DEF SizeDec
  <2>2. CASE m_size # 0
    <3>1. (m_size - 1) % SizeModulus = m_size - 1
      BY <1>3, <2>2, SmallMod
    <3>2. m_size' + pendingInc' - pendingDec' = c' + q * SizeModulus
      BY <1>3, <1>5, <1>6, <2>1, <3>1
    <3> QED
      BY <3>2, Zenon DEF SizeInv, c
  <2>3. CASE m_size = 0
    <3>1. (m_size - 1) % SizeModulus = SizeModulus - 1
      <4>1. (0 - 1) % SizeModulus = SizeModulus - 1
        BY <1>3, BelowZeroMod, Zenon
      <4> QED
        BY <2>3, <4>1, Zenon
    <3>2. m_size' + pendingInc' - pendingDec' = c' + (q + 1) * SizeModulus
      BY <1>3, <1>5, <1>6, <1>7, <2>1, <2>3, <3>1
    <3> QED
      BY <1>7, <3>2, Zenon DEF SizeInv, c
  <2> QED
    BY <2>2, <2>3, Zenon
<1> QED
  BY <1>8, <1>9, Zenon

LEMMA SizeStep ==
  ASSUME CountsKept, IndInv, ListInv, DeltaInv, SizeInv, [Next]_vars, ~clearing
  PROVE  SizeInv' /\ ~clearing'
<1>1. /\ "clear" \notin EnabledOps /\ "reapKeys" \notin EnabledOps
      /\ IsFiniteSet(Keys) /\ MapTypeOK
  BY IndInvParts, Zenon DEF CountsKept, MapInv
<1>2. ASSUME NEW k \in Keys, SizeOp(k), UNCHANGED m_size
      PROVE  SizeInv'
  BY <1>1, <1>2, SizeOpKeepsCount, Zenon
<1>3. CASE ServerStep
  <2>1. SizeInv'
    BY <1>2, <1>3, ServerSize, Zenon DEF ServerStep
  <2>2. UNCHANGED clearing
    BY <1>3, Zenon DEF ServerStep, PutEvent, CreateReply, DeltaEvent,
       InvalidateEvent, DestroyNotification, DestroyReply, others
  <2> QED
    BY <2>1, <2>2, Zenon
<1>4. CASE LocalStep
  <2>1. PICK k \in Keys :
          LocalPut(k) \/ LocalCreate(k) \/ LocalInvalidate(k) \/ LocalDestroy(k)
    BY <1>1, <1>4, Zenon DEF LocalStep, ClearMap
  <2>2. UNCHANGED clearing
    BY <2>1, Zenon DEF LocalPut, LocalCreate, LocalInvalidate, LocalDestroy, others
  <2> QED
    BY <1>2, <2>1, <2>2, LocalSize, Zenon
<1>5. CASE ReapStep
  <2>1. PICK gc \in GcVersions : ReapVersions(gc)
    BY <1>1, <1>5, Zenon DEF ReapStep, ReapKeys
  <2> DEFINE ks == {k \in Keys :
                      /\ tombstones[k] # NoTask
                      /\ tasks[tombstones[k]].stamp.mem \in DOMAIN gc
                      /\ gc[tasks[tombstones[k]].stamp.mem]
                           >= tasks[tombstones[k]].stamp.rv}
  <2>2. /\ m_map' = [k \in Keys |-> IF k \in ks THEN Absent ELSE m_map[k]]
        /\ NoSizeChange /\ UNCHANGED m_size /\ UNCHANGED clearing
    BY <2>1, Zenon DEF ReapVersions, remove_entries, others
  <2>3. ks \in SUBSET Keys /\ \A k \in ks : m_map[k].kind = "tombstone"
    BY Zenon DEF ListInv, OnlyTombstonesListed
  <2> HIDE DEF ks
  <2>4. PresentKeys' = PresentKeys
    BY <1>1, <2>2, <2>3, TombstonesOutSize, Zenon
  <2> QED
    BY <2>2, <2>4, SameCount, Zenon
<1>6. CASE ThreadStep
  <2>1. ASSUME NEW e \in fetching, FullObject(e)
        PROVE  SizeInv' /\ UNCHANGED clearing
    <3>1. e \in history /\ UNCHANGED clearing
      BY <2>1, Zenon DEF IndInv, TypeOK, FullObject, others
    <3> QED
      BY <1>2, <2>1, <3>1, ServerSize, Zenon
  <2>2. ASSUME NEW id \in TaskIds, Expire(id)
        PROVE  SizeInv' /\ UNCHANGED clearing
    <3>1. NoSizeChange /\ UNCHANGED m_size /\ UNCHANGED clearing
      BY <2>2, Zenon DEF Expire, others
    <3>2. PresentKeys' = PresentKeys
      <4>1. CASE tasks[id].valid /\ tombstones[tasks[id].key] # NoTask
        <5> DEFINE k == tasks[id].key
        <5>1. m_map' = [m_map EXCEPT ![k] = Absent]
          BY <2>2, <4>1, Zenon DEF Expire
        <5>2. k \in Keys /\ m_map[k].kind = "tombstone"
          BY <4>1, Zenon DEF ListInv, ValidListed, OnlyTombstonesListed
        <5> HIDE DEF k
        <5>3. m_map' = [j \in Keys |-> IF j \in {k} THEN Absent ELSE m_map[j]]
          BY <1>1, <5>1, <5>2, Zenon DEF MapTypeOK
        <5>4. {k} \in SUBSET Keys /\ \A j \in {k} : m_map[j].kind = "tombstone"
          BY <5>2, Zenon
        <5> QED
          BY <1>1, <5>3, <5>4, TombstonesOutSize, Zenon
      <4>2. CASE ~(tasks[id].valid /\ tombstones[tasks[id].key] # NoTask)
        BY <2>2, <4>2, SamePresent, Zenon DEF Expire
      <4> QED
        BY <4>1, <4>2, Zenon
    <3> QED
      BY <3>1, <3>2, SameCount, Zenon
  <2>3. CASE SizeInc \/ SizeDec
    <3>1. SizeInv'
      BY <1>1, <2>3, CounterStep, Zenon
    <3>2. UNCHANGED clearing
      BY <2>3, Zenon DEF SizeInc, SizeDec
    <3> QED
      BY <3>1, <3>2, Zenon
  <2>4. ASSUME NEW id \in TaskIds, Dispatch(id)
        PROVE  SizeInv' /\ UNCHANGED clearing
    BY <2>4, SamePresent, SameCount, Zenon DEF Dispatch, others, NoSizeChange
  <2> QED
    BY <1>6, <2>1, <2>2, <2>3, <2>4, Zenon DEF ThreadStep, ClearSize
<1>7. CASE UNCHANGED vars
  BY <1>7, SamePresent, SameCount, Zenon DEF vars, NoSizeChange
<1> QED
  BY <1>3, <1>4, <1>5, <1>6, <1>7, Zenon DEF Next

(* Region::size is the number of keys getKeys returns once every thread    *)
(* has made its update of m_size, however inserts, destroys, expiries and  *)
(* the late updates interleave and even when the counter passes zero on    *)
(* the way, under the conditions of CountsKept.                            *)
THEOREM SizeIsExact ==
  ASSUME CountsKept
  PROVE  Spec => []SizeExact
<1>1. DeltasMeetValues /\ IsFiniteSet(Keys) /\ "clear" \notin EnabledOps
  BY Zenon DEF CountsKept
<1>2. Init => SizeInv /\ ~clearing
  <2>1. SUFFICES ASSUME Init PROVE SizeInv
    BY Zenon DEF Init
  <2>2. PresentKeys = {}
    <3>1. \A k \in Keys : m_map[k] = Absent
      BY <2>1, Zenon DEF Init
    <3> QED
      BY <3>1, Zenon DEF PresentKeys, Present
  <2>3. m_size + pendingInc - pendingDec
          = Cardinality(PresentKeys) + 0 * SizeModulus
    <3>1. Cardinality(PresentKeys) = 0
      BY <2>2, FS_EmptySet, Zenon
    <3>2. m_size = 0 /\ pendingInc = 0 /\ pendingDec = 0
      BY <2>1, Zenon DEF Init
    <3>3. 0 * SizeModulus = 0
      BY EntriesAssumption
    <3> QED
      BY <3>1, <3>2, <3>3
  <2> QED
    BY <2>3 DEF SizeInv
<1>3. IndInv /\ ListInv /\ DeltaInv /\ (SizeInv /\ ~clearing) /\ [Next]_vars
        => (SizeInv /\ ~clearing)'
  BY SizeStep, Zenon
<1>4. IndInv /\ SizeInv => SizeExact
  <2> SUFFICES ASSUME IndInv, SizeInv PROVE SizeExact
    BY Zenon
  <2>1. PICK q \in Int : m_size + pendingInc - pendingDec
                           = Cardinality(PresentKeys) + q * SizeModulus
    BY DEF SizeInv
  <2>2. IsFiniteSet(PresentKeys)
    BY <1>1, FS_Subset, Zenon DEF PresentKeys
  <2>3. Cardinality(PresentKeys) \in Int /\ SizeModulus \in Nat \ {0}
        /\ m_size + pendingInc - pendingDec \in Int
    BY <2>2, FS_CardinalityType, EntriesAssumption DEF IndInv, TypeOK
  <2>4. (m_size + pendingInc - pendingDec) % SizeModulus
          = Cardinality(PresentKeys) % SizeModulus
    BY <2>1, <2>3, Congruent, Zenon
  <2> QED
    BY <2>4, Zenon DEF SizeExact, PresentKeys
<1> QED
  BY <1>1, <1>2, <1>3, <1>4, SpecList, SpecDelta, PTL DEF Spec

-----------------------------------------------------------------------------
(* The versions above are never above the modulus.  Where they are,        *)
(* checkForConflict still orders the changes of an entry, for any window   *)
(* and modulus with room for two windows: the 0x10000 and 0x1000000 of     *)
(* VersionStamp.cpp among them.                                            *)

LEMMA RolloverNumbers ==
  /\ VersionModulus \in Nat /\ VersionModulus > 0
  /\ RolloverWindow \in Nat /\ RolloverWindow > 0 /\ RolloverBase \in Nat
  /\ Lateness \in Nat /\ MaxEpoch \in Nat
  /\ 2 * RolloverWindow < VersionModulus /\ VersionModulus <= RolloverBase
  /\ Lateness <= RolloverWindow
BY StampAssumption, RolloverAssumption

LEMMA ChangeFields ==
  ASSUME NEW c \in Changes
  PROVE  /\ Stamp(c).ver = c.ver /\ Stamp(c).mem = 1
         /\ Stamp(c) # NoVersion
         /\ c.ver \in Nat /\ c.ver < VersionModulus
         /\ c.epoch \in Nat /\ c.epoch <= MaxEpoch
<1>1. /\ c.ver \in Nat /\ c.ver < VersionModulus
      /\ c.epoch \in Nat /\ c.epoch <= MaxEpoch
  BY RolloverNumbers DEF Changes
<1>2. c.ver % VersionModulus = c.ver BY <1>1, RolloverNumbers
<1>3. Stamp(c) = [ver |-> c.ver, rv |-> 0, mem |-> 1]
  BY <1>2 DEF Stamp, setVersions
<1> QED BY <1>1, <1>3 DEF NoVersion

(* The check as a comparison of numbers.                                   *)
LEMMA CheckOfChanges ==
  ASSUME NEW a \in Changes, NEW b \in Changes, a.ver # 0
  PROVE  checkForConflict(Stamp(a), Stamp(b)) <=>
           \/ b.ver - a.ver <= RolloverWindow /\ a.ver <= b.ver
           \/ a.ver - b.ver > RolloverWindow
<1> DEFINE s == Stamp(a)
           g == Stamp(b)
<1>1. /\ s.ver = a.ver /\ s.mem = 1 /\ s # NoVersion
      /\ g.ver = b.ver /\ g.mem = 1 /\ g # NoVersion
      /\ a.ver \in Nat /\ a.ver < VersionModulus
      /\ b.ver \in Nat /\ b.ver < VersionModulus
  BY ChangeFields
<1>2. checkForConflict(s, g)
        <=> StampVersion(s, g) <= TagVersion(s, g)
  <2>1. StampVersion(s, g) \in Nat /\ TagVersion(s, g) \in Nat
    BY <1>1, RolloverNumbers DEF StampVersion, TagVersion
  <2> QED BY <1>1, <2>1 DEF checkForConflict
<1> HIDE DEF s, g
<1>3. CASE b.ver - a.ver > RolloverWindow
  <2>1. StampVersion(s, g) = a.ver + RolloverBase /\ TagVersion(s, g) = b.ver
    BY <1>1, <1>3, RolloverNumbers DEF StampVersion, TagVersion, RolledOver
  <2> QED BY <1>1, <1>2, <1>3, <2>1, RolloverNumbers DEF s, g
<1>4. CASE a.ver - b.ver > RolloverWindow
  <2>1. StampVersion(s, g) = a.ver /\ TagVersion(s, g) = b.ver + RolloverBase
    BY <1>1, <1>4, RolloverNumbers DEF StampVersion, TagVersion, RolledOver
  <2> QED BY <1>1, <1>2, <1>4, <2>1, RolloverNumbers DEF s, g
<1>5. CASE /\ ~(b.ver - a.ver > RolloverWindow)
           /\ ~(a.ver - b.ver > RolloverWindow)
  <2>1. StampVersion(s, g) = a.ver /\ TagVersion(s, g) = b.ver
    BY <1>1, <1>5 DEF StampVersion, TagVersion, RolledOver
  <2> QED BY <1>1, <1>2, <1>5, <2>1, RolloverNumbers DEF s, g
<1> QED BY <1>3, <1>4, <1>5

(* The variables keep their types, and the entry holds a change that was   *)
(* made.                                                                   *)
RolloverInv == RolloverTypeOK /\ ~Before(latest, held)

LEMMA RolloverInvHolds ==
  RolloverSpec => []RolloverInv
<1>1. RolloverInit => RolloverInv
  BY RolloverNumbers
  DEF RolloverInit, RolloverInv, RolloverTypeOK, Changes, Before
<1>2. RolloverInv /\ [RolloverNext]_rolloverVars => RolloverInv'
  <2> SUFFICES ASSUME RolloverInv, [RolloverNext]_rolloverVars PROVE RolloverInv'
    OBVIOUS
  <2>1. CASE Change
    BY <2>1, RolloverNumbers
    DEF Change, RolloverInv, RolloverTypeOK, Changes, Before
  <2>2. ASSUME NEW c \in Changes, Deliver(c) PROVE RolloverInv'
    BY <2>2, RolloverNumbers
    DEF Deliver, RolloverInv, RolloverTypeOK, Changes, Before, Within
  <2>3. CASE UNCHANGED rolloverVars
    BY <2>3 DEF rolloverVars, RolloverInv, RolloverTypeOK, Before
  <2> QED BY <2>1, <2>2, <2>3 DEF RolloverNext
<1> QED BY <1>1, <1>2, PTL DEF RolloverSpec

(* Between changes at most a window apart checkForConflict decides as      *)
(* their order in the history does.                                        *)
THEOREM CheckFollowsHistory ==
  RolloverSpec => []CheckIsOrder
<1>1. RolloverTypeOK => CheckIsOrder
  <2> SUFFICES ASSUME RolloverTypeOK, NEW c \in Changes, held.ver # 0,
                      \/ Within(held, c, RolloverWindow)
                      \/ Within(c, held, RolloverWindow)
               PROVE  checkForConflict(Stamp(held), Stamp(c))
                        <=> ~Before(c, held)
    BY DEF CheckIsOrder
  <2>1. held \in Changes BY DEF RolloverTypeOK
  <2>2. /\ held.ver \in Nat /\ held.ver < VersionModulus /\ held.epoch \in Nat
        /\ c.ver \in Nat /\ c.ver < VersionModulus /\ c.epoch \in Nat
    BY <2>1, ChangeFields
  <2>3. checkForConflict(Stamp(held), Stamp(c)) <=>
          \/ c.ver - held.ver <= RolloverWindow /\ held.ver <= c.ver
          \/ held.ver - c.ver > RolloverWindow
    BY <2>1, CheckOfChanges
  <2> QED BY <2>2, <2>3, RolloverNumbers DEF Within, Before
<1>2. RolloverSpec => []RolloverTypeOK BY RolloverInvHolds, PTL DEF RolloverInv
<1> QED BY <1>1, <1>2, PTL

(* An entry never goes back to an older change when the versions start     *)
(* again, unless it holds version zero.                                    *)
THEOREM RolloverSound ==
  RolloverSpec => OrderAcrossRollover
<1>1. RolloverInv /\ [RolloverNext]_rolloverVars 
        => [held.ver # 0 => ~Before(held', held)]_rolloverVars
  <2> SUFFICES ASSUME RolloverInv, RolloverNext, held.ver # 0,
                      Before(held', held)
               PROVE  FALSE
    BY DEF rolloverVars, Before
  <2>1. held \in Changes /\ latest \in Changes
    BY DEF RolloverInv, RolloverTypeOK
  <2>2. ~Change
    BY <2>1, ChangeFields DEF Change, Before
  <2>3. PICK c \in Changes : Deliver(c) BY <2>2 DEF RolloverNext
  <2>4. /\ held.ver \in Nat /\ held.ver < VersionModulus /\ held.epoch \in Nat
        /\ latest.ver \in Nat /\ latest.ver < VersionModulus
        /\ latest.epoch \in Nat
        /\ c.ver \in Nat /\ c.ver < VersionModulus /\ c.epoch \in Nat
    BY <2>1, ChangeFields
  <2>5. \/ c.ver - held.ver <= RolloverWindow /\ held.ver <= c.ver
        \/ held.ver - c.ver > RolloverWindow
    BY <2>1, <2>3, CheckOfChanges DEF Deliver
  <2>6. /\ Before(c, held) /\ Within(c, latest, Lateness)
        /\ ~Before(latest, held)
    BY <2>3 DEF Deliver, RolloverInv
  <2> QED BY <2>4, <2>5, <2>6, RolloverNumbers DEF Before, Within
<1> QED BY <1>1, RolloverInvHolds, PTL DEF RolloverSpec, OrderAcrossRollover
=============================================================================
