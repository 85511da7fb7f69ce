-------------------------- MODULE VersionedEntries --------------------------
(***************************************************************************)
(* The entries of a caching region whose concurrency checks are enabled    *)
(* (the default): MapSegment and ConcurrentEntriesMap with version stamps, *)
(* the TombstoneList and its expiry tasks.                                 *)
(*                                                                         *)
(* Every operation takes the segment's spin lock and is one action.  What  *)
(* happens outside the lock is a step of its own: the entry counter m_size *)
(* of ConcurrentEntriesMap, the request for a full object after a delta    *)
(* that cannot be applied, and the expiry thread, which leaves the timer   *)
(* first and asks for the lock later.                                      *)
(*                                                                         *)
(* The servers stamp every change of a key.  The changes of one run are a  *)
(* history, chosen at the start; a change reaches the client as a          *)
(* notification, as the reply to an operation of its own or as the reply   *)
(* to a get, so in any order and more than once.                           *)
(***************************************************************************)
EXTENDS VersionStamp, FiniteSets

CONSTANTS Keys,
          Histories,     \* the sets of server changes a run may start with
          TaskIds,       \* bound: expiry tasks outstanding at a time
          MaxOps,        \* bound: operations and events in a run
          EnabledOps,    \* operations the application and servers may use
          SizeModulus    \* 2^32: m_size is an unsigned 32 bit counter

AllOps == {"create", "createNull", "destroyReply", "localPut",
           "localInvalidate", "localDestroy", "clear", "reapKeys",
           "reapVersions"}

Events == [key : Keys, ver : Nat \ {0}, rv : Nat \ {0}, mem : Members,
           prev : Members \cup {0},
           kind : {"put", "delta", "invalidate", "destroy"}]

(* A version tag as it arrives.                                            *)
Tag(e) == [ver |-> e.ver, rv |-> e.rv, mem |-> e.mem]

(* TombstoneList::exists is FALSE.                                         *)
NoTask == "notask"

(* Two changes of a key never carry the same tag, and a delta is sent only *)
(* for a change of a value.  Versions stay below the rollover, which       *)
(* VersionRollover covers.                                                 *)
ASSUME EntriesAssumption ==
  /\ EnabledOps \subseteq AllOps
  /\ MaxOps \in Nat
  /\ SizeModulus \in Nat \ {0}
  /\ NoTask \notin TaskIds
  /\ \A h \in Histories :
       /\ h \subseteq Events
       /\ \A e \in h : e.ver <= RolloverWindow
       /\ \A e, f \in h :
            e.key = f.key =>
              /\ (e.ver = f.ver /\ e.mem = f.mem) => e = f
              /\ (f.kind = "delta" /\ e.ver + 1 = f.ver /\ e.mem = f.prev)
                   => e.kind \in {"put", "delta"}

VARIABLES m_map,       \* MapSegment::m_map, per key
          tombstones,  \* TombstoneList::tombstones_: the task of a key's entry
          tasks,       \* the TombstoneEntry of a task and where the task is
          m_size,      \* ConcurrentEntriesMap::m_size
          pendingInc, pendingDec,  \* threads about to change m_size
          clearing,    \* a clear has emptied the segments, m_size comes next
          fetching,    \* deltas whose full object was asked for
          history,     \* the changes made on the servers
          seen,        \* ghost: tags that met the entry since it exists
          ops          \* operations and events so far

vars == <<m_map, tombstones, tasks, m_size, pendingInc, pendingDec, clearing,
          fetching, history, seen, ops>>

listVars == <<tombstones, tasks>>

-----------------------------------------------------------------------------
(* Entries.  origin tells what a value is made of: "server" for the result *)
(* of the change the stamp names, "local" for a local operation, "mixed"   *)
(* for a delta that was applied to anything but its base.                  *)

EntryKinds == {"absent", "value", "null", "invalid", "tombstone"}

Entries == [kind : EntryKinds, origin : {"server", "local", "mixed"},
            stamp : Stamps]

Entry(kind, origin, stamp) ==
  [kind |-> kind, origin |-> origin, stamp |-> stamp]

Absent == Entry("absent", "local", NoVersion)

(* What getKeys, getEntries and containsKey show: not a tombstone.         *)
Present(k) == m_map[k] # Absent /\ m_map[k].kind # "tombstone"

(* Expiry tasks of tombstones.  A task leaves "scheduled" when its timer   *)
(* fires; cancelling it has no effect any more then.                       *)
FreeTask == [key |-> "none", stamp |-> NoVersion, valid |-> FALSE,
             phase |-> "free"]

TaskRecords == [key : Keys, stamp : Stamps, valid : BOOLEAN,
                phase : {"scheduled", "dispatched"}]
               \cup [key : {"none"}, stamp : {NoVersion}, valid : {FALSE},
                     phase : {"free"}]

FreeIds == {id \in TaskIds : tasks[id] = FreeTask}

(* TombstoneList::erase on the task of a key: invalidate() and, unless the *)
(* task itself is running, ExpiryTaskManager::cancel.                      *)
InvalidatedTask(task, cancel) ==
  IF cancel /\ task.phase = "scheduled" THEN FreeTask
  ELSE [task EXCEPT !.valid = FALSE]

(* Mutant: the list is left alone.                                         *)
EraseNothing(ks, cancel) == UNCHANGED listVars

EraseAll(ks, cancel) ==
  /\ tombstones' = [k \in Keys |-> IF k \in ks THEN NoTask ELSE tombstones[k]]
  /\ tasks' = [id \in TaskIds |->
                 IF \E k \in ks : tombstones[k] = id
                 THEN InvalidatedTask(tasks[id], cancel) ELSE tasks[id]]

(* Mutant: the erase comes after the add.                                  *)
AddThenErase(k, stamp, erase) ==
  \E id \in FreeIds :
    /\ tombstones' = [tombstones EXCEPT ![k] = IF erase THEN NoTask ELSE id]
    /\ tasks' =
         [i \in TaskIds |->
            IF i = id /\ ~erase THEN [key |-> k, stamp |-> stamp, valid |-> TRUE,
                                     phase |-> "scheduled"]
            ELSE tasks[i]]

(* TombstoneList::add, after an erase of the same key where the code makes *)
(* one.  The new task is a free one.                                       *)
AddTombstone(k, stamp, erase) ==
  \E id \in FreeIds :
    /\ tombstones' = [tombstones EXCEPT ![k] = id]
    /\ tasks' =
         [i \in TaskIds |->
            IF i = id THEN [key |-> k, stamp |-> stamp, valid |-> TRUE,
                            phase |-> "scheduled"]
            ELSE IF erase /\ tombstones[k] = i
                 THEN InvalidatedTask(tasks[i], TRUE) ELSE tasks[i]]

-----------------------------------------------------------------------------
(* Helpers of the actions.                                                 *)

CountOp == ops < MaxOps /\ ops' = ops + 1

Inc(n) == pendingInc' = pendingInc + n /\ UNCHANGED pendingDec

Dec(n) == pendingDec' = pendingDec + n /\ UNCHANGED pendingInc

NoSizeChange == UNCHANGED <<pendingInc, pendingDec>>

(* The ghost records the tag of an event and forgets a key when its entry  *)
(* leaves the map.                                                         *)
Observe(e) ==
  seen' = [k \in Keys |-> IF m_map'[k] = Absent THEN {}
                          ELSE IF k = e.key THEN seen[k] \cup {Tag(e)}
                          ELSE seen[k]]

Forget ==
  seen' = [k \in Keys |-> IF m_map'[k] = Absent THEN {} ELSE seen[k]]

(* Mutant: the stamp of a replaced tombstone is not passed on.             *)
NewStampFromTag(k, tag) == setVersions(tag)

(* The stamp an operation leaves: that of the tag, or the old one when the *)
(* operation carries no tag.                                               *)
NewStamp(k, tag) ==
  IF tag = NoVersion THEN m_map[k].stamp ELSE setVersions(tag)

(* processVersionTag is called only for a tag that is there.               *)
Accepts(k, tag) == tag = NoVersion \/ checkForConflict(m_map[k].stamp, tag)

Effect(e) == CASE e.kind \in {"put", "delta"} -> "value"
               [] e.kind = "invalidate" -> "invalid"
               [] e.kind = "destroy" -> "tombstone"

-----------------------------------------------------------------------------
(* The operations of MapSegment, each with the change of m_size that       *)
(* ConcurrentEntriesMap makes after the lock is released.                  *)

Unchanged == UNCHANGED <<m_map, listVars>> /\ NoSizeChange

(* put without a delta; also the end of create.  A tombstone is replaced   *)
(* by a new entry.  The counter goes up when there was no value before.    *)
put(k, tag, kind, origin) ==
  \/ /\ ~Accepts(k, tag)
     /\ m_map[k] # Absent
     /\ Unchanged
  \/ /\ m_map[k] = Absent
     /\ m_map' = [m_map EXCEPT ![k] = Entry(kind, origin, NewStamp(k, tag))]
     /\ Inc(1)
     /\ UNCHANGED listVars
  \/ /\ m_map[k] # Absent
     /\ Accepts(k, tag)
     /\ m_map' = [m_map EXCEPT ![k] = Entry(kind, origin, NewStamp(k, tag))]
     /\ EraseAll({k}, TRUE)
     /\ IF m_map[k].kind \in {"tombstone", "null"}
        THEN Inc(1) ELSE NoSizeChange

(* create: an entry that has a value or is invalid stays as it is.         *)
create(k, tag, kind, origin) ==
  IF m_map[k].kind \in {"value", "invalid"} THEN Unchanged
  ELSE put(k, tag, kind, origin)

(* Mutant: isTokenAdded is not reported.                                   *)
invalidateUncounted(k, tag, origin) ==
  IF m_map[k].kind = "tombstone" \/ (m_map[k] # Absent /\ ~Accepts(k, tag))
  THEN Unchanged
  ELSE /\ m_map' =
            [m_map EXCEPT ![k] = Entry("invalid", origin, NewStamp(k, tag))]
       /\ NoSizeChange
       /\ UNCHANGED listVars

(* invalidate: on a tombstone nothing is recorded, on an absent key an     *)
(* invalid entry is added.                                                 *)
invalidate(k, tag, origin) ==
  IF m_map[k].kind = "tombstone" \/ (m_map[k] # Absent /\ ~Accepts(k, tag))
  THEN Unchanged
  ELSE /\ m_map' =
            [m_map EXCEPT ![k] = Entry("invalid", origin, NewStamp(k, tag))]
       /\ IF m_map[k] = Absent THEN Inc(1) ELSE NoSizeChange
       /\ UNCHANGED listVars

(* removeWhenConcurrencyEnabled: the entry becomes a tombstone, and so     *)
(* does an absent key if the server sent a version.                        *)
remove(k, tag, afterRemote, origin) ==
  \/ /\ \/ m_map[k] # Absent /\ ~Accepts(k, tag)
        \/ m_map[k] = Absent /\ tag = NoVersion
     /\ Unchanged
  \/ /\ m_map[k] # Absent
     /\ Accepts(k, tag)
     /\ m_map' =
          [m_map EXCEPT ![k] = Entry("tombstone", origin, NewStamp(k, tag))]
     /\ AddTombstone(k, NewStamp(k, tag), TRUE)
     /\ IF m_map[k].kind = "tombstone" /\ ~afterRemote
        THEN NoSizeChange ELSE Dec(1)
  \/ /\ m_map[k] = Absent
     /\ tag # NoVersion
     /\ m_map' =
          [m_map EXCEPT ![k] = Entry("tombstone", origin, NewStamp(k, tag))]
     /\ AddTombstone(k, NewStamp(k, tag), FALSE)
     /\ NoSizeChange

(* The delta of e can be applied: processVersionTag with the delta check,  *)
(* which a stamp that was never set passes, and a value to apply it to.  A *)
(* tombstone passes as well.                                               *)
DeltaApplies(k, e) ==
  /\ \/ m_map[k].stamp = NoVersion
     \/ checkForDeltaConflict(m_map[k].stamp, Tag(e), e.prev)
  /\ m_map[k].kind \in {"value", "tombstone"}

(* A value the delta was computed from.                                    *)
DeltaBase(k, e) ==
  /\ m_map[k].kind = "value"
  /\ m_map[k].origin = "server"
  /\ m_map[k].stamp.ver + 1 = e.ver
  /\ m_map[k].stamp.mem = e.prev

(* put with a delta that applies.  A tombstone is replaced by an entry     *)
(* with no value, since the delta was not decoded.                         *)
putDelta(k, e) ==
  /\ m_map' = [m_map EXCEPT ![k] =
       Entry(IF m_map[k].kind = "tombstone" THEN "null" ELSE "value",
             IF DeltaBase(k, e) THEN "server" ELSE "mixed",
             NewStamp(k, Tag(e)))]
  /\ EraseAll({k}, TRUE)
  /\ IF m_map[k].kind = "tombstone" THEN Inc(1) ELSE NoSizeChange

(* remove_entry: out of the tombstone list and out of the map.             *)
remove_entries(ks) ==
  /\ m_map' = [k \in Keys |-> IF k \in ks THEN Absent ELSE m_map[k]]
  /\ EraseAll(ks, TRUE)

-----------------------------------------------------------------------------
(* Events from the servers.                                                *)

others == <<m_size, clearing, history>>

(* An update notification, the reply to a put, or the reply to a get; a    *)
(* get of an invalidated entry returns the invalid token.                  *)
PutEvent(e) ==
  /\ Effect(e) # "tombstone"
  /\ put(e.key, Tag(e), Effect(e), "server")
  /\ Observe(e)
  /\ CountOp
  /\ UNCHANGED <<others, fetching>>

CreateReply(e) ==
  /\ "create" \in EnabledOps
  /\ e.kind = "put"
  /\ create(e.key, Tag(e), "value", "server")
  /\ Observe(e)
  /\ CountOp
  /\ UNCHANGED <<others, fetching>>

(* An update notification that carries only the delta.  When the delta     *)
(* does not apply the thread asks the server for the full object.          *)
DeltaEvent(e) ==
  /\ e.kind = "delta"
  /\ CountOp
  /\ UNCHANGED others
  /\ IF DeltaApplies(e.key, e)
     THEN /\ putDelta(e.key, e)
          /\ Observe(e)
          /\ UNCHANGED fetching
     ELSE /\ fetching' = fetching \cup {e}
          /\ UNCHANGED seen
          /\ Unchanged

FullObject(e) ==
  /\ e \in fetching
  /\ fetching' = fetching \ {e}
  /\ put(e.key, Tag(e), "value", "server")
  /\ Observe(e)
  /\ UNCHANGED <<others, ops>>

InvalidateEvent(e) ==
  /\ e.kind = "invalidate"
  /\ invalidate(e.key, Tag(e), "server")
  /\ Observe(e)
  /\ CountOp
  /\ UNCHANGED <<others, fetching>>

(* The notification of another client's destroy.                           *)
DestroyNotification(e) ==
  /\ e.kind = "destroy"
  /\ remove(e.key, Tag(e), FALSE, "server")
  /\ Observe(e)
  /\ CountOp
  /\ UNCHANGED <<others, fetching>>

(* The reply to this client's own destroy.                                 *)
DestroyReply(e) ==
  /\ "destroyReply" \in EnabledOps
  /\ e.kind = "destroy"
  /\ remove(e.key, Tag(e), TRUE, "server")
  /\ Observe(e)
  /\ CountOp
  /\ UNCHANGED <<others, fetching>>

-----------------------------------------------------------------------------
(* Local operations carry no version: the entry keeps its stamp.  create   *)
(* takes a null value as well.                                             *)

LocalPut(k) ==
  /\ "localPut" \in EnabledOps
  /\ put(k, NoVersion, "value", "local")
  /\ Forget
  /\ CountOp
  /\ UNCHANGED <<others, fetching>>

LocalCreate(k) ==
  /\ \/ "localPut" \in EnabledOps /\ create(k, NoVersion, "value", "local")
     \/ "createNull" \in EnabledOps /\ create(k, NoVersion, "null", "local")
  /\ Forget
  /\ CountOp
  /\ UNCHANGED <<others, fetching>>

(* localInvalidate, and invalidateInterestList after a failover.           *)
LocalInvalidate(k) ==
  /\ "localInvalidate" \in EnabledOps
  /\ invalidate(k, NoVersion, "local")
  /\ Forget
  /\ CountOp
  /\ UNCHANGED <<others, fetching>>

(* localDestroy, eviction and entry expiration.                            *)
LocalDestroy(k) ==
  /\ "localDestroy" \in EnabledOps
  /\ remove(k, NoVersion, FALSE, "local")
  /\ Forget
  /\ CountOp
  /\ UNCHANGED <<others, fetching>>

(* clear empties the map of every segment and then sets m_size.  The       *)
(* tombstone list is left as it is.                                        *)
ClearMap ==
  /\ "clear" \in EnabledOps
  /\ ~clearing
  /\ clearing' = TRUE
  /\ m_map' = [k \in Keys |-> Absent]
  /\ seen' = [k \in Keys |-> {}]
  /\ CountOp
  /\ NoSizeChange
  /\ UNCHANGED <<listVars, m_size, history, fetching>>

ClearSize ==
  /\ clearing
  /\ clearing' = FALSE
  /\ m_size' = 0
  /\ NoSizeChange
  /\ UNCHANGED <<m_map, listVars, history, fetching, seen, ops>>

(* TOMBSTONE_OPERATION from a server: tombstones collected there, given by *)
(* the highest region version per member...                                *)
ReapVersions(gc) ==
  /\ "reapVersions" \in EnabledOps
  /\ remove_entries({k \in Keys :
       /\ tombstones[k] # NoTask
       /\ tasks[tombstones[k]].stamp.mem \in DOMAIN gc
       /\ gc[tasks[tombstones[k]].stamp.mem]
            >= tasks[tombstones[k]].stamp.rv})
  /\ Forget
  /\ CountOp
  /\ NoSizeChange
  /\ UNCHANGED <<others, fetching>>

(* ... or by key, for keys that were destroyed there.                      *)
ReapKeys(ks) ==
  /\ "reapKeys" \in EnabledOps
  /\ \A k \in ks : \E e \in history : e.key = k /\ e.kind = "destroy"
  /\ remove_entries(ks)
  /\ Forget
  /\ CountOp
  /\ NoSizeChange
  /\ UNCHANGED <<others, fetching>>

-----------------------------------------------------------------------------
(* Steps outside the lock.                                                 *)

SizeInc ==
  /\ pendingInc > 0
  /\ pendingInc' = pendingInc - 1
  /\ m_size' = (m_size + 1) % SizeModulus
  /\ UNCHANGED <<m_map, listVars, pendingDec, clearing, fetching, history,
                 seen, ops>>

SizeDec ==
  /\ pendingDec > 0
  /\ pendingDec' = pendingDec - 1
  /\ m_size' = (m_size - 1) % SizeModulus
  /\ UNCHANGED <<m_map, listVars, pendingInc, clearing, fetching, history,
                 seen, ops>>

(* ExpiryTask::on_callback: the timer fired and the task was not           *)
(* cancelled.                                                              *)
Dispatch(id) ==
  /\ tasks[id].phase = "scheduled"
  /\ tasks' = [tasks EXCEPT ![id].phase = "dispatched"]
  /\ UNCHANGED <<m_map, tombstones, others, pendingInc, pendingDec, fetching,
                 seen, ops>>

(* Mutant: the valid flag is not looked at.                                *)
ExpireUnchecked(id) ==
  /\ tasks[id].phase = "dispatched"
  /\ IF tombstones[tasks[id].key] # NoTask
     THEN LET k == tasks[id].key IN
          /\ m_map' = [m_map EXCEPT ![k] = Absent]
          /\ tombstones' = [tombstones EXCEPT ![k] = NoTask]
          /\ tasks' = [i \in TaskIds |->
               IF i = id THEN FreeTask
               ELSE IF tombstones[k] = i THEN InvalidatedTask(tasks[i], FALSE)
               ELSE tasks[i]]
     ELSE /\ tasks' = [tasks EXCEPT ![id] = FreeTask]
          /\ UNCHANGED <<m_map, tombstones>>
  /\ Forget
  /\ NoSizeChange
  /\ UNCHANGED <<others, fetching, ops>>

(* remove_tomb_entry under the lock.  The list is searched by key, so the  *)
(* tombstone that is taken out is the one the key has now.                 *)
Expire(id) ==
  /\ tasks[id].phase = "dispatched"
  /\ IF tasks[id].valid /\ tombstones[tasks[id].key] # NoTask
     THEN LET k == tasks[id].key IN
          /\ m_map' = [m_map EXCEPT ![k] = Absent]
          /\ tombstones' = [tombstones EXCEPT ![k] = NoTask]
          /\ tasks' = [i \in TaskIds |->
               IF i = id THEN FreeTask
               ELSE IF tombstones[k] = i THEN InvalidatedTask(tasks[i], FALSE)
               ELSE tasks[i]]
     ELSE /\ tasks' = [tasks EXCEPT ![id] = FreeTask]
          /\ UNCHANGED <<m_map, tombstones>>
  /\ Forget
  /\ NoSizeChange
  /\ UNCHANGED <<others, fetching, ops>>

-----------------------------------------------------------------------------
Init ==
  /\ m_map = [k \in Keys |-> Absent]
  /\ tombstones = [k \in Keys |-> NoTask]
  /\ tasks = [id \in TaskIds |-> FreeTask]
  /\ m_size = 0
  /\ pendingInc = 0
  /\ pendingDec = 0
  /\ clearing = FALSE
  /\ fetching = {}
  /\ history \in Histories
  /\ seen = [k \in Keys |-> {}]
  /\ ops = 0

(* The region versions a server may announce.                              *)
GcVersions == [Members -> {0} \cup {e.rv : e \in history}]

ServerStep ==
  \E e \in history :
    \/ PutEvent(e) \/ CreateReply(e) \/ DeltaEvent(e) \/ InvalidateEvent(e)
    \/ DestroyNotification(e) \/ DestroyReply(e)

LocalStep ==
  \/ \E k \in Keys : \/ LocalPut(k) \/ LocalCreate(k) \/ LocalInvalidate(k)
                     \/ LocalDestroy(k)
  \/ ClearMap

ReapStep ==
  \/ \E gc \in GcVersions : ReapVersions(gc)
  \/ \E ks \in SUBSET Keys : ReapKeys(ks)

ThreadStep ==
  \/ \E e \in fetching : FullObject(e)
  \/ ClearSize \/ SizeInc \/ SizeDec
  \/ \E id \in TaskIds : Dispatch(id) \/ Expire(id)

Next == ServerStep \/ LocalStep \/ ReapStep \/ ThreadStep

(* The expiry thread runs its timers as they fire.                         *)
Fairness == \A id \in TaskIds : WF_vars(Dispatch(id)) /\ WF_vars(Expire(id))

Spec == Init /\ [][Next]_vars /\ Fairness

-----------------------------------------------------------------------------
(* Properties.                                                             *)

(* Every variable has its type (m_size and the steps that are due to it    *)
(* are counters, a stamp is one a server gave or none at all).             *)
TypeOK ==
  /\ m_map \in [Keys -> Entries]
  /\ tombstones \in [Keys -> TaskIds \cup {NoTask}]
  /\ tasks \in [TaskIds -> TaskRecords]
  /\ m_size \in 0..(SizeModulus - 1)
  /\ pendingInc \in Nat
  /\ pendingDec \in Nat
  /\ clearing \in BOOLEAN
  /\ history \in Histories
  /\ fetching \subseteq history
  /\ seen \in [Keys -> SUBSET Stamps]
  /\ ops \in 0..MaxOps

(* No operation of MapSegment, whatever the order in which replies,        *)
(* notifications and local operations arrive, replaces an entry by one     *)
(* with an older stamp.                                                    *)
StampsNeverRegress ==
  [][\A k \in Keys :
       (m_map[k] # Absent /\ m_map'[k] # Absent)
         => ~Older(m_map'[k].stamp, m_map[k].stamp)]_vars

(* A tombstone is never left behind for good: the list knows it, and the   *)
(* task the list holds for it is that of this key, is outstanding, and     *)
(* will not find itself invalidated when it runs (TombstoneList::add and   *)
(* erase, remove_tomb_entry).                                              *)
TombstoneHasTask ==
  \A k \in Keys :
    m_map[k].kind = "tombstone" =>
      /\ tombstones[k] # NoTask
      /\ tasks[tombstones[k]].key = k
      /\ tasks[tombstones[k]].valid
      /\ tasks[tombstones[k]].phase # "free"

(* The map and the tombstone list agree: MapSegment::isTombstone returns   *)
(* GF_CACHE_ILLEGAL_STATE_EXCEPTION when they do not.                      *)
TombstoneListExact ==
  \A k \in Keys : m_map[k].kind = "tombstone" <=> tombstones[k] # NoTask

(* An entry that met changes of the servers, in any order, shows the       *)
(* newest of them: its stamp is the newest, and unless a local operation   *)
(* came after it, its contents are what that change made of the key.       *)
Converged ==
  \A k \in Keys :
    seen[k] # {} =>
      /\ \E e \in history :
           /\ e.key = k
           /\ m_map[k].stamp = Tag(e)
           /\ m_map[k].origin # "local" => m_map[k].kind = Effect(e)
      /\ \A t \in seen[k] : ~Older(m_map[k].stamp, t)

(* The conditions under which no version is lost: an invalidation can meet *)
(* a tombstone, the reply to a create can meet an entry, and a delta the   *)
(* tombstone of a local destroy; README.md says what happens then.         *)
VersionsKept ==
  /\ "create" \notin EnabledOps
  /\ \A h \in Histories : \A e \in h :
       /\ e.kind # "invalidate"
       /\ e.kind = "delta" => "localDestroy" \notin EnabledOps

(* The expiry of a tombstone takes out that tombstone and nothing else:    *)
(* not a value put since, not a tombstone added later, whose time has not  *)
(* come (TombstoneExpiryTask::on_expire racing the other operations).      *)
ExpiryTakesItsTombstone ==
  [][\A id \in TaskIds : Expire(id) =>
       \A k \in Keys :
         m_map'[k] # m_map[k] =>
           m_map[k].kind = "tombstone" /\ tombstones[k] = id]_vars

(* Once every thread has updated m_size, it is the number of keys that     *)
(* getKeys returns (Region::size).                                         *)
SizeExact ==
  (m_size + pendingInc - pendingDec) % SizeModulus
    = Cardinality({k \in Keys : Present(k)}) % SizeModulus

(* A delta only ever meets the value it was computed from; anything else   *)
(* makes MapSegment::put ask for the full object.                          *)
DeltaMeetsItsBase == \A k \in Keys : m_map[k].origin # "mixed"

(* A tombstone does not stay for ever: its task runs, or an operation      *)
(* replaces it.                                                            *)
TombstonesGo ==
  \A k \in Keys : m_map[k].kind = "tombstone" ~> m_map[k].kind # "tombstone"
=============================================================================
