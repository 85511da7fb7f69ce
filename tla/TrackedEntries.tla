--------------------------- MODULE TrackedEntries ---------------------------
(***************************************************************************)
(* An entry of a caching region whose concurrency checks are disabled.     *)
(* There are no versions then.  An operation adds a tracker to the entry   *)
(* before it goes to the server and remembers the update counter; when the *)
(* reply is there, it changes the entry only if the counter is the same    *)
(* (MapEntryT, TrackedMapEntry, MapSegment, LocalRegion::updateNoThrow,    *)
(* getNoThrow and putAllNoThrow, ThinClientRegion::getAllNoThrow_remote).  *)
(*                                                                         *)
(* The keys of a map do not influence each other, so the module follows    *)
(* one.  Several threads of the application work on it while notifications *)
(* of other clients' changes arrive in the order the server made them; a   *)
(* server does not notify a client of its own changes.                     *)
(***************************************************************************)
EXTENDS Integers, Sequences, FiniteSets

CONSTANTS Threads,
          TrackMax, UpdateMax,  \* GF_TRACK_MAX 4 and GF_UPDATE_MAX 8
          Kinds,                \* operations the threads may use
          NoticeKinds,          \* changes other clients may make
          MaxStarts,            \* bound: operations started
          MaxChanges,           \* bound: changes made on the server
          SizeModulus           \* 2^32: m_size is an unsigned 32 bit counter

AllKinds == {"put", "putAll", "create", "get", "getAll", "destroy",
             "invalidate"}

ASSUME TrackedAssumption ==
  /\ TrackMax \in Nat \ {0}
  /\ UpdateMax \in Nat \ {0}
  /\ Kinds \subseteq AllKinds
  /\ NoticeKinds \subseteq {"value", "invalid", "absent"}
  /\ MaxStarts \in Nat
  /\ MaxChanges \in Nat
  /\ SizeModulus \in Nat \ {0}

VARIABLES entry,    \* the MapEntry of the key and its implementation object
          m_size,   \* ConcurrentEntriesMap::m_size, for this key
          op,       \* the operation of a thread
          server,   \* what the server holds for the key
          notices,  \* notifications on their way
          starts, changes

vars == <<entry, m_size, op, server, notices, starts, changes>>

-----------------------------------------------------------------------------
(* The entry.  "null" is the destroyed token of a placeholder, which reads *)
(* as no value.  trackers and updates are the tracking number and the      *)
(* update counter the entry in the map shows; once the entry is wrapped in *)
(* a TrackedMapEntry, implTrackers and implUpdates are those the wrapped   *)
(* object still has.                                                       *)

Contents == [kind : {"absent", "null", "value", "invalid"}, val : Nat]

Content(kind, val) == [kind |-> kind, val |-> val]

Gone == Content("absent", 0)

(* What a server holds for the key.                                        *)
Values == [kind : {"absent", "value", "invalid"}, val : Nat]

EntryStates == [is : Contents, trackers : Nat, updates : Nat,
                wrapped : BOOLEAN, implTrackers : Nat, implUpdates : Nat]

NewEntry(is) == [is |-> is, trackers |-> 0, updates |-> 0, wrapped |-> FALSE,
                 implTrackers |-> 0, implUpdates |-> 0]

Absent == NewEntry(Gone)

Placeholder == NewEntry(Content("null", 0))

(* What a reader of the entry finds.                                       *)
Shown(e) == IF e.is.kind = "null" THEN Gone ELSE e.is

(* TrackedMapEntry around e, with the given numbers.                       *)
Wrap(e, t, u) ==
  [e EXCEPT !.wrapped = TRUE, !.trackers = t, !.updates = u,
            !.implTrackers = e.trackers, !.implUpdates = e.updates]

(* addTracker, with the entry to be rebound where the code returns one.    *)
addTracker(e) ==
  IF e.wrapped \/ e.trackers < TrackMax
  THEN [e EXCEPT !.trackers = @ + 1]
  ELSE Wrap(e, e.trackers + 1, e.updates)

(* incrementUpdateCount; an entry that is not tracked does not count.      *)
incUpdateCount(e) ==
  CASE e.wrapped \/ (e.trackers > 0 /\ e.updates < UpdateMax) ->
         [e EXCEPT !.updates = @ + 1]
    [] ~e.wrapped /\ e.trackers = 0 -> e
    [] ~e.wrapped /\ e.trackers > 0 /\ e.updates >= UpdateMax ->
         Wrap(e, e.trackers, e.updates + 1)

(* The same on a copy of the pointer (MapSegment::invalidate): a wrapper   *)
(* is not put in the map.                                                  *)
incUpdateCountOfCopy(e) ==
  IF incUpdateCount(e).wrapped = e.wrapped THEN incUpdateCount(e) ELSE e

(* Both, as addTrackerForEntry does it: the increment goes to the entry    *)
(* that was found, not to the wrapper addTracker may have returned.        *)
trackAndCount(e) ==
  IF e.wrapped \/ e.trackers < TrackMax THEN incUpdateCount(addTracker(e))
  ELSE IF e.updates < UpdateMax
       THEN [addTracker(e) EXCEPT !.implUpdates = @ + 1]
       ELSE Wrap(e, e.trackers, e.updates + 1)

(* Mutant: the counter survives the last tracker.                          *)
removeTrackerKeepCount(e) ==
  IF e.trackers <= 1 /\ e.is.kind = "null" THEN Absent
  ELSE [e EXCEPT !.trackers = IF @ = 0 THEN 0 ELSE @ - 1]

(* Mutant: a placeholder stays.                                            *)
removeTrackerKeepEntry(e) ==
  IF e.trackers <= 1 /\ ~e.wrapped THEN NewEntry(e.is)
  ELSE [e EXCEPT !.trackers = IF @ = 0 THEN 0 ELSE @ - 1]

(* Mutant: an operation removes two trackers.                              *)
removeTrackerTwice(e) ==
  IF e.trackers > 2 THEN [e EXCEPT !.trackers = @ - 2]
  ELSE IF e.is.kind \in {"null", "absent"} THEN Absent
  ELSE NewEntry(e.is)

(* MapSegment::removeTrackerForEntry.  With the last tracker the counter   *)
(* is reset, a placeholder leaves the map and a wrapper is replaced by the *)
(* object it wraps.                                                        *)
removeTracker(e) ==
  IF e.trackers > 1 THEN [e EXCEPT !.trackers = @ - 1]
  ELSE IF e.is.kind \in {"null", "absent"} THEN Absent
  ELSE [NewEntry(e.is) EXCEPT
          !.trackers = IF e.wrapped THEN e.implTrackers ELSE 0,
          !.updates = IF e.wrapped THEN e.implUpdates ELSE 0]

-----------------------------------------------------------------------------
(* Operations of MapSegment and ConcurrentEntriesMap.  m_size is changed   *)
(* after the segment lock is released; without clear, which is not part of *)
(* this module, the order of those changes makes no difference.            *)

SizeUp == m_size' = (m_size + 1) % SizeModulus

SizeDown == m_size' = (m_size - 1) % SizeModulus

CountIfNew == IF entry.is.kind \in {"absent", "null"}
              THEN SizeUp ELSE UNCHANGED m_size

(* put or create by a notification or by an operation without tracker.     *)
putUntracked(is) ==
  /\ entry' = IF entry = Absent THEN NewEntry(is)
              ELSE incUpdateCount([entry EXCEPT !.is = is])
  /\ CountIfNew

(* Mutant: the counter is not compared.                                    *)
putTrackedAlways(is, count) ==
  IF entry = Absent THEN UNCHANGED <<entry, m_size>>
  ELSE /\ entry' = removeTracker([entry EXCEPT !.is = is])
       /\ CountIfNew

(* put with a tracker: an entry that is gone or has been updated since is  *)
(* left alone, but the tracker is removed.                                 *)
putTracked(is, count) ==
  CASE entry = Absent -> UNCHANGED <<entry, m_size>>
    [] entry # Absent /\ count = entry.updates ->
         /\ entry' = removeTracker([entry EXCEPT !.is = is])
         /\ CountIfNew
    [] entry # Absent /\ count # entry.updates ->
         /\ entry' = removeTracker(entry)
         /\ UNCHANGED m_size

put(is, count) == IF count < 0 THEN putUntracked(is) ELSE putTracked(is, count)

(* create: an entry with a value is an error, and its tracker stays.       *)
create(is, count) ==
  IF entry.is.kind \in {"value", "invalid"} THEN UNCHANGED <<entry, m_size>>
  ELSE put(is, count)

(* invalidate knows no tracker.                                            *)
invalidate ==
  /\ entry' = IF entry = Absent THEN Absent
              ELSE incUpdateCountOfCopy(
                     [entry EXCEPT !.is = Content("invalid", 0)])
  /\ UNCHANGED m_size

(* remove: the entry goes first, the counter is compared afterwards.       *)
remove(count) ==
  /\ entry' = Absent
  /\ IF entry # Absent /\ (count < 0 \/ count = entry.updates)
     THEN SizeDown ELSE UNCHANGED m_size

-----------------------------------------------------------------------------
(* Operations of the threads.                                              *)

Idle == [kind |-> "none", pc |-> "idle", count |-> -1, is |-> Gone,
         overtaken |-> FALSE]

Running == [kind : AllKinds, pc : {"missed", "tracked", "answered", "leaving"},
            count : Nat \cup {-1}, is : Values, overtaken : BOOLEAN]

OpStates == Running \cup {Idle}

Begun(kind, pc, count) ==
  [Idle EXCEPT !.kind = kind, !.pc = pc, !.count = count]

(* The operations that are under way when the entry is changed have been   *)
(* overtaken (ghost).                                                      *)
Overtake(ops) ==
  [t \in Threads |->
     IF ops[t].pc \in {"tracked", "answered"}
     THEN [ops[t] EXCEPT !.overtaken = TRUE] ELSE ops[t]]

Start == starts < MaxStarts /\ starts' = starts + 1

(* put, putAll, destroy and invalidate track the entry, and count as an    *)
(* update themselves.                                                      *)
StartUpdate(t, kind) ==
  /\ kind \in Kinds \cap {"put", "putAll", "destroy", "invalidate"}
  /\ op[t] = Idle
  /\ entry' = trackAndCount(IF entry = Absent THEN Placeholder ELSE entry)
  /\ op' = [op EXCEPT ![t] = Begun(kind, "tracked", entry.updates + 1)]
  /\ Start
  /\ UNCHANGED <<m_size, server, notices, changes>>

(* create fails on a value.  On a placeholder of another operation it goes *)
(* on without a tracker.                                                   *)
StartCreate(t) ==
  /\ "create" \in Kinds
  /\ op[t] = Idle
  /\ entry.is.kind \in {"absent", "null"}
  /\ IF entry = Absent
     THEN /\ entry' = trackAndCount(Placeholder)
          /\ op' = [op EXCEPT ![t] = Begun("create", "tracked", 1)]
     ELSE /\ op' = [op EXCEPT ![t] = Begun("create", "tracked", -1)]
          /\ UNCHANGED entry
  /\ Start
  /\ UNCHANGED <<m_size, server, notices, changes>>

(* get and getAll look into the map first ...                              *)
StartGet(t, kind) ==
  /\ kind \in Kinds \cap {"get", "getAll"}
  /\ op[t] = Idle
  /\ entry.is.kind # "value"
  /\ op' = [op EXCEPT ![t] = Begun(kind, "missed", -1)]
  /\ Start
  /\ UNCHANGED <<entry, m_size, server, notices, changes>>

(* ... and take the lock again to add the tracker.                         *)
TrackGet(t) ==
  /\ op[t].pc = "missed"
  /\ entry' = addTracker(IF entry = Absent THEN Placeholder ELSE entry)
  /\ op' = [op EXCEPT ![t].pc = "tracked", ![t].count = entry.updates]
  /\ UNCHANGED <<m_size, server, notices, starts, changes>>

(* The server carries out the request.                                     *)
Effect(t) ==
  CASE op[t].kind \in {"put", "putAll", "create"} ->
         Content("value", changes + 1)
    [] op[t].kind = "destroy" -> Gone
    [] op[t].kind = "invalidate" -> Content("invalid", 0)
    [] op[t].kind \in {"get", "getAll"} -> server

Serve(t) ==
  /\ op[t].kind \in {"destroy", "invalidate"} => server # Gone
  /\ server' = Effect(t)
  /\ IF op[t].kind \in {"get", "getAll"} THEN UNCHANGED changes
     ELSE changes < MaxChanges /\ changes' = changes + 1

Answer(t) ==
  /\ op[t].pc = "tracked"
  /\ Serve(t)
  /\ op' = [op EXCEPT ![t].pc = "answered", ![t].is = Effect(t)]
  /\ UNCHANGED <<entry, m_size, notices, starts>>

(* The request fails, whether or not the server carried it out.            *)
Fail(t) ==
  /\ op[t].pc = "tracked"
  /\ Serve(t) \/ UNCHANGED <<server, changes>>
  /\ entry' = IF op[t].count >= 0 THEN removeTracker(entry) ELSE entry
  /\ op' = [op EXCEPT ![t] = Idle]
  /\ UNCHANGED <<m_size, notices, starts>>

(* A part of the reply to getAll: what the server holds, or no value, for  *)
(* an invalid entry and for an exception.                                  *)
readObjectPart(is) ==
  {Content("null", 0)} \cup (IF is.kind = "invalid" THEN {} ELSE {is})

(* getAll stores every part but those of keys the server does not know,    *)
(* without looking at the counter; one without a value makes the entry a   *)
(* placeholder, or adds one.                                               *)
fromData(is) ==
  \E part \in readObjectPart(is) :
    IF part = Gone THEN UNCHANGED <<entry, m_size>> ELSE put(part, -1)

(* The local part of the operation.                                        *)
Change(t) ==
  CASE op[t].kind \in {"put", "putAll"} -> put(op[t].is, op[t].count)
    [] op[t].kind = "create" -> create(op[t].is, op[t].count)
    [] op[t].kind = "get" ->
         IF op[t].is = Gone THEN UNCHANGED <<entry, m_size>>
         ELSE put(op[t].is, op[t].count)
    [] op[t].kind = "getAll" -> fromData(op[t].is)
    [] op[t].kind = "destroy" -> remove(op[t].count)
    [] op[t].kind = "invalidate" -> invalidate

LocalUpdate(t) ==
  /\ op[t].pc = "answered"
  /\ Change(t)
  /\ LET ended == [op EXCEPT ![t] =
                     IF op[t].kind \in {"get", "getAll", "putAll"}
                     THEN [Idle EXCEPT !.kind = op[t].kind, !.pc = "leaving"]
                     ELSE Idle]
     IN  op' = IF Shown(entry') # Shown(entry) THEN Overtake(ended) ELSE ended
  /\ UNCHANGED <<server, notices, starts, changes>>

(* get, getAll and putAll remove their tracker on the way out, whether or  *)
(* not the local update has removed it.                                    *)
Leave(t) ==
  /\ op[t].pc = "leaving"
  /\ entry' = removeTracker(entry)
  /\ op' = [op EXCEPT ![t] = Idle]
  /\ UNCHANGED <<m_size, server, notices, starts, changes>>

-----------------------------------------------------------------------------
(* Other clients.                                                          *)
OtherChange(kind) ==
  /\ kind \in NoticeKinds
  /\ kind # "value" => server # Gone
  /\ changes < MaxChanges
  /\ changes' = changes + 1
  /\ server' = IF kind = "value" THEN Content("value", changes + 1)
               ELSE Content(kind, 0)
  /\ notices' = Append(notices, server')
  /\ UNCHANGED <<entry, m_size, op, starts>>

Notify ==
  /\ notices # <<>>
  /\ notices' = Tail(notices)
  /\ CASE Head(notices).kind = "value" -> putUntracked(Head(notices))
       [] Head(notices).kind = "invalid" -> invalidate
       [] Head(notices).kind = "absent" -> remove(-1)
  /\ op' = Overtake(op)
  /\ UNCHANGED <<server, starts, changes>>

-----------------------------------------------------------------------------
Init ==
  /\ entry = Absent
  /\ m_size = 0
  /\ op = [t \in Threads |-> Idle]
  /\ server = Gone
  /\ notices = <<>>
  /\ starts = 0
  /\ changes = 0

ThreadStep(t) ==
  \/ \E kind \in Kinds : StartUpdate(t, kind) \/ StartGet(t, kind)
  \/ StartCreate(t)
  \/ TrackGet(t) \/ Answer(t) \/ Fail(t) \/ LocalUpdate(t) \/ Leave(t)

Next ==
  \/ \E t \in Threads : ThreadStep(t)
  \/ \E kind \in NoticeKinds : OtherChange(kind)
  \/ Notify

Spec == Init /\ [][Next]_vars

-----------------------------------------------------------------------------
(* Properties.                                                             *)

(* Every variable has its type.                                            *)
TypeOK ==
  /\ entry \in EntryStates
  /\ m_size \in 0..(SizeModulus - 1)
  /\ op \in [Threads -> OpStates]
  /\ server \in Values
  /\ notices \in Seq(Values)
  /\ starts \in 0..MaxStarts
  /\ changes \in 0..MaxChanges

(* An operation whose entry was changed, by a notification or by another   *)
(* thread, while it was at the server does not store its own value over    *)
(* that change (the purpose of the trackers in MapEntryT.hpp and in        *)
(* LocalRegion::updateNoThrow).                                            *)
UpdatesKept ==
  [][\A t \in Threads :
       (LocalUpdate(t) /\ op[t].overtaken /\ entry'.is.kind = "value")
         => entry'.is = entry.is]_vars

(* Once the entry holds the newest value and every notification has been   *)
(* applied, no operation that was at the server meanwhile puts an older    *)
(* value over it ("particularly the notifications", MapEntryT.hpp:69).     *)
NoticesKept ==
  [][\A t \in Threads :
       (LocalUpdate(t) /\ notices = <<>> /\ entry.is = server
          /\ entry'.is.kind = "value")
         => entry'.is = entry.is]_vars

(* The conditions under which trackers do what they are for: puts and      *)
(* creates, notifications of updates, and no more operations at a time     *)
(* than GF_TRACK_MAX.  A create that finds a value leaves its tracker      *)
(* behind, so that with creates the limit is reached one thread earlier.   *)
(* README.md says what happens without them.                               *)
TrackingSafe ==
  /\ Kinds \subseteq {"put", "create"}
  /\ NoticeKinds \subseteq {"value"}
  /\ IsFiniteSet(Threads)
  /\ Cardinality(Threads) <= TrackMax
  /\ "create" \in Kinds => Cardinality(Threads) < TrackMax

(* When nothing tracks an entry its update counter is zero, so that a new  *)
(* tracker does not see the updates of an earlier one.                     *)
CounterReset == entry.trackers = 0 => entry.updates = 0

(* An entry without a value is in the map only while it is tracked, or     *)
(* while an operation is about to remove its tracker and the entry with    *)
(* it: a get or an update that fails and a getAll whose entry vanished     *)
(* leave none behind.                                                      *)
PlaceholderTracked ==
  entry.is.kind = "null" =>
    entry.trackers > 0 \/ \E t \in Threads : op[t].pc = "leaving"

(* No tracker of an operation under way is lost: as long as it runs,       *)
(* updates are counted.                                                    *)
TrackersCover ==
  Cardinality({t \in Threads : op[t].pc \in {"tracked", "answered"}
                               /\ op[t].count >= 0}) <= entry.trackers
=============================================================================
