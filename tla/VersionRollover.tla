-------------------------- MODULE VersionRollover --------------------------
(***************************************************************************)
(* The version of an entry has 24 bits and starts again at zero when they  *)
(* are used up.  checkForConflict takes the smaller of two versions that   *)
(* are more than a window apart for the one that has rolled over           *)
(* (VersionStamp.cpp).  VersionedEntries compares versions as if they      *)
(* never rolled over; this module justifies that, and shows its limits.    *)
(*                                                                         *)
(* A change is known to the servers by its epoch, the number of times its  *)
(* version started again, and its version; only the version is sent.  One  *)
(* server makes changes of one key, which reach the client at most         *)
(* Lateness changes late, in any order and more than once.                 *)
(***************************************************************************)
EXTENDS VersionStamp

CONSTANTS Lateness,   \* bound: how far behind the latest a delivered change is
          MaxEpoch    \* bound: times the version starts again

ASSUME RolloverAssumption ==
  /\ 1 \in Members
  /\ Lateness \in Nat
  /\ Lateness <= RolloverWindow
  /\ 2 * RolloverWindow < VersionModulus
  /\ MaxEpoch \in Nat

VARIABLES latest,  \* the last change of the server
          held     \* the change the entry holds; its stamp keeps the version

rolloverVars == <<latest, held>>

Changes == [epoch : 0..MaxEpoch, ver : 0..(VersionModulus - 1)]

(* The order of changes in the history of the key, and how far apart they  *)
(* are: b is a or follows it by at most k changes.                         *)
Before(a, b) == a.epoch < b.epoch \/ (a.epoch = b.epoch /\ a.ver < b.ver)

Within(a, b, k) ==
  \/ a.epoch = b.epoch /\ a.ver <= b.ver /\ b.ver - a.ver <= k
  \/ a.epoch + 1 = b.epoch /\ b.ver + VersionModulus - a.ver <= k

(* What the client sees of a change.                                       *)
Stamp(c) == setVersions([ver |-> c.ver, rv |-> 0, mem |-> 1])

(* The server counts on, from the last version to zero.                    *)
Change ==
  /\ \/ /\ latest.ver + 1 < VersionModulus
        /\ latest' = [latest EXCEPT !.ver = @ + 1]
     \/ /\ latest.ver + 1 = VersionModulus
        /\ latest.epoch < MaxEpoch
        /\ latest' = [epoch |-> latest.epoch + 1, ver |-> 0]
  /\ UNCHANGED held

(* A change arrives and is applied unless the check refuses it.            *)
Deliver(c) ==
  /\ Within(c, latest, Lateness)
  /\ checkForConflict(Stamp(held), Stamp(c))
  /\ held' = c
  /\ UNCHANGED latest

(* The entry is created by the first change.                               *)
RolloverInit ==
  /\ latest = [epoch |-> 0, ver |-> 1]
  /\ held = latest

RolloverNext == Change \/ \E c \in Changes : Deliver(c)

RolloverSpec == RolloverInit /\ [][RolloverNext]_rolloverVars

-----------------------------------------------------------------------------
(* Properties.                                                             *)

(* Every variable has its type.                                            *)
RolloverTypeOK == latest \in Changes /\ held \in Changes

(* The entry never goes back to an older change, also when the version     *)
(* starts again between the two (checkForConflict: "check for int          *)
(* wraparound on the version number"), unless it holds version zero: such  *)
(* a stamp is taken for one that was never set, and accepts everything.    *)
OrderAcrossRollover ==
  [][held.ver # 0 => ~Before(held', held)]_rolloverVars

(* Between changes that are at most a window apart the check decides as    *)
(* their order in the history does: no older change is applied, and no     *)
(* newer one is refused.                                                   *)
CheckIsOrder ==
  \A c \in Changes :
    (/\ held.ver # 0
     /\ Within(held, c, RolloverWindow) \/ Within(c, held, RolloverWindow))
      => (checkForConflict(Stamp(held), Stamp(c)) <=> ~Before(c, held))
=============================================================================
