---------------------------- MODULE VersionStamp ----------------------------
(***************************************************************************)
(* The version stamp a cache entry carries when concurrency checks are     *)
(* enabled, the version tag an operation or event brings, and the check    *)
(* that decides whether the tag may be applied (VersionStamp.cpp).         *)
(*                                                                         *)
(* A stamp and a tag have the same shape: the entry version, the region    *)
(* version and the member that made the change.  Members are numbers so    *)
(* that < is the order of ClientProxyMembershipID::compareTo; 0 stands for *)
(* "no member" in a stamp that was never set.                              *)
(***************************************************************************)
EXTENDS Integers

CONSTANTS Members,         \* servers that stamp changes
          RolloverWindow,  \* 0x10000: a larger difference is a rollover
          RolloverBase,    \* 0x100000000: added to the side that rolled over
          VersionModulus   \* 0x1000000: a stamp keeps 24 bits of the version

ASSUME StampAssumption ==
  /\ Members \subseteq Nat \ {0}
  /\ RolloverWindow \in Nat \ {0}
  /\ VersionModulus \in Nat \ {0}
  /\ RolloverBase \in Nat
  /\ RolloverWindow < VersionModulus
  /\ VersionModulus <= RolloverBase

Stamps == [ver : Nat, rv : Nat, mem : Members \cup {0}]

(* A stamp that was never set, and a tag that is not available.            *)
NoVersion == [ver |-> 0, rv |-> 0, mem |-> 0]

(* setVersions: the entry version is kept in 16 + 8 bits.                  *)
setVersions(tag) == [tag EXCEPT !.ver = @ % VersionModulus]

(* The two versions that are compared: when they are more than the window  *)
(* apart, the smaller one is taken to have rolled over.  A stamp whose     *)
(* version is 0 is never adjusted.                                         *)
RolledOver(stamp, tag) ==
  /\ stamp.ver # 0
  /\ \/ tag.ver - stamp.ver > RolloverWindow
     \/ stamp.ver - tag.ver > RolloverWindow

(* Mutant: a stamp from before the rollover is compared as it is.          *)
StampVersionPlain(stamp, tag) == stamp.ver

StampVersion(stamp, tag) ==
  IF RolledOver(stamp, tag) /\ tag.ver > stamp.ver
  THEN stamp.ver + RolloverBase ELSE stamp.ver

(* Mutant: a tag that rolled over is compared as it is.                    *)
TagVersionPlain(stamp, tag) == tag.ver

TagVersion(stamp, tag) ==
  IF RolledOver(stamp, tag) /\ tag.ver < stamp.ver
  THEN tag.ver + RolloverBase ELSE tag.ver

(* Mutant: equal versions are not ordered by member.                       *)
checkForConflictNoMember(stamp, tag) ==
  \/ stamp = NoVersion
  \/ tag = NoVersion
  \/ stamp.ver = 0
  \/ StampVersion(stamp, tag) <= TagVersion(stamp, tag)

(* checkForConflict without the delta check: TRUE is GF_NOERR, FALSE is    *)
(* GF_CACHE_CONCURRENT_MODIFICATION_EXCEPTION.  Equal versions are ordered *)
(* by member; an equal stamp and tag are applied again.                    *)
checkForConflict(stamp, tag) ==
  \/ stamp = NoVersion
  \/ tag = NoVersion
  \/ stamp.ver = 0
  \/ StampVersion(stamp, tag) < TagVersion(stamp, tag)
  \/ /\ StampVersion(stamp, tag) = TagVersion(stamp, tag)
     /\ stamp.mem <= tag.mem

(* Mutant: the previous member is not compared.                            *)
checkForDeltaConflictNoMember(stamp, tag, previousMem) ==
  TagVersion(stamp, tag) = StampVersion(stamp, tag) + 1

(* checkForDeltaConflict: TRUE is GF_NOERR, FALSE is GF_INVALID_DELTA.     *)
(* A delta applies only to the version just before its own, written by the *)
(* member the tag names as the previous one.                               *)
checkForDeltaConflict(stamp, tag, previousMem) ==
  /\ TagVersion(stamp, tag) = StampVersion(stamp, tag) + 1
  /\ stamp.mem = previousMem

(* The same comparison on versions that have not rolled over: the order    *)
(* the check is meant to respect.                                          *)
Older(a, b) == a.ver < b.ver \/ (a.ver = b.ver /\ a.mem < b.mem)
=============================================================================
