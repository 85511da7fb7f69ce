------------------------- MODULE MCVersionedEntries -------------------------
(* Small instances of VersionedEntries.                                    *)
EXTENDS VersionedEntries, TLC

CONSTANTS k1, k2

Change(k, v, rv, m, p, kind) ==
  [key |-> k, ver |-> v, rv |-> rv, mem |-> m, prev |-> p, kind |-> kind]

(* One key, changed twice by member 1 and concurrently by member 2, whose  *)
(* change wins and is followed by another.  A delta follows a value.       *)
Races(kinds) ==
  {h \in {{Change(k1, 1, 1, 1, 0, w), Change(k1, 2, 2, 1, 1, x),
           Change(k1, 2, 1, 2, 1, y), Change(k1, 3, 2, 2, 2, z)} :
            w \in kinds \ {"delta"}, x \in kinds, y \in kinds, z \in kinds} :
     \A e, f \in h :
       (f.kind = "delta" /\ e.ver + 1 = f.ver /\ e.mem = f.prev)
         => e.kind \in {"put", "delta"}}

AllRaces == Races({"put", "delta", "invalidate", "destroy"})

(* Without the last change.                                                *)
ShortRaces == {{e \in h : e.ver < 3} : h \in AllRaces}

(* The expiry tasks are interchangeable.                                   *)
TaskSymmetry == Permutations(TaskIds)

RacesNoInvalidate == Races({"put", "delta", "destroy"})
=============================================================================
