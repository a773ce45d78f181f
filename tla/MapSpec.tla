------------------------------ MODULE MapSpec ------------------------------
(***************************************************************************)
(* What the balanced trees of the JIT stand for: maps from keys to values. *)
(* A jitset (set.h) is a map whose keys are its elements, an rmap_t        *)
(* (rmap.h) maps virtual to hardware registers.  Llrb.tla is shown to      *)
(* implement it, by TLC and, for every constant, in LlrbProofs.tla, where  *)
(* the provers do not know the operators :> and @@ of the module TLC.      *)
(***************************************************************************)

CONSTANTS
  Owners,   \* the structures that hold a tree each
  Keys,
  Values

VARIABLE maps   \* maps[o] is the map of o

Single(k, v) == [j \in {k} |-> v]
\* f, and what g says of other keys.
Above(f, g) == [j \in DOMAIN f \cup DOMAIN g |-> IF j \in DOMAIN f THEN f[j] ELSE g[j]]
Without(f, k) == [j \in DOMAIN f \ {k} |-> f[j]]

SInit == maps = [o \in Owners |-> <<>>]

Change(o, f) == maps' = [maps EXCEPT ![o] = f]

SInsert(o, k, v) == Change(o, Above(Single(k, v), maps[o]))
SDelete(o, k) == Change(o, Without(maps[o], k))
\* What is in s as well wins.
SAddAll(o, s) == Change(o, Above(maps[s], maps[o]))
SClone(o, s) == Change(o, maps[s])
SFree(o) == Change(o, <<>>)

SNext ==
  \E o \in Owners :
    \/ \E k \in Keys, v \in Values : SInsert(o, k, v)
    \/ \E k \in Keys : SDelete(o, k)
    \/ \E s \in Owners : SAddAll(o, s) \/ SClone(o, s)
    \/ SFree(o)

SSpec == SInit /\ [][SNext]_maps
=============================================================================
