------------------------------- MODULE MCLlrb -------------------------------
(***************************************************************************)
(* Llrb with one tree large enough for every case of a deletion, and a     *)
(* small one it is united with, copied to and compared with.               *)
(***************************************************************************)
EXTENDS Llrb

MCOwners == {"live_in", "live_out"}
MCKeys == 1 .. 7
MCValues == {"even", "odd"}
MCInserts == {<<k, IF k % 2 = 0 THEN "even" ELSE "odd">> : k \in MCKeys} \cup {<<4, "odd">>}
MCRoom == [live_in |-> 7, live_out |-> 2]
=============================================================================
