---------------------------- MODULE MCManagement ----------------------------
(* Three disks.  Array 11 has a missing member and the nested array 12 and *)
(* is transformed into 13; 14 is an array of its own, too far back in the  *)
(* list for hpt_stop_tasks.                                                *)
EXTENDS Management

MCPhysical == <<1, 2, 3>>
MCMembers == 11 :> <<12, 0, 1>> @@ 12 :> <<2, 3>> @@ 13 :> <<1, 2>> @@ 14 :> <<3>>
MCTarget == 11 :> 13 @@ 12 :> 0 @@ 13 :> 0 @@ 14 :> 0
MCLogical == <<11, 2, 14>>
MCHere == {1, 2, 3, 11, 12, 13}
MCControllers == <<TRUE, FALSE>>
MCRunning ==
  {11 :> {"verify", "transform"} @@ 12 :> {"rebuild"} @@ 13 :> {} @@ 14 :> {"verify"},
   11 :> {"transform"} @@ 12 :> {} @@ 13 :> {} @@ 14 :> {}}

Raw == [type |-> "raw"]
MCVdevs == {[type |-> "array", of |-> <<[type |-> "partition", of |-> <<Raw>>]>>],
            [type |-> "array", of |-> <<Raw, Raw>>]}
=============================================================================
