--------------------------- MODULE MCHotStoreScan ---------------------------
(***************************************************************************)
(* One sensor with five readings, two of them at one instant.  The latest  *)
(* is two retention periods after the first, so that one reading can evict *)
(* several while the client is between two pages.  Another sensor has one. *)
(***************************************************************************)
EXTENDS HotStoreScan

MCSensors == {"s1", "s2"}
MCBodies == {"x", "y"}
MCReadings ==
    [sensor : {"s1"}, ts : {0, 1, 2, 4}, body : {"x"}]
      \union [sensor : {"s1"}, ts : {1}, body : {"y"}]
      \union [sensor : {"s2"}, ts : {3}, body : {"x"}]
MCMemberRank == [b \in MCBodies |-> IF b = "x" THEN 0 ELSE 1]
=============================================================================
