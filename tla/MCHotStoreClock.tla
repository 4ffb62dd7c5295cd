--------------------------- MODULE MCHotStoreClock ---------------------------
(***************************************************************************)
(* Two sensors.  The readings of s1 are two bodies at one instant, then    *)
(* one a tick short of a Retention later and one exactly that.             *)
(***************************************************************************)
EXTENDS HotStoreClock

MCSensors == {"s1", "s2"}
MCBodies == {"x", "y"}
MCReadings ==
    [sensor : {"s1"}, ts : {0, 3, 4}, body : {"x"}]
      \union [sensor : {"s1"}, ts : {0}, body : {"y"}]
      \union [sensor : {"s2"}, ts : {0}, body : {"x"}]
=============================================================================
