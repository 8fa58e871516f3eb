---------------------------- MODULE MCDeviceAlerts ----------------------------
(***************************************************************************)
(* Instances of DeviceAlerts for TLC.                                      *)
(***************************************************************************)
EXTENDS DeviceAlerts

(* A rule with two tiers that leaves downloads out and counts unknown      *)
(* bytes, one about uploads with another cooldown, and one that happens to *)
(* have the name of the first.                                             *)
MCRules ==
  { [name |-> "video", metric |-> "", thresholds |-> {1, 2}, included |-> {},
     excluded |-> {"downloads"}, includeUnknown |-> TRUE, cooldown |-> 2],
    [name |-> "upload", metric |-> "upload", thresholds |-> {1}, included |-> {},
     excluded |-> {}, includeUnknown |-> FALSE, cooldown |-> 1],
    [name |-> "video", metric |-> "unknown", thresholds |-> {1}, included |-> {},
     excluded |-> {}, includeUnknown |-> FALSE, cooldown |-> 1] }
=============================================================================
