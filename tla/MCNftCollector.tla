--------------------------- MODULE MCNftCollector ---------------------------
(***************************************************************************)
(* Instances of NftCollector for TLC.                                      *)
(***************************************************************************)
EXTENDS NftCollector

Packet(hook, v4, src, dst, iif, oif) ==
  [hook |-> hook, v4 |-> v4, src |-> src, dst |-> dst, iif |-> iif, oif |-> oif]

(* A download from the Internet, an upload to a LAN peer, a container's    *)
(* upload that is forwarded, a packet that turns around on the interface,  *)
(* and an IPv6 download.                                                   *)
MCPackets ==
  { Packet("input", TRUE, "public", "private", TRUE, FALSE),
    Packet("output", TRUE, "private", "private", FALSE, TRUE),
    Packet("forward", TRUE, "private", "public", FALSE, TRUE),
    Packet("forward", TRUE, "private", "public", TRUE, TRUE),
    Packet("input", FALSE, "public", "private", TRUE, FALSE) }
=============================================================================
