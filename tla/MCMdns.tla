-------------------------------- MODULE MCMdns --------------------------------
(* Small instances of Mdns. *)
EXTENDS Mdns

CONSTANTS i1, tcp, udp, n1, e1, e2

MCAds == {{e1}, {e1, e2}}
================================================================================
