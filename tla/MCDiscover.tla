------------------------------ MODULE MCDiscover ------------------------------
(* Small instances of Discover: a primary with a referral that refers back. *)
EXTENDS Discover, TLC

CONSTANTS w1, dc0, dc1, dc2, dc3, ioc

E(kind, to, epcsd_) == [kind |-> kind, to |-> to, epcsd |-> epcsd_]

(* dc0 refers to dc1, dc1 back to dc0 and on to dc2, dc2 back to dc1 and on *)
(* to dc3, which is excluded.  dc0 and dc1 have two pages; with the second  *)
(* one of dc0, dc2 is one level below dc0, with the first one it is two.    *)
MCPages ==
    (dc0 :> {<<E("self", dc0, TRUE), E("disc", dc1, TRUE), E("nvme", ioc, FALSE)>>,
             <<E("disc", dc2, FALSE), E("disc", dc1, FALSE)>>}
     @@ dc1 :> {<<E("disc", dc0, TRUE), E("disc", dc2, TRUE), E("self", dc1, FALSE)>>, <<>>}
     @@ dc2 :> {<<E("disc", dc1, TRUE), E("disc", dc3, TRUE)>>}
     @@ dc3 :> {<<E("self", dc0, TRUE)>>})

================================================================================
