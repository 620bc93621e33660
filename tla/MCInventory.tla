------------------------------ MODULE MCInventory ------------------------------
(* Three DCs and one I/O controller: loops, and chains longer than the limit. *)
EXTENDS Inventory

CONSTANTS a, b, c, i

(* The DC a is configured by address, by name, or not at all. *)
MCConfs == {[num |-> {}, name |-> {}], [num |-> {a}, name |-> {}],
            [num |-> {}, name |-> {a, i}]}

(* Loops, chains of referrals, a diamond, and pages that list i. *)
MCPages == [d \in DC |-> {{}, {a}, {b}, {c}, {b, c}, {c, i}}]

================================================================================
