------------------------------- MODULE Inventory -------------------------------
(***************************************************************************)
(* The desired-connection set of nvme-discoverd (discoverd/src/inventory.c) *)
(*                                                                         *)
(* A transport identity (TID) is an element of DC (a discovery controller) *)
(* or of IOC (an I/O controller); tid_same() is equality.  A DC has a      *)
(* source when the firmware (Nbft), the fabrics configuration (cfg) or     *)
(* mDNS/FC (discovered) names it.  The Discovery Log Page of a DC lists    *)
(* I/O controllers and referrals to other DCs, which are desired too, as   *)
(* long as the DC that lists them is within MaxHops referrals of a source. *)
(*                                                                         *)
(* A configured address that is a host name is resolved by a worker while  *)
(* the event loop goes on: lookup[t] follows the name of connection t.     *)
(***************************************************************************)
EXTENDS Integers, Sequences, FiniteSets, SequencesExt

CONSTANTS
    DC,         \* discovery controllers
    IOC,        \* I/O controllers
    Nbft,       \* the TIDs of the firmware table, read once at startup
    MaxHops,    \* INVENTORY_MAX_REFERRAL_HOPS
    Pages,      \* Pages[d]: what the Discovery Log Page of d may list
    Confs,      \* the fabrics configurations an administrator may write
    None        \* no source, no parent

TID == DC \cup IOC

(* A configuration: connections with a numeric address and with a name.    *)
ASSUME InventoryAssumption ==
    /\ DC \cap IOC = {} /\ IsFiniteSet(DC) /\ IsFiniteSet(IOC)
    /\ None \notin TID /\ None \notin {"nbft", "config", "discovered", "dlp"}
    /\ Nbft \subseteq TID
    /\ MaxHops \in Nat
    /\ Confs \subseteq [num : SUBSET TID, name : SUBSET TID]
    /\ Pages \in [DC -> SUBSET SUBSET TID]
    /\ \A c \in Confs : c.num \cap c.name = {}

VARIABLES
    cfg,        \* cfg_dcs and cfg_iocs
    discovered, \* discovered_dcs
    cache,      \* the DCs in dlp_cache, the newest entry first
    dlp,        \* dlp[d]: what the last Discovery Log Page of d listed
    lookup,     \* the state of the name lookup of each connection
    nr_first    \* nr_first_lookups: first lookups that have not ended

inventory == <<cfg, discovered, cache, dlp, lookup, nr_first>>

(* The lookup of a name: none, its first query runs, a later query runs, or *)
(* it waits for its retry timer.                                            *)
LookupState == {"none", "first", "again", "wait"}

InventoryTypeOK ==
    /\ cfg \subseteq TID
    /\ discovered \subseteq DC
    /\ cache \in Seq(DC) /\ IsInjective(cache)
    /\ dlp \in [DC -> SUBSET TID]
    /\ lookup \in [TID -> LookupState]
    /\ nr_first \in 0..Cardinality(TID)

--------------------------------------------------------------------------------
(* Queries. *)

(* The DCs that have a source of their own. *)
Roots == {d \in DC : d \in Nbft \cup cfg \cup discovered}

MinOf(S) == CHOOSE n \in S : \A m \in S : n <= m

(* hops() when the budget is b: the fewest referrals from a source to each *)
(* DC, or -1.  The budget also ends a referral loop.                       *)
hops[b \in 0..MaxHops] ==
    [t \in DC |->
        LET via == {hops[b - 1][d] : d \in {d \in ToSet(cache) : t \in dlp[d]}}
            reached == {h \in via : h >= 0}
        IN  IF t \in Roots THEN 0
            ELSE IF b = 0 \/ reached = {} THEN -1 ELSE MinOf(reached) + 1]

(* hops() with a referral that forgets that it is one hop away. *)
referral_hops_Free(t) == IF hops[MaxHops][t] < 0 THEN -1 ELSE 0

referral_hops(t) == hops[MaxHops][t]

(* A cached page counts only while its DC is desired. *)
Listing(t) == {d \in ToSet(cache) : t \in dlp[d] /\ referral_hops(d) >= 0}

(* A cached page that counts although its DC lost its source. *)
is_desired_StalePage(t) ==
    \/ t \in IOC \cap (Nbft \cup cfg)
    \/ t \in DC /\ referral_hops(t) >= 0
    \/ t \in IOC /\ \E d \in ToSet(cache) : t \in dlp[d]

is_desired(t) ==
    \/ t \in IOC \cap (Nbft \cup cfg)
    \/ t \in DC /\ referral_hops(t) >= 0
    \/ t \in IOC /\ Listing(t) # {}

is_nbft(t) == t \in Nbft

(* A parent that lists t but lost its own source. *)
source_AnyPage(t) ==
    CASE t \in Nbft -> [source |-> "nbft", parent |-> None]
      [] t \in cfg \ Nbft -> [source |-> "config", parent |-> None]
      [] t \in discovered \ (Nbft \cup cfg) ->
            [source |-> "discovered", parent |-> None]
      [] t \notin Nbft \cup cfg \cup discovered /\ Listing(t) # {} ->
            [source |-> "dlp",
             parent |-> cache[SelectInSeq(cache, LAMBDA d : t \in dlp[d])]]
      [] OTHER -> [source |-> None, parent |-> None]

(* Why t is desired, and the DC that lists it: the first entry of the cache. *)
source(t) ==
    CASE t \in Nbft -> [source |-> "nbft", parent |-> None]
      [] t \in cfg \ Nbft -> [source |-> "config", parent |-> None]
      [] t \in discovered \ (Nbft \cup cfg) ->
            [source |-> "discovered", parent |-> None]
      [] t \notin Nbft \cup cfg \cup discovered /\ Listing(t) # {} ->
            [source |-> "dlp",
             parent |-> cache[SelectInSeq(cache, LAMBDA d : d \in Listing(t))]]
      [] OTHER -> [source |-> None, parent |-> None]

(* What connect_desired() connects: not what only a log page lists. *)
desired_dcs == Roots
desired_iocs == IOC \cap (Nbft \cup cfg)

config_pending == nr_first > 0

--------------------------------------------------------------------------------
(* Updates. *)

(* A log page that gets a new cache entry each time. *)
update_dlp_Duplicates(d, log) ==
    /\ cache' = <<d>> \o cache
    /\ dlp' = [dlp EXCEPT ![d] = log]
    /\ UNCHANGED <<cfg, discovered, lookup, nr_first>>

(* A new log page replaces the last one of its DC; a first one goes to the *)
(* head of dlp_cache.                                                      *)
update_dlp(d, log) ==
    /\ cache' = IF d \in ToSet(cache) THEN cache ELSE <<d>> \o cache
    /\ dlp' = [dlp EXCEPT ![d] = log]
    /\ UNCHANGED <<cfg, discovered, lookup, nr_first>>

add_discovered_dc(d) ==
    /\ discovered' = discovered \cup {d}
    /\ UNCHANGED <<cfg, cache, dlp, lookup, nr_first>>

(* Giving up on a DC drops its source and its cache entry. *)
forget_dc(d) ==
    /\ discovered' = discovered \ {d}
    /\ cache' = RemoveFirst(cache, d)
    /\ dlp' = [dlp EXCEPT ![d] = {}]
    /\ UNCHANGED <<cfg, lookup, nr_first>>

(* Loading a configuration without lookups_free(): the counter stays. *)
load_config_KeepsCount(c, failed) ==
    /\ cfg' = c.num
    /\ lookup' = [t \in TID |-> CASE t \in c.name \ failed -> "first"
                                  [] t \in c.name \cap failed -> "wait"
                                  [] OTHER -> "none"]
    /\ nr_first' = nr_first + Cardinality(c.name \ failed)

(* inventory_load_config(): every lookup of the previous configuration is  *)
(* cancelled, numeric addresses are added, and a lookup is started for     *)
(* each name.  One that cannot start (failed) is not a first lookup: the   *)
(* release pass does not wait for it.  The other sets are the caller's.    *)
load_config(c, failed) ==
    /\ cfg' = c.num
    /\ lookup' = [t \in TID |-> CASE t \in c.name \ failed -> "first"
                                  [] t \in c.name \cap failed -> "wait"
                                  [] OTHER -> "none"]
    /\ nr_first' = Cardinality(c.name \ failed)

(* on_lookup(): a resolved name adds its connection, a failed one waits.   *)
on_lookup(t, resolved) ==
    /\ lookup[t] \in {"first", "again"}
    /\ nr_first' = IF lookup[t] = "first" THEN nr_first - 1 ELSE nr_first
    /\ lookup' = [lookup EXCEPT ![t] = IF resolved THEN "none" ELSE "wait"]
    /\ cfg' = IF resolved THEN cfg \cup {t} ELSE cfg
    /\ UNCHANGED <<discovered, cache, dlp>>

(* retry_lookup(): a query that cannot start waits for the timer again. *)
retry_lookup(t) ==
    /\ lookup[t] = "wait"
    /\ lookup' = [lookup EXCEPT ![t] = "again"]
    /\ UNCHANGED <<cfg, discovered, cache, dlp, nr_first>>

--------------------------------------------------------------------------------
InventoryInit ==
    /\ cfg = {} /\ discovered = {}
    /\ cache = <<>> /\ dlp = [d \in DC |-> {}]
    /\ lookup = [t \in TID |-> "none"] /\ nr_first = 0

(* The inventory on its own: any caller, any log page of Pages. *)
InventoryNext ==
    \/ \E d \in DC : \E log \in Pages[d] : update_dlp(d, log)
    \/ \E d \in DC : add_discovered_dc(d)
    \/ \E d \in DC : forget_dc(d)
    \/ \E c \in Confs, failed \in SUBSET TID :
            /\ failed \subseteq c.name /\ load_config(c, failed)
            /\ UNCHANGED <<discovered, cache, dlp>>
    \/ \E t \in TID, resolved \in BOOLEAN : on_lookup(t, resolved)
    \/ \E t \in TID : retry_lookup(t)

InventorySpec == InventoryInit /\ [][InventoryNext]_inventory

--------------------------------------------------------------------------------
(* Properties. *)

(* A chain of n referrals leads from a DC with a source to t.  This is the *)
(* definition of reachability, without a budget and without recursion.     *)
Chain(t, n) ==
    \E p \in [0..n -> DC] :
        /\ p[0] \in Roots /\ p[n] = t
        /\ \A k \in 0..n-1 : p[k + 1] \in dlp[p[k]]

(* hops() with its budget finds the fewest referrals to every DC, and -1   *)
(* exactly for the DCs no chain within the limit reaches, whatever loops   *)
(* the log pages make (hops(), inventory_referral_hops()).                 *)
HopsAreShortest ==
    \A t \in DC :
        LET n == referral_hops(t) IN
        /\ n >= 0 => Chain(t, n)
        /\ \A m \in 0..MaxHops : Chain(t, m) => n >= 0 /\ n <= m

(* A TID is desired exactly when a source names it or a DC that a chain    *)
(* within the limit reaches lists it: nothing learned through a DC stays   *)
(* desired when that DC loses its source (inventory_is_desired()).         *)
DesiredByChain ==
    \A t \in TID :
        is_desired(t) <=>
            \/ t \in Nbft \cup cfg \cup discovered
            \/ t \in DC /\ \E n \in 0..MaxHops : Chain(t, n)
            \/ t \in IOC /\ \E d \in DC, n \in 0..MaxHops : Chain(d, n) /\ t \in dlp[d]

(* A desired TID has a source to write to the file of desired controllers, *)
(* and the DC recorded as its parent is desired itself and lists it: the   *)
(* saved line waits for a log page that will come (inventory_source()).    *)
SourceExplains ==
    \A t \in TID : is_desired(t) =>
        /\ source(t).source # None
        /\ source(t).source = "dlp" =>
                /\ is_desired(source(t).parent)
                /\ t \in dlp[source(t).parent]

(* nr_first_lookups is the number of first lookups that run, so a release  *)
(* pass waits exactly as long as a name has never been tried, and the      *)
(* unsigned counter never goes below zero (on_lookup(), lookups_free()).             *)
FirstLookupsCounted ==
    nr_first = Cardinality({t \in TID : lookup[t] = "first"})
================================================================================
