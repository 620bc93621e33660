----------------------------- MODULE DesiredProofs -----------------------------
(***************************************************************************)
(* Proofs about what the daemon tracks and saves (Desired)                 *)
(*                                                                         *)
(* Inv is the inductive invariant behind TypeOK and FileIsCurrent: the     *)
(* types, with InventoryInv and the fact that only a DC is ever saved as   *)
(* discovered (load_saved() puts those lines into discovered_dcs), and     *)
(* FileInv.  FileInv says of the moments between passes that the file has  *)
(* exactly the tracked controllers with e->desired set and the saved ones  *)
(* that wait, and that a source is known for each of the former: a line is *)
(* only written for a controller with a source, and a new source must not  *)
(* make a line due without a pass.                                         *)
(*                                                                         *)
(* TrackInv is the inductive invariant behind ConfiguredTracked, which     *)
(* holds under Steady.                                                     *)
(*                                                                         *)
(* StableInv is the one behind UnchangedReleasesNothing, which holds under *)
(* Unchanged.                                                              *)
(***************************************************************************)
EXTENDS Desired, InventoryProofs

(* The types of the daemon's own state. *)
DaemonType ==
    /\ phase \in {"down", "connect", "idle"}
    /\ ctrl \in [TID -> Ctrl \cup {None}]
    /\ pending \in BOOLEAN /\ check \in BOOLEAN
    /\ deferred \subseteq DC

(* The types of the disk's configuration and of the system. *)
SystemType ==
    /\ conf \in Confs /\ excluded \subseteq TID
    /\ unit \in [TID -> {"none", "starting", "active"}]
    /\ conn \subseteq TID /\ own \subseteq TID

(* The saved lines: only a DC is saved as discovered. *)
LineInv ==
    /\ saved \subseteq Line /\ file \subseteq Line
    /\ \A s \in file \cup saved : s.source = "discovered" => s.tid \in DC

(* The inductive part of the types. *)
TypeInv == InventoryInv /\ DaemonType /\ SystemType /\ LineInv

(* What inventory_source() returns, and when it returns a source. *)
LEMMA SourceShape ==
  ASSUME CacheInv, NEW t \in TID
  PROVE  /\ source(t).source \in {"nbft", "config", "discovered", "dlp", None}
         /\ source(t).parent \in DC \cup {None}
         /\ source(t).source = "discovered" => t \in DC
         /\ source(t).source # None <=>
                t \in Nbft \cup cfg \cup discovered \/ Listing(t) # {}
PROOF
  <1> DEFINE R(s, d) == [source |-> s, parent |-> d]
  <1>0. None \notin {"nbft", "config", "discovered", "dlp"} /\ discovered \subseteq DC
    BY InventoryAssumption DEF InventoryAssumption, CacheInv
  <1>1. CASE t \in Nbft
    <2>1. source(t) = R("nbft", None)
      BY <1>1, Zenon DEF source
    <2> QED
      BY <1>0, <1>1, <2>1
  <1>2. CASE t \in cfg \ Nbft
    <2>1. source(t) = R("config", None)
      BY <1>2, Zenon DEF source
    <2> QED
      BY <1>0, <1>2, <2>1
  <1>3. CASE t \in discovered \ (Nbft \cup cfg)
    <2>1. source(t) = R("discovered", None)
      BY <1>3, Zenon DEF source
    <2> QED
      BY <1>0, <1>3, <2>1
  <1>4. CASE t \notin Nbft \cup cfg \cup discovered /\ Listing(t) # {}
    <2> DEFINE d == cache[SelectInSeq(cache, LAMBDA e : e \in Listing(t))]
    <2>1. d \in Listing(t)
      BY <1>4, ListingParent
    <2>2. d \in DC
      BY <2>1, CachedAreDcs DEF Listing
    <2>3. source(t) = R("dlp", d)
      BY <1>4, Zenon DEF source
    <2> HIDE DEF d
    <2> QED
      BY <1>0, <1>4, <2>2, <2>3
  <1>5. CASE t \notin Nbft \cup cfg \cup discovered /\ Listing(t) = {}
    <2>1. source(t) = R(None, None)
      BY <1>5, Zenon DEF source
    <2> QED
      BY <1>0, <1>5, <2>1
  <1> QED
    BY <1>1, <1>2, <1>3, <1>4, <1>5

(* A source or a chain explains t: inventory_source() in terms of chains. *)
Known(t) ==
    \/ t \in Nbft \cup cfg \cup discovered
    \/ \E d \in DC, n \in 0..MaxHops : Chain(d, n) /\ t \in dlp[d]

(* inventory_source() has an answer exactly for the known TIDs. *)
LEMMA KnownHasSource ==
  CacheInv => \A t \in TID : source(t).source # None <=> Known(t)
PROOF
  <1> SUFFICES ASSUME CacheInv, NEW t \in TID
               PROVE  source(t).source # None <=> Known(t)
    OBVIOUS
  <1>1. Listing(t) # {} <=> \E d \in DC, n \in 0..MaxHops : Chain(d, n) /\ t \in dlp[d]
    BY CachedAreDcs, ReachedDcs DEF Listing
  <1> QED
    BY <1>1, SourceShape DEF Known

(* save_desired() writes one line for each wanted controller with a source. *)
LEMMA LinesShape ==
  ASSUME CacheInv, NEW c
  PROVE  /\ Lines(c) \subseteq Line
         /\ \A s \in Lines(c) : s.source = "discovered" => s.tid \in DC
         /\ {s.tid : s \in Lines(c)} =
                {t \in TID : c[t] # None /\ c[t].want /\ source(t).source # None}
PROOF
  <1> DEFINE T == {t \in TID : c[t] # None /\ c[t].want /\ source(t).source # None}
             L(t) == [tid |-> t, source |-> source(t).source, parent |-> source(t).parent]
  <1>1. Lines(c) = {L(t) : t \in T}
    BY DEF Lines
  <1>2. ASSUME NEW t \in T
        PROVE  /\ L(t) \in Line
               /\ L(t).source = "discovered" => L(t).tid \in DC
               /\ L(t).tid = t
    <2>1. /\ source(t).source \in {"nbft", "config", "discovered", "dlp"}
          /\ source(t).parent \in DC \cup {None}
          /\ source(t).source = "discovered" => t \in DC
      BY SourceShape
    <2> QED
      BY <2>1 DEF Line
  <1> HIDE DEF L
  <1>3. {s.tid : s \in Lines(c)} = T
    BY <1>1, <1>2
  <1> QED
    BY <1>1, <1>2, <1>3

(* ctrl_add() makes a controller without a deadline. *)
LEMMA NewCtrlType ==
  ASSUME NEW linked \in BOOLEAN, NEW wanted \in BOOLEAN
  PROVE  /\ NewCtrl(linked, wanted) \in Ctrl
         /\ NewCtrl(linked, wanted).want = wanted
         /\ NewCtrl(linked, wanted).armed = FALSE
         /\ NewCtrl(linked, wanted) # None
PROOF
  <1>1. NewCtrl(linked, wanted) \in Ctrl
    BY DEF NewCtrl, Ctrl
  <1>2. NewCtrl(linked, wanted).want = wanted /\ NewCtrl(linked, wanted).armed = FALSE
    BY DEF NewCtrl
  <1>3. None \notin Ctrl
    BY DesiredAssumption DEF DesiredAssumption
  <1> QED
    BY <1>1, <1>2, <1>3

(* start_ctrl() keeps the tracked controllers as they are, and tracks every *)
(* other one that may connect and is not refused.                          *)
LEMMA StartCtrlsStep ==
  ASSUME DaemonType, SystemType,
         NEW base \in [TID -> Ctrl \cup {None}],
         \A t \in TID : base[t] # None <=> ctrl[t] # None,
         NEW S \in SUBSET TID, NEW refused, NEW wanted,
         start_ctrls(base, S, refused, wanted)
  PROVE  /\ ctrl' \in [TID -> Ctrl \cup {None}]
         /\ own' \subseteq TID
         /\ unit' \in [TID -> {"none", "starting", "active"}]
         /\ deferred' \subseteq DC
         /\ \A t \in TID : ctrl[t] # None => ctrl'[t] = base[t]
         /\ \A t \in TID : ctrl'[t] = base[t] \/ ctrl'[t].armed = FALSE
         /\ \A t \in S : should_connect(t) /\ t \notin refused => ctrl'[t] # None
PROOF
  <1> DEFINE new == {t \in S : should_connect(t) /\ t \notin Tracked}
             adopt == {t \in new : Adoptable(t)}
             started == (new \ adopt) \ refused
             N(t) == NewCtrl(t \in adopt, t \in wanted)
  <1>1. /\ ctrl' = [t \in TID |-> IF t \in adopt \cup started THEN N(t) ELSE base[t]]
        /\ own' = own \ (new \ adopt)
        /\ unit' = [t \in TID |-> IF t \in started THEN "starting"
                                  ELSE IF t \in new \ adopt THEN "none" ELSE unit[t]]
        /\ deferred' = deferred \cup (adopt \cap DC)
    BY DEF start_ctrls
  <1>2. \A t \in TID : N(t) \in Ctrl /\ N(t) # None /\ N(t).armed = FALSE
    <2> SUFFICES ASSUME NEW t \in TID
                 PROVE  N(t) \in Ctrl /\ N(t) # None /\ N(t).armed = FALSE
      OBVIOUS
    <2>1. (t \in adopt) \in BOOLEAN /\ (t \in wanted) \in BOOLEAN
      OBVIOUS
    <2> HIDE DEF adopt
    <2> QED
      BY <2>1, NewCtrlType, Zenon
  <1>3. adopt \cup started \subseteq new /\ new \subseteq TID
    OBVIOUS
  <1>4. \A t \in new : ctrl[t] = None
    BY DEF Tracked
  <1>5. \A t \in S : should_connect(t) /\ t \notin refused
                        => ctrl[t] # None \/ t \in adopt \cup started
    BY DEF Tracked
  <1> HIDE DEF new, adopt, started, N
  <1>6. ctrl' \in [TID -> Ctrl \cup {None}]
    BY <1>1, <1>2
  <1>7. own' \subseteq TID /\ deferred' \subseteq DC
    BY <1>1 DEF DaemonType, SystemType
  <1>8. unit' \in [TID -> {"none", "starting", "active"}]
    BY <1>1 DEF SystemType
  <1>9. \A t \in TID : ctrl[t] # None => ctrl'[t] = base[t]
    BY <1>1, <1>3, <1>4
  <1>10. \A t \in S : should_connect(t) /\ t \notin refused => ctrl'[t] # None
    BY <1>1, <1>2, <1>5, <1>9
  <1>11. \A t \in TID : ctrl'[t] = base[t] \/ ctrl'[t].armed = FALSE
    BY <1>1, <1>2
  <1> QED
    BY <1>6, <1>7, <1>8, <1>9, <1>10, <1>11

(* dlp_fetch() changes the state of the read only. *)
LEMMA FetchType ==
  ASSUME NEW e \in Ctrl
  PROVE  Fetch(e) \in Ctrl /\ Fetch(e).want = e.want /\ Fetch(e).armed = e.armed
PROOF
  <1>1. CASE ~e.link
    <2>1. Fetch(e) = e
      BY <1>1, Zenon DEF Fetch
    <2> QED
      BY <2>1
  <1>2. CASE e.link /\ e.read = "no"
    <2>1. Fetch(e) = [e EXCEPT !.read = "run"]
      BY <1>2, Zenon DEF Fetch
    <2> QED
      BY <2>1 DEF Ctrl
  <1>3. CASE e.link /\ e.read # "no"
    <2>1. Fetch(e) = [e EXCEPT !.read = "again"]
      BY <1>3, Zenon DEF Fetch
    <2> QED
      BY <2>1 DEF Ctrl
  <1> QED
    BY <1>1, <1>2, <1>3

(* What the handlers assign to a controller leaves e->desired alone. *)
LEMMA RecordUpdates ==
  ASSUME NEW e \in Ctrl, NEW b \in BOOLEAN
  PROVE  /\ [e EXCEPT !.read = "no", !.fetched = TRUE] \in Ctrl
         /\ [e EXCEPT !.read = "no", !.fetched = TRUE].want = e.want
         /\ [e EXCEPT !.read = "no"] \in Ctrl
         /\ [e EXCEPT !.read = "no"].want = e.want
         /\ [e EXCEPT !.link = TRUE, !.armed = FALSE] \in Ctrl
         /\ [e EXCEPT !.link = TRUE, !.armed = FALSE].want = e.want
         /\ [e EXCEPT !.want = b] \in Ctrl
         /\ [e EXCEPT !.want = b].want = b
  BY DEF Ctrl

(* refresh_desired() assigns e->desired only. *)
LEMMA WantUpdate ==
  \A e \in Ctrl : \A b \in BOOLEAN :
    [e EXCEPT !.want = b] \in Ctrl /\ [e EXCEPT !.want = b].want = b
  BY RecordUpdates

(* The controllers that were desired at the last pass. *)
Wanted == {t \in Tracked : ctrl[t].want}

(* Between passes, the file is what a pass would write. *)
FileInv ==
    phase = "idle" /\ ~pending /\ ~config_pending =>
        /\ {s.tid : s \in file} = Wanted \cup {s.tid : s \in saved}
        /\ \A t \in Wanted : Known(t)

(* A step that neither tracks, untracks nor refreshes a controller. *)
SameWants ==
    \A t \in TID : /\ ctrl'[t] # None <=> ctrl[t] # None
                   /\ ctrl[t] # None => ctrl'[t].want = ctrl[t].want

(* Such a step changes one controller. *)
LEMMA OneUpdated ==
  ASSUME DaemonType, NEW t \in TID, NEW e \in Ctrl, ctrl[t] # None,
         e.want = ctrl[t].want, ctrl' = [ctrl EXCEPT ![t] = e]
  PROVE  ctrl' \in [TID -> Ctrl \cup {None}] /\ SameWants
PROOF
  <1>1. e # None
    BY DesiredAssumption DEF DesiredAssumption
  <1> QED
    BY <1>1 DEF DaemonType, SameWants

(* A tracked controller has a record. *)
LEMMA TrackedCtrl ==
  ASSUME DaemonType, NEW t \in Tracked
  PROVE  t \in TID /\ ctrl[t] \in Ctrl /\ ctrl[t] # None
  BY DEF DaemonType, Tracked

(* A further discovered DC breaks no chain. *)
LEMMA ChainKept ==
  ASSUME UNCHANGED dlp, cfg' = cfg, discovered \subseteq discovered', NEW t, NEW n, Chain(t, n)
  PROVE  Chain(t, n)'
  BY DEF Chain, Roots

(* A further discovered DC takes no source away. *)
LEMMA KnownKept ==
  ASSUME UNCHANGED dlp, cfg' = cfg, discovered \subseteq discovered', NEW t, Known(t)
  PROVE  Known(t)'
PROOF
  <1>1. CASE t \in Nbft \cup cfg \cup discovered
    BY <1>1 DEF Known
  <1>2. ASSUME NEW d \in DC, NEW n \in 0..MaxHops, Chain(d, n), t \in dlp[d]
        PROVE  Known(t)'
    <2>1. Chain(d, n)'
      BY <1>2, ChainKept
    <2> QED
      BY <1>2, <2>1 DEF Known
  <1> QED
    BY <1>1, <1>2 DEF Known

(* A step that changes neither the wanted controllers nor the file keeps   *)
(* the file current.                                                       *)
LEMMA QuietStep ==
  ASSUME FileInv, UNCHANGED <<cfg, dlp, nr_first, saved, file, phase, pending>>,
         discovered \subseteq discovered', SameWants
  PROVE  FileInv'
PROOF
  <1>1. Wanted' = Wanted
    BY DEF Wanted, Tracked, SameWants
  <1>2. config_pending' = config_pending
    BY DEF config_pending
  <1>3. \A t : Known(t) => Known(t)'
    BY KnownKept
  <1> QED
    BY <1>1, <1>2, <1>3 DEF FileInv

(* While a pass is due, or waits for a lookup, nothing is claimed. *)
LEMMA FilePending ==
  ASSUME pending' = TRUE \/ phase' # "idle" \/ config_pending'
  PROVE  FileInv'
  BY DEF FileInv

(* A step that leaves the inventory alone. *)
LEMMA InventoryUnchanged ==
  ASSUME InventoryInv, UNCHANGED inventory
  PROVE  InventoryInv'
PROOF
  <1>1. discovered' \subseteq DC
    BY DEF InventoryInv, CacheInv, inventory
  <1> QED
    BY <1>1, CacheUnchanged, LookupUnchanged DEF InventoryInv, inventory

(* A step that leaves the saved lines alone. *)
LEMMA LineUnchanged ==
  ASSUME LineInv, UNCHANGED <<saved, file>>
  PROVE  LineInv'
  BY DEF LineInv

(* The inductive invariant. *)
Inv == TypeInv /\ FileInv

(* connect_desired() leaves a pass due. *)
LEMMA ConnectDesiredStep ==
  ASSUME Inv, connect_desired
  PROVE  Inv'
PROOF
  <1> DEFINE S == desired_dcs \cup desired_iocs
  <1>1. S \in SUBSET TID
    BY InventoryAssumption DEF InventoryAssumption, desired_dcs, desired_iocs, Roots, TID
  <1>2. PICK refused \in Refusals(S) : start_ctrls(ctrl, S, refused, DesiredNow)
    BY DEF connect_desired
  <1>3. DaemonType' /\ SystemType'
    <2> HIDE DEF S
    <2>1. /\ ctrl' \in [TID -> Ctrl \cup {None}] /\ own' \subseteq TID
          /\ unit' \in [TID -> {"none", "starting", "active"}] /\ deferred' \subseteq DC
      BY <1>1, <1>2, StartCtrlsStep DEF Inv, TypeInv, DaemonType
    <2> QED
      BY <2>1 DEF connect_desired, disk, Inv, TypeInv, DaemonType, SystemType
  <1>4. InventoryInv' /\ LineInv'
    BY InventoryUnchanged, LineUnchanged DEF connect_desired, disk, Inv, TypeInv
  <1>5. FileInv'
    BY FilePending DEF connect_desired
  <1> QED
    BY <1>3, <1>4, <1>5 DEF Inv, TypeInv

(* on_mdns_add() tracks a new DC and schedules a pass, or changes no line  *)
(* of the file.                                                            *)
LEMMA MdnsAddStep ==
  ASSUME Inv, NEW d \in Mdns, on_mdns_add(d)
  PROVE  Inv'
PROOF
  <1>1. d \in DC /\ {d} \in SUBSET TID
    BY DesiredAssumption DEF DesiredAssumption, TID
  <1>2. PICK refused \in Refusals({d}) : start_ctrls(ctrl, {d}, refused, {d})
    BY DEF on_mdns_add
  <1>3. DaemonType' /\ SystemType'
    <2>1. /\ ctrl' \in [TID -> Ctrl \cup {None}] /\ own' \subseteq TID
          /\ unit' \in [TID -> {"none", "starting", "active"}] /\ deferred' \subseteq DC
      BY <1>1, <1>2, StartCtrlsStep DEF Inv, TypeInv, DaemonType
    <2>2. pending' \in BOOLEAN
      BY DEF on_mdns_add
    <2> QED
      BY <2>1, <2>2 DEF on_mdns_add, disk, Inv, TypeInv, DaemonType, SystemType
  <1>4. InventoryInv' /\ LineInv'
    <2>1. discovered' \subseteq DC
      BY <1>1 DEF on_mdns_add, add_discovered_dc, Inv, TypeInv, InventoryInv, CacheInv
    <2> QED
      BY <2>1, CacheUnchanged, LookupUnchanged, LineUnchanged
         DEF on_mdns_add, add_discovered_dc, disk, Inv, TypeInv, InventoryInv
  <1>5. FileInv'
    <2>1. CASE ctrl' = ctrl
      <3>1. pending' = pending
        BY <2>1 DEF on_mdns_add, Inv, TypeInv, DaemonType
      <3> QED
        BY <2>1, <3>1, QuietStep
           DEF on_mdns_add, add_discovered_dc, disk, Inv, SameWants
    <2>2. CASE ctrl' # ctrl
      BY <2>2, FilePending DEF on_mdns_add
    <2> QED
      BY <2>1, <2>2
  <1> QED
    BY <1>3, <1>4, <1>5 DEF Inv, TypeInv

(* process_dlp() learns a page and leaves a pass due. *)
LEMMA DlpReadStep ==
  ASSUME Inv, NEW d \in DC, NEW log \in Pages[d], on_dlp_read(d, log)
  PROVE  Inv'
PROOF
  <1> DEFINE S == Entries(d, log)
             read == [ctrl[d] EXCEPT !.read = "no", !.fetched = TRUE]
             e == IF ctrl[d].read = "again" THEN Fetch(read) ELSE read
             base == [ctrl EXCEPT ![d] = e]
  <1>1. log \in SUBSET TID /\ S \in SUBSET TID /\ d \in TID
    BY InventoryAssumption DEF InventoryAssumption, Entries, TID
  <1>2. PICK refused \in Refusals(S) : start_ctrls(base, S, refused, DesiredNow)
    BY DEF on_dlp_read
  <1>3. e \in Ctrl /\ ctrl[d] # None
    BY TrackedCtrl, RecordUpdates, FetchType DEF on_dlp_read, Inv, TypeInv
  <1>4. None \notin Ctrl
    BY DesiredAssumption DEF DesiredAssumption
  <1> HIDE DEF e
  <1>5. base \in [TID -> Ctrl \cup {None}] /\ \A t \in TID : base[t] # None <=> ctrl[t] # None
    BY <1>1, <1>3, <1>4 DEF Inv, TypeInv, DaemonType
  <1> HIDE DEF base, S
  <1>6. DaemonType' /\ SystemType'
    <2>1. /\ ctrl' \in [TID -> Ctrl \cup {None}] /\ own' \subseteq TID
          /\ unit' \in [TID -> {"none", "starting", "active"}] /\ deferred' \subseteq DC
      BY <1>1, <1>2, <1>5, StartCtrlsStep DEF Inv, TypeInv
    <2> QED
      BY <2>1 DEF on_dlp_read, disk, Inv, TypeInv, DaemonType, SystemType
  <1>7. InventoryInv' /\ LineInv'
    <2>1. update_dlp(d, log) /\ UNCHANGED <<saved, file>>
      BY DEF on_dlp_read, disk
    <2>2. UNCHANGED <<cfg, lookup, nr_first>>
      BY <2>1 DEF update_dlp
    <2> QED
      BY <1>1, <2>1, <2>2, UpdateDlpStep, LookupUnchanged, LineUnchanged
         DEF Inv, TypeInv, InventoryInv
  <1>8. FileInv'
    BY FilePending DEF on_dlp_read
  <1> QED
    BY <1>6, <1>7, <1>8 DEF Inv, TypeInv

(* A step of the daemon that leaves the inventory, the file and the set of *)
(* wanted controllers alone.                                               *)
LEMMA CtrlOnlyStep ==
  ASSUME Inv, NEW t \in TID, NEW e \in Ctrl, ctrl[t] # None, e.want = ctrl[t].want,
         ctrl' = [ctrl EXCEPT ![t] = e],
         UNCHANGED <<inventory, phase, saved, pending, check, disk, conn>>,
         deferred' \subseteq DC, own' \subseteq TID,
         unit' \in [TID -> {"none", "starting", "active"}]
  PROVE  Inv'
PROOF
  <1>1. ctrl' \in [TID -> Ctrl \cup {None}] /\ SameWants
    BY OneUpdated DEF Inv, TypeInv
  <1>2. DaemonType' /\ SystemType'
    BY <1>1 DEF disk, Inv, TypeInv, DaemonType, SystemType
  <1>3. InventoryInv' /\ LineInv'
    BY InventoryUnchanged, LineUnchanged DEF disk, Inv, TypeInv
  <1>4. FileInv'
    BY <1>1, QuietStep DEF inventory, disk, Inv
  <1> QED
    BY <1>2, <1>3, <1>4 DEF Inv, TypeInv

(* A step that untracks one controller. *)
LEMMA UntrackStep ==
  ASSUME Inv, NEW t \in TID, Untrack(t),
         UNCHANGED <<inventory, phase, saved, check, deferred, disk, conn>>,
         own' \subseteq TID,
         unit' \in [TID -> {"none", "starting", "active"}]
  PROVE  Inv'
PROOF
  <1>1. DaemonType' /\ SystemType'
    BY DEF Untrack, disk, Inv, TypeInv, DaemonType, SystemType
  <1>2. InventoryInv' /\ LineInv'
    BY InventoryUnchanged, LineUnchanged DEF disk, Inv, TypeInv
  <1>3. FileInv'
    BY FilePending DEF Untrack
  <1> QED
    BY <1>1, <1>2, <1>3 DEF Inv, TypeInv

(* A step that leaves the daemon alone. *)
LEMMA OutsideStep ==
  ASSUME Inv, UNCHANGED <<inventory, daemon, file>>, SystemType'
  PROVE  Inv'
PROOF
  <1>1. DaemonType'
    BY DEF daemon, Inv, TypeInv, DaemonType
  <1>2. InventoryInv' /\ LineInv'
    BY InventoryUnchanged, LineUnchanged DEF daemon, Inv, TypeInv
  <1>3. FileInv'
    BY QuietStep DEF daemon, inventory, Inv, SameWants
  <1> QED
    BY <1>1, <1>2, <1>3 DEF Inv, TypeInv

(* A failed read changes no line. *)
LEMMA DlpFailedStep ==
  ASSUME Inv, NEW d \in DC, on_dlp_failed(d)
  PROVE  Inv'
PROOF
  <1> DEFINE read == [ctrl[d] EXCEPT !.read = "no"]
             e == IF ctrl[d].read = "again" THEN Fetch(read) ELSE read
  <1>1. d \in TID /\ ctrl[d] \in Ctrl /\ ctrl[d] # None
    BY TrackedCtrl DEF on_dlp_failed, Inv, TypeInv
  <1>2. e \in Ctrl /\ e.want = ctrl[d].want
    BY <1>1, RecordUpdates, FetchType
  <1>3. ctrl' = [ctrl EXCEPT ![d] = e]
    BY DEF on_dlp_failed
  <1> HIDE DEF e
  <1> QED
    BY <1>1, <1>2, <1>3, CtrlOnlyStep
       DEF on_dlp_failed, system, Inv, TypeInv, DaemonType, SystemType

(* A changed log page starts a read. *)
LEMMA DcChangedStep ==
  ASSUME Inv, NEW d \in DC, on_dc_changed(d)
  PROVE  Inv'
PROOF
  <1>1. d \in TID /\ ctrl[d] \in Ctrl /\ ctrl[d] # None
    BY TrackedCtrl DEF on_dc_changed, Inv, TypeInv
  <1>2. Fetch(ctrl[d]) \in Ctrl /\ Fetch(ctrl[d]).want = ctrl[d].want
    BY <1>1, FetchType
  <1>3. ctrl' = [ctrl EXCEPT ![d] = Fetch(ctrl[d])]
    BY DEF on_dc_changed
  <1> QED
    BY <1>1, <1>2, <1>3, CtrlOnlyStep
       DEF on_dc_changed, system, Inv, TypeInv, DaemonType, SystemType

(* The first read of an adopted DC. *)
LEMMA AdoptedFetchStep ==
  ASSUME Inv, NEW d \in DC, adopted_dc_fetch(d)
  PROVE  Inv'
PROOF
  <1>1. CASE ctrl[d] # None
    <2>1. d \in TID /\ ctrl[d] \in Ctrl
      BY <1>1 DEF TID, Inv, TypeInv, DaemonType
    <2>2. Fetch(ctrl[d]) \in Ctrl /\ Fetch(ctrl[d]).want = ctrl[d].want
      BY <2>1, FetchType
    <2>3. ctrl' = [ctrl EXCEPT ![d] = Fetch(ctrl[d])]
      BY <1>1 DEF adopted_dc_fetch
    <2> QED
      BY <1>1, <2>1, <2>2, <2>3, CtrlOnlyStep
         DEF adopted_dc_fetch, system, Inv, TypeInv, DaemonType, SystemType
  <1>2. CASE ctrl[d] = None
    <2>1. ctrl' = ctrl
      BY <1>2 DEF adopted_dc_fetch, Inv, TypeInv, DaemonType
    <2>2. DaemonType' /\ SystemType'
      BY <2>1 DEF adopted_dc_fetch, disk, system, Inv, TypeInv, DaemonType, SystemType
    <2>3. InventoryInv' /\ LineInv'
      BY InventoryUnchanged, LineUnchanged DEF adopted_dc_fetch, disk, Inv, TypeInv
    <2>4. FileInv'
      BY <2>1, QuietStep DEF adopted_dc_fetch, inventory, disk, Inv, SameWants
    <2> QED
      BY <2>2, <2>3, <2>4 DEF Inv, TypeInv
  <1> QED
    BY <1>1, <1>2

(* A connected unit changes no line. *)
LEMMA JobDoneStep ==
  ASSUME Inv, NEW t \in TID, on_job_done(t)
  PROVE  Inv'
PROOF
  <1> DEFINE l == [ctrl[t] EXCEPT !.link = TRUE, !.armed = FALSE]
             e == IF t \in DC THEN Fetch(l) ELSE l
  <1>1. ctrl[t] \in Ctrl /\ ctrl[t] # None
    BY TrackedCtrl DEF on_job_done, Inv, TypeInv
  <1>2. e \in Ctrl /\ e.want = ctrl[t].want
    BY <1>1, RecordUpdates, FetchType
  <1>3. ctrl' = [ctrl EXCEPT ![t] = e]
    BY DEF on_job_done
  <1> HIDE DEF e
  <1> QED
    BY <1>1, <1>2, <1>3, CtrlOnlyStep
       DEF on_job_done, system, Inv, TypeInv, DaemonType, SystemType

(* A failed unit changes no line. *)
LEMMA JobFailedStep ==
  ASSUME Inv, NEW t \in TID, on_job_failed(t)
  PROVE  Inv'
PROOF
  <1> DEFINE b == ctrl[t].armed \/ Arms(t)
             e == [ctrl[t] EXCEPT !.retry = TRUE, !.armed = b]
  <1>1. ctrl[t] \in Ctrl /\ ctrl[t] # None
    BY TrackedCtrl DEF on_job_failed, Inv, TypeInv
  <1>2. b \in BOOLEAN
    OBVIOUS
  <1>3. ctrl' = [ctrl EXCEPT ![t] = e]
    BY DEF on_job_failed, Inv, TypeInv, DaemonType
  <1> HIDE DEF b
  <1>4. e \in Ctrl /\ e.want = ctrl[t].want
    BY <1>1, <1>2 DEF Ctrl
  <1> HIDE DEF e
  <1> QED
    BY <1>1, <1>3, <1>4, CtrlOnlyStep
       DEF on_job_failed, system, Inv, TypeInv, DaemonType, SystemType

(* A retry restarts the unit, or drops the controller and schedules a pass. *)
LEMMA RetryTimeoutStep ==
  ASSUME Inv, NEW t \in TID, retry_timeout(t)
  PROVE  Inv'
PROOF
  <1>1. CASE is_desired(t)
    <2> DEFINE e == [ctrl[t] EXCEPT !.retry = FALSE]
    <2>1. ctrl[t] \in Ctrl /\ ctrl[t] # None
      BY TrackedCtrl DEF retry_timeout, Inv, TypeInv
    <2>2. e \in Ctrl /\ e.want = ctrl[t].want
      BY <2>1 DEF Ctrl
    <2>3. ctrl' = [ctrl EXCEPT ![t] = e]
      BY <1>1 DEF retry_timeout
    <2>4. unit' \in [TID -> {"none", "starting", "active"}]
      BY <1>1 DEF retry_timeout, restart_or_start, Inv, TypeInv, SystemType
    <2>5. pending' = pending
      BY <1>1 DEF retry_timeout
    <2> HIDE DEF e
    <2> QED
      BY <2>1, <2>2, <2>3, <2>4, <2>5, CtrlOnlyStep
         DEF retry_timeout, Inv, TypeInv, DaemonType, SystemType
  <1>2. CASE ~is_desired(t)
    <2>1. Untrack(t) /\ unit' = unit
      BY <1>2 DEF retry_timeout
    <2> QED
      BY <2>1, UntrackStep DEF retry_timeout, Inv, TypeInv, SystemType
  <1> QED
    BY <1>1, <1>2

(* A lost device restarts the unit, or drops the controller and schedules a *)
(* pass.                                                                   *)
LEMMA NvmeRemoveStep ==
  ASSUME Inv, NEW t \in TID, on_nvme_remove(t)
  PROVE  Inv'
PROOF
  <1>1. own' \subseteq TID /\ UNCHANGED <<inventory, phase, saved, check, deferred, disk, conn>>
    BY DEF on_nvme_remove, Inv, TypeInv, SystemType
  <1>2. CASE Untrack(t) /\ unit' \in {unit, [unit EXCEPT ![t] = "none"]}
    <2>1. unit' \in [TID -> {"none", "starting", "active"}]
      BY <1>2 DEF Inv, TypeInv, SystemType
    <2> QED
      BY <1>1, <1>2, <2>1, UntrackStep
  <1>3. CASE /\ restart_or_start(t) /\ pending' = pending
             /\ ctrl' = [ctrl EXCEPT ![t].link = FALSE]
    <2> DEFINE e == [ctrl[t] EXCEPT !.link = FALSE]
    <2>1. ctrl[t] \in Ctrl /\ ctrl[t] # None
      BY TrackedCtrl DEF on_nvme_remove, Inv, TypeInv
    <2>2. e \in Ctrl /\ e.want = ctrl[t].want
      BY <2>1 DEF Ctrl
    <2>3. ctrl' = [ctrl EXCEPT ![t] = e]
      BY <1>3
    <2>4. unit' \in [TID -> {"none", "starting", "active"}]
      BY <1>3 DEF restart_or_start, Inv, TypeInv, SystemType
    <2> HIDE DEF e
    <2> QED
      BY <1>1, <1>3, <2>1, <2>2, <2>3, <2>4, CtrlOnlyStep DEF Inv, TypeInv, DaemonType
  <1> QED
    BY <1>2, <1>3 DEF on_nvme_remove

(* Giving up forgets the DC, refreshes and schedules a pass. *)
LEMMA GiveUpStep ==
  ASSUME Inv, NEW d \in DC, give_up(d)
  PROVE  Inv'
PROOF
  <1>1. ctrl' \in [TID -> Ctrl \cup {None}]
    <2> DEFINE w(t) == is_desired(t)'
    <2>1. ctrl' = [t \in TID |-> IF t = d \/ ctrl[t] = None THEN None
                                 ELSE [ctrl[t] EXCEPT !.want = w(t)]]
      BY DEF give_up, refresh_desired
    <2>2. ASSUME NEW t \in TID PROVE w(t) \in BOOLEAN
      <3>1. w(t) = TRUE \/ w(t) = FALSE
        BY Zenon DEF is_desired
      <3> HIDE DEF w
      <3> QED
        BY <3>1, Zenon
    <2> HIDE DEF w
    <2>3. \A t \in TID : ctrl[t] # None => [ctrl[t] EXCEPT !.want = w(t)] \in Ctrl
      <3> SUFFICES ASSUME NEW t \in TID, ctrl[t] # None
                   PROVE  [ctrl[t] EXCEPT !.want = w(t)] \in Ctrl
        OBVIOUS
      <3>1. ctrl[t] \in Ctrl
        BY DEF Inv, TypeInv, DaemonType
      <3> QED
        BY <2>2, <3>1, WantUpdate, Zenon
    <2> QED
      BY <2>1, <2>3
  <1>2. DaemonType' /\ SystemType'
    BY <1>1 DEF give_up, disk, system, Inv, TypeInv, DaemonType, SystemType
  <1>3. InventoryInv' /\ LineInv'
    <2>1. forget_dc(d) /\ UNCHANGED <<saved, file>>
      BY DEF give_up, disk
    <2>2. UNCHANGED <<cfg, lookup, nr_first>>
      BY <2>1 DEF forget_dc
    <2> QED
      BY <2>1, <2>2, ForgetDcStep, LookupUnchanged, LineUnchanged
         DEF Inv, TypeInv, InventoryInv
  <1>4. FileInv'
    BY FilePending DEF give_up
  <1> QED
    BY <1>2, <1>3, <1>4 DEF Inv, TypeInv

(* The units and the connections do not touch the daemon. *)
LEMMA UnitStep ==
  ASSUME Inv, NEW t \in TID, UnitConnects(t) \/ UnitFails(t) \/ ConnectionLost(t)
  PROVE  Inv'
PROOF
  <1>1. SystemType' /\ UNCHANGED <<inventory, daemon, file>>
    BY DEF UnitConnects, UnitFails, ConnectionLost, disk, Inv, TypeInv, SystemType
  <1> QED
    BY <1>1, OutsideStep

(* An edit of the exclusion list does not reach the daemon. *)
LEMMA EditExclusionsStep ==
  ASSUME Inv, NEW x \in Exclusions, EditExclusions(x)
  PROVE  Inv'
PROOF
  <1>1. SystemType' /\ UNCHANGED <<inventory, daemon, file>>
    BY DesiredAssumption
       DEF DesiredAssumption, EditExclusions, system, Inv, TypeInv, SystemType
  <1> QED
    BY <1>1, OutsideStep

(* An ended lookup leaves a pass due. *)
LEMMA LookupStep ==
  ASSUME Inv, NEW t \in TID, NEW resolved \in BOOLEAN, on_config_lookup(t, resolved)
  PROVE  Inv'
PROOF
  <1>1. DaemonType' /\ SystemType'
    BY DEF on_config_lookup, disk, system, Inv, TypeInv, DaemonType, SystemType
  <1>2. InventoryInv' /\ LineInv'
    <2>1. on_lookup(t, resolved) /\ UNCHANGED <<saved, file>>
      BY DEF on_config_lookup, disk
    <2>2. UNCHANGED <<cache, dlp>> /\ discovered' \subseteq DC
      BY <2>1 DEF on_lookup, Inv, TypeInv, InventoryInv, CacheInv
    <2> QED
      BY <2>1, <2>2, OnLookupStep, CacheUnchanged, LineUnchanged
         DEF Inv, TypeInv, InventoryInv
  <1>3. FileInv'
    BY FilePending DEF on_config_lookup
  <1> QED
    BY <1>1, <1>2, <1>3 DEF Inv, TypeInv

(* A retried lookup changes no line. *)
LEMMA LookupRetryStep ==
  ASSUME Inv, NEW t \in TID, LookupRetry(t)
  PROVE  Inv'
PROOF
  <1>1. /\ retry_lookup(t) /\ UNCHANGED <<daemon, disk, system>>
        /\ UNCHANGED <<cfg, discovered, cache, dlp, nr_first>>
    BY DEF LookupRetry, retry_lookup
  <1>2. DaemonType' /\ SystemType' /\ LineInv'
    BY <1>1, LineUnchanged DEF daemon, disk, system, Inv, TypeInv, DaemonType, SystemType
  <1>3. InventoryInv'
    <2>1. discovered' \subseteq DC
      BY <1>1 DEF Inv, TypeInv, InventoryInv, CacheInv
    <2> QED
      BY <1>1, <2>1, RetryLookupStep, CacheUnchanged DEF Inv, TypeInv, InventoryInv
  <1>4. FileInv'
    BY <1>1, QuietStep DEF daemon, disk, Inv, SameWants
  <1> QED
    BY <1>2, <1>3, <1>4 DEF Inv, TypeInv

(* The lookups that cannot start are names of the configuration. *)
LEMMA FailuresType ==
  ASSUME NEW c \in Confs, NEW failed \in Failures(c)
  PROVE  failed \in SUBSET TID
  BY InventoryAssumption DEF InventoryAssumption, Failures

(* reload_config() goes on to connect_desired(). *)
LEMMA ReloadStep ==
  ASSUME Inv, NEW c \in Confs, reload_config(c)
  PROVE  Inv'
PROOF
  <1>1. PICK failed \in Failures(c) : load_config(c, failed)
    BY DEF reload_config
  <1>2. DaemonType' /\ SystemType' /\ LineInv'
    BY LineUnchanged DEF reload_config, system, Inv, TypeInv, DaemonType, SystemType
  <1>3. InventoryInv'
    <2>1. UNCHANGED <<cache, dlp>> /\ discovered' \subseteq DC
      BY DEF reload_config, Inv, TypeInv, InventoryInv, CacheInv
    <2>2. LookupInv'
      BY <1>1, FailuresType, LoadConfigStep
    <2> QED
      BY <2>1, <2>2, CacheUnchanged DEF Inv, TypeInv, InventoryInv
  <1>4. FileInv'
    BY FilePending DEF reload_config
  <1> QED
    BY <1>2, <1>3, <1>4 DEF Inv, TypeInv

(* A start reads the file: the lines saved as discovered name DCs. *)
LEMMA BootStep ==
  ASSUME Inv, NEW c \in Confs, Boot(c)
  PROVE  Inv'
PROOF
  <1>1. PICK failed \in Failures(c) : load_config(c, failed)
    BY DEF Boot
  <1>2. LineInv' /\ discovered' \subseteq DC
    BY DEF Boot, load_saved, Inv, TypeInv, LineInv
  <1>3. DaemonType' /\ SystemType'
    BY DEF Boot, system, Inv, TypeInv, DaemonType, SystemType
  <1>4. InventoryInv'
    <2>1. UNCHANGED <<cache, dlp>>
      BY DEF Boot
    <2>2. LookupInv'
      BY <1>1, FailuresType, LoadConfigStep
    <2> QED
      BY <1>2, <2>1, <2>2, CacheUnchanged DEF Inv, TypeInv, InventoryInv
  <1>5. FileInv'
    BY FilePending DEF Boot
  <1> QED
    BY <1>2, <1>3, <1>4, <1>5 DEF Inv, TypeInv

(* The inventory of a daemon that ended is empty. *)
LEMMA EmptyInventoryPrimed ==
  (/\ cfg = {} /\ discovered = {} /\ cache = <<>> /\ dlp = [d \in DC |-> {}]
   /\ lookup = [t \in TID |-> "none"] /\ nr_first = 0)' => InventoryInv'
PROOF
  <1>1. (/\ cfg = {} /\ discovered = {} /\ cache = <<>> /\ dlp = [d \in DC |-> {}]
         /\ lookup = [t \in TID |-> "none"] /\ nr_first = 0) => InventoryInv
    BY EmptyInventory
  <1> QED
    BY <1>1, PTL

(* The end of the daemon leaves the file. *)
LEMMA CrashStep ==
  ASSUME Inv, Crash
  PROVE  Inv'
PROOF
  <1>1. DaemonType' /\ SystemType' /\ LineInv'
    BY DEF Crash, disk, system, Inv, TypeInv, DaemonType, SystemType, LineInv
  <1>2. InventoryInv'
    BY EmptyInventoryPrimed DEF Crash
  <1>3. FileInv'
    BY FilePending DEF Crash
  <1> QED
    BY <1>1, <1>2, <1>3 DEF Inv, TypeInv

(* A postponed pass leaves a lookup that will schedule the next one. *)
LEMMA PostponedStep ==
  ASSUME Inv, release_postponed
  PROVE  Inv'
PROOF
  <1>1. DaemonType' /\ SystemType'
    BY DEF release_postponed, disk, system, Inv, TypeInv, DaemonType, SystemType
  <1>2. InventoryInv' /\ LineInv'
    BY InventoryUnchanged, LineUnchanged DEF release_postponed, disk, Inv, TypeInv
  <1>3. FileInv'
    BY FilePending DEF release_postponed, inventory, config_pending
  <1> QED
    BY <1>1, <1>2, <1>3 DEF Inv, TypeInv

(* The pass writes what it refreshed: every controller that it marks as    *)
(* desired has a source, so that no line is missing.                       *)
LEMMA ReleaseStep ==
  ASSUME Inv, release_undesired
  PROVE  Inv'
PROOF
  <1> DEFINE left == [t \in TID |-> IF t \in Undesired THEN None ELSE ctrl[t]]
             c == [t \in TID |-> IF left[t] = None \/ is_nbft(t) THEN left[t]
                                 ELSE [left[t] EXCEPT !.want = is_desired(t)]]
             gone == Undesired \cup Decided(c)
  <1>1. /\ ctrl' = c
        /\ saved' = {s \in saved : Waits(s, c)}
        /\ file' = Lines(c) \cup saved'
        /\ pending' = (Undesired # {})
        /\ release_units(gone)
        /\ check' = FALSE
        /\ UNCHANGED <<inventory, phase, deferred, conf, excluded, conn>>
    BY DEF release_undesired
  <1>2. \A t : is_desired(t) \in BOOLEAN
    BY Zenon DEF is_desired
  <1>3. left \in [TID -> Ctrl \cup {None}]
    BY DEF Inv, TypeInv, DaemonType
  <1> HIDE DEF left
  <1>4. c \in [TID -> Ctrl \cup {None}]
    <2>1. \A t \in TID : left[t] # None => [left[t] EXCEPT !.want = is_desired(t)] \in Ctrl
      <3> SUFFICES ASSUME NEW t \in TID, left[t] # None
                   PROVE  [left[t] EXCEPT !.want = is_desired(t)] \in Ctrl
        OBVIOUS
      <3>1. left[t] \in Ctrl
        BY <1>3
      <3> QED
        BY <1>2, <3>1, WantUpdate, Zenon
    <2> QED
      BY <1>3, <2>1
  <1>5. ASSUME NEW t \in TID, c[t] # None, c[t].want
        PROVE  source(t).source # None
    <2>1. CASE is_nbft(t)
      BY <2>1, SourceShape DEF is_nbft, Inv, TypeInv, InventoryInv
    <2>2. CASE ~is_nbft(t)
      <3>1. left[t] # None
        BY <1>5, <2>2
      <3>2. left[t] \in Ctrl
        BY <1>3, <3>1
      <3>3. c[t] = [left[t] EXCEPT !.want = is_desired(t)]
        BY <2>2, <3>1
      <3>4. c[t].want = is_desired(t)
        <4> HIDE DEF c
        <4> QED
          BY <1>2, <3>2, <3>3, WantUpdate, Zenon
      <3>5. is_desired(t)
        BY <1>5, <3>4
      <3> QED
        BY <3>5, SourceIsExplained DEF SourceExplains, Inv, TypeInv, InventoryInv, LookupInv
    <2> QED
      BY <2>1, <2>2
  <1> HIDE DEF c
  <1>6. CacheInv /\ CacheInv'
    BY <1>1, InventoryUnchanged DEF Inv, TypeInv, InventoryInv
  <1>7. DaemonType' /\ SystemType'
    <2>1. own' \subseteq TID /\ unit' \in [TID -> {"none", "starting", "active"}]
      BY <1>1 DEF release_units, Inv, TypeInv, SystemType
    <2>2. pending' \in BOOLEAN
      BY <1>1
    <2> QED
      BY <1>1, <1>4, <2>1, <2>2 DEF Inv, TypeInv, DaemonType, SystemType
  <1>8. InventoryInv'
    BY <1>1, InventoryUnchanged DEF Inv, TypeInv
  <1>9. LineInv'
    <2>1. saved' \subseteq saved
      BY <1>1
    <2>2. /\ Lines(c) \subseteq Line
          /\ \A s \in Lines(c) : s.source = "discovered" => s.tid \in DC
      BY <1>6, LinesShape
    <2> QED
      BY <1>1, <2>1, <2>2 DEF Inv, TypeInv, LineInv
  <1>10. FileInv'
    <2>1. {s.tid : s \in Lines(c)} = {t \in TID : c[t] # None /\ c[t].want}
      BY <1>5, <1>6, LinesShape
    <2>2. Wanted' = {t \in TID : c[t] # None /\ c[t].want}
      BY <1>1 DEF Wanted, Tracked
    <2>3. {s.tid : s \in file'} = Wanted' \cup {s.tid : s \in saved'}
      BY <1>1, <2>1, <2>2
    <2>4. ASSUME NEW t \in Wanted' PROVE Known(t)'
      <3>1. t \in TID /\ Known(t)
        BY <1>5, <1>6, <2>2, <2>4, KnownHasSource
      <3> QED
        BY <1>1, <3>1, KnownKept DEF inventory
    <2> QED
      BY <2>3, <2>4 DEF FileInv
  <1> QED
    BY <1>7, <1>8, <1>9, <1>10 DEF Inv, TypeInv

(* Inv is inductive, for all values of the constants. *)
THEOREM DesiredInvariance == Spec => []Inv
PROOF
  <1>1. Init => Inv
    <2> SUFFICES ASSUME Init PROVE Inv
      OBVIOUS
    <2>1. InventoryInv
      BY EmptyInventory DEF Init, InventoryInit
    <2>2. DaemonType /\ SystemType /\ LineInv
      BY DEF Init, DaemonType, SystemType, LineInv
    <2> QED
      BY <2>1, <2>2 DEF Init, Inv, TypeInv, FileInv
  <1>2. Inv /\ [Next]_vars => Inv'
    <2> SUFFICES ASSUME Inv, [Next]_vars PROVE Inv'
      OBVIOUS
    <2>1. CASE Loop
      BY <2>1, ConnectDesiredStep, ReleaseStep, PostponedStep, DlpReadStep,
         AdoptedFetchStep, JobDoneStep, JobFailedStep, RetryTimeoutStep,
         NvmeRemoveStep DEF Loop
    <2>2. CASE Environment
      BY <2>2, DlpFailedStep, DcChangedStep, GiveUpStep, MdnsAddStep, UnitStep,
         LookupRetryStep, LookupStep, ReloadStep, BootStep, EditExclusionsStep,
         CrashStep DEF Environment
    <2>3. CASE UNCHANGED vars
      <3>1. SystemType' /\ UNCHANGED <<inventory, daemon, file>>
        BY <2>3 DEF vars, disk, system, Inv, TypeInv, SystemType
      <3> QED
        BY <3>1, OutsideStep
    <2> QED
      BY <2>1, <2>2, <2>3 DEF Next
  <1> QED
    BY <1>1, <1>2, PTL DEF Spec

(* The types hold in every state, and dlp_cache has no duplicates. *)
THEOREM DesiredTypeCorrect == Spec => []TypeOK
PROOF
  <1>1. Inv => TypeOK
    BY InventoryInvType DEF Inv, TypeInv, DaemonType, SystemType, LineInv, TypeOK
  <1> QED
    BY <1>1, DesiredInvariance, PTL

(* Between passes the file names exactly the desired tracked controllers   *)
(* and the saved ones that wait: for any controllers, configurations, log  *)
(* pages and exclusions, with failing units and lookups, give-ups and      *)
(* crashes.                                                                *)
THEOREM FileStaysCurrent == Spec => []FileIsCurrent
PROOF
  <1>1. Inv => FileIsCurrent
    <2> SUFFICES ASSUME Inv, Quiet
                 PROVE  {s.tid : s \in file} = {s.tid : s \in Lines(ctrl) \cup saved}
      BY DEF FileIsCurrent
    <2>1. CacheInv
      BY DEF Inv, TypeInv, InventoryInv
    <2>2. /\ {s.tid : s \in file} = Wanted \cup {s.tid : s \in saved}
          /\ \A t \in Wanted : Known(t)
      BY DEF Quiet, Inv, FileInv
    <2>3. {s.tid : s \in Lines(ctrl)} = Wanted
      BY <2>1, <2>2, LinesShape, KnownHasSource DEF Wanted, Tracked
    <2> QED
      BY <2>2, <2>3
  <1> QED
    BY <1>1, DesiredInvariance, PTL

(* What ConfiguredTracked needs: units can be started, no exclusion is     *)
(* edited (one that is deleted takes effect at the next reload), no DC is  *)
(* given up, and no configured controller is an FC one (a lost one is left *)
(* to the kickstart, and its events name DCs only).                        *)
Steady ==
    /\ ~StartFails /\ ~GivesUp
    /\ Exclusions \subseteq {{}}
    /\ \A c \in Confs : Fc \cap (Nbft \cup c.num \cup c.name) = {}

(* Whenever the event loop is idle, all configured controllers are tracked. *)
TrackInv ==
    /\ phase = "idle" => \A t \in Nbft \cup cfg : ctrl[t] # None
    /\ \A t \in TID : ctrl[t] # None => ctrl[t].armed = FALSE
    /\ cfg \subseteq conf.num \cup conf.name
    /\ \A t \in TID : lookup[t] # "none" => t \in conf.name
    /\ excluded = {}

(* A step that untracks nothing and arms no deadline. *)
TrackedKept ==
    \A t \in TID :
        /\ ctrl[t] # None => ctrl'[t] # None
        /\ ctrl'[t] # None => ctrl'[t].armed = FALSE

(* Such a step keeps TrackInv. *)
LEMMA TrackKept ==
  ASSUME Inv, TrackInv, UNCHANGED <<cfg, lookup, conf, excluded, phase>>, TrackedKept
  PROVE  TrackInv'
PROOF
  <1>1. Nbft \cup cfg \subseteq TID
    BY InventoryAssumption DEF InventoryAssumption, Inv, TypeInv, InventoryInv, LookupInv
  <1> QED
    BY <1>1 DEF TrackInv, TrackedKept

(* What the firmware or the configuration names is desired. *)
LEMMA NamedAreDesired ==
  ASSUME Inv, NEW t \in Nbft \cup cfg
  PROVE  t \in TID /\ is_desired(t)
PROOF
  <1>1. t \in TID
    BY InventoryAssumption DEF InventoryAssumption, Inv, TypeInv, InventoryInv, LookupInv
  <1>2. CASE t \in DC
    BY <1>1, <1>2, ReachedDcs DEF Roots, is_desired, Inv, TypeInv, InventoryInv
  <1>3. CASE t \in IOC
    BY <1>1, <1>3 DEF is_desired
  <1> QED
    BY <1>1, <1>2, <1>3 DEF TID

(* A step that changes one controller. *)
LEMMA TrackUpdated ==
  ASSUME Inv, TrackInv, UNCHANGED <<cfg, lookup, conf, excluded, phase>>,
         NEW t \in TID, NEW e \in Ctrl, e.armed = FALSE, ctrl' = [ctrl EXCEPT ![t] = e]
  PROVE  TrackInv'
PROOF
  <1>1. e # None
    BY DesiredAssumption DEF DesiredAssumption
  <1>2. TrackedKept
    BY <1>1 DEF TrackedKept, TrackInv, Inv, TypeInv, DaemonType
  <1> QED
    BY <1>2, TrackKept

(* A step that drops a controller that nobody configured. *)
LEMMA TrackUntracked ==
  ASSUME Inv, TrackInv, UNCHANGED <<cfg, lookup, conf, excluded, phase>>,
         NEW t \in TID, t \notin Nbft \cup cfg, Untrack(t)
  PROVE  TrackInv'
  BY DEF TrackInv, Untrack, Inv, TypeInv, DaemonType

(* connect_desired() tracks every configured controller. *)
LEMMA TrackConnect ==
  ASSUME Steady, Inv, TrackInv, connect_desired
  PROVE  TrackInv'
PROOF
  <1> DEFINE S == desired_dcs \cup desired_iocs
  <1>1. S \in SUBSET TID /\ Nbft \cup cfg \subseteq S
    BY InventoryAssumption DEF InventoryAssumption, desired_dcs, desired_iocs, Roots, TID,
       Inv, TypeInv, InventoryInv, LookupInv
  <1>2. PICK refused \in Refusals(S) : start_ctrls(ctrl, S, refused, DesiredNow)
    BY DEF connect_desired
  <1>3. refused = {}
    BY DEF Refusals, Steady
  <1> HIDE DEF S
  <1>4. /\ \A t \in TID : ctrl'[t] = ctrl[t] \/ ctrl'[t].armed = FALSE
        /\ \A t \in S : should_connect(t) /\ t \notin refused => ctrl'[t] # None
    BY <1>1, <1>2, StartCtrlsStep DEF Inv, TypeInv, DaemonType
  <1>5. \A t \in Nbft \cup cfg : ctrl'[t] # None
    BY <1>1, <1>3, <1>4 DEF should_connect, TrackInv
  <1>6. UNCHANGED <<cfg, lookup, conf, excluded>>
    BY DEF connect_desired, inventory, disk
  <1> QED
    BY <1>4, <1>5, <1>6 DEF TrackInv

(* start_ctrl() drops nothing. *)
LEMMA TrackStarted ==
  ASSUME Inv, TrackInv, UNCHANGED <<cfg, lookup, conf, excluded, phase>>,
         NEW base \in [TID -> Ctrl \cup {None}],
         \A t \in TID : /\ base[t] # None <=> ctrl[t] # None
                        /\ base[t] # None => base[t].armed = FALSE,
         NEW S \in SUBSET TID, NEW refused, NEW wanted,
         start_ctrls(base, S, refused, wanted)
  PROVE  TrackInv'
PROOF
  <1>1. /\ \A t \in TID : ctrl[t] # None => ctrl'[t] = base[t]
        /\ \A t \in TID : ctrl'[t] = base[t] \/ ctrl'[t].armed = FALSE
    BY StartCtrlsStep DEF Inv, TypeInv
  <1>2. TrackedKept
    BY <1>1 DEF TrackedKept
  <1> QED
    BY <1>2, TrackKept

(* on_mdns_add() drops nothing. *)
LEMMA TrackMdnsAdd ==
  ASSUME Inv, TrackInv, NEW d \in Mdns, on_mdns_add(d)
  PROVE  TrackInv'
PROOF
  <1>1. {d} \in SUBSET TID
    BY DesiredAssumption DEF DesiredAssumption, TID
  <1>2. PICK refused \in Refusals({d}) : start_ctrls(ctrl, {d}, refused, {d})
    BY DEF on_mdns_add
  <1>3. UNCHANGED <<cfg, lookup, conf, excluded, phase>>
    BY DEF on_mdns_add, add_discovered_dc, disk
  <1>4. /\ ctrl \in [TID -> Ctrl \cup {None}]
        /\ \A t \in TID : ctrl[t] # None => ctrl[t].armed = FALSE
    BY DEF Inv, TypeInv, DaemonType, TrackInv
  <1> QED
    BY <1>1, <1>2, <1>3, <1>4, TrackStarted

(* process_dlp() drops nothing. *)
LEMMA TrackDlpRead ==
  ASSUME Inv, TrackInv, NEW d \in DC, NEW log \in Pages[d], on_dlp_read(d, log)
  PROVE  TrackInv'
PROOF
  <1> DEFINE S == Entries(d, log)
             read == [ctrl[d] EXCEPT !.read = "no", !.fetched = TRUE]
             e == IF ctrl[d].read = "again" THEN Fetch(read) ELSE read
             base == [ctrl EXCEPT ![d] = e]
  <1>1. S \in SUBSET TID /\ d \in TID
    BY InventoryAssumption DEF InventoryAssumption, Entries, TID
  <1>2. PICK refused \in Refusals(S) : start_ctrls(base, S, refused, DesiredNow)
    BY DEF on_dlp_read
  <1>3. e \in Ctrl /\ ctrl[d] # None /\ e.armed = FALSE
    <2>1. ctrl[d] \in Ctrl /\ ctrl[d] # None /\ ctrl[d].armed = FALSE
      BY <1>1, TrackedCtrl DEF on_dlp_read, Inv, TypeInv, TrackInv
    <2>2. read \in Ctrl /\ read.armed = FALSE
      BY <2>1 DEF Ctrl
    <2> HIDE DEF read
    <2> QED
      BY <2>1, <2>2, FetchType
  <1>4. None \notin Ctrl
    BY DesiredAssumption DEF DesiredAssumption
  <1> HIDE DEF e
  <1>5. /\ base \in [TID -> Ctrl \cup {None}]
        /\ \A t \in TID : /\ base[t] # None <=> ctrl[t] # None
                          /\ base[t] # None => base[t].armed = FALSE
    BY <1>1, <1>3, <1>4 DEF Inv, TypeInv, DaemonType, TrackInv
  <1>6. UNCHANGED <<cfg, lookup, conf, excluded, phase>>
    BY DEF on_dlp_read, update_dlp, disk
  <1> HIDE DEF base, S
  <1> QED
    BY <1>1, <1>2, <1>5, <1>6, TrackStarted

(* A pass releases no configured controller. *)
LEMMA TrackRelease ==
  ASSUME Inv, TrackInv, release_undesired
  PROVE  TrackInv'
PROOF
  <1> DEFINE left == [t \in TID |-> IF t \in Undesired THEN None ELSE ctrl[t]]
             c == [t \in TID |-> IF left[t] = None \/ is_nbft(t) THEN left[t]
                                 ELSE [left[t] EXCEPT !.want = is_desired(t)]]
  <1>1. ctrl' = c /\ UNCHANGED <<cfg, lookup, conf, excluded, phase>>
    BY DEF release_undesired, inventory
  <1>2. \A t \in Nbft \cup cfg : t \in TID /\ t \notin Undesired
    BY NamedAreDesired DEF Undesired, is_nbft, TrackInv
  <1>3. ASSUME NEW t \in TID
        PROVE  /\ left[t] \in {None, ctrl[t]}
               /\ t \notin Undesired => left[t] = ctrl[t]
    OBVIOUS
  <1> HIDE DEF left
  <1>4. ASSUME NEW t \in TID
        PROVE  /\ c[t] # None => left[t] # None /\ c[t].armed = left[t].armed
               /\ left[t] # None => c[t] # None
    <2>1. CASE left[t] = None \/ is_nbft(t)
      BY <2>1
    <2>2. CASE left[t] # None /\ ~is_nbft(t)
      <3>1. left[t] \in Ctrl
        BY <1>3, <2>2 DEF Inv, TypeInv, DaemonType
      <3>2. c[t] = [left[t] EXCEPT !.want = is_desired(t)]
        BY <2>2
      <3>3. is_desired(t) \in BOOLEAN
        BY Zenon DEF is_desired
      <3>4. c[t] \in Ctrl
        <4> HIDE DEF c
        <4> QED
          BY <3>1, <3>2, <3>3, WantUpdate, Zenon
      <3>5. c[t] # None
        BY <3>4, DesiredAssumption DEF DesiredAssumption
      <3>6. c[t].armed = left[t].armed
        <4> HIDE DEF c
        <4> QED
          BY <3>1, <3>2 DEF Ctrl
      <3> QED
        BY <2>2, <3>5, <3>6
    <2> QED
      BY <2>1, <2>2
  <1> HIDE DEF c
  <1>5. \A t \in TID : ctrl'[t] # None => ctrl'[t].armed = FALSE
    BY <1>1, <1>3, <1>4 DEF TrackInv
  <1>6. ASSUME phase = "idle", NEW t \in Nbft \cup cfg PROVE ctrl'[t] # None
    BY <1>1, <1>2, <1>3, <1>4, <1>6 DEF TrackInv
  <1> QED
    BY <1>1, <1>5, <1>6 DEF TrackInv

(* The handlers that change one controller. *)
LEMMA TrackUpdates ==
  ASSUME Steady, Inv, TrackInv, NEW t \in TID,
         \/ t \in DC /\ (on_dlp_failed(t) \/ on_dc_changed(t) \/ adopted_dc_fetch(t))
         \/ on_job_done(t)
         \/ on_job_failed(t)
  PROVE  TrackInv'
PROOF
  <1>0. UNCHANGED <<cfg, lookup, conf, excluded, phase>>
    BY DEF on_dlp_failed, on_dc_changed, adopted_dc_fetch, on_job_done, on_job_failed,
           inventory, disk
  <1>1. CASE ctrl[t] = None
    <2>1. adopted_dc_fetch(t)
      BY <1>1 DEF on_dlp_failed, on_dc_changed, on_job_done, on_job_failed, Tracked
    <2>2. ctrl' = ctrl
      BY <1>1, <2>1 DEF adopted_dc_fetch, Inv, TypeInv, DaemonType
    <2>3. TrackedKept
      BY <2>2 DEF TrackedKept, TrackInv
    <2> QED
      BY <1>0, <2>3, TrackKept
  <1>2. CASE ctrl[t] # None
    <2>1. ctrl[t] \in Ctrl /\ ctrl[t].armed = FALSE
      BY <1>2 DEF Inv, TypeInv, DaemonType, TrackInv
    <2> SUFFICES \E e \in Ctrl : e.armed = FALSE /\ ctrl' = [ctrl EXCEPT ![t] = e]
      BY <1>0, TrackUpdated
    <2>2. CASE on_dlp_failed(t)
      <3> DEFINE read == [ctrl[t] EXCEPT !.read = "no"]
                 e == IF ctrl[t].read = "again" THEN Fetch(read) ELSE read
      <3>1. read \in Ctrl /\ read.armed = FALSE
        BY <2>1 DEF Ctrl
      <3>2. ctrl' = [ctrl EXCEPT ![t] = e]
        BY <2>2 DEF on_dlp_failed
      <3> HIDE DEF read
      <3> QED
        BY <3>1, <3>2, FetchType
    <2>3. CASE on_dc_changed(t) \/ adopted_dc_fetch(t)
      <3>1. ctrl' = [ctrl EXCEPT ![t] = Fetch(ctrl[t])]
        BY <1>2, <2>3 DEF on_dc_changed, adopted_dc_fetch
      <3> QED
        BY <2>1, <3>1, FetchType
    <2>4. CASE on_job_done(t)
      <3> DEFINE l == [ctrl[t] EXCEPT !.link = TRUE, !.armed = FALSE]
                 e == IF t \in DC THEN Fetch(l) ELSE l
      <3>1. l \in Ctrl /\ l.armed = FALSE
        BY <2>1 DEF Ctrl
      <3>2. ctrl' = [ctrl EXCEPT ![t] = e]
        BY <2>4 DEF on_job_done
      <3> HIDE DEF l
      <3> QED
        BY <3>1, <3>2, FetchType
    <2>5. CASE on_job_failed(t)
      <3> DEFINE b == ctrl[t].armed \/ Arms(t)
                 e == [ctrl[t] EXCEPT !.retry = TRUE, !.armed = b]
      <3>1. b = FALSE
        BY <2>1 DEF Arms, Steady
      <3>2. ctrl' = [ctrl EXCEPT ![t] = e]
        BY <2>5 DEF on_job_failed, Inv, TypeInv, DaemonType
      <3> HIDE DEF b
      <3>3. e \in Ctrl /\ e.armed = FALSE
        BY <2>1, <3>1 DEF Ctrl
      <3> QED
        BY <3>2, <3>3
    <2> QED
      BY <2>2, <2>3, <2>4, <2>5
  <1> QED
    BY <1>1, <1>2

(* retry_timeout() drops only what is not desired. *)
LEMMA TrackRetryTimeout ==
  ASSUME Inv, TrackInv, NEW t \in TID, retry_timeout(t)
  PROVE  TrackInv'
PROOF
  <1>0. UNCHANGED <<cfg, lookup, conf, excluded, phase>>
    BY DEF retry_timeout, inventory, disk
  <1>1. CASE is_desired(t)
    <2> DEFINE e == [ctrl[t] EXCEPT !.retry = FALSE]
    <2>1. ctrl[t] \in Ctrl /\ ctrl[t].armed = FALSE
      BY TrackedCtrl DEF retry_timeout, Inv, TypeInv, TrackInv
    <2>2. e \in Ctrl /\ e.armed = FALSE
      BY <2>1 DEF Ctrl
    <2>3. ctrl' = [ctrl EXCEPT ![t] = e]
      BY <1>1 DEF retry_timeout
    <2> HIDE DEF e
    <2> QED
      BY <1>0, <2>2, <2>3, TrackUpdated
  <1>2. CASE ~is_desired(t)
    <2>1. Untrack(t)
      BY <1>2 DEF retry_timeout
    <2>2. t \notin Nbft \cup cfg
      BY <1>2, NamedAreDesired
    <2> QED
      BY <1>0, <2>1, <2>2, TrackUntracked
  <1> QED
    BY <1>1, <1>2

(* on_nvme_remove() drops no configured controller. *)
LEMMA TrackNvmeRemove ==
  ASSUME Steady, Inv, TrackInv, NEW t \in TID, on_nvme_remove(t)
  PROVE  TrackInv'
PROOF
  <1>0. UNCHANGED <<cfg, lookup, conf, excluded, phase>>
    BY DEF on_nvme_remove, inventory, disk
  <1>1. t \in Fc \/ ~is_desired(t) => t \notin Nbft \cup cfg
    BY NamedAreDesired DEF Steady, TrackInv, Inv, TypeInv, SystemType
  <1>2. should_connect(t)
    BY DEF should_connect, TrackInv
  <1>3. CASE Untrack(t) /\ (t \in Fc \/ ~is_desired(t))
    BY <1>0, <1>1, <1>3, TrackUntracked
  <1>4. CASE ctrl' = [ctrl EXCEPT ![t].link = FALSE]
    <2> DEFINE e == [ctrl[t] EXCEPT !.link = FALSE]
    <2>1. ctrl[t] \in Ctrl /\ ctrl[t].armed = FALSE
      BY TrackedCtrl DEF on_nvme_remove, Inv, TypeInv, TrackInv
    <2>2. e \in Ctrl /\ e.armed = FALSE
      BY <2>1 DEF Ctrl
    <2>3. ctrl' = [ctrl EXCEPT ![t] = e]
      BY <1>4
    <2> HIDE DEF e
    <2> QED
      BY <1>0, <2>2, <2>3, TrackUpdated
  <1> QED
    BY <1>2, <1>3, <1>4 DEF on_nvme_remove

(* A new configuration is followed by connect_desired(). *)
LEMMA TrackLoadConfig ==
  ASSUME Inv, TrackInv, NEW c \in Confs, NEW failed \in Failures(c), load_config(c, failed),
         conf' = c, phase' = "connect", UNCHANGED <<ctrl, excluded>>
  PROVE  TrackInv'
PROOF
  <1>1. cfg' = c.num
    BY DEF load_config
  <1>2. ASSUME NEW t \in TID, lookup'[t] # "none" PROVE t \in c.name
    <2>1. lookup'[t] = CASE t \in c.name \ failed -> "first"
                         [] t \in c.name \cap failed -> "wait"
                         [] OTHER -> "none"
      BY DEF load_config
    <2>2. ASSUME t \notin c.name PROVE FALSE
      <3>1. lookup'[t] = "none"
        BY <2>1, <2>2, Zenon
      <3> QED
        BY <1>2, <3>1
    <2> QED
      BY <2>2
  <1> QED
    BY <1>1, <1>2 DEF TrackInv

(* A resolved name is followed by connect_desired(). *)
LEMMA TrackLookup ==
  ASSUME Inv, TrackInv, NEW t \in TID, NEW resolved \in BOOLEAN, on_config_lookup(t, resolved)
  PROVE  TrackInv'
PROOF
  <1>1. /\ lookup[t] # "none" /\ UNCHANGED <<ctrl, conf, excluded>>
        /\ lookup' = [lookup EXCEPT ![t] = IF resolved THEN "none" ELSE "wait"]
        /\ cfg' = IF resolved THEN cfg \cup {t} ELSE cfg
        /\ phase' = IF resolved THEN "connect" ELSE "idle"
        /\ phase = "idle"
    BY DEF on_config_lookup, on_lookup, disk, Ready
  <1>2. t \in conf.name
    BY <1>1 DEF TrackInv
  <1>3. \A u \in TID : lookup'[u] # "none" => lookup[u] # "none"
    BY <1>1 DEF Inv, TypeInv, InventoryInv, LookupInv
  <1> QED
    BY <1>1, <1>2, <1>3 DEF TrackInv

(* The steps that leave the controllers alone, end the daemon or load a    *)
(* configuration; none gives up.                                           *)
LEMMA TrackOthers ==
  ASSUME Steady, Inv, TrackInv,
         \/ release_postponed
         \/ \E d \in DC : give_up(d)
         \/ \E t \in TID : UnitConnects(t) \/ UnitFails(t) \/ ConnectionLost(t)
         \/ \E t \in TID : LookupRetry(t)
         \/ \E c \in Confs : reload_config(c) \/ Boot(c)
         \/ \E x \in Exclusions : EditExclusions(x)
         \/ Crash
         \/ UNCHANGED vars
  PROVE  TrackInv'
PROOF
  <1>1. ASSUME NEW d \in DC, give_up(d) PROVE FALSE
    BY <1>1, TrackedCtrl DEF give_up, TrackInv, Inv, TypeInv
  <1>2. CASE \/ release_postponed \/ UNCHANGED vars
             \/ \E t \in TID : UnitConnects(t) \/ UnitFails(t) \/ ConnectionLost(t)
    <2>1. UNCHANGED <<cfg, lookup, conf, excluded, phase, ctrl>>
      BY <1>2 DEF release_postponed, vars, UnitConnects, UnitFails, ConnectionLost,
                  inventory, daemon, disk
    <2>2. TrackedKept
      BY <2>1 DEF TrackedKept, TrackInv
    <2> QED
      BY <2>1, <2>2, TrackKept
  <1>3. ASSUME NEW t \in TID, LookupRetry(t) PROVE TrackInv'
    <2>1. /\ lookup[t] # "none" /\ lookup' = [lookup EXCEPT ![t] = "again"]
          /\ UNCHANGED <<cfg, conf, excluded, phase, ctrl>>
      BY <1>3 DEF LookupRetry, retry_lookup, daemon, disk
    <2>2. \A u \in TID : lookup'[u] # "none" => lookup[u] # "none"
      BY <2>1 DEF Inv, TypeInv, InventoryInv, LookupInv
    <2> QED
      BY <2>1, <2>2 DEF TrackInv
  <1>4. ASSUME NEW c \in Confs, reload_config(c) \/ Boot(c) PROVE TrackInv'
    <2>1. PICK failed \in Failures(c) : load_config(c, failed)
      BY <1>4 DEF reload_config, Boot
    <2> QED
      BY <1>4, <2>1, TrackLoadConfig DEF reload_config, Boot
  <1>5. ASSUME NEW x \in Exclusions, EditExclusions(x) PROVE TrackInv'
    BY <1>5 DEF EditExclusions, Steady, TrackInv
  <1>6. CASE Crash
    BY <1>6 DEF Crash, disk, TrackInv
  <1> QED
    BY <1>1, <1>2, <1>3, <1>4, <1>5, <1>6

(* Under Steady, for any number of controllers and configurations, between *)
(* passes every controller that the firmware or the configuration names is *)
(* tracked, whatever reloads, lookups, losses and crashes came before.     *)
THEOREM ConfiguredAreTracked ==
  ASSUME Steady
  PROVE  Spec => []ConfiguredTracked
PROOF
  <1>1. Init => TrackInv
    BY DEF Init, InventoryInit, TrackInv
  <1>2. Inv /\ TrackInv /\ [Next]_vars => TrackInv'
    <2> SUFFICES ASSUME Inv, TrackInv, [Next]_vars PROVE TrackInv'
      OBVIOUS
    <2>1. CASE Loop
      <3>1. \A d \in DC : d \in TID
        BY DEF TID
      <3> QED
        BY <2>1, <3>1, TrackConnect, TrackRelease, TrackOthers, TrackDlpRead, TrackUpdates,
           TrackRetryTimeout, TrackNvmeRemove DEF Loop
    <2>2. CASE Environment
      <3>1. \A d \in DC : d \in TID
        BY DEF TID
      <3> QED
        BY <2>2, <3>1, TrackUpdates, TrackMdnsAdd, TrackLookup, TrackOthers DEF Environment
    <2>3. CASE UNCHANGED vars
      BY <2>3, TrackOthers
    <2> QED
      BY <2>1, <2>2, <2>3 DEF Next
  <1>3. Inv /\ TrackInv => ConfiguredTracked
    <2> SUFFICES ASSUME Inv, TrackInv, Quiet, NEW t \in (Nbft \cup cfg) \ excluded
                 PROVE  t \in Tracked
      BY DEF ConfiguredTracked
    <2>1. t \in TID
      BY NamedAreDesired
    <2> QED
      BY <2>1 DEF TrackInv, Quiet, Tracked
  <1> QED
    BY <1>1, <1>2, <1>3, DesiredInvariance, PTL DEF Spec

--------------------------------------------------------------------------------
(* Why an unchanged configuration releases nothing.                        *)
(*                                                                         *)
(* A release looks at two sets: the tracked controllers and the lines of   *)
(* the file.  StableInv says of both why they cannot name a controller     *)
(* that the next pass finds undesired.  What a tracked controller was      *)
(* desired for is still there (the sources of one run of the daemon only   *)
(* grow, a name that is looked up again holds up the pass, and the pages   *)
(* are what they were).  A line of the file has a source that a restart    *)
(* brings back: the firmware, the configuration, the discovered DCs of the *)
(* same file, or a page of one of these, which the line waits for.         *)

(* What UnchangedReleasesNothing needs: the configuration, the exclusion   *)
(* list and the log pages stay as they are, and no page refers to another  *)
(* DC (the README tells what happens behind a referral); names resolve,    *)
(* units can be started, no DC is given up, and no DC that only the FC     *)
(* kickstart reports is lost (it is not tracked any more, so not saved).   *)
Unchanged ==
    /\ \A c, e \in Confs : c = e
    /\ \A d \in DC : Pages[d] \subseteq SUBSET IOC /\ \A p, q \in Pages[d] : p = q
    /\ Exclusions \subseteq {{}}
    /\ ~LookupFails /\ ~StartFails /\ ~GivesUp
    /\ \A c \in Confs : Fc \cap Mdns \subseteq Nbft \cup c.num \cup c.name

(* What the firmware and the configuration name, resolved or not. *)
Named == Nbft \cup conf.num \cup conf.name

(* The configuration: a name that is not resolved yet holds up the pass. *)
ConfInv ==
    /\ excluded = {} /\ discovered \subseteq Mdns
    /\ cfg \subseteq conf.num \cup conf.name
    /\ phase # "down" => /\ conf.num \subseteq cfg
                         /\ \A t \in conf.name : t \in cfg \/ lookup[t] = "first"
    /\ \A t \in TID : lookup[t] \in {"none", "first"}
    /\ \A t \in TID : lookup[t] = "first" => t \in conf.name

(* The cached pages are those of the DCs. *)
PageInv == \A d \in ToSet(cache) : dlp[d] \in Pages[d]

(* A recorded device is that of an active unit, and a unit that is to be   *)
(* tried again has failed.                                                 *)
OwnInv ==
    /\ \A t \in own : unit[t] = "active"
    /\ \A t \in TID : ctrl[t] # None /\ ctrl[t].retry => unit[t] = "none" /\ ~ctrl[t].link

(* What is desired once every name is resolved. *)
Wished(t) ==
    \/ t \in Named \cup discovered
    \/ t \in IOC /\ \E d \in ToSet(cache) : d \in Named \cup discovered /\ t \in dlp[d]

(* A tracked controller has no deadline.  A DC is tracked only for a       *)
(* source of its own, and one whose page was read has it in the cache.     *)
CtrlInv ==
    \A t \in TID : ctrl[t] # None =>
        /\ phase # "down" /\ ctrl[t].armed = FALSE
        /\ ctrl[t].want => Wished(t)
        /\ t \in DC => ctrl[t].want /\ t \in Named \cup discovered
        /\ t \in DC /\ ctrl[t].fetched => t \in ToSet(cache)

(* A discovered DC stays tracked, so that every pass saves it. *)
DiscoveredInv == phase = "idle" => \A d \in discovered \ Named : ctrl[d] # None

(* A line explains why its controller will be desired again: its parent is *)
(* in D or has a source that comes back by itself.                         *)
Explained(s, D) ==
    /\ s.source = "nbft" => s.tid \in Nbft
    /\ s.source = "config" => s.tid \in conf.num \cup conf.name
    /\ s.source = "discovered" => s.tid \in Mdns
    /\ s.source = "dlp" => /\ s.tid \in IOC /\ s.parent \in DC \cap (Named \cup D)
                           /\ \A log \in Pages[s.parent] : s.tid \in log

(* The DCs that a restart takes from the file. *)
FileDcs == {s.tid : s \in {s \in file : s.source = "discovered"}}

(* The file, and what is left of it. *)
SavedInv ==
    /\ \A s \in file : Explained(s, FileDcs)
    /\ \A s \in saved : Explained(s, discovered) /\ s.source # "discovered"

(* What the release pass relies on. *)
SourcesInv == ConfInv /\ PageInv /\ CtrlInv /\ DiscoveredInv /\ SavedInv

(* The inductive invariant. *)
StableInv == SourcesInv /\ OwnInv

(* No live connection loses its unit. *)
OwnersKept == \A t \in own \cap conn : t \in own' \/ t \notin conn'

--------------------------------------------------------------------------------
(* What is desired *)

(* No page refers to a DC, so that the DCs that are reached have a source. *)
LEMMA NoReferrals ==
  ASSUME Unchanged, CacheInv, PageInv
  PROVE  /\ \A d \in DC : dlp[d] \subseteq IOC
         /\ \A d \in DC : referral_hops(d) >= 0 <=> d \in Roots
         /\ \A d \in DC : Listing(d) = {}
PROOF
  <1>1. ASSUME NEW d \in DC PROVE dlp[d] \subseteq IOC
    BY DEF Unchanged, PageInv, CacheInv
  <1>2. ToSet(cache) \subseteq DC
    BY CachedAreDcs
  <1>3. ASSUME NEW d \in DC PROVE Listing(d) = {}
    BY <1>1, <1>2, InventoryAssumption DEF InventoryAssumption, Listing
  <1> QED
    BY <1>1, <1>3, ReachedDcs

(* What is desired is wished; a discovered DC is desired; once all names   *)
(* are resolved what is wished is desired.                                 *)
LEMMA DesiredIsWished ==
  ASSUME Unchanged, InventoryInv, ConfInv, PageInv, NEW t \in TID
  PROVE  /\ is_desired(t) => Wished(t)
         /\ t \in DC /\ is_desired(t) => t \in Named \cup discovered
         /\ t \in Nbft \cup cfg \cup discovered => is_desired(t)
         /\ conf.num \cup conf.name \subseteq cfg /\ Wished(t) => is_desired(t)
PROOF
  <1>1. ToSet(cache) \subseteq DC /\ DC \cap IOC = {} /\ discovered \subseteq DC
    BY CachedAreDcs, InventoryAssumption DEF InventoryAssumption, InventoryInv, CacheInv
  <1>2. \A d \in DC : referral_hops(d) >= 0 <=> d \in Roots
    BY NoReferrals DEF InventoryInv
  <1>3. Roots \subseteq Named \cup discovered
    BY DEF Roots, Named, ConfInv
  <1>4. ASSUME is_desired(t) PROVE Wished(t)
    <2>1. CASE t \in IOC /\ Listing(t) # {}
      <3>1. PICK d \in ToSet(cache) : t \in dlp[d] /\ referral_hops(d) >= 0
        BY <2>1 DEF Listing
      <3> QED
        BY <1>1, <1>2, <1>3, <2>1, <3>1 DEF Wished
    <2>2. CASE t \in IOC \cap (Nbft \cup cfg)
      BY <2>2 DEF Wished, Named, ConfInv
    <2>3. CASE t \in DC /\ referral_hops(t) >= 0
      BY <1>2, <1>3, <2>3 DEF Wished
    <2> QED
      BY <1>4, <2>1, <2>2, <2>3 DEF is_desired
  <1>5. ASSUME t \in DC, is_desired(t) PROVE t \in Named \cup discovered
    BY <1>1, <1>2, <1>3, <1>5 DEF is_desired
  <1>6. ASSUME t \in Nbft \cup cfg \cup discovered PROVE is_desired(t)
    BY <1>1, <1>2, <1>6 DEF is_desired, Roots, TID
  <1>7. ASSUME conf.num \cup conf.name \subseteq cfg, Wished(t) PROVE is_desired(t)
    <2>1. CASE t \in Named \cup discovered
      BY <1>6, <1>7, <2>1 DEF Named
    <2>2. ASSUME t \in IOC, NEW d \in ToSet(cache), d \in Named \cup discovered, t \in dlp[d]
          PROVE  is_desired(t)
      <3>1. d \in DC /\ d \in Roots
        BY <1>1, <1>7, <2>2 DEF Roots, Named
      <3>2. d \in Listing(t)
        BY <1>2, <2>2, <3>1 DEF Listing
      <3> QED
        BY <2>2, <3>2 DEF is_desired
    <2> QED
      BY <1>7, <2>1, <2>2 DEF Wished
  <1> QED
    BY <1>4, <1>5, <1>6, <1>7

(* A pass that is not held up finds every name resolved. *)
LEMMA NamesResolved ==
  ASSUME InventoryInv, ConfInv, phase # "down", ~config_pending, conf \in Confs
  PROVE  conf.num \cup conf.name \subseteq cfg
PROOF
  <1> DEFINE F == {t \in TID : lookup[t] = "first"}
  <1>1. IsFiniteSet(F) /\ Cardinality(F) \in Nat
    BY FirstLookupsFinite
  <1>2. Cardinality(F) = 0
    BY <1>1 DEF config_pending, InventoryInv, LookupInv, FirstLookupsCounted
  <1>3. F = {}
    BY <1>1, <1>2, FS_EmptySet
  <1>4. conf.name \subseteq TID
    BY InventoryAssumption DEF InventoryAssumption
  <1> QED
    BY <1>3, <1>4 DEF ConfInv

(* The configuration on disk never changes. *)
LEMMA SameConf ==
  ASSUME Unchanged, Inv, Inv'
  PROVE  conf' = conf /\ Named' = Named
  BY DEF Unchanged, Inv, TypeInv, SystemType, Named

(* What is wished stays so while the sources and the pages are kept. *)
LEMMA WishedKept ==
  ASSUME Named' = Named, discovered \subseteq discovered', ToSet(cache) \subseteq ToSet(cache'),
         \A d \in ToSet(cache) : dlp'[d] = dlp[d], NEW t, Wished(t)
  PROVE  Wished(t)'
PROOF
  <1>1. CASE t \in Named \cup discovered
    BY <1>1 DEF Wished
  <1>2. ASSUME t \in IOC, NEW d \in ToSet(cache), d \in Named \cup discovered, t \in dlp[d]
        PROVE  Wished(t)'
    <2>1. ToSet(cache)' = ToSet(cache')
      BY DEF ToSet
    <2>2. d \in ToSet(cache)' /\ d \in (Named \cup discovered)' /\ t \in dlp'[d]
      BY <1>2, <2>1
    <2> QED
      BY <1>2, <2>2 DEF Wished
  <1> QED
    BY <1>1, <1>2 DEF Wished

--------------------------------------------------------------------------------
(* Steps that keep the sources *)

(* The sources and the pages of one run of the daemon only grow. *)
Grows ==
    /\ discovered \subseteq discovered' /\ ToSet(cache) \subseteq ToSet(cache')
    /\ \A d \in ToSet(cache) : dlp'[d] = dlp[d]

(* A controller that stays tracked for the reason it was tracked for. *)
Stays(t) ==
    /\ ctrl[t] # None
    /\ ctrl'[t].want = ctrl[t].want /\ ctrl'[t].armed = FALSE
    /\ ctrl'[t].fetched => ctrl[t].fetched \/ t \in ToSet(cache')

(* A controller that is new, with a reason. *)
Starts(t) ==
    /\ ctrl'[t].want => Wished(t)'
    /\ t \in DC => ctrl'[t].want /\ t \in Named \cup discovered'
    /\ ctrl'[t].armed = FALSE /\ ctrl'[t].fetched = FALSE

(* Such controllers have what CtrlInv asks for. *)
LEMMA CtrlsKept ==
  ASSUME Named' = Named, CtrlInv, Grows,
         \A t \in TID : ctrl'[t] # None => phase' # "down" /\ (Stays(t) \/ Starts(t))
  PROVE  CtrlInv'
PROOF
  <1>1. ToSet(cache)' = ToSet(cache')
    BY DEF ToSet
  <1> SUFFICES ASSUME NEW t \in TID, ctrl'[t] # None
               PROVE  /\ phase' # "down" /\ ctrl'[t].armed = FALSE
                      /\ ctrl'[t].want => Wished(t)'
                      /\ t \in DC => ctrl'[t].want /\ t \in Named \cup discovered'
                      /\ t \in DC /\ ctrl'[t].fetched => t \in ToSet(cache')
    BY <1>1 DEF CtrlInv
  <1>2. CASE Stays(t)
    <2>1. Wished(t) => Wished(t)'
      BY WishedKept DEF Grows
    <2> QED
      BY <1>2, <2>1 DEF Stays, CtrlInv, Grows
  <1>3. CASE Starts(t)
    BY <1>3 DEF Starts
  <1> QED
    BY <1>2, <1>3

(* A saved line stays explained when the discovered DCs grow. *)
LEMMA ExplainedKept ==
  ASSUME NEW D, NEW E, D \subseteq E, NEW s, Explained(s, D)
  PROVE  Explained(s, E)
  BY DEF Explained, Named

(* The lines are kept. *)
LEMMA SavedKept ==
  ASSUME SavedInv, UNCHANGED <<conf, saved, file>>, discovered \subseteq discovered'
  PROVE  SavedInv'
PROOF
  <1>1. FileDcs' = FileDcs
    BY DEF FileDcs
  <1>2. \A s \in file : Explained(s, FileDcs)'
    BY <1>1 DEF SavedInv, Explained, Named
  <1>3. \A s \in saved : Explained(s, discovered') /\ s.source # "discovered"
    BY ExplainedKept DEF SavedInv
  <1> QED
    BY <1>1, <1>2, <1>3 DEF SavedInv, Explained, Named

(* A step that only changes tracked controllers and drops no discovered DC. *)
LEMMA SourcesKept ==
  ASSUME Inv, SourcesInv, UNCHANGED <<inventory, phase, saved, file, conf, excluded>>,
         \A t \in TID : ctrl'[t] # None => Stays(t),
         \A d \in discovered \ Named : ctrl[d] # None => ctrl'[d] # None
  PROVE  SourcesInv'
PROOF
  <1>1. Named' = Named
    BY DEF Named
  <1>2. Grows
    BY DEF Grows, inventory
  <1>3. CtrlInv'
    BY <1>1, <1>2, CtrlsKept DEF SourcesInv, CtrlInv, Stays
  <1>4. ConfInv'
    BY DEF SourcesInv, ConfInv, inventory
  <1>5. PageInv'
    BY DEF SourcesInv, PageInv, inventory, ToSet
  <1>6. DiscoveredInv'
    BY <1>1 DEF SourcesInv, DiscoveredInv, inventory
  <1>7. SavedInv'
    BY SavedKept DEF SourcesInv, inventory
  <1> QED
    BY <1>3, <1>4, <1>5, <1>6, <1>7 DEF SourcesInv

(* dlp_fetch() changes nothing else of a controller. *)
LEMMA FetchKeeps ==
  ASSUME NEW e \in Ctrl
  PROVE  /\ Fetch(e).link = e.link /\ Fetch(e).fetched = e.fetched
         /\ Fetch(e).retry = e.retry
PROOF
  <1>1. CASE ~e.link
    <2>1. Fetch(e) = e
      BY <1>1, Zenon DEF Fetch
    <2> QED
      BY <2>1
  <1>2. CASE e.link /\ e.read = "no"
    <2>1. Fetch(e) = [e EXCEPT !.read = "run"]
      BY <1>2, Zenon DEF Fetch
    <2> QED
      BY <2>1 DEF Ctrl
  <1>3. CASE e.link /\ e.read # "no"
    <2>1. Fetch(e) = [e EXCEPT !.read = "again"]
      BY <1>3, Zenon DEF Fetch
    <2> QED
      BY <2>1 DEF Ctrl
  <1> QED
    BY <1>1, <1>2, <1>3

(* A step that changes one tracked controller, and neither its reason nor  *)
(* the units and devices.                                                  *)
LEMMA StableUpdated ==
  ASSUME Inv, StableInv, UNCHANGED <<inventory, phase, saved, file, conf, excluded, own, unit>>,
         NEW t \in TID, ctrl[t] # None, NEW e \in Ctrl, ctrl' = [ctrl EXCEPT ![t] = e],
         e.want = ctrl[t].want, e.armed = FALSE, e.fetched = ctrl[t].fetched,
         e.retry => unit[t] = "none" /\ ~e.link
  PROVE  StableInv' /\ OwnersKept
PROOF
  <1>1. e # None
    BY DesiredAssumption DEF DesiredAssumption
  <1>2. \A u \in TID : ctrl'[u] = IF u = t THEN e ELSE ctrl[u]
    BY DEF Inv, TypeInv, DaemonType
  <1>3. \A u \in TID : ctrl'[u] # None => Stays(u)
    BY <1>1, <1>2 DEF Stays, StableInv, SourcesInv, CtrlInv
  <1>4. discovered \subseteq TID
    BY DEF Inv, TypeInv, InventoryInv, CacheInv, TID
  <1>5. SourcesInv'
    BY <1>1, <1>2, <1>3, <1>4, SourcesKept DEF StableInv
  <1>6. OwnInv'
    BY <1>2 DEF StableInv, OwnInv
  <1> QED
    BY <1>5, <1>6 DEF StableInv, OwnersKept

(* The handlers that change one controller. *)
LEMMA StableUpdates ==
  ASSUME Unchanged, Inv, StableInv, NEW t \in TID,
         \/ t \in DC /\ (on_dlp_failed(t) \/ on_dc_changed(t) \/ adopted_dc_fetch(t))
         \/ on_job_done(t)
         \/ on_job_failed(t)
  PROVE  StableInv' /\ OwnersKept
PROOF
  <1>0. UNCHANGED <<inventory, phase, saved, file, conf, excluded, own, unit>>
    BY DEF on_dlp_failed, on_dc_changed, adopted_dc_fetch, on_job_done, on_job_failed,
           disk, system
  <1>1. CASE ctrl[t] = None
    <2>1. adopted_dc_fetch(t)
      BY <1>1 DEF on_dlp_failed, on_dc_changed, on_job_done, on_job_failed, Tracked
    <2>2. ctrl' = ctrl
      BY <1>1, <2>1 DEF adopted_dc_fetch, Inv, TypeInv, DaemonType
    <2>3. SourcesInv'
      BY <1>0, <2>2, SourcesKept DEF StableInv, SourcesInv, CtrlInv, Stays
    <2> QED
      BY <1>0, <2>2, <2>3 DEF StableInv, OwnInv, OwnersKept
  <1>2. CASE ctrl[t] # None
    <2>1. /\ ctrl[t] \in Ctrl /\ ctrl[t].armed = FALSE
          /\ ctrl[t].retry => unit[t] = "none" /\ ~ctrl[t].link
      BY <1>2 DEF Inv, TypeInv, DaemonType, StableInv, SourcesInv, CtrlInv, OwnInv
    <2> SUFFICES \E e \in Ctrl :
                    /\ ctrl' = [ctrl EXCEPT ![t] = e]
                    /\ e.want = ctrl[t].want /\ e.armed = FALSE
                    /\ e.fetched = ctrl[t].fetched
                    /\ e.retry => unit[t] = "none" /\ ~e.link
      BY <1>0, <1>2, StableUpdated
    <2>2. CASE on_dlp_failed(t)
      <3> DEFINE read == [ctrl[t] EXCEPT !.read = "no"]
                 e == IF ctrl[t].read = "again" THEN Fetch(read) ELSE read
      <3>1. /\ read \in Ctrl /\ read.armed = FALSE /\ read.want = ctrl[t].want
            /\ read.fetched = ctrl[t].fetched /\ read.retry = ctrl[t].retry
            /\ read.link = ctrl[t].link
        BY <2>1 DEF Ctrl
      <3>2. ctrl' = [ctrl EXCEPT ![t] = e]
        BY <2>2 DEF on_dlp_failed
      <3> HIDE DEF read
      <3>3. /\ e \in Ctrl /\ e.armed = FALSE /\ e.want = ctrl[t].want
            /\ e.fetched = ctrl[t].fetched /\ e.retry = ctrl[t].retry
            /\ e.link = ctrl[t].link
        BY <3>1, FetchType, FetchKeeps
      <3> HIDE DEF e
      <3> QED
        BY <2>1, <3>2, <3>3
    <2>3. CASE on_dc_changed(t) \/ adopted_dc_fetch(t)
      <3> DEFINE e == Fetch(ctrl[t])
      <3>1. ctrl' = [ctrl EXCEPT ![t] = e]
        BY <1>2, <2>3 DEF on_dc_changed, adopted_dc_fetch
      <3>2. /\ e \in Ctrl /\ e.armed = FALSE /\ e.want = ctrl[t].want
            /\ e.fetched = ctrl[t].fetched /\ e.retry = ctrl[t].retry
            /\ e.link = ctrl[t].link
        BY <2>1, FetchType, FetchKeeps
      <3> HIDE DEF e
      <3> QED
        BY <2>1, <3>1, <3>2
    <2>4. CASE on_job_done(t)
      <3> DEFINE l == [ctrl[t] EXCEPT !.link = TRUE, !.armed = FALSE]
                 e == IF t \in DC THEN Fetch(l) ELSE l
      <3>1. /\ l \in Ctrl /\ l.armed = FALSE /\ l.want = ctrl[t].want
            /\ l.fetched = ctrl[t].fetched /\ l.retry = ctrl[t].retry
        BY <2>1 DEF Ctrl
      <3>2. ctrl' = [ctrl EXCEPT ![t] = e] /\ unit[t] = "active"
        BY <2>4 DEF on_job_done
      <3>3. ctrl[t].retry = FALSE
        BY <2>1, <3>2 DEF Ctrl
      <3> HIDE DEF l
      <3>4. /\ e \in Ctrl /\ e.armed = FALSE /\ e.want = ctrl[t].want
            /\ e.fetched = ctrl[t].fetched /\ e.retry = ctrl[t].retry
        BY <3>1, FetchType, FetchKeeps
      <3> HIDE DEF e
      <3> QED
        BY <3>2, <3>3, <3>4
    <2>5. CASE on_job_failed(t)
      <3> DEFINE b == ctrl[t].armed \/ Arms(t)
                 e == [ctrl[t] EXCEPT !.retry = TRUE, !.armed = b]
      <3>1. b = FALSE
        BY <2>1 DEF Arms, Unchanged
      <3>2. ctrl' = [ctrl EXCEPT ![t] = e] /\ unit[t] = "none" /\ ~ctrl[t].link
        BY <2>5 DEF on_job_failed, Inv, TypeInv, DaemonType
      <3> HIDE DEF b
      <3>3. /\ e \in Ctrl /\ e.armed = FALSE /\ e.want = ctrl[t].want
            /\ e.fetched = ctrl[t].fetched /\ e.link = ctrl[t].link
        BY <2>1, <3>1 DEF Ctrl
      <3> HIDE DEF e
      <3> QED
        BY <3>2, <3>3
    <2> QED
      BY <2>2, <2>3, <2>4, <2>5
  <1> QED
    BY <1>1, <1>2

(* retry_timeout() starts the unit again: a discovered DC is desired. *)
LEMMA StableRetryTimeout ==
  ASSUME Unchanged, Inv, StableInv, NEW t \in TID, retry_timeout(t)
  PROVE  StableInv' /\ OwnersKept
PROOF
  <1>0. UNCHANGED <<inventory, phase, saved, file, conf, excluded, own>>
    BY DEF retry_timeout, disk
  <1>1. ctrl[t] \in Ctrl /\ ctrl[t] # None /\ unit[t] = "none" /\ ctrl[t].armed = FALSE
    BY TrackedCtrl DEF retry_timeout, Inv, TypeInv, StableInv, OwnInv, SourcesInv, CtrlInv
  <1>2. OwnersKept /\ t \notin own /\ discovered \subseteq TID
    BY <1>0, <1>1 DEF OwnersKept, StableInv, OwnInv, Inv, TypeInv, InventoryInv, CacheInv, TID
  <1>3. CASE is_desired(t)
    <2> DEFINE e == [ctrl[t] EXCEPT !.retry = FALSE]
    <2>1. /\ e \in Ctrl /\ e.armed = FALSE /\ e.want = ctrl[t].want
          /\ e.fetched = ctrl[t].fetched /\ e.retry = FALSE /\ e # None
      BY <1>1, DesiredAssumption DEF Ctrl, DesiredAssumption
    <2>2. ctrl' = [ctrl EXCEPT ![t] = e] /\ unit' = [unit EXCEPT ![t] = "starting"]
      BY <1>3 DEF retry_timeout, restart_or_start
    <2> HIDE DEF e
    <2>3. \A u \in TID : ctrl'[u] = IF u = t THEN e ELSE ctrl[u]
      BY <2>2 DEF Inv, TypeInv, DaemonType
    <2>4. \A u \in TID : unit'[u] = IF u = t THEN "starting" ELSE unit[u]
      BY <2>2 DEF Inv, TypeInv, SystemType
    <2>5. \A u \in TID : ctrl'[u] # None => Stays(u)
      BY <1>1, <2>1, <2>3 DEF Stays, StableInv, SourcesInv, CtrlInv
    <2>6. SourcesInv'
      BY <1>0, <1>2, <2>1, <2>3, <2>5, SourcesKept DEF StableInv
    <2>7. own \subseteq TID
      BY DEF Inv, TypeInv, SystemType
    <2>8. OwnInv'
      BY <1>0, <1>2, <2>1, <2>3, <2>4, <2>7 DEF StableInv, OwnInv
    <2> QED
      BY <1>2, <2>6, <2>8 DEF StableInv
  <1>4. CASE ~is_desired(t)
    <2>1. ctrl' = [ctrl EXCEPT ![t] = None] /\ unit' = unit
      BY <1>4 DEF retry_timeout, Untrack
    <2>2. \A u \in TID : ctrl'[u] = IF u = t THEN None ELSE ctrl[u]
      BY <2>1 DEF Inv, TypeInv, DaemonType
    <2>3. t \notin discovered
      BY <1>4, DesiredIsWished DEF Inv, TypeInv, StableInv, SourcesInv
    <2>4. \A u \in TID : ctrl'[u] # None => Stays(u)
      BY <2>2 DEF Stays, StableInv, SourcesInv, CtrlInv
    <2>5. SourcesInv'
      BY <1>0, <1>2, <2>2, <2>3, <2>4, SourcesKept DEF StableInv
    <2>6. OwnInv'
      BY <1>0, <2>1, <2>2 DEF StableInv, OwnInv
    <2> QED
      BY <1>2, <2>5, <2>6 DEF StableInv
  <1> QED
    BY <1>3, <1>4

(* on_nvme_remove() tracks a discovered DC on: it is desired, and no FC    *)
(* controller unless it is named.                                          *)
LEMMA StableNvmeRemove ==
  ASSUME Unchanged, Inv, StableInv, NEW t \in TID, on_nvme_remove(t)
  PROVE  StableInv' /\ OwnersKept
PROOF
  <1>0. /\ UNCHANGED <<inventory, phase, saved, file, conf, excluded, conn>>
        /\ own' = own \ {t} /\ t \notin conn
    BY DEF on_nvme_remove, disk
  <1>1. ctrl[t] \in Ctrl /\ ctrl[t] # None /\ ctrl[t].link /\ ctrl[t].armed = FALSE
    BY TrackedCtrl DEF on_nvme_remove, Inv, TypeInv, StableInv, SourcesInv, CtrlInv
  <1>2. /\ OwnersKept /\ should_connect(t) /\ discovered \subseteq TID /\ own \subseteq TID
        /\ ctrl[t].retry = FALSE
    BY <1>0, <1>1 DEF OwnersKept, should_connect, StableInv, SourcesInv, ConfInv, OwnInv, Ctrl,
       Inv, TypeInv, InventoryInv, CacheInv, SystemType, TID
  <1>3. CASE is_desired(t) /\ t \notin Fc
    <2> DEFINE e == [ctrl[t] EXCEPT !.link = FALSE]
    <2>1. /\ e \in Ctrl /\ e.armed = FALSE /\ e.want = ctrl[t].want
          /\ e.fetched = ctrl[t].fetched /\ e.retry = FALSE /\ e # None
      BY <1>1, <1>2, DesiredAssumption DEF Ctrl, DesiredAssumption
    <2>2. ctrl' = [ctrl EXCEPT ![t] = e] /\ unit' = [unit EXCEPT ![t] = "starting"]
      BY <1>2, <1>3 DEF on_nvme_remove, restart_or_start
    <2> HIDE DEF e
    <2>3. \A u \in TID : ctrl'[u] = IF u = t THEN e ELSE ctrl[u]
      BY <2>2 DEF Inv, TypeInv, DaemonType
    <2>4. \A u \in TID : unit'[u] = IF u = t THEN "starting" ELSE unit[u]
      BY <2>2 DEF Inv, TypeInv, SystemType
    <2>5. \A u \in TID : ctrl'[u] # None => Stays(u)
      BY <1>1, <2>1, <2>3 DEF Stays, StableInv, SourcesInv, CtrlInv
    <2>6. SourcesInv'
      BY <1>0, <1>2, <2>1, <2>3, <2>5, SourcesKept DEF StableInv
    <2>7. OwnInv'
      BY <1>0, <1>2, <2>1, <2>3, <2>4 DEF StableInv, OwnInv
    <2> QED
      BY <1>2, <2>6, <2>7 DEF StableInv
  <1>4. CASE ~is_desired(t) \/ t \in Fc
    <2>1. /\ ctrl' = [ctrl EXCEPT ![t] = None]
          /\ unit' \in {unit, [unit EXCEPT ![t] = "none"]}
      BY <1>2, <1>4 DEF on_nvme_remove, Untrack
    <2>2. \A u \in TID : ctrl'[u] = IF u = t THEN None ELSE ctrl[u]
      BY <2>1 DEF Inv, TypeInv, DaemonType
    <2>3. t \notin discovered \ Named
      <3>1. CASE ~is_desired(t)
        BY <3>1, DesiredIsWished DEF Inv, TypeInv, StableInv, SourcesInv
      <3>2. CASE t \in Fc
        BY <3>2 DEF Unchanged, Named, StableInv, SourcesInv, ConfInv, Inv, TypeInv, SystemType
      <3> QED
        BY <1>4, <3>1, <3>2
    <2>4. \A u \in TID : ctrl'[u] # None => Stays(u)
      BY <2>2 DEF Stays, StableInv, SourcesInv, CtrlInv
    <2>5. SourcesInv'
      BY <1>0, <1>2, <2>2, <2>3, <2>4, SourcesKept DEF StableInv
    <2>6. \A u \in TID : u # t => unit'[u] = unit[u]
      BY <2>1 DEF Inv, TypeInv, SystemType
    <2>7. OwnInv'
      BY <1>0, <1>2, <2>2, <2>6 DEF StableInv, OwnInv
    <2> QED
      BY <1>2, <2>5, <2>7 DEF StableInv
  <1> QED
    BY <1>3, <1>4

--------------------------------------------------------------------------------
(* Steps that start controllers *)

(* start_ctrl() adopts the unit of every live connection whose device is   *)
(* recorded, so that it takes no unit away from one.                       *)
LEMMA StartedOwners ==
  ASSUME Inv, OwnInv, excluded = {}, conn' = conn,
         NEW base \in [TID -> Ctrl \cup {None}],
         \A t \in TID : /\ base[t] # None <=> ctrl[t] # None
                        /\ ctrl[t] # None => /\ base[t].retry = ctrl[t].retry
                                             /\ base[t].link = ctrl[t].link,
         NEW S \in SUBSET TID, NEW wanted, start_ctrls(base, S, {}, wanted)
  PROVE  /\ \A t \in TID : ctrl[t] # None => ctrl'[t] = base[t]
         /\ \A t \in S : ctrl'[t] # None
         /\ \A t \in TID : ctrl[t] = None /\ ctrl'[t] # None =>
                /\ t \in S /\ ctrl'[t].want = (t \in wanted)
                /\ ctrl'[t].fetched = FALSE /\ ctrl'[t].armed = FALSE
         /\ OwnInv' /\ OwnersKept
PROOF
  <1> DEFINE new == {t \in S : should_connect(t) /\ t \notin Tracked}
             adopt == {t \in new : Adoptable(t)}
             started == (new \ adopt) \ {}
             N(t) == NewCtrl(t \in adopt, t \in wanted)
  <1>1. /\ ctrl' = [t \in TID |-> IF t \in adopt \cup started THEN N(t) ELSE base[t]]
        /\ own' = own \ (new \ adopt)
        /\ unit' = [t \in TID |-> IF t \in started THEN "starting"
                                  ELSE IF t \in new \ adopt THEN "none" ELSE unit[t]]
    BY DEF start_ctrls
  <1>2. \A t \in TID : /\ N(t) # None /\ N(t).want = (t \in wanted) /\ N(t).armed = FALSE
                       /\ N(t).fetched = FALSE /\ N(t).retry = FALSE
    <2> SUFFICES ASSUME NEW t \in TID
                 PROVE  /\ N(t) # None /\ N(t).want = (t \in wanted) /\ N(t).armed = FALSE
                        /\ N(t).fetched = FALSE /\ N(t).retry = FALSE
      OBVIOUS
    <2>1. (t \in adopt) \in BOOLEAN /\ (t \in wanted) \in BOOLEAN
      OBVIOUS
    <2>2. N(t).fetched = FALSE /\ N(t).retry = FALSE
      BY DEF NewCtrl
    <2> HIDE DEF adopt
    <2> QED
      BY <2>1, <2>2, NewCtrlType, Zenon
  <1>3. /\ adopt \cup started = new /\ new \subseteq S /\ adopt \subseteq new
        /\ started = new \ adopt
    OBVIOUS
  <1>4. \A t \in TID : t \in new <=> t \in S /\ ctrl[t] = None
    BY DEF Tracked, should_connect
  <1>5. \A t \in adopt : unit[t] = "active"
    BY DEF Adoptable, OwnInv
  <1>6. \A t \in own \cap conn : t \in new => t \in adopt
    BY DEF Adoptable, OwnInv
  <1> HIDE DEF new, adopt, started, N
  <1>7. \A t \in TID : ctrl'[t] = IF t \in new THEN N(t) ELSE base[t]
    BY <1>1, <1>3
  <1>8. \A t \in TID : t \notin new \ adopt => unit'[t] = unit[t]
    BY <1>1, <1>3
  <1>9. own \subseteq TID /\ S \subseteq TID
    BY DEF Inv, TypeInv, SystemType
  <1>10. OwnersKept
    BY <1>1, <1>6 DEF OwnersKept
  <1>11. OwnInv'
    <2>1. \A t \in own' : unit'[t] = "active"
      BY <1>1, <1>8, <1>9 DEF OwnInv
    <2>2. ASSUME NEW t \in TID, ctrl'[t] # None, ctrl'[t].retry
          PROVE  unit'[t] = "none" /\ ~ctrl'[t].link
      <3>1. t \notin new
        BY <1>2, <1>7, <2>2
      <3>2. ctrl'[t] = base[t] /\ unit'[t] = unit[t] /\ ctrl[t] # None
        BY <1>7, <1>8, <2>2, <3>1
      <3> QED
        BY <2>2, <3>2 DEF OwnInv
    <2> QED
      BY <2>1, <2>2 DEF OwnInv
  <1>12. \A t \in TID : ctrl[t] # None => ctrl'[t] = base[t]
    BY <1>4, <1>7
  <1>13. \A t \in S : ctrl'[t] # None
    BY <1>2, <1>4, <1>7, <1>9
  <1>14. \A t \in TID : ctrl[t] = None /\ ctrl'[t] # None =>
                /\ t \in S /\ ctrl'[t].want = (t \in wanted)
                /\ ctrl'[t].fetched = FALSE /\ ctrl'[t].armed = FALSE
    BY <1>2, <1>4, <1>7
  <1> QED
    BY <1>10, <1>11, <1>12, <1>13, <1>14

(* connect_desired() tracks every DC that has a source. *)
LEMMA StableConnect ==
  ASSUME Unchanged, Inv, StableInv, connect_desired
  PROVE  StableInv' /\ OwnersKept
PROOF
  <1> DEFINE S == desired_dcs \cup desired_iocs
  <1>1. S \in SUBSET TID /\ S \subseteq Nbft \cup cfg \cup discovered /\ discovered \subseteq S
    BY InventoryAssumption DEF InventoryAssumption, desired_dcs, desired_iocs, Roots, TID,
       Inv, TypeInv, InventoryInv, CacheInv
  <1>2. start_ctrls(ctrl, S, {}, DesiredNow)
    BY DEF connect_desired, Refusals, Unchanged
  <1>3. UNCHANGED <<inventory, saved, file, conf, excluded, conn>> /\ phase' = "idle"
    BY DEF connect_desired, disk
  <1>4. /\ InventoryInv /\ ConfInv /\ PageInv /\ CtrlInv /\ OwnInv /\ excluded = {}
        /\ ctrl \in [TID -> Ctrl \cup {None}]
    BY DEF Inv, TypeInv, DaemonType, StableInv, SourcesInv, ConfInv
  <1> HIDE DEF S
  <1>5. /\ \A t \in TID : ctrl[t] # None => ctrl'[t] = ctrl[t]
        /\ \A t \in S : ctrl'[t] # None
        /\ \A t \in TID : ctrl[t] = None /\ ctrl'[t] # None =>
                /\ t \in S /\ ctrl'[t].want = (t \in DesiredNow)
                /\ ctrl'[t].fetched = FALSE /\ ctrl'[t].armed = FALSE
        /\ OwnInv' /\ OwnersKept
    BY <1>1, <1>2, <1>3, <1>4, StartedOwners
  <1>6. Named' = Named /\ Grows
    BY <1>3 DEF Named, Grows, inventory
  <1>7. ASSUME NEW t \in TID, ctrl'[t] # None PROVE Stays(t) \/ Starts(t)
    <2>1. CASE ctrl[t] # None
      BY <1>4, <1>5, <2>1 DEF Stays, CtrlInv
    <2>2. CASE ctrl[t] = None
      <3>1. /\ t \in S /\ ctrl'[t].want = (t \in DesiredNow)
            /\ ctrl'[t].fetched = FALSE /\ ctrl'[t].armed = FALSE
        BY <1>5, <1>7, <2>2
      <3>2. t \in Nbft \cup cfg \cup discovered
        BY <1>1, <3>1
      <3>3. is_desired(t) /\ Wished(t) /\ (t \in DC => t \in Named \cup discovered)
        BY <1>4, <3>2, DesiredIsWished
      <3>4. Wished(t)'
        BY <1>6, <3>3, WishedKept DEF Grows
      <3>5. t \in DesiredNow
        BY <3>3 DEF DesiredNow
      <3> QED
        BY <1>3, <3>1, <3>3, <3>4, <3>5 DEF Starts, inventory
    <2> QED
      BY <2>1, <2>2
  <1>8. CtrlInv'
    BY <1>3, <1>4, <1>6, <1>7, CtrlsKept
  <1>9. ConfInv'
    <2>1. phase # "down"
      BY DEF connect_desired
    <2> QED
      BY <1>3, <1>4, <2>1 DEF ConfInv, inventory
  <1>10. PageInv'
    BY <1>3, <1>4 DEF PageInv, inventory, ToSet
  <1>11. DiscoveredInv'
    BY <1>1, <1>3, <1>5 DEF DiscoveredInv, inventory
  <1>12. SavedInv'
    BY <1>3, SavedKept DEF StableInv, SourcesInv, inventory
  <1> QED
    BY <1>5, <1>8, <1>9, <1>10, <1>11, <1>12 DEF StableInv, SourcesInv

(* on_mdns_add() tracks the DC that it adds. *)
LEMMA StableMdnsAdd ==
  ASSUME Unchanged, Inv, StableInv, NEW d \in Mdns, on_mdns_add(d)
  PROVE  StableInv' /\ OwnersKept
PROOF
  <1>1. {d} \in SUBSET TID /\ d \in DC
    BY DesiredAssumption DEF DesiredAssumption, TID
  <1>2. start_ctrls(ctrl, {d}, {}, {d})
    BY DEF on_mdns_add, Refusals, Unchanged
  <1>3. /\ UNCHANGED <<cfg, cache, dlp, lookup, phase, saved, file, conf, excluded, conn>>
        /\ discovered' = discovered \cup {d} /\ phase = "idle"
    BY DEF on_mdns_add, add_discovered_dc, disk, Ready
  <1>4. /\ ConfInv /\ PageInv /\ CtrlInv /\ DiscoveredInv /\ OwnInv /\ excluded = {}
        /\ ctrl \in [TID -> Ctrl \cup {None}] /\ discovered \subseteq TID
    BY DEF Inv, TypeInv, DaemonType, InventoryInv, CacheInv, TID, StableInv, SourcesInv,
       ConfInv
  <1>5. /\ \A t \in TID : ctrl[t] # None => ctrl'[t] = ctrl[t]
        /\ \A t \in {d} : ctrl'[t] # None
        /\ \A t \in TID : ctrl[t] = None /\ ctrl'[t] # None =>
                /\ t \in {d} /\ ctrl'[t].want = (t \in {d})
                /\ ctrl'[t].fetched = FALSE /\ ctrl'[t].armed = FALSE
        /\ OwnInv' /\ OwnersKept
    BY <1>1, <1>2, <1>3, <1>4, StartedOwners
  <1>6. Named' = Named /\ Grows
    BY <1>3 DEF Named, Grows
  <1>7. ASSUME NEW t \in TID, ctrl'[t] # None PROVE Stays(t) \/ Starts(t)
    <2>1. CASE ctrl[t] # None
      BY <1>4, <1>5, <2>1 DEF Stays, CtrlInv
    <2>2. CASE ctrl[t] = None
      <3>1. t = d /\ ctrl'[t].want /\ ctrl'[t].fetched = FALSE /\ ctrl'[t].armed = FALSE
        BY <1>5, <1>7, <2>2
      <3>2. Wished(t)'
        BY <1>3, <3>1 DEF Wished
      <3> QED
        BY <1>3, <3>1, <3>2 DEF Starts
    <2> QED
      BY <2>1, <2>2
  <1>8. CtrlInv'
    BY <1>3, <1>4, <1>6, <1>7, CtrlsKept
  <1>9. ConfInv'
    BY <1>3, <1>4 DEF ConfInv
  <1>10. PageInv'
    BY <1>3, <1>4 DEF PageInv, ToSet
  <1>11. DiscoveredInv'
    BY <1>3, <1>4, <1>5, <1>6 DEF DiscoveredInv
  <1>12. SavedInv'
    BY <1>3, SavedKept DEF StableInv, SourcesInv
  <1> QED
    BY <1>5, <1>8, <1>9, <1>10, <1>11, <1>12 DEF StableInv, SourcesInv

(* process_dlp() starts I/O controllers, and the page it caches is the one *)
(* of the DC.                                                              *)
LEMMA StableDlpRead ==
  ASSUME Unchanged, Inv, StableInv, NEW d \in DC, NEW log \in Pages[d], on_dlp_read(d, log)
  PROVE  StableInv' /\ OwnersKept
PROOF
  <1> DEFINE S == Entries(d, log)
             read == [ctrl[d] EXCEPT !.read = "no", !.fetched = TRUE]
             e == IF ctrl[d].read = "again" THEN Fetch(read) ELSE read
             base == [ctrl EXCEPT ![d] = e]
  <1>1. S \subseteq IOC /\ S \in SUBSET TID /\ d \in TID /\ DC \cap IOC = {}
    BY InventoryAssumption DEF InventoryAssumption, Entries, TID, Unchanged
  <1>2. start_ctrls(base, S, {}, DesiredNow)
    BY DEF on_dlp_read, Refusals, Unchanged
  <1>3. /\ UNCHANGED <<cfg, discovered, lookup, phase, saved, file, conf, excluded, conn>>
        /\ cache' = (IF d \in ToSet(cache) THEN cache ELSE <<d>> \o cache)
        /\ dlp' = [dlp EXCEPT ![d] = log] /\ phase = "idle"
    BY DEF on_dlp_read, update_dlp, disk, Ready
  <1>4. /\ ConfInv /\ PageInv /\ CtrlInv /\ DiscoveredInv /\ OwnInv /\ excluded = {}
        /\ ctrl \in [TID -> Ctrl \cup {None}] /\ discovered \subseteq TID /\ CacheInv
        /\ InventoryInv
    BY DEF Inv, TypeInv, DaemonType, InventoryInv, CacheInv, TID, StableInv, SourcesInv,
       ConfInv
  <1>5. /\ e \in Ctrl /\ ctrl[d] # None /\ e.armed = FALSE /\ e.want = ctrl[d].want
        /\ e.retry = ctrl[d].retry /\ e.link = ctrl[d].link
    <2>1. ctrl[d] \in Ctrl /\ ctrl[d] # None /\ ctrl[d].armed = FALSE
      BY <1>1, <1>4, TrackedCtrl DEF on_dlp_read, Inv, TypeInv, CtrlInv
    <2>2. /\ read \in Ctrl /\ read.armed = FALSE /\ read.want = ctrl[d].want
          /\ read.retry = ctrl[d].retry /\ read.link = ctrl[d].link
      BY <2>1 DEF Ctrl
    <2> HIDE DEF read
    <2> QED
      BY <2>1, <2>2, FetchType, FetchKeeps
  <1>6. None \notin Ctrl
    BY DesiredAssumption DEF DesiredAssumption
  <1> HIDE DEF e
  <1>7. /\ base \in [TID -> Ctrl \cup {None}]
        /\ \A t \in TID : base[t] = IF t = d THEN e ELSE ctrl[t]
    BY <1>1, <1>4, <1>5
  <1>8. \A t \in TID : /\ base[t] # None <=> ctrl[t] # None
                       /\ ctrl[t] # None => /\ base[t].retry = ctrl[t].retry
                                            /\ base[t].link = ctrl[t].link
    BY <1>5, <1>6, <1>7
  <1> HIDE DEF base, S
  <1>9. /\ \A t \in TID : ctrl[t] # None => ctrl'[t] = base[t]
        /\ \A t \in TID : ctrl[t] = None /\ ctrl'[t] # None =>
                /\ t \in S /\ ctrl'[t].want = (t \in DesiredNow)
                /\ ctrl'[t].fetched = FALSE /\ ctrl'[t].armed = FALSE
        /\ OwnInv' /\ OwnersKept
    BY <1>1, <1>2, <1>3, <1>4, <1>7, <1>8, StartedOwners
  <1>10. ToSet(cache') = ToSet(cache) \cup {d}
    <2>1. CASE d \in ToSet(cache)
      BY <1>3, <2>1
    <2>2. CASE d \notin ToSet(cache)
      BY <1>3, <1>4, <2>2, PrependProperties DEF CacheInv
    <2> QED
      BY <2>1, <2>2
  <1>11. /\ dlp'[d] = log
         /\ \A x \in ToSet(cache) : dlp'[x] = dlp[x]
    <2>1. ToSet(cache) \subseteq DC /\ dlp \in [DC -> SUBSET TID]
      BY <1>4, CachedAreDcs DEF CacheInv
    <2>2. d \in ToSet(cache) => dlp[d] = log
      BY <1>4 DEF PageInv, Unchanged
    <2> QED
      BY <1>3, <2>1, <2>2
  <1>12. Named' = Named /\ Grows
    BY <1>3, <1>10, <1>11 DEF Named, Grows
  <1>13. ASSUME NEW t \in TID, ctrl'[t] # None PROVE Stays(t) \/ Starts(t)
    <2>1. CASE t = d
      <3>1. ctrl'[t] = e
        BY <1>5, <1>7, <1>9, <2>1
      <3> QED
        BY <1>5, <1>10, <2>1, <3>1 DEF Stays
    <2>2. CASE t # d /\ ctrl[t] # None
      BY <1>4, <1>7, <1>9, <2>2 DEF Stays, CtrlInv
    <2>3. CASE ctrl[t] = None
      <3>1. /\ t \in IOC /\ t \notin DC /\ ctrl'[t].want = (t \in DesiredNow)
            /\ ctrl'[t].fetched = FALSE /\ ctrl'[t].armed = FALSE
        BY <1>1, <1>9, <1>13, <2>3
      <3>2. t \in DesiredNow => Wished(t)
        BY <1>4, DesiredIsWished DEF DesiredNow
      <3>3. t \in DesiredNow => Wished(t)'
        BY <1>12, <3>2, WishedKept DEF Grows
      <3> QED
        BY <3>1, <3>3 DEF Starts
    <2> QED
      BY <2>1, <2>2, <2>3
  <1>14. CtrlInv'
    BY <1>3, <1>4, <1>12, <1>13, CtrlsKept
  <1>15. ConfInv'
    BY <1>3, <1>4 DEF ConfInv
  <1>16. PageInv'
    <2>1. ToSet(cache)' = ToSet(cache')
      BY DEF ToSet
    <2> QED
      BY <1>4, <1>10, <1>11, <2>1 DEF PageInv
  <1>17. DiscoveredInv'
    BY <1>3, <1>4, <1>7, <1>8, <1>9, <1>12 DEF DiscoveredInv
  <1>18. SavedInv'
    BY <1>3, SavedKept DEF StableInv, SourcesInv
  <1> QED
    BY <1>9, <1>14, <1>15, <1>16, <1>17, <1>18 DEF StableInv, SourcesInv

--------------------------------------------------------------------------------
(* The release pass *)

(* What a pass finds desired is everything that is wished, so that it      *)
(* releases no tracked controller.                                         *)
LEMMA NothingUndesired ==
  ASSUME Unchanged, Inv, SourcesInv, phase = "idle", ~config_pending
  PROVE  /\ conf.num \cup conf.name \subseteq cfg
         /\ \A t \in TID : Wished(t) => is_desired(t)
         /\ Undesired = {}
PROOF
  <1>1. InventoryInv /\ ConfInv /\ PageInv /\ CtrlInv /\ conf \in Confs
    BY DEF Inv, TypeInv, SystemType, SourcesInv
  <1>2. conf.num \cup conf.name \subseteq cfg
    BY <1>1, NamesResolved
  <1>3. \A t \in TID : Wished(t) => is_desired(t)
    BY <1>1, <1>2, DesiredIsWished
  <1>4. Undesired = {}
    BY <1>1, <1>3 DEF Undesired, Tracked, ConfInv, CtrlInv
  <1> QED
    BY <1>2, <1>3, <1>4

(* What the pass makes of the tracked controllers. *)
Refreshed(c) ==
    \A t \in TID :
        /\ c[t] # None <=> ctrl[t] # None
        /\ ctrl[t] # None => /\ c[t].want => Wished(t)
                             /\ Wished(t) /\ ctrl[t].want => c[t].want
                             /\ c[t].fetched = ctrl[t].fetched /\ c[t].armed = ctrl[t].armed
                             /\ c[t].retry = ctrl[t].retry /\ c[t].link = ctrl[t].link

(* The saved lines that do not wait are desired again: the pass decides    *)
(* none of them.                                                           *)
LEMMA NothingDecided ==
  ASSUME Unchanged, Inv, SourcesInv, phase = "idle", ~config_pending,
         NEW c, Refreshed(c)
  PROVE  Decided(c) = {}
PROOF
  <1>1. /\ InventoryInv /\ ConfInv /\ PageInv /\ CtrlInv /\ SavedInv /\ saved \subseteq Line
        /\ conf \in Confs
    BY DEF Inv, TypeInv, LineInv, SystemType, SourcesInv
  <1>2. \A t \in TID : Wished(t) => is_desired(t)
    BY NothingUndesired
  <1> SUFFICES ASSUME NEW s \in saved, ~Waits(s, c), c[s.tid] = None, ~is_desired(s.tid)
               PROVE  FALSE
    BY DEF Decided
  <1>3. /\ s.tid \in TID /\ s.source \in {"nbft", "config", "dlp"}
        /\ Explained(s, discovered)
    BY <1>1 DEF Line, SavedInv
  <1>4. s.tid \notin Named
    BY <1>2, <1>3 DEF Wished
  <1>5. /\ s.source = "dlp" /\ s.tid \in IOC /\ s.parent \in DC
        /\ s.parent \in Named \cup discovered
        /\ \A log \in Pages[s.parent] : s.tid \in log
    BY <1>3, <1>4 DEF Explained, Named
  <1>6. s.parent \in TID /\ s.parent # None /\ is_desired(s.parent)
    BY <1>2, <1>5, InventoryAssumption DEF Wished, TID, InventoryAssumption
  <1>7. c[s.parent] # None /\ c[s.parent].fetched
    BY <1>5, <1>6 DEF Waits
  <1>8. s.parent \in ToSet(cache)
    BY <1>1, <1>5, <1>6, <1>7 DEF Refreshed, CtrlInv
  <1>9. s.tid \in dlp[s.parent]
    BY <1>1, <1>5, <1>8 DEF PageInv
  <1>10. Wished(s.tid)
    BY <1>5, <1>8, <1>9 DEF Wished
  <1> QED
    BY <1>2, <1>3, <1>10

(* The lines that the pass writes are explained by each other. *)
LEMMA LinesExplained ==
  ASSUME Unchanged, Inv, SourcesInv, phase = "idle", ~config_pending, NEW c, Refreshed(c)
  PROVE  /\ \A s \in Lines(c) : Explained(s, discovered)
         /\ \A d \in discovered \ Named :
                \E s \in Lines(c) : s.source = "discovered" /\ s.tid = d
PROOF
  <1> DEFINE T == {t \in TID : c[t] # None /\ c[t].want /\ source(t).source # None}
             L(t) == [tid |-> t, source |-> source(t).source, parent |-> source(t).parent]
  <1>1. Lines(c) = {L(t) : t \in T}
    BY DEF Lines
  <1>2. /\ InventoryInv /\ CacheInv /\ ConfInv /\ PageInv /\ CtrlInv /\ DiscoveredInv
        /\ discovered \subseteq DC /\ DC \subseteq TID
    BY DEF Inv, TypeInv, InventoryInv, CacheInv, SourcesInv, TID
  <1>3. ASSUME NEW t \in TID, t \in T PROVE Explained(L(t), discovered)
    <2>1. CASE t \in Nbft
      <3>1. source(t) = [source |-> "nbft", parent |-> None]
        BY <2>1, Zenon DEF source
      <3> QED
        BY <2>1, <3>1 DEF Explained
    <2>2. CASE t \in cfg \ Nbft
      <3>1. source(t) = [source |-> "config", parent |-> None]
        BY <2>2, Zenon DEF source
      <3> QED
        BY <1>2, <2>2, <3>1 DEF Explained, ConfInv
    <2>3. CASE t \in discovered \ (Nbft \cup cfg)
      <3>1. source(t) = [source |-> "discovered", parent |-> None]
        BY <2>3, Zenon DEF source
      <3> QED
        BY <1>2, <2>3, <3>1 DEF Explained, ConfInv
    <2>4. CASE t \notin Nbft \cup cfg \cup discovered /\ Listing(t) # {}
      <3> DEFINE p == cache[SelectInSeq(cache, LAMBDA d : d \in Listing(t))]
      <3>1. source(t) = [source |-> "dlp", parent |-> p]
        BY <2>4, Zenon DEF source
      <3>2. p \in Listing(t)
        BY <1>2, <2>4, ListingParent
      <3> HIDE DEF p
      <3>3. p \in ToSet(cache) /\ t \in dlp[p] /\ referral_hops(p) >= 0
        BY <3>2 DEF Listing
      <3>4. p \in DC /\ p \in Roots /\ t \in IOC
        BY <1>2, <3>3, NoReferrals, CachedAreDcs
      <3>5. p \in Named \cup discovered
        BY <1>2, <3>4 DEF Roots, Named, ConfInv
      <3>6. \A log \in Pages[p] : t \in log
        BY <1>2, <3>3, <3>4 DEF PageInv, Unchanged
      <3> QED
        BY <3>1, <3>4, <3>5, <3>6 DEF Explained
    <2>5. CASE t \notin Nbft \cup cfg \cup discovered /\ Listing(t) = {}
      <3>1. source(t) = [source |-> None, parent |-> None]
        BY <2>5, Zenon DEF source
      <3> QED
        BY <1>3, <3>1
    <2> QED
      BY <2>1, <2>2, <2>3, <2>4, <2>5
  <1>4. ASSUME NEW d \in discovered \ Named
        PROVE  d \in T /\ L(d).source = "discovered" /\ L(d).tid = d
    <2>1. d \in discovered \ (Nbft \cup cfg) /\ d \in TID
      BY <1>2 DEF Named, ConfInv
    <2>2. source(d) = [source |-> "discovered", parent |-> None]
      BY <2>1, Zenon DEF source
    <2>3. ctrl[d] # None /\ ctrl[d].want /\ Wished(d)
      BY <1>2, <2>1 DEF DiscoveredInv, CtrlInv, Wished
    <2>4. c[d] # None /\ c[d].want
      BY <2>1, <2>3 DEF Refreshed
    <2>5. source(d).source # None
      BY <2>2, InventoryAssumption DEF InventoryAssumption
    <2> QED
      BY <2>1, <2>2, <2>4, <2>5
  <1> HIDE DEF L
  <1>5. \A t \in T : t \in TID
    OBVIOUS
  <1> HIDE DEF T
  <1> QED
    BY <1>1, <1>3, <1>4, <1>5

(* A pass releases nothing, and its file brings everything back. *)
LEMMA StableRelease ==
  ASSUME Unchanged, Inv, StableInv, release_undesired
  PROVE  StableInv' /\ OwnersKept
PROOF
  <1> DEFINE left == [t \in TID |-> IF t \in Undesired THEN None ELSE ctrl[t]]
             c == [t \in TID |-> IF left[t] = None \/ is_nbft(t) THEN left[t]
                                 ELSE [left[t] EXCEPT !.want = is_desired(t)]]
             gone == Undesired \cup Decided(c)
  <1>1. /\ ctrl' = c /\ saved' = {s \in saved : Waits(s, c)} /\ file' = Lines(c) \cup saved'
        /\ release_units(gone) /\ phase = "idle" /\ ~config_pending
        /\ UNCHANGED <<inventory, phase, conf, excluded, conn>>
    BY DEF release_undesired
  <1>2. /\ SourcesInv /\ ConfInv /\ PageInv /\ CtrlInv /\ DiscoveredInv /\ SavedInv /\ OwnInv
        /\ ctrl \in [TID -> Ctrl \cup {None}] /\ InventoryInv /\ discovered \subseteq TID
    BY DEF Inv, TypeInv, DaemonType, InventoryInv, CacheInv, TID, StableInv, SourcesInv
  <1>3. Undesired = {} /\ \A t \in TID : Wished(t) <=> is_desired(t)
    BY <1>1, <1>2, NothingUndesired, DesiredIsWished
  <1>4. \A t \in TID : left[t] = ctrl[t]
    BY <1>3
  <1> HIDE DEF left
  <1>5. Refreshed(c)
    <2> SUFFICES ASSUME NEW t \in TID
                 PROVE  /\ c[t] # None <=> ctrl[t] # None
                        /\ ctrl[t] # None =>
                                /\ c[t].want => Wished(t)
                                /\ Wished(t) /\ ctrl[t].want => c[t].want
                                /\ c[t].fetched = ctrl[t].fetched
                                /\ c[t].armed = ctrl[t].armed
                                /\ c[t].retry = ctrl[t].retry /\ c[t].link = ctrl[t].link
      BY DEF Refreshed
    <2>1. CASE ctrl[t] = None \/ is_nbft(t)
      <3>1. c[t] = ctrl[t]
        BY <1>4, <2>1
      <3> QED
        BY <1>2, <3>1 DEF CtrlInv
    <2>2. CASE ctrl[t] # None /\ ~is_nbft(t)
      <3>1. ctrl[t] \in Ctrl
        BY <1>2, <2>2
      <3>2. c[t] = [ctrl[t] EXCEPT !.want = is_desired(t)]
        BY <1>4, <2>2
      <3>3. is_desired(t) \in BOOLEAN
        BY Zenon DEF is_desired
      <3> HIDE DEF c
      <3>4. c[t] \in Ctrl /\ c[t].want = is_desired(t)
        BY <3>1, <3>2, <3>3, WantUpdate, Zenon
      <3>5. c[t] # None
        BY <3>4, DesiredAssumption DEF DesiredAssumption
      <3>6. /\ c[t].fetched = ctrl[t].fetched /\ c[t].armed = ctrl[t].armed
            /\ c[t].retry = ctrl[t].retry /\ c[t].link = ctrl[t].link
        BY <3>1, <3>2 DEF Ctrl
      <3>7. (c[t].want <=> Wished(t))
        BY <1>3, <3>4
      <3> QED
        BY <2>2, <3>5, <3>6, <3>7
    <2> QED
      BY <2>1, <2>2
  <1>6. Decided(c) = {}
    BY <1>1, <1>2, <1>5, NothingDecided
  <1> HIDE DEF c
  <1>7. own' = own /\ \A t \in TID : unit'[t] = unit[t]
    BY <1>1, <1>3, <1>6 DEF release_units
  <1>8. OwnersKept
    BY <1>7 DEF OwnersKept
  <1>9. OwnInv'
    BY <1>1, <1>2, <1>5, <1>7 DEF OwnInv, Refreshed, Inv, TypeInv, SystemType
  <1>10. Named' = Named /\ Grows
    BY <1>1 DEF Named, Grows, inventory
  <1>11. ConfInv' /\ PageInv'
    BY <1>1, <1>2 DEF ConfInv, PageInv, inventory, ToSet
  <1>12. DiscoveredInv'
    BY <1>1, <1>2, <1>5, <1>10 DEF DiscoveredInv, Refreshed, inventory
  <1>13. CtrlInv'
    <2> SUFFICES ASSUME NEW t \in TID, ctrl'[t] # None
                 PROVE  /\ phase' # "down" /\ ctrl'[t].armed = FALSE
                        /\ ctrl'[t].want => Wished(t)'
                        /\ t \in DC => ctrl'[t].want /\ t \in (Named \cup discovered)'
                        /\ t \in DC /\ ctrl'[t].fetched => t \in ToSet(cache)'
      BY DEF CtrlInv
    <2>1. ToSet(cache)' = ToSet(cache)
      BY <1>1 DEF inventory, ToSet
    <2>2. Wished(t) => Wished(t)'
      BY <1>10, WishedKept DEF Grows
    <2>3. t \in DC => Wished(t) /\ ctrl[t].want
      BY <1>1, <1>2, <1>5 DEF Refreshed, CtrlInv
    <2> QED
      BY <1>1, <1>2, <1>5, <1>10, <2>1, <2>2, <2>3 DEF Refreshed, CtrlInv, inventory
  <1>14. SavedInv'
    <2>1. /\ \A s \in Lines(c) : Explained(s, discovered)
          /\ \A d \in discovered \ Named :
                \E s \in Lines(c) : s.source = "discovered" /\ s.tid = d
      BY <1>1, <1>2, <1>5, LinesExplained
    <2>2. \A s \in saved' : s \in saved /\ Explained(s, discovered)
      BY <1>1, <1>2 DEF SavedInv
    <2>3. discovered \ Named \subseteq FileDcs'
      BY <1>1, <2>1 DEF FileDcs
    <2>4. \A s \in file' : Explained(s, FileDcs')
      BY <1>1, <2>1, <2>2, <2>3 DEF Explained
    <2>5. \A s \in file' : Explained(s, FileDcs)'
      BY <1>1, <2>4 DEF Explained, Named
    <2>6. \A s \in saved' : Explained(s, discovered)' /\ s.source # "discovered"
      BY <1>1, <1>2, <2>2 DEF Explained, Named, SavedInv, inventory
    <2> QED
      BY <2>5, <2>6 DEF SavedInv
  <1> QED
    BY <1>8, <1>9, <1>11, <1>12, <1>13, <1>14 DEF StableInv, SourcesInv

--------------------------------------------------------------------------------
(* The other steps *)

(* A unit connects or fails, a connection drops, or a pass is postponed. *)
LEMMA StableOutside ==
  ASSUME Inv, StableInv,
         \/ release_postponed \/ UNCHANGED vars
         \/ \E t \in TID : UnitConnects(t) \/ UnitFails(t) \/ ConnectionLost(t)
  PROVE  StableInv' /\ OwnersKept
PROOF
  <1>1. UNCHANGED <<inventory, phase, saved, file, conf, excluded, ctrl>>
    BY DEF release_postponed, vars, UnitConnects, UnitFails, ConnectionLost, daemon, disk
  <1>2. \A t \in TID : ctrl'[t] # None => Stays(t)
    BY <1>1 DEF Stays, StableInv, SourcesInv, CtrlInv
  <1>3. SourcesInv'
    BY <1>1, <1>2, SourcesKept DEF StableInv
  <1>4. own \subseteq TID /\ unit \in [TID -> {"none", "starting", "active"}]
    BY DEF Inv, TypeInv, SystemType
  <1>5. CASE release_postponed \/ UNCHANGED vars
    <2>1. UNCHANGED <<own, unit, conn>>
      BY <1>5 DEF release_postponed, vars, system
    <2> QED
      BY <1>1, <1>3, <2>1 DEF StableInv, OwnInv, OwnersKept
  <1>6. ASSUME NEW t \in TID, UnitConnects(t) PROVE OwnInv' /\ OwnersKept
    <2>1. /\ unit[t] = "starting" /\ own' = own \cup {t}
          /\ \A u \in TID : unit'[u] = IF u = t THEN "active" ELSE unit[u]
      BY <1>4, <1>6 DEF UnitConnects
    <2> QED
      BY <1>1, <1>4, <2>1 DEF StableInv, OwnInv, OwnersKept
  <1>7. ASSUME NEW t \in TID, UnitFails(t) PROVE OwnInv' /\ OwnersKept
    <2>1. /\ unit[t] = "starting" /\ own' = own
          /\ \A u \in TID : unit'[u] = IF u = t THEN "none" ELSE unit[u]
      BY <1>4, <1>7 DEF UnitFails
    <2> QED
      BY <1>1, <1>4, <2>1 DEF StableInv, OwnInv, OwnersKept
  <1>8. ASSUME NEW t \in TID, ConnectionLost(t) PROVE OwnInv' /\ OwnersKept
    BY <1>1, <1>8 DEF ConnectionLost, StableInv, OwnInv, OwnersKept
  <1> QED
    BY <1>3, <1>5, <1>6, <1>7, <1>8 DEF StableInv

(* The steps that Unchanged rules out: no deadline passes, no lookup waits *)
(* for a retry, and no exclusion is written.                               *)
LEMMA RuledOut ==
  ASSUME Unchanged, Inv, StableInv
  PROVE  /\ \A d \in DC : ~give_up(d)
         /\ \A t \in TID : ~LookupRetry(t)
         /\ \A x \in Exclusions : ~EditExclusions(x)
PROOF
  <1>1. ASSUME NEW d \in DC, give_up(d) PROVE FALSE
    BY <1>1, TrackedCtrl DEF give_up, StableInv, SourcesInv, CtrlInv, Inv, TypeInv
  <1>2. ASSUME NEW t \in TID, LookupRetry(t) PROVE FALSE
    BY <1>2 DEF LookupRetry, retry_lookup, StableInv, SourcesInv, ConfInv
  <1>3. ASSUME NEW x \in Exclusions, EditExclusions(x) PROVE FALSE
    BY <1>3 DEF EditExclusions, StableInv, SourcesInv, ConfInv, Unchanged
  <1> QED
    BY <1>1, <1>2, <1>3

(* A configuration is loaded: every name is looked up. *)
LEMMA LoadedConf ==
  ASSUME Unchanged, NEW c \in Confs, NEW failed \in Failures(c), load_config(c, failed),
         conf' = c, excluded = {}, UNCHANGED excluded, discovered' \subseteq Mdns
  PROVE  ConfInv'
PROOF
  <1>1. failed = {} /\ cfg' = c.num
    BY DEF Failures, Unchanged, load_config
  <1>2. ASSUME NEW t \in TID PROVE lookup'[t] = IF t \in c.name THEN "first" ELSE "none"
    <2>1. lookup'[t] = CASE t \in c.name \ failed -> "first"
                         [] t \in c.name \cap failed -> "wait"
                         [] OTHER -> "none"
      BY DEF load_config
    <2>2. t \in c.name => t \in c.name \ failed
      BY <1>1
    <2>3. CASE t \in c.name
      BY <2>1, <2>2, <2>3, <1>1
    <2>4. CASE t \notin c.name
      <3>1. lookup'[t] = "none"
        BY <2>1, <2>4, Zenon
      <3> QED
        BY <2>4, <3>1
    <2> QED
      BY <2>3, <2>4
  <1>3. c.name \subseteq TID
    BY InventoryAssumption DEF InventoryAssumption
  <1> QED
    BY <1>1, <1>2, <1>3 DEF ConfInv

(* reload_config() takes nothing away: the names it looks up again hold up *)
(* the pass.                                                               *)
LEMMA StableReload ==
  ASSUME Unchanged, Inv, Inv', StableInv, NEW c \in Confs, reload_config(c)
  PROVE  StableInv' /\ OwnersKept
PROOF
  <1>1. PICK failed \in Failures(c) : load_config(c, failed)
    BY DEF reload_config
  <1>2. /\ UNCHANGED <<discovered, cache, dlp, ctrl, saved, file, excluded, own, unit, conn>>
        /\ phase' = "connect" /\ phase = "idle" /\ conf' = c
    BY DEF reload_config, system, Ready
  <1>3. Named' = Named /\ conf' = conf
    BY SameConf
  <1>4. ConfInv'
    BY <1>1, <1>2, LoadedConf DEF StableInv, SourcesInv, ConfInv
  <1>5. PageInv'
    BY <1>2 DEF StableInv, SourcesInv, PageInv, ToSet
  <1>6. Grows
    BY <1>2 DEF Grows
  <1>7. CtrlInv'
    BY <1>2, <1>3, <1>6, CtrlsKept DEF StableInv, SourcesInv, CtrlInv, Stays
  <1>8. DiscoveredInv'
    BY <1>2 DEF DiscoveredInv
  <1>9. SavedInv'
    BY <1>2, <1>3, SavedKept DEF StableInv, SourcesInv
  <1>10. OwnInv' /\ OwnersKept
    BY <1>2 DEF StableInv, OwnInv, OwnersKept
  <1> QED
    BY <1>4, <1>5, <1>7, <1>8, <1>9, <1>10 DEF StableInv, SourcesInv

(* A daemon that starts takes the discovered DCs from the file. *)
LEMMA StableBoot ==
  ASSUME Unchanged, Inv, Inv', StableInv, NEW c \in Confs, Boot(c)
  PROVE  StableInv' /\ OwnersKept
PROOF
  <1>1. PICK failed \in Failures(c) : load_config(c, failed)
    BY DEF Boot
  <1>2. /\ UNCHANGED <<cache, dlp, ctrl, file, excluded, own, unit, conn>>
        /\ phase = "down" /\ phase' = "connect" /\ conf' = c
        /\ discovered' = FileDcs /\ saved' = {s \in file : s.source # "discovered"}
    BY DEF Boot, load_saved, FileDcs, system
  <1>3. Named' = Named /\ conf' = conf
    BY SameConf
  <1>4. \A s \in file : Explained(s, FileDcs)
    BY DEF StableInv, SourcesInv, SavedInv
  <1>5. FileDcs \subseteq Mdns
    BY <1>4 DEF FileDcs, Explained
  <1>6. ConfInv'
    BY <1>1, <1>2, <1>5, LoadedConf DEF StableInv, SourcesInv, ConfInv
  <1>7. PageInv'
    BY <1>2 DEF StableInv, SourcesInv, PageInv, ToSet
  <1>8. CtrlInv' /\ DiscoveredInv'
    BY <1>2 DEF StableInv, SourcesInv, CtrlInv, DiscoveredInv
  <1>9. SavedInv'
    <2>1. FileDcs' = FileDcs
      BY <1>2 DEF FileDcs
    <2>2. \A s \in file' : Explained(s, FileDcs)'
      BY <1>2, <1>3, <1>4, <2>1 DEF Explained, Named
    <2>3. \A s \in saved' : Explained(s, discovered)' /\ s.source # "discovered"
      BY <1>2, <1>3, <1>4 DEF Explained, Named
    <2> QED
      BY <2>2, <2>3 DEF SavedInv
  <1>10. OwnInv' /\ OwnersKept
    BY <1>2 DEF StableInv, OwnInv, OwnersKept
  <1> QED
    BY <1>6, <1>7, <1>8, <1>9, <1>10 DEF StableInv, SourcesInv

(* The daemon ends: its file stays. *)
LEMMA StableCrash ==
  ASSUME Unchanged, Inv, StableInv, Crash
  PROVE  StableInv' /\ OwnersKept
PROOF
  <1>1. /\ UNCHANGED <<file, conf, excluded, own, unit, conn>> /\ phase' = "down"
        /\ ctrl' = [t \in TID |-> None] /\ saved' = {} /\ cfg' = {} /\ discovered' = {}
        /\ cache' = <<>> /\ lookup' = [t \in TID |-> "none"]
    BY DEF Crash, disk, system
  <1>2. ConfInv'
    BY <1>1 DEF ConfInv, StableInv, SourcesInv
  <1>3. PageInv'
    <2>1. ToSet(cache') = {}
      BY <1>1 DEF ToSet
    <2> QED
      BY <2>1 DEF PageInv, ToSet
  <1>4. CtrlInv' /\ DiscoveredInv' /\ OwnInv' /\ OwnersKept
    BY <1>1 DEF CtrlInv, DiscoveredInv, StableInv, OwnInv, OwnersKept
  <1>5. SavedInv'
    <2>1. FileDcs' = FileDcs
      BY <1>1 DEF FileDcs
    <2> QED
      BY <1>1, <2>1 DEF StableInv, SourcesInv, SavedInv, Explained, Named
  <1> QED
    BY <1>2, <1>3, <1>4, <1>5 DEF StableInv, SourcesInv

(* A lookup ends with an address: the name is configured. *)
LEMMA StableLookup ==
  ASSUME Unchanged, Inv, StableInv, NEW t \in TID, NEW resolved \in BOOLEAN,
         on_config_lookup(t, resolved)
  PROVE  StableInv' /\ OwnersKept
PROOF
  <1>1. /\ resolved /\ lookup[t] \in {"first", "again"}
        /\ lookup' = [lookup EXCEPT ![t] = "none"] /\ cfg' = cfg \cup {t}
        /\ phase = "idle" /\ phase' = "connect"
        /\ UNCHANGED <<discovered, cache, dlp, ctrl, saved, file, conf, excluded, own, unit,
                       conn>>
    BY DEF on_config_lookup, on_lookup, disk, system, Ready, Unchanged
  <1>2. /\ t \in conf.name
        /\ \A u \in TID : lookup'[u] = IF u = t THEN "none" ELSE lookup[u]
    BY <1>1 DEF StableInv, SourcesInv, ConfInv, Inv, TypeInv, InventoryInv, LookupInv
  <1>3. conf.name \subseteq TID
    BY InventoryAssumption DEF InventoryAssumption, Inv, TypeInv, SystemType
  <1>4. ConfInv'
    BY <1>1, <1>2, <1>3 DEF StableInv, SourcesInv, ConfInv
  <1>5. PageInv'
    BY <1>1 DEF StableInv, SourcesInv, PageInv, ToSet
  <1>6. Named' = Named /\ Grows
    BY <1>1 DEF Named, Grows
  <1>7. CtrlInv'
    BY <1>1, <1>6, CtrlsKept DEF StableInv, SourcesInv, CtrlInv, Stays
  <1>8. DiscoveredInv'
    BY <1>1 DEF DiscoveredInv
  <1>9. SavedInv'
    BY <1>1, SavedKept DEF StableInv, SourcesInv
  <1>10. OwnInv' /\ OwnersKept
    BY <1>1 DEF StableInv, OwnInv, OwnersKept
  <1> QED
    BY <1>4, <1>5, <1>7, <1>8, <1>9, <1>10 DEF StableInv, SourcesInv

(* StableInv is inductive, and no step takes a unit from a live connection. *)
LEMMA StableStep ==
  ASSUME Unchanged, Inv, Inv', StableInv, [Next]_vars
  PROVE  StableInv' /\ OwnersKept
PROOF
  <1>0. \A d \in DC : d \in TID
    BY DEF TID
  <1>1. CASE Loop
    BY <1>0, <1>1, StableConnect, StableRelease, StableOutside, StableDlpRead, StableUpdates,
       StableRetryTimeout, StableNvmeRemove DEF Loop
  <1>2. CASE Environment
    BY <1>0, <1>2, StableUpdates, RuledOut, StableMdnsAdd, StableOutside, StableLookup,
       StableReload, StableBoot, StableCrash DEF Environment
  <1>3. CASE UNCHANGED vars
    BY <1>3, StableOutside
  <1> QED
    BY <1>1, <1>2, <1>3 DEF Next

(* Under Unchanged, for any controllers, firmware, configuration and pages *)
(* and any number of reloads, losses, failed connects and ends of the      *)
(* daemon, no live connection ever loses its unit: release_undesired() and *)
(* decide_saved() release nothing, and start_ctrl() adopts what it finds.  *)
THEOREM UnchangedKeepsOwners ==
  ASSUME Unchanged
  PROVE  Spec => UnchangedReleasesNothing
PROOF
  <1>1. Init => StableInv
    <2> SUFFICES ASSUME Init PROVE StableInv
      OBVIOUS
    <2>1. ToSet(cache) = {}
      BY DEF Init, InventoryInit, ToSet
    <2> QED
      BY <2>1 DEF Init, InventoryInit, StableInv, SourcesInv, ConfInv, PageInv, CtrlInv,
         DiscoveredInv, SavedInv, OwnInv
  <1>2. Inv /\ Inv' /\ StableInv /\ [Next]_vars => StableInv'
    BY StableStep
  <1>3. Inv /\ Inv' /\ StableInv /\ [Next]_vars
            => [\A t \in own \cap conn : t \in own' \/ t \notin conn']_vars
    BY StableStep DEF OwnersKept
  <1> QED
    BY <1>1, <1>2, <1>3, DesiredInvariance, PTL DEF Spec, UnchangedReleasesNothing

================================================================================
