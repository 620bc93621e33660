-------------------------------- MODULE Desired --------------------------------
(***************************************************************************)
(* What nvme-discoverd tracks, connects and releases (discoverd/src/main.c) *)
(*                                                                         *)
(* The daemon tracks a controller from start_ctrl() on.  A deferred pass,  *)
(* release_undesired(), compares what is desired now with what was desired *)
(* at the last pass, releases the difference (the unit is stopped, the     *)
(* connection stays up and loses its owner) and saves the desired set to a *)
(* file.  A daemon that starts again adopts the units that outlived it and *)
(* decides the saved controllers it does not adopt.                        *)
(*                                                                         *)
(* A handler of the event loop is one action.  The connection of a unit    *)
(* (systemd, the kernel, the target) makes its steps at any time, also     *)
(* while the daemon is down.                                               *)
(***************************************************************************)
EXTENDS Inventory

CONSTANTS
    Mdns,        \* the DCs that mDNS or FC may discover
    Fc,          \* the TIDs of the FC transport
    Exclusions,  \* the exclusion lists an administrator may write
    LookupFails, \* whether a name lookup can fail
    StartFails,  \* whether StartTransientUnit can fail
    GivesUp,     \* whether dc-giveup-timeout can pass
    Serial,      \* whether events are so far apart that a due pass comes first
    MaxReload,   \* bound: edits of the configuration or the exclusions
    MaxCrash,    \* bound: ends of the daemon
    MaxLoss      \* bound: connections that drop, and connects that fail

(* link: devname is set.  want: e->desired.  fetched: e->dlp_fetched.      *)
(* read: no DLP read runs, one runs, one runs and dlp_again is set.        *)
(* retry: retry_timer is set.  armed: the give-up deadline is set.         *)
Ctrl == [link : BOOLEAN, want : BOOLEAN, fetched : BOOLEAN,
         read : {"no", "run", "again"}, retry : BOOLEAN, armed : BOOLEAN]

ASSUME DesiredAssumption ==
    /\ Mdns \subseteq DC /\ Fc \subseteq TID
    /\ Exclusions \subseteq SUBSET TID
    /\ {LookupFails, StartFails, GivesUp, Serial} \subseteq BOOLEAN
    /\ {MaxReload, MaxCrash, MaxLoss} \subseteq Nat
    /\ None \notin Ctrl

VARIABLES
    phase,      \* the daemon: down, starting, inside connect_desired(), idle
    ctrl,       \* g_ctrls: the tracked controllers
    saved,      \* g_saved: saved controllers that are not decided yet
    pending,    \* release_pending
    check,      \* release_check_exclusions
    deferred,   \* adopted DCs whose adopted_dc_fetch() is due
    file,       \* the file of last known desired controllers
    conf,       \* the fabrics configuration on disk
    excluded,   \* the exclusion list on disk
    unit,       \* the systemd unit of each TID
    conn,       \* the TIDs that are connected
    own,        \* the TIDs whose device is recorded as their unit's
    reloads, crashes, losses

daemon == <<phase, ctrl, saved, pending, check, deferred>>
disk == <<file, conf, excluded>>
system == <<unit, conn, own>>
bounds == <<reloads, crashes, losses>>
vars == <<inventory, daemon, disk, system, bounds>>

Line == [tid : TID, source : {"nbft", "config", "discovered", "dlp"},
         parent : DC \cup {None}]

TypeOK ==
    /\ InventoryTypeOK
    /\ phase \in {"down", "connect", "idle"}
    /\ ctrl \in [TID -> Ctrl \cup {None}]
    /\ saved \subseteq Line /\ file \subseteq Line
    /\ pending \in BOOLEAN /\ check \in BOOLEAN
    /\ deferred \subseteq DC
    /\ conf \in Confs /\ excluded \subseteq TID
    /\ unit \in [TID -> {"none", "starting", "active"}]
    /\ conn \subseteq TID /\ own \subseteq TID

Tracked == {t \in TID : ctrl[t] # None}

(* The event loop can run a handler.  sd-event runs the deferred pass      *)
(* before an event that arrives later; with Serial every event does.       *)
Ready == phase = "idle" /\ (Serial => ~pending)

--------------------------------------------------------------------------------
(* Connecting. *)

should_connect(t) == t \notin excluded

DesiredNow == {t \in TID : is_desired(t)}

(* ctrl_add(): a controller is new with the desired state of this moment. *)
NewCtrl(linked, wanted) ==
    [link |-> linked, want |-> wanted, fetched |-> FALSE, read |-> "no",
     retry |-> FALSE, armed |-> FALSE]

(* devname_matches_tid(): the recorded device is still this connection.    *)
Adoptable(t) == unit[t] # "none" /\ t \in own /\ t \in conn

(* start_ctrl() for each TID of S that may connect and is not tracked: it  *)
(* adopts the unit that is still connected, and replaces a stale one.      *)
(* refused: the units that systemd does not start; these are not tracked.  *)
(* base: g_ctrls with the caller's own changes.  wanted: what is desired.  *)
start_ctrls(base, S, refused, wanted) ==
    LET new == {t \in S : should_connect(t) /\ t \notin Tracked}
        adopt == {t \in new : Adoptable(t)}
        started == (new \ adopt) \ refused
    IN  /\ ctrl' = [t \in TID |->
                        IF t \in adopt \cup started
                        THEN NewCtrl(t \in adopt, t \in wanted) ELSE base[t]]
        /\ own' = own \ (new \ adopt)
        /\ unit' = [t \in TID |-> IF t \in started THEN "starting"
                                  ELSE IF t \in new \ adopt THEN "none"
                                  ELSE unit[t]]
        /\ deferred' = deferred \cup (adopt \cap DC)

Refusals(S) == IF StartFails THEN SUBSET S ELSE {{}}

(* connect_desired(), then the schedule_release() of each of its callers.  *)
connect_desired ==
    /\ phase = "connect"
    /\ LET S == desired_dcs \cup desired_iocs IN
       \E refused \in Refusals(S) : start_ctrls(ctrl, S, refused, DesiredNow)
    /\ phase' = "idle"
    /\ pending' = TRUE
    /\ UNCHANGED <<inventory, saved, check, disk, conn, bounds>>

(* A discovered DC that is tracked without a pass. *)
on_mdns_add_NoPass(d) ==
    /\ Ready
    /\ add_discovered_dc(d)
    /\ \E refused \in Refusals({d}) : start_ctrls(ctrl, {d}, refused, {d})
    /\ UNCHANGED <<phase, saved, pending, check, disk, conn, bounds>>

(* on_mdns_add() and on_fc_discovery(). *)
on_mdns_add(d) ==
    /\ Ready
    /\ add_discovered_dc(d)
    /\ \E refused \in Refusals({d}) : start_ctrls(ctrl, {d}, refused, {d})
    /\ pending' = (pending \/ ctrl' # ctrl)
    /\ UNCHANGED <<phase, saved, check, disk, conn, bounds>>

--------------------------------------------------------------------------------
(* The release pass. *)

(* The lines that save_desired() writes for the tracked controllers c. *)
Lines(c) ==
    {[tid |-> t, source |-> source(t).source, parent |-> source(t).parent] :
        t \in {t \in TID : /\ c[t] # None
                           /\ c[t].want
                           /\ source(t).source # None}}

(* decide_saved() that does not wait for the DC that listed s. *)
Waits_Never(s, c) == FALSE

(* A saved controller of a log page waits until its DC is fetched again.   *)
Waits(s, c) ==
    /\ c[s.tid] = None /\ ~is_desired(s.tid)
    /\ s.source = "dlp" /\ s.parent # None
    /\ is_desired(s.parent)
    /\ c[s.parent] = None \/ ~c[s.parent].fetched

(* decide_saved(): a saved controller that nothing wants is released. *)
Decided(c) ==
    {s.tid : s \in {s \in saved : /\ ~Waits(s, c)
                                  /\ c[s.tid] = None /\ ~is_desired(s.tid)}}

(* The tracked controllers a pass releases.  NBFT ones never are. *)
Undesired ==
    {t \in Tracked : /\ ~is_nbft(t)
                     /\ \/ check /\ t \in excluded
                        \/ ctrl[t].want /\ ~is_desired(t)}

(* release_unit(): the state files go first, so that stopping the unit     *)
(* leaves the connection up, without an owner.                             *)
release_units(gone) ==
    /\ own' = own \ gone
    /\ unit' = [t \in TID |-> IF t \in gone THEN "none" ELSE unit[t]]

(* release_undesired(): release, decide the saved ones, write the file.    *)
(* ctrl_remove() schedules one more pass.                                  *)
release_undesired ==
    /\ phase = "idle" /\ pending /\ ~config_pending
    /\ LET left == [t \in TID |-> IF t \in Undesired THEN None ELSE ctrl[t]]
           c == [t \in TID |-> IF left[t] = None \/ is_nbft(t) THEN left[t]
                               ELSE [left[t] EXCEPT !.want = is_desired(t)]]
           gone == Undesired \cup Decided(c)
       IN  /\ ctrl' = c
           /\ saved' = {s \in saved : Waits(s, c)}
           /\ file' = Lines(c) \cup saved'
           /\ pending' = (Undesired # {})
           /\ release_units(gone)
    /\ check' = FALSE
    /\ UNCHANGED <<inventory, phase, deferred, conf, excluded, conn, bounds>>

(* A pass while a name is not resolved yet does nothing: on_config_lookup() *)
(* schedules the next one.                                                 *)
release_postponed ==
    /\ phase = "idle" /\ pending /\ config_pending
    /\ pending' = FALSE
    /\ UNCHANGED <<inventory, phase, ctrl, saved, check, deferred, disk, system, bounds>>

--------------------------------------------------------------------------------
(* Discovery Log Pages. *)

(* dlp_fetch() of a DC that has a device. *)
Fetch(e) == CASE ~e.link -> e
              [] e.link /\ e.read = "no" -> [e EXCEPT !.read = "run"]
              [] OTHER -> [e EXCEPT !.read = "again"]

(* The entries of a page that are started: referrals only within the limit. *)
Entries(d, log) ==
    {t \in log : t \in DC => referral_hops(d) \in 0..MaxHops-1}

(* on_dlp_read() of a read that succeeds, with process_dlp(): the entries  *)
(* are started, then the inventory learns the page.  A request made during *)
(* the read reads it again.                                                *)
on_dlp_read(d, log) ==
    /\ Ready
    /\ d \in Tracked /\ ctrl[d].read # "no"
    /\ LET S == Entries(d, log)
           read == [ctrl[d] EXCEPT !.read = "no", !.fetched = TRUE]
           e == IF ctrl[d].read = "again" THEN Fetch(read) ELSE read
       IN  \E refused \in Refusals(S) :
                start_ctrls([ctrl EXCEPT ![d] = e], S, refused, DesiredNow)
    /\ update_dlp(d, log)
    /\ pending' = TRUE
    /\ UNCHANGED <<phase, saved, check, disk, conn, bounds>>

(* on_dlp_read() of a read that fails: the DC and its last page stay.      *)
on_dlp_failed(d) ==
    /\ Ready /\ losses < MaxLoss
    /\ d \in Tracked /\ ctrl[d].read # "no"
    /\ LET read == [ctrl[d] EXCEPT !.read = "no"] IN
       ctrl' = [ctrl EXCEPT ![d] = IF @.read = "again" THEN Fetch(read) ELSE read]
    /\ losses' = losses + 1
    /\ UNCHANGED <<inventory, phase, saved, pending, check, deferred, disk, system,
                   reloads, crashes>>

(* on_dc_changed(): the log page of a DC with a device changed. *)
on_dc_changed(d) ==
    /\ Ready
    /\ d \in Tracked /\ ctrl[d].link
    /\ ctrl' = [ctrl EXCEPT ![d] = Fetch(@)]
    /\ UNCHANGED <<inventory, phase, saved, pending, check, deferred, disk, system, bounds>>

adopted_dc_fetch(d) ==
    /\ Ready /\ d \in deferred
    /\ deferred' = deferred \ {d}
    /\ ctrl' = [ctrl EXCEPT ![d] = IF @ = None THEN None ELSE Fetch(@)]
    /\ UNCHANGED <<inventory, phase, saved, pending, check, disk, system, bounds>>

--------------------------------------------------------------------------------
(* The connection of a unit. *)

(* on_job_done() of a unit that connected: the deadline is cleared. *)
on_job_done(t) ==
    /\ Ready
    /\ t \in Tracked /\ ~ctrl[t].link /\ unit[t] = "active" /\ t \in own
    /\ LET e == [ctrl[t] EXCEPT !.link = TRUE, !.armed = FALSE] IN
       ctrl' = [ctrl EXCEPT ![t] = IF t \in DC THEN Fetch(e) ELSE e]
    /\ UNCHANGED <<inventory, phase, saved, pending, check, deferred, disk, system, bounds>>

(* ctrl_arm_giveup(): only a DC that neither the firmware nor the          *)
(* configuration names gets a deadline, at its first failure.              *)
Arms(t) == GivesUp /\ t \in DC \ (Nbft \cup cfg)

(* on_job_done() of a unit that failed, with schedule_retry(). *)
on_job_failed(t) ==
    /\ Ready
    /\ t \in Tracked /\ ~ctrl[t].link /\ ~ctrl[t].retry /\ unit[t] = "none"
    /\ ctrl' = [ctrl EXCEPT ![t].retry = TRUE, ![t].armed = @ \/ Arms(t)]
    /\ UNCHANGED <<inventory, phase, saved, pending, check, deferred, disk, system, bounds>>

(* ctrl_remove() *)
Untrack(t) ==
    /\ ctrl' = [ctrl EXCEPT ![t] = None]
    /\ pending' = TRUE

restart_or_start(t) == unit' = [unit EXCEPT ![t] = "starting"]

(* retry_timeout() before the deadline. *)
retry_timeout(t) ==
    /\ Ready
    /\ t \in Tracked /\ ctrl[t].retry
    /\ IF is_desired(t)
       THEN /\ restart_or_start(t)
            /\ ctrl' = [ctrl EXCEPT ![t].retry = FALSE]
            /\ UNCHANGED pending
       ELSE /\ Untrack(t)
            /\ UNCHANGED unit
    /\ UNCHANGED <<inventory, phase, saved, check, deferred, disk, conn, own, bounds>>

(* refresh_desired() of the controllers left when d is gone. *)
refresh_desired(d) ==
    ctrl' = [t \in TID |-> IF t = d \/ ctrl[t] = None THEN None
                          ELSE [ctrl[t] EXCEPT !.want = is_desired(t)']]

(* retry_timeout() past the deadline: forget the DC, and take what is      *)
(* desired without it as the new reference.                                *)
give_up(d) ==
    /\ Ready
    /\ d \in Tracked /\ ctrl[d].retry /\ ctrl[d].armed
    /\ is_desired(d)
    /\ forget_dc(d)
    /\ refresh_desired(d)
    /\ pending' = TRUE
    /\ UNCHANGED <<phase, saved, check, deferred, disk, system, bounds>>

(* A loss that drops a controller without asking whether it is desired. *)
on_nvme_remove_Drops(t) ==
    /\ Ready
    /\ t \in Tracked /\ ctrl[t].link /\ t \notin conn
    /\ own' = own \ {t}
    /\ Untrack(t)
    /\ UNCHANGED <<inventory, phase, saved, check, deferred, disk, unit, conn, bounds>>

(* A loss whose failed restart schedules no retry. *)
on_nvme_remove_NoRestart(t) ==
    /\ Ready
    /\ t \in Tracked /\ ctrl[t].link /\ t \notin conn
    /\ own' = own \ {t}
    /\ ctrl' = [ctrl EXCEPT ![t].link = FALSE]
    /\ UNCHANGED <<inventory, phase, saved, pending, check, deferred, disk, unit, conn,
                   bounds>>

(* on_nvme_remove(): the device of a tracked controller is gone.  An FC    *)
(* controller is left to the kickstart, whose events name DCs only.        *)
on_nvme_remove(t) ==
    /\ Ready
    /\ t \in Tracked /\ ctrl[t].link /\ t \notin conn
    /\ own' = own \ {t}
    /\ \/ /\ ~should_connect(t) \/ (is_desired(t) /\ t \in Fc)
          /\ unit' = [unit EXCEPT ![t] = "none"]
          /\ Untrack(t)
       \/ /\ should_connect(t) /\ ~is_desired(t)
          /\ unit' = unit
          /\ Untrack(t)
       \/ /\ should_connect(t) /\ is_desired(t) /\ t \notin Fc
          /\ restart_or_start(t)
          /\ ctrl' = [ctrl EXCEPT ![t].link = FALSE]
          /\ pending' = pending
    /\ UNCHANGED <<inventory, phase, saved, check, deferred, disk, conn, bounds>>

(* The unit's connect succeeds (--idempotent: also when the controller is  *)
(* connected already), and the state files are written.                    *)
UnitConnects(t) ==
    /\ unit[t] = "starting"
    /\ unit' = [unit EXCEPT ![t] = "active"]
    /\ conn' = conn \cup {t}
    /\ own' = own \cup {t}
    /\ UNCHANGED <<inventory, daemon, disk, bounds>>

(* The connect fails, and systemd collects the unit. *)
UnitFails(t) ==
    /\ unit[t] = "starting" /\ losses < MaxLoss
    /\ unit' = [unit EXCEPT ![t] = "none"]
    /\ losses' = losses + 1
    /\ UNCHANGED <<inventory, daemon, disk, conn, own, reloads, crashes>>

(* A connection is lost, or somebody disconnects it. *)
ConnectionLost(t) ==
    /\ t \in conn /\ losses < MaxLoss
    /\ conn' = conn \ {t}
    /\ losses' = losses + 1
    /\ UNCHANGED <<inventory, daemon, disk, unit, own, reloads, crashes>>

--------------------------------------------------------------------------------
(* The configuration, the exclusion list and the life of the daemon. *)

Failures(c) == IF LookupFails THEN SUBSET c.name ELSE {{}}

(* SIGHUP after an edit: reload_config(), whose schedule_release(true) asks *)
(* for the exclusions too.                                                 *)
reload_config(c) ==
    /\ Ready /\ reloads < MaxReload
    /\ conf' = c
    /\ \E failed \in Failures(c) : load_config(c, failed)
    /\ phase' = "connect"
    /\ check' = TRUE
    /\ reloads' = reloads + 1
    /\ UNCHANGED <<discovered, cache, dlp, ctrl, saved, pending, deferred, file,
                   excluded, system, crashes, losses>>

(* nvme exclusion-add and -delete. *)
EditExclusions(x) ==
    /\ reloads < MaxReload /\ x # excluded
    /\ excluded' = x
    /\ reloads' = reloads + 1
    /\ UNCHANGED <<inventory, daemon, file, conf, system, crashes, losses>>

(* A lookup that adds nothing only schedules a pass. *)
on_config_lookup_NoPass(t, resolved) ==
    /\ Ready
    /\ resolved \/ LookupFails
    /\ on_lookup(t, resolved)
    /\ phase' = IF resolved THEN "connect" ELSE "idle"
    /\ pending' = pending
    /\ UNCHANGED <<ctrl, saved, check, deferred, disk, system, bounds>>

(* on_lookup() and its callback on_config_lookup(). *)
on_config_lookup(t, resolved) ==
    /\ Ready
    /\ resolved \/ LookupFails
    /\ on_lookup(t, resolved)
    /\ phase' = IF resolved THEN "connect" ELSE "idle"
    /\ pending' = TRUE
    /\ UNCHANGED <<ctrl, saved, check, deferred, disk, system, bounds>>

LookupRetry(t) ==
    /\ Ready
    /\ retry_lookup(t)
    /\ UNCHANGED <<daemon, disk, system, bounds>>

(* The daemon ends, at any moment.  The units and the disk remain. *)
Crash ==
    /\ phase # "down" /\ crashes < MaxCrash
    /\ phase' = "down"
    /\ crashes' = crashes + 1
    /\ ctrl' = [t \in TID |-> None] /\ saved' = {} /\ pending' = FALSE
    /\ check' = FALSE /\ deferred' = {}
    /\ cfg' = {} /\ discovered' = {} /\ cache' = <<>>
    /\ dlp' = [d \in DC |-> {}]
    /\ lookup' = [t \in TID |-> "none"] /\ nr_first' = 0
    /\ UNCHANGED <<disk, system, reloads, losses>>

(* load_saved(): the discovered DCs are desired again; the other saved     *)
(* controllers wait in g_saved.                                            *)
load_saved ==
    /\ discovered' = {s.tid : s \in {s \in file : s.source = "discovered"}}
    /\ saved' = {s \in file : s.source # "discovered"}

(* main() up to connect_desired(): the configuration, possibly edited in   *)
(* the meantime, is loaded.                                                *)
Boot(c) ==
    /\ phase = "down"
    /\ c = conf \/ reloads < MaxReload
    /\ phase' = "connect"
    /\ conf' = c
    /\ reloads' = IF c = conf THEN reloads ELSE reloads + 1
    /\ \E failed \in Failures(c) : load_config(c, failed)
    /\ load_saved
    /\ UNCHANGED <<cache, dlp, ctrl, pending, check, deferred, file, excluded, system,
                   crashes, losses>>

--------------------------------------------------------------------------------
Init ==
    /\ InventoryInit
    /\ phase = "down" /\ ctrl = [t \in TID |-> None] /\ saved = {}
    /\ pending = FALSE /\ check = FALSE /\ deferred = {}
    /\ file = {} /\ conf \in Confs /\ excluded = {}
    /\ unit = [t \in TID |-> "none"] /\ conn = {} /\ own = {}
    /\ reloads = 0 /\ crashes = 0 /\ losses = 0

(* The handlers that the event loop runs when they are due. *)
Loop ==
    \/ connect_desired
    \/ release_undesired
    \/ release_postponed
    \/ \E d \in DC : \E log \in Pages[d] : on_dlp_read(d, log)
    \/ \E d \in DC : adopted_dc_fetch(d)
    \/ \E t \in TID : \/ on_job_done(t)
                      \/ on_job_failed(t)
                      \/ retry_timeout(t)
                      \/ on_nvme_remove(t)

Environment ==
    \/ \E d \in DC : on_dlp_failed(d) \/ on_dc_changed(d) \/ give_up(d)
    \/ \E d \in Mdns : on_mdns_add(d)
    \/ \E t \in TID : UnitConnects(t) \/ UnitFails(t) \/ ConnectionLost(t)
    \/ \E t \in TID : LookupRetry(t)
    \/ \E t \in TID, resolved \in BOOLEAN : on_config_lookup(t, resolved)
    \/ \E c \in Confs : reload_config(c) \/ Boot(c)
    \/ \E x \in Exclusions : EditExclusions(x)
    \/ Crash

Next == Loop \/ Environment

Spec == Init /\ [][Next]_vars

(* sd-event runs every source that is pending, and the lookup of a name    *)
(* ends: its worker answers or its timeout passes.                         *)
FairSpec ==
    /\ Spec
    /\ WF_vars(connect_desired)
    /\ WF_vars(release_undesired) /\ WF_vars(release_postponed)
    /\ \A t \in TID : SF_vars(\E resolved \in BOOLEAN : on_config_lookup(t, resolved))

(* Everything that ends: sd-event serves its pending sources in the order  *)
(* they became pending, so that no handler starves; a start job ends, a    *)
(* DLP read ends, the service is started again, and the kickstart of an FC *)
(* loss brings the events of the FC DCs.                                   *)
LiveSpec ==
    /\ FairSpec
    /\ WF_vars(\E c \in Confs : Boot(c))
    /\ \A d \in DC : /\ SF_vars(adopted_dc_fetch(d))
                     /\ SF_vars(\E log \in Pages[d] : on_dlp_read(d, log))
    /\ \A d \in Mdns \cap Fc : SF_vars(on_mdns_add(d))
    /\ \A t \in TID : /\ WF_vars(UnitConnects(t))
                      /\ SF_vars(\/ on_job_done(t) \/ on_job_failed(t)
                                 \/ retry_timeout(t) \/ on_nvme_remove(t))

--------------------------------------------------------------------------------
(* Properties. *)

(* With a configuration, an exclusion list and log pages that do not       *)
(* change, the daemon never takes the unit of a live connection away from  *)
(* it: not when it restarts, at any moment, nor when connections drop      *)
(* (adopt_ctrl(), decide_saved(), release_undesired()).                    *)
UnchangedReleasesNothing ==
    [][\A t \in own \cap conn : t \in own' \/ t \notin conn']_vars

Quiet == phase = "idle" /\ ~pending /\ ~config_pending

(* Between passes the file names exactly the desired tracked controllers   *)
(* and the saved ones that still wait: a daemon that starts again knows    *)
(* what this one wanted (save_desired(), every schedule_release()).        *)
FileIsCurrent ==
    Quiet => {s.tid : s \in file} = {s.tid : s \in Lines(ctrl) \cup saved}

(* Between passes every controller that the firmware or the configuration  *)
(* names and no exclusion forbids is tracked, so it is connected or tried  *)
(* again forever (connect_desired(), start_ctrl(), on_config_lookup()).    *)
ConfiguredTracked ==
    Quiet => \A t \in (Nbft \cup cfg) \ excluded : t \in Tracked

(* Once nothing fails or is edited any more, every controller that is      *)
(* desired and not excluded is connected and linked to its device, and     *)
(* stays so, whatever restarts and lost connections came before: the       *)
(* daemon "keeps them connected" (start_ctrl(), process_dlp(),             *)
(* on_nvme_remove(), retry_timeout(), adopt_ctrl()).                       *)
Connected(t) == ctrl[t] # None /\ ctrl[t].link /\ t \in conn
Converges == <>[](\A t \in TID \ excluded : is_desired(t) => Connected(t))

(* Between passes nothing is connected for a source that is gone: a        *)
(* tracked controller is desired (reload_config(): "Release those the      *)
(* configuration or the exclusion list removed").                          *)
TrackedIsDesired ==
    Quiet => \A t \in Tracked : is_desired(t)

(* No release stays due forever, however long the name lookups take and    *)
(* whatever reloads come in between: a pass takes place, or the controller *)
(* is wanted again (release_undesired(), on_config_lookup()).              *)
ReleasesHappen == \A t \in TID : []<>(t \notin Undesired)

(* Giving up on a DC makes no pass release anything that it would not have *)
(* released anyway, tracked or saved (refresh_desired(), retry_timeout():  *)
(* "giving up releases nothing").                                          *)
Due == Undesired \cup (Decided(ctrl) \cap own)
GivingUpReleasesNothing ==
    [][(\E d \in DC : give_up(d)) => Due' \subseteq Due]_vars
================================================================================
