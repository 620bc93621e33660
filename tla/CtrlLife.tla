------------------------------- MODULE CtrlLife -------------------------------
(***************************************************************************)
(* The life of a tracked controller: its transient unit, its device and    *)
(* the files that link the two (discoverd/src/{main,units,events,state}.c) *)
(*                                                                         *)
(* A controller is connected by a systemd unit that runs "nvme connect"    *)
(* (ExecStart=), records the device (ExecStartPost=), disconnects it       *)
(* (ExecStop=) and removes the record (ExecStopPost=).  The daemon learns  *)
(* what happens from two streams that are not ordered with each other: the *)
(* ends of systemd's jobs and the uevents of the kernel, which reuses a    *)
(* device name as soon as it is free.  An inode tells the devices of one   *)
(* name apart.                                                             *)
(*                                                                         *)
(* Which controllers are desired is decided elsewhere (Inventory, Desired) *)
(* and changes here at any time.                                           *)
(***************************************************************************)
EXTENDS Integers, Sequences, FiniteSets

CONSTANTS
    Ctrl,       \* the controllers of the daemon, each with its unit
    DC,         \* those that are discovery controllers
    Foreign,    \* another program's connection
    Names,      \* the kernel has the device names 0 .. Names - 1
    None, Empty,
    Races,      \* the narrow windows that are open, of AllRaces
    MaxDesired, \* bound: controllers that are desired at first
    MaxIno,     \* bound: devices that are created
    MaxFault    \* bound: changes of what is desired or excluded, change uevents,
                \* foreign connections, calls and connects that fail and ends
                \* of the daemon, together

(* "record": a device name can be reused between the connect that wrote it *)
(* and ExecStartPost=, or ExecStopPost= if that fails.                     *)
(* "late": a job's end can be handled after the uevents of its device.     *)
(* "release": the unit makes steps inside release_unit().                  *)
(* "reuse": a unit can get the device name of another controller before    *)
(* the removal of the old device is handled.                               *)
(* "again": a controller can be tracked again before the end of an earlier *)
(* job of its unit is handled.                                             *)
(* "stale": decide_saved() can release a controller whose device is gone   *)
(* and still recorded: the unit and ino files of the name stay.            *)
(* "rename": a DC can be reconnected under another device name before the  *)
(* removal of its old device is handled.                                   *)
AllRaces == {"record", "late", "release", "reuse", "again", "stale", "rename"}

Name == 0..Names-1

(* dev: devname.  retry, poll: the retry and the EPCSD timer are set.      *)
(* read: no DLP read runs, one runs, one runs and dlp_again is set.        *)
Entry == [dev : Name \cup {None}, retry : BOOLEAN, poll : BOOLEAN,
          read : {"no", "run", "again"}]
NewEntry == [dev |-> None, retry |-> FALSE, poll |-> FALSE, read |-> "no"]

Device == [ino : 1..MaxIno, of : Ctrl \cup {Foreign}, deleting : BOOLEAN]

ASSUME CtrlLifeAssumption ==
    /\ DC \subseteq Ctrl /\ Foreign \notin Ctrl
    /\ None \notin Ctrl \cup Nat \cup Entry \cup Device /\ Empty \notin Nat \cup {None}
    /\ Races \subseteq AllRaces
    /\ {Names, MaxDesired, MaxIno, MaxFault} \subseteq Nat

VARIABLES
    fc,         \* the controllers on Fibre Channel, fixed by Init
    desired, excluded,  \* what the inventory and the exclusion list say
    ctrl,       \* g_ctrls: the tracked controllers
    saved,      \* g_saved: the controllers of the last run
    busy,       \* where the daemon waits inside a handler
    jobs,       \* the controllers whose current job is in mgr->jobs
    soak,       \* the device names whose soak timer runs, the oldest first
    uevents,    \* uevents of the kernel that are not handled yet
    ends,       \* ends of tracked jobs that are not handled yet
    unit,       \* the systemd unit of each controller
    job,        \* its job
    devid,      \* the .devid file of the unit: a device name, or Empty
    open,       \* the connects that run and whose .devid file is not unlinked
    link,       \* the unit and ino files of each device name
    dev,        \* the devices of the kernel
    kept,       \* history: inodes of connections that a release left up
    inos, faults

wishes == <<fc, desired, excluded>>
daemon == <<ctrl, saved, busy, soak>>
systemd == <<unit, job, jobs, ends>>
files == <<devid, open, link>>
bounds == <<inos, faults>>
vars == <<wishes, daemon, uevents, systemd, files, dev, kept, bounds>>

TypeOK ==
    /\ fc \subseteq Ctrl
    /\ desired \subseteq Ctrl /\ excluded \subseteq Ctrl /\ saved \subseteq Ctrl
    /\ ctrl \in [Ctrl -> Entry \cup {None}]
    /\ busy \in [in : {"no", "down", "replace", "release"}, of : Ctrl \cup {None}]
    /\ jobs \subseteq Ctrl
    /\ soak \in Seq(Name)
    /\ uevents \in Seq([act : {"add", "remove", "change"}, name : Name])
    /\ ends \in Seq([of : Ctrl, done : BOOLEAN])
    /\ unit \in [Ctrl -> {"none", "start", "connect", "post", "active", "stop",
                          "stop-post"}]
    /\ job \in [Ctrl -> {"none", "start", "restart", "stop"}]
    /\ devid \in [Ctrl -> Name \cup {None, Empty}] /\ open \subseteq Ctrl
    /\ link \in [Name -> [of : Ctrl, ino : 0..MaxIno] \cup {None}]
    /\ dev \in [Name -> Device \cup {None}]
    /\ kept \subseteq 1..MaxIno
    /\ inos \in 0..MaxIno /\ faults \in 0..MaxFault

Tracked == {c \in Ctrl : ctrl[c] # None}

(* The end of a job of c is not handled yet. *)
EndOf(c) == \E k \in 1..Len(ends) : ends[k].of = c

(* The event loop can run a handler. *)
Idle == [in |-> "no", of |-> None]
Ready == busy = Idle

(* devname_matches_tid() *)
Matches(n, c) == n \in Name /\ dev[n] # None /\ dev[n].of = c /\ ~dev[n].deleting

--------------------------------------------------------------------------------
(* The calls to systemd.  A call replaces the job of its unit: a job of the *)
(* other kind is cancelled, and a tracked one ends as not done.            *)

Stopping(s) == CASE s = "active" -> "stop"
                 [] s \in {"start", "connect", "post"} -> "stop-post"
                 [] OTHER -> s

(* StopUnit: an active unit runs ExecStop=, one that is starting is killed. *)
unit_stop(c) ==
    /\ unit' = [unit EXCEPT ![c] = Stopping(@)]
    /\ job' = [job EXCEPT ![c] = IF unit[c] = "none" THEN "none" ELSE "stop"]
    /\ ends' = IF c \in jobs THEN Append(ends, [of |-> c, done |-> FALSE]) ELSE ends
    /\ jobs' = jobs \ {c}

(* RestartUnit of a unit that is loaded.  A stop that runs goes on as part *)
(* of the restart; a start that runs begins again, in the same job.        *)
unit_restart(c) ==
    /\ unit[c] # "none"
    /\ unit' = [unit EXCEPT ![c] = Stopping(@)]
    /\ job' = [job EXCEPT ![c] = "restart"]
    /\ jobs' = jobs \cup {c}
    /\ UNCHANGED ends

(* StartTransientUnit: the name must be free. *)
unit_start(c) ==
    /\ unit[c] = "none"
    /\ unit' = [unit EXCEPT ![c] = "start"]
    /\ job' = [job EXCEPT ![c] = "start"]
    /\ jobs' = jobs \cup {c}
    /\ UNCHANGED ends

--------------------------------------------------------------------------------
(* The state files. *)

(* state_remove_devid() of the units S, and state_remove_ctrl() of the     *)
(* names N.  A connect that runs writes to a file that is gone.            *)
Forget(S, N) ==
    /\ devid' = [c \in Ctrl |-> IF c \in S THEN None ELSE devid[c]]
    /\ open' = open \ S
    /\ link' = [n \in Name |-> IF n \in N THEN None ELSE link[n]]

(* The names of N that are linked to the unit of c (state_read_unit()). *)
LinkedTo(c, N) == {n \in N \cap Name : link[n] # None /\ link[n].of = c}

(* state_ctrl_present(): the recorded inode is the device's. *)
state_ctrl_present(n) == dev[n] # None /\ link[n] # None /\ link[n].ino = dev[n].ino

--------------------------------------------------------------------------------
(* Handlers of the daemon. *)

(* dlp_fetch() of a DC that has a device. *)
Fetch(e) == [e EXCEPT !.read = IF @ = "no" THEN "run" ELSE "again"]

(* dc_connected(), and the same for an I/O controller: only the first call *)
(* links the device.                                                       *)
Linked(c, e, n) ==
    IF e.dev # None THEN e
    ELSE IF c \in DC THEN Fetch([e EXCEPT !.dev = n]) ELSE [e EXCEPT !.dev = n]

(* start_ctrl() of an untracked controller, for a caller that found it     *)
(* desired and not excluded.  It starts the unit, or adopts it when its    *)
(* recorded device is still this connection, or replaces a stale unit:     *)
(* start_unit() stops it and waits until its name is free.                 *)
start_ctrl(c) ==
    /\ Ready
    /\ c \in desired \ (Tracked \cup excluded)
    /\ "again" \in Races \/ ~EndOf(c)
    /\ \/ /\ unit_start(c)
          /\ ctrl' = [ctrl EXCEPT ![c] = NewEntry]
          /\ UNCHANGED <<files, busy>>
       \/ /\ unit[c] # "none" /\ Matches(devid[c], c)
          /\ ctrl' = [ctrl EXCEPT ![c] = Linked(c, NewEntry, devid[c])]
          /\ UNCHANGED <<systemd, files, busy>>
       \/ /\ unit[c] # "none" /\ ~Matches(devid[c], c)
          /\ Forget({c}, LinkedTo(c, {devid[c]}))
          /\ unit_stop(c)
          /\ busy' = [in |-> "replace", of |-> c]
          /\ UNCHANGED ctrl
    /\ UNCHANGED <<wishes, saved, soak, uevents, dev, kept, bounds>>

(* unit_wait_gone() ends: the unit is gone and is started again, or it is  *)
(* still loaded after two seconds and the controller is not tracked.       *)
unit_wait_gone ==
    /\ busy.in = "replace"
    /\ LET c == busy.of IN
       \/ /\ unit_start(c)
          /\ ctrl' = [ctrl EXCEPT ![c] = NewEntry]
          /\ UNCHANGED faults
       \/ /\ unit[c] # "none" /\ faults < MaxFault
          /\ faults' = faults + 1
          /\ UNCHANGED <<systemd, ctrl>>
    /\ busy' = Idle
    /\ UNCHANGED <<wishes, saved, soak, uevents, files, dev, kept, inos>>

(* restart_or_start() of c, whose entry becomes e.  When both calls fail   *)
(* the caller schedules a retry.                                           *)
restart_or_start(c, e) ==
    \/ /\ unit_restart(c) \/ unit_start(c)
       /\ ctrl' = [ctrl EXCEPT ![c] = e]
       /\ UNCHANGED faults
    \/ /\ faults < MaxFault
       /\ faults' = faults + 1
       /\ ctrl' = [ctrl EXCEPT ![c] = [e EXCEPT !.retry = TRUE]]
       /\ UNCHANGED systemd

ctrl_remove(c) == ctrl' = [ctrl EXCEPT ![c] = None]

(* retry_timeout() and epcsd_poll_timeout(); the give-up is in Desired. *)
Timeout(c, e) ==
    /\ \/ /\ c \in desired
          /\ restart_or_start(c, e)
       \/ /\ c \notin desired
          /\ ctrl_remove(c)
          /\ UNCHANGED <<systemd, faults>>
    /\ UNCHANGED <<wishes, saved, busy, soak, uevents, files, dev, kept, inos>>

retry_timeout(c) ==
    /\ Ready /\ c \in Tracked /\ ctrl[c].retry
    /\ Timeout(c, [ctrl[c] EXCEPT !.retry = FALSE])

epcsd_poll_timeout(c) ==
    /\ Ready /\ c \in Tracked /\ ctrl[c].poll
    /\ Timeout(c, [ctrl[c] EXCEPT !.poll = FALSE])

(* Mutant: an empty .devid file is taken for a device name. *)
on_job_done_Unread ==
    /\ Ready /\ ends # <<>>
    /\ LET c == Head(ends).of IN
       ctrl' = [ctrl EXCEPT ![c] =
                    CASE @ = None -> None
                      [] @ # None /\ ~Head(ends).done -> [@ EXCEPT !.retry = TRUE]
                      [] OTHER -> Linked(c, @, devid[c])]
    /\ ends' = Tail(ends)
    /\ UNCHANGED <<wishes, saved, busy, soak, uevents, unit, job, jobs, files, dev, kept,
                   bounds>>

(* job_removed_handler() and on_job_done(): a connection that is up is     *)
(* linked to the recorded device, a failed one is tried again later.       *)
on_job_done ==
    /\ Ready /\ ends # <<>>
    /\ LET c == Head(ends).of IN
       ctrl' = [ctrl EXCEPT ![c] =
                    CASE @ = None -> None
                      [] @ # None /\ ~Head(ends).done -> [@ EXCEPT !.retry = TRUE]
                      [] OTHER -> IF devid[c] \in Name THEN Linked(c, @, devid[c])
                                  ELSE @]
    /\ ends' = Tail(ends)
    /\ UNCHANGED <<wishes, saved, busy, soak, uevents, unit, job, jobs, files, dev, kept,
                   bounds>>

(* epcsd_park() *)
epcsd_park(c, e) ==
    IF e.poll
    THEN ctrl' = [ctrl EXCEPT ![c] = e] /\ UNCHANGED systemd
    ELSE ctrl' = [ctrl EXCEPT ![c] = [e EXCEPT !.poll = TRUE]] /\ unit_stop(c)

(* on_dlp_read(): the log page says whether the DC accepts a persistent    *)
(* connection (EPCSD), or the read failed (epcsd is TRUE for both).        *)
on_dlp_read(c, epcsd) ==
    /\ Ready /\ c \in Tracked /\ ctrl[c].read # "no"
    /\ LET read == [ctrl[c] EXCEPT !.read = "no"]
           e == IF ctrl[c].read = "again" /\ read.dev # None THEN Fetch(read) ELSE read
       IN  \/ epcsd /\ ctrl' = [ctrl EXCEPT ![c] = e] /\ UNCHANGED systemd
           \/ ~epcsd /\ c \in DC /\ epcsd_park(c, e)
    /\ UNCHANGED <<wishes, saved, busy, soak, uevents, files, dev, kept, bounds>>

(* on_dc_changed(): the log page of the DC on n changed.  For a DC that is *)
(* not tracked, connect-all makes another program's connections.           *)
on_dc_changed(n) ==
    ctrl' = [c \in Ctrl |-> IF c \in Tracked /\ ctrl[c].dev = n
                            THEN Fetch(ctrl[c]) ELSE ctrl[c]]

(* Mutant: a device that is being deleted counts as a new one. *)
NewDeviceOnWithoutState(n) == state_ctrl_present(n)

(* on_nvme_remove(): the name n is a new device's, which is not deleted. *)
NewDeviceOn(n) == state_ctrl_present(n) /\ ~dev[n].deleting

(* on_nvme_remove() of the device name n.  A removal of an earlier device  *)
(* of that name is ignored; a parked DC waits for its timer.               *)
on_nvme_remove(n) ==
    LET S == {c \in Tracked : ctrl[c].dev = n}
    IN  \/ /\ NewDeviceOn(n)
           /\ UNCHANGED <<ctrl, systemd, files, faults>>
        \/ /\ ~NewDeviceOn(n) /\ S = {}
           /\ Forget({}, {n})
           /\ UNCHANGED <<ctrl, systemd, faults>>
        \/ /\ ~NewDeviceOn(n)
           /\ \E c \in S :
                LET e == [ctrl[c] EXCEPT !.dev = None] IN
                /\ Forget({c}, {n})
                /\ \/ /\ c \in excluded
                      /\ unit_stop(c) /\ ctrl_remove(c)
                      /\ UNCHANGED faults
                   \/ /\ c \notin excluded /\ e.poll
                      /\ ctrl' = [ctrl EXCEPT ![c] = e]
                      /\ UNCHANGED <<systemd, faults>>
                   \/ /\ c \notin excluded /\ ~e.poll /\ c \notin desired
                      /\ ctrl_remove(c)
                      /\ UNCHANGED <<systemd, faults>>
                   \/ /\ c \in desired \ (excluded \cup fc) /\ ~e.poll
                      /\ restart_or_start(c, e)
                   \/ /\ c \in (desired \cap fc) \ excluded /\ ~e.poll
                      /\ unit_stop(c) /\ ctrl_remove(c)
                      /\ UNCHANGED faults

(* The end of a job whose unit recorded name n is not handled yet. *)
EndDue(n) ==
    \E c \in Ctrl : devid[c] = n /\ (unit[c] = "post" \/ EndOf(c))

(* monitor_handler() and handle_nvme(): an added device soaks first. *)
handle_nvme ==
    /\ Ready /\ uevents # <<>>
    /\ uevents' = Tail(uevents)
    /\ \/ /\ Head(uevents).act = "add"
          /\ soak' = Append(soak, Head(uevents).name)
          /\ UNCHANGED <<ctrl, systemd, files, faults>>
       \/ /\ Head(uevents).act = "remove"
          /\ "late" \in Races \/ ~EndDue(Head(uevents).name)
          /\ on_nvme_remove(Head(uevents).name)
          /\ UNCHANGED soak
       \/ /\ Head(uevents).act = "change"
          /\ on_dc_changed(Head(uevents).name)
          /\ UNCHANGED <<soak, systemd, files, faults>>
    /\ UNCHANGED <<wishes, saved, busy, dev, kept, inos>>

(* soak_timeout(): on_dc_add() or on_ioc_add() of the device, or           *)
(* on_nvme_remove() if it is gone again.                                   *)
soak_timeout ==
    /\ Ready /\ soak # <<>>
    /\ soak' = Tail(soak)
    /\ LET n == Head(soak) IN
       /\ "late" \in Races \/ ~EndDue(n)
       /\ \/ /\ dev[n] = None
             /\ on_nvme_remove(n)
          \/ /\ dev[n] # None
             /\ ctrl' = [c \in Ctrl |->
                            IF c \in Tracked /\ link[n] # None /\ link[n].of = c
                            THEN Linked(c, ctrl[c], n) ELSE ctrl[c]]
             /\ UNCHANGED <<systemd, files, faults>>
    /\ UNCHANGED <<wishes, saved, busy, uevents, dev, kept, inos>>

(* release_unit(), for ctrl_release() with the device of the entry or of   *)
(* the .devid file, and for decide_saved() of a controller that is not     *)
(* tracked.  The files go first, then the unit is stopped.                 *)
ReleaseFiles(c) ==
    LET n == IF c \in Tracked /\ ctrl[c].dev # None THEN ctrl[c].dev ELSE devid[c]
        named == IF c \in Tracked \/ Matches(n, c) THEN {n} ELSE {}
    IN  /\ Forget({c}, LinkedTo(c, named))
        /\ kept' = kept \cup {dev[m].ino : m \in {m \in Name : Matches(m, c)}}

release_unit(c) ==
    /\ Ready
    /\ c \in saved \ (Tracked \cup desired) \/ c \in Tracked \cap (excluded \cup (Ctrl \ desired))
    /\ \/ "stale" \in Races \/ c \in Tracked
       \/ Matches(devid[c], c) \/ LinkedTo(c, {devid[c]}) = {}
    /\ ctrl_remove(c)
    /\ saved' = saved \ {c}
    /\ ReleaseFiles(c)
    /\ busy' = [in |-> "release", of |-> c]
    /\ UNCHANGED <<wishes, soak, uevents, systemd, dev, bounds>>

(* The StopUnit call of release_unit(). *)
release_stop ==
    /\ busy.in = "release"
    /\ unit_stop(busy.of)
    /\ busy' = Idle
    /\ UNCHANGED <<wishes, ctrl, saved, soak, uevents, files, dev, kept, bounds>>

--------------------------------------------------------------------------------
(* The unit: systemd runs its scripts (connection_commands()). *)

Emit(act, n) ==
    uevents' = IF busy.in = "down" THEN uevents ELSE Append(uevents, [act |-> act, name |-> n])

(* The kernel gives a new device the smallest free name. *)
Free == {n \in Name : dev[n] = None}
NewName == CHOOSE n \in Free : \A m \in Free : n <= m

(* The daemon and the files know name n of no controller but c. *)
Settled(n, c) ==
    \A t \in Ctrl \ {c} : devid[t] # n /\ (t \in Tracked => ctrl[t].dev # n)

NewDevice(c) ==
    /\ Free # {} /\ inos < MaxIno
    /\ "reuse" \in Races \/ c = Foreign \/ Settled(NewName, c)
    /\ \/ "record" \in Races
       \/ \A t \in Ctrl : unit[t] \in {"post", "stop-post"} => devid[t] # NewName
    /\ "rename" \notin Races /\ c \in Tracked => ctrl[c].dev \in {None, NewName}
    /\ inos' = inos + 1
    /\ dev' = [dev EXCEPT ![NewName] = [ino |-> inos + 1, of |-> c, deleting |-> FALSE]]
    /\ Emit("add", NewName)

(* The unit of c is in state st and makes a step. *)
Step(c, st) == unit[c] = st /\ ("release" \in Races \/ busy.in # "release")

(* The connect opens its .devid file before it touches the kernel. *)
open_devid_file(c) ==
    /\ Step(c, "start")
    /\ unit' = [unit EXCEPT ![c] = "connect"]
    /\ devid' = [devid EXCEPT ![c] = IF @ = None THEN Empty ELSE @]
    /\ open' = open \cup {c}
    /\ UNCHANGED <<wishes, daemon, uevents, job, jobs, ends, link, dev, kept, bounds>>

(* ExecStart= succeeds: it finds the connection, or makes it, and writes   *)
(* the device name.                                                        *)
libnvmf_connect(c) ==
    /\ Step(c, "connect")
    /\ LET found == {n \in Name : Matches(n, c)} IN
       /\ \/ found # {} /\ UNCHANGED <<dev, uevents, inos>>
          \/ found = {} /\ NewDevice(c)
       /\ LET n == IF found # {} THEN CHOOSE m \in found : TRUE ELSE NewName IN
          /\ devid' = [devid EXCEPT ![c] = IF c \in open THEN n ELSE @]
          /\ kept' = kept \ {dev[m].ino : m \in found}
    /\ open' = open \ {c}
    /\ unit' = [unit EXCEPT ![c] = "post"]
    /\ UNCHANGED <<wishes, daemon, job, jobs, ends, link, faults>>

(* ExecStart= fails: the .devid file it created is removed. *)
ConnectFails(c) ==
    /\ Step(c, "connect") /\ faults < MaxFault
    /\ faults' = faults + 1
    /\ devid' = [devid EXCEPT ![c] = IF @ = Empty THEN None ELSE @]
    /\ open' = open \ {c}
    /\ unit' = [unit EXCEPT ![c] = "stop-post"]
    /\ UNCHANGED <<wishes, daemon, uevents, job, jobs, ends, link, dev, kept, inos>>

(* The current job of c ends. *)
JobEnds(c, done) ==
    /\ job' = [job EXCEPT ![c] = "none"]
    /\ ends' = IF c \in jobs THEN Append(ends, [of |-> c, done |-> done]) ELSE ends
    /\ jobs' = jobs \ {c}

(* ExecStartPost= records the unit and the inode of the device: the unit is *)
(* active and its job is done.  It fails if the device is gone.            *)
ExecStartPost(c) ==
    /\ Step(c, "post")
    /\ LET n == devid[c]
           gone == n \in Name /\ dev[n] = None
       IN  /\ link' = [m \in Name |-> IF m # n THEN link[m]
                                      ELSE [of |-> c, ino |-> IF gone THEN 0 ELSE dev[n].ino]]
           /\ \/ ~gone /\ unit' = [unit EXCEPT ![c] = "active"] /\ JobEnds(c, TRUE)
              \/ gone /\ unit' = [unit EXCEPT ![c] = "stop-post"] /\ UNCHANGED <<job, jobs, ends>>
    /\ UNCHANGED <<wishes, daemon, uevents, devid, open, dev, kept, bounds>>

(* Mutant: the inode is not compared. *)
DisconnectedByName(c) == {n \in LinkedTo(c, {devid[c]}) : dev[n] # None}

(* The device that ExecStop= disconnects: the recorded one, if the records *)
(* name this unit and the inode is still the same.                         *)
Disconnected(c) ==
    {n \in LinkedTo(c, {devid[c]}) : dev[n] # None /\ link[n].ino = dev[n].ino}

(* ExecStop=: "nvme disconnect" waits until the device is gone. *)
ExecStop(c) ==
    /\ Step(c, "stop")
    /\ \/ /\ \E n \in Disconnected(c) :
                /\ ~dev[n].deleting
                /\ dev' = [dev EXCEPT ![n].deleting = TRUE]
                /\ Emit("remove", n)
          /\ UNCHANGED unit
       \/ /\ Disconnected(c) = {}
          /\ unit' = [unit EXCEPT ![c] = "stop-post"]
          /\ UNCHANGED <<dev, uevents>>
    /\ UNCHANGED <<wishes, daemon, job, jobs, ends, files, kept, bounds>>

(* ExecStopPost= removes the records.  A restart goes on with a start, any *)
(* other unit is unloaded; a start that failed ends its job.               *)
ExecStopPost(c) ==
    /\ Step(c, "stop-post")
    /\ Forget({c}, LinkedTo(c, {devid[c]}))
    /\ \/ /\ job[c] = "restart"
          /\ unit' = [unit EXCEPT ![c] = "start"]
          /\ job' = [job EXCEPT ![c] = "start"]
          /\ UNCHANGED <<jobs, ends>>
       \/ /\ job[c] # "restart"
          /\ unit' = [unit EXCEPT ![c] = "none"]
          /\ JobEnds(c, FALSE)
    /\ UNCHANGED <<wishes, daemon, uevents, dev, kept, bounds>>

--------------------------------------------------------------------------------
(* The kernel, other programs and the administrator. *)

(* A device is lost or deleted: the uevent comes before its directory goes. *)
DeviceLost(n) ==
    /\ dev[n] # None /\ ~dev[n].deleting
    /\ dev' = [dev EXCEPT ![n].deleting = TRUE]
    /\ Emit("remove", n)
    /\ UNCHANGED <<wishes, daemon, systemd, files, kept, bounds>>

DeviceGone(n) ==
    /\ dev[n] # None /\ dev[n].deleting
    /\ dev' = [dev EXCEPT ![n] = None]
    /\ UNCHANGED <<wishes, daemon, uevents, systemd, files, kept, bounds>>

(* The DC behind a device changes its log page, or is reconnected. *)
DeviceChanged(n) ==
    /\ dev[n] # None /\ dev[n].of \in DC /\ ~dev[n].deleting /\ faults < MaxFault
    /\ faults' = faults + 1
    /\ Emit("change", n)
    /\ UNCHANGED <<wishes, daemon, systemd, files, dev, kept, inos>>

(* Another program connects something. *)
ForeignConnect ==
    /\ faults < MaxFault
    /\ faults' = faults + 1
    /\ NewDevice(Foreign)
    /\ UNCHANGED <<wishes, daemon, systemd, files, kept>>

(* What is desired or excluded changes. *)
Edit(c) ==
    /\ faults < MaxFault
    /\ faults' = faults + 1
    /\ \/ desired' = (desired \ {c}) \cup ({c} \ desired) /\ UNCHANGED excluded
       \/ excluded' = (excluded \ {c}) \cup ({c} \ excluded) /\ UNCHANGED desired
    /\ UNCHANGED <<fc, daemon, uevents, systemd, files, dev, kept, inos>>

(* The daemon ends.  Units, devices and files remain. *)
Crash ==
    /\ busy.in # "down" /\ faults < MaxFault
    /\ faults' = faults + 1
    /\ busy' = [in |-> "down", of |-> None]
    /\ ctrl' = [c \in Ctrl |-> None]
    /\ saved' = Tracked \cap desired
    /\ soak' = <<>> /\ uevents' = <<>> /\ ends' = <<>> /\ jobs' = {}
    /\ UNCHANGED <<wishes, unit, job, files, dev, kept, inos>>

(* main() up to connect_desired(): state_gc() drops the links of devices   *)
(* that are gone or whose name was reused.                                 *)
Boot ==
    /\ busy.in = "down"
    /\ busy' = Idle
    /\ Forget({}, {n \in Name : /\ link[n] # None
                                /\ \/ dev[n] = None
                                   \/ link[n].ino \notin {0, dev[n].ino}})
    /\ UNCHANGED <<wishes, ctrl, saved, soak, uevents, systemd, dev, kept, bounds>>

--------------------------------------------------------------------------------
Init ==
    /\ fc \in {{}, DC}
    /\ desired \in {S \in SUBSET Ctrl : Cardinality(S) <= MaxDesired} /\ excluded = {}
    /\ ctrl = [c \in Ctrl |-> None] /\ saved = {} /\ busy = Idle
    /\ jobs = {} /\ soak = <<>> /\ uevents = <<>> /\ ends = <<>>
    /\ unit = [c \in Ctrl |-> "none"] /\ job = [c \in Ctrl |-> "none"]
    /\ devid = [c \in Ctrl |-> None] /\ open = {} /\ link = [n \in Name |-> None]
    /\ dev = [n \in Name |-> None] /\ kept = {}
    /\ inos = 0 /\ faults = 0

Daemon ==
    \/ handle_nvme \/ soak_timeout \/ on_job_done \/ unit_wait_gone \/ release_stop
    \/ \E c \in Ctrl : \/ start_ctrl(c) \/ release_unit(c)
                       \/ retry_timeout(c) \/ epcsd_poll_timeout(c)
                       \/ \E epcsd \in BOOLEAN : on_dlp_read(c, epcsd)

Units ==
    \E c \in Ctrl : \/ open_devid_file(c) \/ libnvmf_connect(c) \/ ConnectFails(c)
                    \/ ExecStartPost(c) \/ ExecStop(c) \/ ExecStopPost(c)

Outside ==
    \/ \E n \in Name : DeviceLost(n) \/ DeviceGone(n) \/ DeviceChanged(n)
    \/ ForeignConnect
    \/ \E c \in Ctrl : Edit(c)
    \/ Crash \/ Boot

Next == Daemon \/ Units \/ Outside

Spec == Init /\ [][Next]_vars

--------------------------------------------------------------------------------
(* Properties. *)

(* The only live connections that the daemon's units disconnect are those  *)
(* of DCs, which an EPCSD of 0 or its poll ends: never another program's   *)
(* device that took the name, never an I/O controller, never a connection  *)
(* that a release left up (connection_commands(), release_unit(),          *)
(* start_ctrl()).                                                          *)
OnlyParkedDisconnected ==
    [][\A c \in Ctrl, n \in Name :
          ExecStop(c) /\ n \in Disconnected(c) /\ ~dev[n].deleting =>
              dev[n].of = c /\ c \in DC /\ dev[n].ino \notin kept]_vars

(* Something will come for c: a timer, the end of a job, a uevent or a     *)
(* soak timer of its device name, or its unit is replaced right now.       *)
Awaited(c) ==
    \/ ctrl[c].retry \/ ctrl[c].poll
    \/ c \in jobs \/ EndOf(c)
    \/ \E k \in 1..Len(uevents) : uevents[k].name = ctrl[c].dev
    \/ \E k \in 1..Len(soak) : soak[k] = ctrl[c].dev

(* No tracked controller is forgotten: as long as it is not linked to its  *)
(* own live device, something will come that makes the daemon look at it   *)
(* again, in whatever order jobs and uevents arrive (on_job_done(),        *)
(* on_nvme_remove(), soak_timeout(), retry_timeout()).                     *)
NothingForgotten ==
    \A c \in Tracked : Matches(ctrl[c].dev, c) \/ Awaited(c)

(* A DC that is parked for EPCSD=0 is never on the failure path            *)
(* (epcsd_park(): "Never retried with the failure backoff/give-up path").  *)
ParkedNotRetried ==
    \A c \in Tracked : ~(ctrl[c].poll /\ ctrl[c].retry)
================================================================================
