---------------------------- MODULE CtrlLifeProofs ----------------------------
(***************************************************************************)
(* Proofs about the life of a tracked controller (CtrlLife)                *)
(*                                                                         *)
(* With the windows of Races closed ("rename" may be open), the only live  *)
(* connections that the units disconnect are those of DCs.  The property   *)
(* speaks of one step; what makes it true is who may still have a record   *)
(* when its unit is stopped.  IInv says so:                                *)
(*   - InoInv: inodes are new and belong to one device (kernel);           *)
(*   - OwnInv: a record whose inode is the device's names the controller   *)
(*     of that device, and a .devid file names no connection that a        *)
(*     release of the same controller left up;                             *)
(*   - DevidInv: the .devid file of a unit that has not connected is       *)
(*     missing or empty;                                                   *)
(*   - IoInv: an I/O controller is recorded under its .devid file's name   *)
(*     only, and whatever restarts or stops its unit has removed the       *)
(*     records first, because the entry, the job and the records of a      *)
(*     tracked controller agree.                                           *)
(* DCs need no IoInv: they may be disconnected.                            *)
(***************************************************************************)
EXTENDS CtrlLife, FiniteSetTheorems, SequenceTheorems, TLAPS

(* The states of a unit. *)
States == {"none", "start", "connect", "post", "active", "stop", "stop-post"}

(* The states of a unit that is not starting. *)
Late == {"none", "post", "active", "stop", "stop-post"}

(* The records of a device name. *)
LinkRecord == [of : Ctrl, ino : 0..MaxIno]

(* The end of a job. *)
EndRecord == [of : Ctrl, done : BOOLEAN]

(* A uevent. *)
Uevent == [act : {"add", "remove", "change"}, name : Name]

(* What is desired and excluded. *)
WishType == fc \subseteq Ctrl /\ desired \subseteq Ctrl /\ excluded \subseteq Ctrl

(* The state of the daemon. *)
DaemonType ==
    /\ ctrl \in [Ctrl -> Entry \cup {None}] /\ saved \subseteq Ctrl
    /\ busy \in [in : {"no", "down", "replace", "release"}, of : Ctrl \cup {None}]

(* The soak timers and the uevents. *)
QueueType == soak \in Seq(Name) /\ uevents \in Seq(Uevent)

(* The units and their jobs. *)
SystemdType ==
    /\ unit \in [Ctrl -> States]
    /\ job \in [Ctrl -> {"none", "start", "restart", "stop"}]
    /\ jobs \subseteq Ctrl /\ ends \in Seq(EndRecord)

(* The state files. *)
FilesType ==
    /\ devid \in [Ctrl -> Name \cup {None, Empty}] /\ open \subseteq Ctrl
    /\ link \in [Name -> LinkRecord \cup {None}]

(* The devices and their inodes. *)
DevType ==
    /\ dev \in [Name -> Device \cup {None}] /\ kept \subseteq 1..MaxIno
    /\ inos \in 0..MaxIno

(* The bound on faults. *)
FaultsType == faults \in 0..MaxFault

(* TypeOK in parts. *)
Types ==
    /\ WishType /\ DaemonType /\ QueueType /\ SystemdType /\ FilesType /\ DevType
    /\ FaultsType

(* A handler that waits does so for a controller; one that is being        *)
(* released is not tracked and has no .devid file.                         *)
BusyInv ==
    /\ busy.in \in {"replace", "release"} => busy.of \in Ctrl
    /\ busy.in = "release" => devid[busy.of] = None /\ busy.of \notin Tracked

(* Inodes are given out in order, each to one device. *)
InoInv ==
    /\ \A n \in Name : dev[n] # None => dev[n].ino <= inos
    /\ \A m, n \in Name : dev[m] # None /\ dev[n] # None /\ dev[m].ino = dev[n].ino => m = n
    /\ \A n \in Name : link[n] # None => link[n].ino <= inos
    /\ \A k \in kept : k <= inos

(* A unit that has not connected has no device name in its .devid file. *)
DevidInv(c) ==
    /\ unit[c] \in {"none", "start"} => devid[c] = None
    /\ unit[c] = "connect" => devid[c] = IF c \in open THEN Empty ELSE None

(* A record that fits the device names its controller; a .devid file that  *)
(* was just written names the controller's own device; it never names a    *)
(* connection that a release left up.                                      *)
OwnInv ==
    /\ \A n \in Name : link[n] # None /\ dev[n] # None /\ link[n].ino = dev[n].ino
                       => dev[n].of = link[n].of
    /\ \A c \in Ctrl, n \in Name :
          devid[c] = n /\ dev[n] # None =>
             /\ unit[c] = "post" => dev[n].of = c
             /\ dev[n].of = c => dev[n].ino \notin kept

(* The I/O controllers. *)
Io == Ctrl \ DC

(* The device names that are recorded for c. *)
LinksOf(c) == {n \in Name : link[n] # None /\ link[n].of = c}

(* Nothing is recorded for c and its unit does not start. *)
Quiet(c) ==
    /\ devid[c] = None /\ job[c] # "restart"
    /\ unit[c] \in {"none", "post", "active", "stop", "stop-post"}

(* A job that runs belongs to a tracked controller or to one that is being *)
(* released. Its end is still to come, and records are left only by a start *)
(* whose device is gone.                                                   *)
JobInv(c) ==
    c \in jobs =>
        /\ c \in Tracked \/ (busy.in = "release" /\ busy.of = c)
        /\ ~EndOf(c)
        /\ \A n \in LinksOf(c) : unit[c] = "stop-post" /\ dev[n] = None

(* The end of a job of c that is not handled yet: its unit is still as the *)
(* job left it, and there is only one.                                     *)
EndInv(c) ==
    /\ \A k \in 1..Len(ends) : ends[k].of = c =>
          /\ job[c] = "none"
          /\ unit[c] = IF ends[k].done THEN "active" ELSE "none"
    /\ \A j, k \in 1..Len(ends) : ends[j].of = c /\ ends[k].of = c => j = k

(* A tracked I/O controller: it has no device while a job or a retry is    *)
(* due, a retry is due only when nothing is recorded, and with a device its *)
(* .devid file names that device or nothing.                               *)
TrackedInv(c) ==
    /\ ~ctrl[c].poll
    /\ ctrl[c].retry \/ EndOf(c) \/ c \in jobs => ctrl[c].dev = None
    /\ ctrl[c].retry => Quiet(c) /\ ~EndOf(c) /\ c \notin jobs
    /\ ctrl[c].dev # None =>
          /\ devid[c] \in {ctrl[c].dev, None} /\ job[c] # "restart"
          /\ unit[c] \in {"none", "post", "active", "stop", "stop-post"}
    /\ EndInv(c)

(* The records of c stand under the name in its .devid file; a restart has *)
(* none; a unit that is stopped disconnects nothing that is live; while its *)
(* unit is replaced c is not tracked.                                      *)
StopInv(c) ==
    /\ \A n \in LinksOf(c) : devid[c] = n
    /\ job[c] = "restart" => devid[c] = None /\ unit[c] \in {"stop", "stop-post"}
    /\ unit[c] = "stop" => \A n \in Disconnected(c) : dev[n].deleting
    /\ busy.in = "replace" /\ busy.of = c => c \notin Tracked /\ ~EndOf(c)

(* What holds of an I/O controller. *)
IoInv(c) == JobInv(c) /\ StopInv(c) /\ (c \in Tracked => TrackedInv(c))

(* The inductive invariant. *)
IInv ==
    /\ Types /\ BusyInv /\ InoInv /\ OwnInv
    /\ \A c \in Ctrl : DevidInv(c)
    /\ \A c \in Io : IoInv(c)

(* What the assumption on the constants gives. *)
LEMMA Constants ==
    /\ DC \subseteq Ctrl /\ Foreign \notin Ctrl /\ None \notin Ctrl
    /\ None \notin Name /\ Empty \notin Name /\ Empty # None
    /\ None \notin Entry /\ NewEntry \in Entry /\ NewEntry # None
    /\ MaxIno \in Nat /\ MaxFault \in Nat /\ Names \in Nat
    /\ Name \subseteq Nat
PROOF
  <1>1. Names \in Nat /\ MaxIno \in Nat /\ MaxFault \in Nat
    BY CtrlLifeAssumption DEF CtrlLifeAssumption
  <1>2. Name \subseteq Nat
    BY <1>1 DEF Name
  <1>3. None \notin Name /\ Empty \notin Name /\ Empty # None /\ None \notin Entry
        /\ None \notin Ctrl
    BY <1>2, CtrlLifeAssumption DEF CtrlLifeAssumption
  <1>4. NewEntry \in Entry
    BY DEF NewEntry, Entry
  <1> QED
    BY <1>1, <1>2, <1>3, <1>4, CtrlLifeAssumption DEF CtrlLifeAssumption

(* Stopping() by cases. *)
LEMMA StoppingIs ==
    /\ Stopping("active") = "stop"
    /\ Stopping("start") = "stop-post" /\ Stopping("connect") = "stop-post"
    /\ Stopping("post") = "stop-post"
    /\ Stopping("none") = "none" /\ Stopping("stop") = "stop"
    /\ Stopping("stop-post") = "stop-post"
PROOF
  <1>1. Stopping("active") = "stop"
    BY Zenon DEF Stopping
  <1>2. Stopping("start") = "stop-post" /\ Stopping("connect") = "stop-post"
        /\ Stopping("post") = "stop-post"
    BY Zenon DEF Stopping
  <1>3. Stopping("none") = "none" /\ Stopping("stop") = "stop"
        /\ Stopping("stop-post") = "stop-post"
    BY Zenon DEF Stopping
  <1> QED
    BY <1>1, <1>2, <1>3

(* What Stopping() returns. *)
LEMMA StoppingType ==
  ASSUME NEW s \in States
  PROVE  /\ Stopping(s) \in States
         /\ Stopping(s) = "stop" => s \in {"active", "stop"}
         /\ Stopping(s) \notin {"start", "connect", "post", "active"}
         /\ Stopping(s) = "none" <=> s = "none"
  BY StoppingIs DEF States

(* Updates of one field of an entry. *)
LEMMA EntryFields ==
  ASSUME NEW e \in Entry
  PROVE  /\ e.dev \in Name \cup {None} /\ e.retry \in BOOLEAN /\ e.poll \in BOOLEAN
         /\ e.read \in {"no", "run", "again"}
         /\ \A b \in BOOLEAN : LET f == [e EXCEPT !.retry = b]
                               IN  f \in Entry /\ f.retry = b /\ f.poll = e.poll /\ f.dev = e.dev
         /\ \A b \in BOOLEAN : LET f == [e EXCEPT !.poll = b]
                               IN  f \in Entry /\ f.poll = b /\ f.retry = e.retry /\ f.dev = e.dev
         /\ \A n \in Name \cup {None} :
               LET f == [e EXCEPT !.dev = n]
               IN  f \in Entry /\ f.dev = n /\ f.retry = e.retry /\ f.poll = e.poll
         /\ \A r \in {"no", "run", "again"} :
               LET f == [e EXCEPT !.read = r]
               IN  f \in Entry /\ f.dev = e.dev /\ f.retry = e.retry /\ f.poll = e.poll
  BY DEF Entry

(* Fetch() changes the read only. *)
LEMMA FetchFields ==
  ASSUME NEW e \in Entry
  PROVE  Fetch(e) \in Entry /\ Fetch(e).dev = e.dev /\ Fetch(e).retry = e.retry
         /\ Fetch(e).poll = e.poll
PROOF
  <1> DEFINE r == IF e.read = "no" THEN "run" ELSE "again"
  <1>1. r \in {"no", "run", "again"}
    OBVIOUS
  <1>2. Fetch(e) = [e EXCEPT !.read = r]
    BY DEF Fetch
  <1> HIDE DEF r
  <1>3. LET f == [e EXCEPT !.read = r]
        IN  f \in Entry /\ f.dev = e.dev /\ f.retry = e.retry /\ f.poll = e.poll
    BY <1>1 DEF Entry
  <1> QED
    BY <1>2, <1>3

(* Linked() sets the device of an entry that has none. *)
LEMMA LinkedFields ==
  ASSUME NEW c, NEW e \in Entry, NEW n \in Name
  PROVE  /\ Linked(c, e, n) \in Entry /\ Linked(c, e, n).retry = e.retry
         /\ Linked(c, e, n).poll = e.poll
         /\ Linked(c, e, n).dev = IF e.dev # None THEN e.dev ELSE n
PROOF
  <1> DEFINE f == [e EXCEPT !.dev = n]
  <1>1. f \in Entry /\ f.dev = n /\ f.retry = e.retry /\ f.poll = e.poll
    BY EntryFields
  <1>2. CASE e.dev # None
    BY <1>2 DEF Linked
  <1>3. CASE e.dev = None
    <2>1. Linked(c, e, n) = IF c \in DC THEN Fetch(f) ELSE f
      BY <1>3 DEF Linked
    <2> HIDE DEF f
    <2>2. /\ Fetch(f) \in Entry /\ Fetch(f).dev = n /\ Fetch(f).retry = e.retry
          /\ Fetch(f).poll = e.poll
      BY <1>1, FetchFields
    <2> QED
      BY <1>1, <1>3, <2>1, <2>2
  <1> QED
    BY <1>2, <1>3

(* A set of names that is not empty has a smallest one (sets of numbers up *)
(* to a bound are finite, and inclusion is well-founded on those).         *)
LEMMA SmallestName ==
  ASSUME NEW T \in SUBSET Name, T # {}
  PROVE  \E n \in T : \A m \in T : n <= m
PROOF
  <1> DEFINE R == StrictSubsetOrdering(Nat)
             F == {0..n : n \in T}
  <1>0. T \subseteq Nat
    BY Constants
  <1>1. F \subseteq FiniteSubsetsOf(Nat)
    <2> SUFFICES ASSUME NEW n \in T PROVE 0..n \in FiniteSubsetsOf(Nat)
      OBVIOUS
    <2>0. n \in Nat
      BY <1>0
    <2>1. IsFiniteSet(0..n)
      BY <2>0, FS_Interval
    <2>2. 0..n \in SUBSET Nat
      BY <2>0
    <2> QED
      BY <2>1, <2>2 DEF FiniteSubsetsOf
  <1>2. F # {}
    OBVIOUS
  <1>3. PICK x \in F : \A y \in F : ~(<<y, x>> \in R)
    <2>1. IsWellFoundedOn(R, FiniteSubsetsOf(Nat))
      BY FS_StrictSubsetOrderingWellFounded
    <2> HIDE DEF R, F
    <2> QED
      BY <1>1, <1>2, <2>1, WFMin
  <1>4. PICK n \in T : x = 0..n
    OBVIOUS
  <1>5. ASSUME NEW m \in T, m < n PROVE FALSE
    <2>1. 0..m \subseteq 0..n /\ n \in 0..n /\ n \notin 0..m
      BY <1>0, <1>5
    <2>2. <<0..m, 0..n>> \in R
      BY <1>0, <2>1 DEF StrictSubsetOrdering
    <2> QED
      BY <2>2, <1>3, <1>4
  <1> QED
    BY <1>0, <1>5

(* The kernel's choice is a free name. *)
LEMMA NewNameFree ==
  ASSUME Free # {}
  PROVE  NewName \in Name /\ dev[NewName] = None
PROOF
  <1>1. Free \in SUBSET Name
    BY DEF Free
  <1>2. \E n \in Free : \A m \in Free : n <= m
    BY <1>1, SmallestName
  <1>3. NewName \in Free
    BY <1>2, Zenon DEF NewName
  <1> QED
    BY <1>3 DEF Free

(* One more end of a job. *)
LEMMA AppendEnds ==
  ASSUME SystemdType, NEW x \in EndRecord, ends' = Append(ends, x)
  PROVE  /\ ends' \in Seq(EndRecord)
         /\ Len(ends) \in Nat /\ Len(ends') = Len(ends) + 1
         /\ \A k \in 1..Len(ends) : ends'[k] = ends[k]
         /\ ends'[Len(ends) + 1] = x
PROOF
  <1>1. ends \in Seq(EndRecord)
    BY DEF SystemdType
  <1>2. Append(ends, x) \in Seq(EndRecord)
    BY <1>1, AppendProperties
  <1>3. Len(Append(ends, x)) = Len(ends) + 1
    BY <1>1, AppendProperties
  <1>4. \A k \in 1..Len(ends) : Append(ends, x)[k] = ends[k]
    BY <1>1, AppendProperties
  <1>5. Append(ends, x)[Len(ends) + 1] = x
    BY <1>1, AppendProperties
  <1> QED
    BY <1>1, <1>2, <1>3, <1>4, <1>5, LenProperties

(* The first end of a job is taken. *)
LEMMA TailEnds ==
  ASSUME SystemdType, ends # <<>>, ends' = Tail(ends)
  PROVE  /\ ends' \in Seq(EndRecord) /\ Head(ends) \in EndRecord
         /\ Len(ends) \in Nat /\ Len(ends) >= 1 /\ Len(ends') = Len(ends) - 1
         /\ Head(ends) = ends[1]
         /\ \A k \in 1..Len(ends') : ends'[k] = ends[k + 1]
PROOF
  <1>1. ends \in Seq(EndRecord)
    BY DEF SystemdType
  <1> QED
    BY <1>1, HeadTailProperties, LenProperties, EmptySeq

(* The step leaves the device and the timers of t alone. *)
KeptEntry(t) ==
    IF ctrl[t] = None THEN ctrl'[t] = None
    ELSE /\ ctrl'[t] # None /\ ctrl'[t].dev = ctrl[t].dev
         /\ ctrl'[t].retry = ctrl[t].retry /\ ctrl'[t].poll = ctrl[t].poll

(* The step adds no end of a job of t. *)
KeptEnds(t) ==
    \E d \in {0, 1} : \A k \in 1..Len(ends') :
        ends'[k].of = t => k + d \in 1..Len(ends) /\ ends[k + d] = ends'[k]

(* The step leaves the unit of t alone. *)
KeptUnit(t) ==
    unit'[t] = unit[t] /\ job'[t] = job[t] /\ (t \in jobs' <=> t \in jobs)

(* The step leaves the .devid file of t alone and records nothing for t. *)
KeptFiles(t) ==
    /\ devid'[t] = devid[t]
    /\ \A n \in Name : link'[n] # None /\ link'[n].of = t => link'[n] = link[n]

(* No device that is recorded for t comes back, not under the name of a    *)
(* start of t that failed either.                                          *)
KeptDev(t) ==
    \A n \in Name : link[n] # None /\ link[n].of = t =>
        /\ unit[t] = "stop-post" /\ devid[t] = n /\ dev[n] = None => dev'[n] = None
        /\ dev'[n] # None /\ link[n].ino = dev'[n].ino =>
              /\ dev[n] # None /\ dev[n].ino = dev'[n].ino
              /\ dev[n].deleting => dev'[n].deleting

(* The step neither begins to replace the unit of t nor ends the release of *)
(* t while its job runs.                                                   *)
KeptBusy(t) ==
    /\ busy'.in = "replace" /\ busy'.of = t => busy' = busy
    /\ busy.in = "release" /\ busy.of = t => busy' = busy \/ t \notin jobs

(* Without a new end, EndInv stays. *)
LEMMA EndsSubset ==
  ASSUME SystemdType, SystemdType', NEW t, KeptEnds(t)
  PROVE  /\ EndOf(t)' => EndOf(t)
         /\ EndInv(t) /\ unit'[t] = unit[t] /\ job'[t] = job[t] => EndInv(t)'
PROOF
  <1>1. PICK d \in {0, 1} : \A k \in 1..Len(ends') :
           ends'[k].of = t => k + d \in 1..Len(ends) /\ ends[k + d] = ends'[k]
    BY DEF KeptEnds
  <1>2. Len(ends) \in Nat /\ Len(ends') \in Nat
    BY LenProperties DEF SystemdType
  <1>3. EndOf(t)' => EndOf(t)
    BY <1>1 DEF EndOf
  <1>4. ASSUME EndInv(t), unit'[t] = unit[t], job'[t] = job[t]
        PROVE  EndInv(t)'
    <2>1. ASSUME NEW k \in 1..Len(ends'), ends'[k].of = t
          PROVE  /\ job'[t] = "none"
                 /\ unit'[t] = IF ends'[k].done THEN "active" ELSE "none"
      <3>1. k + d \in 1..Len(ends) /\ ends[k + d] = ends'[k]
        BY <1>1, <2>1
      <3> QED
        BY <1>4, <2>1, <3>1 DEF EndInv
    <2>2. ASSUME NEW j \in 1..Len(ends'), NEW k \in 1..Len(ends'),
                 ends'[j].of = t, ends'[k].of = t
          PROVE  j = k
      <3>1. /\ j + d \in 1..Len(ends) /\ ends[j + d].of = t
            /\ k + d \in 1..Len(ends) /\ ends[k + d].of = t
        BY <1>1, <2>2
      <3>2. j + d = k + d
        BY <1>4, <3>1 DEF EndInv
      <3> QED
        BY <1>2, <3>2
    <2> QED
      BY <2>1, <2>2 DEF EndInv
  <1> QED
    BY <1>3, <1>4

(* A step of others keeps IoInv of t. Every action uses this for all       *)
(* controllers but its own.                                                *)
LEMMA FrameStep ==
  ASSUME SystemdType, SystemdType', NEW t \in Io, IoInv(t),
         KeptEntry(t), KeptEnds(t), KeptUnit(t), KeptFiles(t), KeptDev(t), KeptBusy(t)
  PROVE  IoInv(t)'
PROOF
  <1>1. EndOf(t)' => EndOf(t)
    BY EndsSubset
  <1>2. t \in Tracked' <=> t \in Tracked
    BY DEF KeptEntry, Tracked, Io
  <1>3. \A n \in LinksOf(t)' : n \in LinksOf(t) /\ link'[n] = link[n]
    BY DEF KeptFiles, LinksOf
  <1>4. JobInv(t)'
    <2> SUFFICES ASSUME t \in jobs'
                 PROVE  /\ t \in Tracked' \/ (busy'.in = "release" /\ busy'.of = t)
                        /\ ~EndOf(t)'
                        /\ \A n \in LinksOf(t)' : unit'[t] = "stop-post" /\ dev'[n] = None
      BY DEF JobInv
    <2>1. /\ t \in jobs
          /\ t \in Tracked \/ (busy.in = "release" /\ busy.of = t)
          /\ ~EndOf(t)
          /\ \A n \in LinksOf(t) : unit[t] = "stop-post" /\ dev[n] = None
      BY DEF KeptUnit, IoInv, JobInv
    <2>2. \A n \in LinksOf(t) : devid[t] = n
      BY DEF IoInv, StopInv
    <2>3. \A n \in LinksOf(t)' : unit'[t] = "stop-post" /\ dev'[n] = None
      BY <1>3, <2>1, <2>2 DEF KeptDev, LinksOf, KeptUnit
    <2> QED
      BY <1>1, <1>2, <2>1, <2>3 DEF KeptBusy
  <1>5. StopInv(t)'
    <2>1. \A n \in LinksOf(t)' : devid'[t] = n
      BY <1>3 DEF IoInv, StopInv, KeptFiles
    <2>2. job'[t] = "restart" => devid'[t] = None /\ unit'[t] \in {"stop", "stop-post"}
      BY DEF IoInv, StopInv, KeptFiles, KeptUnit
    <2>3. unit'[t] = "stop" => \A n \in Disconnected(t)' : dev'[n].deleting
      <3> SUFFICES ASSUME unit[t] = "stop", NEW n \in Disconnected(t)'
                   PROVE  dev'[n].deleting
        BY DEF KeptUnit
      <3>1. /\ n \in LinksOf(t)' /\ n = devid'[t] /\ dev'[n] # None
            /\ link'[n].ino = dev'[n].ino
        BY DEF Disconnected, LinkedTo, LinksOf
      <3>2. n \in LinksOf(t) /\ link'[n] = link[n]
        BY <1>3, <3>1
      <3>3. dev[n] # None /\ dev[n].ino = dev'[n].ino /\ (dev[n].deleting => dev'[n].deleting)
        BY <3>1, <3>2 DEF KeptDev, LinksOf
      <3>4. n \in Disconnected(t)
        BY <3>1, <3>2, <3>3 DEF Disconnected, LinkedTo, LinksOf, KeptFiles
      <3> QED
        BY <3>3, <3>4 DEF IoInv, StopInv
    <2>4. busy'.in = "replace" /\ busy'.of = t => t \notin Tracked' /\ ~EndOf(t)'
      BY <1>1, <1>2 DEF IoInv, StopInv, KeptBusy
    <2> QED
      BY <2>1, <2>2, <2>3, <2>4 DEF StopInv
  <1>6. ASSUME t \in Tracked' PROVE TrackedInv(t)'
    <2>1. TrackedInv(t)
      BY <1>2, <1>6 DEF IoInv
    <2>2. /\ ctrl'[t].dev = ctrl[t].dev /\ ctrl'[t].retry = ctrl[t].retry
          /\ ctrl'[t].poll = ctrl[t].poll
      BY <1>2, <1>6 DEF KeptEntry, Tracked
    <2>3. EndInv(t)'
      BY <2>1, EndsSubset DEF TrackedInv, KeptUnit
    <2> QED
      BY <1>1, <2>1, <2>2, <2>3 DEF TrackedInv, Quiet, KeptUnit, KeptFiles
  <1> QED
    BY <1>4, <1>5, <1>6 DEF IoInv

(* The step only removes records. *)
FilesShrink ==
    /\ \A c \in Ctrl : \/ devid'[c] = devid[c] /\ (c \in open' <=> c \in open)
                       \/ devid'[c] = None /\ c \notin open'
    /\ \A n \in Name : link'[n] = link[n] \/ link'[n] = None

(* The step only stops units or starts unloaded ones. *)
UnitsCalled ==
    \A c \in Ctrl : \/ unit'[c] = unit[c] \/ unit'[c] \in {"stop", "stop-post"}
                    \/ unit[c] = "none" /\ unit'[c] = "start"

(* What Forget() leaves. *)
LEMMA ForgetFacts ==
  ASSUME FilesType, NEW S \in SUBSET Ctrl, NEW N, Forget(S, N)
  PROVE  /\ FilesType' /\ FilesShrink
         /\ \A t \in Ctrl : t \notin S => KeptFiles(t)
         /\ \A c \in S : devid'[c] = None /\ c \notin open'
         /\ \A n \in Name : link'[n] = IF n \in N THEN None ELSE link[n]
PROOF
  <1>1. /\ devid' = [c \in Ctrl |-> IF c \in S THEN None ELSE devid[c]]
        /\ open' = open \ S
        /\ link' = [n \in Name |-> IF n \in N THEN None ELSE link[n]]
    BY DEF Forget
  <1>2. FilesType'
    BY <1>1 DEF FilesType
  <1>3. FilesShrink
    BY <1>1 DEF FilesShrink
  <1>4. \A t \in Ctrl : t \notin S => KeptFiles(t)
    BY <1>1 DEF KeptFiles
  <1> QED
    BY <1>1, <1>2, <1>3, <1>4

(* Files that do not change. *)
LEMMA FilesSame ==
  ASSUME FilesType, UNCHANGED files
  PROVE  FilesType' /\ FilesShrink /\ \A t \in Ctrl : KeptFiles(t)
  BY DEF files, FilesType, FilesShrink, KeptFiles

(* Units that do not change. *)
LEMMA SystemdSame ==
  ASSUME SystemdType, UNCHANGED systemd
  PROVE  SystemdType' /\ UnitsCalled /\ \A t \in Ctrl : KeptUnit(t) /\ KeptEnds(t)
PROOF
  <1>1. UNCHANGED <<unit, job, jobs, ends>>
    BY DEF systemd
  <1>2. Len(ends) \in Nat
    BY LenProperties DEF SystemdType
  <1>3. \A t \in Ctrl : KeptEnds(t)
    BY <1>1, <1>2 DEF KeptEnds
  <1> QED
    BY <1>1, <1>3 DEF SystemdType, UnitsCalled, KeptUnit

(* A call or the end of a job of c leaves other units alone. *)
LEMMA OneUnit ==
  ASSUME SystemdType, NEW c \in Ctrl, NEW s \in States,
         NEW j \in {"none", "start", "restart", "stop"},
         unit' = [unit EXCEPT ![c] = s], job' = [job EXCEPT ![c] = j],
         jobs' \in {jobs \cup {c}, jobs \ {c}},
         \/ ends' = ends
         \/ \E b \in BOOLEAN : ends' = Append(ends, [of |-> c, done |-> b])
  PROVE  SystemdType' /\ \A t \in Ctrl \ {c} : KeptUnit(t) /\ KeptEnds(t)
PROOF
  <1>1. unit' \in [Ctrl -> States] /\ job' \in [Ctrl -> {"none", "start", "restart", "stop"}]
    BY DEF SystemdType
  <1>2. jobs' \subseteq Ctrl
    BY DEF SystemdType
  <1>3. \A t \in Ctrl \ {c} : KeptUnit(t)
    BY DEF SystemdType, KeptUnit
  <1>4. ends' \in Seq(EndRecord) /\ \A t \in Ctrl \ {c} : KeptEnds(t)
    <2>0. Len(ends) \in Nat
      BY LenProperties DEF SystemdType
    <2>1. CASE ends' = ends
      BY <2>0, <2>1 DEF SystemdType, KeptEnds
    <2>2. ASSUME NEW b \in BOOLEAN, ends' = Append(ends, [of |-> c, done |-> b])
          PROVE  ends' \in Seq(EndRecord) /\ \A t \in Ctrl \ {c} : KeptEnds(t)
      <3> DEFINE x == [of |-> c, done |-> b]
      <3>1. x \in EndRecord /\ x.of = c
        BY DEF EndRecord
      <3> HIDE DEF x
      <3>2. /\ ends' \in Seq(EndRecord) /\ Len(ends') = Len(ends) + 1
            /\ \A k \in 1..Len(ends) : ends'[k] = ends[k]
            /\ ends'[Len(ends) + 1] = x
        BY <2>2, <3>1, AppendEnds DEF x
      <3>3. ASSUME NEW t \in Ctrl \ {c}, NEW k \in 1..Len(ends'), ends'[k].of = t
            PROVE  k + 0 \in 1..Len(ends) /\ ends[k + 0] = ends'[k]
        <4>1. k # Len(ends) + 1
          BY <3>1, <3>2, <3>3
        <4>2. k \in 1..Len(ends) /\ k + 0 = k
          BY <2>0, <3>2, <4>1
        <4> QED
          BY <3>2, <4>2
      <3> QED
        BY <3>2, <3>3 DEF KeptEnds
    <2> QED
      BY <2>1, <2>2
  <1> QED
    BY <1>1, <1>2, <1>3, <1>4 DEF SystemdType

(* What unit_stop() changes. *)
LEMMA StopCall ==
  ASSUME SystemdType, NEW c \in Ctrl, unit_stop(c)
  PROVE  /\ SystemdType' /\ UnitsCalled
         /\ \A t \in Ctrl \ {c} : KeptUnit(t) /\ KeptEnds(t)
         /\ unit'[c] = Stopping(unit[c]) /\ job'[c] \in {"none", "stop"} /\ c \notin jobs'
         /\ c \notin jobs => ends' = ends
PROOF
  <1> DEFINE s == Stopping(unit[c])
             j == IF unit[c] = "none" THEN "none" ELSE "stop"
  <1>1. unit[c] \in States
    BY DEF SystemdType
  <1>2. s \in States /\ j \in {"none", "start", "restart", "stop"} /\ j \in {"none", "stop"}
        /\ (s = unit[c] \/ s \in {"stop", "stop-post"})
    BY <1>1, StoppingIs DEF States
  <1>3. unit' = [unit EXCEPT ![c] = s] /\ job' = [job EXCEPT ![c] = j] /\ jobs' = jobs \ {c}
    BY DEF unit_stop
  <1>4. \/ ends' = ends
        \/ \E b \in BOOLEAN : ends' = Append(ends, [of |-> c, done |-> b])
    BY DEF unit_stop
  <1>5. c \notin jobs => ends' = ends
    BY DEF unit_stop
  <1> HIDE DEF s, j
  <1>6. SystemdType' /\ \A t \in Ctrl \ {c} : KeptUnit(t) /\ KeptEnds(t)
    BY <1>2, <1>3, <1>4, OneUnit
  <1>7. UnitsCalled /\ unit'[c] = s /\ job'[c] = j
    BY <1>2, <1>3 DEF UnitsCalled, SystemdType
  <1> QED
    BY <1>2, <1>3, <1>5, <1>6, <1>7 DEF s

(* What unit_restart() changes. *)
LEMMA RestartCall ==
  ASSUME SystemdType, NEW c \in Ctrl, unit_restart(c)
  PROVE  /\ SystemdType' /\ UnitsCalled
         /\ \A t \in Ctrl \ {c} : KeptUnit(t) /\ KeptEnds(t)
         /\ unit'[c] = Stopping(unit[c]) /\ unit[c] # "none" /\ job'[c] = "restart"
         /\ c \in jobs' /\ ends' = ends
PROOF
  <1> DEFINE s == Stopping(unit[c])
  <1>1. unit[c] \in States /\ unit[c] # "none"
    BY DEF SystemdType, unit_restart
  <1>2. s \in States /\ s \in {"stop", "stop-post"}
    BY <1>1, StoppingIs DEF States
  <1>3. /\ unit' = [unit EXCEPT ![c] = s] /\ job' = [job EXCEPT ![c] = "restart"]
        /\ jobs' = jobs \cup {c} /\ ends' = ends
    BY DEF unit_restart
  <1> HIDE DEF s
  <1>4. SystemdType' /\ \A t \in Ctrl \ {c} : KeptUnit(t) /\ KeptEnds(t)
    BY <1>2, <1>3, OneUnit
  <1>5. UnitsCalled /\ unit'[c] = s /\ job'[c] = "restart"
    BY <1>2, <1>3 DEF UnitsCalled, SystemdType
  <1> QED
    BY <1>1, <1>3, <1>4, <1>5 DEF s

(* What unit_start() changes. *)
LEMMA StartCall ==
  ASSUME SystemdType, NEW c \in Ctrl, unit_start(c)
  PROVE  /\ SystemdType' /\ UnitsCalled
         /\ \A t \in Ctrl \ {c} : KeptUnit(t) /\ KeptEnds(t)
         /\ unit'[c] = "start" /\ unit[c] = "none" /\ job'[c] = "start"
         /\ c \in jobs' /\ ends' = ends
PROOF
  <1>1. /\ unit' = [unit EXCEPT ![c] = "start"] /\ job' = [job EXCEPT ![c] = "start"]
        /\ jobs' = jobs \cup {c} /\ ends' = ends /\ unit[c] = "none"
    BY DEF unit_start
  <1>2. "start" \in States
    BY DEF States
  <1>3. SystemdType' /\ \A t \in Ctrl \ {c} : KeptUnit(t) /\ KeptEnds(t)
    BY <1>1, <1>2, OneUnit
  <1>4. UnitsCalled /\ unit'[c] = "start" /\ job'[c] = "start"
    BY <1>1 DEF UnitsCalled, SystemdType
  <1> QED
    BY <1>1, <1>3, <1>4

(* A step that removes records and calls systemd keeps the parts about     *)
(* inodes, owners and .devid files.                                        *)
LEMMA CoreQuiet ==
  ASSUME IInv, FilesShrink, UnitsCalled, UNCHANGED <<dev, inos, kept>>
  PROVE  InoInv' /\ OwnInv' /\ \A c \in Ctrl : DevidInv(c)'
PROOF
  <1>1. InoInv'
    BY Constants DEF IInv, InoInv, FilesShrink
  <1>2. OwnInv'
    <2>1. \A n \in Name : link'[n] # None => link'[n] = link[n]
      BY DEF FilesShrink
    <2>2. \A c \in Ctrl, n \in Name : devid'[c] = n => devid[c] = n
      BY Constants DEF FilesShrink
    <2>3. \A c \in Ctrl : unit'[c] = "post" => unit[c] = "post"
      BY DEF UnitsCalled
    <2> QED
      BY <2>1, <2>2, <2>3 DEF IInv, OwnInv
  <1>3. ASSUME NEW c \in Ctrl PROVE DevidInv(c)'
    <2>1. DevidInv(c)
      BY DEF IInv
    <2> QED
      BY <2>1 DEF DevidInv, FilesShrink, UnitsCalled
  <1> QED
    BY <1>1, <1>2, <1>3

(* A change of one entry. *)
LEMMA OneEntry ==
  ASSUME DaemonType, NEW c \in Ctrl, NEW e \in Entry \cup {None}, ctrl' = [ctrl EXCEPT ![c] = e]
  PROVE  /\ ctrl' \in [Ctrl -> Entry \cup {None}] /\ ctrl'[c] = e
         /\ \A t \in Ctrl \ {c} : KeptEntry(t)
  BY DEF DaemonType, KeptEntry

(* Entries that do not change. *)
LEMMA EntriesSame ==
  ASSUME UNCHANGED ctrl
  PROVE  \A t \in Ctrl : KeptEntry(t)
  BY DEF KeptEntry

(* Devices that do not change. *)
LEMMA DevSame ==
  ASSUME UNCHANGED dev
  PROVE  \A t \in Ctrl : KeptDev(t)
  BY DEF KeptDev

(* A handler that does not begin or end to wait. *)
LEMMA BusySame ==
  ASSUME UNCHANGED busy
  PROVE  \A t \in Ctrl : KeptBusy(t)
  BY DEF KeptBusy

(* IoInv of all from that of c. *)
LEMMA OthersStep ==
  ASSUME IInv, SystemdType', NEW c \in Ctrl,
         \A t \in Ctrl \ {c} : /\ KeptEntry(t) /\ KeptEnds(t) /\ KeptUnit(t)
                               /\ KeptFiles(t) /\ KeptDev(t) /\ KeptBusy(t),
         c \in Io => IoInv(c)'
  PROVE  \A t \in Io : IoInv(t)'
PROOF
  <1> SUFFICES ASSUME NEW t \in Io, t # c PROVE IoInv(t)'
    OBVIOUS
  <1>1. t \in Ctrl \ {c} /\ IoInv(t) /\ SystemdType
    BY DEF Io, IInv, Types
  <1> QED
    BY <1>1, FrameStep

(* A step of nobody keeps IoInv. *)
LEMMA AllStep ==
  ASSUME IInv, SystemdType',
         \A t \in Ctrl : /\ KeptEntry(t) /\ KeptEnds(t) /\ KeptUnit(t)
                         /\ KeptFiles(t) /\ KeptDev(t) /\ KeptBusy(t)
  PROVE  \A t \in Io : IoInv(t)'
PROOF
  <1> SUFFICES ASSUME NEW t \in Io PROVE IoInv(t)'
    OBVIOUS
  <1>1. t \in Ctrl /\ IoInv(t) /\ SystemdType
    BY DEF Io, IInv, Types
  <1> QED
    BY <1>1, FrameStep

(* The records of an I/O controller stand under the name in its .devid     *)
(* file.                                                                   *)
LEMMA LinksAreRecorded ==
  ASSUME IInv, NEW c \in Io
  PROVE  /\ \A n \in LinksOf(c) : devid[c] = n
         /\ LinksOf(c) \subseteq LinkedTo(c, {devid[c]})
         /\ devid[c] = None => LinksOf(c) = {}
PROOF
  <1>1. \A n \in LinksOf(c) : devid[c] = n
    BY DEF IInv, IoInv, StopInv
  <1>2. LinksOf(c) \subseteq LinkedTo(c, {devid[c]})
    BY <1>1 DEF LinksOf, LinkedTo
  <1>3. devid[c] = None => LinksOf(c) = {}
    BY <1>1, Constants DEF LinksOf
  <1> QED
    BY <1>1, <1>2, <1>3

(* No record of c is left. *)
LEMMA ForgottenLinks ==
  ASSUME NEW c, NEW N, LinksOf(c) \subseteq N,
         \A n \in Name : link'[n] = IF n \in N THEN None ELSE link[n]
  PROVE  LinksOf(c)' = {}
  BY DEF LinksOf

(* No record of c comes back. *)
LEMMA SameLinks ==
  ASSUME NEW c, FilesShrink, LinksOf(c) = {}
  PROVE  LinksOf(c)' = {}
  BY DEF LinksOf, FilesShrink

(* No end of a job of c is left. *)
LEMMA NoEnds ==
  ASSUME NEW c, ends' = ends, ~EndOf(c)
  PROVE  ~EndOf(c)' /\ EndInv(c)'
  BY DEF EndOf, EndInv

(* Without a record nothing is disconnected. *)
LEMMA NothingDisconnected ==
  ASSUME NEW c, LinksOf(c)' = {}
  PROVE  Disconnected(c)' = {}
  BY DEF LinksOf, Disconnected, LinkedTo

(* A tracked controller whose start or restart was just called. *)
LEMMA CalledIo ==
  ASSUME NEW c \in Io, c \in jobs', ends' = ends, ~EndOf(c),
         LinksOf(c)' = {}, devid'[c] = None,
         \/ job'[c] = "start"
         \/ job'[c] = "restart" /\ unit'[c] \in {"stop", "stop-post"},
         ctrl'[c] # None, ctrl'[c].dev = None, ctrl'[c].retry = FALSE, ctrl'[c].poll = FALSE,
         busy'.in # "replace"
  PROVE  IoInv(c)'
PROOF
  <1>1. ~EndOf(c)' /\ EndInv(c)'
    BY NoEnds
  <1>2. Disconnected(c)' = {}
    BY NothingDisconnected
  <1>3. c \in Tracked'
    BY DEF Tracked, Io
  <1>4. JobInv(c)'
    BY <1>1, <1>3 DEF JobInv
  <1>5. StopInv(c)'
    BY <1>2 DEF StopInv
  <1>6. TrackedInv(c)'
    BY <1>1 DEF TrackedInv
  <1> QED
    BY <1>4, <1>5, <1>6 DEF IoInv

(* A controller that is not tracked and has no record. *)
LEMMA UntrackedIo ==
  ASSUME NEW c \in Io, ctrl'[c] = None, LinksOf(c)' = {},
         c \in jobs' => busy'.in = "release" /\ busy'.of = c /\ ~EndOf(c)',
         job'[c] = "restart" => devid'[c] = None /\ unit'[c] \in {"stop", "stop-post"},
         busy'.in = "replace" /\ busy'.of = c => ~EndOf(c)'
  PROVE  IoInv(c)'
PROOF
  <1>2. Disconnected(c)' = {}
    BY NothingDisconnected
  <1>3. c \notin Tracked'
    BY DEF Tracked
  <1>4. JobInv(c)'
    BY DEF JobInv
  <1>5. StopInv(c)'
    BY <1>2, <1>3 DEF StopInv
  <1> QED
    BY <1>3, <1>4, <1>5 DEF IoInv

(* The types of what does not change. *)
LEMMA TypesSame ==
  ASSUME Types
  PROVE  /\ UNCHANGED wishes => WishType'
         /\ UNCHANGED <<soak, uevents>> => QueueType'
         /\ UNCHANGED <<dev, kept, inos>> => DevType'
         /\ UNCHANGED faults => FaultsType'
         /\ faults < MaxFault /\ faults' = faults + 1 => FaultsType'
PROOF
  <1>1. MaxFault \in Nat
    BY Constants
  <1>2. UNCHANGED wishes => WishType'
    BY DEF Types, WishType, wishes
  <1>3. UNCHANGED <<soak, uevents>> => QueueType'
    BY DEF Types, QueueType
  <1>4. UNCHANGED <<dev, kept, inos>> => DevType'
    BY DEF Types, DevType
  <1>5. /\ UNCHANGED faults => FaultsType'
        /\ faults < MaxFault /\ faults' = faults + 1 => FaultsType'
    BY <1>1 DEF Types, FaultsType
  <1> QED
    BY <1>2, <1>3, <1>4, <1>5

(* The event loop is back. *)
LEMMA IdleBusy ==
  ASSUME busy' = Idle
  PROVE  /\ BusyInv' /\ busy'.in = "no"
         /\ busy' \in [in : {"no", "down", "replace", "release"}, of : Ctrl \cup {None}]
  BY DEF Idle, BusyInv

(* start_ctrl(): a new unit, an adopted one, or a stale one that is        *)
(* replaced. The records go before the stop.                               *)
LEMMA StartCtrlStep ==
  ASSUME Races \subseteq {"rename"}, IInv, NEW c \in Ctrl, start_ctrl(c)
  PROVE  IInv'
PROOF
  <1>1. /\ busy = Idle /\ c \notin Tracked /\ ctrl[c] = None /\ ~EndOf(c)
        /\ UNCHANGED <<wishes, saved, soak, uevents, dev, kept, inos, faults>>
    BY DEF start_ctrl, Ready, Tracked, bounds
  <1>2. WishType' /\ QueueType' /\ DevType' /\ FaultsType'
    BY <1>1, TypesSame DEF IInv
  <1>3. Types /\ SystemdType /\ FilesType /\ DaemonType /\ DevidInv(c)
    BY DEF IInv, Types
  <1>4. busy.in = "no"
    BY <1>1 DEF Idle
  <1>5. c \in Io => IoInv(c) /\ c \notin jobs
    BY <1>1, <1>4 DEF IInv, IoInv, JobInv
  <1>6. CASE unit_start(c) /\ ctrl' = [ctrl EXCEPT ![c] = NewEntry] /\ UNCHANGED <<files, busy>>
    <2>1. /\ SystemdType' /\ UnitsCalled /\ \A t \in Ctrl \ {c} : KeptUnit(t) /\ KeptEnds(t)
          /\ unit[c] = "none" /\ job'[c] = "start" /\ c \in jobs' /\ ends' = ends
      BY <1>3, <1>6, StartCall
    <2>2. FilesType' /\ FilesShrink /\ \A t \in Ctrl : KeptFiles(t)
      BY <1>3, <1>6, FilesSame
    <2>3. /\ ctrl' \in [Ctrl -> Entry \cup {None}] /\ ctrl'[c] = NewEntry
          /\ \A t \in Ctrl \ {c} : KeptEntry(t)
      BY <1>3, <1>6, OneEntry, Constants
    <2>4. busy' = Idle /\ BusyInv' /\ busy'.in = "no"
      BY <1>1, <1>6, IdleBusy
    <2>5. ASSUME c \in Io PROVE IoInv(c)'
      <3>1. devid[c] = None
        BY <1>3, <2>1 DEF DevidInv
      <3>2. devid'[c] = None /\ LinksOf(c)' = {}
        BY <1>6, <2>2, <2>5, <3>1, LinksAreRecorded, SameLinks DEF files
      <3>3. /\ ctrl'[c] # None /\ ctrl'[c].dev = None /\ ctrl'[c].retry = FALSE
            /\ ctrl'[c].poll = FALSE
        BY <2>3, Constants DEF NewEntry
      <3> QED
        BY <1>1, <2>1, <2>4, <2>5, <3>2, <3>3, CalledIo
    <2>6. \A t \in Ctrl : KeptDev(t) /\ KeptBusy(t)
      BY <1>1, <1>6, DevSame, BusySame
    <2>7. \A t \in Io : IoInv(t)'
      BY <2>1, <2>2, <2>3, <2>5, <2>6, OthersStep
    <2>8. InoInv' /\ OwnInv' /\ \A t \in Ctrl : DevidInv(t)'
      BY <1>1, <2>1, <2>2, CoreQuiet
    <2> QED
      BY <1>1, <1>2, <1>3, <1>6, <2>1, <2>2, <2>3, <2>4, <2>7, <2>8 DEF IInv, Types, DaemonType
  <1>7. CASE /\ unit[c] # "none" /\ Matches(devid[c], c)
             /\ ctrl' = [ctrl EXCEPT ![c] = Linked(c, NewEntry, devid[c])]
             /\ UNCHANGED <<systemd, files, busy>>
    <2> DEFINE e == Linked(c, NewEntry, devid[c])
    <2>1. devid[c] \in Name
      BY <1>7 DEF Matches
    <2>2. /\ e \in Entry /\ e.retry = FALSE /\ e.poll = FALSE /\ e.dev = devid[c]
      <3>1. NewEntry \in Entry
        BY Constants
      <3>2. NewEntry.dev = None /\ NewEntry.retry = FALSE /\ NewEntry.poll = FALSE
        BY DEF NewEntry
      <3> QED
        BY <2>1, <3>1, <3>2, LinkedFields
    <2>3. ctrl' = [ctrl EXCEPT ![c] = e]
      BY <1>7
    <2> HIDE DEF e
    <2>4. SystemdType' /\ UnitsCalled /\ \A t \in Ctrl : KeptUnit(t) /\ KeptEnds(t)
      BY <1>3, <1>7, SystemdSame
    <2>5. FilesType' /\ FilesShrink /\ \A t \in Ctrl : KeptFiles(t)
      BY <1>3, <1>7, FilesSame
    <2>6. /\ ctrl' \in [Ctrl -> Entry \cup {None}] /\ ctrl'[c] = e
          /\ \A t \in Ctrl \ {c} : KeptEntry(t)
      BY <1>3, <2>2, <2>3, OneEntry
    <2>7. busy' = Idle /\ BusyInv' /\ busy'.in = "no"
      BY <1>1, <1>7, IdleBusy
    <2>8. ASSUME c \in Io PROVE IoInv(c)'
      <3>1. UNCHANGED <<unit, job, jobs, ends, devid, open, link, dev, busy>>
        BY <1>1, <1>7 DEF systemd, files
      <3>2. unit[c] \notin {"none", "start", "connect"} /\ unit[c] \in States
        BY <1>3, <2>1, Constants DEF DevidInv, SystemdType
      <3>3. job[c] # "restart"
        BY <1>5, <2>1, <2>8, Constants DEF IoInv, StopInv
      <3>4. ~EndOf(c)' /\ EndInv(c)'
        BY <1>1, <3>1, NoEnds
      <3>5. StopInv(c)'
        BY <1>5, <2>7, <2>8, <3>1
           DEF IoInv, StopInv, LinksOf, Disconnected, LinkedTo
      <3>6. JobInv(c)'
        BY <1>5, <2>8, <3>1 DEF JobInv
      <3>7. TrackedInv(c)'
        BY <1>5, <2>2, <2>6, <2>8, <3>1, <3>2, <3>3, <3>4 DEF TrackedInv, States
      <3> QED
        BY <3>5, <3>6, <3>7 DEF IoInv
    <2>9. \A t \in Ctrl : KeptDev(t) /\ KeptBusy(t)
      BY <1>1, <1>7, DevSame, BusySame
    <2>10. \A t \in Io : IoInv(t)'
      BY <2>4, <2>5, <2>6, <2>8, <2>9, OthersStep
    <2>11. InoInv' /\ OwnInv' /\ \A t \in Ctrl : DevidInv(t)'
      BY <1>1, <2>4, <2>5, CoreQuiet
    <2> QED
      BY <1>1, <1>2, <1>3, <1>7, <2>4, <2>5, <2>6, <2>7, <2>10, <2>11 DEF IInv, Types, DaemonType
  <1>8. CASE /\ Forget({c}, LinkedTo(c, {devid[c]}))
             /\ unit_stop(c) /\ busy' = [in |-> "replace", of |-> c] /\ UNCHANGED ctrl
    <2>1. /\ SystemdType' /\ UnitsCalled /\ \A t \in Ctrl \ {c} : KeptUnit(t) /\ KeptEnds(t)
          /\ job'[c] \in {"none", "stop"} /\ c \notin jobs' /\ (c \notin jobs => ends' = ends)
      BY <1>3, <1>8, StopCall
    <2>2. /\ FilesType' /\ FilesShrink /\ \A t \in Ctrl \ {c} : KeptFiles(t)
          /\ devid'[c] = None
          /\ \A n \in Name : link'[n] = IF n \in LinkedTo(c, {devid[c]}) THEN None ELSE link[n]
      BY <1>3, <1>8, ForgetFacts
    <2>3. /\ busy'.in = "replace" /\ busy'.of = c /\ BusyInv'
          /\ busy' \in [in : {"no", "down", "replace", "release"}, of : Ctrl \cup {None}]
      BY <1>8 DEF BusyInv
    <2>4. ASSUME c \in Io PROVE IoInv(c)'
      <3>1. LinksOf(c)' = {}
        BY <2>2, <2>4, LinksAreRecorded, ForgottenLinks
      <3>2. ~EndOf(c)'
        BY <1>1, <1>5, <2>1, <2>4, NoEnds
      <3>3. ctrl'[c] = None
        BY <1>1, <1>8
      <3> QED
        BY <2>1, <2>4, <3>1, <3>2, <3>3, UntrackedIo
    <2>5. \A t \in Ctrl \ {c} : KeptDev(t) /\ KeptBusy(t) /\ KeptEntry(t)
      <3>1. \A t \in Ctrl : KeptDev(t) /\ KeptEntry(t)
        BY <1>1, <1>8, DevSame, EntriesSame
      <3>2. \A t \in Ctrl \ {c} : KeptBusy(t)
        BY <1>4, <2>3 DEF KeptBusy
      <3> QED
        BY <3>1, <3>2
    <2>6. \A t \in Io : IoInv(t)'
      BY <2>1, <2>2, <2>4, <2>5, OthersStep
    <2>7. InoInv' /\ OwnInv' /\ \A t \in Ctrl : DevidInv(t)'
      BY <1>1, <2>1, <2>2, CoreQuiet
    <2> QED
      BY <1>1, <1>2, <1>3, <1>8, <2>1, <2>2, <2>3, <2>6, <2>7 DEF IInv, Types, DaemonType
  <1> QED
    BY <1>6, <1>7, <1>8 DEF start_ctrl

(* A tracked controller that waits for its retry. *)
LEMMA RestingIo ==
  ASSUME NEW c \in Io, c \notin jobs', ~EndOf(c)', EndInv(c)', LinksOf(c)' = {},
         devid'[c] = None, job'[c] # "restart", unit'[c] \in Late,
         ctrl'[c] # None, ctrl'[c].dev = None, ctrl'[c].poll = FALSE, busy'.in # "replace"
  PROVE  IoInv(c)'
PROOF
  <1>1. Disconnected(c)' = {}
    BY NothingDisconnected
  <1>2. JobInv(c)'
    BY DEF JobInv
  <1>3. StopInv(c)'
    BY <1>1 DEF StopInv
  <1>4. TrackedInv(c)'
    BY DEF TrackedInv, Quiet, Late
  <1> QED
    BY <1>2, <1>3, <1>4 DEF IoInv

(* restart_or_start() of a controller that has no record. *)
LEMMA RestartOrStartStep ==
  ASSUME IInv, NEW c \in Ctrl, NEW e \in Entry, restart_or_start(c, e),
         busy = Idle, UNCHANGED <<wishes, saved, busy, dev, kept, inos>>, QueueType',
         FilesType', FilesShrink, \A t \in Ctrl \ {c} : KeptFiles(t),
         c \in Io => /\ e.dev = None /\ e.retry = FALSE /\ e.poll = FALSE
                     /\ LinksOf(c)' = {} /\ devid'[c] = None
                     /\ unit[c] \in Late /\ job[c] # "restart" /\ ~EndOf(c) /\ c \notin jobs
  PROVE  IInv'
PROOF
  <1>1. Types /\ SystemdType /\ DaemonType
    BY DEF IInv, Types
  <1>2. busy' = Idle /\ BusyInv' /\ busy'.in = "no"
    BY IdleBusy
  <1>3. WishType' /\ DevType'
    BY <1>1, TypesSame
  <1>4. \A t \in Ctrl : KeptDev(t) /\ KeptBusy(t)
    BY DevSame, BusySame
  <1>5. CASE /\ unit_restart(c) \/ unit_start(c)
             /\ ctrl' = [ctrl EXCEPT ![c] = e] /\ UNCHANGED faults
    <2>1. /\ SystemdType' /\ UnitsCalled /\ \A t \in Ctrl \ {c} : KeptUnit(t) /\ KeptEnds(t)
          /\ c \in jobs' /\ ends' = ends
          /\ \/ job'[c] = "start"
             \/ /\ job'[c] = "restart" /\ unit[c] # "none"
                /\ unit'[c] = Stopping(unit[c])
      BY <1>1, <1>5, RestartCall, StartCall
    <2>2. /\ ctrl' \in [Ctrl -> Entry \cup {None}] /\ ctrl'[c] = e
          /\ \A t \in Ctrl \ {c} : KeptEntry(t)
      BY <1>1, <1>5, OneEntry
    <2>3. ASSUME c \in Io PROVE IoInv(c)'
      <3>1. \/ job'[c] = "start"
            \/ job'[c] = "restart" /\ unit'[c] \in {"stop", "stop-post"}
        BY <2>1, <2>3, StoppingIs DEF Late
      <3>2. e # None
        BY Constants
      <3> QED
        BY <1>2, <2>1, <2>2, <2>3, <3>1, <3>2, CalledIo
    <2>4. \A t \in Io : IoInv(t)'
      BY <1>4, <2>1, <2>2, <2>3, OthersStep
    <2>5. InoInv' /\ OwnInv' /\ \A t \in Ctrl : DevidInv(t)'
      BY <2>1, CoreQuiet
    <2>6. FaultsType'
      BY <1>1, <1>5, TypesSame
    <2> QED
      BY <1>1, <1>2, <1>3, <2>1, <2>2, <2>4, <2>5, <2>6 DEF IInv, Types, DaemonType
  <1>6. CASE /\ faults < MaxFault /\ faults' = faults + 1
             /\ ctrl' = [ctrl EXCEPT ![c] = [e EXCEPT !.retry = TRUE]] /\ UNCHANGED systemd
    <2> DEFINE f == [e EXCEPT !.retry = TRUE]
    <2>1. f \in Entry /\ f.dev = e.dev /\ f.poll = e.poll
      BY EntryFields
    <2>2. ctrl' = [ctrl EXCEPT ![c] = f]
      BY <1>6
    <2> HIDE DEF f
    <2>3. /\ ctrl' \in [Ctrl -> Entry \cup {None}] /\ ctrl'[c] = f
          /\ \A t \in Ctrl \ {c} : KeptEntry(t)
      BY <1>1, <2>1, <2>2, OneEntry
    <2>4. SystemdType' /\ UnitsCalled /\ \A t \in Ctrl : KeptUnit(t) /\ KeptEnds(t)
      BY <1>1, <1>6, SystemdSame
    <2>5. ASSUME c \in Io PROVE IoInv(c)'
      <3>1. UNCHANGED <<unit, job, jobs, ends>>
        BY <1>6 DEF systemd
      <3>2. f # None
        BY <2>1, Constants
      <3>3. ~EndOf(c)' /\ EndInv(c)'
        BY <2>5, <3>1, NoEnds
      <3> QED
        BY <1>2, <2>1, <2>3, <2>5, <3>1, <3>2, <3>3, RestingIo
    <2>6. \A t \in Io : IoInv(t)'
      BY <1>4, <2>3, <2>4, <2>5, OthersStep
    <2>7. InoInv' /\ OwnInv' /\ \A t \in Ctrl : DevidInv(t)'
      BY <2>4, CoreQuiet
    <2>8. FaultsType'
      BY <1>1, <1>6, TypesSame
    <2> QED
      BY <1>1, <1>2, <1>3, <2>3, <2>4, <2>6, <2>7, <2>8 DEF IInv, Types, DaemonType
  <1> QED
    BY <1>5, <1>6 DEF restart_or_start

(* A controller that has no record is not tracked any more. *)
LEMMA DroppedStep ==
  ASSUME IInv, NEW c \in Ctrl, ctrl_remove(c), busy = Idle,
         UNCHANGED <<wishes, saved, busy, dev, kept, inos, faults>>, QueueType',
         FilesType', FilesShrink, \A t \in Ctrl \ {c} : KeptFiles(t),
         c \in Io => c \notin jobs /\ LinksOf(c)' = {} /\ job[c] # "restart",
         UNCHANGED systemd \/ unit_stop(c)
  PROVE  IInv'
PROOF
  <1>1. Types /\ SystemdType /\ DaemonType
    BY DEF IInv, Types
  <1>2. busy' = Idle /\ BusyInv' /\ busy'.in = "no"
    BY IdleBusy
  <1>3. WishType' /\ DevType' /\ FaultsType'
    BY <1>1, TypesSame
  <1>4. \A t \in Ctrl : KeptDev(t) /\ KeptBusy(t)
    BY DevSame, BusySame
  <1>5. /\ ctrl' \in [Ctrl -> Entry \cup {None}] /\ ctrl'[c] = None
        /\ \A t \in Ctrl \ {c} : KeptEntry(t)
    BY <1>1, OneEntry DEF ctrl_remove
  <1>6. /\ SystemdType' /\ UnitsCalled /\ \A t \in Ctrl \ {c} : KeptUnit(t) /\ KeptEnds(t)
        /\ (c \notin jobs => c \notin jobs') /\ (job'[c] = "restart" => job[c] = "restart")
    <2>1. CASE UNCHANGED systemd
      BY <1>1, <2>1, SystemdSame DEF systemd
    <2>2. CASE unit_stop(c)
      BY <1>1, <2>2, StopCall
    <2> QED
      BY <2>1, <2>2
  <1>7. ASSUME c \in Io PROVE IoInv(c)'
    BY <1>2, <1>5, <1>6, <1>7, UntrackedIo
  <1>8. \A t \in Io : IoInv(t)'
    BY <1>4, <1>5, <1>6, <1>7, OthersStep
  <1>9. InoInv' /\ OwnInv' /\ \A t \in Ctrl : DevidInv(t)'
    BY <1>6, CoreQuiet
  <1> QED
    BY <1>1, <1>2, <1>3, <1>5, <1>6, <1>8, <1>9 DEF IInv, Types, DaemonType

(* The common part of the timers. *)
LEMMA TimeoutStep ==
  ASSUME IInv, NEW c \in Ctrl, NEW e \in Entry, Ready, c \in Tracked, Timeout(c, e),
         c \in Io => e.dev = None /\ e.retry = FALSE /\ e.poll = FALSE /\ ctrl[c].retry
  PROVE  IInv'
PROOF
  <1>1. busy = Idle /\ UNCHANGED <<wishes, saved, busy, soak, uevents, files, dev, kept, inos>>
    BY DEF Ready, Timeout
  <1>2. QueueType' /\ FilesType' /\ FilesShrink /\ \A t \in Ctrl : KeptFiles(t)
    BY <1>1, TypesSame, FilesSame DEF IInv, Types
  <1>3. ASSUME c \in Io
        PROVE  /\ LinksOf(c)' = {} /\ devid'[c] = None
               /\ unit[c] \in Late /\ job[c] # "restart" /\ ~EndOf(c) /\ c \notin jobs
    <2>1. TrackedInv(c)
      BY <1>3 DEF IInv, IoInv
    <2>2. Quiet(c) /\ ~EndOf(c) /\ c \notin jobs
      BY <1>3, <2>1 DEF TrackedInv
    <2>3. devid[c] = None /\ LinksOf(c) = {}
      BY <1>3, <2>2, LinksAreRecorded DEF Quiet
    <2> QED
      BY <1>1, <1>2, <2>2, <2>3, SameLinks DEF Quiet, Late, files
  <1>4. CASE restart_or_start(c, e)
    BY <1>1, <1>2, <1>3, <1>4, RestartOrStartStep
  <1>5. CASE ctrl_remove(c) /\ UNCHANGED <<systemd, faults>>
    BY <1>1, <1>2, <1>3, <1>5, DroppedStep
  <1> QED
    BY <1>4, <1>5 DEF Timeout

(* retry_timeout() and epcsd_poll_timeout(): a retry is due only when      *)
(* nothing is recorded, an I/O controller is never parked.                 *)
LEMMA TimeoutsStep ==
  ASSUME IInv, NEW c \in Ctrl, retry_timeout(c) \/ epcsd_poll_timeout(c)
  PROVE  IInv'
PROOF
  <1>1. Ready /\ c \in Tracked
    BY DEF retry_timeout, epcsd_poll_timeout
  <1>2. ctrl[c] \in Entry
    BY <1>1 DEF IInv, Types, DaemonType, Tracked
  <1>3. ASSUME c \in Io
        PROVE  ctrl[c].poll = FALSE /\ (ctrl[c].retry => ctrl[c].dev = None)
    <2>1. TrackedInv(c)
      BY <1>1, <1>3 DEF IInv, IoInv
    <2>2. ctrl[c].poll \in BOOLEAN
      BY <1>2, EntryFields
    <2> QED
      BY <2>1, <2>2 DEF TrackedInv
  <1>4. CASE retry_timeout(c)
    <2> DEFINE e == [ctrl[c] EXCEPT !.retry = FALSE]
    <2>1. e \in Entry /\ e.retry = FALSE /\ e.poll = ctrl[c].poll /\ e.dev = ctrl[c].dev
      BY <1>2, EntryFields
    <2>2. Timeout(c, e) /\ ctrl[c].retry
      BY <1>4 DEF retry_timeout
    <2> HIDE DEF e
    <2> QED
      BY <1>1, <1>3, <2>1, <2>2, TimeoutStep
  <1>5. CASE epcsd_poll_timeout(c)
    <2> DEFINE e == [ctrl[c] EXCEPT !.poll = FALSE]
    <2>1. e \in Entry
      BY <1>2, EntryFields
    <2>2. Timeout(c, e) /\ ctrl[c].poll
      BY <1>5 DEF epcsd_poll_timeout
    <2>3. c \notin Io
      BY <1>3, <2>2
    <2> HIDE DEF e
    <2> QED
      BY <1>1, <2>1, <2>2, <2>3, TimeoutStep
  <1> QED
    BY <1>4, <1>5

(* unit_wait_gone(): the unit is started again, or c stays untracked. *)
LEMMA WaitGoneStep ==
  ASSUME IInv, unit_wait_gone
  PROVE  IInv'
PROOF
  <1>1. /\ busy.in = "replace" /\ busy' = Idle
        /\ UNCHANGED <<wishes, saved, soak, uevents, files, dev, kept, inos>>
    BY DEF unit_wait_gone
  <1>0. PICK c \in Ctrl : c = busy.of
    BY <1>1 DEF IInv, BusyInv
  <1>2. c \in Ctrl /\ Types /\ SystemdType /\ DaemonType /\ FilesType
    BY DEF IInv, Types
  <1>3. c \in Io => c \notin Tracked /\ ~EndOf(c)
    BY <1>0, <1>1 DEF IInv, IoInv, StopInv
  <1>4. /\ BusyInv' /\ busy'.in = "no"
        /\ busy' \in [in : {"no", "down", "replace", "release"}, of : Ctrl \cup {None}]
    BY <1>1, IdleBusy
  <1>5. WishType' /\ QueueType' /\ DevType'
    BY <1>1, <1>2, TypesSame
  <1>6. FilesType' /\ FilesShrink /\ \A t \in Ctrl : KeptFiles(t)
    BY <1>1, <1>2, FilesSame
  <1>7. \A t \in Ctrl : KeptDev(t) /\ KeptBusy(t)
    BY <1>1, <1>4, DevSame DEF KeptBusy
  <1>8. CASE unit_start(c) /\ ctrl' = [ctrl EXCEPT ![c] = NewEntry] /\ UNCHANGED faults
    <2>1. /\ SystemdType' /\ UnitsCalled /\ \A t \in Ctrl \ {c} : KeptUnit(t) /\ KeptEnds(t)
          /\ unit[c] = "none" /\ job'[c] = "start" /\ c \in jobs' /\ ends' = ends
      BY <1>2, <1>8, StartCall
    <2>2. /\ ctrl' \in [Ctrl -> Entry \cup {None}] /\ ctrl'[c] = NewEntry
          /\ \A t \in Ctrl \ {c} : KeptEntry(t)
      BY <1>2, <1>8, OneEntry, Constants
    <2>3. ASSUME c \in Io PROVE IoInv(c)'
      <3>1. devid[c] = None
        BY <1>2, <2>1 DEF IInv, DevidInv
      <3>2. devid'[c] = None /\ LinksOf(c)' = {}
        BY <1>1, <1>6, <2>3, <3>1, LinksAreRecorded, SameLinks DEF files
      <3>3. /\ ctrl'[c] # None /\ ctrl'[c].dev = None /\ ctrl'[c].retry = FALSE
            /\ ctrl'[c].poll = FALSE
        BY <2>2, Constants DEF NewEntry
      <3> QED
        BY <1>3, <1>4, <2>1, <2>3, <3>2, <3>3, CalledIo
    <2>4. \A t \in Io : IoInv(t)'
      BY <1>2, <1>6, <1>7, <2>1, <2>2, <2>3, OthersStep
    <2>5. InoInv' /\ OwnInv' /\ \A t \in Ctrl : DevidInv(t)'
      BY <1>1, <1>6, <2>1, CoreQuiet
    <2>6. FaultsType'
      BY <1>2, <1>8, TypesSame
    <2> QED
      BY <1>1, <1>2, <1>4, <1>5, <1>6, <2>1, <2>2, <2>4, <2>5, <2>6 DEF IInv, Types, DaemonType
  <1>9. CASE faults < MaxFault /\ faults' = faults + 1 /\ UNCHANGED <<systemd, ctrl>>
    <2>1. SystemdType' /\ UnitsCalled /\ \A t \in Ctrl : KeptUnit(t) /\ KeptEnds(t)
      BY <1>2, <1>9, SystemdSame
    <2>2. \A t \in Ctrl : KeptEntry(t)
      BY <1>9, EntriesSame
    <2>3. \A t \in Io : IoInv(t)'
      BY <1>6, <1>7, <2>1, <2>2, AllStep
    <2>4. InoInv' /\ OwnInv' /\ \A t \in Ctrl : DevidInv(t)'
      BY <1>1, <1>6, <2>1, CoreQuiet
    <2>5. FaultsType'
      BY <1>2, <1>9, TypesSame
    <2> QED
      BY <1>1, <1>2, <1>4, <1>5, <1>6, <1>9, <2>1, <2>3, <2>4, <2>5 DEF IInv, Types, DaemonType
  <1> QED
    BY <1>0, <1>8, <1>9 DEF unit_wait_gone

(* A handler that changes the entry of c. *)
LEMMA EntryStep ==
  ASSUME IInv, NEW c \in Ctrl, NEW e \in Entry \cup {None}, ctrl' = [ctrl EXCEPT ![c] = e],
         busy = Idle, UNCHANGED <<wishes, saved, busy, dev, kept, inos, faults>>, QueueType',
         SystemdType', UnitsCalled, \A t \in Ctrl \ {c} : KeptUnit(t) /\ KeptEnds(t),
         FilesType', FilesShrink, \A t \in Ctrl \ {c} : KeptFiles(t),
         c \in Io => IoInv(c)'
  PROVE  IInv'
PROOF
  <1>1. Types /\ SystemdType /\ DaemonType
    BY DEF IInv, Types
  <1>2. busy' = Idle /\ BusyInv' /\ busy'.in = "no"
    BY IdleBusy
  <1>3. WishType' /\ DevType' /\ FaultsType'
    BY <1>1, TypesSame
  <1>4. \A t \in Ctrl : KeptDev(t) /\ KeptBusy(t)
    BY DevSame, BusySame
  <1>5. /\ ctrl' \in [Ctrl -> Entry \cup {None}] /\ ctrl'[c] = e
        /\ \A t \in Ctrl \ {c} : KeptEntry(t)
    BY <1>1, OneEntry
  <1>6. \A t \in Io : IoInv(t)'
    BY <1>4, <1>5, OthersStep
  <1>7. InoInv' /\ OwnInv' /\ \A t \in Ctrl : DevidInv(t)'
    BY CoreQuiet
  <1> QED
    BY <1>1, <1>2, <1>3, <1>5, <1>6, <1>7 DEF IInv, Types, DaemonType

(* on_job_done(): the unit is still as the job left it. *)
LEMMA JobDoneStep ==
  ASSUME IInv, on_job_done
  PROVE  IInv'
PROOF
  <1>1. /\ busy = Idle /\ ends # <<>> /\ ends' = Tail(ends)
        /\ UNCHANGED <<wishes, saved, busy, soak, uevents, unit, job, jobs, files, dev, kept,
                       inos, faults>>
    BY DEF on_job_done, Ready, bounds
  <1>2. Types /\ SystemdType /\ FilesType /\ DaemonType
    BY DEF IInv, Types
  <1>3. /\ ends' \in Seq(EndRecord) /\ Head(ends) \in EndRecord
        /\ Len(ends) \in Nat /\ Len(ends) >= 1 /\ Len(ends') = Len(ends) - 1
        /\ Head(ends) = ends[1]
        /\ \A k \in 1..Len(ends') : ends'[k] = ends[k + 1]
    BY <1>1, <1>2, TailEnds
  <1>4. PICK x \in EndRecord : x = Head(ends)
    BY <1>3
  <1>5. x.of \in Ctrl /\ x.done \in BOOLEAN
    BY DEF EndRecord
  <1>6. PICK c \in Ctrl : c = x.of
    BY <1>5
  <1>7. SystemdType' /\ UnitsCalled /\ \A t \in Ctrl : KeptUnit(t)
    BY <1>1, <1>2, <1>3 DEF SystemdType, UnitsCalled, KeptUnit
  <1>8. \A t \in Ctrl : KeptEnds(t)
    BY <1>3 DEF KeptEnds
  <1>9. FilesType' /\ FilesShrink /\ \A t \in Ctrl : KeptFiles(t)
    BY <1>1, <1>2, FilesSame
  <1>10. QueueType'
    BY <1>1, <1>2, TypesSame
  <1>11. 1 \in 1..Len(ends) /\ ends[1] = x /\ ends[1].of = c
    BY <1>3, <1>4, <1>6
  <1>12. ctrl[c] \in Entry \cup {None}
    BY <1>2 DEF DaemonType
  <1> DEFINE f(e) == CASE e = None -> None
                       [] e # None /\ ~x.done -> [e EXCEPT !.retry = TRUE]
                       [] OTHER -> IF devid[c] \in Name THEN Linked(c, e, devid[c]) ELSE e
  <1>13. ctrl' = [ctrl EXCEPT ![c] = f(ctrl[c])]
    <2>1. Head(ends) = x /\ Head(ends).of = c
      BY <1>4, <1>6
    <2> QED
      BY <2>1, Zenon DEF on_job_done
  <1>14. ASSUME c \in Io, c \in Tracked
         PROVE  /\ TrackedInv(c) /\ StopInv(c) /\ DevidInv(c) /\ c \notin jobs
                /\ ctrl[c].dev = None /\ ctrl[c].poll = FALSE /\ ctrl[c].retry = FALSE
                /\ job[c] = "none" /\ unit[c] = (IF x.done THEN "active" ELSE "none")
                /\ ~EndOf(c)' /\ EndInv(c)'
    <2>1. IoInv(c) /\ TrackedInv(c) /\ StopInv(c) /\ DevidInv(c)
      BY <1>14 DEF IInv, IoInv
    <2>2. EndOf(c)
      BY <1>11 DEF EndOf
    <2>3. c \notin jobs
      BY <2>1, <2>2 DEF IoInv, JobInv
    <2>4. ctrl[c].dev = None /\ ~ctrl[c].poll /\ ~ctrl[c].retry /\ EndInv(c)
      BY <2>1, <2>2 DEF TrackedInv
    <2>5. ctrl[c].poll \in BOOLEAN /\ ctrl[c].retry \in BOOLEAN
      BY <1>12, <1>14, EntryFields DEF Tracked
    <2>6. job[c] = "none" /\ unit[c] = (IF x.done THEN "active" ELSE "none")
      BY <2>4, <1>11 DEF EndInv
    <2>7. ~EndOf(c)'
      <3> SUFFICES ASSUME NEW k \in 1..Len(ends'), ends'[k].of = c PROVE FALSE
        BY DEF EndOf
      <3>1. k + 1 \in 1..Len(ends) /\ ends[k + 1].of = c
        BY <1>3
      <3>2. k + 1 = 1
        BY <1>11, <2>4, <3>1 DEF EndInv
      <3> QED
        BY <1>3, <3>2
    <2>8. EndInv(c)'
      BY <2>7 DEF EndInv, EndOf
    <2> QED
      BY <2>1, <2>3, <2>4, <2>5, <2>6, <2>7, <2>8
  <1>15. CASE ctrl[c] = None
    <2>1. ctrl' = [ctrl EXCEPT ![c] = None]
      <3>1. f(ctrl[c]) = None
        BY <1>15, Zenon
      <3> QED
        BY <1>13, <3>1, Zenon
    <2>2. KeptEntry(c)
      BY <1>2, <1>15, <2>1 DEF KeptEntry, DaemonType
    <2>3. c \in Io => IoInv(c)'
      <3>1. KeptDev(c) /\ KeptBusy(c)
        BY <1>1, DevSame, BusySame
      <3> QED
        BY <1>2, <1>7, <1>8, <1>9, <2>2, <3>1, FrameStep DEF IInv
    <2> QED
      BY <1>1, <1>7, <1>8, <1>9, <1>10, <2>1, <2>3, EntryStep
  <1>16. CASE ctrl[c] # None /\ ~x.done
    <2> DEFINE e == [ctrl[c] EXCEPT !.retry = TRUE]
    <2>1. ctrl' = [ctrl EXCEPT ![c] = e]
      <3>1. f(ctrl[c]) = e
        BY <1>16, Zenon
      <3> QED
        BY <1>13, <3>1, Zenon
    <2>2. e \in Entry /\ e.dev = ctrl[c].dev /\ e.poll = ctrl[c].poll
      BY <1>12, <1>16, EntryFields
    <2> HIDE DEF e
    <2>3. ASSUME c \in Io PROVE IoInv(c)'
      <3>1. c \in Tracked
        BY <1>16 DEF Tracked
      <3>2. /\ DevidInv(c) /\ c \notin jobs /\ ctrl[c].dev = None /\ ctrl[c].poll = FALSE
            /\ job[c] = "none" /\ unit[c] = "none" /\ ~EndOf(c)' /\ EndInv(c)'
        BY <1>14, <1>16, <2>3, <3>1
      <3>3. devid[c] = None
        BY <3>2 DEF DevidInv
      <3>4. LinksOf(c)' = {}
        BY <1>9, <2>3, <3>3, LinksAreRecorded, SameLinks
      <3>5. ctrl'[c] = e /\ e # None
        BY <1>2, <2>1, <2>2, Constants DEF DaemonType
      <3>6. devid'[c] = None /\ job'[c] = "none" /\ unit'[c] = "none" /\ c \notin jobs'
        BY <1>1, <3>2, <3>3 DEF files
      <3>7. busy'.in # "replace"
        BY <1>1 DEF Idle
      <3> QED
        BY <2>2, <2>3, <3>2, <3>4, <3>5, <3>6, <3>7, RestingIo DEF Late
    <2> QED
      BY <1>1, <1>7, <1>8, <1>9, <1>10, <2>1, <2>2, <2>3, EntryStep
  <1>17. CASE ctrl[c] # None /\ x.done
    <2> DEFINE e == IF devid[c] \in Name THEN Linked(c, ctrl[c], devid[c]) ELSE ctrl[c]
    <2>1. ctrl' = [ctrl EXCEPT ![c] = e]
      <3>1. f(ctrl[c]) = e
        BY <1>17, Zenon
      <3> QED
        BY <1>13, <3>1, Zenon
    <2>2. /\ e \in Entry /\ e.retry = ctrl[c].retry /\ e.poll = ctrl[c].poll
          /\ ctrl[c].dev = None => e.dev \in {devid[c], None}
      BY <1>12, <1>17, LinkedFields
    <2> HIDE DEF e
    <2>3. ASSUME c \in Io PROVE IoInv(c)'
      <3>1. c \in Tracked
        BY <1>17 DEF Tracked
      <3>2. /\ TrackedInv(c) /\ StopInv(c) /\ c \notin jobs /\ ctrl[c].dev = None
            /\ ctrl[c].poll = FALSE /\ ctrl[c].retry = FALSE
            /\ job[c] = "none" /\ unit[c] = "active" /\ ~EndOf(c)' /\ EndInv(c)'
        BY <1>14, <1>17, <2>3, <3>1
      <3>3. ctrl'[c] = e
        BY <1>2, <2>1 DEF DaemonType
      <3>4. UNCHANGED <<unit, job, jobs, devid, link, dev, busy>> /\ busy.in = "no"
        BY <1>1 DEF files, Idle
      <3>5. StopInv(c)'
        BY <3>2, <3>4 DEF StopInv, LinksOf, Disconnected, LinkedTo
      <3>6. JobInv(c)'
        BY <3>2, <3>4 DEF JobInv
      <3>7. TrackedInv(c)'
        BY <2>2, <3>2, <3>3, <3>4 DEF TrackedInv
      <3> QED
        BY <3>5, <3>6, <3>7 DEF IoInv
    <2> QED
      BY <1>1, <1>7, <1>8, <1>9, <1>10, <2>1, <2>2, <2>3, EntryStep
  <1> QED
    BY <1>15, <1>16, <1>17

(* A handler that changes no device and no timer of an entry. *)
LEMMA EntriesStep ==
  ASSUME IInv, ctrl' \in [Ctrl -> Entry \cup {None}], \A t \in Ctrl : KeptEntry(t),
         busy = Idle, UNCHANGED <<wishes, saved, busy, systemd, dev, kept, inos, faults>>,
         QueueType', FilesType', FilesShrink, \A t \in Ctrl : KeptFiles(t)
  PROVE  IInv'
PROOF
  <1>1. Types /\ SystemdType /\ DaemonType
    BY DEF IInv, Types
  <1>2. busy' = Idle /\ BusyInv' /\ busy'.in = "no"
    BY IdleBusy
  <1>3. WishType' /\ DevType' /\ FaultsType'
    BY <1>1, TypesSame
  <1>4. \A t \in Ctrl : KeptDev(t) /\ KeptBusy(t)
    BY DevSame, BusySame
  <1>5. SystemdType' /\ UnitsCalled /\ \A t \in Ctrl : KeptUnit(t) /\ KeptEnds(t)
    BY <1>1, SystemdSame
  <1>6. \A t \in Io : IoInv(t)'
    BY <1>4, <1>5, AllStep
  <1>7. InoInv' /\ OwnInv' /\ \A t \in Ctrl : DevidInv(t)'
    BY <1>5, CoreQuiet
  <1> QED
    BY <1>1, <1>2, <1>3, <1>5, <1>6, <1>7 DEF IInv, Types, DaemonType

(* on_dlp_read(): only DCs are parked. *)
LEMMA DlpReadStep ==
  ASSUME IInv, NEW c \in Ctrl, NEW epcsd \in BOOLEAN, on_dlp_read(c, epcsd)
  PROVE  IInv'
PROOF
  <1> DEFINE read == [ctrl[c] EXCEPT !.read = "no"]
             e == IF ctrl[c].read = "again" /\ read.dev # None THEN Fetch(read) ELSE read
  <1>1. /\ busy = Idle /\ c \in Tracked
        /\ UNCHANGED <<wishes, saved, busy, soak, uevents, files, dev, kept, inos, faults>>
    BY DEF on_dlp_read, Ready, bounds
  <1>2. Types /\ SystemdType /\ FilesType /\ DaemonType /\ ctrl[c] \in Entry
    BY <1>1 DEF IInv, Types, DaemonType, Tracked
  <1>3. \/ ctrl' = [ctrl EXCEPT ![c] = e] /\ UNCHANGED systemd
        \/ c \in DC /\ epcsd_park(c, e)
    BY DEF on_dlp_read
  <1>4. /\ read \in Entry /\ read.dev = ctrl[c].dev /\ read.retry = ctrl[c].retry
        /\ read.poll = ctrl[c].poll
    BY <1>2, EntryFields
  <1> HIDE DEF read
  <1>5. e \in Entry /\ e.dev = ctrl[c].dev /\ e.retry = ctrl[c].retry /\ e.poll = ctrl[c].poll
    BY <1>4, FetchFields
  <1> HIDE DEF e
  <1>6. QueueType' /\ FilesType' /\ FilesShrink /\ \A t \in Ctrl : KeptFiles(t)
    BY <1>1, <1>2, TypesSame, FilesSame
  <1>7. CASE ctrl' = [ctrl EXCEPT ![c] = e] /\ UNCHANGED systemd
    <2>1. /\ ctrl' \in [Ctrl -> Entry \cup {None}] /\ ctrl'[c] = e
          /\ \A t \in Ctrl \ {c} : KeptEntry(t)
      BY <1>2, <1>5, <1>7, OneEntry
    <2>2. KeptEntry(c)
      BY <1>1, <1>5, <2>1, Constants DEF KeptEntry, Tracked
    <2> QED
      BY <1>1, <1>6, <1>7, <2>1, <2>2, EntriesStep
  <1>8. CASE c \in DC /\ ctrl' = [ctrl EXCEPT ![c] = [e EXCEPT !.poll = TRUE]] /\ unit_stop(c)
    <2> DEFINE f == [e EXCEPT !.poll = TRUE]
    <2>1. f \in Entry
      BY <1>5, EntryFields
    <2>2. ctrl' = [ctrl EXCEPT ![c] = f]
      BY <1>8
    <2> HIDE DEF f
    <2>3. SystemdType' /\ UnitsCalled /\ \A t \in Ctrl \ {c} : KeptUnit(t) /\ KeptEnds(t)
      BY <1>2, <1>8, StopCall
    <2>4. c \notin Io
      BY <1>8 DEF Io
    <2> QED
      BY <1>1, <1>6, <2>1, <2>2, <2>3, <2>4, EntryStep
  <1> QED
    BY <1>3, <1>7, <1>8 DEF epcsd_park

(* on_nvme_remove(): the records of the name go before the unit is         *)
(* restarted or stopped.                                                   *)
LEMMA NvmeRemoveStep ==
  ASSUME IInv, NEW n \in Name, on_nvme_remove(n), busy = Idle,
         UNCHANGED <<wishes, saved, busy, dev, kept, inos>>, QueueType'
  PROVE  IInv'
PROOF
  <1>1. Types /\ SystemdType /\ FilesType /\ DaemonType
    BY DEF IInv, Types
  <1>2. CASE UNCHANGED <<ctrl, systemd, files, faults>>
    <2>1. FilesType' /\ FilesShrink /\ \A t \in Ctrl : KeptFiles(t)
      BY <1>1, <1>2, FilesSame
    <2>2. ctrl' \in [Ctrl -> Entry \cup {None}] /\ \A t \in Ctrl : KeptEntry(t)
      BY <1>1, <1>2, EntriesSame DEF DaemonType
    <2> QED
      BY <1>2, <2>1, <2>2, EntriesStep
  <1>3. CASE Forget({}, {n}) /\ UNCHANGED <<ctrl, systemd, faults>>
    <2>1. FilesType' /\ FilesShrink /\ \A t \in Ctrl : KeptFiles(t)
      <3>1. {} \in SUBSET Ctrl
        OBVIOUS
      <3> QED
        BY <1>1, <1>3, <3>1, ForgetFacts
    <2>2. ctrl' \in [Ctrl -> Entry \cup {None}] /\ \A t \in Ctrl : KeptEntry(t)
      BY <1>1, <1>3, EntriesSame DEF DaemonType
    <2> QED
      BY <1>3, <2>1, <2>2, EntriesStep
  <1>4. ASSUME NEW c \in Tracked, ctrl[c].dev = n, Forget({c}, {n}),
               LET e == [ctrl[c] EXCEPT !.dev = None]
               IN  \/ unit_stop(c) /\ ctrl_remove(c) /\ UNCHANGED faults
                   \/ e.poll /\ ctrl' = [ctrl EXCEPT ![c] = e] /\ UNCHANGED <<systemd, faults>>
                   \/ ctrl_remove(c) /\ UNCHANGED <<systemd, faults>>
                   \/ ~e.poll /\ restart_or_start(c, e)
        PROVE  IInv'
    <2> DEFINE e == [ctrl[c] EXCEPT !.dev = None]
    <2>1. c \in Ctrl /\ ctrl[c] \in Entry
      BY <1>1 DEF Tracked, DaemonType
    <2>2. e \in Entry /\ e.dev = None /\ e.retry = ctrl[c].retry /\ e.poll = ctrl[c].poll
      BY <2>1, EntryFields
    <2>3. \/ unit_stop(c) /\ ctrl_remove(c) /\ UNCHANGED faults
          \/ e.poll /\ ctrl' = [ctrl EXCEPT ![c] = e] /\ UNCHANGED <<systemd, faults>>
          \/ ctrl_remove(c) /\ UNCHANGED <<systemd, faults>>
          \/ ~e.poll /\ restart_or_start(c, e)
      BY <1>4
    <2> HIDE DEF e
    <2>4. /\ FilesType' /\ FilesShrink /\ \A t \in Ctrl \ {c} : KeptFiles(t)
          /\ devid'[c] = None
          /\ \A m \in Name : link'[m] = IF m \in {n} THEN None ELSE link[m]
      BY <1>1, <1>4, <2>1, ForgetFacts
    <2>5. ASSUME c \in Io
          PROVE  /\ e.retry = FALSE /\ e.poll = FALSE
                 /\ LinksOf(c)' = {} /\ unit[c] \in Late /\ job[c] # "restart"
                 /\ ~EndOf(c) /\ c \notin jobs
      <3>1. TrackedInv(c) /\ ctrl[c].dev # None
        BY <1>4, <2>5, Constants DEF IInv, IoInv
      <3>2. ~ctrl[c].retry /\ ~ctrl[c].poll /\ ~EndOf(c) /\ c \notin jobs
        BY <3>1 DEF TrackedInv
      <3>3. devid[c] \in {n, None} /\ unit[c] \in Late /\ job[c] # "restart"
        BY <1>4, <3>1 DEF TrackedInv, Late
      <3>4. LinksOf(c) \subseteq {n}
        BY <2>5, <3>3, LinksAreRecorded
      <3>5. LinksOf(c)' = {}
        BY <2>4, <3>4, ForgottenLinks
      <3>6. ctrl[c].retry \in BOOLEAN /\ ctrl[c].poll \in BOOLEAN
        BY <2>1, EntryFields
      <3> QED
        BY <2>2, <3>2, <3>3, <3>5, <3>6
    <2>6. CASE (UNCHANGED systemd \/ unit_stop(c)) /\ ctrl_remove(c) /\ UNCHANGED faults
      BY <2>1, <2>4, <2>5, <2>6, DroppedStep
    <2>7. CASE e.poll /\ ctrl' = [ctrl EXCEPT ![c] = e] /\ UNCHANGED <<systemd, faults>>
      <3>1. SystemdType' /\ UnitsCalled /\ \A t \in Ctrl : KeptUnit(t) /\ KeptEnds(t)
        BY <1>1, <2>7, SystemdSame
      <3>2. c \notin Io
        BY <2>5, <2>7
      <3> QED
        BY <2>1, <2>2, <2>4, <2>7, <3>1, <3>2, EntryStep
    <2>8. CASE restart_or_start(c, e)
      BY <2>1, <2>2, <2>4, <2>5, <2>8, RestartOrStartStep
    <2> QED
      BY <2>3, <2>6, <2>7, <2>8
  <1> QED
    BY <1>2, <1>3, <1>4 DEF on_nvme_remove

(* Heads and tails of the queues. *)
LEMMA QueueFacts ==
  ASSUME QueueType
  PROVE  /\ uevents # <<>> => /\ Head(uevents) \in Uevent /\ Head(uevents).name \in Name
                              /\ Tail(uevents) \in Seq(Uevent)
         /\ soak # <<>> => Head(soak) \in Name /\ Tail(soak) \in Seq(Name)
         /\ \A m \in Name : Append(soak, m) \in Seq(Name)
         /\ \A u \in Uevent : Append(uevents, u) \in Seq(Uevent)
PROOF
  <1>1. uevents \in Seq(Uevent) /\ soak \in Seq(Name)
    BY DEF QueueType
  <1>2. uevents # <<>> => Head(uevents) \in Uevent /\ Tail(uevents) \in Seq(Uevent)
    BY <1>1, HeadTailProperties
  <1>3. soak # <<>> => Head(soak) \in Name /\ Tail(soak) \in Seq(Name)
    BY <1>1, HeadTailProperties
  <1>4. \A u \in Uevent : u.name \in Name
    BY DEF Uevent
  <1>5. \A m \in Name : Append(soak, m) \in Seq(Name)
    BY <1>1, AppendProperties
  <1>6. \A u \in Uevent : Append(uevents, u) \in Seq(Uevent)
    BY <1>1, AppendProperties
  <1> QED
    BY <1>2, <1>3, <1>4, <1>5, <1>6

(* handle_nvme(): an add, a removal or a change. *)
LEMMA HandleNvmeStep ==
  ASSUME IInv, handle_nvme
  PROVE  IInv'
PROOF
  <1>1. /\ busy = Idle /\ uevents # <<>> /\ uevents' = Tail(uevents)
        /\ UNCHANGED <<wishes, saved, busy, dev, kept, inos>>
    BY DEF handle_nvme, Ready
  <1>2. Types /\ SystemdType /\ FilesType /\ DaemonType /\ QueueType
    BY DEF IInv, Types
  <1>3. PICK n \in Name : n = Head(uevents).name
    BY <1>1, <1>2, QueueFacts
  <1>4. uevents' \in Seq(Uevent)
    BY <1>1, <1>2, QueueFacts
  <1>5. CASE soak' = Append(soak, n) /\ UNCHANGED <<ctrl, systemd, files, faults>>
    <2>1. QueueType'
      BY <1>2, <1>4, <1>5, QueueFacts DEF QueueType
    <2>2. FilesType' /\ FilesShrink /\ \A t \in Ctrl : KeptFiles(t)
      BY <1>2, <1>5, FilesSame
    <2>3. ctrl' \in [Ctrl -> Entry \cup {None}] /\ \A t \in Ctrl : KeptEntry(t)
      BY <1>2, <1>5, EntriesSame DEF DaemonType
    <2> QED
      BY <1>1, <1>5, <2>1, <2>2, <2>3, EntriesStep
  <1>6. CASE on_nvme_remove(n) /\ UNCHANGED soak
    <2>1. QueueType'
      BY <1>2, <1>4, <1>6 DEF QueueType
    <2> QED
      BY <1>1, <1>6, <2>1, NvmeRemoveStep
  <1>7. CASE on_dc_changed(n) /\ UNCHANGED <<soak, systemd, files, faults>>
    <2>1. QueueType'
      BY <1>2, <1>4, <1>7 DEF QueueType
    <2>2. FilesType' /\ FilesShrink /\ \A t \in Ctrl : KeptFiles(t)
      BY <1>2, <1>7, FilesSame
    <2>3. ctrl' = [c \in Ctrl |-> IF c \in Tracked /\ ctrl[c].dev = n
                                  THEN Fetch(ctrl[c]) ELSE ctrl[c]]
      BY <1>7 DEF on_dc_changed
    <2>4. ASSUME NEW c \in Ctrl
          PROVE  ctrl'[c] \in Entry \cup {None} /\ KeptEntry(c)
      <3>1. ctrl[c] \in Entry \cup {None}
        BY <1>2 DEF DaemonType
      <3>2. CASE c \in Tracked
        <4>1. ctrl[c] \in Entry /\ ctrl[c] # None
          BY <3>1, <3>2 DEF Tracked
        <4>2. /\ Fetch(ctrl[c]) \in Entry /\ Fetch(ctrl[c]).dev = ctrl[c].dev
              /\ Fetch(ctrl[c]).retry = ctrl[c].retry /\ Fetch(ctrl[c]).poll = ctrl[c].poll
          BY <4>1, FetchFields
        <4>3. ctrl'[c] \in {Fetch(ctrl[c]), ctrl[c]}
          BY <2>3
        <4> QED
          BY <4>1, <4>2, <4>3, Constants DEF KeptEntry
      <3>3. CASE c \notin Tracked
        BY <2>3, <3>1, <3>3 DEF KeptEntry, Tracked
      <3> QED
        BY <3>2, <3>3
    <2>5. ctrl' \in [Ctrl -> Entry \cup {None}]
      BY <2>3, <2>4
    <2> QED
      BY <1>1, <1>7, <2>1, <2>2, <2>4, <2>5, EntriesStep
  <1> QED
    BY <1>3, <1>5, <1>6, <1>7 DEF handle_nvme

(* soak_timeout(): a record of the name belongs to a controller whose unit *)
(* is active and whose job is handled.                                     *)
LEMMA SoakStep ==
  ASSUME Races \subseteq {"rename"}, IInv, soak_timeout
  PROVE  IInv'
PROOF
  <1>1. /\ busy = Idle /\ soak # <<>> /\ soak' = Tail(soak)
        /\ UNCHANGED <<wishes, saved, busy, uevents, dev, kept, inos>>
    BY DEF soak_timeout, Ready
  <1>2. Types /\ SystemdType /\ FilesType /\ DaemonType /\ QueueType
    BY DEF IInv, Types
  <1>3. PICK n \in Name : n = Head(soak)
    BY <1>1, <1>2, QueueFacts
  <1>4. QueueType'
    BY <1>1, <1>2, QueueFacts DEF QueueType
  <1>5. ~EndDue(n)
    BY <1>3 DEF soak_timeout
  <1>6. CASE on_nvme_remove(n)
    BY <1>1, <1>4, <1>6, NvmeRemoveStep
  <1>7. CASE /\ dev[n] # None
             /\ ctrl' = [c \in Ctrl |->
                            IF c \in Tracked /\ link[n] # None /\ link[n].of = c
                            THEN Linked(c, ctrl[c], n) ELSE ctrl[c]]
             /\ UNCHANGED <<systemd, files, faults>>
    <2>1. FilesType' /\ FilesShrink /\ \A t \in Ctrl : KeptFiles(t)
      BY <1>2, <1>7, FilesSame
    <2>2. SystemdType' /\ UnitsCalled /\ \A t \in Ctrl : KeptUnit(t) /\ KeptEnds(t)
      BY <1>2, <1>7, SystemdSame
    <2>3. CASE link[n] # None /\ link[n].of \in Tracked
      <3>1. PICK c \in Tracked : c = link[n].of
        BY <2>3
      <3>2. c \in Ctrl /\ ctrl[c] \in Entry /\ ctrl[c] # None
        BY <1>2 DEF Tracked, DaemonType
      <3> DEFINE e == Linked(c, ctrl[c], n)
      <3>3. /\ e \in Entry /\ e.retry = ctrl[c].retry /\ e.poll = ctrl[c].poll
            /\ e.dev = IF ctrl[c].dev # None THEN ctrl[c].dev ELSE n
        BY <3>2, LinkedFields
      <3>4. ctrl' = [ctrl EXCEPT ![c] = e]
        <4>1. \A t \in Ctrl : ctrl'[t] = IF t = c THEN e ELSE ctrl[t]
          BY <1>7, <2>3, <3>1
        <4>2. ctrl' = [t \in Ctrl |-> ctrl'[t]]
          BY <1>7
        <4> HIDE DEF e
        <4>3. [ctrl EXCEPT ![c] = e] = [t \in Ctrl |-> IF t = c THEN e ELSE ctrl[t]]
          BY <1>2, <3>2 DEF DaemonType
        <4> QED
          BY <4>1, <4>2, <4>3
      <3> HIDE DEF e
      <3>5. ASSUME c \in Io PROVE IoInv(c)'
        <4>1. IoInv(c) /\ TrackedInv(c) /\ StopInv(c) /\ JobInv(c) /\ DevidInv(c)
          BY <3>2, <3>5 DEF IInv, IoInv
        <4>2. n \in LinksOf(c) /\ devid[c] = n /\ n # None /\ n # Empty
          BY <2>3, <3>1, <3>5, LinksAreRecorded, Constants DEF LinksOf
        <4>3. ~EndOf(c)
          BY <1>5, <3>2, <4>2 DEF EndDue
        <4>4. c \notin jobs
          BY <1>7, <4>1, <4>2 DEF JobInv
        <4>5. job[c] # "restart"
          BY <4>1, <4>2 DEF StopInv
        <4>6. ~ctrl[c].retry
          BY <4>1, <4>2 DEF TrackedInv, Quiet
        <4>7. unit[c] \in Late
          <5>1. unit[c] \in States
            BY <1>2, <3>2 DEF SystemdType
          <5> QED
            BY <4>1, <4>2, <5>1 DEF DevidInv, States, Late
        <4>8. UNCHANGED <<unit, job, jobs, ends, devid, link, dev, busy>> /\ busy.in = "no"
          BY <1>1, <1>7 DEF files, systemd, Idle
        <4>9. ctrl'[c] = e
          BY <1>2, <3>2, <3>4 DEF DaemonType
        <4>10. ~EndOf(c)' /\ EndInv(c)'
          BY <4>3, <4>8, NoEnds
        <4>11. StopInv(c)'
          BY <4>1, <4>8 DEF StopInv, LinksOf, Disconnected, LinkedTo
        <4>12. JobInv(c)'
          BY <4>4, <4>8 DEF JobInv
        <4>13. e.dev = n
          BY <3>3, <4>1, <4>2, Constants DEF TrackedInv
        <4>14. TrackedInv(c)'
          BY <3>3, <4>1, <4>2, <4>4, <4>5, <4>6, <4>7, <4>8, <4>9, <4>10, <4>13
             DEF TrackedInv, Late
        <4> QED
          BY <4>11, <4>12, <4>14 DEF IoInv
      <3> QED
        BY <1>1, <1>4, <1>7, <2>1, <2>2, <3>2, <3>3, <3>4, <3>5, EntryStep
    <2>4. CASE ~(link[n] # None /\ link[n].of \in Tracked)
      <3>1. \A t \in Ctrl : ctrl'[t] = ctrl[t]
        BY <1>7, <2>4
      <3>2. ctrl' = [t \in Ctrl |-> ctrl'[t]]
        BY <1>7
      <3>3. ctrl' = ctrl
        BY <1>2, <3>1, <3>2 DEF DaemonType
      <3>4. ctrl' \in [Ctrl -> Entry \cup {None}] /\ \A t \in Ctrl : KeptEntry(t)
        BY <1>2, <3>3, EntriesSame DEF DaemonType
      <3> QED
        BY <1>1, <1>4, <1>7, <2>1, <3>4, EntriesStep
    <2> QED
      BY <2>3, <2>4
  <1> QED
    BY <1>3, <1>6, <1>7 DEF soak_timeout

(* release_unit(): the records go, and the connection that stays up is     *)
(* remembered.                                                             *)
LEMMA ReleaseStep ==
  ASSUME Races \subseteq {"rename"}, IInv, NEW c \in Ctrl, release_unit(c)
  PROVE  IInv'
PROOF
  <1> DEFINE n == IF c \in Tracked /\ ctrl[c].dev # None THEN ctrl[c].dev ELSE devid[c]
             named == IF c \in Tracked \/ Matches(n, c) THEN {n} ELSE {}
             up == {dev[m].ino : m \in {m \in Name : Matches(m, c)}}
  <1>1. /\ busy = Idle /\ ctrl' = [ctrl EXCEPT ![c] = None] /\ saved' = saved \ {c}
        /\ busy' = [in |-> "release", of |-> c]
        /\ UNCHANGED <<wishes, soak, uevents, systemd, dev, inos, faults>>
    BY DEF release_unit, Ready, ctrl_remove, bounds
  <1>2. Forget({c}, LinkedTo(c, named)) /\ kept' = kept \cup up
    BY DEF release_unit, ReleaseFiles
  <1>3. c \in Tracked \/ Matches(devid[c], c) \/ LinkedTo(c, {devid[c]}) = {}
    BY DEF release_unit
  <1>4. Types /\ SystemdType /\ FilesType /\ DaemonType /\ DevType /\ InoInv /\ OwnInv
    BY DEF IInv, Types
  <1>5. WishType' /\ QueueType' /\ FaultsType'
    BY <1>1, <1>4, TypesSame
  <1>6. SystemdType' /\ UnitsCalled /\ \A t \in Ctrl : KeptUnit(t) /\ KeptEnds(t)
    BY <1>1, <1>4, SystemdSame
  <1>7. /\ ctrl' \in [Ctrl -> Entry \cup {None}] /\ ctrl'[c] = None
        /\ \A t \in Ctrl \ {c} : KeptEntry(t)
    BY <1>1, <1>4, OneEntry
  <1>8. ASSUME c \in Io PROVE LinksOf(c) \subseteq LinkedTo(c, named)
    <2> SUFFICES ASSUME NEW m \in LinksOf(c) PROVE m \in named
      BY DEF LinksOf, LinkedTo
    <2>1. devid[c] = m /\ m \in LinkedTo(c, {devid[c]})
      BY <1>8, LinksAreRecorded
    <2>2. m \in Name /\ m # None
      BY Constants DEF LinksOf
    <2>3. n = m
      <3>1. ASSUME c \in Tracked, ctrl[c].dev # None PROVE ctrl[c].dev = m
        BY <1>8, <2>1, <2>2, <3>1 DEF IInv, IoInv, TrackedInv
      <3> QED
        BY <2>1, <3>1
    <2>4. c \in Tracked \/ Matches(n, c)
      BY <1>3, <2>1, <2>3
    <2> QED
      BY <2>3, <2>4
  <1>9. up \subseteq 1..MaxIno /\ \A k \in up : k <= inos
    BY <1>4 DEF DevType, Device, Matches, InoInv
  <1>10. \A m \in Name : dev[m] # None /\ dev[m].ino \in up => dev[m].of = c
    BY <1>4 DEF InoInv, Matches
  <1> HIDE DEF n, named, up
  <1>11. /\ FilesType' /\ FilesShrink /\ \A t \in Ctrl \ {c} : KeptFiles(t)
         /\ devid'[c] = None
         /\ \A m \in Name : link'[m] = IF m \in LinkedTo(c, named) THEN None ELSE link[m]
    BY <1>2, <1>4, ForgetFacts
  <1>12. busy'.in = "release" /\ busy'.of = c /\ busy.in = "no"
    BY <1>1 DEF Idle
  <1>13. busy' \in [in : {"no", "down", "replace", "release"}, of : Ctrl \cup {None}]
    BY <1>1
  <1>14. BusyInv'
    BY <1>7, <1>11, <1>12 DEF BusyInv, Tracked
  <1>15. InoInv'
    BY <1>1, <1>2, <1>4, <1>9, <1>11 DEF InoInv, FilesShrink
  <1>16. OwnInv'
    <2>1. \A m \in Name : link'[m] # None => link'[m] = link[m]
      BY <1>11 DEF FilesShrink
    <2>2. \A t \in Ctrl : \A m \in Name : devid'[t] = m => devid[t] = m /\ t # c
      BY <1>11, Constants DEF FilesShrink
    <2>3. \A t \in Ctrl : unit'[t] = "post" => unit[t] = "post"
      BY <1>6 DEF UnitsCalled
    <2> QED
      BY <1>1, <1>2, <1>4, <1>10, <2>1, <2>2, <2>3 DEF OwnInv
  <1>17. \A t \in Ctrl : DevidInv(t)'
    <2> SUFFICES ASSUME NEW t \in Ctrl PROVE DevidInv(t)'
      OBVIOUS
    <2>1. DevidInv(t)
      BY DEF IInv
    <2> QED
      BY <1>6, <1>11, <2>1 DEF DevidInv, FilesShrink, UnitsCalled
  <1>18. DevType'
    BY <1>1, <1>2, <1>4, <1>9 DEF DevType
  <1>19. ASSUME c \in Io PROVE IoInv(c)'
    <2>1. LinksOf(c)' = {}
      BY <1>8, <1>11, <1>19, ForgottenLinks
    <2>2. UNCHANGED <<unit, job, jobs, ends>>
      BY <1>1 DEF systemd
    <2>3. c \in jobs => ~EndOf(c)
      BY <1>19 DEF IInv, IoInv, JobInv
    <2>4. c \in jobs' => ~EndOf(c)'
      BY <2>2, <2>3 DEF EndOf
    <2>5. job'[c] = "restart" => unit'[c] \in {"stop", "stop-post"}
      BY <1>19, <2>2 DEF IInv, IoInv, StopInv
    <2> QED
      BY <1>7, <1>11, <1>12, <1>19, <2>1, <2>4, <2>5, UntrackedIo
  <1>20. \A t \in Ctrl \ {c} : KeptDev(t) /\ KeptBusy(t)
    <2>1. \A t \in Ctrl : KeptDev(t)
      BY <1>1, DevSame
    <2> QED
      BY <2>1, <1>12 DEF KeptBusy
  <1>21. \A t \in Io : IoInv(t)'
    BY <1>6, <1>7, <1>11, <1>19, <1>20, OthersStep
  <1>22. saved' \subseteq Ctrl
    BY <1>1, <1>4 DEF DaemonType
  <1> QED
    BY <1>5, <1>6, <1>7, <1>11, <1>13, <1>14, <1>15, <1>16, <1>17, <1>18, <1>21, <1>22
       DEF IInv, Types, DaemonType

(* The stop of release_unit() finds no record. *)
LEMMA ReleaseStopStep ==
  ASSUME IInv, release_stop
  PROVE  IInv'
PROOF
  <1>1. /\ busy.in = "release" /\ busy' = Idle
        /\ UNCHANGED <<wishes, ctrl, saved, soak, uevents, files, dev, kept, inos, faults>>
    BY DEF release_stop, bounds
  <1>2. PICK c \in Ctrl : c = busy.of
    BY <1>1 DEF IInv, BusyInv
  <1>3. unit_stop(c)
    BY <1>2 DEF release_stop
  <1>4. Types /\ SystemdType /\ FilesType /\ DaemonType
    BY DEF IInv, Types
  <1>5. devid[c] = None /\ ctrl[c] = None
    BY <1>1, <1>2 DEF IInv, BusyInv, Tracked
  <1>6. /\ BusyInv' /\ busy'.in = "no"
        /\ busy' \in [in : {"no", "down", "replace", "release"}, of : Ctrl \cup {None}]
    BY <1>1, IdleBusy
  <1>7. WishType' /\ QueueType' /\ DevType' /\ FaultsType'
    BY <1>1, <1>4, TypesSame
  <1>8. FilesType' /\ FilesShrink /\ \A t \in Ctrl : KeptFiles(t)
    BY <1>1, <1>4, FilesSame
  <1>9. /\ SystemdType' /\ UnitsCalled /\ \A t \in Ctrl \ {c} : KeptUnit(t) /\ KeptEnds(t)
        /\ job'[c] \in {"none", "stop"} /\ c \notin jobs'
    BY <1>3, <1>4, StopCall
  <1>10. \A t \in Ctrl \ {c} : KeptDev(t) /\ KeptBusy(t) /\ KeptEntry(t)
    <2>1. \A t \in Ctrl : KeptDev(t) /\ KeptEntry(t)
      BY <1>1, DevSame, EntriesSame
    <2> QED
      BY <1>1, <1>2, <1>6, <2>1 DEF KeptBusy
  <1>11. ASSUME c \in Io PROVE IoInv(c)'
    <2>1. LinksOf(c)' = {}
      <3>1. LinksOf(c) = {}
        BY <1>5, <1>11, LinksAreRecorded
      <3> QED
        BY <1>8, <3>1, SameLinks
    <2> QED
      BY <1>1, <1>5, <1>6, <1>9, <1>11, <2>1, UntrackedIo
  <1>12. \A t \in Io : IoInv(t)'
    BY <1>8, <1>9, <1>10, <1>11, OthersStep
  <1>13. InoInv' /\ OwnInv' /\ \A t \in Ctrl : DevidInv(t)'
    BY <1>1, <1>8, <1>9, CoreQuiet
  <1> QED
    BY <1>1, <1>4, <1>6, <1>7, <1>8, <1>9, <1>12, <1>13 DEF IInv, Types, DaemonType

(* A unit that has not connected: its controller has no device, no retry   *)
(* and no end of a job.                                                    *)
LEMMA StartingIo ==
  ASSUME IInv, NEW c \in Io, unit[c] \in {"start", "connect"},
         UNCHANGED <<ctrl, busy, job, jobs, ends, link>>
  PROVE  IoInv(c)'
PROOF
  <1>1. /\ IoInv(c) /\ StopInv(c) /\ JobInv(c) /\ c \in Ctrl
        /\ \A n \in LinksOf(c) : devid[c] = n
        /\ DevidInv(c)
    BY DEF IInv, IoInv, StopInv, Io
  <1>2. LinksOf(c)' = {}
    <2>1. devid[c] \in {None, Empty}
      BY <1>1 DEF DevidInv
    <2>2. LinksOf(c) = {}
      BY <1>1, <2>1, Constants DEF LinksOf
    <2> QED
      BY <2>2 DEF LinksOf
  <1>3. Disconnected(c)' = {}
    BY <1>2, NothingDisconnected
  <1>4. EndOf(c)' <=> EndOf(c)
    BY DEF EndOf
  <1>5. c \in Tracked' <=> c \in Tracked
    BY DEF Tracked
  <1>6. JobInv(c)'
    BY <1>1, <1>2, <1>4, <1>5 DEF JobInv
  <1>7. job[c] # "restart"
    BY <1>1 DEF StopInv
  <1>8. StopInv(c)'
    BY <1>1, <1>2, <1>3, <1>4, <1>5, <1>7 DEF StopInv
  <1>9. ASSUME c \in Tracked PROVE TrackedInv(c)'
    <2>1. TrackedInv(c)
      BY <1>1, <1>9 DEF IoInv
    <2>2. ctrl[c].dev = None /\ ~ctrl[c].poll
      BY <2>1 DEF TrackedInv
    <2>3. ~ctrl[c].retry
      BY <2>1 DEF TrackedInv, Quiet
    <2>4. ~EndOf(c)
      BY <2>1 DEF TrackedInv, EndInv, EndOf
    <2>5. EndInv(c)'
      BY <1>4, <2>4 DEF EndInv, EndOf
    <2> QED
      BY <2>2, <2>3, <2>5 DEF TrackedInv
  <1> QED
    BY <1>5, <1>6, <1>8, <1>9 DEF IoInv

(* One more uevent. *)
LEMMA EmitType ==
  ASSUME QueueType, NEW n \in Name, NEW act \in {"add", "remove", "change"}, Emit(act, n)
  PROVE  uevents' \in Seq(Uevent)
PROOF
  <1> DEFINE u == [act |-> act, name |-> n]
  <1>1. u \in Uevent
    BY DEF Uevent
  <1>2. uevents' \in {uevents, Append(uevents, u)}
    BY DEF Emit
  <1> HIDE DEF u
  <1> QED
    BY <1>1, <1>2, QueueFacts DEF QueueType

(* A new device takes a free name. *)
LEMMA NewDeviceType ==
  ASSUME Types, NEW c \in Ctrl \cup {Foreign}, NewDevice(c)
  PROVE  /\ NewName \in Name /\ dev[NewName] = None /\ inos' = inos + 1
         /\ dev' \in [Name -> Device \cup {None}] /\ inos' \in 0..MaxIno
         /\ uevents' \in Seq(Uevent)
         /\ dev'[NewName] = [ino |-> inos + 1, of |-> c, deleting |-> FALSE]
         /\ \A m \in Name : m # NewName => dev'[m] = dev[m]
PROOF
  <1>1. /\ Free # {} /\ inos < MaxIno /\ inos' = inos + 1 /\ Emit("add", NewName)
        /\ dev' = [dev EXCEPT ![NewName] = [ino |-> inos + 1, of |-> c, deleting |-> FALSE]]
    BY DEF NewDevice
  <1>2. PICK n \in Name : n = NewName /\ dev[n] = None
    BY <1>1, NewNameFree
  <1>3. DevType /\ QueueType /\ MaxIno \in Nat
    BY Constants DEF Types
  <1>4. inos' \in 0..MaxIno /\ inos + 1 \in 1..MaxIno
    BY <1>1, <1>3 DEF DevType
  <1>5. [ino |-> inos + 1, of |-> c, deleting |-> FALSE] \in Device
    BY <1>4 DEF Device
  <1>6. /\ dev' \in [Name -> Device \cup {None}]
        /\ dev'[n] = [ino |-> inos + 1, of |-> c, deleting |-> FALSE]
        /\ \A m \in Name : m # n => dev'[m] = dev[m]
    <2> DEFINE d == [ino |-> inos + 1, of |-> c, deleting |-> FALSE]
    <2>1. dev' = [dev EXCEPT ![n] = d] /\ d \in Device
      BY <1>1, <1>2, <1>5
    <2> HIDE DEF d
    <2>2. /\ dev' \in [Name -> Device \cup {None}] /\ dev'[n] = d
          /\ \A m \in Name : m # n => dev'[m] = dev[m]
      BY <1>3, <2>1 DEF DevType
    <2> QED
      BY <2>2 DEF d
  <1>7. uevents' \in Seq(Uevent)
    BY <1>1, <1>2, <1>3, EmitType
  <1> QED
    BY <1>1, <1>2, <1>4, <1>6, <1>7

(* With "record" and "reuse" closed, a new device takes no name that       *)
(* another unit is about to record, has failed to record, or knows.        *)
LEMMA NewDeviceFacts ==
  ASSUME Races \subseteq {"rename"}, IInv, NEW c \in Ctrl \cup {Foreign}, NewDevice(c)
  PROVE  /\ NewName \in Name /\ dev[NewName] = None /\ inos' = inos + 1
         /\ dev' \in [Name -> Device \cup {None}] /\ inos' \in 0..MaxIno
         /\ uevents' \in Seq(Uevent)
         /\ dev'[NewName] = [ino |-> inos + 1, of |-> c, deleting |-> FALSE]
         /\ \A m \in Name : m # NewName => dev'[m] = dev[m]
         /\ \A t \in Ctrl : unit[t] \in {"post", "stop-post"} => devid[t] # NewName
         /\ \A t \in Ctrl : c # Foreign /\ t # c => devid[t] # NewName
PROOF
  <1>1. Types
    BY DEF IInv
  <1>2. /\ c = Foreign \/ Settled(NewName, c)
        /\ \A t \in Ctrl : unit[t] \in {"post", "stop-post"} => devid[t] # NewName
    BY DEF NewDevice
  <1>3. \A t \in Ctrl : c # Foreign /\ t # c => devid[t] # NewName
    BY <1>2 DEF Settled
  <1> QED
    BY <1>1, <1>2, <1>3, NewDeviceType

(* No record fits a new device, whose inode is new. *)
LEMMA NewDeviceKeeps ==
  ASSUME Races \subseteq {"rename"}, IInv, NEW c \in Ctrl \cup {Foreign}, NewDevice(c),
         UNCHANGED link,
         kept' \subseteq kept
  PROVE  /\ \A t \in Ctrl : KeptDev(t)
         /\ InoInv'
         /\ \A n \in Name : link'[n] # None /\ dev'[n] # None /\ link'[n].ino = dev'[n].ino
                            => dev'[n].of = link'[n].of
         /\ inos + 1 \notin kept'
PROOF
  <1>1. PICK n \in Name : n = NewName
    BY NewDeviceFacts
  <1>2. /\ dev[n] = None /\ inos' = inos + 1
        /\ dev'[n] = [ino |-> inos + 1, of |-> c, deleting |-> FALSE]
        /\ \A m \in Name : m # n => dev'[m] = dev[m]
        /\ \A t \in Ctrl : unit[t] \in {"post", "stop-post"} => devid[t] # n
    BY <1>1, NewDeviceFacts
  <1>3. dev'[n].ino = inos + 1
    BY <1>2
  <1>4. InoInv /\ OwnInv /\ inos \in Nat /\ FilesType /\ DevType /\ MaxIno \in Nat
    BY Constants DEF IInv, Types, DevType
  <1>5. /\ \A m \in Name : link[m] # None => link[m].ino <= inos /\ link[m].ino \in Nat
        /\ \A m \in Name : dev[m] # None => dev[m].ino <= inos /\ dev[m].ino \in Nat
        /\ \A k \in kept : k <= inos /\ k \in Nat
    BY <1>4 DEF InoInv, FilesType, DevType, LinkRecord, Device
  <1>6. \A m \in Name : link[m] # None => link[m].ino # inos + 1
    BY <1>4, <1>5
  <1>7. \A t \in Ctrl : KeptDev(t)
    BY <1>2, <1>3, <1>6 DEF KeptDev
  <1>8. InoInv'
    <2>1. \A m \in Name : dev'[m] # None => dev'[m].ino <= inos'
      <3> SUFFICES ASSUME NEW m \in Name, dev'[m] # None PROVE dev'[m].ino <= inos'
        OBVIOUS
      <3>1. CASE m = n
        BY <1>2, <1>3, <1>4, <3>1
      <3>2. CASE m # n
        BY <1>2, <1>4, <1>5, <3>2
      <3> QED
        BY <3>1, <3>2
    <2>2. ASSUME NEW m \in Name, NEW l \in Name, dev'[m] # None, dev'[l] # None,
                 dev'[m].ino = dev'[l].ino
          PROVE  m = l
      <3>1. CASE m = n /\ l # n
        BY <1>2, <1>3, <1>4, <1>5, <2>2, <3>1
      <3>2. CASE m # n /\ l = n
        BY <1>2, <1>3, <1>4, <1>5, <2>2, <3>2
      <3>3. CASE m # n /\ l # n
        BY <1>2, <1>4, <2>2, <3>3 DEF InoInv
      <3> QED
        BY <3>1, <3>2, <3>3
    <2>3. \A m \in Name : link'[m] # None => link'[m].ino <= inos'
      BY <1>2, <1>4, <1>5
    <2>4. \A k \in kept' : k <= inos'
      BY <1>2, <1>4, <1>5
    <2> QED
      BY <2>1, <2>2, <2>3, <2>4 DEF InoInv
  <1>9. \A m \in Name : link'[m] # None /\ dev'[m] # None /\ link'[m].ino = dev'[m].ino
                        => dev'[m].of = link'[m].of
    BY <1>2, <1>3, <1>4, <1>6 DEF OwnInv
  <1>10. inos + 1 \notin kept'
    BY <1>4, <1>5
  <1> QED
    BY <1>7, <1>8, <1>9, <1>10

(* A step of the unit of c. *)
LEMMA OneStateStep ==
  ASSUME SystemdType, NEW c \in Ctrl, NEW s \in States, unit' = [unit EXCEPT ![c] = s],
         UNCHANGED <<job, jobs, ends>>
  PROVE  SystemdType' /\ unit'[c] = s /\ \A t \in Ctrl \ {c} : KeptUnit(t) /\ KeptEnds(t)
PROOF
  <1>1. Len(ends) \in Nat
    BY LenProperties DEF SystemdType
  <1>2. \A t \in Ctrl : KeptEnds(t)
    BY <1>1 DEF KeptEnds
  <1>3. SystemdType' /\ unit'[c] = s /\ \A t \in Ctrl \ {c} : KeptUnit(t)
    BY DEF SystemdType, KeptUnit
  <1> QED
    BY <1>2, <1>3

(* The unit of c writes its .devid file. *)
LEMMA OneFileStep ==
  ASSUME FilesType, NEW c \in Ctrl, NEW d \in Name \cup {None, Empty},
         devid' = [devid EXCEPT ![c] = d], open' \in {open \cup {c}, open \ {c}}, UNCHANGED link
  PROVE  /\ FilesType' /\ devid'[c] = d /\ \A t \in Ctrl \ {c} : KeptFiles(t)
         /\ \A t \in Ctrl \ {c} : devid'[t] = devid[t] /\ (t \in open' <=> t \in open)
  BY DEF FilesType, KeptFiles

(* A step of the unit of c. *)
LEMMA UnitStep ==
  ASSUME IInv, NEW c \in Ctrl, busy.in # "release", UNCHANGED <<wishes, ctrl, saved, busy, soak>>,
         uevents' \in Seq(Uevent), SystemdType', FilesType', DevType', FaultsType',
         \A t \in Ctrl \ {c} : KeptUnit(t) /\ KeptEnds(t) /\ KeptFiles(t) /\ KeptDev(t),
         InoInv', OwnInv', \A t \in Ctrl : DevidInv(t)',
         c \in Io => IoInv(c)'
  PROVE  IInv'
PROOF
  <1>1. Types /\ DaemonType /\ QueueType
    BY DEF IInv, Types
  <1>2. WishType' /\ QueueType'
    BY <1>1, TypesSame DEF QueueType
  <1>3. \A t \in Ctrl : KeptEntry(t) /\ KeptBusy(t)
    BY EntriesSame, BusySame
  <1>4. \A t \in Io : IoInv(t)'
    BY <1>3, OthersStep
  <1>5. BusyInv' /\ DaemonType'
    BY <1>1 DEF IInv, BusyInv, DaemonType
  <1> QED
    BY <1>2, <1>4, <1>5 DEF IInv, Types

(* open_devid_file(): the .devid file is empty now. *)
LEMMA OpenStep ==
  ASSUME Races \subseteq {"rename"}, IInv, NEW c \in Ctrl, open_devid_file(c)
  PROVE  IInv'
PROOF
  <1>1. /\ unit[c] = "start" /\ busy.in # "release" /\ unit' = [unit EXCEPT ![c] = "connect"]
        /\ devid' = [devid EXCEPT ![c] = IF @ = None THEN Empty ELSE @]
        /\ open' = open \cup {c}
        /\ UNCHANGED <<wishes, ctrl, saved, busy, soak, uevents, job, jobs, ends, link, dev,
                       kept, inos, faults>>
    BY DEF open_devid_file, Step, daemon, bounds
  <1>2. /\ Types /\ SystemdType /\ FilesType /\ QueueType /\ DevidInv(c) /\ InoInv /\ OwnInv
        /\ \A t \in Ctrl : DevidInv(t)
    BY DEF IInv, Types
  <1>3. devid' = [devid EXCEPT ![c] = Empty]
    BY <1>1, <1>2 DEF DevidInv
  <1>4. /\ SystemdType' /\ unit'[c] = "connect"
        /\ \A t \in Ctrl \ {c} : KeptUnit(t) /\ KeptEnds(t)
    BY <1>1, <1>2, OneStateStep DEF States
  <1>5. /\ FilesType' /\ devid'[c] = Empty /\ \A t \in Ctrl \ {c} : KeptFiles(t)
        /\ \A t \in Ctrl \ {c} : devid'[t] = devid[t] /\ (t \in open' <=> t \in open)
    BY <1>1, <1>2, <1>3, OneFileStep
  <1>6. DevType' /\ FaultsType' /\ uevents' \in Seq(Uevent)
    BY <1>1, <1>2, TypesSame DEF QueueType
  <1>7. \A t \in Ctrl : KeptDev(t)
    BY <1>1, DevSame
  <1>8. InoInv'
    BY <1>1, <1>2 DEF InoInv
  <1>9. OwnInv'
    BY <1>1, <1>2, <1>4, <1>5, Constants DEF OwnInv, KeptUnit
  <1>10. \A t \in Ctrl : DevidInv(t)'
    BY <1>1, <1>2, <1>4, <1>5 DEF DevidInv, KeptUnit
  <1>11. c \in Io => IoInv(c)'
    BY <1>1, StartingIo
  <1> QED
    BY <1>1, <1>4, <1>5, <1>6, <1>7, <1>8, <1>9, <1>10, <1>11, UnitStep

(* ConnectFails: the .devid file is gone. *)
LEMMA ConnectFailsStep ==
  ASSUME Races \subseteq {"rename"}, IInv, NEW c \in Ctrl, ConnectFails(c)
  PROVE  IInv'
PROOF
  <1>1. /\ unit[c] = "connect" /\ busy.in # "release" /\ unit' = [unit EXCEPT ![c] = "stop-post"]
        /\ devid' = [devid EXCEPT ![c] = IF @ = Empty THEN None ELSE @]
        /\ open' = open \ {c} /\ faults < MaxFault /\ faults' = faults + 1
        /\ UNCHANGED <<wishes, ctrl, saved, busy, soak, uevents, job, jobs, ends, link, dev,
                       kept, inos>>
    BY DEF ConnectFails, Step, daemon
  <1>2. /\ Types /\ SystemdType /\ FilesType /\ QueueType /\ DevidInv(c) /\ InoInv /\ OwnInv
        /\ \A t \in Ctrl : DevidInv(t)
    BY DEF IInv, Types
  <1>3. devid' = [devid EXCEPT ![c] = None]
    BY <1>1, <1>2 DEF DevidInv
  <1>4. /\ SystemdType' /\ unit'[c] = "stop-post"
        /\ \A t \in Ctrl \ {c} : KeptUnit(t) /\ KeptEnds(t)
    BY <1>1, <1>2, OneStateStep DEF States
  <1>5. /\ FilesType' /\ devid'[c] = None /\ \A t \in Ctrl \ {c} : KeptFiles(t)
        /\ \A t \in Ctrl \ {c} : devid'[t] = devid[t] /\ (t \in open' <=> t \in open)
    BY <1>1, <1>2, <1>3, OneFileStep
  <1>6. DevType' /\ FaultsType' /\ uevents' \in Seq(Uevent)
    BY <1>1, <1>2, TypesSame DEF QueueType
  <1>7. \A t \in Ctrl : KeptDev(t)
    BY <1>1, DevSame
  <1>8. InoInv'
    BY <1>1, <1>2 DEF InoInv
  <1>9. OwnInv'
    BY <1>1, <1>2, <1>4, <1>5, Constants DEF OwnInv, KeptUnit
  <1>10. \A t \in Ctrl : DevidInv(t)'
    BY <1>1, <1>2, <1>4, <1>5 DEF DevidInv, KeptUnit
  <1>11. c \in Io => IoInv(c)'
    BY <1>1, StartingIo
  <1> QED
    BY <1>1, <1>4, <1>5, <1>6, <1>7, <1>8, <1>9, <1>10, <1>11, UnitStep

(* libnvmf_connect(): the name it writes is that of its own connection. *)
LEMMA ConnectStep ==
  ASSUME Races \subseteq {"rename"}, IInv, NEW c \in Ctrl, libnvmf_connect(c)
  PROVE  IInv'
PROOF
  <1> DEFINE found == {n \in Name : Matches(n, c)}
             up == {dev[m].ino : m \in found}
  <1>1. /\ unit[c] = "connect" /\ busy.in # "release" /\ unit' = [unit EXCEPT ![c] = "post"]
        /\ open' = open \ {c}
        /\ UNCHANGED <<wishes, ctrl, saved, busy, soak, job, jobs, ends, link, faults>>
    BY DEF libnvmf_connect, Step, daemon
  <1>2. /\ \/ found # {} /\ UNCHANGED <<dev, uevents, inos>>
           \/ found = {} /\ NewDevice(c)
        /\ kept' = kept \ up
    BY DEF libnvmf_connect
  <1>3. PICK n : n = IF found # {} THEN CHOOSE m \in found : TRUE ELSE NewName
    OBVIOUS
  <1>4. devid' = [devid EXCEPT ![c] = IF c \in open THEN n ELSE @]
    BY <1>3 DEF libnvmf_connect
  <1>5. /\ Types /\ SystemdType /\ FilesType /\ QueueType /\ DevType /\ InoInv /\ OwnInv
        /\ \A t \in Ctrl : DevidInv(t)
    BY DEF IInv, Types
  <1>6. /\ n \in Name /\ dev'[n].of = c /\ dev'[n].ino \notin kept'
        /\ \A t \in Ctrl \ {c} : \A m \in Name : devid[t] = m => dev'[m] = dev[m]
        /\ DevType' /\ uevents' \in Seq(Uevent) /\ InoInv'
        /\ \A m \in Name : link'[m] # None /\ dev'[m] # None /\ link'[m].ino = dev'[m].ino
                           => dev'[m].of = link'[m].of
        /\ \A t \in Ctrl : KeptDev(t)
    <2>1. CASE found # {} /\ UNCHANGED <<dev, uevents, inos>>
      <3>1. n \in found
        <4>1. n = CHOOSE m \in found : TRUE
          BY <1>3, <2>1
        <4> QED
          BY <2>1, <4>1, Zenon
      <3>2. n \in Name /\ dev[n].of = c /\ dev[n].ino \in up
        BY <3>1 DEF Matches
      <3>3. DevType' /\ uevents' \in Seq(Uevent)
        BY <1>2, <1>5, <2>1 DEF DevType, QueueType
      <3>4. InoInv'
        BY <1>1, <1>2, <1>5, <2>1 DEF InoInv
      <3>5. \A t \in Ctrl : KeptDev(t)
        BY <2>1, DevSame
      <3> QED
        BY <1>1, <1>2, <1>5, <2>1, <3>2, <3>3, <3>4, <3>5 DEF OwnInv
    <2>2. CASE found = {} /\ NewDevice(c)
      <3>0. c \in Ctrl \cup {Foreign} /\ c # Foreign /\ kept' \subseteq kept
        BY <1>2, Constants
      <3>1. n = NewName
        BY <1>3, <2>2
      <3>2. /\ n \in Name /\ inos' = inos + 1
            /\ dev' \in [Name -> Device \cup {None}] /\ inos' \in 0..MaxIno
            /\ uevents' \in Seq(Uevent)
            /\ dev'[n] = [ino |-> inos + 1, of |-> c, deleting |-> FALSE]
            /\ \A m \in Name : m # n => dev'[m] = dev[m]
            /\ \A t \in Ctrl : t # c => devid[t] # n
        BY <2>2, <3>0, <3>1, NewDeviceFacts
      <3>3. dev'[n].of = c /\ dev'[n].ino = inos + 1
        BY <3>2
      <3>4. DevType'
        BY <1>2, <1>5, <3>2 DEF DevType
      <3>5. /\ \A t \in Ctrl : KeptDev(t)
            /\ InoInv' /\ inos + 1 \notin kept'
            /\ \A m \in Name : link'[m] # None /\ dev'[m] # None /\ link'[m].ino = dev'[m].ino
                               => dev'[m].of = link'[m].of
        BY <1>1, <2>2, <3>0, NewDeviceKeeps
      <3> QED
        BY <3>2, <3>3, <3>4, <3>5
    <2> QED
      BY <1>2, <2>1, <2>2
  <1>7. PICK d \in Name \cup {None, Empty} : d = IF c \in open THEN n ELSE devid[c]
    BY <1>5, <1>6 DEF FilesType
  <1>8. d \in {n, None}
    BY <1>1, <1>5, <1>7 DEF DevidInv
  <1>9. devid' = [devid EXCEPT ![c] = d]
    BY <1>4, <1>7
  <1>10. /\ FilesType' /\ devid'[c] = d /\ \A t \in Ctrl \ {c} : KeptFiles(t)
         /\ \A t \in Ctrl \ {c} : devid'[t] = devid[t] /\ (t \in open' <=> t \in open)
    BY <1>1, <1>5, <1>9, OneFileStep
  <1>11. /\ SystemdType' /\ unit'[c] = "post"
         /\ \A t \in Ctrl \ {c} : KeptUnit(t) /\ KeptEnds(t)
    BY <1>1, <1>5, OneStateStep DEF States
  <1>12. FaultsType'
    BY <1>1, <1>5, TypesSame
  <1>13. \A t \in Ctrl : DevidInv(t)'
    BY <1>1, <1>5, <1>10, <1>11 DEF DevidInv, KeptUnit
  <1>14. OwnInv'
    <2>1. ASSUME NEW t \in Ctrl, NEW m \in Name, devid'[t] = m, dev'[m] # None
          PROVE  /\ unit'[t] = "post" => dev'[m].of = t
                 /\ dev'[m].of = t => dev'[m].ino \notin kept'
      <3>1. CASE t = c
        BY <1>6, <1>8, <1>10, <2>1, <3>1, Constants
      <3>2. CASE t # c
        <4>1. devid[t] = m /\ dev'[m] = dev[m] /\ unit'[t] = unit[t]
          BY <1>6, <1>10, <1>11, <2>1, <3>2 DEF KeptUnit
        <4> QED
          BY <1>2, <1>5, <2>1, <4>1 DEF OwnInv
      <3> QED
        BY <3>1, <3>2
    <2> QED
      BY <1>6, <2>1 DEF OwnInv
  <1>15. c \in Io => IoInv(c)'
    BY <1>1, StartingIo
  <1> QED
    BY <1>1, <1>6, <1>10, <1>11, <1>12, <1>13, <1>14, <1>15, UnitStep

(* The end of a job. *)
LEMMA JobEndsCall ==
  ASSUME SystemdType, NEW c \in Ctrl, NEW s \in States, unit' = [unit EXCEPT ![c] = s],
         NEW b \in BOOLEAN, JobEnds(c, b)
  PROVE  /\ SystemdType' /\ \A t \in Ctrl \ {c} : KeptUnit(t) /\ KeptEnds(t)
         /\ unit'[c] = s /\ job'[c] = "none" /\ c \notin jobs'
         /\ ends' = IF c \in jobs THEN Append(ends, [of |-> c, done |-> b]) ELSE ends
PROOF
  <1>1. /\ job' = [job EXCEPT ![c] = "none"] /\ jobs' = jobs \ {c}
        /\ ends' = IF c \in jobs THEN Append(ends, [of |-> c, done |-> b]) ELSE ends
    BY DEF JobEnds
  <1>2. \/ ends' = ends
        \/ \E x \in BOOLEAN : ends' = Append(ends, [of |-> c, done |-> x])
    BY <1>1
  <1>3. SystemdType' /\ \A t \in Ctrl \ {c} : KeptUnit(t) /\ KeptEnds(t)
    BY <1>1, <1>2, OneUnit
  <1>4. unit'[c] = s /\ job'[c] = "none"
    BY <1>1 DEF SystemdType
  <1> QED
    BY <1>1, <1>3, <1>4

(* A job of an I/O controller ends: nothing else of it is on its way. *)
LEMMA EndedIo ==
  ASSUME IInv, NEW c \in Io, unit[c] \in {"post", "stop-post"}, NEW b \in BOOLEAN,
         unit'[c] = IF b THEN "active" ELSE "none", job'[c] = "none", c \notin jobs',
         ends' = IF c \in jobs THEN Append(ends, [of |-> c, done |-> b]) ELSE ends,
         busy.in # "release", UNCHANGED <<ctrl, busy>>,
         \A n \in LinksOf(c)' : devid'[c] = n,
         devid'[c] \in {devid[c], None}
  PROVE  IoInv(c)'
PROOF
  <1>1. /\ SystemdType /\ c \in Ctrl /\ IoInv(c) /\ JobInv(c) /\ StopInv(c)
        /\ c \in Tracked => TrackedInv(c)
    BY DEF IInv, Types, IoInv, Io
  <1>2. c \in Tracked' <=> c \in Tracked
    BY DEF Tracked
  <1>3. c \in jobs => c \in Tracked /\ ~EndOf(c)
    BY <1>1 DEF JobInv
  <1>4. c \in Tracked => ~EndOf(c)
    BY <1>1 DEF TrackedInv, EndInv, EndOf
  <1>5. EndOf(c)' => c \in jobs \/ EndOf(c)
    BY DEF EndOf
  <1>6. c \in Tracked => EndInv(c)'
    <2>1. CASE c \notin jobs
      BY <1>4, <2>1 DEF EndInv, EndOf
    <2>2. CASE c \in jobs
      <3> DEFINE x == [of |-> c, done |-> b]
      <3>1. x \in EndRecord /\ x.of = c /\ x.done = b
        BY <1>1 DEF EndRecord
      <3> HIDE DEF x
      <3>2. /\ Len(ends) \in Nat /\ Len(ends') = Len(ends) + 1
            /\ \A k \in 1..Len(ends) : ends'[k] = ends[k]
            /\ ends'[Len(ends) + 1] = x
        BY <1>1, <2>2, <3>1, AppendEnds DEF x
      <3>3. ASSUME NEW k \in 1..Len(ends'), ends'[k].of = c
            PROVE  k = Len(ends) + 1 /\ ends'[k].done = b
        <4>1. k \notin 1..Len(ends)
          BY <1>3, <2>2, <3>2, <3>3 DEF EndOf
        <4>2. k = Len(ends) + 1
          BY <3>2, <4>1
        <4> QED
          BY <3>1, <3>2, <4>2
      <3> QED
        BY <3>3 DEF EndInv
    <2> QED
      BY <2>1, <2>2
  <1>7. JobInv(c)'
    BY DEF JobInv
  <1>8. StopInv(c)'
    <2>1. busy'.in = "replace" /\ busy'.of = c => c \notin Tracked' /\ ~EndOf(c)'
      BY <1>1, <1>2, <1>3, <1>5 DEF StopInv
    <2>2. unit'[c] # "stop" /\ job'[c] # "restart"
      OBVIOUS
    <2> QED
      BY <2>1, <2>2 DEF StopInv
  <1>9. ASSUME c \in Tracked PROVE TrackedInv(c)'
    <2>1. TrackedInv(c) /\ EndInv(c)' /\ (EndOf(c)' => c \in jobs)
      BY <1>1, <1>4, <1>5, <1>6, <1>9
    <2>2. unit'[c] \in {"none", "post", "active", "stop", "stop-post"}
      OBVIOUS
    <2> QED
      BY <2>1, <2>2 DEF TrackedInv, Quiet
  <1> QED
    BY <1>2, <1>7, <1>8, <1>9 DEF IoInv

(* ExecStartPost: the record fits the controller's own device, or the      *)
(* device is gone.                                                         *)
LEMMA StartPostStep ==
  ASSUME Races \subseteq {"rename"}, IInv, NEW c \in Ctrl, ExecStartPost(c)
  PROVE  IInv'
PROOF
  <1>0. PICK n \in Name \cup {None, Empty} : n = devid[c]
    BY DEF IInv, Types, FilesType
  <1> DEFINE gone == n \in Name /\ dev[n] = None
             r == [of |-> c, ino |-> IF gone THEN 0 ELSE dev[n].ino]
  <1>1. /\ unit[c] = "post" /\ busy.in # "release"
        /\ UNCHANGED <<wishes, ctrl, saved, busy, soak, uevents, devid, open, dev, kept, inos,
                       faults>>
    BY DEF ExecStartPost, Step, daemon, bounds
  <1>2. /\ link' = [m \in Name |-> IF m # n THEN link[m] ELSE r]
        /\ \/ ~gone /\ unit' = [unit EXCEPT ![c] = "active"] /\ JobEnds(c, TRUE)
           \/ gone /\ unit' = [unit EXCEPT ![c] = "stop-post"] /\ UNCHANGED <<job, jobs, ends>>
    BY <1>0 DEF ExecStartPost
  <1>3. /\ Types /\ SystemdType /\ FilesType /\ QueueType /\ DevType /\ InoInv /\ OwnInv
        /\ \A t \in Ctrl : DevidInv(t)
    BY DEF IInv, Types
  <1>4. inos \in Nat /\ MaxIno \in Nat
    BY <1>3, Constants DEF DevType
  <1>5. n \in Name => r \in LinkRecord /\ r.of = c /\ r.ino <= inos
        /\ (dev[n] # None => r.ino = dev[n].ino)
    <2> SUFFICES ASSUME n \in Name
                 PROVE  r \in LinkRecord /\ r.of = c /\ r.ino <= inos
                        /\ (dev[n] # None => r.ino = dev[n].ino)
      OBVIOUS
    <2>1. CASE dev[n] = None
      BY <1>4, <2>1 DEF LinkRecord
    <2>2. CASE dev[n] # None
      <3>1. dev[n].ino \in 1..MaxIno /\ dev[n].ino <= inos
        BY <1>3, <2>2 DEF DevType, Device, InoInv
      <3> QED
        BY <1>4, <2>2, <3>1 DEF LinkRecord
    <2> QED
      BY <2>1, <2>2
  <1> HIDE DEF r
  <1>6. \A m \in Name : link'[m] = IF m # n THEN link[m] ELSE r
    BY <1>2
  <1>7. FilesType'
    BY <1>1, <1>2, <1>3, <1>5 DEF FilesType
  <1>8. \A t \in Ctrl \ {c} : KeptFiles(t)
    BY <1>1, <1>5, <1>6 DEF KeptFiles
  <1>9. InoInv'
    BY <1>1, <1>3, <1>5, <1>6 DEF InoInv
  <1>10. DevType' /\ FaultsType' /\ uevents' \in Seq(Uevent)
    BY <1>1, <1>3, TypesSame DEF QueueType
  <1>11. \A t \in Ctrl : KeptDev(t)
    BY <1>1, DevSame
  <1>12. \A m \in Name : link'[m] # None /\ dev'[m] # None /\ link'[m].ino = dev'[m].ino
                         => dev'[m].of = link'[m].of
    <2> SUFFICES ASSUME NEW m \in Name, link'[m] # None, dev[m] # None,
                        link'[m].ino = dev[m].ino
                 PROVE  dev[m].of = link'[m].of
      BY <1>1
    <2>1. CASE m = n
      BY <1>0, <1>1, <1>3, <1>5, <1>6, <2>1 DEF OwnInv
    <2>2. CASE m # n
      BY <1>3, <1>6, <2>2 DEF OwnInv
    <2> QED
      BY <2>1, <2>2
  <1>13. c \in Io => \A m \in LinksOf(c)' : devid'[c] = m
    BY <1>0, <1>1, <1>6, LinksAreRecorded DEF LinksOf
  <1>14. CASE ~gone /\ unit' = [unit EXCEPT ![c] = "active"] /\ JobEnds(c, TRUE)
    <2>1. /\ SystemdType' /\ \A t \in Ctrl \ {c} : KeptUnit(t) /\ KeptEnds(t)
          /\ unit'[c] = "active" /\ job'[c] = "none" /\ c \notin jobs'
          /\ ends' = IF c \in jobs THEN Append(ends, [of |-> c, done |-> TRUE]) ELSE ends
      BY <1>3, <1>14, JobEndsCall DEF States
    <2>2. OwnInv'
      BY <1>1, <1>3, <1>12, <2>1 DEF OwnInv, KeptUnit
    <2>3. \A t \in Ctrl : DevidInv(t)'
      BY <1>1, <1>3, <2>1 DEF DevidInv, KeptUnit
    <2>4. c \in Io => IoInv(c)'
      BY <1>1, <1>13, <2>1, EndedIo
    <2> QED
      BY <1>1, <1>7, <1>8, <1>9, <1>10, <1>11, <2>1, <2>2, <2>3, <2>4, UnitStep
  <1>15. CASE gone /\ unit' = [unit EXCEPT ![c] = "stop-post"] /\ UNCHANGED <<job, jobs, ends>>
    <2>1. /\ SystemdType' /\ unit'[c] = "stop-post"
          /\ \A t \in Ctrl \ {c} : KeptUnit(t) /\ KeptEnds(t)
      BY <1>3, <1>15, OneStateStep DEF States
    <2>2. OwnInv'
      BY <1>1, <1>3, <1>12, <2>1 DEF OwnInv, KeptUnit
    <2>3. \A t \in Ctrl : DevidInv(t)'
      BY <1>1, <1>3, <2>1 DEF DevidInv, KeptUnit
    <2>4. ASSUME c \in Io PROVE IoInv(c)'
      <3>1. IoInv(c) /\ JobInv(c) /\ StopInv(c)
        BY <2>4 DEF IInv, IoInv
      <3>2. EndOf(c)' <=> EndOf(c)
        BY <1>15 DEF EndOf
      <3>3. c \in Tracked' <=> c \in Tracked
        BY <1>1 DEF Tracked
      <3>4. \A m \in LinksOf(c)' : dev'[m] = None
        BY <1>0, <1>1, <1>13, <1>15, <2>4
      <3>5. JobInv(c)'
        BY <1>1, <1>15, <2>1, <3>1, <3>2, <3>3, <3>4 DEF JobInv
      <3>6. StopInv(c)'
        <4>1. \A m \in LinksOf(c)' : devid'[c] = m
          BY <1>13, <2>4
        <4>2. job'[c] # "restart"
          BY <1>1, <1>15, <3>1 DEF StopInv
        <4>3. busy'.in = "replace" /\ busy'.of = c => c \notin Tracked' /\ ~EndOf(c)'
          BY <1>1, <3>1, <3>2, <3>3 DEF StopInv
        <4> QED
          BY <2>1, <4>1, <4>2, <4>3 DEF StopInv
      <3>7. ASSUME c \in Tracked PROVE TrackedInv(c)'
        <4>1. TrackedInv(c)
          BY <3>1, <3>7 DEF IoInv
        <4>2. ~EndOf(c)
          BY <1>1, <4>1 DEF TrackedInv, EndInv, EndOf
        <4>3. EndInv(c)'
          BY <3>2, <4>2 DEF EndInv, EndOf
        <4> QED
          BY <1>1, <1>15, <2>1, <3>2, <4>1, <4>3 DEF TrackedInv, Quiet
      <3> QED
        BY <3>3, <3>5, <3>6, <3>7 DEF IoInv
    <2> QED
      BY <1>1, <1>7, <1>8, <1>9, <1>10, <1>11, <2>1, <2>2, <2>3, <2>4, UnitStep
  <1> QED
    BY <1>2, <1>14, <1>15

(* A device that is being deleted or goes. *)
LEMMA DevMarked ==
  ASSUME IInv, NEW n \in Name, dev[n] # None,
         \/ dev' = [dev EXCEPT ![n].deleting = TRUE]
         \/ dev' = [dev EXCEPT ![n] = None],
         UNCHANGED <<kept, inos, link, devid, open, unit>>
  PROVE  /\ DevType' /\ InoInv' /\ OwnInv'
         /\ \A t \in Ctrl : DevidInv(t)' /\ KeptDev(t)
PROOF
  <1>1. Types /\ DevType /\ InoInv /\ OwnInv /\ \A t \in Ctrl : DevidInv(t)
    BY DEF IInv, Types
  <1>2. dev[n] \in Device
    BY <1>1 DEF DevType
  <1>3. PICK d \in Device \cup {None} :
           /\ dev' = [dev EXCEPT ![n] = d]
           /\ d # None => d.ino = dev[n].ino /\ d.of = dev[n].of /\ d.deleting
    <2>1. CASE dev' = [dev EXCEPT ![n] = None]
      BY <2>1
    <2>2. CASE dev' = [dev EXCEPT ![n].deleting = TRUE]
      <3> DEFINE d == [dev[n] EXCEPT !.deleting = TRUE]
      <3>1. d \in Device /\ d.ino = dev[n].ino /\ d.of = dev[n].of /\ d.deleting
        BY <1>2 DEF Device
      <3>2. dev' = [dev EXCEPT ![n] = d]
        BY <2>2
      <3> HIDE DEF d
      <3> QED
        BY <3>1, <3>2
    <2> QED
      BY <2>1, <2>2
  <1>4. /\ DevType' /\ dev'[n] = d
        /\ \A m \in Name : m # n => dev'[m] = dev[m]
    BY <1>1, <1>3 DEF DevType
  <1>5. \A m \in Name : dev'[m] # None =>
           /\ dev[m] # None /\ dev'[m].ino = dev[m].ino /\ dev'[m].of = dev[m].of
           /\ dev[m].deleting => dev'[m].deleting
    BY <1>3, <1>4
  <1>6. InoInv'
    BY <1>1, <1>5 DEF InoInv
  <1>7. OwnInv'
    BY <1>1, <1>5 DEF OwnInv
  <1>8. \A t \in Ctrl : DevidInv(t)'
    BY <1>1 DEF DevidInv
  <1>9. \A t \in Ctrl : KeptDev(t)
    BY <1>5 DEF KeptDev
  <1> QED
    BY <1>4, <1>6, <1>7, <1>8, <1>9

(* A step outside the daemon and its units. *)
LEMMA OutsideStep ==
  ASSUME IInv, UNCHANGED <<ctrl, saved, busy, soak, systemd, files>>,
         WishType', FaultsType', DevType', uevents' \in Seq(Uevent),
         InoInv', OwnInv', \A t \in Ctrl : DevidInv(t)' /\ KeptDev(t)
  PROVE  IInv'
PROOF
  <1>1. Types /\ DaemonType /\ QueueType /\ SystemdType /\ FilesType
    BY DEF IInv, Types
  <1>2. SystemdType' /\ UnitsCalled /\ \A t \in Ctrl : KeptUnit(t) /\ KeptEnds(t)
    BY <1>1, SystemdSame
  <1>3. FilesType' /\ FilesShrink /\ \A t \in Ctrl : KeptFiles(t)
    BY <1>1, FilesSame
  <1>4. \A t \in Ctrl : KeptEntry(t) /\ KeptBusy(t)
    BY EntriesSame, BusySame
  <1>5. \A t \in Io : IoInv(t)'
    BY <1>2, <1>3, <1>4, AllStep
  <1>6. BusyInv' /\ DaemonType' /\ QueueType'
    BY <1>1 DEF IInv, BusyInv, DaemonType, QueueType, files, Tracked
  <1> QED
    BY <1>2, <1>3, <1>5, <1>6 DEF IInv, Types

(* ExecStop: a device is marked, or the unit goes on. *)
LEMMA ExecStopStep ==
  ASSUME Races \subseteq {"rename"}, IInv, NEW c \in Ctrl, ExecStop(c)
  PROVE  IInv'
PROOF
  <1>1. /\ unit[c] = "stop" /\ busy.in # "release"
        /\ UNCHANGED <<wishes, ctrl, saved, busy, soak, job, jobs, ends, files, kept, inos,
                       faults>>
    BY DEF ExecStop, Step, daemon, bounds
  <1>2. /\ Types /\ SystemdType /\ FilesType /\ QueueType /\ InoInv /\ OwnInv
        /\ \A t \in Ctrl : DevidInv(t)
    BY DEF IInv, Types
  <1>3. FaultsType' /\ WishType'
    BY <1>1, <1>2, TypesSame
  <1>4. ASSUME NEW n \in Disconnected(c), ~dev[n].deleting, Emit("remove", n),
               dev' = [dev EXCEPT ![n].deleting = TRUE], UNCHANGED unit
        PROVE  IInv'
    <2>1. n \in Name /\ dev[n] # None
      BY DEF Disconnected, LinkedTo
    <2>2. uevents' \in Seq(Uevent)
      BY <1>2, <1>4, <2>1, EmitType
    <2>3. /\ DevType' /\ InoInv' /\ OwnInv' /\ \A t \in Ctrl : DevidInv(t)' /\ KeptDev(t)
      BY <1>1, <1>4, <2>1, DevMarked DEF files
    <2> QED
      BY <1>1, <1>3, <1>4, <2>2, <2>3, OutsideStep DEF systemd
  <1>5. CASE unit' = [unit EXCEPT ![c] = "stop-post"] /\ UNCHANGED <<dev, uevents>>
    <2>1. /\ SystemdType' /\ unit'[c] = "stop-post"
          /\ \A t \in Ctrl \ {c} : KeptUnit(t) /\ KeptEnds(t)
      BY <1>1, <1>2, <1>5, OneStateStep DEF States
    <2>2. FilesType' /\ FilesShrink /\ \A t \in Ctrl : KeptFiles(t)
      BY <1>1, <1>2, FilesSame
    <2>3. UnitsCalled
      BY <1>2, <1>5 DEF UnitsCalled, SystemdType
    <2>4. InoInv' /\ OwnInv' /\ \A t \in Ctrl : DevidInv(t)'
      BY <1>1, <1>5, <2>2, <2>3, CoreQuiet
    <2>5. DevType' /\ uevents' \in Seq(Uevent)
      BY <1>1, <1>2, <1>5, TypesSame DEF QueueType
    <2>6. \A t \in Ctrl : KeptDev(t)
      BY <1>5, DevSame
    <2>7. ASSUME c \in Io PROVE IoInv(c)'
      <3>1. IoInv(c) /\ JobInv(c) /\ StopInv(c)
        BY <2>7 DEF IInv, IoInv
      <3>2. UNCHANGED <<devid, link, dev>>
        BY <1>1, <1>5 DEF files
      <3>3. (EndOf(c)' <=> EndOf(c)) /\ (c \in Tracked' <=> c \in Tracked)
        BY <1>1 DEF EndOf, Tracked
      <3>4. LinksOf(c)' = LinksOf(c)
        BY <3>2 DEF LinksOf
      <3>5. JobInv(c)'
        BY <1>1, <3>1, <3>3, <3>4 DEF JobInv
      <3>6. StopInv(c)'
        BY <1>1, <2>1, <3>1, <3>2, <3>3, <3>4 DEF StopInv
      <3>7. ASSUME c \in Tracked PROVE TrackedInv(c)'
        <4>1. TrackedInv(c)
          BY <3>1, <3>7 DEF IoInv
        <4>2. ~EndOf(c)
          BY <1>1, <4>1 DEF TrackedInv, EndInv, EndOf
        <4>3. EndInv(c)'
          BY <3>3, <4>2 DEF EndInv, EndOf
        <4> QED
          BY <1>1, <2>1, <3>2, <3>3, <4>1, <4>3 DEF TrackedInv, Quiet
      <3> QED
        BY <3>3, <3>5, <3>6, <3>7 DEF IoInv
    <2> QED
      BY <1>1, <1>3, <2>1, <2>2, <2>4, <2>5, <2>6, <2>7, UnitStep
  <1> QED
    BY <1>4, <1>5 DEF ExecStop

(* ExecStopPost: the records go before the restart or the end. *)
LEMMA StopPostStep ==
  ASSUME Races \subseteq {"rename"}, IInv, NEW c \in Ctrl, ExecStopPost(c)
  PROVE  IInv'
PROOF
  <1>1. /\ unit[c] = "stop-post" /\ busy.in # "release"
        /\ Forget({c}, LinkedTo(c, {devid[c]}))
        /\ UNCHANGED <<wishes, ctrl, saved, busy, soak, uevents, dev, kept, inos, faults>>
    BY DEF ExecStopPost, Step, daemon, bounds
  <1>2. /\ Types /\ SystemdType /\ FilesType /\ QueueType /\ InoInv /\ OwnInv
        /\ \A t \in Ctrl : DevidInv(t)
    BY DEF IInv, Types
  <1>3. FaultsType' /\ WishType' /\ DevType' /\ uevents' \in Seq(Uevent)
    BY <1>1, <1>2, TypesSame DEF QueueType
  <1>4. /\ FilesType' /\ FilesShrink /\ \A t \in Ctrl \ {c} : KeptFiles(t)
        /\ devid'[c] = None
        /\ \A n \in Name : link'[n] = IF n \in LinkedTo(c, {devid[c]}) THEN None ELSE link[n]
    BY <1>1, <1>2, ForgetFacts
  <1>5. \A t \in Ctrl : KeptDev(t)
    BY <1>1, DevSame
  <1>6. c \in Io => LinksOf(c)' = {}
    BY <1>4, LinksAreRecorded, ForgottenLinks
  <1>7. InoInv'
    BY <1>1, <1>2, <1>4 DEF InoInv, FilesShrink
  <1>8. ASSUME unit'[c] \in {"start", "none"}, \A t \in Ctrl \ {c} : KeptUnit(t)
        PROVE  OwnInv' /\ \A t \in Ctrl : DevidInv(t)'
    <2>1. \A n \in Name : link'[n] # None => link'[n] = link[n]
      BY <1>4 DEF FilesShrink
    <2>2. \A t \in Ctrl : \A n \in Name : devid'[t] = n => devid[t] = n /\ t # c
      BY <1>4, Constants DEF FilesShrink
    <2>3. OwnInv'
      BY <1>1, <1>2, <1>8, <2>1, <2>2 DEF OwnInv, KeptUnit
    <2>4. ASSUME NEW t \in Ctrl PROVE DevidInv(t)'
      <3>1. CASE t = c
        BY <1>4, <1>8, <3>1 DEF DevidInv
      <3>2. CASE t # c
        <4>1. unit'[t] = unit[t] /\ DevidInv(t)
          BY <1>2, <1>8, <3>2 DEF KeptUnit
        <4> QED
          BY <1>4, <4>1 DEF DevidInv, FilesShrink
      <3> QED
        BY <3>1, <3>2
    <2> QED
      BY <2>3, <2>4
  <1>9. CASE /\ job[c] = "restart" /\ unit' = [unit EXCEPT ![c] = "start"]
             /\ job' = [job EXCEPT ![c] = "start"] /\ UNCHANGED <<jobs, ends>>
    <2>1. Len(ends) \in Nat
      BY <1>2, LenProperties DEF SystemdType
    <2>2. /\ SystemdType' /\ unit'[c] = "start" /\ job'[c] = "start"
          /\ \A t \in Ctrl \ {c} : KeptUnit(t)
      BY <1>2, <1>9 DEF SystemdType, States, KeptUnit
    <2>3. \A t \in Ctrl : KeptEnds(t)
      BY <1>9, <2>1 DEF KeptEnds
    <2>4. OwnInv' /\ \A t \in Ctrl : DevidInv(t)'
      BY <1>8, <2>2
    <2>5. ASSUME c \in Io PROVE IoInv(c)'
      <3>1. IoInv(c) /\ JobInv(c) /\ StopInv(c)
        BY <2>5 DEF IInv, IoInv
      <3>2. (EndOf(c)' <=> EndOf(c)) /\ (c \in Tracked' <=> c \in Tracked)
        BY <1>1, <1>9 DEF EndOf, Tracked
      <3>3. LinksOf(c)' = {} /\ Disconnected(c)' = {}
        BY <1>6, <2>5, NothingDisconnected
      <3>4. JobInv(c)'
        BY <1>1, <1>9, <3>1, <3>2, <3>3 DEF JobInv
      <3>5. StopInv(c)'
        BY <1>1, <2>2, <3>1, <3>2, <3>3 DEF StopInv
      <3>6. ASSUME c \in Tracked PROVE TrackedInv(c)'
        <4>1. TrackedInv(c)
          BY <3>1, <3>6 DEF IoInv
        <4>2. ~EndOf(c)
          BY <1>1, <4>1 DEF TrackedInv, EndInv, EndOf
        <4>3. EndInv(c)'
          BY <3>2, <4>2 DEF EndInv, EndOf
        <4>4. ctrl[c].dev = None /\ ~ctrl[c].poll
          BY <1>9, <4>1 DEF TrackedInv
        <4>5. ~ctrl[c].retry
          BY <1>9, <4>1 DEF TrackedInv, Quiet
        <4> QED
          BY <1>1, <4>3, <4>4, <4>5 DEF TrackedInv
      <3> QED
        BY <3>2, <3>4, <3>5, <3>6 DEF IoInv
    <2> QED
      BY <1>1, <1>3, <1>4, <1>5, <1>7, <2>2, <2>3, <2>4, <2>5, UnitStep
  <1>10. CASE unit' = [unit EXCEPT ![c] = "none"] /\ JobEnds(c, FALSE)
    <2>1. /\ SystemdType' /\ \A t \in Ctrl \ {c} : KeptUnit(t) /\ KeptEnds(t)
          /\ unit'[c] = "none" /\ job'[c] = "none" /\ c \notin jobs'
          /\ ends' = IF c \in jobs THEN Append(ends, [of |-> c, done |-> FALSE]) ELSE ends
      BY <1>2, <1>10, JobEndsCall DEF States
    <2>2. OwnInv' /\ \A t \in Ctrl : DevidInv(t)'
      BY <1>8, <2>1
    <2>3. c \in Io => IoInv(c)'
      BY <1>1, <1>4, <1>6, <2>1, EndedIo
    <2> QED
      BY <1>1, <1>3, <1>4, <1>5, <1>7, <2>1, <2>2, <2>3, UnitStep
  <1> QED
    BY <1>9, <1>10 DEF ExecStopPost

(* DeviceLost, DeviceGone and DeviceChanged. *)
LEMMA DeviceStep ==
  ASSUME IInv, NEW n \in Name, DeviceLost(n) \/ DeviceGone(n) \/ DeviceChanged(n)
  PROVE  IInv'
PROOF
  <1>1. Types /\ QueueType /\ DevType
    BY DEF IInv, Types
  <1>2. CASE DeviceLost(n)
    <2>1. /\ dev[n] # None /\ dev' = [dev EXCEPT ![n].deleting = TRUE] /\ Emit("remove", n)
          /\ UNCHANGED <<wishes, ctrl, saved, busy, soak, systemd, files, kept, inos, faults>>
      BY <1>2 DEF DeviceLost, daemon, bounds
    <2>2. WishType' /\ FaultsType' /\ uevents' \in Seq(Uevent)
      BY <1>1, <2>1, TypesSame, EmitType
    <2>3. /\ DevType' /\ InoInv' /\ OwnInv' /\ \A t \in Ctrl : DevidInv(t)' /\ KeptDev(t)
      BY <2>1, DevMarked DEF files, systemd
    <2> QED
      BY <2>1, <2>2, <2>3, OutsideStep
  <1>3. CASE DeviceGone(n)
    <2>1. /\ dev[n] # None /\ dev' = [dev EXCEPT ![n] = None]
          /\ UNCHANGED <<wishes, ctrl, saved, busy, soak, uevents, systemd, files, kept, inos,
                         faults>>
      BY <1>3 DEF DeviceGone, daemon, bounds
    <2>2. WishType' /\ FaultsType' /\ uevents' \in Seq(Uevent)
      BY <1>1, <2>1, TypesSame DEF QueueType
    <2>3. /\ DevType' /\ InoInv' /\ OwnInv' /\ \A t \in Ctrl : DevidInv(t)' /\ KeptDev(t)
      BY <2>1, DevMarked DEF files, systemd
    <2> QED
      BY <2>1, <2>2, <2>3, OutsideStep
  <1>4. CASE DeviceChanged(n)
    <2>1. /\ faults < MaxFault /\ faults' = faults + 1 /\ Emit("change", n)
          /\ UNCHANGED <<wishes, ctrl, saved, busy, soak, systemd, files, dev, kept, inos>>
      BY <1>4 DEF DeviceChanged, daemon
    <2>2. WishType' /\ FaultsType' /\ DevType' /\ uevents' \in Seq(Uevent)
      BY <1>1, <2>1, TypesSame, EmitType
    <2>3. InoInv' /\ OwnInv' /\ \A t \in Ctrl : DevidInv(t)' /\ KeptDev(t)
      BY <2>1, DevSame DEF IInv, InoInv, OwnInv, DevidInv, files, systemd
    <2> QED
      BY <2>1, <2>2, <2>3, OutsideStep
  <1> QED
    BY <1>2, <1>3, <1>4

(* ForeignConnect: the name of no unit that is about to record it. *)
LEMMA ForeignStep ==
  ASSUME Races \subseteq {"rename"}, IInv, ForeignConnect
  PROVE  IInv'
PROOF
  <1>1. /\ faults < MaxFault /\ faults' = faults + 1 /\ NewDevice(Foreign)
        /\ UNCHANGED <<wishes, ctrl, saved, busy, soak, systemd, files, kept>>
    BY DEF ForeignConnect, daemon
  <1>2. Types /\ DevType /\ OwnInv
    BY DEF IInv, Types
  <1>3. PICK n \in Name : n = NewName
    BY <1>1, NewDeviceFacts
  <1>4. /\ dev' \in [Name -> Device \cup {None}] /\ inos' \in 0..MaxIno
        /\ uevents' \in Seq(Uevent)
        /\ dev'[n] = [ino |-> inos + 1, of |-> Foreign, deleting |-> FALSE]
        /\ \A m \in Name : m # n => dev'[m] = dev[m]
        /\ \A t \in Ctrl : unit[t] \in {"post", "stop-post"} => devid[t] # n
    BY <1>1, <1>3, NewDeviceFacts
  <1>5. dev'[n].of = Foreign /\ Foreign \notin Ctrl
    BY <1>4, Constants
  <1>6. UNCHANGED <<link, devid, open, unit>>
    BY <1>1 DEF files, systemd
  <1>7. /\ \A t \in Ctrl : KeptDev(t)
        /\ InoInv'
        /\ \A m \in Name : link'[m] # None /\ dev'[m] # None /\ link'[m].ino = dev'[m].ino
                           => dev'[m].of = link'[m].of
    BY <1>1, <1>6, NewDeviceKeeps
  <1>8. OwnInv'
    <2>1. ASSUME NEW t \in Ctrl, NEW m \in Name, devid'[t] = m, dev'[m] # None
          PROVE  /\ unit'[t] = "post" => dev'[m].of = t
                 /\ dev'[m].of = t => dev'[m].ino \notin kept'
      <3>1. CASE m = n
        BY <1>4, <1>5, <1>6, <2>1, <3>1
      <3>2. CASE m # n
        <4>1. dev'[m] = dev[m]
          BY <1>4, <3>2
        <4> QED
          BY <1>1, <1>2, <1>6, <2>1, <4>1 DEF OwnInv
      <3> QED
        BY <3>1, <3>2
    <2> QED
      BY <1>7, <2>1 DEF OwnInv
  <1>9. \A t \in Ctrl : DevidInv(t)'
    BY <1>6 DEF IInv, DevidInv
  <1>10. WishType' /\ FaultsType' /\ DevType'
    BY <1>1, <1>2, <1>4, TypesSame DEF DevType
  <1> QED
    BY <1>1, <1>4, <1>7, <1>8, <1>9, <1>10, OutsideStep

(* Edit changes only what is desired or excluded. *)
LEMMA EditStep ==
  ASSUME IInv, NEW c \in Ctrl, Edit(c)
  PROVE  IInv'
PROOF
  <1>1. /\ faults < MaxFault /\ faults' = faults + 1
        /\ UNCHANGED <<fc, ctrl, saved, busy, soak, uevents, systemd, files, dev, kept, inos>>
        /\ \/ desired' = (desired \ {c}) \cup ({c} \ desired) /\ UNCHANGED excluded
           \/ excluded' = (excluded \ {c}) \cup ({c} \ excluded) /\ UNCHANGED desired
    BY DEF Edit, daemon
  <1>2. Types /\ QueueType /\ WishType
    BY DEF IInv, Types
  <1>3. WishType'
    BY <1>1, <1>2 DEF WishType
  <1>4. FaultsType' /\ DevType' /\ uevents' \in Seq(Uevent)
    BY <1>1, <1>2, TypesSame DEF QueueType
  <1>5. InoInv' /\ OwnInv' /\ \A t \in Ctrl : DevidInv(t)' /\ KeptDev(t)
    BY <1>1, DevSame DEF IInv, InoInv, OwnInv, DevidInv, files, systemd
  <1> QED
    BY <1>1, <1>3, <1>4, <1>5, OutsideStep

(* Crash: entries, jobs and ends go, records and units stay. *)
LEMMA CrashStep ==
  ASSUME IInv, Crash
  PROVE  IInv'
PROOF
  <1>1. /\ faults < MaxFault /\ faults' = faults + 1
        /\ busy' = [in |-> "down", of |-> None] /\ ctrl' = [c \in Ctrl |-> None]
        /\ saved' = Tracked \cap desired
        /\ soak' = <<>> /\ uevents' = <<>> /\ ends' = <<>> /\ jobs' = {}
        /\ UNCHANGED <<wishes, unit, job, files, dev, kept, inos>>
    BY DEF Crash
  <1>2. Types /\ SystemdType /\ FilesType
    BY DEF IInv, Types
  <1>3. UNCHANGED <<devid, open, link>>
    BY <1>1 DEF files
  <1>4. WishType' /\ FaultsType' /\ DevType' /\ FilesType'
    BY <1>1, <1>2, TypesSame, FilesSame
  <1>5. QueueType'
    BY <1>1 DEF QueueType
  <1>6. SystemdType'
    BY <1>1, <1>2 DEF SystemdType
  <1>7. DaemonType' /\ busy'.in = "down" /\ BusyInv'
    BY <1>1 DEF DaemonType, BusyInv, Tracked
  <1>8. InoInv' /\ OwnInv' /\ \A t \in Ctrl : DevidInv(t)'
    BY <1>1, <1>3 DEF IInv, InoInv, OwnInv, DevidInv
  <1>9. ASSUME NEW t \in Io PROVE IoInv(t)'
    <2>1. StopInv(t) /\ t \in Ctrl
      BY DEF IInv, IoInv, Io
    <2>2. t \notin Tracked' /\ t \notin jobs'
      BY <1>1, <2>1 DEF Tracked
    <2>3. LinksOf(t)' = LinksOf(t) /\ Disconnected(t)' = Disconnected(t)
      BY <1>1, <1>3 DEF LinksOf, Disconnected, LinkedTo
    <2>4. StopInv(t)'
      BY <1>1, <1>3, <1>7, <2>1, <2>3 DEF StopInv
    <2>5. JobInv(t)'
      BY <2>2 DEF JobInv
    <2> QED
      BY <2>2, <2>4, <2>5 DEF IoInv
  <1> QED
    BY <1>4, <1>5, <1>6, <1>7, <1>8, <1>9 DEF IInv, Types

(* Boot: state_gc() only removes records. *)
LEMMA BootStep ==
  ASSUME IInv, Boot
  PROVE  IInv'
PROOF
  <1> DEFINE N == {n \in Name : /\ link[n] # None
                                /\ \/ dev[n] = None
                                   \/ link[n].ino \notin {0, dev[n].ino}}
  <1>1. /\ busy.in = "down" /\ busy' = Idle /\ Forget({}, N)
        /\ UNCHANGED <<wishes, ctrl, saved, soak, uevents, systemd, dev, kept, inos, faults>>
    BY DEF Boot, bounds
  <1> HIDE DEF N
  <1>2. Types /\ SystemdType /\ FilesType /\ DaemonType
    BY DEF IInv, Types
  <1>3. {} \in SUBSET Ctrl
    OBVIOUS
  <1>4. FilesType' /\ FilesShrink /\ \A t \in Ctrl : KeptFiles(t)
    BY <1>1, <1>2, <1>3, ForgetFacts
  <1>5. SystemdType' /\ UnitsCalled /\ \A t \in Ctrl : KeptUnit(t) /\ KeptEnds(t)
    BY <1>1, <1>2, SystemdSame
  <1>6. /\ BusyInv' /\ busy'.in = "no"
        /\ busy' \in [in : {"no", "down", "replace", "release"}, of : Ctrl \cup {None}]
    BY <1>1, IdleBusy
  <1>7. WishType' /\ QueueType' /\ DevType' /\ FaultsType'
    BY <1>1, <1>2, TypesSame
  <1>8. \A t \in Ctrl : KeptDev(t) /\ KeptEntry(t) /\ KeptBusy(t)
    BY <1>1, <1>6, DevSame, EntriesSame DEF KeptBusy
  <1>9. \A t \in Io : IoInv(t)'
    BY <1>4, <1>5, <1>8, AllStep
  <1>10. InoInv' /\ OwnInv' /\ \A t \in Ctrl : DevidInv(t)'
    BY <1>1, <1>4, <1>5, CoreQuiet
  <1> QED
    BY <1>1, <1>2, <1>4, <1>5, <1>6, <1>7, <1>9, <1>10 DEF IInv, Types, DaemonType

(* A step that changes nothing. *)
LEMMA StutterStep ==
  ASSUME IInv, UNCHANGED vars
  PROVE  IInv'
PROOF
  <1>1. UNCHANGED <<wishes, ctrl, saved, busy, soak, uevents, systemd, files, dev, kept, inos,
                    faults>>
    BY DEF vars, daemon, bounds
  <1>2. Types /\ QueueType
    BY DEF IInv, Types
  <1>3. WishType' /\ FaultsType' /\ DevType' /\ uevents' \in Seq(Uevent)
    BY <1>1, <1>2, TypesSame DEF QueueType
  <1>4. InoInv' /\ OwnInv' /\ \A t \in Ctrl : DevidInv(t)' /\ KeptDev(t)
    BY <1>1, DevSame DEF IInv, InoInv, OwnInv, DevidInv, files, systemd
  <1> QED
    BY <1>1, <1>3, <1>4, OutsideStep

(* IInv holds initially. *)
LEMMA InitHolds == Init => IInv
PROOF
  <1> SUFFICES ASSUME Init PROVE IInv
    OBVIOUS
  <1>1. MaxIno \in Nat /\ MaxFault \in Nat /\ DC \subseteq Ctrl
    BY Constants
  <1>2. /\ fc \in {{}, DC} /\ desired \in SUBSET Ctrl /\ excluded = {}
        /\ ctrl = [c \in Ctrl |-> None] /\ saved = {} /\ busy = Idle
        /\ jobs = {} /\ soak = <<>> /\ uevents = <<>> /\ ends = <<>>
        /\ unit = [c \in Ctrl |-> "none"] /\ job = [c \in Ctrl |-> "none"]
        /\ devid = [c \in Ctrl |-> None] /\ open = {} /\ link = [n \in Name |-> None]
        /\ dev = [n \in Name |-> None] /\ kept = {}
        /\ inos = 0 /\ faults = 0
    BY DEF Init
  <1>3. WishType
    BY <1>1, <1>2 DEF WishType
  <1>4. DaemonType /\ busy.in = "no"
    BY <1>2 DEF DaemonType, Idle
  <1>5. QueueType
    BY <1>2 DEF QueueType
  <1>6. SystemdType
    BY <1>2 DEF SystemdType, States
  <1>7. FilesType /\ DevType /\ FaultsType
    BY <1>1, <1>2 DEF FilesType, DevType, FaultsType
  <1>8. BusyInv /\ InoInv /\ OwnInv
    BY <1>2, <1>4 DEF BusyInv, InoInv, OwnInv
  <1>9. \A c \in Ctrl : DevidInv(c)
    BY <1>2 DEF DevidInv
  <1>10. ASSUME NEW c \in Io PROVE IoInv(c)
    <2>1. c \in Ctrl /\ c \notin Tracked /\ c \notin jobs /\ LinksOf(c) = {}
      BY <1>2 DEF Io, Tracked, LinksOf
    <2> QED
      BY <1>2, <1>4, <2>1 DEF IoInv, JobInv, StopInv
  <1> QED
    BY <1>3, <1>4, <1>5, <1>6, <1>7, <1>8, <1>9, <1>10 DEF IInv, Types

(* Every step keeps IInv. *)
LEMMA NextStep ==
  ASSUME Races \subseteq {"rename"}, IInv, [Next]_vars
  PROVE  IInv'
PROOF
  <1>1. CASE Daemon
    BY <1>1, HandleNvmeStep, SoakStep, JobDoneStep, WaitGoneStep, ReleaseStopStep,
       StartCtrlStep, ReleaseStep, TimeoutsStep, DlpReadStep DEF Daemon
  <1>2. CASE Units
    BY <1>2, OpenStep, ConnectStep, ConnectFailsStep, StartPostStep, ExecStopStep,
       StopPostStep DEF Units
  <1>3. CASE Outside
    BY <1>3, DeviceStep, ForeignStep, EditStep, CrashStep, BootStep DEF Outside
  <1>4. CASE UNCHANGED vars
    BY <1>4, StutterStep
  <1> QED
    BY <1>1, <1>2, <1>3, <1>4 DEF Next

(* With every window but "rename" closed, IInv always holds. *)
THEOREM Invariance ==
  ASSUME Races \subseteq {"rename"}
  PROVE  Spec => []IInv
  BY InitHolds, NextStep, PTL DEF Spec

(* What ExecStop disconnects under IInv. *)
LEMMA StopsOwn ==
  ASSUME IInv, NEW c \in Ctrl, NEW n \in Name,
         ExecStop(c), n \in Disconnected(c), ~dev[n].deleting
  PROVE  dev[n].of = c /\ c \in DC /\ dev[n].ino \notin kept
PROOF
  <1>1. unit[c] = "stop"
    BY DEF ExecStop, Step
  <1>2. /\ devid[c] = n /\ link[n] # None /\ link[n].of = c /\ dev[n] # None
        /\ link[n].ino = dev[n].ino
    BY DEF Disconnected, LinkedTo
  <1>3. dev[n].of = c /\ dev[n].ino \notin kept
    BY <1>2 DEF IInv, OwnInv
  <1>4. c \in DC
    <2> SUFFICES ASSUME c \in Io PROVE FALSE
      BY DEF Io
    <2> QED
      BY <1>1 DEF IInv, IoInv, StopInv
  <1> QED
    BY <1>3, <1>4

(* With every window but "rename" closed, for any controllers, device      *)
(* names and number of devices and faults: whatever restarts, crashes,     *)
(* lost devices and reused names come, ExecStop disconnects only the live  *)
(* connection of a DC of its own that no release left up                   *)
(* (connection_commands(), release_unit(), start_ctrl()).                  *)
THEOREM OnlyParkedAreDisconnected ==
  ASSUME Races \subseteq {"rename"}
  PROVE  Spec => OnlyParkedDisconnected
PROOF
  <1> DEFINE P == \A c \in Ctrl, n \in Name :
                     ExecStop(c) /\ n \in Disconnected(c) /\ ~dev[n].deleting =>
                        dev[n].of = c /\ c \in DC /\ dev[n].ino \notin kept
  <1>1. IInv => P
    BY StopsOwn
  <1>2. (Spec => OnlyParkedDisconnected) <=> (Spec => [][P]_vars)
    BY DEF OnlyParkedDisconnected
  <1> HIDE DEF P
  <1>3. Spec => [][P]_vars
    BY <1>1, Invariance, PTL
  <1> QED
    BY <1>2, <1>3

(* The type with what it needs: a handler that waits does so for a         *)
(* controller. This does not depend on Races.                              *)
TInv == Types /\ (busy.in \in {"replace", "release"} => busy.of \in Ctrl)

(* The type of restart_or_start(). *)
LEMMA CalledType ==
  ASSUME Types, NEW c \in Ctrl, NEW e \in Entry, restart_or_start(c, e)
  PROVE  SystemdType' /\ FaultsType' /\ ctrl' \in [Ctrl -> Entry \cup {None}]
PROOF
  <1>1. SystemdType /\ DaemonType
    BY DEF Types
  <1>2. [e EXCEPT !.retry = TRUE] \in Entry
    BY EntryFields
  <1>3. CASE /\ unit_restart(c) \/ unit_start(c)
             /\ ctrl' = [ctrl EXCEPT ![c] = e] /\ UNCHANGED faults
    BY <1>1, <1>3, RestartCall, StartCall, OneEntry, TypesSame
  <1>4. CASE /\ faults < MaxFault /\ faults' = faults + 1
             /\ ctrl' = [ctrl EXCEPT ![c] = [e EXCEPT !.retry = TRUE]] /\ UNCHANGED systemd
    BY <1>1, <1>2, <1>4, SystemdSame, OneEntry, TypesSame
  <1> QED
    BY <1>3, <1>4 DEF restart_or_start

(* The type of on_nvme_remove(). *)
LEMMA RemoveType ==
  ASSUME Types, NEW n \in Name, on_nvme_remove(n)
  PROVE  SystemdType' /\ FilesType' /\ FaultsType' /\ ctrl' \in [Ctrl -> Entry \cup {None}]
PROOF
  <1>1. SystemdType /\ DaemonType /\ FilesType /\ ctrl \in [Ctrl -> Entry \cup {None}]
    BY DEF Types, DaemonType
  <1>2. CASE UNCHANGED <<ctrl, systemd, files, faults>>
    BY <1>1, <1>2, SystemdSame, FilesSame, TypesSame
  <1>3. CASE Forget({}, {n}) /\ UNCHANGED <<ctrl, systemd, faults>>
    <2>1. {} \in SUBSET Ctrl
      OBVIOUS
    <2> QED
      BY <1>1, <1>3, <2>1, ForgetFacts, SystemdSame, TypesSame
  <1>4. ASSUME NEW c \in Tracked, Forget({c}, {n}),
               LET e == [ctrl[c] EXCEPT !.dev = None]
               IN  \/ unit_stop(c) /\ ctrl_remove(c) /\ UNCHANGED faults
                   \/ ctrl' = [ctrl EXCEPT ![c] = e] /\ UNCHANGED <<systemd, faults>>
                   \/ ctrl_remove(c) /\ UNCHANGED <<systemd, faults>>
                   \/ restart_or_start(c, e)
        PROVE  SystemdType' /\ FilesType' /\ FaultsType' /\ ctrl' \in [Ctrl -> Entry \cup {None}]
    <2> DEFINE e == [ctrl[c] EXCEPT !.dev = None]
    <2>1. c \in Ctrl /\ ctrl[c] \in Entry
      BY <1>1 DEF Tracked
    <2>2. e \in Entry
      BY <2>1, EntryFields
    <2>3. \/ unit_stop(c) /\ ctrl_remove(c) /\ UNCHANGED faults
          \/ ctrl' = [ctrl EXCEPT ![c] = e] /\ UNCHANGED <<systemd, faults>>
          \/ ctrl_remove(c) /\ UNCHANGED <<systemd, faults>>
          \/ restart_or_start(c, e)
      BY <1>4
    <2> HIDE DEF e
    <2>4. FilesType'
      BY <1>1, <1>4, <2>1, ForgetFacts
    <2>5. ctrl_remove(c) => ctrl' \in [Ctrl -> Entry \cup {None}]
      BY <1>1, <2>1, OneEntry DEF ctrl_remove
    <2>6. CASE unit_stop(c) /\ ctrl_remove(c) /\ UNCHANGED faults
      BY <1>1, <2>1, <2>4, <2>5, <2>6, StopCall, TypesSame
    <2>7. CASE ctrl' = [ctrl EXCEPT ![c] = e] /\ UNCHANGED <<systemd, faults>>
      BY <1>1, <2>1, <2>2, <2>4, <2>7, SystemdSame, TypesSame, OneEntry
    <2>8. CASE ctrl_remove(c) /\ UNCHANGED <<systemd, faults>>
      BY <1>1, <2>4, <2>5, <2>8, SystemdSame, TypesSame
    <2>9. CASE restart_or_start(c, e)
      BY <2>1, <2>2, <2>4, <2>9, CalledType
    <2> QED
      BY <2>3, <2>6, <2>7, <2>8, <2>9
  <1> QED
    BY <1>2, <1>3, <1>4 DEF on_nvme_remove

(* The type of the handlers of the two event streams. *)
LEMMA EventTypes ==
  ASSUME TInv, handle_nvme \/ soak_timeout \/ on_job_done
  PROVE  TInv'
PROOF
  <1>1. /\ Types /\ SystemdType /\ DaemonType /\ FilesType /\ QueueType
        /\ ctrl \in [Ctrl -> Entry \cup {None}]
    BY DEF TInv, Types, DaemonType
  <1>2. UNCHANGED <<wishes, saved, busy, dev, kept, inos>>
    BY DEF handle_nvme, soak_timeout, on_job_done, bounds
  <1>3. WishType' /\ DevType'
    BY <1>1, <1>2, TypesSame
  <1>4. SystemdType' /\ FilesType' /\ FaultsType' /\ ctrl' \in [Ctrl -> Entry \cup {None}]
        /\ QueueType'
    <2>1. CASE handle_nvme
      <3>1. uevents # <<>> /\ uevents' = Tail(uevents)
        BY <2>1 DEF handle_nvme
      <3>2. PICK n \in Name : n = Head(uevents).name
        BY <1>1, <3>1, QueueFacts
      <3>3. uevents' \in Seq(Uevent)
        BY <1>1, <3>1, QueueFacts
      <3>4. QueueType'
        BY <1>1, <2>1, <3>2, <3>3, QueueFacts DEF handle_nvme, QueueType
      <3>5. CASE UNCHANGED <<ctrl, systemd, files, faults>>
        BY <1>1, <3>4, <3>5, SystemdSame, FilesSame, TypesSame
      <3>6. CASE on_nvme_remove(n)
        BY <1>1, <3>4, <3>6, RemoveType
      <3>7. CASE on_dc_changed(n) /\ UNCHANGED <<systemd, files, faults>>
        <4>1. \A c \in Ctrl : c \in Tracked => Fetch(ctrl[c]) \in Entry
          BY <1>1, FetchFields DEF Tracked
        <4>2. ctrl' \in [Ctrl -> Entry \cup {None}]
          BY <1>1, <3>7, <4>1 DEF on_dc_changed
        <4> QED
          BY <1>1, <3>4, <3>7, <4>2, SystemdSame, FilesSame, TypesSame
      <3> QED
        BY <2>1, <3>2, <3>5, <3>6, <3>7 DEF handle_nvme
    <2>2. CASE soak_timeout
      <3>1. soak # <<>> /\ soak' = Tail(soak) /\ UNCHANGED uevents
        BY <2>2 DEF soak_timeout
      <3>2. PICK n \in Name : n = Head(soak)
        BY <1>1, <3>1, QueueFacts
      <3>3. QueueType'
        BY <1>1, <3>1, QueueFacts DEF QueueType
      <3>4. CASE on_nvme_remove(n)
        BY <1>1, <3>3, <3>4, RemoveType
      <3>5. CASE /\ ctrl' = [c \in Ctrl |->
                               IF c \in Tracked /\ link[n] # None /\ link[n].of = c
                               THEN Linked(c, ctrl[c], n) ELSE ctrl[c]]
                 /\ UNCHANGED <<systemd, files, faults>>
        <4>1. \A c \in Ctrl : c \in Tracked => Linked(c, ctrl[c], n) \in Entry
          BY <1>1, LinkedFields DEF Tracked
        <4>2. ctrl' \in [Ctrl -> Entry \cup {None}]
          BY <1>1, <3>5, <4>1
        <4> QED
          BY <1>1, <3>3, <3>5, <4>2, SystemdSame, FilesSame, TypesSame
      <3> QED
        BY <2>2, <3>2, <3>4, <3>5 DEF soak_timeout
    <2>3. CASE on_job_done
      <3>1. /\ ends # <<>> /\ ends' = Tail(ends)
            /\ UNCHANGED <<soak, uevents, unit, job, jobs, files, faults>>
        BY <2>3 DEF on_job_done, bounds
      <3>2. ends' \in Seq(EndRecord) /\ Head(ends) \in EndRecord
        BY <1>1, <3>1, TailEnds
      <3>3. PICK c \in Ctrl : c = Head(ends).of
        BY <3>2 DEF EndRecord
      <3>4. SystemdType' /\ FilesType' /\ FaultsType' /\ QueueType'
        BY <1>1, <3>1, <3>2, FilesSame, TypesSame DEF SystemdType
      <3> DEFINE f(e) == CASE e = None -> None
                           [] e # None /\ ~Head(ends).done -> [e EXCEPT !.retry = TRUE]
                           [] OTHER -> IF devid[c] \in Name THEN Linked(c, e, devid[c]) ELSE e
      <3>5. ctrl' = [ctrl EXCEPT ![c] = f(ctrl[c])]
        BY <2>3, <3>3, Zenon DEF on_job_done
      <3>6. f(ctrl[c]) \in Entry \cup {None}
        <4>1. ctrl[c] \in Entry \cup {None}
          BY <1>1
        <4>2. CASE ctrl[c] = None
          BY <4>2, Zenon
        <4>3. CASE ctrl[c] # None /\ ~Head(ends).done
          <5>1. f(ctrl[c]) = [ctrl[c] EXCEPT !.retry = TRUE]
            BY <4>3, Zenon
          <5>2. [ctrl[c] EXCEPT !.retry = TRUE] \in Entry
            BY <4>1, <4>3, EntryFields
          <5> QED
            BY <5>1, <5>2, Zenon
        <4>4. CASE ctrl[c] # None /\ Head(ends).done
          <5>1. f(ctrl[c]) = IF devid[c] \in Name THEN Linked(c, ctrl[c], devid[c]) ELSE ctrl[c]
            BY <4>4, Zenon
          <5>2. devid[c] \in Name => Linked(c, ctrl[c], devid[c]) \in Entry
            BY <4>1, <4>4, LinkedFields
          <5> QED
            BY <4>1, <5>1, <5>2, Zenon
        <4> QED
          BY <4>2, <4>3, <4>4
      <3> HIDE DEF f
      <3> QED
        BY <1>1, <3>4, <3>5, <3>6, OneEntry
    <2> QED
      BY <2>1, <2>2, <2>3
  <1> QED
    BY <1>2, <1>3, <1>4 DEF TInv, Types, DaemonType

(* The type of the handlers of one controller. *)
LEMMA OwnStepTypes ==
  ASSUME TInv, NEW c \in Ctrl,
         \/ start_ctrl(c) \/ retry_timeout(c) \/ epcsd_poll_timeout(c)
         \/ \E epcsd \in BOOLEAN : on_dlp_read(c, epcsd)
  PROVE  TInv'
PROOF
  <1>1. /\ Types /\ SystemdType /\ DaemonType /\ FilesType /\ QueueType
        /\ ctrl \in [Ctrl -> Entry \cup {None}]
        /\ busy \in [in : {"no", "down", "replace", "release"}, of : Ctrl \cup {None}]
    BY DEF TInv, Types, DaemonType
  <1>2. UNCHANGED <<wishes, saved, soak, uevents, dev, kept, inos>>
    BY DEF start_ctrl, retry_timeout, epcsd_poll_timeout, Timeout, on_dlp_read, bounds
  <1>3. WishType' /\ QueueType' /\ DevType' /\ saved' \subseteq Ctrl
    BY <1>1, <1>2, TypesSame DEF DaemonType
  <1>4. CASE start_ctrl(c)
    <2>1. FaultsType' /\ NewEntry \in Entry
      BY <1>1, <1>4, TypesSame, Constants DEF start_ctrl, bounds
    <2>2. CASE unit_start(c) /\ ctrl' = [ctrl EXCEPT ![c] = NewEntry] /\ UNCHANGED <<files, busy>>
      <3>1. SystemdType' /\ FilesType' /\ ctrl' \in [Ctrl -> Entry \cup {None}]
        BY <1>1, <2>1, <2>2, StartCall, FilesSame, OneEntry
      <3> QED
        BY <1>3, <2>1, <2>2, <3>1 DEF TInv, Types, DaemonType
    <2>3. CASE /\ Matches(devid[c], c)
               /\ ctrl' = [ctrl EXCEPT ![c] = Linked(c, NewEntry, devid[c])]
               /\ UNCHANGED <<systemd, files, busy>>
      <3>1. Linked(c, NewEntry, devid[c]) \in Entry
        BY <2>1, <2>3, LinkedFields DEF Matches
      <3>2. SystemdType' /\ FilesType' /\ ctrl' \in [Ctrl -> Entry \cup {None}]
        BY <1>1, <2>3, <3>1, SystemdSame, FilesSame, OneEntry
      <3> QED
        BY <1>3, <2>1, <2>3, <3>2 DEF TInv, Types, DaemonType
    <2>4. CASE /\ Forget({c}, LinkedTo(c, {devid[c]})) /\ unit_stop(c)
               /\ busy' = [in |-> "replace", of |-> c] /\ UNCHANGED ctrl
      <3>1. SystemdType' /\ FilesType'
        BY <1>1, <2>4, StopCall, ForgetFacts
      <3>2. /\ busy' \in [in : {"no", "down", "replace", "release"}, of : Ctrl \cup {None}]
            /\ busy'.of \in Ctrl
        BY <2>4
      <3> QED
        BY <1>1, <1>3, <2>1, <2>4, <3>1, <3>2 DEF TInv, Types, DaemonType
    <2> QED
      BY <1>4, <2>2, <2>3, <2>4 DEF start_ctrl
  <1>5. ASSUME NEW e \in Entry, Timeout(c, e) PROVE TInv'
    <2>1. UNCHANGED <<busy, files>>
      BY <1>5 DEF Timeout
    <2>2. SystemdType' /\ FaultsType' /\ ctrl' \in [Ctrl -> Entry \cup {None}]
      <3>1. CASE restart_or_start(c, e)
        BY <1>1, <3>1, CalledType
      <3>2. CASE ctrl_remove(c) /\ UNCHANGED <<systemd, faults>>
        BY <1>1, <3>2, SystemdSame, TypesSame, OneEntry DEF ctrl_remove
      <3> QED
        BY <1>5, <3>1, <3>2 DEF Timeout
    <2>3. FilesType'
      BY <1>1, <2>1, FilesSame
    <2> QED
      BY <1>1, <1>3, <2>1, <2>2, <2>3 DEF TInv, Types, DaemonType
  <1>6. CASE retry_timeout(c)
    <2>1. ctrl[c] \in Entry
      BY <1>1, <1>6 DEF retry_timeout, Tracked
    <2>2. [ctrl[c] EXCEPT !.retry = FALSE] \in Entry
      BY <2>1, EntryFields
    <2> QED
      BY <1>5, <1>6, <2>2 DEF retry_timeout
  <1>7. CASE epcsd_poll_timeout(c)
    <2>1. ctrl[c] \in Entry
      BY <1>1, <1>7 DEF epcsd_poll_timeout, Tracked
    <2>2. [ctrl[c] EXCEPT !.poll = FALSE] \in Entry
      BY <2>1, EntryFields
    <2> QED
      BY <1>5, <1>7, <2>2 DEF epcsd_poll_timeout
  <1>8. ASSUME NEW epcsd \in BOOLEAN, on_dlp_read(c, epcsd) PROVE TInv'
    <2> DEFINE read == [ctrl[c] EXCEPT !.read = "no"]
               e == IF ctrl[c].read = "again" /\ read.dev # None THEN Fetch(read) ELSE read
    <2>1. UNCHANGED <<busy, files, faults>> /\ c \in Tracked
      BY <1>8 DEF on_dlp_read, bounds
    <2>2. FilesType' /\ FaultsType' /\ ctrl[c] \in Entry
      BY <1>1, <2>1, FilesSame, TypesSame DEF Tracked
    <2>3. \/ ctrl' = [ctrl EXCEPT ![c] = e] /\ UNCHANGED systemd
          \/ epcsd_park(c, e)
      BY <1>8 DEF on_dlp_read
    <2>4. read \in Entry
      BY <2>2, EntryFields
    <2> HIDE DEF read
    <2>5. e \in Entry
      BY <2>4, FetchFields
    <2> HIDE DEF e
    <2>6. [e EXCEPT !.poll = TRUE] \in Entry
      BY <2>5, EntryFields
    <2>7. SystemdType' /\ ctrl' \in [Ctrl -> Entry \cup {None}]
      <3>1. CASE ctrl' = [ctrl EXCEPT ![c] = e] /\ UNCHANGED systemd
        BY <1>1, <2>5, <3>1, SystemdSame, OneEntry
      <3>2. CASE ctrl' = [ctrl EXCEPT ![c] = [e EXCEPT !.poll = TRUE]] /\ unit_stop(c)
        BY <1>1, <2>6, <3>2, StopCall, OneEntry
      <3> QED
        BY <2>3, <3>1, <3>2 DEF epcsd_park
    <2> QED
      BY <1>1, <1>3, <2>1, <2>2, <2>7 DEF TInv, Types, DaemonType
  <1> QED
    BY <1>4, <1>6, <1>7, <1>8

(* The type of the handlers that wait. *)
LEMMA WaitTypes ==
  ASSUME TInv, unit_wait_gone \/ release_stop \/ \E c \in Ctrl : release_unit(c)
  PROVE  TInv'
PROOF
  <1>1. /\ Types /\ SystemdType /\ DaemonType /\ FilesType /\ QueueType /\ DevType
        /\ ctrl \in [Ctrl -> Entry \cup {None}] /\ saved \subseteq Ctrl
    BY DEF TInv, Types, DaemonType
  <1>2. UNCHANGED <<wishes, soak, uevents, dev, inos>>
    BY DEF unit_wait_gone, release_stop, release_unit, bounds
  <1>3. WishType' /\ QueueType'
    BY <1>1, <1>2, TypesSame
  <1>4. CASE unit_wait_gone
    <2>1. /\ busy.in = "replace" /\ busy' = Idle /\ UNCHANGED <<saved, files, kept>>
      BY <1>4 DEF unit_wait_gone
    <2>2. PICK c \in Ctrl : c = busy.of
      BY <2>1 DEF TInv
    <2>3. FilesType' /\ DevType' /\ saved' \subseteq Ctrl
      BY <1>1, <1>2, <2>1, FilesSame, TypesSame
    <2>4. SystemdType' /\ FaultsType' /\ ctrl' \in [Ctrl -> Entry \cup {None}]
      <3>1. CASE unit_start(c) /\ ctrl' = [ctrl EXCEPT ![c] = NewEntry] /\ UNCHANGED faults
        BY <1>1, <3>1, StartCall, TypesSame, OneEntry, Constants
      <3>2. CASE faults < MaxFault /\ faults' = faults + 1 /\ UNCHANGED <<systemd, ctrl>>
        BY <1>1, <3>2, SystemdSame, TypesSame
      <3> QED
        BY <1>4, <2>2, <3>1, <3>2 DEF unit_wait_gone
    <2>5. /\ busy'.in = "no"
          /\ busy' \in [in : {"no", "down", "replace", "release"}, of : Ctrl \cup {None}]
      BY <2>1, IdleBusy
    <2> QED
      BY <1>3, <2>3, <2>4, <2>5 DEF TInv, Types, DaemonType
  <1>5. CASE release_stop
    <2>1. /\ busy.in = "release" /\ busy' = Idle /\ UNCHANGED <<ctrl, saved, files, kept, faults>>
      BY <1>5 DEF release_stop, bounds
    <2>2. PICK c \in Ctrl : c = busy.of
      BY <2>1 DEF TInv
    <2>3. SystemdType'
      BY <1>1, <1>5, <2>2, StopCall DEF release_stop
    <2>4. FilesType' /\ DevType' /\ FaultsType'
      BY <1>1, <1>2, <2>1, FilesSame, TypesSame
    <2>5. /\ busy'.in = "no"
          /\ busy' \in [in : {"no", "down", "replace", "release"}, of : Ctrl \cup {None}]
      BY <2>1, IdleBusy
    <2> QED
      BY <1>1, <1>3, <2>1, <2>3, <2>4, <2>5 DEF TInv, Types, DaemonType
  <1>6. ASSUME NEW c \in Ctrl, release_unit(c) PROVE TInv'
    <2> DEFINE up == {dev[m].ino : m \in {m \in Name : Matches(m, c)}}
    <2>1. /\ ctrl' = [ctrl EXCEPT ![c] = None] /\ saved' = saved \ {c}
          /\ busy' = [in |-> "release", of |-> c] /\ UNCHANGED <<systemd, faults>>
      BY <1>6 DEF release_unit, ctrl_remove, bounds
    <2>2. kept' = kept \cup up /\ \E N : Forget({c}, N)
      BY <1>6 DEF release_unit, ReleaseFiles
    <2>3. up \subseteq 1..MaxIno
      BY <1>1 DEF DevType, Device, Matches
    <2> HIDE DEF up
    <2>4. DevType'
      BY <1>1, <1>2, <2>2, <2>3 DEF DevType
    <2>5. FilesType'
      BY <1>1, <2>2, ForgetFacts
    <2>6. SystemdType' /\ FaultsType' /\ ctrl' \in [Ctrl -> Entry \cup {None}]
      BY <1>1, <2>1, SystemdSame, TypesSame, OneEntry
    <2>7. /\ busy' \in [in : {"no", "down", "replace", "release"}, of : Ctrl \cup {None}]
          /\ busy'.of \in Ctrl
      BY <2>1
    <2> QED
      BY <1>1, <1>3, <2>1, <2>4, <2>5, <2>6, <2>7 DEF TInv, Types, DaemonType
  <1> QED
    BY <1>4, <1>5, <1>6

(* The type of the steps of the units. *)
LEMMA UnitTypes ==
  ASSUME TInv, Units
  PROVE  TInv'
PROOF
  <1>1. /\ Types /\ SystemdType /\ DaemonType /\ FilesType /\ QueueType /\ DevType
        /\ devid \in [Ctrl -> Name \cup {None, Empty}] /\ dev \in [Name -> Device \cup {None}]
    BY DEF TInv, Types, FilesType, DevType
  <1>2. PICK c \in Ctrl : \/ open_devid_file(c) \/ libnvmf_connect(c) \/ ConnectFails(c)
                          \/ ExecStartPost(c) \/ ExecStop(c) \/ ExecStopPost(c)
    BY DEF Units
  <1>3. UNCHANGED <<wishes, ctrl, saved, busy, soak>>
    BY <1>2 DEF open_devid_file, libnvmf_connect, ConnectFails, ExecStartPost, ExecStop,
                ExecStopPost, daemon
  <1>4. ASSUME SystemdType', FilesType', DevType', FaultsType', uevents' \in Seq(Uevent)
        PROVE  TInv'
    <2>1. WishType' /\ DaemonType' /\ QueueType'
      BY <1>1, <1>3, <1>4, TypesSame DEF DaemonType, QueueType
    <2> QED
      BY <1>3, <1>4, <2>1 DEF TInv, Types
  <1>5. CASE open_devid_file(c)
    <2>1. /\ unit' = [unit EXCEPT ![c] = "connect"] /\ open' = open \cup {c}
          /\ devid' = [devid EXCEPT ![c] = IF @ = None THEN Empty ELSE @]
          /\ UNCHANGED <<uevents, job, jobs, ends, link, dev, kept, inos, faults>>
      BY <1>5 DEF open_devid_file, bounds
    <2>2. SystemdType' /\ FilesType'
      BY <1>1, <2>1 DEF SystemdType, FilesType, States
    <2>3. DevType' /\ FaultsType' /\ uevents' \in Seq(Uevent)
      BY <1>1, <2>1, TypesSame DEF QueueType
    <2> QED
      BY <1>4, <2>2, <2>3
  <1>6. CASE libnvmf_connect(c)
    <2> DEFINE found == {n \in Name : Matches(n, c)}
    <2>1. /\ unit' = [unit EXCEPT ![c] = "post"] /\ open' = open \ {c}
          /\ UNCHANGED <<job, jobs, ends, link, faults>>
      BY <1>6 DEF libnvmf_connect
    <2>2. /\ \/ found # {} /\ UNCHANGED <<dev, uevents, inos>>
             \/ found = {} /\ NewDevice(c)
          /\ kept' \subseteq kept
      BY <1>6 DEF libnvmf_connect
    <2>3. PICK n : n = IF found # {} THEN CHOOSE m \in found : TRUE ELSE NewName
      OBVIOUS
    <2>4. devid' = [devid EXCEPT ![c] = IF c \in open THEN n ELSE @]
      BY <1>6, <2>3 DEF libnvmf_connect
    <2>5. n \in Name /\ DevType' /\ uevents' \in Seq(Uevent)
      <3>1. CASE found # {} /\ UNCHANGED <<dev, uevents, inos>>
        <4>1. n = CHOOSE m \in found : TRUE
          BY <2>3, <3>1
        <4>2. n \in found
          BY <3>1, <4>1, Zenon
        <4> QED
          BY <1>1, <2>2, <3>1, <4>2 DEF DevType, QueueType
      <3>2. CASE found = {} /\ NewDevice(c)
        <4>1. n = NewName
          BY <2>3, <3>2
        <4> QED
          BY <1>1, <2>2, <3>2, <4>1, NewDeviceType DEF DevType
      <3> QED
        BY <2>2, <3>1, <3>2
    <2>6. SystemdType' /\ FaultsType'
      BY <1>1, <2>1, TypesSame DEF SystemdType, States
    <2>7. FilesType'
      BY <1>1, <2>1, <2>4, <2>5 DEF FilesType
    <2> QED
      BY <1>4, <2>5, <2>6, <2>7
  <1>7. CASE ConnectFails(c)
    <2>1. /\ unit' = [unit EXCEPT ![c] = "stop-post"] /\ open' = open \ {c}
          /\ devid' = [devid EXCEPT ![c] = IF @ = Empty THEN None ELSE @]
          /\ faults < MaxFault /\ faults' = faults + 1
          /\ UNCHANGED <<uevents, job, jobs, ends, link, dev, kept, inos>>
      BY <1>7 DEF ConnectFails
    <2>2. SystemdType' /\ FilesType'
      BY <1>1, <2>1 DEF SystemdType, FilesType, States
    <2>3. DevType' /\ FaultsType' /\ uevents' \in Seq(Uevent)
      BY <1>1, <2>1, TypesSame DEF QueueType
    <2> QED
      BY <1>4, <2>2, <2>3
  <1>8. CASE ExecStartPost(c)
    <2>0. PICK n \in Name \cup {None, Empty} : n = devid[c]
      BY <1>1
    <2> DEFINE gone == n \in Name /\ dev[n] = None
               r == [of |-> c, ino |-> IF gone THEN 0 ELSE dev[n].ino]
    <2>1. /\ link' = [m \in Name |-> IF m # n THEN link[m] ELSE r]
          /\ \/ unit' = [unit EXCEPT ![c] = "active"] /\ JobEnds(c, TRUE)
             \/ unit' = [unit EXCEPT ![c] = "stop-post"] /\ UNCHANGED <<job, jobs, ends>>
          /\ UNCHANGED <<uevents, devid, open, dev, kept, inos, faults>>
      BY <1>8, <2>0 DEF ExecStartPost, bounds
    <2>2. n \in Name => r \in LinkRecord
      <3>1. MaxIno \in Nat
        BY Constants
      <3>2. n \in Name /\ ~gone => dev[n].ino \in 0..MaxIno
        BY <1>1, <3>1 DEF Device
      <3> QED
        BY <3>1, <3>2 DEF LinkRecord
    <2> HIDE DEF r
    <2>3. FilesType'
      BY <1>1, <2>1, <2>2 DEF FilesType
    <2>4. SystemdType'
      BY <1>1, <2>1, JobEndsCall, OneStateStep DEF States
    <2>5. DevType' /\ FaultsType' /\ uevents' \in Seq(Uevent)
      BY <1>1, <2>1, TypesSame DEF QueueType
    <2> QED
      BY <1>4, <2>3, <2>4, <2>5
  <1>9. CASE ExecStop(c)
    <2>1. UNCHANGED <<job, jobs, ends, files, kept, inos, faults>>
      BY <1>9 DEF ExecStop, bounds
    <2>2. FilesType' /\ FaultsType'
      BY <1>1, <2>1, FilesSame, TypesSame
    <2>3. ASSUME NEW n \in Disconnected(c), dev' = [dev EXCEPT ![n].deleting = TRUE],
                 Emit("remove", n), UNCHANGED unit
          PROVE  TInv'
      <3>1. n \in Name /\ dev[n] \in Device
        BY <1>1 DEF Disconnected, LinkedTo
      <3>2. [dev[n] EXCEPT !.deleting = TRUE] \in Device
        BY <3>1 DEF Device
      <3>3. DevType'
        BY <1>1, <2>1, <2>3, <3>1, <3>2 DEF DevType
      <3>4. SystemdType' /\ uevents' \in Seq(Uevent)
        BY <1>1, <2>1, <2>3, <3>1, EmitType DEF SystemdType
      <3> QED
        BY <1>4, <2>2, <3>3, <3>4
    <2>4. CASE unit' = [unit EXCEPT ![c] = "stop-post"] /\ UNCHANGED <<dev, uevents>>
      <3>1. SystemdType'
        BY <1>1, <2>1, <2>4, OneStateStep DEF States
      <3>2. DevType' /\ uevents' \in Seq(Uevent)
        BY <1>1, <2>1, <2>4 DEF QueueType, DevType
      <3> QED
        BY <1>4, <2>2, <3>1, <3>2
    <2> QED
      BY <1>9, <2>3, <2>4 DEF ExecStop
  <1>10. CASE ExecStopPost(c)
    <2>1. /\ Forget({c}, LinkedTo(c, {devid[c]})) /\ UNCHANGED <<uevents, dev, kept, inos, faults>>
          /\ \/ /\ unit' = [unit EXCEPT ![c] = "start"] /\ job' = [job EXCEPT ![c] = "start"]
                /\ UNCHANGED <<jobs, ends>>
             \/ unit' = [unit EXCEPT ![c] = "none"] /\ JobEnds(c, FALSE)
      BY <1>10 DEF ExecStopPost, bounds
    <2>2. FilesType'
      BY <1>1, <2>1, ForgetFacts
    <2>3. SystemdType'
      <3>1. CASE /\ unit' = [unit EXCEPT ![c] = "start"] /\ job' = [job EXCEPT ![c] = "start"]
                 /\ UNCHANGED <<jobs, ends>>
        BY <1>1, <3>1 DEF SystemdType, States
      <3>2. CASE unit' = [unit EXCEPT ![c] = "none"] /\ JobEnds(c, FALSE)
        BY <1>1, <3>2, JobEndsCall DEF States
      <3> QED
        BY <2>1, <3>1, <3>2
    <2>4. DevType' /\ FaultsType' /\ uevents' \in Seq(Uevent)
      BY <1>1, <2>1, TypesSame DEF QueueType
    <2> QED
      BY <1>4, <2>2, <2>3, <2>4
  <1> QED
    BY <1>2, <1>5, <1>6, <1>7, <1>8, <1>9, <1>10

(* The type of the steps outside. *)
LEMMA OutsideTypes ==
  ASSUME TInv, Outside
  PROVE  TInv'
PROOF
  <1>1. /\ Types /\ SystemdType /\ DaemonType /\ FilesType /\ QueueType /\ DevType /\ WishType
        /\ dev \in [Name -> Device \cup {None}]
    BY DEF TInv, Types, DevType
  <1>2. ASSUME UNCHANGED <<ctrl, saved, busy, soak, systemd, files>>,
               WishType', DevType', FaultsType', uevents' \in Seq(Uevent)
        PROVE  TInv'
    <2>1. DaemonType' /\ QueueType' /\ SystemdType' /\ FilesType'
      BY <1>1, <1>2, SystemdSame, FilesSame DEF DaemonType, QueueType
    <2> QED
      BY <1>2, <2>1 DEF TInv, Types
  <1>3. ASSUME NEW n \in Name, DeviceLost(n) PROVE TInv'
    <2>1. /\ dev[n] # None /\ dev' = [dev EXCEPT ![n].deleting = TRUE] /\ Emit("remove", n)
          /\ UNCHANGED <<wishes, ctrl, saved, busy, soak, systemd, files, kept, inos, faults>>
      BY <1>3 DEF DeviceLost, daemon, bounds
    <2>2. [dev[n] EXCEPT !.deleting = TRUE] \in Device
      <3>1. dev[n] \in Device
        BY <1>1, <2>1
      <3> QED
        BY <3>1 DEF Device
    <2>3. DevType'
      BY <1>1, <2>1, <2>2 DEF DevType
    <2>4. WishType' /\ FaultsType' /\ uevents' \in Seq(Uevent)
      BY <1>1, <2>1, TypesSame, EmitType
    <2> QED
      BY <1>2, <2>1, <2>3, <2>4
  <1>4. ASSUME NEW n \in Name, DeviceGone(n) PROVE TInv'
    <2>1. /\ dev' = [dev EXCEPT ![n] = None]
          /\ UNCHANGED <<wishes, ctrl, saved, busy, soak, uevents, systemd, files, kept, inos,
                         faults>>
      BY <1>4 DEF DeviceGone, daemon, bounds
    <2>2. DevType'
      BY <1>1, <2>1 DEF DevType
    <2>3. WishType' /\ FaultsType' /\ uevents' \in Seq(Uevent)
      BY <1>1, <2>1, TypesSame DEF QueueType
    <2> QED
      BY <1>2, <2>1, <2>2, <2>3
  <1>5. ASSUME NEW n \in Name, DeviceChanged(n) PROVE TInv'
    <2>1. /\ faults < MaxFault /\ faults' = faults + 1 /\ Emit("change", n)
          /\ UNCHANGED <<wishes, ctrl, saved, busy, soak, systemd, files, dev, kept, inos>>
      BY <1>5 DEF DeviceChanged, daemon
    <2>2. WishType' /\ DevType' /\ FaultsType' /\ uevents' \in Seq(Uevent)
      BY <1>1, <2>1, TypesSame, EmitType
    <2> QED
      BY <1>2, <2>1, <2>2
  <1>6. CASE ForeignConnect
    <2>1. /\ faults < MaxFault /\ faults' = faults + 1 /\ NewDevice(Foreign)
          /\ UNCHANGED <<wishes, ctrl, saved, busy, soak, systemd, files, kept>>
      BY <1>6 DEF ForeignConnect, daemon
    <2>2. DevType' /\ uevents' \in Seq(Uevent)
      BY <1>1, <2>1, NewDeviceType DEF DevType
    <2>3. WishType' /\ FaultsType'
      BY <1>1, <2>1, TypesSame
    <2> QED
      BY <1>2, <2>1, <2>2, <2>3
  <1>7. ASSUME NEW c \in Ctrl, Edit(c) PROVE TInv'
    <2>1. /\ faults < MaxFault /\ faults' = faults + 1
          /\ UNCHANGED <<fc, ctrl, saved, busy, soak, uevents, systemd, files, dev, kept, inos>>
          /\ \/ desired' = (desired \ {c}) \cup ({c} \ desired) /\ UNCHANGED excluded
             \/ excluded' = (excluded \ {c}) \cup ({c} \ excluded) /\ UNCHANGED desired
      BY <1>7 DEF Edit, daemon
    <2>2. WishType'
      BY <1>1, <2>1 DEF WishType
    <2>3. FaultsType' /\ DevType' /\ uevents' \in Seq(Uevent)
      BY <1>1, <2>1, TypesSame DEF QueueType
    <2> QED
      BY <1>2, <2>1, <2>2, <2>3
  <1>8. CASE Crash
    <2>1. /\ faults < MaxFault /\ faults' = faults + 1
          /\ busy' = [in |-> "down", of |-> None] /\ ctrl' = [c \in Ctrl |-> None]
          /\ saved' = Tracked \cap desired
          /\ soak' = <<>> /\ uevents' = <<>> /\ ends' = <<>> /\ jobs' = {}
          /\ UNCHANGED <<wishes, unit, job, files, dev, kept, inos>>
      BY <1>8 DEF Crash
    <2>2. WishType' /\ FaultsType' /\ DevType' /\ FilesType'
      BY <1>1, <2>1, TypesSame, FilesSame
    <2>3. QueueType' /\ SystemdType'
      BY <1>1, <2>1 DEF QueueType, SystemdType
    <2>4. DaemonType' /\ busy'.in = "down"
      BY <2>1 DEF DaemonType, Tracked
    <2> QED
      BY <2>2, <2>3, <2>4 DEF TInv, Types
  <1>9. CASE Boot
    <2>1. /\ busy' = Idle /\ \E N : Forget({}, N)
          /\ UNCHANGED <<wishes, ctrl, saved, soak, uevents, systemd, dev, kept, inos, faults>>
      BY <1>9 DEF Boot, bounds
    <2>2. FilesType'
      <3>1. {} \in SUBSET Ctrl
        OBVIOUS
      <3> QED
        BY <1>1, <2>1, <3>1, ForgetFacts
    <2>3. SystemdType' /\ WishType' /\ QueueType' /\ DevType' /\ FaultsType'
      BY <1>1, <2>1, SystemdSame, TypesSame
    <2>4. DaemonType' /\ busy'.in = "no"
      BY <1>1, <2>1, IdleBusy DEF DaemonType
    <2> QED
      BY <2>2, <2>3, <2>4 DEF TInv, Types
  <1> QED
    BY <1>3, <1>4, <1>5, <1>6, <1>7, <1>8, <1>9 DEF Outside

(* The type of every step. *)
LEMMA TypesStep ==
  ASSUME TInv, [Next]_vars
  PROVE  TInv'
PROOF
  <1>1. CASE Daemon
    BY <1>1, EventTypes, OwnStepTypes, WaitTypes DEF Daemon
  <1>2. CASE UNCHANGED vars
    <2>1. UNCHANGED <<wishes, ctrl, saved, busy, soak, uevents, systemd, files, dev, kept, inos,
                      faults>>
      BY <1>2 DEF vars, daemon, bounds
    <2>2. Types /\ SystemdType /\ FilesType /\ DaemonType
      BY DEF TInv, Types
    <2>3. SystemdType' /\ FilesType' /\ WishType' /\ QueueType' /\ DevType' /\ FaultsType'
      BY <2>1, <2>2, SystemdSame, FilesSame, TypesSame
    <2> QED
      BY <2>1, <2>2, <2>3 DEF TInv, Types, DaemonType
  <1> QED
    BY <1>1, <1>2, UnitTypes, OutsideTypes DEF Next

(* For any constants, with any windows open, every variable keeps its type. *)
THEOREM TypeCorrect == Spec => []TypeOK
PROOF
  <1>1. Init => TInv
    BY InitHolds DEF IInv, BusyInv, TInv
  <1>2. TInv => TypeOK
    BY DEF TInv, Types, TypeOK, WishType, DaemonType, QueueType, SystemdType, FilesType,
           DevType, FaultsType, States, Uevent, EndRecord, LinkRecord
  <1> QED
    BY <1>1, <1>2, TypesStep, PTL DEF Spec

===============================================================================
